-------------------------- MODULE ZeroCopy_proofs --------------------------
(***************************************************************************)
(* Proofs about ZeroCopy, for all trees, flags and depths.  What a frame   *)
(* holds depends on the point in the invocation; IndInv counts the frames  *)
(* that hold something and ties the running frame to pc.  OrderInv adds    *)
(* where the last report lies, seen from the running frame, and WalkInv    *)
(* what has been reported of the directories that the frames walk and of   *)
(* those they have walked.                                                 *)
(***************************************************************************)
EXTENDS ZeroCopy, SequenceTheorems, FiniteSetTheorems, TLAPS

(* A stack without its top.                                                  *)
LEMMA Shorter ==
  ASSUME NEW S, NEW s \in Seq(S), s # <<>>
  PROVE  LET t == SubSeq(s, 1, Len(s) - 1)
         IN  /\ t \in Seq(S) /\ Len(t) = Len(s) - 1
             /\ \A k \in 1..Len(t) : t[k] = s[k] /\ k \in 1..Len(s)
<1>1. Len(s) \in Nat /\ Len(s) >= 1
  OBVIOUS
<1>2. \A k \in 1..Len(s) - 1 : s[k] \in S /\ k \in 1..Len(s)
  BY <1>1
<1>3. Len(s) - 1 \in Int /\ 1 \in Int
  BY <1>1
<1>4. /\ SubSeq(s, 1, Len(s) - 1) \in Seq(S)
      /\ Len(SubSeq(s, 1, Len(s) - 1)) = IF 1 <= Len(s) - 1 THEN (Len(s) - 1) - 1 + 1 ELSE 0
      /\ \A k \in 1..(Len(s) - 1) - 1 + 1 : SubSeq(s, 1, Len(s) - 1)[k] = s[1 + k - 1]
  BY <1>2, <1>3, SubSeqProperties
<1>5. Len(SubSeq(s, 1, Len(s) - 1)) = Len(s) - 1
  <2>1. ASSUME NEW n \in Nat, NEW m, n >= 1, m = IF 1 <= n - 1 THEN (n - 1) - 1 + 1 ELSE 0
        PROVE  m = n - 1
    BY <2>1
  <2>2. Len(SubSeq(s, 1, Len(s) - 1)) = IF 1 <= Len(s) - 1 THEN (Len(s) - 1) - 1 + 1 ELSE 0
    BY <1>4
  <2> QED
    BY <1>1, <2>1, <2>2
<1>6. ASSUME NEW k \in 1..Len(s) - 1
      PROVE  SubSeq(s, 1, Len(s) - 1)[k] = s[k]
  <2>1. k \in 1..(Len(s) - 1) - 1 + 1 /\ 1 + k - 1 = k
    BY <1>1
  <2> QED
    BY <1>4, <2>1
<1> QED
  BY <1>2, <1>4, <1>5, <1>6

(* A stack with one more on top.                                             *)
LEMMA Taller ==
  ASSUME NEW S, NEW s \in Seq(S), NEW f \in S
  PROVE  LET t == Append(s, f)
         IN  /\ t \in Seq(S) /\ Len(t) = Len(s) + 1 /\ t # <<>> /\ t[Len(t)] = f
             /\ \A k \in 1..Len(s) : t[k] = s[k] /\ k \in 1..Len(t)
<1>1. Len(s) \in Nat
  OBVIOUS
<1> QED
  BY <1>1

(* A stack with another top.                                                 *)
LEMMA NewTop ==
  ASSUME NEW S, NEW s \in Seq(S), s # <<>>, NEW f \in S
  PROVE  LET t == [s EXCEPT ![Len(s)] = f]
         IN  /\ t \in Seq(S) /\ Len(t) = Len(s) /\ t # <<>> /\ t[Len(s)] = f
             /\ \A k \in 1..Len(s) : k # Len(s) => t[k] = s[k]
<1>1. Len(s) \in Nat /\ Len(s) >= 1
  OBVIOUS
<1> QED
  BY <1>1

PathHolders(s) == {k \in 1..Len(s) : s[k].path = "held"}
ContextHolders(s) == {k \in 1..Len(s) : s[k].ctx = "held"}

(* The counters of the three resources are the frames that hold them.        *)
Counted ==
  /\ openHandles = Depth
  /\ paths = Cardinality(PathHolders(stack))
  /\ contexts = Cardinality(ContextHolders(stack))

(* The running frame holds nothing between two entries.                      *)
RunningFrame ==
  /\ pc = "idle" => stack = <<>>
  /\ pc \in {"enumerate", "entry", "decide", "descend"} =>
       /\ stack # <<>>
       /\ Top.path = "none"
       /\ (pc # "descend" => Top.ctx = "none")
  /\ pc = "descend" => Top.ctx = "held"
  /\ pc \in {"entry", "decide", "descend"} => Top.pos \in 1..Len(Entries[Top.dir])

IndInv == TypeOK /\ Counted /\ RunningFrame

-----------------------------------------------------------------------------
(* Lemmas about the stack                                                    *)

LEMMA Finite ==
  ASSUME NEW s \in Seq(Frame)
  PROVE  /\ IsFiniteSet(PathHolders(s)) /\ Cardinality(PathHolders(s)) \in Nat
         /\ IsFiniteSet(ContextHolders(s)) /\ Cardinality(ContextHolders(s)) \in Nat
<1>1. IsFiniteSet(1..Len(s))
  <2>1. 1 \in Int /\ Len(s) \in Int
    OBVIOUS
  <2> QED
    BY <2>1, FS_Interval
<1>2. PathHolders(s) \in SUBSET (1..Len(s)) /\ ContextHolders(s) \in SUBSET (1..Len(s))
  BY DEF PathHolders, ContextHolders
<1>3. IsFiniteSet(PathHolders(s)) /\ IsFiniteSet(ContextHolders(s))
  BY <1>1, <1>2, FS_Subset
<1> QED
  BY <1>3, FS_CardinalityType

(* What a frame counts for.                                                  *)
PathsOf(f) == IF f.path = "held" THEN 1 ELSE 0
ContextsOf(f) == IF f.ctx = "held" THEN 1 ELSE 0

LEMMA Pop ==
  ASSUME NEW s \in Seq(Frame), s # <<>>,
         NEW t, t = SubSeq(s, 1, Len(s) - 1), NEW f, f = s[Len(s)]
  PROVE  /\ t \in Seq(Frame) /\ Len(t) = Len(s) - 1
         /\ Cardinality(PathHolders(t)) = Cardinality(PathHolders(s)) - PathsOf(f)
         /\ Cardinality(ContextHolders(t)) = Cardinality(ContextHolders(s)) - ContextsOf(f)
<1>1. Len(s) \in Nat /\ Len(s) >= 1
  OBVIOUS
<1>2. /\ t \in Seq(Frame) /\ Len(t) = Len(s) - 1
      /\ \A k \in 1..Len(t) : t[k] = s[k]
  BY Shorter
<1>3. 1..Len(s) = 1..Len(t) \cup {Len(s)} /\ Len(s) \notin 1..Len(t)
  BY <1>1, <1>2
<1>4. PathHolders(t) = PathHolders(s) \ {Len(s)} /\ ContextHolders(t) = ContextHolders(s) \ {Len(s)}
  BY <1>2, <1>3 DEF PathHolders, ContextHolders
<1>5. /\ Len(s) \in PathHolders(s) <=> f.path = "held"
      /\ Len(s) \in ContextHolders(s) <=> f.ctx = "held"
  BY <1>3 DEF PathHolders, ContextHolders
<1>6. /\ Cardinality(PathHolders(t)) =
           IF f.path = "held" THEN Cardinality(PathHolders(s)) - 1 ELSE Cardinality(PathHolders(s))
  <2>1. IsFiniteSet(PathHolders(s))
    BY Finite
  <2>2. Cardinality(PathHolders(s) \ {Len(s)}) =
          IF Len(s) \in PathHolders(s) THEN Cardinality(PathHolders(s)) - 1 ELSE Cardinality(PathHolders(s))
    BY <2>1, FS_RemoveElement
  <2> QED
    BY <1>4, <1>5, <2>2
<1>7. /\ Cardinality(ContextHolders(t)) =
           IF f.ctx = "held" THEN Cardinality(ContextHolders(s)) - 1 ELSE Cardinality(ContextHolders(s))
  <2>1. IsFiniteSet(ContextHolders(s))
    BY Finite
  <2>2. Cardinality(ContextHolders(s) \ {Len(s)}) =
          IF Len(s) \in ContextHolders(s) THEN Cardinality(ContextHolders(s)) - 1 ELSE Cardinality(ContextHolders(s))
    BY <2>1, FS_RemoveElement
  <2> QED
    BY <1>4, <1>5, <2>2
<1> QED
  BY <1>2, <1>6, <1>7, Finite DEF PathsOf, ContextsOf

LEMMA Push ==
  ASSUME NEW s \in Seq(Frame), NEW f \in Frame, f.path = "none", f.ctx = "none",
         NEW t, t = Append(s, f)
  PROVE  /\ t \in Seq(Frame) /\ Len(t) = Len(s) + 1 /\ t # <<>> /\ t[Len(t)] = f
         /\ PathHolders(t) = PathHolders(s) /\ ContextHolders(t) = ContextHolders(s)
<1>1. Len(s) \in Nat
  OBVIOUS
<1>2. /\ t \in Seq(Frame) /\ Len(t) = Len(s) + 1 /\ t[Len(t)] = f
      /\ \A k \in 1..Len(s) : t[k] = s[k]
  BY <1>1
<1>3. 1..Len(t) = 1..Len(s) \cup {Len(t)}
  BY <1>1, <1>2
<1>4. PathHolders(t) = PathHolders(s) /\ ContextHolders(t) = ContextHolders(s)
  BY <1>2, <1>3 DEF PathHolders, ContextHolders
<1>5. t # <<>>
  BY <1>1, <1>2
<1> QED
  BY <1>2, <1>4, <1>5

(* t is s with f for its top.                                                *)
Exchanged(s, t, f) ==
  /\ t \in Seq(Frame) /\ Len(t) = Len(s) /\ t[Len(s)] = f
  /\ \A k \in 1..Len(s) : k # Len(s) => t[k] = s[k]

LEMMA Exchange ==
  ASSUME NEW s, s \in Seq(Frame), s # <<>>, NEW t, NEW f, Exchanged(s, t, f),
         NEW g, g = s[Len(s)]
  PROVE  /\ Cardinality(PathHolders(t)) = Cardinality(PathHolders(s)) - PathsOf(g) + PathsOf(f)
         /\ Cardinality(ContextHolders(t)) = Cardinality(ContextHolders(s)) - ContextsOf(g) + ContextsOf(f)
<1>1. Len(s) \in Nat /\ Len(s) >= 1
  OBVIOUS
<1> DEFINE n == Len(s)
           P == PathHolders(s) \ {n}
           C == ContextHolders(s) \ {n}
<1>2. n \in 1..Len(s) /\ n \in 1..Len(t)
  BY <1>1 DEF Exchanged
<1>3. /\ PathHolders(t) = IF f.path = "held" THEN P \cup {n} ELSE P
      /\ ContextHolders(t) = IF f.ctx = "held" THEN C \cup {n} ELSE C
  BY <1>2 DEF PathHolders, ContextHolders, Exchanged
<1>4. /\ n \in PathHolders(s) <=> g.path = "held"
      /\ n \in ContextHolders(s) <=> g.ctx = "held"
  BY <1>2 DEF PathHolders, ContextHolders
<1>5. /\ IsFiniteSet(P) /\ n \notin P
      /\ Cardinality(P) =
           IF g.path = "held" THEN Cardinality(PathHolders(s)) - 1 ELSE Cardinality(PathHolders(s))
      /\ IsFiniteSet(C) /\ n \notin C
      /\ Cardinality(C) =
           IF g.ctx = "held" THEN Cardinality(ContextHolders(s)) - 1 ELSE Cardinality(ContextHolders(s))
  BY <1>4, Finite, FS_RemoveElement
<1>6. /\ Cardinality(P \cup {n}) = Cardinality(P) + 1
      /\ Cardinality(C \cup {n}) = Cardinality(C) + 1
  BY <1>5, FS_AddElement
<1>7. /\ Cardinality(PathHolders(s)) \in Nat /\ Cardinality(P) \in Nat
      /\ Cardinality(ContextHolders(s)) \in Nat /\ Cardinality(C) \in Nat
  BY <1>5, Finite, FS_CardinalityType
<1>8. Cardinality(PathHolders(t)) = Cardinality(PathHolders(s)) - PathsOf(g) + PathsOf(f)
  BY <1>3, <1>5, <1>6, <1>7 DEF PathsOf
<1>9. Cardinality(ContextHolders(t)) = Cardinality(ContextHolders(s)) - ContextsOf(g) + ContextsOf(f)
  BY <1>3, <1>5, <1>6, <1>7 DEF ContextsOf
<1> QED
  BY <1>8, <1>9

(* Locations are lists of positions.                                         *)
LEMMA Locations ==
  ASSUME TypeOK
  PROVE  Location \in Seq(Nat) /\ (stack # <<>> => Directory \in Seq(Nat))
<1>1. Depth \in Nat /\ \A k \in 1..Depth : stack[k].pos \in Nat
  <2>1. stack \in Seq(Frame) /\ \A f \in Frame : f.pos \in Nat
    BY DEF TypeOK, Frame
  <2>2. Len(stack) \in Nat /\ \A k \in 1..Len(stack) : stack[k] \in Frame
    BY <2>1
  <2> QED
    BY <2>1, <2>2 DEF Depth
<1>2. Location \in Seq(Nat)
  BY <1>1 DEF Location
<1>3. ASSUME stack # <<>> PROVE Directory \in Seq(Nat)
  <2>1. Depth - 1 \in Nat /\ \A k \in 1..Depth - 1 : stack[k].pos \in Nat
    BY <1>1, <1>3 DEF TypeOK, Depth
  <2> QED
    BY <2>1 DEF Directory
<1> QED
  BY <1>2, <1>3

-----------------------------------------------------------------------------
(* Kinds of steps                                                            *)

(* What every step has to see to, whatever it does to the stack.             *)
Others ==
  /\ pc \in {"idle", "open", "enumerate", "entry", "decide", "descend", "returned", "crashed"}
  /\ dwFlags \in Flags
  /\ target \in Dirs
  /\ ntStatus \in Statuses
  /\ aborted \in BOOLEAN /\ \A at \in cut : at \in Seq(Nat)

LEMMA TypeOfOthers == TypeOK => Others
  BY DEF TypeOK, Others

LEMMA TopFrame ==
  ASSUME TypeOK, stack # <<>>
  PROVE  /\ Depth \in Nat /\ Depth >= 1 /\ Top \in Frame
         /\ Top.pos \in Nat /\ Top.dir \in Dirs
<1>1. stack \in Seq(Frame)
  BY DEF TypeOK
<1>2. Len(stack) \in Nat /\ Len(stack) >= 1 /\ stack[Len(stack)] \in Frame
  BY <1>1
<1> QED
  BY <1>2 DEF Depth, Top, Frame

LEMMA TypeOfCounters ==
  ASSUME stack' \in Seq(Frame), Counted'
  PROVE  openHandles' \in Nat /\ paths' \in Nat /\ contexts' \in Nat
<1>1. Len(stack') \in Nat
  OBVIOUS
<1>2. Cardinality(PathHolders(stack')) \in Nat /\ Cardinality(ContextHolders(stack')) \in Nat
  BY Finite
<1> QED
  BY <1>1, <1>2 DEF Counted, Depth

(* The stack and the resources stay.                                         *)
LEMMA StackStays ==
  ASSUME IndInv, UNCHANGED <<stack, resources>>, Others', RunningFrame'
  PROVE  IndInv'
<1>1. TypeOK'
  BY DEF IndInv, TypeOK, Others, resources
<1>2. Counted'
  BY DEF IndInv, Counted, resources, Depth
<1> QED
  BY <1>1, <1>2 DEF IndInv

(* An invocation is left, and what its frame held has been given back.       *)
LEMMA LeaveKeeps ==
  ASSUME IndInv, stack # <<>>, NEW status, Leave(status), Others',
         paths' = paths - PathsOf(Top), contexts' = contexts - ContextsOf(Top)
  PROVE  IndInv'
<1>1. /\ stack \in Seq(Frame) /\ stack' = SubSeq(stack, 1, Len(stack) - 1)
      /\ Top = stack[Len(stack)]
  BY DEF IndInv, TypeOK, Leave, Top, Depth
<1>2. /\ stack' \in Seq(Frame) /\ Len(stack') = Len(stack) - 1
      /\ Cardinality(PathHolders(stack')) = Cardinality(PathHolders(stack)) - PathsOf(Top)
      /\ Cardinality(ContextHolders(stack')) = Cardinality(ContextHolders(stack)) - ContextsOf(Top)
  BY <1>1, Pop
<1>3. Counted'
  BY <1>2 DEF IndInv, Counted, Leave, Depth
<1>4. openHandles' \in Nat /\ paths' \in Nat /\ contexts' \in Nat
  BY <1>2, <1>3, TypeOfCounters
<1>5. TypeOK'
  BY <1>2, <1>4, Zenon DEF TypeOK, Others
<1>6. RunningFrame'
  BY DEF RunningFrame, Leave
<1> QED
  BY <1>3, <1>5, <1>6 DEF IndInv

(* The running frame becomes f, which fits the point in the invocation.      *)
Becomes(f) ==
  /\ stack' = [stack EXCEPT ![Depth] = f]
  /\ openHandles' = openHandles
  /\ paths' = paths - PathsOf(Top) + PathsOf(f)
  /\ contexts' = contexts - ContextsOf(Top) + ContextsOf(f)

Fits(f) ==
  /\ pc' # "idle"
  /\ pc' \in {"enumerate", "entry", "decide", "descend"} =>
       f.path = "none" /\ (pc' # "descend" => f.ctx = "none")
  /\ pc' = "descend" => f.ctx = "held"
  /\ pc' \in {"entry", "decide", "descend"} => f.pos \in 1..Len(Entries[f.dir])

LEMMA ExchangeKeeps ==
  ASSUME IndInv, stack # <<>>, NEW f, f \in Frame, Becomes(f), Fits(f), Others'
  PROVE  IndInv'
<1>1. /\ stack \in Seq(Frame) /\ Top = stack[Len(stack)]
      /\ stack' = [stack EXCEPT ![Len(stack)] = f]
  BY DEF IndInv, TypeOK, Becomes, Top, Depth
<1>2. Len(stack) \in Nat /\ Len(stack) >= 1
  BY <1>1
<1>3. stack' \in Seq(Frame) /\ Len(stack') = Len(stack) /\ stack'[Len(stack)] = f
  BY <1>1, <1>2
<1>4. \A k \in 1..Len(stack) : k # Len(stack) => stack'[k] = stack[k]
  BY <1>1, <1>2
<1>5. /\ Cardinality(PathHolders(stack')) = Cardinality(PathHolders(stack)) - PathsOf(Top) + PathsOf(f)
      /\ Cardinality(ContextHolders(stack')) = Cardinality(ContextHolders(stack)) - ContextsOf(Top) + ContextsOf(f)
  <2>1. Exchanged(stack, stack', f)
    BY <1>3, <1>4 DEF Exchanged
  <2> QED
    BY <1>1, <2>1, Exchange
<1>6. Counted'
  BY <1>3, <1>5 DEF IndInv, Counted, Becomes, Depth
<1>7. openHandles' \in Nat /\ paths' \in Nat /\ contexts' \in Nat
  BY <1>3, <1>6, TypeOfCounters
<1>8. TypeOK'
  BY <1>3, <1>7, Zenon DEF TypeOK, Others
<1>9. Top' = f /\ stack' # <<>>
  BY <1>2, <1>3 DEF Top, Depth
<1>10. RunningFrame'
  BY <1>9 DEF RunningFrame, Fits
<1> QED
  BY <1>6, <1>8, <1>10 DEF IndInv

(* Directories cut short are locations.                                      *)
LEMMA CutHere ==
  ASSUME IndInv, cut' \subseteq cut \cup {Location}
  PROVE  \A at \in cut' : at \in Seq(Nat)
  BY Locations DEF IndInv, TypeOK

LEMMA CutOff ==
  ASSUME IndInv, stack # <<>>, cut' \subseteq cut \cup {Location, Directory}
  PROVE  \A at \in cut' : at \in Seq(Nat)
  BY Locations DEF IndInv, TypeOK

-----------------------------------------------------------------------------
(* The steps                                                                 *)

LEMMA InitIndInv == Init => IndInv
<1> SUFFICES ASSUME Init PROVE IndInv
  OBVIOUS
<1>1. /\ pc = "idle" /\ dwFlags \in Flags /\ stack = <<>> /\ target = Root /\ ntStatus = "SUCCESS"
      /\ openHandles = 0 /\ paths = 0 /\ contexts = 0 /\ aborted = FALSE /\ cut = {}
  BY DEF Init, cut
<1>2. stack \in Seq(Frame) /\ Len(stack) = 0
  BY <1>1
<1>3. aborted \in BOOLEAN
  BY <1>1, Zenon
<1>4. TypeOK
  BY <1>1, <1>2, <1>3, TreeAssumption DEF TypeOK, Statuses
<1>5. Counted
  <2>1. PathHolders(stack) = {} /\ ContextHolders(stack) = {}
    BY <1>2 DEF PathHolders, ContextHolders
  <2> QED
    BY <1>1, <1>2, <2>1, FS_EmptySet DEF Counted, Depth
<1>6. RunningFrame
  BY <1>1 DEF RunningFrame
<1> QED
  BY <1>4, <1>5, <1>6 DEF IndInv

LEMMA CallKeeps == ASSUME IndInv, Call PROVE IndInv'
<1>1. /\ stack = <<>> /\ UNCHANGED <<stack, resources>> /\ pc' \in {"open", "idle"}
      /\ dwFlags' \in Flags /\ target' = Root /\ aborted' = FALSE /\ cut' = {}
      /\ ntStatus' \in {ntStatus, "INVALID_PARAMETER"}
  BY DEF IndInv, RunningFrame, Call, cut
<1>2. aborted' \in BOOLEAN /\ \A at \in cut' : at \in Seq(Nat)
  BY <1>1, Zenon
<1>3. Others'
  BY <1>1, <1>2, TreeAssumption DEF IndInv, TypeOK, Others, Statuses
<1>4. RunningFrame'
  BY <1>1 DEF RunningFrame
<1> QED
  BY <1>1, <1>3, <1>4, StackStays

LEMMA ReturnKeeps == ASSUME IndInv, Return PROVE IndInv'
<1>1. UNCHANGED <<stack, resources>> /\ Others'
  BY DEF IndInv, TypeOK, Return, Others, ghosts, cut
<1>2. RunningFrame'
  BY DEF Return, RunningFrame
<1> QED
  BY <1>1, <1>2, StackStays

LEMMA OpenFailuresKeep == ASSUME IndInv, OpenNullPath \/ OpenFails PROVE IndInv'
<1>1. /\ UNCHANGED <<stack, resources, dwFlags, target, aborted, cut>>
      /\ pc' \in {"crashed", "returned"}
      /\ ntStatus' \in {ntStatus, "NO_MEMORY", "OPEN_FAILED"}
  BY DEF OpenNullPath, OpenFails, ghosts, cut
<1>2. aborted' \in BOOLEAN /\ \A at \in cut' : at \in Seq(Nat)
  BY <1>1, Zenon DEF IndInv, TypeOK
<1>3. Others'
  BY <1>1, <1>2 DEF IndInv, TypeOK, Others, Statuses
<1>4. RunningFrame'
  BY <1>1 DEF RunningFrame
<1> QED
  BY <1>1, <1>3, <1>4, StackStays

LEMMA OpenKeeps == ASSUME IndInv, OpenSucceeds PROVE IndInv'
<1> DEFINE f == [dir |-> target, pos |-> 0, path |-> "none", ctx |-> "none"]
<1>1. stack \in Seq(Frame) /\ f \in Frame /\ stack' = Append(stack, f)
  BY DEF IndInv, TypeOK, OpenSucceeds, Frame
<1>2. f.path = "none" /\ f.ctx = "none"
  OBVIOUS
<1> HIDE DEF f
<1>3. /\ stack' \in Seq(Frame) /\ Len(stack') = Len(stack) + 1
      /\ stack' # <<>> /\ stack'[Len(stack')] = f
      /\ PathHolders(stack') = PathHolders(stack) /\ ContextHolders(stack') = ContextHolders(stack)
  BY <1>1, <1>2, Push
<1>4. /\ pc' = "enumerate" /\ openHandles' = openHandles + 1
      /\ UNCHANGED <<dwFlags, target, ntStatus, paths, contexts, aborted, cut>>
  BY DEF OpenSucceeds, ghosts, cut
<1>5. Counted'
  BY <1>3, <1>4 DEF IndInv, Counted, Depth
<1>6. openHandles' \in Nat /\ paths' \in Nat /\ contexts' \in Nat
  BY <1>4 DEF IndInv, TypeOK
<1>7. TypeOK'
  BY <1>3, <1>4, <1>6, Zenon DEF IndInv, TypeOK
<1>8. RunningFrame'
  BY <1>2, <1>3, <1>4 DEF RunningFrame, Top, Depth
<1> QED
  BY <1>5, <1>7, <1>8 DEF IndInv

(* Where a frame is about to be left holding nothing.                        *)
LEMMA LeavesEmptyHanded ==
  ASSUME IndInv, pc \in {"enumerate", "entry", "decide"}, UNCHANGED <<paths, contexts>>
  PROVE  /\ stack # <<>>
         /\ paths' = paths - PathsOf(Top) /\ contexts' = contexts - ContextsOf(Top)
<1>1. stack # <<>> /\ Top.path = "none" /\ Top.ctx = "none"
  BY DEF IndInv, RunningFrame
<1>2. paths \in Nat /\ contexts \in Nat
  BY DEF IndInv, TypeOK
<1> QED
  BY <1>1, <1>2 DEF PathsOf, ContextsOf

LEMMA EndKeeps == ASSUME IndInv, EndOfEnumeration PROVE IndInv'
<1>1. /\ Leave("SUCCESS") /\ UNCHANGED <<paths, contexts>>
      /\ pc = "enumerate" /\ cut' \subseteq cut \cup {Location, Directory}
      /\ UNCHANGED <<dwFlags, target, aborted>>
  BY DEF EndOfEnumeration, cut
<1>2. stack # <<>> /\ paths' = paths - PathsOf(Top) /\ contexts' = contexts - ContextsOf(Top)
  BY <1>1, LeavesEmptyHanded
<1>3. \A at \in cut' : at \in Seq(Nat)
  BY <1>1, <1>2, CutOff
<1>4. Others'
  BY <1>1, <1>3 DEF IndInv, TypeOK, Others, Leave, Statuses
<1> QED
  BY <1>1, <1>2, <1>4, LeaveKeeps

LEMMA RefusedKeep == ASSUME IndInv, EntryRefused \/ NewContextRefused PROVE IndInv'
<1>1. PICK status \in {"CALLER_ERROR", "REQUEST_ABORTED", "SKIP_RECURSION", "SUCCESS"} :
        Abandon(status) /\ aborted' \in {aborted, TRUE, aborted \/ status = "REQUEST_ABORTED"}
  BY DEF EntryRefused, NewContextRefused
<1>2. pc \in {"entry", "decide"} /\ UNCHANGED <<paths, contexts, dwFlags, target>>
  BY DEF EntryRefused, NewContextRefused
<1>3. stack # <<>> /\ paths' = paths - PathsOf(Top) /\ contexts' = contexts - ContextsOf(Top)
  BY <1>2, LeavesEmptyHanded
<1>4. \A at \in cut' : at \in Seq(Nat)
  BY <1>1, <1>3, CutOff DEF Abandon, cut
<1>5. aborted' \in BOOLEAN
  BY <1>1, Zenon DEF IndInv, TypeOK
<1>6. Others'
  BY <1>1, <1>2, <1>4, <1>5 DEF IndInv, TypeOK, Others, Abandon, Leave, Statuses
<1> QED
  BY <1>1, <1>3, <1>6, LeaveKeeps DEF Abandon

LEMMA NextEntryKeeps == ASSUME IndInv, NextEntry PROVE IndInv'
<1> DEFINE f == [Top EXCEPT !.pos = @ + 1]
<1>1. stack # <<>> /\ Top.path = "none" /\ Top.ctx = "none"
  BY DEF IndInv, RunningFrame, NextEntry
<1>2. /\ Top \in Frame /\ Top.pos \in Nat /\ Top.dir \in Dirs
  BY <1>1, TopFrame DEF IndInv
<1>3. /\ f \in Frame /\ f.path = "none" /\ f.ctx = "none"
      /\ f.pos = Top.pos + 1 /\ f.dir = Top.dir
  BY <1>1, <1>2 DEF Frame
<1>4. stack' = [stack EXCEPT ![Depth] = f]
  BY DEF NextEntry, Top
<1> HIDE DEF f
<1>5. UNCHANGED <<openHandles, paths, contexts, dwFlags, target, ntStatus, aborted, cut>>
  BY DEF NextEntry, resources, ghosts, cut
<1>6. paths \in Nat /\ contexts \in Nat
  BY DEF IndInv, TypeOK
<1>7. Becomes(f)
  <2>1. PathsOf(f) = 0 /\ PathsOf(Top) = 0 /\ ContextsOf(f) = 0 /\ ContextsOf(Top) = 0
    BY <1>1, <1>3 DEF PathsOf, ContextsOf
  <2> QED
    BY <1>4, <1>5, <1>6, <2>1 DEF Becomes
<1>8. pc' \in {"enumerate", "entry"}
  BY DEF NextEntry
<1>9. f.pos \in 1..Len(Entries[f.dir])
  <2>1. Len(Entries[Top.dir]) \in Nat /\ Top.pos < Len(Entries[Top.dir])
    BY <1>2, TreeAssumption DEF NextEntry
  <2> QED
    BY <1>2, <1>3, <2>1
<1>10. Fits(f)
  BY <1>3, <1>8, <1>9 DEF Fits
<1>11. Others'
  BY <1>5, <1>8, Zenon DEF IndInv, TypeOK, Others
<1> QED
  BY <1>1, <1>3, <1>7, <1>10, <1>11, ExchangeKeeps

LEMMA EntryKeeps == ASSUME IndInv, EntryAccepted \/ EntrySkipped PROVE IndInv'
<1>1. /\ UNCHANGED <<stack, resources, dwFlags, target, ntStatus, aborted>>
      /\ pc = "entry" /\ pc' \in {"decide", "enumerate"}
      /\ cut' \subseteq cut \cup {Location}
  BY DEF EntryAccepted, EntrySkipped, cut
<1>2. \A at \in cut' : at \in Seq(Nat)
  BY <1>1, CutHere
<1>3. Others'
  BY <1>1, <1>2 DEF IndInv, TypeOK, Others
<1>4. RunningFrame'
  <2>1. Top' = Top
    BY <1>1 DEF Top, Depth
  <2> QED
    BY <1>1, <2>1 DEF IndInv, RunningFrame
<1> QED
  BY <1>1, <1>3, <1>4, StackStays

(* Where the entry to descend into is a directory of the tree.               *)
LEMMA EntryType ==
  ASSUME IndInv, pc \in {"entry", "decide", "descend"}
  PROVE  Entry \in [kind : Kinds, to : Dirs] /\ Entry.to \in Dirs
<1>1. stack # <<>> /\ Top.pos \in 1..Len(Entries[Top.dir])
  BY DEF IndInv, RunningFrame
<1>2. Top.dir \in Dirs
  BY <1>1, TopFrame DEF IndInv
<1>3. Entries[Top.dir] \in Seq([kind : Kinds, to : Dirs])
  BY <1>2, TreeAssumption
<1>4. Entries[Top.dir][Top.pos] \in [kind : Kinds, to : Dirs]
  BY <1>1, <1>3, ElementOfSeq, Zenon
<1> QED
  BY <1>4 DEF Entry

LEMMA NewContextKeeps == ASSUME IndInv, NewContextGiven PROVE IndInv'
<1> DEFINE f == [Top EXCEPT !.ctx = "held"]
<1>1. /\ stack # <<>> /\ Top.path = "none" /\ Top.ctx = "none"
      /\ Top.pos \in 1..Len(Entries[Top.dir])
  BY DEF IndInv, RunningFrame, NewContextGiven
<1>2. /\ Top \in Frame
  BY <1>1, TopFrame DEF IndInv
<1>3. /\ f \in Frame /\ f.path = "none" /\ f.ctx = "held"
      /\ f.pos = Top.pos /\ f.dir = Top.dir
  BY <1>1, <1>2 DEF Frame
<1>4. stack' = [stack EXCEPT ![Depth] = f]
  BY DEF NewContextGiven, Top
<1> HIDE DEF f
<1>5. /\ UNCHANGED <<openHandles, paths, dwFlags, target, ntStatus, aborted, cut>>
      /\ contexts' = contexts + 1 /\ pc' = "descend"
  BY DEF NewContextGiven, ghosts, cut
<1>6. paths \in Nat /\ contexts \in Nat
  BY DEF IndInv, TypeOK
<1>7. Becomes(f)
  <2>1. PathsOf(f) = 0 /\ PathsOf(Top) = 0 /\ ContextsOf(f) = 1 /\ ContextsOf(Top) = 0
    BY <1>1, <1>3 DEF PathsOf, ContextsOf
  <2> QED
    BY <1>4, <1>5, <1>6, <2>1 DEF Becomes
<1>8. Fits(f)
  BY <1>1, <1>3, <1>5 DEF Fits
<1>9. Others'
  BY <1>5, Zenon DEF IndInv, TypeOK, Others
<1> QED
  BY <1>1, <1>3, <1>7, <1>8, <1>9, ExchangeKeeps

LEMMA DescendKeeps == ASSUME IndInv, PathAllocated \/ PathNotAllocatedContinue PROVE IndInv'
<1> DEFINE f == [Top EXCEPT !.path = "held"]
           g == [Top EXCEPT !.path = "null", !.ctx = "none"]
<1>1. /\ pc = "descend" /\ pc' = "open" /\ target' = Entry.to
      /\ UNCHANGED <<dwFlags, ntStatus, openHandles, aborted>>
      /\ cut' \subseteq cut \cup {Location}
  BY DEF PathAllocated, PathNotAllocatedContinue, ghosts, cut
<1>2. stack # <<>> /\ Top.path = "none" /\ Top.ctx = "held"
  BY <1>1 DEF IndInv, RunningFrame
<1>3. Top \in Frame
  BY <1>2, TopFrame DEF IndInv
<1>4. /\ f \in Frame /\ f.path = "held" /\ f.ctx = "held"
      /\ g \in Frame /\ g.path = "null" /\ g.ctx = "none"
  BY <1>2, <1>3 DEF Frame
<1>5. target' \in Dirs
  BY <1>1, EntryType
<1>6. Others'
  <2>1. \A at \in cut' : at \in Seq(Nat)
    BY <1>1, CutHere
  <2> QED
    BY <1>1, <1>5, <2>1, Zenon DEF IndInv, TypeOK, Others
<1>7. /\ PathsOf(Top) = 0 /\ PathsOf(f) = 1 /\ PathsOf(g) = 0
      /\ ContextsOf(Top) = 1 /\ ContextsOf(f) = 1 /\ ContextsOf(g) = 0
  BY <1>2, <1>4 DEF PathsOf, ContextsOf
<1>8. Fits(f) /\ Fits(g)
  BY <1>1 DEF Fits
<1>9. paths \in Nat /\ contexts \in Nat
  BY DEF IndInv, TypeOK
<1>10. CASE PathAllocated
  <2>1. stack' = [stack EXCEPT ![Depth] = f]
    BY <1>10 DEF PathAllocated, Top
  <2>2. paths' = paths + 1 /\ contexts' = contexts
    BY <1>10 DEF PathAllocated
  <2> HIDE DEF f
  <2>3. Becomes(f)
    BY <1>1, <1>7, <1>9, <2>1, <2>2 DEF Becomes
  <2> QED
    BY <1>2, <1>4, <1>6, <1>8, <2>3, ExchangeKeeps
<1>11. CASE PathNotAllocatedContinue
  <2>1. stack' = [stack EXCEPT ![Depth] = g]
    BY <1>2, <1>11 DEF PathNotAllocatedContinue, Top, IndInv, TypeOK, Depth
  <2>2. paths' = paths /\ contexts' = contexts - 1
    BY <1>11 DEF PathNotAllocatedContinue
  <2> HIDE DEF g
  <2>3. Becomes(g)
    BY <1>1, <1>7, <1>9, <2>1, <2>2 DEF Becomes
  <2> QED
    BY <1>2, <1>4, <1>6, <1>8, <2>3, ExchangeKeeps
<1> QED
  BY <1>10, <1>11

LEMMA NoPathKeeps == ASSUME IndInv, PathNotAllocated PROVE IndInv'
<1>1. PICK status \in {"NO_MEMORY", "SUCCESS"} :
        /\ Leave(status) /\ pc = "descend" /\ aborted' = TRUE
        /\ cut' \subseteq cut \cup {Location, Directory}
        /\ contexts' = contexts - 1 /\ UNCHANGED <<dwFlags, target, paths>>
  BY DEF PathNotAllocated, Abandon, cut
<1>2. stack # <<>> /\ Top.path = "none" /\ Top.ctx = "held"
  BY <1>1 DEF IndInv, RunningFrame
<1>3. paths \in Nat /\ contexts \in Nat
  BY DEF IndInv, TypeOK
<1>4. paths' = paths - PathsOf(Top) /\ contexts' = contexts - ContextsOf(Top)
  BY <1>1, <1>2, <1>3 DEF PathsOf, ContextsOf
<1>5. \A at \in cut' : at \in Seq(Nat)
  BY <1>1, <1>2, CutOff
<1>6. aborted' \in BOOLEAN
  BY <1>1, Zenon
<1>7. Others'
  BY <1>1, <1>5, <1>6 DEF IndInv, TypeOK, Others, Leave, Statuses
<1> QED
  BY <1>1, <1>2, <1>4, <1>7, LeaveKeeps

(* What a frame held is given back.                                          *)
LEMMA Released ==
  ASSUME IndInv, ReleaseSubdirectory
  PROVE  paths' = paths - PathsOf(Top) /\ contexts' = contexts - ContextsOf(Top)
<1>1. paths \in Nat /\ contexts \in Nat
  BY DEF IndInv, TypeOK
<1> QED
  BY <1>1 DEF ReleaseSubdirectory, PathsOf, ContextsOf

LEMMA BackKeeps == ASSUME IndInv, RecursionSucceeded \/ RecurseErrorContinue PROVE IndInv'
<1>1. /\ stack # <<>> /\ ReleaseSubdirectory /\ pc' = "enumerate"
      /\ stack' = [stack EXCEPT ![Depth] = Unwound]
      /\ UNCHANGED <<dwFlags, target, ntStatus, openHandles, aborted>>
      /\ cut' \subseteq cut \cup {Location}
  BY DEF RecursionSucceeded, RecurseErrorContinue, ghosts, cut
<1>2. Top \in Frame
  BY <1>1, TopFrame DEF IndInv
<1>3. Unwound \in Frame /\ Unwound.path = "none" /\ Unwound.ctx = "none"
  BY <1>2 DEF Unwound, Frame
<1>4. paths' = paths - PathsOf(Top) /\ contexts' = contexts - ContextsOf(Top)
  BY <1>1, Released
<1>5. Becomes(Unwound)
  <2>1. PathsOf(Unwound) = 0 /\ ContextsOf(Unwound) = 0
    BY <1>3 DEF PathsOf, ContextsOf
  <2>2. paths' = paths - PathsOf(Top) + 0 /\ contexts' = contexts - ContextsOf(Top) + 0
    BY <1>4 DEF IndInv, TypeOK, PathsOf, ContextsOf
  <2> QED
    BY <1>1, <2>1, <2>2 DEF Becomes
<1>6. Fits(Unwound)
  BY <1>1, <1>3 DEF Fits
<1>7. Others'
  <2>1. \A at \in cut' : at \in Seq(Nat)
    BY <1>1, CutHere
  <2> QED
    BY <1>1, <2>1, Zenon DEF IndInv, TypeOK, Others
<1> QED
  BY <1>1, <1>3, <1>5, <1>6, <1>7, ExchangeKeeps

LEMMA AbortKeeps == ASSUME IndInv, RecurseErrorAbort PROVE IndInv'
<1>1. PICK status \in {ntStatus, "SUCCESS"} : Abandon(status)
  BY DEF RecurseErrorAbort
<1>2. /\ stack # <<>> /\ ReleaseSubdirectory /\ aborted' = TRUE
      /\ UNCHANGED <<dwFlags, target>>
  BY DEF RecurseErrorAbort
<1>3. paths' = paths - PathsOf(Top) /\ contexts' = contexts - ContextsOf(Top)
  BY <1>2, Released
<1>4. \A at \in cut' : at \in Seq(Nat)
  BY <1>1, <1>2, CutOff DEF Abandon, cut
<1>5. aborted' \in BOOLEAN
  BY <1>2, Zenon
<1>6. Others'
  BY <1>1, <1>2, <1>4, <1>5 DEF IndInv, TypeOK, Others, Abandon, Leave, Statuses
<1> QED
  BY <1>1, <1>2, <1>3, <1>6, LeaveKeeps DEF Abandon

LEMMA NextIndInv == IndInv /\ [Next]_vars => IndInv'
<1> SUFFICES ASSUME IndInv, [Next]_vars PROVE IndInv'
  OBVIOUS
<1>1. CASE UNCHANGED vars
  <2>1. /\ UNCHANGED <<pc, dwFlags, stack, target, ntStatus, openHandles, paths, contexts, aborted, cut>>
    BY <1>1 DEF vars, cut
  <2>2. TypeOK'
    BY <2>1, Zenon DEF IndInv, TypeOK
  <2>3. Counted' /\ RunningFrame'
    BY <2>1 DEF IndInv, Counted, RunningFrame, Top, Depth
  <2> QED
    BY <2>2, <2>3 DEF IndInv
<1>2. CASE Call
  BY <1>2, CallKeeps
<1>3. CASE Step
  BY <1>3, ReturnKeeps, OpenFailuresKeep, OpenKeeps, EndKeeps, RefusedKeep, NextEntryKeeps,
     EntryKeeps, NewContextKeeps, DescendKeeps, NoPathKeeps, BackKeeps, AbortKeeps DEF Step
<1> QED
  BY <1>1, <1>2, <1>3 DEF Next

-----------------------------------------------------------------------------
(* Theorems                                                                  *)

LEMMA Inductive == Spec => []IndInv
  BY InitIndInv, NextIndInv, PTL DEF Spec

(* Whatever fails at whatever depth of the tree, and whatever the callbacks  *)
(* answer, recurseIntoDirectory_ gives back every directory handle, path     *)
(* name and caller context, and keeps its stack well-formed: for all trees   *)
(* and flags.                                                                *)
THEOREM NothingLost == Spec => []ResourcesHeld
<1>1. IndInv => ResourcesHeld
  <2> SUFFICES ASSUME IndInv PROVE ResourcesHeld
    OBVIOUS
  <2>1. TypeOK /\ openHandles = Depth
    BY DEF IndInv, Counted
  <2>2. ASSUME pc = "idle" PROVE paths = 0 /\ contexts = 0
    <3>1. stack = <<>>
      BY <2>2 DEF IndInv, RunningFrame
    <3>2. PathHolders(stack) = {} /\ ContextHolders(stack) = {}
      BY <3>1 DEF PathHolders, ContextHolders
    <3> QED
      BY <3>2, FS_EmptySet DEF IndInv, Counted
  <2> QED
    BY <2>1, <2>2 DEF ResourcesHeld, NothingLeaked
<1> QED
  BY <1>1, Inductive, PTL
-----------------------------------------------------------------------------
(* The order of the reports                                                  *)

Agree(a, b, n) == \A k \in 1..n : a[k] = b[k]

(* a is b or lies under it.                                                  *)
Under(a, b) == Len(b) <= Len(a) /\ Agree(a, b, Len(b))

NotAfter(a, b) == Under(a, b) \/ Before(a, b)

LEMMA Prefixes ==
  ASSUME NEW a, a \in Seq(Nat), NEW b, b \in Seq(Nat), NEW n \in Nat, n <= Len(a), n <= Len(b)
  PROVE  SubSeq(a, 1, n) = SubSeq(b, 1, n) <=> Agree(a, b, n)
<1>1. /\ Len(a) \in Nat /\ \A k \in 1..n : a[k] \in Nat
      /\ Len(b) \in Nat /\ \A k \in 1..n : b[k] \in Nat
  <2>1. Len(a) \in Nat /\ Len(b) \in Nat
    OBVIOUS
  <2>2. \A k \in 1..n : k \in 1..Len(a) /\ k \in 1..Len(b)
    BY <2>1
  <2> QED
    BY <2>1, <2>2, ElementOfSeq, Zenon
<1> DEFINE p == SubSeq(a, 1, n)
           q == SubSeq(b, 1, n)
<1>2. /\ p \in Seq(Nat) /\ Len(p) = n /\ \A k \in 1..n : p[k] = a[k]
      /\ q \in Seq(Nat) /\ Len(q) = n /\ \A k \in 1..n : q[k] = b[k]
  BY <1>1
<1> HIDE DEF p, q
<1>3. p = q <=> \A k \in 1..n : p[k] = q[k]
  BY <1>2
<1>4. p = q <=> Agree(a, b, n)
  BY <1>2, <1>3 DEF Agree
<1> QED
  BY <1>4 DEF p, q

LEMMA BeforeByPositions ==
  ASSUME NEW a, a \in Seq(Nat), NEW b, b \in Seq(Nat)
  PROVE  Before(a, b) <=>
           \/ Len(a) < Len(b) /\ Agree(a, b, Len(a))
           \/ \E k \in 1..Len(a) : k <= Len(b) /\ Agree(a, b, k - 1) /\ a[k] < b[k]
<1>1. Len(a) \in Nat /\ Len(b) \in Nat
  OBVIOUS
<1>2. ASSUME Len(a) < Len(b)
      PROVE  a = SubSeq(b, 1, Len(a)) <=> Agree(a, b, Len(a))
  <2>1. SubSeq(a, 1, Len(a)) = SubSeq(b, 1, Len(a)) <=> Agree(a, b, Len(a))
    <3>1. Len(a) \in Nat /\ Len(a) <= Len(a) /\ Len(a) <= Len(b)
      BY <1>1, <1>2
    <3> QED
      BY <3>1, Prefixes
  <2>2. SubSeq(a, 1, Len(a)) = a
    OBVIOUS
  <2> QED
    BY <2>1, <2>2
<1>3. ASSUME NEW k \in 1..Len(a), k <= Len(b)
      PROVE  SubSeq(a, 1, k - 1) = SubSeq(b, 1, k - 1) <=> Agree(a, b, k - 1)
  <2>1. k - 1 \in Nat /\ k - 1 <= Len(a) /\ k - 1 <= Len(b)
    BY <1>1, <1>3
  <2> QED
    BY <2>1, Prefixes
<1> QED
  BY <1>2, <1>3 DEF Before

LEMMA BelowNext == \A x, y, z \in Nat : x < y /\ (z = y \/ z = y + 1) => x < z
  OBVIOUS

(* The next entry of a directory comes after the one before and all under it.*)
LEMMA NextEntryAfter ==
  ASSUME NEW a, a \in Seq(Nat), NEW b, b \in Seq(Nat), Len(b) >= 1, NotAfter(a, b),
         NEW c, c \in Seq(Nat), Len(c) = Len(b), Agree(b, c, Len(b) - 1),
         c[Len(b)] = b[Len(b)] + 1
  PROVE  Before(a, c)
<1>1. Len(a) \in Nat /\ Len(b) \in Nat /\ b[Len(b)] \in Nat
  OBVIOUS
<1>2. CASE Under(a, b)
  <2>1. /\ Len(b) \in 1..Len(a) /\ Len(b) <= Len(c)
        /\ Agree(a, c, Len(b) - 1) /\ a[Len(b)] < c[Len(b)]
    BY <1>1, <1>2 DEF Under, Agree
  <2> QED
    BY <2>1, BeforeByPositions
<1>3. CASE Len(a) < Len(b) /\ Agree(a, b, Len(a))
  <2>1. Len(a) < Len(c) /\ Agree(a, c, Len(a))
    BY <1>1, <1>3 DEF Agree
  <2> QED
    BY <2>1, BeforeByPositions
<1>4. ASSUME NEW k \in 1..Len(a), k <= Len(b), Agree(a, b, k - 1), a[k] < b[k]
      PROVE  Before(a, c)
  <2>1. a[k] \in Nat /\ b[k] \in Nat /\ c[k] \in Nat
    <3>1. k \in 1..Len(a) /\ k \in 1..Len(b) /\ k \in 1..Len(c)
      BY <1>1, <1>4
    <3> QED
      BY <3>1, ElementOfSeq, Zenon
  <2>2. k <= Len(c) /\ Agree(a, c, k - 1)
    BY <1>1, <1>4 DEF Agree
  <2>3. c[k] = b[k] \/ c[k] = b[k] + 1
    BY <1>1, <1>4 DEF Agree
  <2>4. a[k] < c[k]
    <3>1. a[k] < b[k]
      BY <1>4
    <3> QED
      BY <2>1, <2>3, <3>1, BelowNext, Zenon
  <2> QED
    BY <2>2, <2>4, BeforeByPositions
<1> QED
  BY <1>2, <1>3, <1>4, BeforeByPositions DEF NotAfter

(* A directory comes before what is in it.                                   *)
LEMMA DirectoryFirst ==
  ASSUME NEW b, b \in Seq(Nat), NEW c, c \in Seq(Nat), Len(c) = Len(b) + 1, Agree(b, c, Len(b))
  PROVE  NotAfter(b, c)
<1>1. Len(b) < Len(c)
  OBVIOUS
<1> QED
  BY <1>1, BeforeByPositions DEF NotAfter

(* What does not come after an entry does not come after its directory, or   *)
(* lies in it.                                                               *)
LEMMA BackUp ==
  ASSUME NEW a, a \in Seq(Nat), NEW b, b \in Seq(Nat), NotAfter(a, b),
         NEW c, c \in Seq(Nat), Len(c) = Len(b) - 1, Agree(b, c, Len(c))
  PROVE  NotAfter(a, c)
<1>1. Len(a) \in Nat /\ Len(b) \in Nat /\ Len(c) \in Nat
  OBVIOUS
<1>2. CASE Under(a, b)
  BY <1>1, <1>2 DEF Under, Agree, NotAfter
<1>3. CASE Len(a) < Len(b) /\ Agree(a, b, Len(a))
  <2>1. Agree(a, c, Len(a))
    BY <1>1, <1>3 DEF Agree
  <2>2. CASE Len(a) < Len(c)
    BY <2>1, <2>2, BeforeByPositions DEF NotAfter
  <2>3. CASE Len(a) = Len(c)
    BY <1>1, <2>1, <2>3 DEF NotAfter, Under
  <2> QED
    BY <1>1, <1>3, <2>2, <2>3
<1>4. ASSUME NEW k \in 1..Len(a), k <= Len(b), Agree(a, b, k - 1), a[k] < b[k]
      PROVE  NotAfter(a, c)
  <2>1. CASE k <= Len(c)
    <3>1. Agree(a, c, k - 1) /\ a[k] < c[k]
      BY <1>1, <1>4, <2>1 DEF Agree
    <3> QED
      BY <2>1, <3>1, BeforeByPositions DEF NotAfter
  <2>2. CASE k = Len(b)
    <3>1. Len(c) <= Len(a) /\ Agree(a, c, Len(c))
      BY <1>1, <1>4, <2>2 DEF Agree
    <3> QED
      BY <3>1 DEF NotAfter, Under
  <2> QED
    BY <1>1, <1>4, <2>1, <2>2
<1> QED
  BY <1>2, <1>3, <1>4, BeforeByPositions DEF NotAfter
-----------------------------------------------------------------------------
Reports == Seq([at : Seq(Nat), entry : [kind : Kinds, to : Dirs]])
LastAt == reported[Len(reported)].at

(* Where the last report lies, seen from the running frame.                  *)
OrderInv ==
  /\ reported \in Reports
  /\ DepthFirstOnce
  /\ pc = "open" /\ stack = <<>> => reported = <<>>
  /\ reported # <<>> =>
       /\ pc = "entry" => Before(LastAt, Location)
       /\ pc \in {"decide", "descend", "open"} => LastAt = Location
       /\ pc = "enumerate" \/ (pc = "returned" /\ stack # <<>>) => NotAfter(LastAt, Location)

FullInv == IndInv /\ OrderInv

LocationIsPositions ==
  /\ Location \in Seq(Nat) /\ Len(Location) = Depth /\ Depth = Len(stack) /\ Depth \in Nat
  /\ \A k \in 1..Depth : Location[k] = stack[k].pos

LEMMA LocationType == TypeOK => LocationIsPositions
<1> SUFFICES ASSUME TypeOK PROVE LocationIsPositions
  OBVIOUS
<1>1. stack \in Seq(Frame) /\ Len(stack) \in Nat
  BY DEF TypeOK
<1>2. Depth \in Nat /\ Depth = Len(stack)
  BY <1>1 DEF Depth
<1>3. Len(Location) = Depth /\ \A k \in 1..Depth : Location[k] = stack[k].pos
  BY <1>2 DEF Location
<1> QED
  BY <1>2, <1>3, Locations DEF LocationIsPositions

LEMMA LastType ==
  ASSUME reported \in Reports, reported # <<>>
  PROVE  LastAt \in Seq(Nat)
<1>1. Len(reported) \in 1..Len(reported)
  BY DEF Reports
<1>2. reported[Len(reported)] \in [at : Seq(Nat), entry : [kind : Kinds, to : Dirs]]
  BY <1>1, ElementOfSeq, Zenon DEF Reports
<1> QED
  BY <1>2 DEF LastAt

(* A step that reports nothing leaves open where the last report lies.       *)
LEMMA NothingReported ==
  ASSUME OrderInv, UNCHANGED reported,
         pc' = "open" /\ stack' = <<>> => reported = <<>>,
         reported # <<>> =>
           /\ pc' = "entry" => Before(LastAt, Location')
           /\ pc' \in {"decide", "descend", "open"} => LastAt = Location'
           /\ pc' = "enumerate" \/ (pc' = "returned" /\ stack' # <<>>) => NotAfter(LastAt, Location')
  PROVE  OrderInv'
<1>1. LastAt' = LastAt
  BY DEF LastAt
<1>2. reported' \in Reports /\ DepthFirstOnce'
  BY DEF OrderInv, DepthFirstOnce
<1> QED
  BY <1>1, <1>2 DEF OrderInv

LEMMA Stays ==
  ASSUME NEW b, b \in Seq(Nat) PROVE NotAfter(b, b)
<1>1. Len(b) <= Len(b)
  OBVIOUS
<1> QED
  BY <1>1 DEF NotAfter, Under, Agree

(* The entry reported is the one the running frame is at, and comes after    *)
(* the last.                                                                 *)
LEMMA ReportKeepsOrder ==
  ASSUME IndInv, OrderInv, pc = "entry", Report
  PROVE  /\ reported' \in Reports /\ reported' # <<>> /\ LastAt' = Location
         /\ DepthFirstOnce'
<1> DEFINE r == [at |-> Location, entry |-> Entry]
<1>1. r \in [at : Seq(Nat), entry : [kind : Kinds, to : Dirs]]
  BY EntryType, Locations DEF IndInv
<1>2. r.at = Location /\ reported' = Append(reported, r)
  BY DEF Report
<1> HIDE DEF r
<1> DEFINE n == Len(reported)
<1>3. n \in Nat /\ reported \in Reports
  BY DEF OrderInv, Reports
<1>4. /\ reported' \in Reports /\ Len(reported') = n + 1 /\ reported'[n + 1] = r
      /\ \A k \in 1..n : reported'[k] = reported[k]
  BY <1>1, <1>2, <1>3 DEF Reports
<1>5. reported' # <<>> /\ LastAt' = Location
  BY <1>2, <1>3, <1>4 DEF LastAt
<1>6. ASSUME NEW j \in 1..n
      PROVE  Before(reported'[j].at, reported'[j + 1].at)
  <2>1. CASE j = n
    <3>1. reported # <<>>
      BY <1>3, <2>1
    <3>2. Before(LastAt, Location)
      BY <3>1 DEF OrderInv
    <3> QED
      BY <1>2, <1>4, <2>1, <3>2 DEF LastAt
  <2>2. CASE j # n
    <3>1. j \in 1..Len(reported) - 1 /\ j \in 1..n /\ j + 1 \in 1..n
      BY <1>3, <2>2
    <3>2. Before(reported[j].at, reported[j + 1].at)
      BY <3>1 DEF OrderInv, DepthFirstOnce
    <3> QED
      BY <1>4, <3>1, <3>2
  <2> QED
    BY <2>1, <2>2
<1>7. DepthFirstOnce'
  <2>1. Len(reported') - 1 = n
    BY <1>3, <1>4
  <2> QED
    BY <1>6, <2>1 DEF DepthFirstOnce
<1> QED
  BY <1>4, <1>5, <1>7

(* A frame that keeps its position keeps its location.                       *)
LEMMA SameLocation ==
  ASSUME TypeOK, stack # <<>>, NEW f, stack' = [stack EXCEPT ![Depth] = f], f.pos = Top.pos
  PROVE  Location' = Location /\ stack' # <<>>
<1>1. Depth = Len(stack) /\ Depth \in Nat /\ Depth >= 1
  BY DEF TypeOK, Depth
<1>2. /\ stack' # <<>> /\ Len(stack') = Len(stack)
      /\ \A k \in 1..Depth : stack'[k].pos = stack[k].pos
  BY <1>1 DEF TypeOK, Top
<1>3. Depth' = Depth
  BY <1>2 DEF Depth
<1> QED
  BY <1>2, <1>3 DEF Location

(* Leaving an invocation leads to the location of the directory.             *)
LEMMA LeaveLocation ==
  ASSUME TypeOK, TypeOK', stack # <<>>, stack' = SubSeq(stack, 1, Depth - 1),
         NEW a, a \in Seq(Nat), NotAfter(a, Location)
  PROVE  NotAfter(a, Location')
<1>1. /\ Len(stack') = Len(stack) - 1
      /\ \A k \in 1..Len(stack') : stack'[k] = stack[k] /\ k \in 1..Len(stack)
  BY Shorter DEF TypeOK, Depth
<1>2. /\ Location \in Seq(Nat) /\ Len(Location) = Depth /\ Depth = Len(stack) /\ Depth \in Nat
      /\ \A k \in 1..Depth : Location[k] = stack[k].pos
  BY LocationType DEF LocationIsPositions
<1>3. /\ Location' \in Seq(Nat) /\ Len(Location') = Depth' /\ Depth' = Len(stack')
      /\ \A k \in 1..Depth' : Location'[k] = stack'[k].pos
  <2>1. LocationIsPositions'
    BY LocationType, PTL
  <2> QED
    BY <2>1 DEF LocationIsPositions
<1>4. Len(Location') = Len(Location) - 1 /\ Agree(Location, Location', Len(Location'))
  BY <1>1, <1>2, <1>3 DEF Agree
<1> QED
  BY <1>2, <1>3, <1>4, BackUp

LEMMA OpeningOrder ==
  ASSUME IndInv, IndInv', OrderInv, OpenNullPath \/ OpenFails \/ Return
  PROVE  OrderInv'
<1>1. UNCHANGED <<stack, reported>> /\ pc' \in {"crashed", "returned", "idle"}
  BY DEF OpenNullPath, OpenFails, Return, ghosts
<1>2. LastAt' = LastAt /\ Location' = Location /\ NotAfter(Location, Location)
  BY <1>1, Locations, Stays DEF LastAt, Location, Depth, IndInv
<1>3. pc' = "returned" => pc = "open"
  BY DEF OpenNullPath, OpenFails, Return
<1> QED
  BY <1>1, <1>2, <1>3, NothingReported DEF OrderInv

LEMMA OpenOrder == ASSUME IndInv, IndInv', OrderInv, OpenSucceeds PROVE OrderInv'
<1>1. /\ UNCHANGED reported /\ pc = "open" /\ pc' = "enumerate"
      /\ stack' = Append(stack, [dir |-> target, pos |-> 0, path |-> "none", ctx |-> "none"])
  BY DEF OpenSucceeds, ghosts
<1>2. LocationIsPositions /\ LocationIsPositions'
  <2>1. TypeOK /\ TypeOK'
    BY DEF IndInv
  <2> QED
    BY <2>1, LocationType, PTL
<1>3. /\ Len(stack') = Len(stack) + 1
      /\ \A k \in 1..Len(stack) : stack'[k] = stack[k] /\ k \in 1..Len(stack')
  BY <1>1 DEF IndInv, TypeOK
<1>4. /\ Location \in Seq(Nat) /\ Location' \in Seq(Nat)
      /\ Len(Location') = Len(Location) + 1 /\ Agree(Location, Location', Len(Location))
  BY <1>2, <1>3 DEF LocationIsPositions, Agree
<1>5. NotAfter(Location, Location')
  BY <1>4, DirectoryFirst
<1> QED
  BY <1>1, <1>5, NothingReported DEF OrderInv

LEMMA LeaveOrder ==
  ASSUME IndInv, IndInv', OrderInv, stack # <<>>, NEW status, Leave(status),
         UNCHANGED reported, reported # <<>> => NotAfter(LastAt, Location)
  PROVE  OrderInv'
<1>1. pc' = "returned" /\ stack' = SubSeq(stack, 1, Depth - 1)
  BY DEF Leave
<1>2. ASSUME reported # <<>> PROVE NotAfter(LastAt, Location')
  <2>1. LastAt \in Seq(Nat)
    BY <1>2, LastType DEF OrderInv
  <2>2. TypeOK /\ TypeOK'
    BY DEF IndInv
  <2> QED
    BY <1>1, <1>2, <2>1, <2>2, LeaveLocation
<1> QED
  BY <1>1, <1>2, NothingReported

LEMMA EndOrder == ASSUME IndInv, IndInv', OrderInv, EndOfEnumeration PROVE OrderInv'
<1>1. pc = "enumerate" /\ Leave("SUCCESS") /\ UNCHANGED reported
  BY DEF EndOfEnumeration
<1>2. stack # <<>>
  BY <1>1 DEF IndInv, RunningFrame
<1> QED
  BY <1>1, <1>2, LeaveOrder DEF OrderInv

LEMMA NextEntryOrder == ASSUME IndInv, IndInv', OrderInv, NextEntry PROVE OrderInv'
<1>1. /\ UNCHANGED reported /\ pc = "enumerate" /\ pc' \in {"enumerate", "entry"}
      /\ stack' = [stack EXCEPT ![Depth].pos = @ + 1]
  BY DEF NextEntry, ghosts
<1>2. LocationIsPositions /\ LocationIsPositions'
  <2>1. TypeOK /\ TypeOK'
    BY DEF IndInv
  <2> QED
    BY <2>1, LocationType, PTL
<1>3. stack # <<>> /\ Depth = Len(stack) /\ Depth \in Nat /\ Depth >= 1
  BY <1>1, TopFrame DEF IndInv, RunningFrame, Depth
<1>4. stack \in Seq(Frame) /\ stack[Depth] \in Frame
  BY <1>3, TopFrame DEF IndInv, TypeOK, Top
<1>5. /\ Len(stack') = Len(stack)
      /\ \A k \in 1..Depth - 1 : stack'[k] = stack[k]
      /\ stack'[Depth].pos = stack[Depth].pos + 1
  BY <1>1, <1>3, <1>4 DEF Frame
<1>6. /\ Location \in Seq(Nat) /\ Location' \in Seq(Nat) /\ Len(Location) >= 1
      /\ Len(Location') = Len(Location) /\ Agree(Location, Location', Len(Location) - 1)
      /\ Location'[Len(Location)] = Location[Len(Location)] + 1
  <2>1. /\ Location \in Seq(Nat) /\ Len(Location) = Depth
        /\ Location' \in Seq(Nat) /\ Len(Location') = Depth
        /\ \A k \in 1..Depth : Location[k] = stack[k].pos /\ Location'[k] = stack'[k].pos
    BY <1>2, <1>3, <1>5 DEF LocationIsPositions
  <2>2. Depth \in 1..Depth /\ \A k \in 1..Depth - 1 : k \in 1..Depth
    BY <1>3
  <2>3. \A k \in 1..Depth - 1 : Location[k] = Location'[k]
    BY <1>5, <2>1, <2>2
  <2>4. Location'[Depth] = Location[Depth] + 1
    BY <1>5, <2>1, <2>2
  <2> QED
    BY <1>3, <2>1, <2>3, <2>4 DEF Agree
<1>7. ASSUME reported # <<>> PROVE Before(LastAt, Location')
  <2>1. LastAt \in Seq(Nat) /\ NotAfter(LastAt, Location)
    BY <1>1, <1>7, LastType DEF OrderInv
  <2> QED
    BY <1>6, <2>1, NextEntryAfter
<1> QED
  BY <1>1, <1>7, NothingReported DEF NotAfter

LEMMA EntryOrder == ASSUME IndInv, IndInv', OrderInv, EntryAccepted \/ EntrySkipped PROVE OrderInv'
<1>1. pc = "entry" /\ Report /\ stack' = stack /\ pc' \in {"decide", "enumerate"}
  BY DEF EntryAccepted, EntrySkipped
<1>2. /\ reported' \in Reports /\ reported' # <<>> /\ LastAt' = Location
      /\ DepthFirstOnce'
  BY <1>1, ReportKeepsOrder
<1>3. Location' = Location /\ NotAfter(Location, Location)
  BY <1>1, Locations, Stays DEF Location, Depth, IndInv
<1> QED
  BY <1>1, <1>2, <1>3 DEF OrderInv

LEMMA RefusedOrder == ASSUME IndInv, IndInv', OrderInv, EntryRefused PROVE OrderInv'
<1>1. pc = "entry" /\ Report /\ Leave("CALLER_ERROR")
  BY DEF EntryRefused, Abandon
<1>2. stack # <<>> /\ pc' = "returned" /\ stack' = SubSeq(stack, 1, Depth - 1)
  BY <1>1 DEF IndInv, RunningFrame, Leave
<1>3. /\ reported' \in Reports /\ reported' # <<>> /\ LastAt' = Location
      /\ DepthFirstOnce'
  BY <1>1, ReportKeepsOrder
<1>4. Location \in Seq(Nat) /\ NotAfter(Location, Location)
  BY Locations, Stays DEF IndInv
<1>5. NotAfter(Location, Location')
  BY <1>2, <1>4, LeaveLocation DEF IndInv
<1> QED
  BY <1>2, <1>3, <1>5 DEF OrderInv

LEMMA NewContextRefusedOrder ==
  ASSUME IndInv, IndInv', OrderInv, NewContextRefused \/ PathNotAllocated
  PROVE  OrderInv'
<1>1. PICK status : Leave(status)
  BY DEF NewContextRefused, PathNotAllocated, Abandon
<1>2. pc \in {"decide", "descend"} /\ UNCHANGED reported
  BY DEF NewContextRefused, PathNotAllocated
<1>3. stack # <<>>
  BY <1>2 DEF IndInv, RunningFrame
<1>4. NotAfter(Location, Location)
  BY Locations, Stays DEF IndInv
<1>5. reported # <<>> => NotAfter(LastAt, Location)
  BY <1>2, <1>4 DEF OrderInv
<1> QED
  BY <1>1, <1>2, <1>3, <1>5, LeaveOrder

LEMMA DescendOrder ==
  ASSUME IndInv, IndInv', OrderInv, NewContextGiven \/ PathAllocated \/ PathNotAllocatedContinue
  PROVE  OrderInv'
<1>1. /\ UNCHANGED reported /\ pc \in {"decide", "descend"} /\ pc' \in {"descend", "open"}
  BY DEF NewContextGiven, PathAllocated, PathNotAllocatedContinue, ghosts
<1>2. stack # <<>>
  BY <1>1 DEF IndInv, RunningFrame
<1>3. Top \in Frame /\ stack \in Seq(Frame) /\ Depth = Len(stack) /\ Depth \in Nat /\ Depth >= 1
  BY <1>2, TopFrame DEF IndInv, TypeOK, Depth
<1>4. PICK f : stack' = [stack EXCEPT ![Depth] = f] /\ f.pos = Top.pos
  <2>1. CASE NewContextGiven
    <3>1. stack' = [stack EXCEPT ![Depth] = [Top EXCEPT !.ctx = "held"]]
      BY <2>1 DEF NewContextGiven, Top
    <3>2. [Top EXCEPT !.ctx = "held"].pos = Top.pos
      BY <1>3 DEF Frame
    <3> QED
      BY <3>1, <3>2
  <2>2. CASE PathAllocated
    <3>1. stack' = [stack EXCEPT ![Depth] = [Top EXCEPT !.path = "held"]]
      BY <2>2 DEF PathAllocated, Top
    <3>2. [Top EXCEPT !.path = "held"].pos = Top.pos
      BY <1>3 DEF Frame
    <3> QED
      BY <3>1, <3>2
  <2>3. CASE PathNotAllocatedContinue
    <3>1. stack' = [stack EXCEPT ![Depth] = [Top EXCEPT !.path = "null", !.ctx = "none"]]
      BY <1>3, <2>3 DEF PathNotAllocatedContinue, Top
    <3>2. [Top EXCEPT !.path = "null", !.ctx = "none"].pos = Top.pos
      BY <1>3 DEF Frame
    <3> QED
      BY <3>1, <3>2
  <2> QED
    BY <2>1, <2>2, <2>3
<1>5. Location' = Location /\ stack' # <<>>
  BY <1>2, <1>4, SameLocation DEF IndInv
<1> QED
  BY <1>1, <1>5, NothingReported DEF OrderInv

LEMMA BackOrder ==
  ASSUME IndInv, IndInv', OrderInv, RecursionSucceeded \/ RecurseErrorContinue
  PROVE  OrderInv'
<1>1. /\ stack # <<>> /\ pc = "returned" /\ pc' = "enumerate" /\ UNCHANGED reported
      /\ stack' = [stack EXCEPT ![Depth] = Unwound]
  BY DEF RecursionSucceeded, RecurseErrorContinue, ghosts
<1>2. Unwound.pos = Top.pos
  BY <1>1, TopFrame DEF IndInv, Unwound, Frame
<1>3. Location' = Location
  BY <1>1, <1>2, SameLocation DEF IndInv
<1> QED
  BY <1>1, <1>3, NothingReported DEF OrderInv

LEMMA AbortOrder == ASSUME IndInv, IndInv', OrderInv, RecurseErrorAbort PROVE OrderInv'
<1>1. PICK status : Leave(status)
  BY DEF RecurseErrorAbort, Abandon
<1>2. stack # <<>> /\ pc = "returned" /\ UNCHANGED reported
  BY DEF RecurseErrorAbort
<1> QED
  BY <1>1, <1>2, LeaveOrder DEF OrderInv

LEMMA CallOrder == ASSUME Call PROVE OrderInv'
<1>1. reported' = <<>> /\ pc' \in {"open", "idle"}
  BY DEF Call
<1> QED
  BY <1>1 DEF OrderInv, DepthFirstOnce, Reports

LEMMA NextFullInv == FullInv /\ [Next]_vars => FullInv'
<1> SUFFICES ASSUME FullInv, [Next]_vars PROVE FullInv'
  OBVIOUS
<1>1. IndInv /\ OrderInv /\ IndInv'
  BY NextIndInv DEF FullInv
<1>2. CASE UNCHANGED vars
  BY <1>1, <1>2 DEF vars, FullInv, OrderInv, DepthFirstOnce, LastAt, Location, Depth
<1>3. CASE Call
  BY <1>1, <1>3, CallOrder DEF FullInv
<1>4. CASE Step
  BY <1>1, <1>4, OpeningOrder, OpenOrder, EndOrder, NextEntryOrder, EntryOrder, RefusedOrder,
     NewContextRefusedOrder, DescendOrder, BackOrder, AbortOrder DEF Step, FullInv
<1> QED
  BY <1>2, <1>3, <1>4 DEF Next

(* The entry callback sees the tree in depth-first order, a directory before *)
(* what is underneath it, and nothing twice (recurseIntoDirectory_), for all *)
(* trees, those with loops among them, and however the walk is cut short.    *)
THEOREM DepthFirst == Spec => []DepthFirstOnce
<1>1. Init => FullInv
  <2> SUFFICES ASSUME Init PROVE FullInv
    OBVIOUS
  <2>1. reported = <<>>
    BY DEF Init
  <2>2. OrderInv
    BY <2>1 DEF OrderInv, DepthFirstOnce, Reports
  <2> QED
    BY <2>2, InitIndInv DEF FullInv
<1>2. FullInv => DepthFirstOnce
  BY DEF FullInv, OrderInv
<1> QED
  BY <1>1, <1>2, NextFullInv, PTL DEF Spec

-----------------------------------------------------------------------------
(* What has been walked                                                      *)

(* Is the running frame at an entry that has not been reported yet, at one   *)
(* that has been and may be descended into, or between two entries?          *)
(* Has the recursion into its entry failed?                                  *)
Failed == stack # <<>> /\ (pc = "crashed" \/ (pc = "returned" /\ ntStatus # "SUCCESS"))
Phase ==
  IF pc = "entry" THEN "entry"
  ELSE IF pc \in {"decide", "descend", "open"} THEN "at"
  ELSE IF Failed THEN "failed" ELSE "between"

(* Suppressed and Descends, for the flags f.                                 *)
Hidden(e, f) == e.kind = "dot" /\ "SUPPRESS_SELF_AND_PARENT" \in f
Entered(e, f) ==
  /\ IsDirectory(e) /\ "RECURSIVE" \in f
  /\ ~(e.kind = "reparse" /\ "SKIP_REPARSE_DIRECTORIES" \in f)

(* a is the location of the entry that frame m of the stack s is at.         *)
AtFrame(a, s, m) == Len(a) = m /\ \A k \in 1..m : a[k] = s[k].pos

(* a lies in the directory of frame m, or under it.                          *)
InFrame(a, s, m) == Len(a) >= m /\ \A k \in 1..m - 1 : a[k] = s[k].pos

(* How many entries frame m has come past.                                   *)
Past(s, m, ph) == IF m = Len(s) /\ ph = "entry" THEN s[m].pos - 1 ELSE s[m].pos

(* The reports are r: entry i of the directory of frame m is among them.     *)
Listed(r, s, m, i) ==
  \E j \in 1..Len(r) : Len(r[j].at) = m /\ InFrame(r[j].at, s, m) /\ r[j].at[m] = i
AllListed(s, r, ph, f) ==
  \A m \in 1..Len(s) : \A i \in 1..Past(s, m, ph) :
    ~Hidden(Entries[s[m].dir][i], f) => Listed(r, s, m, i)

(* Nothing has been reported that the frames have not come to yet.           *)
NoneAhead(s, r, ph) ==
  \A j \in 1..Len(r) :
    /\ \A m \in 1..Len(s) : InFrame(r[j].at, s, m) => r[j].at[m] <= Past(s, m, ph)
    /\ ph = "at" => ~InFrame(r[j].at, s, Len(s) + 1)

(* The entry a frame is at has been reported as it is.                       *)
Known(s, r) ==
  \A j \in 1..Len(r) : \A m \in 1..Len(s) :
    AtFrame(r[j].at, s, m) => r[j].entry = Entries[s[m].dir][s[m].pos]

(* Every frame walks the directory that the one before it is at.             *)
Chain(s) ==
  /\ \A m \in 1..Len(s) - 1 : s[m + 1].dir = Entries[s[m].dir][s[m].pos].to
  /\ s # <<>> => s[1].dir = Root

InFull(r, d, a, f) ==
  \A i \in 1..Len(Entries[d]) :
    ~Hidden(Entries[d][i], f) => \E k \in 1..Len(r) : r[k].at = Append(a, i)

Waits(a, s, ph) == \E m \in 1..Len(s) : AtFrame(a, s, m) /\ (m < Len(s) \/ ph \in {"at", "failed"})

(* A directory that has been reported is cut short (c), walked in full, or   *)
(* being walked.                                                             *)
AllWalked(s, r, c, ph, f) ==
  \A j \in 1..Len(r) :
    Entered(r[j].entry, f) =>
      r[j].at \in c \/ InFull(r, r[j].entry.to, r[j].at, f) \/ Waits(r[j].at, s, ph)
RootWalked(s, r, c, f) == r # <<>> => <<>> \in c \/ InFull(r, Root, <<>>, f) \/ s # <<>>

Covered(s, r, c, ph, f) ==
  AllListed(s, r, ph, f) /\ NoneAhead(s, r, ph) /\ Known(s, r) /\ Chain(s)
    /\ AllWalked(s, r, c, ph, f) /\ RootWalked(s, r, c, f)

(* What is opened next is what the running frame is at.                      *)
TargetKnown == pc = "open" => target = IF stack = <<>> THEN Root ELSE Entry.to

(* The status of a walk that is over and had got into its root is known.     *)
StatusKnown ==
  stack = <<>> /\ reported # <<>> =>
    /\ pc \in {"idle", "returned"}
    /\ ntStatus \notin {"SUCCESS", "SKIP_RECURSION"} => aborted

WalkInv == Covered(stack, reported, cut, Phase, dwFlags) /\ TargetKnown /\ StatusKnown

-----------------------------------------------------------------------------
(* What a change of the stack or of the reports does to what is covered.     *)
(* The lemmas are about values s, t of the stack and r of the reports.       *)

(* t is at the places of s in the directories of s.                          *)
Alike(s, t) ==
  /\ Len(t) = Len(s)
  /\ \A k \in 1..Len(s) : t[k].pos = s[k].pos /\ t[k].dir = s[k].dir

LEMMA FramesPositions ==
  ASSUME NEW s, s \in Seq(Frame)
  PROVE  /\ Len(s) \in Nat
         /\ \A k \in 1..Len(s) : s[k].pos \in Nat /\ s[k].dir \in Dirs
<1>1. Len(s) \in Nat /\ \A k \in 1..Len(s) : s[k] \in Frame
  BY ElementOfSeq
<1> QED
  BY <1>1 DEF Frame

LEMMA CoverMore ==
  ASSUME NEW s, NEW r, NEW c, NEW c2, NEW ph, NEW f, Covered(s, r, c, ph, f), c \subseteq c2
  PROVE  Covered(s, r, c2, ph, f)
<1>1. AllWalked(s, r, c2, ph, f)
  BY DEF Covered, AllWalked
<1>2. RootWalked(s, r, c2, f)
  BY DEF Covered, RootWalked
<1> QED
  BY <1>1, <1>2 DEF Covered

(* The frames are where they were.                                           *)
LEMMA AlikeFrames ==
  ASSUME NEW s, s \in Seq(Frame), NEW t, t \in Seq(Frame), Alike(s, t),
         NEW a, NEW m \in 1..Len(s) + 1, NEW ph
  PROVE  /\ m \in 1..Len(s) => (AtFrame(a, t, m) <=> AtFrame(a, s, m))
         /\ InFrame(a, t, m) <=> InFrame(a, s, m)
         /\ m \in 1..Len(s) => Past(t, m, ph) = Past(s, m, ph)
<1>1. Len(s) \in Nat
  BY FramesPositions
<1>2. \A k \in 1..m - 1 : k \in 1..Len(s)
  BY <1>1
<1>3. \A k \in 1..m - 1 : t[k].pos = s[k].pos
  BY <1>2 DEF Alike
<1>4. InFrame(a, t, m) <=> InFrame(a, s, m)
  BY <1>3 DEF InFrame
<1>5. ASSUME m \in 1..Len(s)
      PROVE  (AtFrame(a, t, m) <=> AtFrame(a, s, m)) /\ Past(t, m, ph) = Past(s, m, ph)
  <2>1. \A k \in 1..m : k \in 1..Len(s)
    BY <1>1, <1>5
  <2>2. \A k \in 1..m : t[k].pos = s[k].pos
    BY <2>1 DEF Alike
  <2>3. m \in 1..m
    BY <1>5
  <2> QED
    BY <2>2, <2>3 DEF AtFrame, Past, Alike
<1> QED
  BY <1>4, <1>5

LEMMA CoverSame ==
  ASSUME NEW s, s \in Seq(Frame), NEW t, t \in Seq(Frame), Alike(s, t),
         NEW r, NEW c, NEW ph, NEW f, Covered(s, r, c, ph, f)
  PROVE  Covered(t, r, c, ph, f)
<1>1. /\ Len(s) \in Nat /\ Len(t) = Len(s)
      /\ \A k \in 1..Len(s) : t[k].pos = s[k].pos /\ t[k].dir = s[k].dir
      /\ \A k \in 1..Len(s) : k \in 1..Len(s) + 1
      /\ Len(s) + 1 \in 1..Len(s) + 1
  BY FramesPositions DEF Alike
<1>2. ASSUME NEW a, NEW m \in 1..Len(s)
      PROVE  /\ AtFrame(a, t, m) <=> AtFrame(a, s, m)
             /\ InFrame(a, t, m) <=> InFrame(a, s, m)
             /\ Past(t, m, ph) = Past(s, m, ph)
  <2>1. m \in 1..Len(s) + 1 /\ m \in 1..Len(s)
    BY <1>1
  <2>2. AtFrame(a, t, m) <=> AtFrame(a, s, m)
    BY <2>1, AlikeFrames
  <2>3. InFrame(a, t, m) <=> InFrame(a, s, m)
    BY <2>1, AlikeFrames
  <2>4. Past(t, m, ph) = Past(s, m, ph)
    BY <1>1, Zenon DEF Past
  <2> QED
    BY <2>2, <2>3, <2>4, Zenon
<1>3. \A a : InFrame(a, t, Len(s) + 1) <=> InFrame(a, s, Len(s) + 1)
  BY <1>1, AlikeFrames
<1>4. AllListed(t, r, ph, f)
  BY <1>1, <1>2 DEF Covered, AllListed, Listed
<1>5. NoneAhead(t, r, ph)
  BY <1>1, <1>2, <1>3 DEF Covered, NoneAhead
<1>6. Known(t, r)
  BY <1>1, <1>2 DEF Covered, Known
<1>7. Chain(t)
  <2>1. ASSUME NEW m \in 1..Len(s) - 1
        PROVE  m \in 1..Len(s) /\ m + 1 \in 1..Len(s)
    BY <1>1
  <2>2. ASSUME s # <<>> PROVE 1 \in 1..Len(s)
    <3>1. Len(s) # 0
      BY <2>2
    <3> QED
      BY <1>1, <3>1
  <2>3. t # <<>> => s # <<>>
    BY <1>1
  <2>4. \A m \in 1..Len(s) - 1 : t[m + 1].dir = Entries[t[m].dir][t[m].pos].to
    BY <1>1, <2>1 DEF Covered, Chain
  <2> QED
    BY <1>1, <2>2, <2>3, <2>4 DEF Covered, Chain
<1>8. AllWalked(t, r, c, ph, f)
  BY <1>1, <1>2 DEF Covered, AllWalked, Waits
<1>9. RootWalked(t, r, c, f)
  <2>1. s # <<>> => t # <<>>
    BY <1>1
  <2> QED
    BY <2>1 DEF Covered, RootWalked
<1> QED
  BY <1>4, <1>5, <1>6, <1>7, <1>8, <1>9 DEF Covered

(* The running frame comes to its next entry.                                *)
LEMMA CoverNext ==
  ASSUME NEW s, s \in Seq(Frame), s # <<>>, NEW t, t \in Seq(Frame), Len(t) = Len(s),
         \A k \in 1..Len(s) : t[k].dir = s[k].dir,
         \A k \in 1..Len(s) - 1 : t[k].pos = s[k].pos,
         t[Len(s)].pos = s[Len(s)].pos + 1,
         NEW r, NEW c, NEW f, Covered(s, r, c, "between", f),
         \A j \in 1..Len(r) : r[j].at \in Seq(Nat)
  PROVE  /\ Covered(t, r, c, "entry", f)
         /\ Hidden(Entries[s[Len(s)].dir][s[Len(s)].pos + 1], f) => Covered(t, r, c, "between", f)
<1> DEFINE n == Len(s)
<1>1. /\ n \in Nat /\ n >= 1 /\ \A k \in 1..n : s[k].pos \in Nat
      /\ n \in 1..n /\ t # <<>>
      /\ \A k \in 1..n - 1 : k \in 1..n /\ k + 1 \in 1..n
      /\ \A k \in 1..n : k = n \/ k \in 1..n - 1
  <2>1. n \in Nat /\ n >= 1 /\ \A k \in 1..n : s[k].pos \in Nat
    BY FramesPositions
  <2> QED
    BY <2>1
<1>2. ASSUME NEW a, NEW m \in 1..n
      PROVE  InFrame(a, t, m) <=> InFrame(a, s, m)
  <2>1. \A k \in 1..m - 1 : k \in 1..n - 1
    BY <1>1
  <2> QED
    BY <2>1 DEF InFrame
<1>3. ASSUME NEW a, NEW m \in 1..n - 1
      PROVE  AtFrame(a, t, m) <=> AtFrame(a, s, m)
  <2>1. \A k \in 1..m : k \in 1..n - 1
    BY <1>1
  <2> QED
    BY <2>1 DEF AtFrame
<1>4. /\ \A m \in 1..n - 1 : /\ Past(t, m, "entry") = Past(s, m, "between")
                             /\ Past(t, m, "between") = Past(s, m, "between")
      /\ Past(s, n, "between") = s[n].pos
      /\ Past(t, n, "entry") = s[n].pos /\ Past(t, n, "between") = s[n].pos + 1
      /\ s[n].pos \in Nat
  <2>1. ASSUME NEW m \in 1..n - 1 PROVE m # n
    BY <1>1
  <2>2. s[n].pos \in Nat
    BY <1>1
  <2>3. t[n].pos - 1 = s[n].pos
    BY <2>2
  <2>4. Past(t, n, "entry") = s[n].pos
    BY <2>3 DEF Past
  <2> QED
    BY <2>1, <2>2, <2>4 DEF Past
<1>5. \A m \in 1..n : \A i \in 1..Past(s, m, "between") :
        ~Hidden(Entries[t[m].dir][i], f) => Listed(r, t, m, i)
  BY <1>2 DEF Covered, AllListed, Listed
<1>6. AllListed(t, r, "entry", f)
  <2>1. \A m \in 1..n : Past(t, m, "entry") = Past(s, m, "between")
    BY <1>1, <1>4
  <2> QED
    BY <1>5, <2>1 DEF AllListed
<1>7. ASSUME Hidden(Entries[s[n].dir][s[n].pos + 1], f)
      PROVE  AllListed(t, r, "between", f)
  <2>1. ASSUME NEW m \in 1..n, NEW i \in 1..Past(t, m, "between"), ~Hidden(Entries[t[m].dir][i], f)
        PROVE  Listed(r, t, m, i)
    <3>1. i \in 1..Past(s, m, "between")
      <4>1. CASE m \in 1..n - 1
        BY <1>4, <4>1
      <4>2. CASE m = n
        <5>1. i # s[n].pos + 1
          BY <1>1, <1>7, <2>1, <4>2
        <5> QED
          BY <1>4, <4>2, <5>1
      <4> QED
        BY <1>1, <4>1, <4>2
    <3> QED
      BY <1>5, <2>1, <3>1
  <2> QED
    BY <2>1 DEF AllListed
<1>8. ASSUME NEW j \in 1..Len(r), NEW m \in 1..n, InFrame(r[j].at, t, m)
      PROVE  r[j].at[m] <= Past(t, m, "entry") /\ r[j].at[m] <= Past(t, m, "between")
  <2>1. InFrame(r[j].at, s, m)
    BY <1>2, <1>8
  <2>2. r[j].at[m] <= Past(s, m, "between")
    BY <2>1 DEF Covered, NoneAhead
  <2>3. CASE m \in 1..n - 1
    BY <1>4, <2>2, <2>3
  <2>4. CASE m = n
    <3>1. r[j].at[m] \in Nat
      <4>1. r[j].at \in Seq(Nat) /\ Len(r[j].at) >= m /\ m >= 1
        BY <1>8 DEF InFrame
      <4>2. m \in 1..Len(r[j].at)
        BY <4>1
      <4> QED
        BY <4>1, <4>2, ElementOfSeq, Zenon
    <3> QED
      BY <1>4, <2>2, <2>4, <3>1
  <2> QED
    BY <1>1, <2>3, <2>4
<1>9. NoneAhead(t, r, "entry") /\ NoneAhead(t, r, "between")
  BY <1>8 DEF NoneAhead
<1>10. Known(t, r)
  <2>1. ASSUME NEW j \in 1..Len(r), NEW m \in 1..n, AtFrame(r[j].at, t, m)
        PROVE  m \in 1..n - 1
    <3>1. ASSUME m = n PROVE FALSE
      <4>1. r[j].at[n] = s[n].pos + 1 /\ Len(r[j].at) = n
        BY <1>1, <2>1, <3>1 DEF AtFrame
      <4>2. InFrame(r[j].at, s, n)
        BY <1>1, <2>1, <3>1 DEF AtFrame, InFrame
      <4>3. r[j].at[n] <= s[n].pos
        BY <1>1, <1>4, <4>2 DEF Covered, NoneAhead
      <4> QED
        BY <1>4, <4>1, <4>3
    <3> QED
      BY <1>1, <3>1
  <2>2. ASSUME NEW j \in 1..Len(r), NEW m \in 1..n, AtFrame(r[j].at, t, m)
        PROVE  r[j].entry = Entries[t[m].dir][t[m].pos]
    <3>1. m \in 1..n - 1
      BY <2>1, <2>2
    <3>2. AtFrame(r[j].at, s, m)
      BY <1>3, <2>2, <3>1
    <3>3. r[j].entry = Entries[s[m].dir][s[m].pos]
      BY <3>2 DEF Covered, Known
    <3> QED
      BY <3>1, <3>3
  <2> QED
    BY <2>2 DEF Known
<1>11. Chain(t)
  BY <1>1 DEF Covered, Chain
<1>12. AllWalked(t, r, c, "entry", f) /\ AllWalked(t, r, c, "between", f)
  <2>1. ASSUME NEW a, Waits(a, s, "between")
        PROVE  Waits(a, t, "entry") /\ Waits(a, t, "between")
    <3>1. PICK m \in 1..n : AtFrame(a, s, m) /\ m < n
      BY <2>1 DEF Waits
    <3>2. m \in 1..n - 1
      BY <1>1, <3>1
    <3> QED
      BY <1>3, <3>1, <3>2 DEF Waits
  <2> QED
    BY <2>1 DEF Covered, AllWalked
<1>13. RootWalked(t, r, c, f)
  BY <1>1 DEF RootWalked
<1> QED
  BY <1>6, <1>7, <1>9, <1>10, <1>11, <1>12, <1>13 DEF Covered

(* The entry that the running frame is at is reported.                       *)
LEMMA CoverReport ==
  ASSUME NEW s, s \in Seq(Frame), s # <<>>, NEW L, AtFrame(L, s, Len(s)),
         NEW E, E = Entries[s[Len(s)].dir][s[Len(s)].pos],
         NEW r, NEW q, q.at = L, q.entry = E, NEW r2, Len(r) \in Nat, Len(r2) = Len(r) + 1,
         \A j \in 1..Len(r) : r2[j] = r[j], r2[Len(r2)] = q,
         \A j \in 1..Len(r) : r[j].at \in Seq(Nat),
         NEW c, NEW f, Covered(s, r, c, "entry", f)
  PROVE  Covered(s, r2, c, "at", f)
<1> DEFINE n == Len(s)
<1>1. /\ n \in Nat /\ n >= 1 /\ \A k \in 1..n : s[k].pos \in Nat
      /\ n \in 1..n /\ s[n].pos \in Nat
      /\ \A k \in 1..n : k = n \/ k \in 1..n - 1
  <2>1. n \in Nat /\ n >= 1 /\ \A k \in 1..n : s[k].pos \in Nat
    BY FramesPositions
  <2> QED
    BY <2>1
<1>2. /\ \A j \in 1..Len(r2) : j = Len(r2) \/ j \in 1..Len(r)
      /\ \A j \in 1..Len(r) : j \in 1..Len(r2)
      /\ Len(r2) \in 1..Len(r2)
  OBVIOUS
<1>3. /\ \A m \in 1..n : m # n => Past(s, m, "at") = Past(s, m, "entry")
      /\ Past(s, n, "at") = s[n].pos /\ Past(s, n, "entry") = s[n].pos - 1
  BY DEF Past
<1>4. \A m, i : Listed(r, s, m, i) => Listed(r2, s, m, i)
  BY <1>2 DEF Listed
<1>5. AllListed(s, r2, "at", f)
  <2>1. ASSUME NEW m \in 1..n, NEW i \in 1..Past(s, m, "at"), ~Hidden(Entries[s[m].dir][i], f)
        PROVE  Listed(r2, s, m, i)
    <3>1. CASE m = n /\ i = s[n].pos
      <4>1. Len(L) = n /\ L[n] = s[n].pos /\ InFrame(L, s, n)
        BY <1>1 DEF AtFrame, InFrame
      <4> QED
        BY <1>2, <3>1, <4>1 DEF Listed
    <3>2. CASE ~(m = n /\ i = s[n].pos)
      <4>1. i \in 1..Past(s, m, "entry")
        BY <1>1, <1>3, <3>2
      <4>2. Listed(r, s, m, i)
        BY <2>1, <4>1 DEF Covered, AllListed
      <4> QED
        BY <1>4, <4>2
    <3> QED
      BY <3>1, <3>2
  <2> QED
    BY <2>1 DEF AllListed
<1>6. ASSUME NEW j \in 1..Len(r)
      PROVE  /\ \A m \in 1..n : InFrame(r[j].at, s, m) => r[j].at[m] <= Past(s, m, "at")
             /\ ~InFrame(r[j].at, s, n + 1)
  <2>1. ASSUME InFrame(r[j].at, s, n)
        PROVE  r[j].at[n] <= s[n].pos - 1 /\ r[j].at[n] \in Nat
    <3>1. r[j].at[n] <= Past(s, n, "entry")
      BY <1>1, <2>1 DEF Covered, NoneAhead
    <3>2. r[j].at \in Seq(Nat) /\ Len(r[j].at) >= n
      BY <2>1 DEF InFrame
    <3>3. n \in 1..Len(r[j].at)
      BY <1>1, <3>2
    <3>4. r[j].at[n] \in Nat
      BY <3>2, <3>3, ElementOfSeq, Zenon
    <3> QED
      BY <1>3, <3>1, <3>4
  <2>2. ASSUME NEW m \in 1..n, InFrame(r[j].at, s, m)
        PROVE  r[j].at[m] <= Past(s, m, "at")
    <3>1. CASE m = n
      BY <1>1, <1>3, <2>1, <2>2, <3>1
    <3>2. CASE m # n
      BY <1>3, <2>2, <3>2 DEF Covered, NoneAhead
    <3> QED
      BY <3>1, <3>2
  <2>3. ASSUME InFrame(r[j].at, s, n + 1) PROVE FALSE
    <3>1. /\ Len(r[j].at) >= n + 1 /\ \A k \in 1..n + 1 - 1 : r[j].at[k] = s[k].pos
          /\ Len(r[j].at) \in Nat
      BY <2>3 DEF InFrame
    <3>2. /\ Len(r[j].at) >= n /\ \A k \in 1..n - 1 : k \in 1..n + 1 - 1
          /\ n \in 1..n + 1 - 1
      BY <1>1, <3>1
    <3>3. InFrame(r[j].at, s, n) /\ r[j].at[n] = s[n].pos
      BY <3>1, <3>2 DEF InFrame
    <3> QED
      BY <1>1, <2>1, <3>3
  <2> QED
    BY <2>2, <2>3
<1>7. NoneAhead(s, r2, "at")
  <2>1. \A m \in 1..n : InFrame(L, s, m) => L[m] <= Past(s, m, "at")
    <3>1. ASSUME NEW m \in 1..n PROVE L[m] = s[m].pos /\ s[m].pos \in Nat /\ Past(s, m, "at") = s[m].pos
      BY <1>1 DEF AtFrame, Past
    <3> QED
      BY <3>1
  <2>2. ~InFrame(L, s, n + 1)
    BY <1>1 DEF AtFrame, InFrame
  <2> QED
    BY <1>2, <1>6, <2>1, <2>2 DEF NoneAhead
<1>8. Known(s, r2)
  <2>1. ASSUME NEW m \in 1..n, AtFrame(L, s, m) PROVE m = n
    BY <2>1 DEF AtFrame
  <2>2. ASSUME NEW j \in 1..Len(r2), NEW m \in 1..n, AtFrame(r2[j].at, s, m)
        PROVE  r2[j].entry = Entries[s[m].dir][s[m].pos]
    <3>1. CASE j = Len(r2)
      <4>1. m = n
        BY <2>1, <2>2, <3>1
      <4> QED
        BY <3>1, <4>1
    <3>2. CASE j \in 1..Len(r)
      BY <2>2, <3>2 DEF Covered, Known
    <3> QED
      BY <1>2, <3>1, <3>2
  <2> QED
    BY <2>2 DEF Known
<1>9. \A d, a : InFull(r, d, a, f) => InFull(r2, d, a, f)
  BY <1>2 DEF InFull
<1>10. AllWalked(s, r2, c, "at", f)
  <2>1. Waits(L, s, "at")
    BY <1>1 DEF Waits
  <2>2. \A a : Waits(a, s, "entry") => Waits(a, s, "at")
    BY DEF Waits
  <2>3. ASSUME NEW j \in 1..Len(r), Entered(r2[j].entry, f)
        PROVE  r2[j].at \in c \/ InFull(r2, r2[j].entry.to, r2[j].at, f) \/ Waits(r2[j].at, s, "at")
    BY <1>9, <2>2, <2>3 DEF Covered, AllWalked
  <2> QED
    BY <1>2, <2>1, <2>3 DEF AllWalked
<1>11. RootWalked(s, r2, c, f)
  BY DEF RootWalked
<1> QED
  BY <1>5, <1>7, <1>8, <1>10, <1>11 DEF Covered

(* The recursion into the entry the running frame is at has failed, before   *)
(* or after it got into the directory.                                       *)
LEMMA CoverFailed ==
  ASSUME NEW s, NEW r, NEW c, NEW f, NEW ph \in {"at", "between"}, Covered(s, r, c, ph, f)
  PROVE  Covered(s, r, c, "failed", f)
<1>1. \A m : Past(s, m, "failed") = Past(s, m, ph)
  BY DEF Past
<1>2. AllListed(s, r, "failed", f) /\ NoneAhead(s, r, "failed")
  BY <1>1 DEF Covered, AllListed, NoneAhead
<1>3. AllWalked(s, r, c, "failed", f)
  <2>1. \A a : Waits(a, s, ph) => Waits(a, s, "failed")
    BY DEF Waits
  <2> QED
    BY <2>1 DEF Covered, AllWalked
<1> QED
  BY <1>2, <1>3 DEF Covered

(* The running frame is done with its entry.                                 *)
LEMMA CoverPast ==
  ASSUME NEW s, NEW r, NEW c, NEW f, NEW ph \in {"at", "failed"}, Covered(s, r, c, ph, f),
         \A j \in 1..Len(r) : AtFrame(r[j].at, s, Len(s)) => ~Entered(r[j].entry, f) \/ r[j].at \in c
  PROVE  Covered(s, r, c, "between", f)
<1>1. \A m : Past(s, m, "between") = Past(s, m, ph)
  BY DEF Past
<1>2. AllListed(s, r, "between", f) /\ NoneAhead(s, r, "between")
  BY <1>1 DEF Covered, AllListed, NoneAhead
<1>3. AllWalked(s, r, c, "between", f)
  <2>1. ASSUME NEW j \in 1..Len(r), Waits(r[j].at, s, ph), Entered(r[j].entry, f), r[j].at \notin c
        PROVE  Waits(r[j].at, s, "between")
    <3>1. PICK m \in 1..Len(s) : AtFrame(r[j].at, s, m) /\ (m < Len(s) \/ ph \in {"at", "failed"})
      BY <2>1 DEF Waits
    <3>2. m # Len(s)
      BY <2>1, <3>1
    <3>3. m < Len(s)
      BY <3>2
    <3> QED
      BY <3>1, <3>3 DEF Waits
  <2> QED
    BY <2>1 DEF Covered, AllWalked
<1> QED
  BY <1>2, <1>3 DEF Covered

(* The running frame opens the directory it is at, or the walk its root.     *)
LEMMA CoverOpen ==
  ASSUME NEW s, s \in Seq(Frame), NEW t, t \in Seq(Frame), Len(t) = Len(s) + 1,
         \A k \in 1..Len(s) : t[k] = s[k], t[Len(t)].pos = 0,
         t[Len(t)].dir = IF s = <<>> THEN Root ELSE Entries[s[Len(s)].dir][s[Len(s)].pos].to,
         NEW r, NEW c, NEW f, Covered(s, r, c, "at", f)
  PROVE  Covered(t, r, c, "between", f)
<1> DEFINE n == Len(s)
<1>1. /\ n \in Nat /\ t # <<>>
      /\ \A m \in 1..n + 1 : m = n + 1 \/ m \in 1..n
      /\ \A m \in 1..n : m \in 1..n + 1
  BY FramesPositions
<1>2. ASSUME NEW a, NEW m \in 1..n
      PROVE  InFrame(a, t, m) <=> InFrame(a, s, m)
  <2>1. \A k \in 1..m - 1 : k \in 1..n
    BY <1>1
  <2> QED
    BY <2>1 DEF InFrame
<1>3. ASSUME NEW a, NEW m \in 1..n
      PROVE  AtFrame(a, t, m) <=> AtFrame(a, s, m)
  <2>1. \A k \in 1..m : k \in 1..n
    BY <1>1
  <2> QED
    BY <2>1 DEF AtFrame
<1>4. /\ \A m \in 1..n : Past(t, m, "between") = s[m].pos /\ Past(s, m, "at") = s[m].pos
      /\ Past(t, n + 1, "between") = 0
  BY <1>1 DEF Past
<1>5. \A j \in 1..Len(r) : ~InFrame(r[j].at, t, n + 1) /\ ~AtFrame(r[j].at, t, n + 1)
  <2>1. ASSUME NEW a, InFrame(a, t, n + 1) PROVE InFrame(a, s, n + 1)
    <3>1. \A k \in 1..n + 1 - 1 : k \in 1..n
      BY <1>1
    <3> QED
      BY <2>1, <3>1 DEF InFrame
  <2>2. ASSUME NEW a, AtFrame(a, t, n + 1) PROVE InFrame(a, t, n + 1)
    <3>1. \A k \in 1..n + 1 - 1 : k \in 1..n + 1
      BY <1>1
    <3> QED
      BY <1>1, <2>2, <3>1 DEF AtFrame, InFrame
  <2>3. \A j \in 1..Len(r) : ~InFrame(r[j].at, s, n + 1)
    BY DEF Covered, NoneAhead
  <2> QED
    BY <2>1, <2>2, <2>3
<1>6. AllListed(t, r, "between", f)
  <2>1. ASSUME NEW m \in 1..n + 1, NEW i \in 1..Past(t, m, "between"), ~Hidden(Entries[t[m].dir][i], f)
        PROVE  Listed(r, t, m, i)
    <3>1. m \in 1..n
      BY <1>1, <1>4
    <3>2. i \in 1..Past(s, m, "at") /\ ~Hidden(Entries[s[m].dir][i], f)
      BY <1>4, <2>1, <3>1
    <3>3. Listed(r, s, m, i)
      BY <3>1, <3>2 DEF Covered, AllListed
    <3> QED
      BY <1>2, <3>1, <3>3 DEF Listed
  <2> QED
    BY <2>1 DEF AllListed
<1>7. NoneAhead(t, r, "between")
  <2>1. ASSUME NEW j \in 1..Len(r), NEW m \in 1..n + 1, InFrame(r[j].at, t, m)
        PROVE  r[j].at[m] <= Past(t, m, "between")
    <3>1. m \in 1..n
      BY <1>1, <1>5, <2>1
    <3>2. InFrame(r[j].at, s, m)
      BY <1>2, <2>1, <3>1
    <3>3. r[j].at[m] <= Past(s, m, "at")
      BY <3>1, <3>2 DEF Covered, NoneAhead
    <3> QED
      BY <1>4, <3>1, <3>3
  <2> QED
    BY <2>1 DEF NoneAhead
<1>8. Known(t, r)
  <2>1. ASSUME NEW j \in 1..Len(r), NEW m \in 1..n + 1, AtFrame(r[j].at, t, m)
        PROVE  r[j].entry = Entries[t[m].dir][t[m].pos]
    <3>1. m \in 1..n
      BY <1>1, <1>5, <2>1
    <3>2. AtFrame(r[j].at, s, m)
      BY <1>3, <2>1, <3>1
    <3>3. r[j].entry = Entries[s[m].dir][s[m].pos]
      BY <3>1, <3>2 DEF Covered, Known
    <3> QED
      BY <3>1, <3>3
  <2> QED
    BY <2>1 DEF Known
<1>9. Chain(t)
  <2>1. ASSUME NEW m \in 1..n
        PROVE  t[m + 1].dir = Entries[t[m].dir][t[m].pos].to
    <3>1. CASE m = n
      <4>1. s # <<>>
        BY <3>1
      <4> QED
        BY <3>1, <4>1
    <3>2. CASE m # n
      <4>1. m \in 1..n - 1 /\ m + 1 \in 1..n
        BY <1>1, <3>2
      <4>2. s[m + 1].dir = Entries[s[m].dir][s[m].pos].to
        BY <4>1 DEF Covered, Chain
      <4> QED
        BY <4>1, <4>2
    <3> QED
      BY <3>1, <3>2
  <2>2. t[1].dir = Root
    <3>1. CASE s = <<>>
      BY <3>1
    <3>2. CASE s # <<>>
      <4>1. 1 \in 1..n
        BY <1>1, <3>2
      <4> QED
        BY <3>2, <4>1 DEF Covered, Chain
    <3> QED
      BY <3>1, <3>2
  <2>3. 1..Len(t) - 1 = 1..n
    BY <1>1
  <2> QED
    BY <2>1, <2>2, <2>3 DEF Chain
<1>10. AllWalked(t, r, c, "between", f)
  <2>1. ASSUME NEW a, Waits(a, s, "at") PROVE Waits(a, t, "between")
    <3>1. PICK m \in 1..n : AtFrame(a, s, m)
      BY <2>1 DEF Waits
    <3>2. AtFrame(a, t, m) /\ m \in 1..Len(t) /\ m < Len(t)
      BY <1>1, <1>3, <3>1
    <3> QED
      BY <3>2 DEF Waits
  <2> QED
    BY <2>1 DEF Covered, AllWalked
<1>11. RootWalked(t, r, c, f)
  BY <1>1 DEF RootWalked
<1> QED
  BY <1>6, <1>7, <1>8, <1>9, <1>10, <1>11 DEF Covered

(* A location is known by its positions.                                     *)
LEMMA SameLists ==
  ASSUME NEW a, a \in Seq(Nat), NEW b, b \in Seq(Nat), Len(a) = Len(b),
         \A k \in 1..Len(b) : a[k] = b[k]
  PROVE  a = b
  OBVIOUS

(* What has been come past to the end of a listing is walked in full.        *)
LEMMA FullyWalked ==
  ASSUME NEW s, s \in Seq(Frame), s # <<>>, NEW D, D \in Seq(Nat), Len(D) = Len(s) - 1,
         \A k \in 1..Len(s) - 1 : D[k] = s[k].pos,
         s[Len(s)].pos = Len(Entries[s[Len(s)].dir]),
         NEW r, \A j \in 1..Len(r) : r[j].at \in Seq(Nat),
         NEW f, AllListed(s, r, "between", f)
  PROVE  InFull(r, s[Len(s)].dir, D, f)
<1> DEFINE n == Len(s)
           d == s[Len(s)].dir
<1>1. n \in Nat /\ n >= 1 /\ n \in 1..n
  BY FramesPositions
<1>2. Past(s, n, "between") = Len(Entries[d])
  BY DEF Past
<1>3. Len(Entries[d]) \in Nat
  BY <1>1, FramesPositions, TreeAssumption
<1>4. ASSUME NEW i \in 1..Len(Entries[d]), ~Hidden(Entries[d][i], f)
      PROVE  \E k \in 1..Len(r) : r[k].at = Append(D, i)
  <2>1. Listed(r, s, n, i)
    BY <1>1, <1>2, <1>4 DEF AllListed
  <2>2. PICK j \in 1..Len(r) :
          /\ Len(r[j].at) = n /\ r[j].at[n] = i
          /\ \A k \in 1..n - 1 : r[j].at[k] = s[k].pos
    BY <2>1 DEF Listed, InFrame
  <2>3. /\ Append(D, i) \in Seq(Nat) /\ Len(Append(D, i)) = n /\ Append(D, i)[n] = i
        /\ \A k \in 1..n - 1 : Append(D, i)[k] = D[k]
    BY <1>1, <1>3
  <2>4. \A k \in 1..n : r[j].at[k] = Append(D, i)[k]
    <3>1. \A k \in 1..n : k = n \/ k \in 1..n - 1
      BY <1>1
    <3> QED
      BY <2>2, <2>3, <3>1
  <2>5. r[j].at \in Seq(Nat) /\ Len(r[j].at) = Len(Append(D, i))
    BY <2>2, <2>3
  <2>6. \A k \in 1..Len(Append(D, i)) : r[j].at[k] = Append(D, i)[k]
    BY <2>3, <2>4
  <2>7. r[j].at = Append(D, i)
    BY <2>3, <2>5, <2>6, SameLists
  <2> QED
    BY <2>7
<1> QED
  BY <1>4 DEF InFull

(* The running frame is left; D is where its directory lies.                 *)
LEMMA CoverLeave ==
  ASSUME NEW s, s \in Seq(Frame), s # <<>>, NEW t, t \in Seq(Frame), Len(t) = Len(s) - 1,
         \A k \in 1..Len(t) : t[k] = s[k],
         NEW D, D \in Seq(Nat), Len(D) = Len(s) - 1, \A k \in 1..Len(s) - 1 : D[k] = s[k].pos,
         NEW r, \A j \in 1..Len(r) : r[j].at \in Seq(Nat),
         NEW c, NEW f, Covered(s, r, c, "between", f),
         D \in c \/ s[Len(s)].pos = Len(Entries[s[Len(s)].dir])
  PROVE  Covered(t, r, c, "between", f)
<1> DEFINE n == Len(s)
<1>1. /\ n \in Nat /\ n >= 1 /\ Len(t) = n - 1
      /\ \A m \in 1..n - 1 : m \in 1..n /\ m # n
  BY FramesPositions
<1>2. ASSUME NEW a, NEW m \in 1..n - 1
      PROVE  /\ InFrame(a, t, m) <=> InFrame(a, s, m)
             /\ AtFrame(a, t, m) <=> AtFrame(a, s, m)
  <2>1. \A k \in 1..m : k \in 1..n - 1
    BY <1>1
  <2>2. \A k \in 1..m - 1 : k \in 1..n - 1
    BY <1>1
  <2> QED
    BY <1>1, <2>1, <2>2 DEF InFrame, AtFrame
<1>3. \A m \in 1..n - 1 : Past(t, m, "between") = Past(s, m, "between")
  BY <1>1 DEF Past
<1>4. InFull(r, s[n].dir, D, f) \/ D \in c
  BY FullyWalked DEF Covered
<1>5. AllListed(t, r, "between", f)
  <2>1. ASSUME NEW m \in 1..n - 1, NEW i \in 1..Past(t, m, "between"), ~Hidden(Entries[t[m].dir][i], f)
        PROVE  Listed(r, t, m, i)
    <3>1. Listed(r, s, m, i)
      BY <1>1, <1>3, <2>1 DEF Covered, AllListed
    <3> QED
      BY <1>2, <3>1 DEF Listed
  <2> QED
    BY <1>1, <2>1 DEF AllListed
<1>6. NoneAhead(t, r, "between")
  <2>1. ASSUME NEW j \in 1..Len(r), NEW m \in 1..n - 1, InFrame(r[j].at, t, m)
        PROVE  r[j].at[m] <= Past(t, m, "between")
    <3>1. InFrame(r[j].at, s, m)
      BY <1>2, <2>1
    <3>2. r[j].at[m] <= Past(s, m, "between")
      BY <1>1, <3>1 DEF Covered, NoneAhead
    <3> QED
      BY <1>3, <3>2
  <2> QED
    BY <1>1, <2>1 DEF NoneAhead
<1>7. Known(t, r)
  <2>1. ASSUME NEW j \in 1..Len(r), NEW m \in 1..n - 1, AtFrame(r[j].at, t, m)
        PROVE  r[j].entry = Entries[t[m].dir][t[m].pos]
    <3>1. AtFrame(r[j].at, s, m)
      BY <1>2, <2>1
    <3>2. r[j].entry = Entries[s[m].dir][s[m].pos]
      BY <1>1, <3>1 DEF Covered, Known
    <3> QED
      BY <1>1, <3>2
  <2> QED
    BY <1>1, <2>1 DEF Known
<1>8. Chain(t)
  <2>1. ASSUME NEW m \in 1..Len(t) - 1
        PROVE  t[m + 1].dir = Entries[t[m].dir][t[m].pos].to
    <3> HIDE DEF n
    <3>a. \A N \in Nat : \A i \in 1..N - 1 : i \in 1..N /\ i + 1 \in 1..N
      OBVIOUS
    <3>b. Len(t) \in Nat /\ Len(t) = n - 1
      BY <1>1
    <3>1. m \in 1..n - 1 /\ m \in 1..Len(t) /\ m + 1 \in 1..Len(t)
      BY <3>a, <3>b
    <3> USE DEF n
    <3>2. s[m + 1].dir = Entries[s[m].dir][s[m].pos].to
      BY <3>1 DEF Covered, Chain
    <3> QED
      BY <3>1, <3>2
  <2>2. ASSUME t # <<>> PROVE t[1].dir = Root
    <3>1. 1 \in 1..Len(t)
      BY <1>1, <2>2
    <3> QED
      BY <3>1 DEF Covered, Chain
  <2> QED
    BY <2>1, <2>2 DEF Chain
<1>9. AllWalked(t, r, c, "between", f)
  <2>1. ASSUME NEW j \in 1..Len(r), Entered(r[j].entry, f), Waits(r[j].at, s, "between")
        PROVE  r[j].at \in c \/ InFull(r, r[j].entry.to, r[j].at, f) \/ Waits(r[j].at, t, "between")
    <3>1. PICK m \in 1..n : AtFrame(r[j].at, s, m) /\ m < n
      BY <2>1 DEF Waits
    <3>2. m \in 1..n - 1
      BY <1>1, <3>1
    <3>3. CASE m < n - 1
      <4>1. m \in 1..Len(t) /\ m < Len(t) /\ AtFrame(r[j].at, t, m)
        BY <1>1, <1>2, <3>1, <3>2, <3>3
      <4> QED
        BY <4>1 DEF Waits
    <3>4. CASE m = n - 1
      <4>1. r[j].at = D
        <5>1. Len(r[j].at) = Len(D) /\ \A k \in 1..Len(D) : r[j].at[k] = D[k]
          BY <3>1, <3>4 DEF AtFrame
        <5>2. r[j].at \in Seq(Nat)
          OBVIOUS
        <5> QED
          BY <5>1, <5>2, SameLists
      <4>2. r[j].entry = Entries[s[m].dir][s[m].pos]
        BY <3>1 DEF Covered, Known
      <4>3. s[m + 1].dir = r[j].entry.to
        BY <3>2, <4>2 DEF Covered, Chain
      <4>4. m + 1 = n
        BY <1>1, <3>4
      <4> QED
        BY <1>4, <4>1, <4>3, <4>4
    <3> QED
      BY <1>1, <3>2, <3>3, <3>4
  <2> QED
    BY <2>1 DEF Covered, AllWalked
<1>10. RootWalked(t, r, c, f)
  <2>1. ASSUME t = <<>> PROVE <<>> \in c \/ InFull(r, Root, <<>>, f)
    <3>1. n = 1 /\ D = <<>>
      BY <1>1, <2>1
    <3>2. s[n].dir = Root
      BY <3>1 DEF Covered, Chain
    <3> QED
      BY <1>4, <3>1, <3>2
  <2> QED
    BY <2>1 DEF RootWalked
<1> QED
  BY <1>5, <1>6, <1>7, <1>8, <1>9, <1>10 DEF Covered

LEMMA CoverNothing ==
  ASSUME NEW c, NEW ph, NEW f
  PROVE  Covered(<<>>, <<>>, c, ph, f)
<1>1. Len(<<>>) = 0
  OBVIOUS
<1> QED
  BY <1>1 DEF Covered, AllListed, NoneAhead, Known, Chain, AllWalked, RootWalked

-----------------------------------------------------------------------------
(* What the steps leave covered                                              *)

(* The running frame, and where it is.                                       *)
LEMMA Here ==
  ASSUME FullInv, stack # <<>>
  PROVE  /\ stack \in Seq(Frame) /\ Depth = Len(stack) /\ Depth \in Nat /\ Depth >= 1
         /\ Top = stack[Len(stack)] /\ Top \in Frame
         /\ Entry = Entries[stack[Len(stack)].dir][stack[Len(stack)].pos]
         /\ Location \in Seq(Nat) /\ AtFrame(Location, stack, Len(stack))
         /\ Directory \in Seq(Nat) /\ Len(Directory) = Len(stack) - 1
         /\ \A k \in 1..Len(stack) - 1 : Directory[k] = stack[k].pos
<1>1. TypeOK
  BY DEF FullInv, IndInv
<1>2. LocationIsPositions /\ Directory \in Seq(Nat)
  BY <1>1, LocationType, Locations
<1>3. /\ stack \in Seq(Frame) /\ Depth = Len(stack) /\ Depth \in Nat /\ Depth >= 1
      /\ Top = stack[Len(stack)] /\ Top \in Frame
  BY <1>1, TopFrame DEF TypeOK, Depth, Top
<1>4. Depth - 1 \in Nat
  BY <1>3
<1>5. Len(Directory) = Depth - 1 /\ \A k \in 1..Depth - 1 : Directory[k] = stack[k].pos
  BY <1>4 DEF Directory
<1> QED
  BY <1>2, <1>3, <1>5 DEF Entry, LocationIsPositions, AtFrame

LEMMA ReportTypes ==
  ASSUME NEW r, r \in Reports
  PROVE  Len(r) \in Nat /\ \A j \in 1..Len(r) : r[j].at \in Seq(Nat)
<1>1. \A j \in 1..Len(r) : r[j] \in [at : Seq(Nat), entry : [kind : Kinds, to : Dirs]]
  BY ElementOfSeq, Zenon DEF Reports
<1> QED
  BY <1>1 DEF Reports

(* The running frame goes past its entry: not to be descended into, or cut.  *)
LEMMA PastHere ==
  ASSUME FullInv, stack # <<>>, NEW r, r \in Reports, NEW c,
         NEW ph \in {"at", "failed"}, Covered(stack, r, c, ph, dwFlags),
         Location \in c \/ ~Entered(Entry, dwFlags)
  PROVE  Covered(stack, r, c, "between", dwFlags)
<1>1. ASSUME NEW j \in 1..Len(r), AtFrame(r[j].at, stack, Len(stack))
      PROVE  ~Entered(r[j].entry, dwFlags) \/ r[j].at \in c
  <2>1. r[j].at = Location
    <3>1. r[j].at \in Seq(Nat) /\ Location \in Seq(Nat)
      BY Here, ReportTypes
    <3>2. Len(r[j].at) = Len(Location) /\ \A k \in 1..Len(Location) : r[j].at[k] = Location[k]
      BY <1>1, Here DEF AtFrame
    <3> QED
      BY <3>1, <3>2, SameLists
  <2>2. r[j].entry = Entry
    <3>1. Len(stack) \in 1..Len(stack)
      BY Here
    <3>2. r[j].entry = Entries[stack[Len(stack)].dir][stack[Len(stack)].pos]
      BY <1>1, <3>1 DEF Covered, Known
    <3> QED
      BY <3>2, Here
  <2> QED
    BY <2>1, <2>2
<1> QED
  BY <1>1, CoverPast

LEMMA ReportCovers ==
  ASSUME FullInv, stack # <<>>, Report, Covered(stack, reported, cut, "entry", dwFlags)
  PROVE  Covered(stack, reported', cut, "at", dwFlags)
<1> DEFINE q == [at |-> Location, entry |-> Entry]
<1>1. q.at = Location /\ q.entry = Entry /\ reported' = Append(reported, q)
  BY DEF Report
<1> HIDE DEF q
<1>2. reported \in Reports
  BY DEF FullInv, OrderInv
<1>3. Len(reported) \in Nat /\ \A j \in 1..Len(reported) : reported[j].at \in Seq(Nat)
  BY <1>2, ReportTypes
<1>4. /\ Len(reported') = Len(reported) + 1 /\ reported'[Len(reported')] = q
      /\ \A j \in 1..Len(reported) : reported'[j] = reported[j]
  BY <1>1, <1>2 DEF Reports
<1> QED
  BY <1>1, <1>3, <1>4, Here, CoverReport

(* An invocation is left before the end of its listing, or at the end.       *)
LEMMA LeaveCovers ==
  ASSUME FullInv, FullInv', stack # <<>>, NEW status, Leave(status),
         Covered(stack, reported', cut', "between", dwFlags),
         Directory \in cut' \/ Top.pos = Len(Entries[Top.dir])
  PROVE  Covered(stack', reported', cut', "between", dwFlags)
<1>1. stack' = SubSeq(stack, 1, Len(stack) - 1)
  BY DEF Leave, Depth
<1>2. /\ stack' \in Seq(Frame) /\ Len(stack') = Len(stack) - 1
      /\ \A k \in 1..Len(stack') : stack'[k] = stack[k]
  BY <1>1, Here, Shorter
<1>3. \A j \in 1..Len(reported') : reported'[j].at \in Seq(Nat)
  BY ReportTypes DEF FullInv, OrderInv
<1>4. /\ stack \in Seq(Frame) /\ Directory \in Seq(Nat) /\ Len(Directory) = Len(stack) - 1
      /\ \A k \in 1..Len(stack) - 1 : Directory[k] = stack[k].pos
      /\ Directory \in cut' \/ stack[Len(stack)].pos = Len(Entries[stack[Len(stack)].dir])
  BY Here
<1> QED
  BY <1>2, <1>3, <1>4, CoverLeave

LEMMA CallWalk == ASSUME FullInv, Call PROVE WalkInv'
<1>1. /\ stack' = <<>> /\ reported' = <<>> /\ cut' = {} /\ target' = Root
  BY DEF FullInv, IndInv, RunningFrame, Call, cut
<1>2. Covered(stack', reported', cut', Phase', dwFlags')
  BY <1>1, CoverNothing
<1> QED
  BY <1>1, <1>2 DEF WalkInv, TargetKnown, StatusKnown

LEMMA ReturnWalk == ASSUME FullInv, WalkInv, Return PROVE WalkInv'
<1>1. UNCHANGED <<stack, reported, cut, dwFlags, ntStatus, aborted>> /\ pc = "returned" /\ pc' = "idle"
      /\ stack = <<>>
  BY DEF Return, ghosts, cut
<1>2. Phase' = Phase
  BY <1>1 DEF Phase, Failed
<1>3. Covered(stack', reported', cut', Phase', dwFlags')
  BY <1>1, <1>2 DEF WalkInv
<1>4. TargetKnown' /\ StatusKnown'
  BY <1>1 DEF WalkInv, TargetKnown, StatusKnown
<1> QED
  BY <1>3, <1>4 DEF WalkInv

LEMMA OpenFailuresWalk ==
  ASSUME FullInv, WalkInv, OpenNullPath \/ OpenFails
  PROVE  WalkInv'
<1>1. /\ UNCHANGED <<stack, reported, cut, dwFlags>> /\ pc = "open"
      /\ pc' = "crashed" \/ (pc' = "returned" /\ ntStatus' # "SUCCESS")
  BY DEF OpenNullPath, OpenFails, ghosts, cut
<1>2. stack = <<>> => reported = <<>>
  BY <1>1 DEF FullInv, OrderInv
<1>3. Covered(stack', reported', cut', Phase', dwFlags')
  <2>1. CASE stack = <<>>
    BY <1>1, <1>2, <2>1, CoverNothing
  <2>2. CASE stack # <<>>
    <3>1. Phase = "at" /\ Phase' = "failed"
      BY <1>1, <2>2 DEF Phase, Failed
    <3>2. Covered(stack, reported, cut, "at", dwFlags)
      BY <3>1 DEF WalkInv
    <3>3. Covered(stack, reported, cut, "failed", dwFlags)
      BY <3>2, CoverFailed
    <3> QED
      BY <1>1, <3>1, <3>3
  <2> QED
    BY <2>1, <2>2
<1>4. TargetKnown' /\ StatusKnown'
  BY <1>1, <1>2 DEF TargetKnown, StatusKnown
<1> QED
  BY <1>3, <1>4 DEF WalkInv

LEMMA OpenWalk == ASSUME FullInv, WalkInv, OpenSucceeds PROVE WalkInv'
<1> DEFINE g == [dir |-> target, pos |-> 0, path |-> "none", ctx |-> "none"]
<1>1. /\ UNCHANGED <<reported, cut, dwFlags>> /\ pc = "open" /\ pc' = "enumerate"
      /\ stack' = Append(stack, g)
  BY DEF OpenSucceeds, ghosts, cut
<1>2. stack \in Seq(Frame) /\ g \in Frame /\ g.dir = target /\ g.pos = 0
  BY DEF FullInv, IndInv, TypeOK, Frame
<1> HIDE DEF g
<1>3. /\ stack' \in Seq(Frame) /\ Len(stack') = Len(stack) + 1 /\ stack' # <<>>
      /\ stack'[Len(stack')] = g /\ \A k \in 1..Len(stack) : stack'[k] = stack[k]
  BY <1>1, <1>2, Taller
<1>4. Phase = "at" /\ Phase' = "between"
  BY <1>1 DEF Phase, Failed
<1>5. g.dir = IF stack = <<>> THEN Root ELSE Entries[stack[Len(stack)].dir][stack[Len(stack)].pos].to
  BY <1>1, <1>2, Here DEF WalkInv, TargetKnown
<1>6. Covered(stack', reported, cut, "between", dwFlags)
  <2>1. Covered(stack, reported, cut, "at", dwFlags)
    BY <1>4 DEF WalkInv
  <2> QED
    BY <1>2, <1>3, <1>5, <2>1, CoverOpen
<1>7. Covered(stack', reported', cut', Phase', dwFlags')
  BY <1>1, <1>4, <1>6
<1>8. TargetKnown' /\ StatusKnown'
  BY <1>1, <1>3 DEF TargetKnown, StatusKnown
<1> QED
  BY <1>7, <1>8 DEF WalkInv

LEMMA NextEntryWalk == ASSUME FullInv, WalkInv, NextEntry PROVE WalkInv'
<1> DEFINE g == [Top EXCEPT !.pos = @ + 1]
<1>1. /\ UNCHANGED <<reported, cut, dwFlags>> /\ pc = "enumerate"
      /\ pc' = IF Suppressed(Entries[Top.dir][Top.pos + 1]) THEN "enumerate" ELSE "entry"
  BY DEF NextEntry, ghosts, cut
<1>2. stack # <<>>
  BY <1>1 DEF FullInv, IndInv, RunningFrame
<1>3. /\ stack \in Seq(Frame) /\ Depth = Len(stack) /\ Depth \in Nat /\ Depth >= 1
      /\ Top = stack[Len(stack)] /\ Top \in Frame
  BY <1>2, Here
<1>4. g \in Frame /\ g.pos = Top.pos + 1 /\ g.dir = Top.dir
  BY <1>3 DEF Frame
<1>5. stack' = [stack EXCEPT ![Len(stack)] = g]
  BY <1>3 DEF NextEntry
<1> HIDE DEF g
<1>6. /\ stack' \in Seq(Frame) /\ Len(stack') = Len(stack) /\ stack' # <<>>
      /\ stack'[Len(stack)] = g
      /\ \A k \in 1..Len(stack) : k # Len(stack) => stack'[k] = stack[k]
  BY <1>2, <1>3, <1>4, <1>5, NewTop
<1>7. /\ \A k \in 1..Len(stack) : stack'[k].dir = stack[k].dir
      /\ \A k \in 1..Len(stack) - 1 : stack'[k].pos = stack[k].pos
      /\ stack'[Len(stack)].pos = stack[Len(stack)].pos + 1
  <2>1. \A k \in 1..Len(stack) - 1 : k \in 1..Len(stack) /\ k # Len(stack)
    BY <1>3
  <2> QED
    BY <1>3, <1>4, <1>6, <2>1
<1>8. \A j \in 1..Len(reported) : reported[j].at \in Seq(Nat)
  BY ReportTypes DEF FullInv, OrderInv
<1>9. Covered(stack, reported, cut, "between", dwFlags)
  <2>1. Phase = "between"
    BY <1>1 DEF Phase, Failed
  <2> QED
    BY <2>1 DEF WalkInv
<1>10. /\ Covered(stack', reported, cut, "entry", dwFlags)
       /\ Hidden(Entries[Top.dir][Top.pos + 1], dwFlags) =>
            Covered(stack', reported, cut, "between", dwFlags)
  BY <1>2, <1>3, <1>6, <1>7, <1>8, <1>9, CoverNext
<1>11. Covered(stack', reported', cut', Phase', dwFlags')
  <2>1. CASE Suppressed(Entries[Top.dir][Top.pos + 1])
    <3>1. Hidden(Entries[Top.dir][Top.pos + 1], dwFlags) /\ Phase' = "between"
      BY <1>1, <2>1 DEF Hidden, Suppressed, Phase, Failed
    <3> QED
      BY <1>1, <1>10, <3>1
  <2>2. CASE ~Suppressed(Entries[Top.dir][Top.pos + 1])
    <3>1. Phase' = "entry"
      BY <1>1, <2>2 DEF Phase, Failed
    <3> QED
      BY <1>1, <1>10, <3>1
  <2> QED
    BY <2>1, <2>2
<1>12. TargetKnown' /\ StatusKnown'
  BY <1>1, <1>6 DEF TargetKnown, StatusKnown
<1> QED
  BY <1>11, <1>12 DEF WalkInv

(* Steps that only change what the running frame holds.                      *)
LEMMA HoldingWalk ==
  ASSUME FullInv, stack # <<>>, NEW g, g \in Frame, g.pos = Top.pos, g.dir = Top.dir,
         stack' = [stack EXCEPT ![Depth] = g], UNCHANGED <<reported, dwFlags>>,
         Covered(stack, reported, cut', Phase', dwFlags), pc' = "open" => target' = Entry.to
  PROVE  WalkInv'
<1>1. /\ stack \in Seq(Frame) /\ Depth = Len(stack) /\ Depth \in Nat /\ Depth >= 1
      /\ Top = stack[Len(stack)]
  BY Here
<1>2. /\ stack' \in Seq(Frame) /\ Len(stack') = Len(stack) /\ stack' # <<>>
      /\ stack'[Len(stack)] = g
      /\ \A k \in 1..Len(stack) : k # Len(stack) => stack'[k] = stack[k]
  <2>1. stack' = [stack EXCEPT ![Len(stack)] = g]
    BY <1>1
  <2> QED
    BY <1>1, <2>1, NewTop
<1>3. Alike(stack, stack')
  BY <1>1, <1>2 DEF Alike
<1>5. Covered(stack', reported, cut', Phase', dwFlags)
  BY <1>1, <1>2, <1>3, CoverSame
<1>6. Covered(stack', reported', cut', Phase', dwFlags')
  BY <1>5
<1>7. Entry' = Entry
  <2>1. Top' = g
    BY <1>2 DEF Top, Depth
  <2> QED
    BY <2>1 DEF Entry
<1>8. TargetKnown' /\ StatusKnown'
  BY <1>2, <1>7 DEF TargetKnown, StatusKnown
<1> QED
  BY <1>6, <1>8 DEF WalkInv

LEMMA DescendWalk ==
  ASSUME FullInv, WalkInv, NewContextGiven \/ PathAllocated \/ PathNotAllocatedContinue
  PROVE  WalkInv'
<1>1. /\ UNCHANGED <<reported, dwFlags>> /\ pc \in {"decide", "descend"} /\ cut \subseteq cut'
      /\ pc' \in {"descend", "open"} /\ (pc' = "open" => target' = Entry.to)
  BY DEF NewContextGiven, PathAllocated, PathNotAllocatedContinue, ghosts, cut
<1>2. stack # <<>>
  BY <1>1 DEF FullInv, IndInv, RunningFrame
<1>3. Covered(stack, reported, cut', Phase', dwFlags)
  <2>1. Phase' = Phase
    BY <1>1 DEF Phase
  <2> QED
    BY <1>1, <2>1, CoverMore DEF WalkInv
<1>4. Top \in Frame /\ Top = stack[Depth] /\ stack \in Seq(Frame) /\ Depth = Len(stack) /\ Depth \in Nat /\ Depth >= 1
  BY <1>2, Here
<1>5. PICK g : stack' = [stack EXCEPT ![Depth] = g] /\ g \in Frame /\ g.pos = Top.pos /\ g.dir = Top.dir
  <2>1. CASE NewContextGiven
    <3> DEFINE h == [Top EXCEPT !.ctx = "held"]
    <3>1. stack' = [stack EXCEPT ![Depth] = h]
      BY <2>1 DEF NewContextGiven, Top
    <3>2. h \in Frame /\ h.pos = Top.pos /\ h.dir = Top.dir
      BY <1>4 DEF Frame
    <3> QED
      BY <3>1, <3>2
  <2>2. CASE PathAllocated
    <3> DEFINE h == [Top EXCEPT !.path = "held"]
    <3>1. stack' = [stack EXCEPT ![Depth] = h]
      BY <2>2 DEF PathAllocated, Top
    <3>2. h \in Frame /\ h.pos = Top.pos /\ h.dir = Top.dir
      BY <1>4 DEF Frame
    <3> QED
      BY <3>1, <3>2
  <2>3. CASE PathNotAllocatedContinue
    <3> DEFINE h == [Top EXCEPT !.path = "null", !.ctx = "none"]
    <3>1. stack' = [stack EXCEPT ![Depth] = h]
      BY <1>4, <2>3 DEF PathNotAllocatedContinue, Top
    <3>2. h \in Frame /\ h.pos = Top.pos /\ h.dir = Top.dir
      BY <1>4 DEF Frame
    <3> QED
      BY <3>1, <3>2
  <2> QED
    BY <2>1, <2>2, <2>3
<1> QED
  BY <1>1, <1>2, <1>3, <1>5, HoldingWalk

(* A recursion has failed and the caller is told.                            *)
LEMMA FailedHere ==
  ASSUME FullInv, WalkInv, stack # <<>>, pc = "returned", ntStatus # "SUCCESS",
         cut \subseteq cut', Location \in cut'
  PROVE  Covered(stack, reported, cut', "between", dwFlags)
<1>1. Phase = "failed"
  BY DEF Phase, Failed
<1>2. Covered(stack, reported, cut', "failed", dwFlags)
  BY <1>1, CoverMore DEF WalkInv
<1>3. reported \in Reports
  BY DEF FullInv, OrderInv
<1> QED
  BY <1>2, <1>3, PastHere

LEMMA BackWalk ==
  ASSUME FullInv, WalkInv, RecursionSucceeded \/ RecurseErrorContinue
  PROVE  WalkInv'
<1>1. /\ stack # <<>> /\ pc = "returned" /\ pc' = "enumerate"
      /\ stack' = [stack EXCEPT ![Depth] = Unwound] /\ UNCHANGED <<reported, dwFlags>>
      /\ \/ ntStatus = "SUCCESS" /\ cut' = cut
         \/ ntStatus # "SUCCESS" /\ cut \subseteq cut' /\ Location \in cut'
  BY DEF RecursionSucceeded, RecurseErrorContinue, ghosts, cut
<1>2. Unwound \in Frame /\ Unwound.pos = Top.pos /\ Unwound.dir = Top.dir
  <2>1. Top \in Frame
    BY <1>1, Here
  <2> QED
    BY <2>1 DEF Unwound, Frame
<1>3. Covered(stack, reported, cut', "between", dwFlags)
  <2>1. CASE ntStatus = "SUCCESS"
    <3>1. Phase = "between"
      BY <1>1, <2>1 DEF Phase, Failed
    <3> QED
      BY <1>1, <2>1, <3>1 DEF WalkInv
  <2>2. CASE ntStatus # "SUCCESS"
    BY <1>1, <2>2, FailedHere
  <2> QED
    BY <2>1, <2>2
<1>4. Phase' = "between"
  BY <1>1 DEF Phase, Failed
<1> QED
  BY <1>1, <1>2, <1>3, <1>4, HoldingWalk

LEMMA EntryWalk ==
  ASSUME FullInv, FullInv', WalkInv, EntryAccepted \/ EntrySkipped
  PROVE  WalkInv'
<1>1. /\ pc = "entry" /\ Report /\ UNCHANGED <<stack, dwFlags>>
      /\ pc' \in {"decide", "enumerate"} /\ cut \subseteq cut'
      /\ pc' = "enumerate" => Location \in cut' \/ ~Descends(Entry)
  BY DEF EntryAccepted, EntrySkipped, cut
<1>2. stack # <<>>
  BY <1>1 DEF FullInv, IndInv, RunningFrame
<1>3. Phase = "entry"
  BY <1>1 DEF Phase
<1>4. Covered(stack, reported', cut, "at", dwFlags)
  BY <1>1, <1>2, <1>3, ReportCovers DEF WalkInv
<1>5. Covered(stack, reported', cut', "at", dwFlags)
  BY <1>1, <1>4, CoverMore
<1>6. Covered(stack', reported', cut', Phase', dwFlags')
  <2>1. CASE pc' = "decide"
    <3>1. Phase' = "at"
      BY <2>1 DEF Phase
    <3> QED
      BY <1>1, <1>5, <3>1
  <2>2. CASE pc' = "enumerate"
    <3>1. Phase' = "between"
      BY <2>2 DEF Phase, Failed
    <3>2. Location \in cut' \/ ~Entered(Entry, dwFlags)
      BY <1>1, <2>2 DEF Descends, Entered
    <3>3. reported' \in Reports
      BY DEF FullInv, OrderInv
    <3>4. Covered(stack, reported', cut', "between", dwFlags)
      BY <1>2, <1>5, <3>2, <3>3, PastHere
    <3> QED
      BY <1>1, <3>1, <3>4
  <2> QED
    BY <1>1, <2>1, <2>2
<1>7. TargetKnown' /\ StatusKnown'
  BY <1>1, <1>2 DEF TargetKnown, StatusKnown
<1> QED
  BY <1>6, <1>7 DEF WalkInv

(* The ways out of an invocation from within an entry.                       *)
LEMMA RefusedWalk ==
  ASSUME FullInv, FullInv', WalkInv, EntryRefused \/ NewContextRefused \/ PathNotAllocated
  PROVE  WalkInv'
<1>1. /\ pc \in {"entry", "decide", "descend"} /\ dwFlags' = dwFlags
      /\ pc = "entry" => Report
      /\ pc # "entry" => reported' = reported
  BY DEF EntryRefused, NewContextRefused, PathNotAllocated
<1>2. PICK status :
        /\ Abandon(status)
        /\ status \notin {"SUCCESS", "SKIP_RECURSION"} => aborted'
  <2>1. CASE EntryRefused
    BY <2>1, Zenon DEF EntryRefused
  <2>2. CASE NewContextRefused
    <3>1. PICK status \in {"REQUEST_ABORTED", "SKIP_RECURSION", "SUCCESS"} :
            /\ Abandon(status)
            /\ aborted' = (aborted \/ status = "REQUEST_ABORTED")
      BY <2>2, Zenon DEF NewContextRefused
    <3>2. status \notin {"SUCCESS", "SKIP_RECURSION"} => status = "REQUEST_ABORTED"
      BY <3>1
    <3> QED
      BY <3>1, <3>2, Zenon
  <2>3. CASE PathNotAllocated
    <3>1. PICK status \in {"NO_MEMORY", "SUCCESS"} : Abandon(status)
      BY <2>3 DEF PathNotAllocated
    <3>2. aborted'
      BY <2>3, Zenon DEF PathNotAllocated
    <3> QED
      BY <3>1, <3>2, Zenon
  <2> QED
    BY <2>1, <2>2, <2>3
<1>3. /\ stack # <<>> /\ Leave(status) /\ pc' = "returned" /\ ntStatus' = status
      /\ cut \subseteq cut' /\ Location \in cut' /\ Directory \in cut'
  BY <1>1, <1>2 DEF FullInv, IndInv, RunningFrame, Abandon, Leave, cut
<1>4. Covered(stack, reported', cut, "at", dwFlags)
  <2>1. CASE pc = "entry"
    <3>1. Phase = "entry"
      BY <2>1 DEF Phase
    <3> QED
      BY <1>1, <1>3, <2>1, <3>1, ReportCovers DEF WalkInv
  <2>2. CASE pc \in {"decide", "descend"}
    <3>1. Phase = "at"
      BY <2>2 DEF Phase
    <3> QED
      BY <1>1, <2>2, <3>1 DEF WalkInv
  <2> QED
    BY <1>1, <2>1, <2>2
<1>5. Covered(stack, reported', cut', "at", dwFlags)
  BY <1>3, <1>4, CoverMore
<1>6. Covered(stack, reported', cut', "between", dwFlags)
  <2>1. reported' \in Reports
    BY DEF FullInv, OrderInv
  <2> QED
    BY <1>3, <1>5, <2>1, PastHere
<1>7. Covered(stack', reported', cut', "between", dwFlags)
  BY <1>3, <1>6, LeaveCovers
<1>8. Covered(stack', reported', cut', Phase', dwFlags')
  <2>1. Phase' \in {"between", "failed"}
    BY <1>3 DEF Phase
  <2>2. Covered(stack', reported', cut', "failed", dwFlags')
    BY <1>1, <1>7, CoverFailed
  <2> QED
    BY <1>1, <1>7, <2>1, <2>2
<1>9. TargetKnown' /\ StatusKnown'
  BY <1>2, <1>3 DEF TargetKnown, StatusKnown
<1> QED
  BY <1>8, <1>9 DEF WalkInv

(* ... and between two entries.                                              *)
LEMMA EndWalk ==
  ASSUME FullInv, FullInv', WalkInv, EndOfEnumeration \/ RecurseErrorAbort
  PROVE  WalkInv'
<1>1. /\ pc \in {"enumerate", "returned"} /\ stack # <<>>
      /\ UNCHANGED <<reported, dwFlags>> /\ cut \subseteq cut'
  BY DEF EndOfEnumeration, RecurseErrorAbort, FullInv, IndInv, RunningFrame, Abandon, cut
<1>2. PICK status :
        /\ Leave(status)
        /\ status # "SUCCESS" => aborted'
        /\ Directory \in cut' \/ Top.pos = Len(Entries[Top.dir])
  <2>1. CASE EndOfEnumeration
    <3>1. Leave("SUCCESS") /\ (Directory \in cut' \/ Top.pos = Len(Entries[Top.dir]))
      BY <2>1 DEF EndOfEnumeration, cut
    <3> QED
      BY <3>1
  <2>2. CASE RecurseErrorAbort
    <3>1. aborted'
      BY <2>2, Zenon DEF RecurseErrorAbort
    <3>2. PICK status : Leave(status) /\ Directory \in cut'
      BY <2>2 DEF RecurseErrorAbort, Abandon, cut
    <3> QED
      BY <3>1, <3>2
  <2> QED
    BY <2>1, <2>2
<1>3. pc' = "returned" /\ ntStatus' = status
  BY <1>2 DEF Leave
<1>4. Covered(stack, reported', cut', "between", dwFlags)
  <2>1. CASE EndOfEnumeration
    <3>1. Phase = "between"
      BY <2>1 DEF Phase, Failed, EndOfEnumeration
    <3>2. Covered(stack, reported', cut, "between", dwFlags)
      BY <1>1, <3>1 DEF WalkInv
    <3> QED
      BY <1>1, <3>2, CoverMore
  <2>2. CASE RecurseErrorAbort
    <3>1. pc = "returned" /\ ntStatus # "SUCCESS" /\ Location \in cut'
      BY <2>2 DEF RecurseErrorAbort, Abandon, cut
    <3> QED
      BY <1>1, <3>1, FailedHere
  <2> QED
    BY <2>1, <2>2
<1>5. Covered(stack', reported', cut', "between", dwFlags)
  BY <1>1, <1>2, <1>4, LeaveCovers
<1>6. Covered(stack', reported', cut', Phase', dwFlags')
  <2>1. Phase' \in {"between", "failed"}
    BY <1>3 DEF Phase
  <2>2. Covered(stack', reported', cut', "failed", dwFlags')
    BY <1>1, <1>5, CoverFailed
  <2> QED
    BY <1>1, <1>5, <2>1, <2>2
<1>7. TargetKnown' /\ StatusKnown'
  BY <1>2, <1>3 DEF TargetKnown, StatusKnown
<1> QED
  BY <1>6, <1>7 DEF WalkInv

LEMMA NextWalkInv == FullInv /\ WalkInv /\ [Next]_vars => WalkInv'
<1> SUFFICES ASSUME FullInv, WalkInv, [Next]_vars PROVE WalkInv'
  OBVIOUS
<1>1. FullInv'
  BY NextFullInv
<1>2. CASE UNCHANGED vars
  <2>1. UNCHANGED <<pc, dwFlags, stack, target, ntStatus, reported, aborted, cut>>
    BY <1>2 DEF vars, cut
  <2>2. Phase' = Phase /\ Entry' = Entry
    BY <2>1 DEF Phase, Failed, Entry, Top, Depth
  <2>3. Covered(stack', reported', cut', Phase', dwFlags')
    BY <2>1, <2>2 DEF WalkInv
  <2>4. TargetKnown' /\ StatusKnown'
    BY <2>1, <2>2 DEF WalkInv, TargetKnown, StatusKnown
  <2> QED
    BY <2>3, <2>4 DEF WalkInv
<1>3. CASE Call
  BY <1>3, CallWalk
<1>4. CASE Step
  BY <1>1, <1>4, ReturnWalk, OpenFailuresWalk, OpenWalk, NextEntryWalk, DescendWalk, BackWalk,
     EntryWalk, RefusedWalk, EndWalk DEF Step
<1> QED
  BY <1>2, <1>3, <1>4 DEF Next

(* Failed queries aside, of which nobody is told, a walk leaves nothing out  *)
(* that the caller has not decided or been told in a callback: a directory   *)
(* that was reported and entered has had its last wanted entry reported, or  *)
(* something in it was skipped or refused, or RecurseError was called for    *)
(* it; and a walk that got into its root fails only because a callback       *)
(* wanted it to (recurseIntoDirectory_), for all trees and flags.            *)
THEOREM CutsKnown == Spec => []CutsTold
<1>1. Init => FullInv /\ WalkInv
  <2> SUFFICES ASSUME Init PROVE FullInv /\ WalkInv
    OBVIOUS
  <2>1. reported = <<>> /\ stack = <<>> /\ pc = "idle"
    BY DEF Init
  <2>2. OrderInv
    BY <2>1 DEF OrderInv, DepthFirstOnce, Reports
  <2>3. Covered(stack, reported, cut, Phase, dwFlags)
    BY <2>1, CoverNothing
  <2>4. TargetKnown /\ StatusKnown
    BY <2>1 DEF TargetKnown, StatusKnown
  <2> QED
    BY <2>2, <2>3, <2>4, InitIndInv DEF FullInv, WalkInv
<1>2. FullInv /\ WalkInv => CutsTold
  <2> SUFFICES ASSUME FullInv, WalkInv PROVE CutsTold
    OBVIOUS
  <2>1. pc = "idle" => stack = <<>>
    BY DEF FullInv, IndInv, RunningFrame
  <2>2. ContinuedErrorForgotten
    BY <2>1 DEF WalkInv, StatusKnown, ContinuedErrorForgotten
  <2>3. \A d, a : InFull(reported, d, a, dwFlags) => WalkedInFull(d, a)
    BY DEF InFull, WalkedInFull, Seen, Hidden, Suppressed
  <2>4. ASSUME pc = "idle", reported # <<>>, <<>> \notin cut PROVE WalkedInFull(Root, <<>>)
    <3>1. InFull(reported, Root, <<>>, dwFlags)
      BY <2>1, <2>4 DEF WalkInv, Covered, RootWalked
    <3> QED
      BY <2>3, <3>1
  <2>5. ASSUME pc = "idle", NEW k \in 1..Len(reported), Descends(reported[k].entry), reported[k].at \notin cut
        PROVE  WalkedInFull(reported[k].entry.to, reported[k].at)
    <3>1. Entered(reported[k].entry, dwFlags)
      BY <2>5 DEF Entered, Descends
    <3>2. ~Waits(reported[k].at, stack, Phase)
      <4>1. Len(stack) = 0
        BY <2>1, <2>5
      <4> QED
        BY <4>1 DEF Waits
    <3>3. InFull(reported, reported[k].entry.to, reported[k].at, dwFlags)
      BY <2>5, <3>1, <3>2 DEF WalkInv, Covered, AllWalked
    <3> QED
      BY <2>3, <3>3
  <2>6. CompleteUnlessCut
    BY <2>4, <2>5 DEF CompleteUnlessCut
  <2> QED
    BY <2>2, <2>6 DEF CutsTold
<1> QED
  BY <1>1, <1>2, NextFullInv, NextWalkInv, PTL DEF Spec
=============================================================================
