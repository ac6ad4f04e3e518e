------------------------ MODULE LookfsTraversal_proofs ------------------------
(***************************************************************************)
(* Proofs about LookfsTraversal, for all trees, command lines and numbers  *)
(* of failures.  Since traversePath returns after its first subdirectory,  *)
(* only the frame on top of the stack ever looks at entries; the others    *)
(* are on their way out.  So what has to be known of the walk is known of  *)
(* the top: its search is the deepest of its argument, and either nobody   *)
(* has looked at what it has not passed yet, or it is the repetition of a  *)
(* search for one directory whose attributes could not be read.            *)
(***************************************************************************)
EXTENDS LookfsTraversal, SequenceTheorems, TLAPS

(* A stack without its top.                                                  *)
LEMMA Shorter ==
  ASSUME NEW S, NEW s \in Seq(S), s # <<>>
  PROVE  LET t == SubSeq(s, 1, Len(s) - 1)
         IN  /\ t \in Seq(S) /\ Len(t) = Len(s) - 1
             /\ \A k \in 1..Len(t) : t[k] = s[k] /\ k \in 1..Len(s)
<1>1. Len(s) \in Nat /\ Len(s) >= 1
  OBVIOUS
<1>2. \A k \in 1..Len(s) - 1 : s[k] \in S /\ k \in 1..Len(s)
  BY <1>1
<1>3. Len(s) - 1 \in Int /\ 1 \in Int
  BY <1>1
<1>4. /\ SubSeq(s, 1, Len(s) - 1) \in Seq(S)
      /\ Len(SubSeq(s, 1, Len(s) - 1)) = IF 1 <= Len(s) - 1 THEN (Len(s) - 1) - 1 + 1 ELSE 0
      /\ \A k \in 1..(Len(s) - 1) - 1 + 1 : SubSeq(s, 1, Len(s) - 1)[k] = s[1 + k - 1]
  BY <1>2, <1>3, SubSeqProperties
<1>5. Len(SubSeq(s, 1, Len(s) - 1)) = Len(s) - 1
  <2>1. ASSUME NEW n \in Nat, NEW m, n >= 1, m = IF 1 <= n - 1 THEN (n - 1) - 1 + 1 ELSE 0
        PROVE  m = n - 1
    BY <2>1
  <2>2. Len(SubSeq(s, 1, Len(s) - 1)) = IF 1 <= Len(s) - 1 THEN (Len(s) - 1) - 1 + 1 ELSE 0
    BY <1>4
  <2> QED
    BY <1>1, <2>1, <2>2
<1>6. ASSUME NEW k \in 1..Len(s) - 1
      PROVE  SubSeq(s, 1, Len(s) - 1)[k] = s[k]
  <2>1. k \in 1..(Len(s) - 1) - 1 + 1 /\ 1 + k - 1 = k
    BY <1>1
  <2> QED
    BY <1>4, <2>1
<1> QED
  BY <1>2, <1>4, <1>5, <1>6

(* A stack with one more on top.                                             *)
LEMMA Taller ==
  ASSUME NEW S, NEW s \in Seq(S), NEW f \in S
  PROVE  LET t == Append(s, f)
         IN  /\ t \in Seq(S) /\ Len(t) = Len(s) + 1 /\ t # <<>> /\ t[Len(t)] = f
             /\ \A k \in 1..Len(s) : t[k] = s[k] /\ k \in 1..Len(t)
<1>1. Len(s) \in Nat
  OBVIOUS
<1> QED
  BY <1>1

(* A stack with another top.                                                 *)
LEMMA NewTop ==
  ASSUME NEW S, NEW s \in Seq(S), s # <<>>, NEW f \in S
  PROVE  LET t == [s EXCEPT ![Len(s)] = f]
         IN  /\ t \in Seq(S) /\ Len(t) = Len(s) /\ t # <<>> /\ t[Len(s)] = f
             /\ \A k \in 1..Len(s) : k # Len(s) => t[k] = s[k]
<1>1. Len(s) \in Nat /\ Len(s) >= 1
  OBVIOUS
<1> QED
  BY <1>1

Running == pc \in {"first", "skip", "body", "next"}
Active == pc = "construct" \/ Running

(* The find handles, and what the stack looks like.                          *)
ShapeInv ==
  /\ args \in Seq(SUBSET (1..Len(Entries[Cwd])))
  /\ pc \in {"main", "exit"} => stack = <<>>
  /\ Active =>
       /\ stack # <<>> /\ Top.search.match \subseteq 1..Len(Listing)
       /\ Top.found \in Top.search.match \cup {0}
  /\ pc = "construct" => Top.found = 0

FindersInv == TypeOK /\ FindsClosed /\ ShapeInv

(* An error that has been noticed is on its way to the exit code.            *)
ErrorOnStack == \E k \in 1..Depth : stack[k].iRet # 0
ErrorUnderway == retval # 0 \/ (pc = "returned" /\ err # 0) \/ ErrorOnStack

ErrorInv == failed <=> ErrorUnderway

-----------------------------------------------------------------------------
Record == [at : Seq(Nat), i : Nat]
Looks == {seen[k] : k \in 1..Len(seen)}
Fresh(at) == \A r \in Looks \cup visits : r.at # at

(* The ghosts; the arguments are numbered from the last one.                 *)
GhostInv ==
  /\ seen \in Seq(Record) /\ visits \subseteq {s \in Search : 0 \notin s.match}
  /\ \A r \in Looks \cup visits : r.at # <<>> /\ r.at[1] > Len(args)
  /\ Active => Top.search.at # <<>> /\ Top.search.at[1] = Len(args) + 1

(* No search of the argument is deeper than that of the top.                 *)
DeepestInv ==
  Active =>
    /\ \A r \in Looks \cup visits : r.at[1] = Len(args) + 1 => Len(r.at) <= Len(Top.search.at)
    /\ pc = "construct" /\ Depth = 1 => Fresh(Top.search.at)

(* Where the find handle of the top stands.                                  *)
CursorInv ==
  /\ pc \in {"construct", "first"} => Top.pos = 0 /\ Top.found = 0
  /\ pc = "skip" =>
       /\ Top.found \in Top.search.match /\ Top.pos = Top.found
       /\ \A j \in Proper(Top.search) : j >= Top.pos
  /\ pc = "body" =>
       Top.found = 0 \/ (Top.found \in Proper(Top.search) /\ Top.found = Top.pos)

(* The entries the top has looked at, if they are in its search.             *)
Passed(i) == i < Top.pos \/ (i = Top.pos /\ pc # "skip" /\ ~(pc = "body" /\ Top.found # 0))

Looked(s, i) == [at |-> s.at, i |-> i] \in Looks

Frontier ==
  /\ \A s \in visits : s.at = Top.search.at => s = Top.search
  /\ \A i \in Proper(Top.search) :
       /\ Looked(Top.search, i) <=> Passed(i)
       /\ Passed(i) => Entries[Top.search.dir][i].kind # "dir"

(* A search for a directory that has been looked at already.                 *)
Repeats(s) == \E x \in s.match : s.match = {x} /\ Entries[s.dir][x].kind = "dir" /\ Looked(s, x)

StepInv ==
  /\ pc = "construct" /\ Depth # 1 => Repeats(Top.search)
  /\ Running => Top.search \in visits /\ (Frontier \/ (attrFailures # 0 /\ Repeats(Top.search)))

(* All that was to be looked at has been.                                    *)
Complete(s) ==
  \A i \in Proper(s) :
    Looked(s, i) <=> \A j \in Proper(s) : j < i => Entries[s.dir][j].kind # "dir"

DoneInv == \A s \in visits \ cut : (Running /\ s = Top.search) \/ Complete(s)

LookInv == GhostInv /\ DeepestInv /\ CursorInv /\ StepInv /\ DoneInv /\ LookedAtOnce

-----------------------------------------------------------------------------
(* What the steps do to the stack                                            *)

LEMMA TopFrame ==
  ASSUME TypeOK, stack # <<>>
  PROVE  /\ Depth \in Nat /\ Depth >= 1 /\ Top \in Frame
         /\ Top.search \in Search /\ Top.pos \in Nat /\ Top.found \in Nat /\ Top.iRet \in 0..3
         /\ Top.search.at \in Seq(Nat) /\ Top.search.dir \in Dirs /\ Listing \in Seq([kind : {"file", "dir", "link", "junction", "dot"}, to : Dirs])
<1>1. stack \in Seq(Frame)
  BY DEF TypeOK
<1>2. Len(stack) \in Nat /\ Len(stack) >= 1 /\ stack[Len(stack)] \in Frame
  BY <1>1
<1>3. Depth \in Nat /\ Depth >= 1 /\ Top \in Frame
  BY <1>2 DEF Depth, Top
<1>4. /\ Top.search \in Search /\ Top.pos \in Nat /\ Top.found \in Nat /\ Top.iRet \in 0..3
      /\ Top.search.at \in Seq(Nat) /\ Top.search.dir \in Dirs
  BY <1>3 DEF Frame, Search
<1> QED
  BY <1>3, <1>4, TreeAssumption DEF Listing

TopBecomes(f) ==
  /\ stack' \in Seq(Frame) /\ stack' # <<>> /\ Depth' = Depth /\ Top' = f
  /\ \A k \in 1..Depth : k # Depth => stack'[k] = stack[k]

LEMMA Exchanged ==
  ASSUME TypeOK, stack # <<>>, NEW f \in Frame, stack' = [stack EXCEPT ![Depth] = f]
  PROVE  TopBecomes(f)
<1>1. stack \in Seq(Frame) /\ Depth = Len(stack)
  BY DEF TypeOK, Depth
<1>2. /\ stack' \in Seq(Frame) /\ Len(stack') = Len(stack) /\ stack' # <<>> /\ stack'[Len(stack)] = f
      /\ \A k \in 1..Len(stack) : k # Len(stack) => stack'[k] = stack[k]
  BY <1>1, NewTop
<1> QED
  BY <1>1, <1>2 DEF TopBecomes, Depth, Top

(* The find handle moves on to entry i.                                      *)
LEMMA Moved ==
  ASSUME TypeOK, stack # <<>>, NEW i \in Nat,
         stack' = [stack EXCEPT ![Depth].pos = i, ![Depth].found = i]
  PROVE  TopBecomes([Top EXCEPT !.pos = i, !.found = i])
<1>1. Top \in Frame /\ stack \in Seq(Frame) /\ Depth = Len(stack) /\ Depth \in Nat /\ Depth >= 1
  BY TopFrame DEF TypeOK, Depth
<1>2. stack' = [stack EXCEPT ![Depth] = [Top EXCEPT !.pos = i, !.found = i]]
  BY <1>1 DEF Top
<1>3. [Top EXCEPT !.pos = i, !.found = i] \in Frame
  BY <1>1 DEF Frame
<1> QED
  BY <1>2, <1>3, Exchanged

(* next() clears the entry.                                                  *)
LEMMA Cleared ==
  ASSUME TypeOK, stack # <<>>, stack' = [stack EXCEPT ![Depth].found = 0]
  PROVE  TopBecomes([Top EXCEPT !.found = 0])
<1>1. Top \in Frame /\ stack' = [stack EXCEPT ![Depth] = [Top EXCEPT !.found = 0]]
  BY TopFrame DEF Top
<1>2. [Top EXCEPT !.found = 0] \in Frame
  BY <1>1 DEF Frame
<1> QED
  BY <1>1, <1>2, Exchanged

LEMMA Pushed ==
  ASSUME TypeOK, NEW search \in Search, Call(search)
  PROVE  /\ pc' = "construct"
         /\ stack' \in Seq(Frame) /\ stack' # <<>> /\ Depth' = Depth + 1
         /\ Top' = [search |-> search, pos |-> 0, found |-> 0, iRet |-> 0]
         /\ \A k \in 1..Depth : stack'[k] = stack[k]
<1>1. [search |-> search, pos |-> 0, found |-> 0, iRet |-> 0] \in Frame
  BY DEF Frame
<1>2. stack \in Seq(Frame)
  BY DEF TypeOK
<1> QED
  BY <1>1, <1>2, Taller DEF Call, Depth, Top

-----------------------------------------------------------------------------
(* Find handles                                                              *)

(* What every step has to see to besides the stack.                          *)
Rest ==
  /\ pc \in {"main", "construct", "first", "skip", "body", "next", "returned", "exit"}
  /\ casesensitive \in BOOLEAN
  /\ args \in Seq(SUBSET (1..Len(Entries[Cwd])))
  /\ err \in 0..3 /\ retval \in 0..3
  /\ failed \in BOOLEAN
  /\ attrFailures \in 0..AttributeFailureBound

LEMMA RestOf == FindersInv => Rest
  BY DEF FindersInv, TypeOK, ShapeInv, Rest

StackType == stack \in Seq(Frame)

LEMMA FindersFrom == StackType /\ Rest /\ FindsClosed /\ ShapeInv => FindersInv
<1> SUFFICES ASSUME StackType, Rest, FindsClosed, ShapeInv
             PROVE  FindersInv
  OBVIOUS
<1>0. stack \in Seq(Frame)
  BY DEF StackType
<1>1. args \in Seq(SUBSET Nat)
  <2>1. Len(Entries[Cwd]) \in Nat
    BY TreeAssumption
  <2>2. SUBSET (1..Len(Entries[Cwd])) \subseteq SUBSET Nat
    BY <2>1
  <2>3. Len(args) \in Nat /\ \A k \in 1..Len(args) : args[k] \in SUBSET Nat
    BY <2>2 DEF Rest
  <2> QED
    BY <2>3 DEF Rest
<1>2. openFinds \in Nat
  <2>1. Len(stack) \in Nat /\ (stack # <<>> => Len(stack) >= 1)
    BY <1>0
  <2> QED
    BY <1>0, <2>1 DEF FindsClosed, Depth
<1>3. TypeOK
  BY <1>0, <1>1, <1>2 DEF TypeOK, Rest
<1> QED
  BY <1>3 DEF FindersInv

LEMMA FindersLater ==
  ASSUME stack' \in Seq(Frame), Rest', FindsClosed', ShapeInv'
  PROVE  FindersInv'
<1>1. StackType'
  BY DEF StackType
<1> QED
  BY <1>1, FindersFrom, PTL

LEMMA InitFindersInv == Init => FindersInv
<1> SUFFICES ASSUME Init PROVE FindersInv
  OBVIOUS
<1>1. /\ pc = "main" /\ casesensitive \in BOOLEAN /\ args \in CommandLines /\ stack = <<>>
      /\ openFinds = 0 /\ err = 0 /\ retval = 0 /\ failed = FALSE /\ attrFailures = 0
  BY DEF Init
<1>2. stack \in Seq(Frame) /\ Depth = 0
  BY <1>1 DEF Depth
<1>3. failed \in BOOLEAN
  BY <1>1, Zenon
<1>4. Rest
  BY <1>1, <1>3, TreeAssumption DEF Rest
<1>5. FindsClosed /\ ShapeInv
  BY <1>1, <1>2, TreeAssumption DEF FindsClosed, ShapeInv, Active, Running
<1> QED
  BY <1>2, <1>4, <1>5, FindersFrom DEF StackType

(* The search of the top, taken apart.                                       *)
LEMMA Inner ==
  ASSUME FindersInv, Active
  PROVE  /\ stack # <<>> /\ Top.search.match \subseteq 1..Len(Listing)
         /\ \A i \in Top.search.match :
              /\ i \in Nat /\ i >= 1
              /\ Listing[i].to \in Dirs
              /\ Inside(i) \in Search /\ Inside(i).at = Append(Top.search.at, i)
              /\ Inside(i).dir = Listing[i].to
              /\ Inside(i).match = 1..Len(Entries[Inside(i).dir])
<1>1. TypeOK /\ stack # <<>> /\ Top.search.match \subseteq 1..Len(Listing)
  BY DEF FindersInv, ShapeInv
<1>2. /\ Listing \in Seq([kind : {"file", "dir", "link", "junction", "dot"}, to : Dirs])
      /\ Top.search.at \in Seq(Nat)
  BY <1>1, TopFrame
<1>3. ASSUME NEW i \in Top.search.match
      PROVE  /\ i \in Nat /\ i >= 1
             /\ Listing[i].to \in Dirs
             /\ Inside(i) \in Search /\ Inside(i).at = Append(Top.search.at, i)
             /\ Inside(i).dir = Listing[i].to
             /\ Inside(i).match = 1..Len(Entries[Inside(i).dir])
  <2>1. i \in 1..Len(Listing) /\ i \in Nat /\ i >= 1
    BY <1>1, <1>2
  <2>2. Listing[i] \in [kind : {"file", "dir", "link", "junction", "dot"}, to : Dirs]
    BY <1>2, <2>1, ElementOfSeq, Zenon
  <2>3. Listing[i].to \in Dirs
    BY <2>2
  <2>4. Append(Top.search.at, i) \in Seq(Nat)
    BY <1>2, <2>1
  <2>5. 1..Len(Entries[Listing[i].to]) \subseteq Nat
    BY <2>3, TreeAssumption
  <2> QED
    BY <2>1, <2>3, <2>4, <2>5 DEF Inside, Search
<1> QED
  BY <1>1, <1>3

LEMMA ArgumentFinders ==
  ASSUME FindersInv, TraverseArgument
  PROVE  /\ FindersInv' /\ pc' = "construct" /\ Depth' = 1
         /\ Top' = [search |-> [at |-> <<Len(args)>>, dir |-> Cwd, match |-> Head(args)],
                    pos |-> 0, found |-> 0, iRet |-> 0]
<1>1. /\ pc = "main" /\ stack = <<>> /\ args # <<>> /\ args' = Tail(args)
      /\ Call([at |-> <<Len(args)>>, dir |-> Cwd, match |-> Head(args)])
      /\ UNCHANGED <<casesensitive, openFinds, err, retval, failed, attrFailures>>
  BY DEF TraverseArgument, FindersInv, ShapeInv, ghosts
<1>2. args \in Seq(SUBSET (1..Len(Entries[Cwd]))) /\ TypeOK /\ Depth = 0
  BY <1>1 DEF FindersInv, ShapeInv, Depth
<1>3. /\ Tail(args) \in Seq(SUBSET (1..Len(Entries[Cwd])))
      /\ Head(args) \subseteq 1..Len(Entries[Cwd])
  BY <1>1, <1>2
<1>4. [at |-> <<Len(args)>>, dir |-> Cwd, match |-> Head(args)] \in Search
  <2>1. Len(args) \in Nat /\ <<Len(args)>> \in Seq(Nat)
    BY <1>2
  <2>2. Head(args) \subseteq Nat
    BY <1>3
  <2> QED
    BY <2>1, <2>2, TreeAssumption DEF Search
<1>5. /\ pc' = "construct" /\ stack' \in Seq(Frame) /\ stack' # <<>> /\ Depth' = Depth + 1
      /\ Top' = [search |-> [at |-> <<Len(args)>>, dir |-> Cwd, match |-> Head(args)],
                 pos |-> 0, found |-> 0, iRet |-> 0]
  BY <1>1, <1>2, <1>4, Pushed
<1>6. Rest'
  BY <1>1, <1>3, <1>5, RestOf DEF Rest
<1>7. FindsClosed'
  BY <1>1, <1>2, <1>5 DEF FindsClosed, FindersInv
<1>8. ShapeInv'
  BY <1>1, <1>3, <1>5 DEF ShapeInv, Listing, Active, Running
<1> QED
  BY <1>2, <1>5, <1>6, <1>7, <1>8, FindersLater

LEMMA MainFinders ==
  ASSUME FindersInv, ArgumentTraversed \/ Exit
  PROVE  FindersInv'
<1>1. /\ pc' \in {"main", "exit"} /\ stack = <<>> /\ stack' = stack
      /\ retval' \in {err, retval}
      /\ UNCHANGED <<casesensitive, args, openFinds, err, failed, attrFailures>>
  BY DEF ArgumentTraversed, Exit, FindersInv, ShapeInv, ghosts
<1>2. Rest'
  BY <1>1, RestOf DEF Rest
<1>3. stack' \in Seq(Frame) /\ FindsClosed' /\ ShapeInv'
  BY <1>1 DEF FindersInv, FindsClosed, ShapeInv, Active, Running, Depth
<1> QED
  BY <1>2, <1>3, FindersLater

(* Leaving an invocation whose find handle is open exactly if it got past    *)
(* NativeFindFirstFile.                                                      *)
LEMMA ReturnFinders ==
  ASSUME FindersInv, stack # <<>>, pc \notin {"main", "exit"},
         pc' = "returned", err' \in 0..3, stack' = SubSeq(stack, 1, Depth - 1),
         openFinds' = IF pc \in {"construct", "first"} THEN openFinds ELSE openFinds - 1,
         failed' \in BOOLEAN, UNCHANGED <<casesensitive, args, retval, attrFailures>>
  PROVE  FindersInv'
<1>1. stack' \in Seq(Frame) /\ Depth' = Depth - 1
  <2>1. stack \in Seq(Frame) /\ stack' = SubSeq(stack, 1, Len(stack) - 1)
    BY DEF FindersInv, TypeOK, Depth
  <2> QED
    BY <2>1, Shorter DEF Depth
<1>2. Rest'
  BY <1>1, RestOf DEF Rest
<1>3. Depth \in Nat /\ Depth >= 1
  BY TopFrame DEF FindersInv
<1>4. FindsClosed' /\ ShapeInv'
  BY <1>1, <1>3 DEF FindersInv, FindsClosed, ShapeInv, Active, Running
<1> QED
  BY <1>1, <1>2, <1>4, FindersLater

(* The top stays, but for what it has found or is going to return, or is     *)
(* about to search another directory.                                        *)
LEMMA TopFinders ==
  ASSUME FindersInv, stack # <<>>, Active', pc' # "construct",
         NEW f \in Frame, TopBecomes(f), f.search.match \subseteq 1..Len(Entries[f.search.dir]),
         f.found \in f.search.match \cup {0},
         openFinds' = IF pc' = "first" THEN Depth - 1 ELSE Depth,
         Rest', UNCHANGED args
  PROVE  FindersInv'
<1>1. /\ stack' \in Seq(Frame) /\ stack' # <<>> /\ Depth' = Depth /\ Top' = f
  BY DEF TopBecomes
<1>2. FindsClosed' /\ ShapeInv'
  BY <1>1 DEF FindersInv, FindsClosed, ShapeInv, Active, Running, Listing
<1> QED
  BY <1>1, <1>2, FindersLater

(* The steps, with what they do to the top.                                  *)
LEMMA AdjustFailsFinders ==
  ASSUME FindersInv, AdjustFails
  PROVE  FindersInv' /\ pc' = "returned"
<1>1. /\ pc = "construct" /\ Return(1, FALSE) /\ failed' = TRUE
      /\ UNCHANGED <<casesensitive, args, retval, attrFailures>>
  BY DEF AdjustFails, Invalid
<1>2. stack # <<>> /\ failed' \in BOOLEAN /\ pc' = "returned"
  BY <1>1, Zenon DEF FindersInv, ShapeInv, Active, Return
<1> QED
  BY <1>1, <1>2, ReturnFinders DEF Return

LEMMA AdjustToDirectoryFinders ==
  ASSUME FindersInv, AdjustToDirectory
  PROVE  /\ FindersInv' /\ pc' = "first"
         /\ \E i \in Top.search.match :
              /\ Top.search.match = {i}
              /\ TopBecomes([Top EXCEPT !.search = Inside(i)])
              /\ visits' = visits \cup {Inside(i)}
<1>1. /\ pc = "construct" /\ NamesDirectory /\ pc' = "first"
      /\ UNCHANGED <<casesensitive, args, openFinds, err, retval, failed, attrFailures>>
  BY DEF AdjustToDirectory
<1>2. PICK i \in Top.search.match :
        /\ stack' = [stack EXCEPT ![Depth].search = Inside(i)]
        /\ visits' = visits \cup {Inside(i)}
  BY DEF AdjustToDirectory
<1>3. Top.search.match = {i}
  BY <1>1, <1>2 DEF NamesDirectory
<1>4. /\ stack # <<>> /\ Inside(i) \in Search /\ Inside(i).match = 1..Len(Entries[Inside(i).dir])
      /\ Top.found = 0 /\ Top \in Frame
  BY <1>1, Inner, TopFrame DEF Active, FindersInv, ShapeInv
<1>5. TopBecomes([Top EXCEPT !.search = Inside(i)])
  <2>1. stack' = [stack EXCEPT ![Depth] = [Top EXCEPT !.search = Inside(i)]]
    BY <1>2 DEF Top
  <2>2. [Top EXCEPT !.search = Inside(i)] \in Frame
    BY <1>4 DEF Frame
  <2> QED
    BY <1>4, <2>1, <2>2, Exchanged DEF FindersInv
<1>6. FindersInv'
  <2> DEFINE f == [Top EXCEPT !.search = Inside(i)]
  <2>1. /\ f \in Frame /\ f.search = Inside(i) /\ f.found = 0
    BY <1>4 DEF Frame
  <2>2. openFinds' = Depth - 1
    BY <1>1, <1>4 DEF FindersInv, FindsClosed
  <2>3. Rest' /\ Active'
    BY <1>1, RestOf DEF Rest, Active, Running
  <2> HIDE DEF f
  <2>4. TopBecomes(f)
    BY <1>5 DEF f
  <2> QED
    BY <1>1, <1>4, <2>1, <2>2, <2>3, <2>4, TopFinders
<1> QED
  BY <1>1, <1>2, <1>3, <1>5, <1>6

LEMMA SameTopFinders ==
  ASSUME FindersInv, Active, Active', pc' # "construct", stack' = stack,
         UNCHANGED <<casesensitive, args, openFinds, err, retval, failed>>,
         attrFailures' \in 0..AttributeFailureBound,
         pc \in {"construct", "first"} <=> pc' = "first"
  PROVE  FindersInv' /\ Top' = Top /\ Depth' = Depth
<1>1. Top' = Top /\ Depth' = Depth
  BY DEF Top, Depth
<1>2. stack' # <<>> /\ stack' \in Seq(Frame) /\ FindsClosed' /\ ShapeInv'
  BY <1>1 DEF FindersInv, TypeOK, ShapeInv, FindsClosed, Active, Running, Listing
<1>3. Rest'
  BY RestOf DEF Rest, Active, Running
<1> QED
  BY <1>1, <1>2, <1>3, FindersLater

LEMMA AdjustToMaskFinders ==
  ASSUME FindersInv, AdjustToMask
  PROVE  FindersInv' /\ Top' = Top /\ Depth' = Depth /\ pc' = "first"
<1>1. /\ pc = "construct" /\ pc' = "first" /\ stack' = stack
      /\ UNCHANGED <<casesensitive, args, openFinds, err, retval, failed>>
  BY DEF AdjustToMask
<1>2. attrFailures' \in 0..AttributeFailureBound
  BY TreeAssumption DEF AdjustToMask, FindersInv, TypeOK
<1> QED
  BY <1>1, <1>2, SameTopFinders DEF Active, Running

(* The find handle moves on from where it was.                               *)
MovesTo(i) == i \in Top.search.match /\ TopBecomes([Top EXCEPT !.pos = i, !.found = i])

LEMMA MoveFinders ==
  ASSUME FindersInv, Active, NEW i, MovesTo(i), pc' \in {"skip", "body"},
         openFinds' = Depth, UNCHANGED <<casesensitive, args, err, retval, failed, attrFailures>>
  PROVE  FindersInv'
<1> DEFINE f == [Top EXCEPT !.pos = i, !.found = i]
<1>1. /\ stack # <<>> /\ i \in Nat /\ Top.search.match \subseteq 1..Len(Listing) /\ Top \in Frame
  BY Inner, TopFrame DEF FindersInv, MovesTo
<1>2. f \in Frame /\ f.search = Top.search /\ f.found = i
  BY <1>1 DEF Frame
<1>3. Rest' /\ Active'
  BY RestOf DEF Rest, Active, Running
<1>4. TopBecomes(f)
  BY DEF MovesTo
<1> HIDE DEF f
<1> QED
  BY <1>1, <1>2, <1>3, <1>4, TopFinders DEF MovesTo, Listing

LEMMA FirstFileFoundFinders ==
  ASSUME FindersInv, FirstFileFound
  PROVE  FindersInv' /\ pc' = "skip" /\ \E i : IsNext(i) /\ MovesTo(i)
<1>1. /\ pc = "first" /\ pc' = "skip" /\ openFinds' = openFinds + 1 /\ Active
      /\ UNCHANGED <<casesensitive, args, err, retval, failed, attrFailures>>
  BY DEF FirstFileFound, ghosts, Active, Running
<1>2. PICK i \in Top.search.match :
        IsNext(i) /\ stack' = [stack EXCEPT ![Depth].pos = i, ![Depth].found = i]
  BY DEF FirstFileFound
<1>3. stack # <<>> /\ i \in Nat /\ Depth \in Nat
  BY <1>1, <1>2, Inner, TopFrame DEF FindersInv
<1>4. MovesTo(i)
  BY <1>2, <1>3, Moved DEF MovesTo, FindersInv
<1>5. openFinds' = Depth
  BY <1>1, <1>3 DEF FindersInv, FindsClosed
<1> QED
  BY <1>1, <1>2, <1>4, <1>5, MoveFinders

LEMMA FirstFileFailsFinders ==
  ASSUME FindersInv, FirstFileFails
  PROVE  FindersInv' /\ pc' = "returned"
<1>1. /\ pc = "first" /\ Return(1, FALSE) /\ failed' = TRUE
      /\ UNCHANGED <<casesensitive, args, retval, attrFailures>>
  BY DEF FirstFileFails, Invalid
<1>2. stack # <<>> /\ failed' \in BOOLEAN /\ pc' = "returned"
  BY <1>1, Zenon DEF FindersInv, ShapeInv, Active, Running, Return
<1> QED
  BY <1>1, <1>2, ReturnFinders DEF Return

LEMMA NextFoundMoves ==
  ASSUME FindersInv, Active, NextFound
  PROVE  \E i : IsNextProper(i) /\ MovesTo(i)
<1>1. PICK i \in Top.search.match :
        IsNextProper(i) /\ stack' = [stack EXCEPT ![Depth].pos = i, ![Depth].found = i]
  BY DEF NextFound
<1>2. stack # <<>> /\ i \in Nat
  BY <1>1, Inner
<1> QED
  BY <1>1, <1>2, Moved DEF MovesTo, FindersInv

(* What SkipDots does to the top.                                            *)
Skips ==
  \/ ~IsDot(Top.found) /\ Top' = Top /\ UNCHANGED cut
  \/ IsDot(Top.found) /\ UNCHANGED cut /\ \E i : IsNextProper(i) /\ MovesTo(i)
  \/ /\ IsDot(Top.found) /\ TopBecomes([Top EXCEPT !.found = 0])
     /\ (AtEnd /\ UNCHANGED cut) \/ cut' = cut \cup {Top.search}

LEMMA SkipDotsFinders ==
  ASSUME FindersInv, SkipDots
  PROVE  FindersInv' /\ pc' = "body" /\ Depth' = Depth /\ Skips
<1>1. /\ pc = "skip" /\ pc' = "body" /\ Active /\ Active'
      /\ UNCHANGED <<casesensitive, args, openFinds, err, retval, failed, attrFailures>>
  BY DEF SkipDots, Active, Running
<1>2. stack # <<>> /\ openFinds = Depth /\ Top \in Frame /\ attrFailures \in 0..AttributeFailureBound
      /\ Top.search.match \subseteq 1..Len(Listing)
  BY <1>1, Inner, TopFrame DEF FindersInv, FindsClosed, TypeOK
<1>3. CASE ~IsDot(Top.found) /\ UNCHANGED <<stack, cut>>
  BY <1>1, <1>2, <1>3, SameTopFinders DEF Skips
<1>4. CASE IsDot(Top.found) /\ NextFound
  <2>1. PICK i : IsNextProper(i) /\ MovesTo(i)
    BY <1>1, <1>4, NextFoundMoves
  <2>2. FindersInv'
    BY <1>1, <1>2, <2>1, MoveFinders
  <2> QED
    BY <1>1, <1>4, <2>1, <2>2 DEF Skips, NextFound, MovesTo, TopBecomes
<1>5. CASE IsDot(Top.found) /\ NextNothing
  <2> DEFINE f == [Top EXCEPT !.found = 0]
  <2>1. TopBecomes(f) /\ ((AtEnd /\ UNCHANGED cut) \/ cut' = cut \cup {Top.search})
    BY <1>2, <1>5, Cleared DEF NextNothing, FindersInv
  <2>2. f \in Frame /\ f.search = Top.search /\ f.found = 0
    BY <1>2 DEF Frame
  <2>3. Rest'
    BY <1>1, RestOf DEF Rest
  <2> HIDE DEF f
  <2>4. FindersInv'
    BY <1>1, <1>2, <2>1, <2>2, <2>3, TopFinders DEF Listing
  <2> QED
    BY <1>1, <1>5, <2>1, <2>4 DEF Skips, TopBecomes, f
<1> QED
  BY <1>3, <1>4, <1>5 DEF SkipDots

LEMMA BodyOtherFinders ==
  ASSUME FindersInv, BodyOther
  PROVE  FindersInv' /\ Top' = Top /\ Depth' = Depth /\ pc' = "next"
<1>1. /\ pc = "body" /\ pc' = "next" /\ stack' = stack
      /\ UNCHANGED <<casesensitive, args, openFinds, err, retval, failed, attrFailures>>
  BY DEF BodyOther
<1>2. attrFailures' \in 0..AttributeFailureBound
  BY <1>1 DEF FindersInv, TypeOK
<1> QED
  BY <1>1, <1>2, SameTopFinders DEF Active, Running

LEMMA BodyReparsePointFinders ==
  ASSUME FindersInv, BodyReparsePoint
  PROVE  /\ FindersInv' /\ pc' = "next"
         /\ \E status \in {0, 2, 3} :
              /\ TopBecomes([Top EXCEPT !.iRet = IF status # 0 THEN status ELSE @])
              /\ failed' = (failed \/ status # 0)
<1>1. /\ pc = "body" /\ pc' = "next" /\ Active /\ Active'
      /\ UNCHANGED <<casesensitive, args, openFinds, err, retval, attrFailures>>
  BY DEF BodyReparsePoint, Active, Running
<1>2. stack # <<>> /\ openFinds = Depth /\ Top \in Frame /\ Top.search.match \subseteq 1..Len(Listing)
  BY <1>1, Inner, TopFrame DEF FindersInv, FindsClosed
<1>3. PICK status \in {0, 2, 3} :
        /\ stack' = [stack EXCEPT ![Depth].iRet = IF status # 0 THEN status ELSE @]
        /\ failed' = (failed \/ status # 0)
  BY DEF BodyReparsePoint
<1> DEFINE f == [Top EXCEPT !.iRet = IF status # 0 THEN status ELSE @]
<1>4. f \in Frame /\ f.search = Top.search /\ f.found = Top.found
  <2>1. (IF status # 0 THEN status ELSE Top.iRet) \in 0..3
    BY <1>2, TopFrame DEF FindersInv
  <2> QED
    BY <1>2, <2>1 DEF Frame
<1>5. TopBecomes(f)
  <2>1. stack' = [stack EXCEPT ![Depth] = f]
    BY <1>3 DEF Top
  <2> QED
    BY <1>2, <1>4, <2>1, Exchanged DEF FindersInv
<1>6. Rest'
  <2>1. failed' \in BOOLEAN
    BY <1>3, Zenon
  <2> QED
    BY <1>1, <2>1, RestOf DEF Rest
<1> HIDE DEF f
<1>7. FindersInv'
  BY <1>1, <1>2, <1>4, <1>5, <1>6, TopFinders DEF Listing, FindersInv, ShapeInv
<1> QED
  BY <1>1, <1>3, <1>5, <1>7 DEF f

LEMMA BodyDirectoryFinders ==
  ASSUME FindersInv, BodyDirectory
  PROVE  /\ FindersInv' /\ pc' = "construct" /\ Depth' = Depth + 1 /\ Depth >= 1 /\ Depth \in Nat
         /\ Top.found \in Top.search.match /\ Listing[Top.found].kind = "dir"
         /\ Top' = [search |-> [Top.search EXCEPT !.match = {Top.found}],
                    pos |-> 0, found |-> 0, iRet |-> 0]
         /\ \A k \in 1..Depth : stack'[k] = stack[k]
<1>1. /\ pc = "body" /\ Kind = "dir" /\ Active
      /\ Call([Top.search EXCEPT !.match = {Top.found}])
      /\ UNCHANGED <<casesensitive, args, openFinds, err, retval, failed, attrFailures>>
  BY DEF BodyDirectory, Active, Running
<1>2. /\ stack # <<>> /\ openFinds = Depth /\ Top.search \in Search
      /\ Top.search.match \subseteq 1..Len(Listing) /\ Top.found \in Top.search.match \cup {0}
      /\ Depth \in Nat /\ Depth >= 1 /\ TypeOK
  BY <1>1, Inner, TopFrame DEF FindersInv, FindsClosed, ShapeInv
<1>3. Top.found \in Top.search.match /\ Listing[Top.found].kind = "dir"
  BY <1>1, <1>2 DEF Kind, Nameless
<1> DEFINE s == [Top.search EXCEPT !.match = {Top.found}]
<1>4. s \in Search /\ s.match = {Top.found} /\ s.dir = Top.search.dir
  BY <1>2, <1>3, TopFrame DEF Search
<1>5. Call(s)
  BY <1>1
<1> HIDE DEF s
<1>6. /\ pc' = "construct" /\ stack' \in Seq(Frame) /\ stack' # <<>> /\ Depth' = Depth + 1
      /\ Top' = [search |-> s, pos |-> 0, found |-> 0, iRet |-> 0]
      /\ \A k \in 1..Depth : stack'[k] = stack[k]
  BY <1>2, <1>4, <1>5, Pushed
<1>7. Rest'
  BY <1>1, <1>6, RestOf DEF Rest
<1>8. FindsClosed' /\ ShapeInv'
  <2>1. Top'.search = s /\ Top'.found = 0 /\ args' = args
    BY <1>1, <1>6
  <2>2. {Top.found} \subseteq 1..Len(Entries[s.dir])
    BY <1>2, <1>3, <1>4 DEF Listing
  <2> QED
    BY <1>1, <1>2, <1>4, <1>6, <2>1, <2>2 DEF FindersInv, FindsClosed, ShapeInv, Listing, Active
<1>9. FindersInv'
  BY <1>6, <1>7, <1>8, FindersLater
<1> QED
  BY <1>2, <1>3, <1>6, <1>9 DEF s

(* The three ways out of the loop.                                           *)
LEMMA LeaveFinders ==
  ASSUME FindersInv,
         \/ SubdirectoryTraversed
         \/ NextEntry /\ Return(Top.iRet, TRUE)
  PROVE  FindersInv'
<1>1. /\ stack # <<>> /\ pc \in {"next", "returned"} /\ failed' = failed
      /\ UNCHANGED <<casesensitive, args, retval, attrFailures>>
  BY DEF SubdirectoryTraversed, NextEntry, FindersInv, ShapeInv, Active, Running, ghosts
<1>2. /\ pc' = "returned" /\ err' \in {err, Top.iRet} /\ stack' = SubSeq(stack, 1, Depth - 1)
      /\ openFinds' = openFinds - 1
  BY DEF SubdirectoryTraversed, Return
<1>3. err' \in 0..3 /\ failed' \in BOOLEAN
  BY <1>1, <1>2, TopFrame DEF FindersInv, TypeOK
<1> QED
  BY <1>1, <1>2, <1>3, ReturnFinders

LEMMA NextEntryFinders ==
  ASSUME FindersInv, NextEntry
  PROVE  /\ FindersInv'
         /\ \/ pc' = "body" /\ UNCHANGED cut /\ \E i : IsNextProper(i) /\ MovesTo(i)
            \/ pc' = "returned" /\ ((AtEnd /\ UNCHANGED cut) \/ cut' = cut \cup {Top.search})
<1>1. /\ pc = "next" /\ Active
      /\ UNCHANGED <<casesensitive, args, retval, failed, attrFailures>>
  BY DEF NextEntry, Active, Running
<1>2. CASE NextFound /\ pc' = "body" /\ UNCHANGED <<err, openFinds>>
  <2>1. PICK i : IsNextProper(i) /\ MovesTo(i)
    BY <1>1, <1>2, NextFoundMoves
  <2>2. openFinds' = Depth
    BY <1>1, <1>2 DEF FindersInv, FindsClosed
  <2>3. FindersInv'
    BY <1>1, <1>2, <2>1, <2>2, MoveFinders
  <2> QED
    BY <1>2, <2>1, <2>3 DEF NextFound
<1>3. CASE Return(Top.iRet, TRUE) /\ ((AtEnd /\ UNCHANGED cut) \/ cut' = cut \cup {Top.search})
  BY <1>3, LeaveFinders DEF Return
<1> QED
  BY <1>2, <1>3 DEF NextEntry

LEMMA NextFindersInv == FindersInv /\ [Next]_vars => FindersInv'
<1> SUFFICES ASSUME FindersInv, [Next]_vars PROVE FindersInv'
  OBVIOUS
<1>1. CASE UNCHANGED vars
  BY <1>1 DEF vars, ghosts, FindersInv, TypeOK, FindsClosed, ShapeInv, Depth, Active, Running, Top, Listing
<1>2. CASE Terminated
  BY <1>1, <1>2 DEF Terminated
<1>3. CASE Step
  BY <1>3, ArgumentFinders, MainFinders, AdjustFailsFinders, AdjustToDirectoryFinders,
     AdjustToMaskFinders, FirstFileFoundFinders, FirstFileFailsFinders, SkipDotsFinders,
     BodyOtherFinders, BodyReparsePointFinders, BodyDirectoryFinders, LeaveFinders,
     NextEntryFinders DEF Step
<1> QED
  BY <1>1, <1>2, <1>3 DEF Next

(* Every path finder closes its handle by whichever return of whichever      *)
(* level, for all trees and command lines: the open find handles are those   *)
(* of the invocations that are past their first entry (lookfs.cpp:385-430).  *)
THEOREM FindersReleased == Spec => []FindersHeld
<1>1. FindersInv => FindersHeld
  BY DEF FindersInv, FindersHeld
<1> QED
  BY <1>1, InitFindersInv, NextFindersInv, PTL DEF Spec

-----------------------------------------------------------------------------
(* Errors                                                                    *)

LEMMA TopKeepsError ==
  ASSUME TypeOK, stack # <<>>, NEW f, TopBecomes(f), f.iRet = Top.iRet
  PROVE  ErrorOnStack' <=> ErrorOnStack
<1>1. Depth \in Nat /\ Depth >= 1 /\ Depth' = Depth
  BY TopFrame DEF TopBecomes
<1>2. stack'[Depth].iRet = stack[Depth].iRet
  BY <1>1 DEF TopBecomes, Top
<1>3. \A k \in 1..Depth : stack'[k].iRet = stack[k].iRet
  BY <1>1, <1>2 DEF TopBecomes
<1> QED
  BY <1>1, <1>3 DEF ErrorOnStack

LEMMA PushKeepsError ==
  ASSUME Depth \in Nat, Depth' = Depth + 1, Top'.iRet = 0, \A k \in 1..Depth : stack'[k] = stack[k]
  PROVE  ErrorOnStack' <=> ErrorOnStack
<1>1. 1..Depth' = 1..Depth \cup {Depth'} /\ stack'[Depth'].iRet = 0
  BY DEF Top
<1> QED
  BY <1>1 DEF ErrorOnStack

LEMMA PopTakesError ==
  ASSUME TypeOK, stack # <<>>, stack' = SubSeq(stack, 1, Depth - 1)
  PROVE  ErrorOnStack <=> ErrorOnStack' \/ Top.iRet # 0
<1>1. /\ stack \in Seq(Frame) /\ Depth = Len(stack) /\ Depth \in Nat /\ Depth >= 1
  BY TopFrame DEF TypeOK, Depth
<1>2. Len(stack') = Len(stack) - 1 /\ \A k \in 1..Len(stack') : stack'[k] = stack[k]
  BY <1>1, Shorter
<1>3. 1..Depth = 1..Depth' \cup {Depth} /\ \A k \in 1..Depth' : stack'[k] = stack[k]
  BY <1>1, <1>2 DEF Depth
<1> QED
  BY <1>3 DEF ErrorOnStack, Top

LEMMA ErrorKept ==
  ASSUME ErrorInv, ErrorOnStack' <=> ErrorOnStack, UNCHANGED <<failed, retval>>,
         pc # "returned", pc' # "returned"
  PROVE  ErrorInv'
  BY DEF ErrorInv, ErrorUnderway

(* An invocation is left with the error it was in, or with the status of its *)
(* top.                                                                      *)
LEMMA LeaveErrors ==
  ASSUME FindersInv, ErrorInv, SubdirectoryTraversed \/ (NextEntry /\ Return(Top.iRet, TRUE))
  PROVE  ErrorInv'
<1>1. /\ stack # <<>> /\ TypeOK /\ UNCHANGED <<failed, retval>>
  BY DEF SubdirectoryTraversed, NextEntry, FindersInv, ShapeInv, Active, Running, ghosts
<1>2. pc' = "returned" /\ stack' = SubSeq(stack, 1, Depth - 1)
  BY DEF SubdirectoryTraversed, Return
<1>3. ErrorOnStack <=> ErrorOnStack' \/ Top.iRet # 0
  BY <1>1, <1>2, PopTakesError
<1>4. CASE SubdirectoryTraversed
  <2>1. pc = "returned" /\ err' = IF err # 0 THEN err ELSE Top.iRet
    BY <1>4 DEF SubdirectoryTraversed, Return
  <2>2. err' # 0 <=> err # 0 \/ Top.iRet # 0
    BY <2>1
  <2> QED
    BY <1>1, <1>2, <1>3, <2>1, <2>2 DEF ErrorInv, ErrorUnderway
<1>5. CASE NextEntry /\ Return(Top.iRet, TRUE)
  <2>1. pc = "next" /\ err' = Top.iRet
    BY <1>5 DEF NextEntry, Return
  <2> QED
    BY <1>1, <1>2, <1>3, <2>1 DEF ErrorInv, ErrorUnderway
<1> QED
  BY <1>4, <1>5

LEMMA MoveErrors ==
  ASSUME FindersInv, ErrorInv, stack # <<>>, NEW i, MovesTo(i),
         UNCHANGED <<failed, retval>>, pc # "returned", pc' # "returned"
  PROVE  ErrorInv'
<1>1. Top \in Frame
  BY TopFrame DEF FindersInv
<1>2. [Top EXCEPT !.pos = i, !.found = i].iRet = Top.iRet
  BY <1>1 DEF Frame
<1> QED
  BY <1>2, TopKeepsError, ErrorKept DEF MovesTo, FindersInv

LEMMA MainErrors ==
  ASSUME FindersInv, ErrorInv, TraverseArgument \/ ArgumentTraversed \/ Exit
  PROVE  ErrorInv'
<1>1. CASE TraverseArgument
  <2>1. /\ pc = "main" /\ pc' = "construct" /\ stack = <<>> /\ UNCHANGED <<failed, retval>>
        /\ Depth' = 1 /\ Top'.iRet = 0 /\ Depth = 0
    BY <1>1, ArgumentFinders DEF TraverseArgument, FindersInv, ShapeInv, ghosts, Depth
  <2>2. ErrorOnStack' <=> ErrorOnStack
    BY <2>1, PushKeepsError
  <2> QED
    BY <2>1, <2>2, ErrorKept
<1>2. CASE ArgumentTraversed \/ Exit
  <2>1. /\ stack = <<>> /\ stack' = stack /\ pc' \in {"main", "exit"} /\ failed' = failed
        /\ err \in Nat /\ retval \in Nat
    BY <1>2 DEF ArgumentTraversed, Exit, FindersInv, ShapeInv, TypeOK, ghosts
  <2>2. ~ErrorOnStack /\ ~ErrorOnStack'
    BY <2>1 DEF ErrorOnStack, Depth
  <2>3. retval' # 0 <=> retval # 0 \/ (pc = "returned" /\ err # 0)
    BY <1>2, <2>1 DEF ArgumentTraversed, Exit
  <2> QED
    BY <2>1, <2>2, <2>3 DEF ErrorInv, ErrorUnderway
<1> QED
  BY <1>1, <1>2

LEMMA FailErrors ==
  ASSUME AdjustFails \/ FirstFileFails
  PROVE  ErrorInv'
<1>1. failed' = TRUE /\ pc' = "returned" /\ err' = 1
  BY DEF AdjustFails, FirstFileFails, Invalid, Return
<1> QED
  BY <1>1 DEF ErrorInv, ErrorUnderway

LEMMA ConstructErrors ==
  ASSUME FindersInv, ErrorInv, AdjustToDirectory \/ AdjustToMask \/ FirstFileFound
  PROVE  ErrorInv'
<1>1. /\ pc \in {"construct", "first"} /\ pc' # "returned" /\ UNCHANGED <<failed, retval>>
      /\ stack # <<>> /\ TypeOK
  BY DEF AdjustToDirectory, AdjustToMask, FirstFileFound, FindersInv, ShapeInv, Active, Running, ghosts
<1>2. CASE AdjustToDirectory
  <2>1. PICK i : TopBecomes([Top EXCEPT !.search = Inside(i)])
    BY <1>2, AdjustToDirectoryFinders
  <2>2. [Top EXCEPT !.search = Inside(i)].iRet = Top.iRet
    BY <1>1, TopFrame DEF Frame
  <2> QED
    BY <1>1, <2>1, <2>2, TopKeepsError, ErrorKept
<1>3. CASE AdjustToMask
  BY <1>1, <1>3, ErrorKept DEF AdjustToMask, ErrorOnStack, Depth
<1>4. CASE FirstFileFound
  BY <1>1, <1>4, FirstFileFoundFinders, MoveErrors
<1> QED
  BY <1>2, <1>3, <1>4

LEMMA SkipErrors == ASSUME FindersInv, ErrorInv, SkipDots PROVE ErrorInv'
<1>1. /\ pc = "skip" /\ pc' = "body" /\ UNCHANGED <<failed, retval>>
      /\ stack # <<>> /\ TypeOK
  BY DEF SkipDots, FindersInv, ShapeInv, Active, Running
<1>2. CASE stack' = stack
  BY <1>1, <1>2, ErrorKept DEF ErrorOnStack, Depth
<1>3. CASE NextFound
  <2>1. PICK i : MovesTo(i)
    BY <1>1, <1>3, NextFoundMoves DEF Active, Running
  <2> QED
    BY <1>1, <2>1, MoveErrors
<1>4. CASE NextNothing
  <2>1. TopBecomes([Top EXCEPT !.found = 0])
    BY <1>1, <1>4, Cleared DEF NextNothing
  <2>2. [Top EXCEPT !.found = 0].iRet = Top.iRet
    BY <1>1, TopFrame DEF Frame
  <2> QED
    BY <1>1, <2>1, <2>2, TopKeepsError, ErrorKept
<1> QED
  BY <1>2, <1>3, <1>4 DEF SkipDots

LEMMA BodyErrors ==
  ASSUME FindersInv, ErrorInv, BodyOther \/ BodyReparsePoint \/ BodyDirectory
  PROVE  ErrorInv'
<1>1. /\ pc = "body" /\ pc' \in {"next", "construct"} /\ retval' = retval
      /\ stack # <<>> /\ TypeOK
  BY DEF BodyOther, BodyReparsePoint, BodyDirectory, Call, FindersInv, ShapeInv, Active, Running
<1>2. CASE BodyOther
  BY <1>1, <1>2, ErrorKept DEF BodyOther, ErrorOnStack, Depth
<1>3. CASE BodyReparsePoint
  <2>1. PICK status \in {0, 2, 3} :
          /\ TopBecomes([Top EXCEPT !.iRet = IF status # 0 THEN status ELSE @])
          /\ failed' = (failed \/ status # 0)
    BY <1>3, BodyReparsePointFinders
  <2>2. Top \in Frame /\ Depth \in Nat /\ Depth >= 1
    BY <1>1, TopFrame
  <2>3. CASE status = 0
    <3>1. [Top EXCEPT !.iRet = IF status # 0 THEN status ELSE @].iRet = Top.iRet
      BY <2>2, <2>3 DEF Frame
    <3>2. failed' <=> failed
      BY <2>1, <2>3
    <3> QED
      BY <1>1, <2>1, <3>1, <3>2, TopKeepsError DEF ErrorInv, ErrorUnderway
  <2>4. CASE status # 0
    <3>1. [Top EXCEPT !.iRet = IF status # 0 THEN status ELSE @].iRet = status
      BY <2>2, <2>4 DEF Frame
    <3>2. Top'.iRet # 0 /\ Depth' \in 1..Depth'
      BY <2>1, <2>2, <2>4, <3>1 DEF TopBecomes
    <3>3. failed'
      BY <2>1, <2>4
    <3>4. stack'[Depth'].iRet # 0
      BY <3>2 DEF Top
    <3> QED
      BY <3>2, <3>3, <3>4 DEF ErrorInv, ErrorUnderway, ErrorOnStack
  <2> QED
    BY <2>3, <2>4
<1>4. CASE BodyDirectory
  <2>1. /\ Depth \in Nat /\ Depth' = Depth + 1 /\ Top'.iRet = 0
        /\ \A k \in 1..Depth : stack'[k] = stack[k]
    BY <1>4, BodyDirectoryFinders
  <2> QED
    BY <1>1, <1>4, <2>1, PushKeepsError, ErrorKept DEF BodyDirectory
<1> QED
  BY <1>2, <1>3, <1>4

LEMMA NextErrorInv == FindersInv /\ ErrorInv /\ [Next]_vars => ErrorInv'
<1> SUFFICES ASSUME FindersInv, ErrorInv, [Next]_vars PROVE ErrorInv'
  OBVIOUS
<1>1. CASE UNCHANGED vars
  BY <1>1 DEF vars, ghosts, ErrorInv, ErrorUnderway, ErrorOnStack, Depth
<1>2. CASE Terminated
  BY <1>1, <1>2 DEF Terminated
<1>3. CASE NextEntry
  <2>1. CASE NextFound /\ pc' = "body"
    <3>1. pc = "next" /\ stack # <<>> /\ UNCHANGED <<failed, retval>>
      BY <1>3 DEF NextEntry, FindersInv, ShapeInv, Active, Running
    <3>2. PICK i : MovesTo(i)
      BY <2>1, <3>1, NextFoundMoves DEF Active, Running
    <3> QED
      BY <2>1, <3>1, <3>2, MoveErrors
  <2>2. CASE Return(Top.iRet, TRUE)
    BY <1>3, <2>2, LeaveErrors
  <2> QED
    BY <1>3, <2>1, <2>2 DEF NextEntry
<1>4. CASE Step
  BY <1>3, <1>4, MainErrors, FailErrors, ConstructErrors, SkipErrors, BodyErrors, LeaveErrors DEF Step
<1> QED
  BY <1>1, <1>2, <1>4 DEF Next

(* The result of the process is zero exactly if no invocation at any level   *)
(* and for any path noticed an error (traversePath, main), for all trees,    *)
(* command lines and failures.                                               *)
THEOREM ErrorsReachExitCode == Spec => []ErrorReachesExitCode
<1>1. Init => FindersInv /\ ErrorInv
  <2> SUFFICES ASSUME Init PROVE ErrorInv
    BY InitFindersInv
  <2>1. failed = FALSE /\ retval = 0 /\ pc = "main" /\ Depth = 0
    BY DEF Init, Depth
  <2> QED
    BY <2>1 DEF ErrorInv, ErrorUnderway, ErrorOnStack
<1>2. FindersInv /\ ErrorInv => ErrorReachesExitCode
  <2> SUFFICES ASSUME FindersInv, ErrorInv, pc = "exit" PROVE failed <=> retval # 0
    BY DEF ErrorReachesExitCode
  <2>1. Depth = 0
    BY DEF FindersInv, ShapeInv, Depth
  <2> QED
    BY <2>1 DEF ErrorInv, ErrorUnderway, ErrorOnStack
<1> QED
  BY <1>1, <1>2, NextFindersInv, NextErrorInv, PTL DEF Spec

-----------------------------------------------------------------------------
(* What has been looked at                                                   *)

LEMMA NewLook ==
  ASSUME seen \in Seq(Record), NEW r \in Record, seen' = Append(seen, r)
  PROVE  seen' \in Seq(Record) /\ Looks' = Looks \cup {r}
<1>1. Len(seen) \in Nat
  OBVIOUS
<1>2. /\ seen' \in Seq(Record) /\ Len(seen') = Len(seen) + 1 /\ seen'[Len(seen) + 1] = r
      /\ \A k \in 1..Len(seen) : seen'[k] = seen[k]
  BY <1>1
<1>3. 1..Len(seen') = 1..Len(seen) \cup {Len(seen) + 1}
  BY <1>1, <1>2
<1> QED
  BY <1>2, <1>3 DEF Looks

LEMMA SameLooks ==
  ASSUME UNCHANGED seen
  PROVE  /\ Looks' = Looks /\ \A s, i : Looked(s, i)' <=> Looked(s, i)
         /\ \A s : Complete(s)' <=> Complete(s)
         /\ \A s : Repeats(s)' <=> Repeats(s)
<1>1. Looks' = Looks
  BY DEF Looks
<1> QED
  BY <1>1 DEF Looked, Complete, Repeats

LEMMA RepeatsComplete ==
  ASSUME NEW s \in Search, Repeats(s)
  PROVE  Complete(s)
<1>1. PICK x \in s.match : s.match = {x} /\ Looked(s, x)
  BY DEF Repeats
<1>2. x \in Nat /\ ~(x < x)
  BY DEF Search
<1> QED
  BY <1>1, <1>2 DEF Complete, Proper

(* An invocation is left, or there is none.                                  *)
LEMMA LeavesLook ==
  ASSUME FindersInv, LookInv, pc' \in {"returned", "main", "exit"},
         UNCHANGED <<seen, args, attrFailures>>,
         visits' = visits \/ (pc = "construct" /\ visits' = visits \cup {Top.search}),
         \A s \in visits' \ cut' : Complete(s)
  PROVE  LookInv'
<1>1. ~Active' /\ ~Running'
  BY DEF Active, Running
<1>2. Looks' = Looks /\ \A s : Complete(s)' <=> Complete(s)
  BY SameLooks
<1>3. GhostInv'
  <2>1. CASE visits' = visits
    BY <1>1, <1>2, <2>1 DEF LookInv, GhostInv
  <2>2. CASE pc = "construct" /\ visits' = visits \cup {Top.search}
    <3>1. /\ Top.search \in Search /\ 0 \notin Top.search.match
          /\ Top.search.at # <<>> /\ Top.search.at[1] > Len(args)
      <4>1. Active /\ Len(args) \in Nat
        BY <2>2 DEF Active, FindersInv, TypeOK
      <4> QED
        BY <4>1, Inner, TopFrame DEF FindersInv, LookInv, GhostInv
    <3> QED
      BY <1>1, <1>2, <2>2, <3>1 DEF LookInv, GhostInv
  <2> QED
    BY <2>1, <2>2
<1>4. DeepestInv' /\ CursorInv' /\ StepInv' /\ LookedAtOnce'
  BY <1>1 DEF DeepestInv, CursorInv, StepInv, LookedAtOnce, LookInv, Running
<1>5. DoneInv'
  BY <1>2 DEF DoneInv
<1> QED
  BY <1>3, <1>4, <1>5 DEF LookInv

(* The top goes on with its search, and has passed what it had passed.       *)
LEMMA OnwardLook ==
  ASSUME LookInv, Running, Running', Top'.search = Top.search,
         UNCHANGED <<seen, visits, args, attrFailures>>, cut \subseteq cut', CursorInv',
         \A i \in Proper(Top.search) : Passed(i)' <=> Passed(i)
  PROVE  LookInv'
<1>1. /\ Looks' = Looks /\ \A s, i : Looked(s, i)' <=> Looked(s, i)
      /\ \A s : Complete(s)' <=> Complete(s)
      /\ \A s : Repeats(s)' <=> Repeats(s)
  BY SameLooks
<1>2. GhostInv' /\ DeepestInv'
  BY <1>1 DEF LookInv, GhostInv, DeepestInv, Active, Running
<1>3. StepInv'
  <2>1. Frontier => Frontier'
    BY <1>1 DEF Frontier
  <2> QED
    BY <1>1, <2>1 DEF LookInv, StepInv, Running
<1>4. DoneInv' /\ LookedAtOnce'
  BY <1>1 DEF LookInv, DoneInv, LookedAtOnce
<1> QED
  BY <1>2, <1>3, <1>4 DEF LookInv

(* The constructor knows what to search.                                     *)
LEMMA SearchLook ==
  ASSUME LookInv, pc = "construct", pc' = "first",
         NEW t \in Search, 0 \notin t.match, Top'.search = t, Top'.pos = 0, Top'.found = 0,
         visits' = visits \cup {t}, UNCHANGED <<seen, args, cut>>,
         t.at # <<>>, t.at[1] = Len(args) + 1, Len(args) \in Nat,
         \A r \in Looks \cup visits : r.at[1] = Len(args) + 1 => Len(r.at) <= Len(t.at),
         attrFailures' = attrFailures \/ attrFailures' # 0,
         Fresh(t.at) \/ (attrFailures' # 0 /\ Repeats(t))
  PROVE  LookInv'
<1>1. /\ Looks' = Looks /\ \A s, i : Looked(s, i)' <=> Looked(s, i)
      /\ \A s : Complete(s)' <=> Complete(s)
      /\ \A s : Repeats(s)' <=> Repeats(s)
  BY SameLooks
<1>2. GhostInv'
  BY <1>1 DEF LookInv, GhostInv, Active, Running
<1>3. DeepestInv'
  <2>1. Len(t.at) <= Len(t.at)
    BY DEF Search
  <2> QED
    BY <1>1, <2>1 DEF DeepestInv
<1>4. CursorInv'
  BY DEF CursorInv
<1>5. StepInv'
  <2>1. CASE Fresh(t.at)
    <3>1. \A s \in visits' : s.at = t.at => s = t
      BY <2>1 DEF Fresh
    <3>2. ASSUME NEW i \in Proper(t)
          PROVE  ~Looked(t, i) /\ ~Passed(i)'
      <4>1. ~Looked(t, i)
        BY <2>1 DEF Fresh, Looked
      <4>2. i \in Nat /\ i # 0
        BY DEF Proper, Search
      <4> QED
        BY <4>1, <4>2 DEF Passed
    <3> QED
      BY <1>1, <3>1, <3>2 DEF StepInv, Frontier
  <2>2. CASE attrFailures' # 0 /\ Repeats(t)
    BY <1>1, <2>2 DEF StepInv
  <2> QED
    BY <2>1, <2>2
<1>6. DoneInv'
  BY <1>1 DEF LookInv, DoneInv, Running
<1>7. LookedAtOnce'
  BY DEF LookInv, LookedAtOnce
<1> QED
  BY <1>2, <1>3, <1>4, <1>5, <1>6, <1>7 DEF LookInv

(* Looking at an entry of the search of the top, or at none, leaves all that *)
(* is done complete.                                                         *)
LEMMA BodyLook ==
  ASSUME FindersInv, LookInv, pc = "body", Look, visits' = visits
  PROVE  /\ seen' \in Seq(Record)
         /\ Looks' = Looks \cup {[at |-> Top.search.at, i |-> Top.found]}
         /\ attrFailures' = attrFailures => LookedAtOnce'
         /\ \A s \in visits \ cut : s = Top.search \/ Complete(s)'
<1> DEFINE r == [at |-> Top.search.at, i |-> Top.found]
<1>1. /\ Running /\ Active /\ Top.search \in Search /\ 0 \notin Top.search.match
      /\ Top.found \in Top.search.match \cup {0} /\ Top.found \in Nat /\ Top.search \in visits
      /\ seen \in Seq(Record) /\ visits \subseteq {s \in Search : 0 \notin s.match}
  BY Inner, TopFrame DEF FindersInv, ShapeInv, LookInv, GhostInv, StepInv, Active, Running
<1>2. r \in Record /\ seen' = Append(seen, r) /\ r.at = Top.search.at /\ r.i = Top.found
  BY <1>1 DEF Look, Record, Search
<1>3. seen' \in Seq(Record) /\ Looks' = Looks \cup {r}
  BY <1>1, <1>2, NewLook
<1>4. ASSUME NEW s \in visits \ cut, s # Top.search
      PROVE  Complete(s)'
  <2>1. Complete(s) /\ 0 \notin s.match
    BY <1>1, <1>4 DEF LookInv, DoneInv
  <2>2. ASSUME NEW j \in Proper(s) PROVE Looked(s, j)' <=> Looked(s, j)
    <3>1. j # 0 /\ j \in s.match
      BY <2>1 DEF Proper
    <3>2. CASE s.at # Top.search.at
      BY <1>2, <1>3, <3>2 DEF Looked
    <3>3. CASE Top.found = 0
      BY <1>2, <1>3, <3>1, <3>3 DEF Looked
    <3>4. CASE s.at = Top.search.at /\ Top.found # 0
      <4>1. Repeats(Top.search)
        BY <1>1, <1>4, <3>4 DEF LookInv, StepInv, Frontier
      <4>2. Looked(Top.search, Top.found)
        BY <1>1, <3>4, <4>1 DEF Repeats
      <4>3. Looks' = Looks
        BY <1>3, <4>2 DEF Looked
      <4> QED
        BY <4>3 DEF Looked
    <3> QED
      BY <3>2, <3>3, <3>4
  <2> QED
    BY <2>1, <2>2 DEF Complete
<1>5. ASSUME attrFailures' = attrFailures PROVE LookedAtOnce'
  <2>1. SUFFICES ASSUME attrFailures = 0,
                        NEW j \in 1..Len(seen'), NEW k \in 1..Len(seen'), j < k, seen'[j].i # 0
                 PROVE  seen'[j] # seen'[k]
    BY <1>5 DEF LookedAtOnce
  <2>2. Len(seen) \in Nat /\ Len(seen') = Len(seen) + 1 /\ seen'[Len(seen) + 1] = r
        /\ \A l \in 1..Len(seen) : seen'[l] = seen[l]
    BY <1>1, <1>2
  <2>3. j \in 1..Len(seen) /\ seen'[j] = seen[j] /\ seen[j] \in Looks
    BY <2>1, <2>2 DEF Looks
  <2>4. CASE k \in 1..Len(seen)
    BY <2>1, <2>2, <2>3, <2>4 DEF LookInv, LookedAtOnce
  <2>5. CASE k = Len(seen) + 1
    <3>1. SUFFICES ASSUME seen[j] = r PROVE FALSE
      BY <2>2, <2>3, <2>5
    <3>2. Top.found # 0 /\ Looked(Top.search, Top.found)
      BY <1>2, <2>1, <2>3, <3>1 DEF Looked
    <3>3. Frontier /\ Top.found \in Proper(Top.search) /\ Top.found = Top.pos
      BY <1>1, <2>1, <3>2 DEF LookInv, StepInv, CursorInv
    <3>4. ~Passed(Top.found)
      BY <1>1, <3>2, <3>3 DEF Passed
    <3> QED
      BY <3>2, <3>3, <3>4 DEF Frontier
  <2> QED
    BY <2>1, <2>2, <2>4, <2>5
<1> QED
  BY <1>3, <1>4, <1>5

(* An entry that is no directory has been looked at.                         *)
LEMMA LookedOther ==
  ASSUME FindersInv, LookInv, pc = "body", Look, pc' = "next", Kind # "dir",
         UNCHANGED <<visits, cut, args, attrFailures>>,
         Top'.search = Top.search, Top'.pos = Top.pos
  PROVE  LookInv'
<1>1. /\ seen' \in Seq(Record)
      /\ Looks' = Looks \cup {[at |-> Top.search.at, i |-> Top.found]}
      /\ LookedAtOnce'
      /\ \A s \in visits \ cut : s = Top.search \/ Complete(s)'
  BY BodyLook
<1>2. Running /\ Running' /\ Active /\ Top.search \in visits /\ Top.pos \in Nat
  BY Inner, TopFrame DEF FindersInv, LookInv, StepInv, Active, Running
<1>3. GhostInv' /\ DeepestInv'
  <2>1. Len(Top.search.at) <= Len(Top.search.at) /\ Top.search.at[1] > Len(args)
    BY <1>2, Inner, TopFrame DEF FindersInv, TypeOK, LookInv, GhostInv
  <2> QED
    BY <1>1, <1>2, <2>1 DEF LookInv, GhostInv, DeepestInv, Active
<1>4. CursorInv' /\ DoneInv'
  BY <1>1, <1>2 DEF CursorInv, DoneInv
<1>5. StepInv'
  <2>1. CASE Frontier
    <3>1. ASSUME NEW i \in Proper(Top.search)
          PROVE  /\ Looked(Top.search, i)' <=> Passed(i)'
                 /\ Passed(i)' => Entries[Top.search.dir][i].kind # "dir"
      <4>1. i \in Nat /\ i # 0
        <5>1. i \in Top.search.match
          BY DEF Proper
        <5> QED
          BY <1>2, <5>1, Inner
      <4>2. Looked(Top.search, i)' <=> Looked(Top.search, i) \/ i = Top.found
        BY <1>1 DEF Looked
      <4>3. Passed(i)' <=> i < Top.pos \/ i = Top.pos
        BY DEF Passed
      <4>4. Passed(i) <=> i < Top.pos \/ (i = Top.pos /\ Top.found = 0)
        BY DEF Passed
      <4>5. Top.found = 0 \/ Top.found = Top.pos
        BY DEF LookInv, CursorInv
      <4>6. i = Top.found => Entries[Top.search.dir][i].kind # "dir"
        BY <4>1 DEF Kind, Nameless, Listing
      <4> QED
        BY <1>2, <2>1, <4>1, <4>2, <4>3, <4>4, <4>5, <4>6 DEF Frontier
    <3> QED
      BY <1>2, <2>1, <3>1 DEF StepInv, Frontier
  <2>2. CASE attrFailures # 0 /\ Repeats(Top.search)
    BY <1>1, <1>2, <2>2 DEF StepInv, Repeats, Looked
  <2> QED
    BY <1>2, <2>1, <2>2 DEF LookInv, StepInv
<1> QED
  BY <1>1, <1>3, <1>4, <1>5 DEF LookInv

LEMMA BodyKeepsLook ==
  ASSUME FindersInv, LookInv, BodyOther \/ BodyReparsePoint
  PROVE  LookInv'
<1>1. /\ pc = "body" /\ Look /\ pc' = "next" /\ Kind # "dir"
      /\ UNCHANGED <<visits, cut, args, attrFailures>>
  BY DEF BodyOther, BodyReparsePoint
<1>2. Top'.search = Top.search /\ Top'.pos = Top.pos
  <2>1. CASE BodyOther
    BY <2>1, BodyOtherFinders
  <2>2. CASE BodyReparsePoint
    <3>1. PICK status : Top' = [Top EXCEPT !.iRet = IF status # 0 THEN status ELSE @]
      BY <2>2, BodyReparsePointFinders DEF TopBecomes
    <3>2. Top \in Frame
      BY <1>1, Inner, TopFrame DEF FindersInv, Active, Running
    <3> QED
      BY <3>1, <3>2 DEF Frame
  <2> QED
    BY <2>1, <2>2
<1> QED
  BY <1>1, <1>2, LookedOther

(* The entries up to the first directory are those that no directory precedes.*)
LEMMA UpToDirectory ==
  ASSUME NEW s \in Search, NEW x \in Proper(s), Entries[s.dir][x].kind = "dir",
         \A j \in Proper(s) : j < x => Entries[s.dir][j].kind # "dir"
  PROVE  \A i \in Proper(s) :
           i <= x <=> \A j \in Proper(s) : j < i => Entries[s.dir][j].kind # "dir"
<1>1. \A j \in Proper(s) : j \in Nat
  BY DEF Proper, Search
<1>2. ASSUME NEW j \in Proper(s), j <= x, NEW k \in Proper(s), k < j
      PROVE  Entries[s.dir][k].kind # "dir"
  <2>1. k < x
    BY <1>1, <1>2
  <2> QED
    BY <2>1
<1>3. ASSUME NEW j \in Proper(s), ~(j <= x)
      PROVE  \E k \in Proper(s) : k < j /\ Entries[s.dir][k].kind = "dir"
  <2>1. x < j
    BY <1>1, <1>3
  <2> QED
    BY <2>1
<1> QED
  BY <1>2, <1>3

(* The first subdirectory is the last entry looked at.                       *)
LEMMA BodyDirectoryLook ==
  ASSUME FindersInv, LookInv, BodyDirectory
  PROVE  LookInv'
<1> SUFFICES ASSUME NEW s, s = Top.search, NEW x, x = Top.found,
                    NEW t, t = [s EXCEPT !.match = {x}]
             PROVE  LookInv'
  OBVIOUS
<1>1. /\ pc = "body" /\ Look /\ UNCHANGED <<visits, cut, args, attrFailures>>
      /\ Running /\ Active /\ Active' /\ ~Running'
  BY DEF BodyDirectory, Call, Active, Running
<1>2. /\ pc' = "construct" /\ Depth' = Depth + 1 /\ Depth >= 1 /\ Depth \in Nat
      /\ x \in s.match /\ Entries[s.dir][x].kind = "dir"
      /\ Top' = [search |-> t, pos |-> 0, found |-> 0, iRet |-> 0]
  BY BodyDirectoryFinders DEF Listing
<1>3. /\ s \in Search /\ s \in visits /\ x \in Nat /\ x # 0 /\ s.match \subseteq Nat
  BY <1>1, <1>2, Inner, TopFrame DEF FindersInv, LookInv, StepInv
<1>4. /\ seen' \in Seq(Record)
      /\ Looks' = Looks \cup {[at |-> s.at, i |-> x]}
      /\ LookedAtOnce'
      /\ \A u \in visits \ cut : u = s \/ Complete(u)'
  BY <1>1, BodyLook
<1>5. Top'.search = t /\ t.at = s.at /\ t.dir = s.dir /\ t.match = {x}
  BY <1>2, <1>3 DEF Search
<1>6. GhostInv' /\ DeepestInv'
  <2>1. /\ Len(s.at) <= Len(s.at) /\ s.at # <<>> /\ s.at[1] > Len(args) /\ s.at[1] = Len(args) + 1
        /\ visits \subseteq {u \in Search : 0 \notin u.match}
        /\ \A r \in Looks \cup visits : r.at # <<>> /\ r.at[1] > Len(args)
        /\ \A r \in Looks \cup visits : r.at[1] = Len(args) + 1 => Len(r.at) <= Len(s.at)
    BY <1>1, <1>3, Inner, TopFrame DEF FindersInv, TypeOK, LookInv, GhostInv, DeepestInv, Search
  <2>2. Depth' # 1
    BY <1>2
  <2>3. \A r \in Looks' \cup visits' : r \in Looks \cup visits \/ r.at = s.at
    BY <1>1, <1>4
  <2>4. GhostInv'
    BY <1>1, <1>4, <1>5, <2>1, <2>3 DEF GhostInv
  <2>5. DeepestInv'
    BY <1>1, <1>5, <2>1, <2>2, <2>3 DEF DeepestInv
  <2> QED
    BY <2>4, <2>5
<1>7. CursorInv'
  BY <1>2 DEF CursorInv
<1>8. StepInv'
  <2>1. Looked(t, x)'
    BY <1>4, <1>5 DEF Looked
  <2>2. Repeats(t)'
    BY <1>2, <1>5, <2>1 DEF Repeats
  <2> QED
    BY <1>1, <1>5, <2>2 DEF StepInv
<1>9. Complete(s)'
  <2>1. \A j : Looked(s, j)' <=> Looked(s, j) \/ j = x
    BY <1>4 DEF Looked
  <2>2. CASE Repeats(s)
    <3>1. PICK y \in s.match : s.match = {y} /\ Looked(s, y)'
      BY <2>1, <2>2 DEF Repeats
    <3>2. ~(y < y)
      BY <1>3, <3>1
    <3> QED
      BY <3>1, <3>2 DEF Complete, Proper
  <2>3. CASE Frontier
    <3>1. x = Top.pos /\ x \in Proper(s)
      BY <1>1, <1>3 DEF LookInv, CursorInv
    <3>2. ASSUME NEW j \in Proper(s)
          PROVE  /\ Looked(s, j)' <=> j <= x
                 /\ j < x => Entries[s.dir][j].kind # "dir"
      <4>1. j \in Nat
        BY <1>3 DEF Proper
      <4>2. Passed(j) <=> j < x
        BY <1>1, <1>3, <3>1, <4>1 DEF Passed
      <4> QED
        BY <1>3, <2>1, <2>3, <4>1, <4>2 DEF Frontier
    <3> QED
      BY <1>2, <1>3, <3>1, <3>2, UpToDirectory DEF Complete
  <2> QED
    BY <1>1, <2>2, <2>3 DEF LookInv, StepInv
<1>10. DoneInv'
  BY <1>1, <1>4, <1>9 DEF DoneInv
<1> QED
  BY <1>4, <1>6, <1>7, <1>8, <1>10 DEF LookInv

(* What was looked at is well-formed.                                        *)
LEMMA LookType ==
  ASSUME GhostInv, NEW r \in Looks \cup visits
  PROVE  r.at \in Seq(Nat) /\ r.at # <<>> /\ r.at[1] \in Nat /\ Len(r.at) \in Nat
<1>1. r.at # <<>> /\ seen \in Seq(Record) /\ visits \subseteq Search
  BY DEF GhostInv
<1>2. CASE r \in visits
  BY <1>1, <1>2 DEF Search
<1>3. CASE r \in Looks
  <2>1. PICK k \in 1..Len(seen) : r = seen[k]
    BY <1>3 DEF Looks
  <2>2. r \in Record
    BY <1>1, <2>1
  <2> QED
    BY <1>1, <2>2 DEF Record
<1> QED
  BY <1>2, <1>3

LEMMA ArgumentLook ==
  ASSUME FindersInv, LookInv, TraverseArgument
  PROVE  LookInv'
<1>1. /\ pc = "main" /\ args # <<>> /\ args' = Tail(args) /\ args \in Seq(SUBSET Nat)
      /\ UNCHANGED <<seen, visits, cut, attrFailures>>
      /\ ~Running /\ ~Running' /\ Active'
  BY DEF TraverseArgument, Call, ghosts, FindersInv, TypeOK, Active, Running
<1>2. Len(args) \in Nat /\ Len(args) >= 1 /\ Len(args') = Len(args) - 1
  BY <1>1
<1>3. /\ pc' = "construct" /\ Depth' = 1
      /\ Top'.search.at = <<Len(args)>> /\ Top'.pos = 0 /\ Top'.found = 0
  BY ArgumentFinders
<1>4. /\ Looks' = Looks /\ \A s : Complete(s)' <=> Complete(s)
  BY <1>1, SameLooks
<1>5. \A r \in Looks \cup visits : r.at # <<>> /\ r.at[1] > Len(args)
  BY DEF LookInv, GhostInv
<1>6. <<Len(args)>>[1] = Len(args) /\ <<Len(args)>> # <<>> /\ Len(args) = Len(args') + 1
  BY <1>2
<1>7. ASSUME NEW r \in Looks \cup visits
      PROVE  /\ r.at[1] > Len(args') /\ r.at[1] # Len(args') + 1 /\ r.at # <<Len(args)>>
  <2>1. r.at[1] \in Nat
    BY LookType DEF LookInv
  <2> QED
    BY <1>2, <1>5, <1>6, <2>1
<1>8. GhostInv'
  BY <1>1, <1>3, <1>4, <1>5, <1>6, <1>7 DEF LookInv, GhostInv
<1>9. DeepestInv'
  BY <1>1, <1>3, <1>4, <1>7 DEF DeepestInv, Fresh
<1>10. CursorInv' /\ StepInv' /\ DoneInv' /\ LookedAtOnce'
  BY <1>1, <1>3, <1>4 DEF CursorInv, StepInv, DoneInv, LookedAtOnce, LookInv
<1> QED
  BY <1>8, <1>9, <1>10 DEF LookInv

LEMMA AdjustLook ==
  ASSUME FindersInv, LookInv, AdjustToDirectory \/ AdjustToMask
  PROVE  LookInv'
<1>1. /\ pc = "construct" /\ pc' = "first" /\ Active /\ UNCHANGED <<seen, args, cut>>
      /\ Len(args) \in Nat
  BY DEF AdjustToDirectory, AdjustToMask, Active, FindersInv, TypeOK
<1>2. /\ Top \in Frame /\ Top.search \in Search /\ Top.search.at \in Seq(Nat)
      /\ 0 \notin Top.search.match
      /\ Top.search.at # <<>> /\ Top.search.at[1] = Len(args) + 1
      /\ Top.pos = 0 /\ Top.found = 0
      /\ \A r \in Looks \cup visits : r.at[1] = Len(args) + 1 => Len(r.at) <= Len(Top.search.at)
  BY <1>1, Inner, TopFrame DEF FindersInv, LookInv, GhostInv, DeepestInv, CursorInv
<1>3. CASE AdjustToDirectory
  <2>1. PICK i \in Top.search.match :
          /\ Top' = [Top EXCEPT !.search = Inside(i)]
          /\ visits' = visits \cup {Inside(i)}
    BY <1>3, AdjustToDirectoryFinders DEF TopBecomes
  <2>2. /\ i \in Nat /\ Inside(i) \in Search /\ Inside(i).at = Append(Top.search.at, i)
        /\ 0 \notin Inside(i).match
    BY <1>1, Inner
  <2> DEFINE t == Inside(i)
  <2>3. Top'.search = t /\ Top'.pos = 0 /\ Top'.found = 0
    BY <1>2, <2>1 DEF Frame
  <2>4. /\ t.at # <<>> /\ t.at[1] = Len(args) + 1 /\ Len(t.at) = Len(Top.search.at) + 1
        /\ Len(Top.search.at) \in Nat
    BY <1>2, <2>2
  <2>5. \A r \in Looks \cup visits : r.at[1] = Len(args) + 1 => Len(r.at) < Len(t.at)
    <3>1. \A r \in Looks \cup visits : Len(r.at) \in Nat
      BY LookType DEF LookInv
    <3> QED
      BY <1>2, <2>4, <3>1
  <2>6. Fresh(t.at)
    <3>1. ~(Len(t.at) < Len(t.at))
      BY <2>4
    <3> QED
      BY <2>4, <2>5, <3>1 DEF Fresh
  <2>7. \A r \in Looks \cup visits : r.at[1] = Len(args) + 1 => Len(r.at) <= Len(t.at)
    <3>1. \A r \in Looks \cup visits : Len(r.at) \in Nat
      BY LookType DEF LookInv
    <3> QED
      BY <2>4, <2>5, <3>1
  <2>8. attrFailures' = attrFailures
    BY <1>3 DEF AdjustToDirectory
  <2> HIDE DEF t
  <2> QED
    BY <1>1, <2>1, <2>2, <2>3, <2>4, <2>6, <2>7, <2>8, SearchLook DEF t
<1>4. CASE AdjustToMask
  <2>1. Top' = Top /\ visits' = visits \cup {Top.search}
    BY <1>4, AdjustToMaskFinders DEF AdjustToMask
  <2>2. attrFailures' = attrFailures \/ (attrFailures' # 0 /\ NamesDirectory)
    <3>1. attrFailures \in Nat
      BY TreeAssumption DEF FindersInv, TypeOK
    <3> QED
      BY <1>4, <3>1 DEF AdjustToMask
  <2>3. Fresh(Top.search.at) \/ (attrFailures' # 0 /\ Repeats(Top.search))
    <3>1. CASE Depth = 1
      BY <1>1, <3>1 DEF LookInv, DeepestInv
    <3>2. CASE Depth # 1
      <4>1. Repeats(Top.search)
        BY <1>1, <3>2 DEF LookInv, StepInv
      <4>2. NamesDirectory
        BY <4>1 DEF Repeats, NamesDirectory, Listing
      <4>3. attrFailures' # 0
        <5>1. attrFailures \in Nat
          BY TreeAssumption DEF FindersInv, TypeOK
        <5> QED
          BY <1>4, <3>2, <4>2, <5>1 DEF AdjustToMask
      <4> QED
        BY <4>1, <4>3
    <3> QED
      BY <3>1, <3>2
  <2> QED
    BY <1>1, <1>2, <2>1, <2>2, <2>3, SearchLook
<1> QED
  BY <1>3, <1>4
(* The proper entries of the search of the top.                              *)
LEMMA ProperTop ==
  ASSUME FindersInv, LookInv, Running
  PROVE  /\ stack # <<>> /\ Top \in Frame /\ Top.pos \in Nat /\ Top.search \in Search
         /\ \A i \in Top.search.match : i \in Nat /\ i # 0
         /\ \A i : i \in Proper(Top.search) <=> i \in Top.search.match /\ ~IsDot(i)
<1>1. Active
  BY DEF Active
<1>2. /\ stack # <<>> /\ Top \in Frame /\ Top.pos \in Nat /\ Top.search \in Search
      /\ \A i \in Top.search.match : i \in Nat /\ i # 0
  BY <1>1, Inner, TopFrame DEF FindersInv
<1> QED
  BY <1>2 DEF Proper, IsDot, Listing

LEMMA MovedTop ==
  ASSUME NEW i, MovesTo(i), Top \in Frame
  PROVE  /\ Top'.search = Top.search /\ Top'.pos = i /\ Top'.found = i
         /\ Proper(Top.search)' = Proper(Top.search)
BY DEF MovesTo, TopBecomes, Frame, Proper

LEMMA FirstFileLook ==
  ASSUME FindersInv, LookInv, FirstFileFound
  PROVE  LookInv'
<1>1. /\ pc = "first" /\ pc' = "skip" /\ Running /\ Running'
      /\ UNCHANGED <<seen, visits, cut, args, attrFailures>>
  BY DEF FirstFileFound, ghosts, Running
<1>2. PICK i : IsNext(i) /\ MovesTo(i)
  BY FirstFileFoundFinders
<1>3. /\ Top'.search = Top.search /\ Top'.pos = i /\ Top'.found = i
      /\ Proper(Top.search)' = Proper(Top.search)
      /\ Top.pos = 0 /\ i \in Top.search.match /\ i \in Nat
  BY <1>1, <1>2, ProperTop, MovedTop DEF MovesTo, LookInv, CursorInv
<1>4. ASSUME NEW j \in Proper(Top.search)
      PROVE  j \in Nat /\ j # 0 /\ j >= i
  <2>1. j \in Top.search.match /\ ~IsDot(j) /\ j \in Nat /\ j # 0
    BY <1>1, ProperTop
  <2>2. CASE j < i
    <3>1. j \in 1..i - 1 /\ j > Top.pos
      BY <1>3, <2>1, <2>2
    <3> QED
      BY <1>2, <2>1, <3>1 DEF IsNext, Returned
  <2> QED
    BY <1>3, <2>1, <2>2
<1>5. CursorInv'
  BY <1>1, <1>3, <1>4 DEF CursorInv
<1>6. \A j \in Proper(Top.search) : Passed(j)' <=> Passed(j)
  BY <1>1, <1>3, <1>4 DEF Passed
<1> QED
  BY <1>1, <1>3, <1>5, <1>6, OnwardLook

LEMMA SkipDotsLook ==
  ASSUME FindersInv, LookInv, SkipDots
  PROVE  LookInv'
<1>1. /\ pc = "skip" /\ pc' = "body" /\ Running /\ Running'
      /\ UNCHANGED <<seen, visits, args, attrFailures>> /\ Skips
  BY SkipDotsFinders DEF SkipDots, Running
<1>2. /\ stack # <<>> /\ Top \in Frame /\ Top.pos \in Nat /\ Top.search \in Search
      /\ \A i \in Top.search.match : i \in Nat /\ i # 0
      /\ \A i : i \in Proper(Top.search) <=> i \in Top.search.match /\ ~IsDot(i)
  BY <1>1, ProperTop
<1>3. /\ Top.found \in Top.search.match /\ Top.pos = Top.found
      /\ \A j \in Proper(Top.search) : j >= Top.pos
  BY <1>1 DEF LookInv, CursorInv
<1>4. SUFFICES /\ Top'.search = Top.search /\ cut \subseteq cut' /\ CursorInv'
               /\ \A j \in Proper(Top.search) : Passed(j)' <=> Passed(j)
  BY <1>1, OnwardLook
<1>5. CASE ~IsDot(Top.found) /\ Top' = Top /\ UNCHANGED cut
  <2>1. CursorInv'
    BY <1>1, <1>2, <1>3, <1>5 DEF CursorInv, Proper
  <2>2. \A j \in Proper(Top.search) : Passed(j)' <=> Passed(j)
    BY <1>1, <1>2, <1>3, <1>5 DEF Passed
  <2> QED
    BY <1>5, <2>1, <2>2
<1>6. CASE IsDot(Top.found) /\ UNCHANGED cut /\ \E i : IsNextProper(i) /\ MovesTo(i)
  <2>1. PICK i : IsNextProper(i) /\ MovesTo(i)
    BY <1>6
  <2>2. /\ Top'.search = Top.search /\ Top'.pos = i /\ Top'.found = i
        /\ Proper(Top.search)' = Proper(Top.search) /\ i \in Proper(Top.search)
        /\ i \in Nat /\ i # 0
    BY <1>2, <2>1, MovedTop DEF IsNextProper
  <2>3. CursorInv'
    BY <1>1, <2>2 DEF CursorInv
  <2>4. ASSUME NEW j \in Proper(Top.search) PROVE ~Passed(j)' /\ ~Passed(j)
    <3>1. j \in Top.search.match /\ ~IsDot(j) /\ j \in Nat /\ j >= Top.pos /\ j # Top.pos
      BY <1>2, <1>3, <1>6
    <3>2. j > Top.pos /\ ~(j < i)
      BY <1>2, <2>1, <3>1 DEF IsNextProper
    <3> QED
      BY <1>1, <1>2, <2>2, <3>2, <3>1 DEF Passed
  <2> QED
    BY <1>6, <2>2, <2>3, <2>4
<1>7. CASE /\ IsDot(Top.found) /\ TopBecomes([Top EXCEPT !.found = 0])
           /\ (AtEnd /\ UNCHANGED cut) \/ cut' = cut \cup {Top.search}
  <2>1. Top'.search = Top.search /\ Top'.pos = Top.pos /\ Top'.found = 0 /\ cut \subseteq cut'
    BY <1>2, <1>7 DEF TopBecomes, Frame
  <2>2. CursorInv'
    BY <1>1, <2>1 DEF CursorInv
  <2>3. \A j \in Proper(Top.search) : Passed(j)' <=> Passed(j)
    BY <1>1, <1>2, <1>3, <1>7, <2>1 DEF Passed
  <2> QED
    BY <2>1, <2>2, <2>3
<1> QED
  BY <1>1, <1>5, <1>6, <1>7 DEF Skips

(* A search that reaches the end of its listing is complete.                 *)
LEMMA EndComplete ==
  ASSUME FindersInv, LookInv, pc = "next", AtEnd
  PROVE  Complete(Top.search)
<1>1. Running /\ Top.search \in Search /\ Top.pos \in Nat
  BY ProperTop DEF Running
<1>2. CASE Repeats(Top.search)
  BY <1>1, <1>2, RepeatsComplete
<1>3. CASE Frontier
  <2>1. ASSUME NEW i \in Proper(Top.search)
        PROVE  Looked(Top.search, i) /\ Entries[Top.search.dir][i].kind # "dir"
    <3>1. i \in Nat /\ i \in Top.search.match /\ ~IsDot(i)
      BY <1>1, ProperTop
    <3>2. i < Top.pos \/ i = Top.pos
      BY <1>1, <3>1 DEF AtEnd
    <3>3. Passed(i)
      BY <3>2 DEF Passed
    <3> QED
      BY <1>3, <3>3 DEF Frontier
  <2> QED
    BY <2>1 DEF Complete
<1> QED
  BY <1>1, <1>2, <1>3 DEF LookInv, StepInv

LEMMA NextEntryLook ==
  ASSUME FindersInv, LookInv, NextEntry
  PROVE  LookInv'
<1>1. /\ pc = "next" /\ Running /\ Active
      /\ UNCHANGED <<seen, visits, args, attrFailures>>
  BY DEF NextEntry, Running, Active
<1>2. CASE NextFound /\ pc' = "body"
  <2>1. PICK i : IsNextProper(i) /\ MovesTo(i)
    BY <1>1, <1>2, NextFoundMoves
  <2>2. /\ Top \in Frame /\ Top.pos \in Nat
        /\ \A j : j \in Proper(Top.search) <=> j \in Top.search.match /\ ~IsDot(j)
        /\ \A j \in Top.search.match : j \in Nat /\ j # 0
    BY <1>1, ProperTop
  <2>3. /\ Top'.search = Top.search /\ Top'.pos = i /\ Top'.found = i
        /\ Proper(Top.search)' = Proper(Top.search) /\ i \in Proper(Top.search)
        /\ i \in Nat /\ i # 0 /\ i > Top.pos
    BY <2>1, <2>2, MovedTop DEF IsNextProper
  <2>4. CursorInv' /\ Running' /\ UNCHANGED cut
    BY <1>2, <2>3 DEF CursorInv, Running, NextFound
  <2>5. ASSUME NEW j \in Proper(Top.search) PROVE Passed(j)' <=> Passed(j)
    <3>1. j \in Top.search.match /\ ~IsDot(j) /\ j \in Nat
      BY <2>2
    <3>2. ~(Top.pos < j /\ j < i)
      BY <2>1, <3>1 DEF IsNextProper
    <3> QED
      BY <1>1, <1>2, <2>2, <2>3, <3>1, <3>2 DEF Passed
  <2> QED
    BY <1>1, <2>3, <2>4, <2>5, OnwardLook
<1>3. CASE Return(Top.iRet, TRUE) /\ ((AtEnd /\ UNCHANGED cut) \/ cut' = cut \cup {Top.search})
  <2>1. pc' = "returned"
    BY <1>3 DEF Return
  <2>2. \A s \in visits' \ cut' : Complete(s)
    BY <1>1, <1>3, EndComplete DEF LookInv, DoneInv
  <2> QED
    BY <1>1, <2>1, <2>2, LeavesLook
<1> QED
  BY <1>2, <1>3 DEF NextEntry

(* Errors, returns from the recursion, and the loop of main.                 *)
LEMMA LeavingLook ==
  ASSUME FindersInv, LookInv,
         \/ AdjustFails \/ FirstFileFails \/ SubdirectoryTraversed
         \/ ArgumentTraversed \/ Exit
  PROVE  LookInv'
<1>1. /\ pc' \in {"returned", "main", "exit"} /\ UNCHANGED <<seen, args, attrFailures>>
      /\ visits' = visits \/ (pc = "construct" /\ visits' = visits \cup {Top.search})
  BY DEF AdjustFails, FirstFileFails, Invalid, Return, SubdirectoryTraversed, ArgumentTraversed,
         Exit, ghosts
<1>2. visits' \ cut' \subseteq visits \ cut /\ (Running => Top.search \in cut')
  BY DEF AdjustFails, FirstFileFails, Invalid, SubdirectoryTraversed, ArgumentTraversed,
         Exit, ghosts, Running
<1>3. \A s \in visits' \ cut' : Complete(s)
  BY <1>2 DEF LookInv, DoneInv
<1> QED
  BY <1>1, <1>3, LeavesLook

LEMMA SameLook ==
  ASSUME LookInv, UNCHANGED vars
  PROVE  LookInv'
<1>1. /\ UNCHANGED <<pc, args, stack, seen, visits, cut, attrFailures>>
      /\ Looks' = Looks /\ \A s, i : Looked(s, i)' <=> Looked(s, i)
      /\ \A s : Complete(s)' <=> Complete(s)
      /\ \A s : Repeats(s)' <=> Repeats(s)
  BY SameLooks DEF vars, ghosts
<1>2. Top' = Top /\ Depth' = Depth /\ (Active' <=> Active) /\ (Running' <=> Running)
      /\ \A i : Passed(i)' <=> Passed(i)
  BY <1>1 DEF Top, Depth, Active, Running, Passed
<1>3. GhostInv' /\ DeepestInv' /\ CursorInv'
  BY <1>1, <1>2 DEF LookInv, GhostInv, DeepestInv, CursorInv, Fresh, Proper
<1>4. Frontier => Frontier'
  BY <1>1, <1>2 DEF Frontier, Proper
<1>5. StepInv' /\ DoneInv' /\ LookedAtOnce'
  BY <1>1, <1>2, <1>4 DEF LookInv, StepInv, DoneInv, LookedAtOnce
<1> QED
  BY <1>3, <1>5 DEF LookInv

LEMMA NextLookInv == FindersInv /\ LookInv /\ [Next]_vars => LookInv'
<1> SUFFICES ASSUME FindersInv, LookInv, [Next]_vars PROVE LookInv'
  OBVIOUS
<1>1. CASE UNCHANGED vars
  BY <1>1, SameLook
<1>2. CASE Terminated
  BY <1>2, SameLook DEF Terminated
<1>3. CASE Step
  BY <1>3, ArgumentLook, LeavingLook, AdjustLook, FirstFileLook, SkipDotsLook, BodyKeepsLook,
     BodyDirectoryLook, NextEntryLook DEF Step
<1> QED
  BY <1>1, <1>2, <1>3 DEF Next

(* What there is to be looked at is looked at, and once: of every search that*)
(* no error cut short, the entries up to and including the first             *)
(* subdirectory, and no entry twice unless the attributes of a directory     *)
(* could not be read (traversePath and CPathFinder, lookfs.cpp).             *)
THEOREM LooksAsListed == Spec => []LookedAtAsListed
<1>1. Init => FindersInv /\ LookInv
  <2> SUFFICES ASSUME Init PROVE LookInv
    BY InitFindersInv
  <2>1. pc = "main" /\ seen = <<>> /\ visits = {} /\ ~Active /\ ~Running
    BY DEF Init, Active, Running
  <2>2. Looks = {} /\ seen \in Seq(Record) /\ LookedAtOnce
    BY <2>1 DEF Looks, LookedAtOnce
  <2> QED
    BY <2>1, <2>2 DEF LookInv, GhostInv, DeepestInv, CursorInv, StepInv, DoneInv
<1>2. LookInv => LookedAtAsListed
  <2> SUFFICES ASSUME LookInv PROVE SeenUpToSubdirectory
    BY DEF LookInv, LookedAtAsListed
  <2>1. \A s, i : WasSeen(s, i) <=> Looked(s, i)
    BY DEF WasSeen, Looked, Looks
  <2>2. pc = "exit" => \A s \in visits \ cut : Complete(s)
    BY DEF LookInv, DoneInv, Running
  <2> QED
    BY <2>1, <2>2 DEF SeenUpToSubdirectory, Complete
<1> QED
  BY <1>1, <1>2, NextFindersInv, NextLookInv, PTL DEF Spec
=============================================================================
