--------------------------- MODULE FindApi_proofs ---------------------------
(***************************************************************************)
(* Proofs about FindApi, for any number of threads and handles.  A handle  *)
(* is touched by one call at a time: before it is returned because nobody  *)
(* else has it, afterwards because of its critical section.                *)
(***************************************************************************)
EXTENDS FindApi, SequenceTheorems, FiniteSetTheorems, WellFoundedInduction, TLAPS

Inside(t) == pc[t] \in {"scan", "settle", "copy", "leave"}

(* Who is where with a handle.                                               *)
LockInv ==
  /\ \A t \in Threads : Inside(t) =>
       /\ handle[arg[t]].open
       /\ handle[arg[t]].returned => handle[arg[t]].owner = t
  /\ \A t \in Threads : pc[t] = "enter" => handle[arg[t]].open /\ handle[arg[t]].returned
  /\ \A t, u \in Threads : Inside(t) /\ Inside(u) /\ arg[t] = arg[u] => t = u

(* What has been taken from a handle and what its callers have got.          *)
CopyInv(t) ==
  /\ taken[t].entry = handle[arg[t]].pos /\ taken[t].entry >= 1
  /\ taken[t].scan = handle[arg[t]].scan
  /\ \A j \in 1..Len(delivered[arg[t]]) : delivered[arg[t]][j] < handle[arg[t]].pos

DataInv ==
  /\ \A h \in Handles : ~handle[h].open => delivered[h] = <<>>
  /\ \A h \in Handles : \A j \in 1..Len(delivered[h]) : delivered[h][j] <= handle[h].pos
  /\ \A t \in Threads : pc[t] = "copy" => CopyInv(t)
  /\ SharedInOrderOnce

IndInv == TypeOK /\ LockInv /\ DataInv

-----------------------------------------------------------------------------
(* Types                                                                     *)

LEMMA MaxType ==
  ASSUME NEW a \in Int, NEW b \in Int
  PROVE  Max({a, b}) \in {a, b} /\ Max({a, b}) >= a /\ Max({a, b}) >= b
<1>1. \E x \in {a, b} : \A y \in {a, b} : x >= y
  <2>1. CASE a >= b
    BY <2>1
  <2>2. CASE b >= a
    BY <2>2
  <2> QED
    BY <2>1, <2>2
<1>2. Max({a, b}) \in {a, b} /\ \A y \in {a, b} : Max({a, b}) >= y
  BY <1>1 DEF Max
<1> QED
  BY <1>2

LEMMA MinType ==
  ASSUME NEW a \in Int, NEW b \in Int
  PROVE  Min({a, b}) \in {a, b}
<1>1. \E x \in {a, b} : \A y \in {a, b} : x <= y
  <2>1. CASE a <= b
    BY <2>1
  <2>2. CASE b <= a
    BY <2>2
  <2> QED
    BY <2>1, <2>2
<1>2. Min({a, b}) \in {a, b}
  BY <1>1 DEF Min
<1> QED
  BY <1>2

LEMMA Sizes ==
  /\ Entries \in Nat /\ DefaultSize \in Nat /\ MaxSize \in Nat /\ HandleSize \in Nat
  /\ MaxErrors \in Nat /\ DefaultSize > 0 /\ MaxSize > 0
  BY ApiAssumption

LEMMA GrownType ==
  ASSUME NEW cb \in Nat, NEW t \in Threads, TypeOK
  PROVE  Grown(t, cb) \in Nat \ {0}
<1>1. s_uInitialBufSize[t] \in Nat \ {0}
  BY DEF TypeOK
<1>2. CASE cb = 0
  BY <1>1, <1>2 DEF Grown
<1>3. CASE cb # 0
  <2> DEFINE m == Min({2 * cb, MaxSize})
  <2>1. 2 * cb \in Int /\ MaxSize \in Int /\ cb \in Int
    BY Sizes
  <2>2. m \in {2 * cb, MaxSize}
    BY <2>1, MinType
  <2>3. m \in Nat
    BY <2>2, Sizes
  <2> HIDE DEF m
  <2>4. Max({cb, m}) \in {cb, m} /\ Max({cb, m}) >= cb
    BY <2>1, <2>3, MaxType
  <2>5. Max({cb, m}) \in Nat \ {0}
    BY <1>3, <2>3, <2>4
  <2> QED
    BY <1>3, <2>5 DEF Grown, m
<1> QED
  BY <1>2, <1>3

LEMMA UnusedType ==
  ASSUME NEW t \in Threads
  PROVE  Unused(t) \in Handle
<1>1. 0 \in 0..Entries /\ 0 \in 0..MaxErrors /\ 0 \in Nat
  BY Sizes
<1>2. FALSE \in BOOLEAN /\ "SUCCESS" \in Statuses /\ NoThread \in Threads \cup {NoThread}
  BY DEF Statuses
<1> QED
  BY <1>1, <1>2, Zenon DEF Unused, Handle

(* A handle after each of the updates the steps make.                        *)
LEMMA HandleUpdates ==
  ASSUME NEW r \in Handle, NEW t \in Threads
  PROVE  /\ [r EXCEPT !.open = TRUE] \in Handle
         /\ [r EXCEPT !.returned = TRUE] \in Handle
         /\ [r EXCEPT !.owner = t] \in Handle
         /\ [r EXCEPT !.owner = NoThread] \in Handle
         /\ [r EXCEPT !.ntStatus = "NO_MORE_FILES", !.bNoMoreFiles = TRUE] \in Handle
         /\ r.errors < MaxErrors => [r EXCEPT !.ntStatus = "ERROR", !.errors = @ + 1] \in Handle
         /\ \A upTo \in 0..Entries : [r EXCEPT !.fetched = upTo, !.ntStatus = "SUCCESS"] \in Handle
         /\ r.pos < r.fetched => [r EXCEPT !.pos = @ + 1] \in Handle
         /\ \A new \in Nat :
              [r EXCEPT !.cbBuffer = new, !.scan = @ + 1, !.ntStatus = "ALLOTTED_SPACE_EXCEEDED"] \in Handle
<1>1. TRUE \in BOOLEAN
  OBVIOUS
<1>2. [r EXCEPT !.open = TRUE] \in Handle
  BY <1>1, Zenon DEF Handle
<1>3. [r EXCEPT !.returned = TRUE] \in Handle
  BY <1>1, Zenon DEF Handle
<1>4. [r EXCEPT !.owner = t] \in Handle
  BY SMT DEF Handle
<1>5. [r EXCEPT !.owner = NoThread] \in Handle
  BY SMT DEF Handle
<1>6. [r EXCEPT !.ntStatus = "NO_MORE_FILES", !.bNoMoreFiles = TRUE] \in Handle
  <2>1. "NO_MORE_FILES" \in Statuses
    BY DEF Statuses
  <2> QED
    BY <1>1, <2>1, Zenon DEF Handle
<1>7. ASSUME r.errors < MaxErrors
      PROVE  [r EXCEPT !.ntStatus = "ERROR", !.errors = @ + 1] \in Handle
  <2>1. r.errors + 1 \in 0..MaxErrors
    BY <1>7, Sizes DEF Handle
  <2>2. "ERROR" \in Statuses
    BY DEF Statuses
  <2> QED
    BY <2>1, <2>2, Zenon DEF Handle
<1>8. ASSUME NEW upTo \in 0..Entries
      PROVE  [r EXCEPT !.fetched = upTo, !.ntStatus = "SUCCESS"] \in Handle
  <2>1. "SUCCESS" \in Statuses
    BY DEF Statuses
  <2> QED
    BY <2>1, Zenon DEF Handle
<1>9. r.pos < r.fetched => [r EXCEPT !.pos = @ + 1] \in Handle
  BY Sizes, SMT DEF Handle
<1>10. ASSUME NEW new \in Nat
       PROVE  [r EXCEPT !.cbBuffer = new, !.scan = @ + 1, !.ntStatus = "ALLOTTED_SPACE_EXCEEDED"] \in Handle
  <2>1. r.scan + 1 \in Nat
    BY DEF Handle
  <2>2. "ALLOTTED_SPACE_EXCEEDED" \in Statuses
    BY DEF Statuses
  <2> QED
    BY <2>1, <2>2, Zenon DEF Handle
<1> QED
  BY <1>2, <1>3, <1>4, <1>5, <1>6, <1>7, <1>8, <1>9, <1>10

LEMMA Chosen ==
  /\ Someone \in Threads /\ Something \in Handles
  /\ Nothing \in [entry : 0..Entries, scan : Nat]
<1>1. Someone \in Threads /\ Something \in Handles
  BY ApiAssumption DEF Someone, Something
<1> QED
  BY <1>1, Sizes DEF Nothing
LEMMA InitTypeOK == Init => TypeOK
<1> SUFFICES ASSUME Init PROVE TypeOK
  OBVIOUS
<1>1. dynamic \in BOOLEAN /\ exported \in Ntdlls /\ crossed \in BOOLEAN
  BY Zenon DEF Init
<1>2. pc \in [Threads -> {"out", "enter", "scan", "settle", "copy", "leave", "crashed"}]
  BY DEF Init
<1>3. hNtDll \in [Threads -> BOOLEAN]
  BY Zenon DEF Init
<1>4. pfn \in [Threads -> SUBSET Functions]
  BY Zenon DEF Init
<1>5. s_uInitialBufSize \in [Threads -> Nat \ {0}] /\ s_llMemoryAllocated \in [Threads -> Int]
  BY Sizes DEF Init
<1>6. /\ arg \in [Threads -> Handles] /\ taken \in [Threads -> [entry : 0..Entries, scan : Nat]]
  BY Chosen DEF Init
<1>7. handle \in [Handles -> Handle]
  BY Chosen, UnusedType DEF Init
<1>8. delivered \in [Handles -> Seq(1..Entries)]
  BY DEF Init
<1> QED
  BY <1>1, <1>2, <1>3, <1>4, <1>5, <1>6, <1>7, <1>8 DEF TypeOK

(* The next values of the variables that only some steps change.             *)
SystemTypes == dynamic \in BOOLEAN /\ exported \in Ntdlls /\ crossed \in BOOLEAN
PointerTypes == hNtDll \in [Threads -> BOOLEAN] /\ pfn \in [Threads -> SUBSET Functions]
CounterTypes == s_uInitialBufSize \in [Threads -> Nat \ {0}] /\ s_llMemoryAllocated \in [Threads -> Int]
CallTypes ==
  /\ pc \in [Threads -> {"out", "enter", "scan", "settle", "copy", "leave", "crashed"}]
  /\ arg \in [Threads -> Handles]
  /\ taken \in [Threads -> [entry : 0..Entries, scan : Nat]]
HandleTypes == handle \in [Handles -> Handle] /\ delivered \in [Handles -> Seq(1..Entries)]

LEMMA TypeParts ==
  TypeOK <=> SystemTypes /\ PointerTypes /\ CounterTypes /\ CallTypes /\ HandleTypes
  BY DEF TypeOK, SystemTypes, PointerTypes, CounterTypes, CallTypes, HandleTypes

LEMMA CallTypesKept ==
  ASSUME TypeOK, NEW t \in Threads, NEW where, Goto(t, where),
         where \in {"out", "enter", "scan", "settle", "copy", "leave", "crashed"},
         NEW a \in Handles, arg' = arg \/ arg' = [arg EXCEPT ![t] = a],
         NEW x \in [entry : 0..Entries, scan : Nat], taken' = taken \/ taken' = [taken EXCEPT ![t] = x]
  PROVE  CallTypes'
<1>1. pc' \in [Threads -> {"out", "enter", "scan", "settle", "copy", "leave", "crashed"}]
  BY DEF TypeOK, Goto
<1>2. arg' \in [Threads -> Handles]
  BY DEF TypeOK
<1>3. taken' \in [Threads -> [entry : 0..Entries, scan : Nat]]
  BY Zenon DEF TypeOK
<1> QED
  BY <1>1, <1>2, <1>3 DEF CallTypes
-----------------------------------------------------------------------------
(* Kinds of steps                                                            *)

(* A step of t that touches no handle but h, and no other thread's call.     *)
Elsewhere(t, h) ==
  /\ \A u \in Threads : u # t => pc'[u] = pc[u] /\ arg'[u] = arg[u] /\ taken'[u] = taken[u]
  /\ \A g \in Handles : g # h => handle'[g] = handle[g] /\ delivered'[g] = delivered[g]

(* No other thread is at work on h.                                          *)
Alone(t, h) == \A u \in Threads : u # t /\ Inside(u) => arg[u] # h

(* Who waits for h still may.                                                *)
Kept(t, h) ==
  (\E u \in Threads : u # t /\ pc[u] = "enter" /\ arg[u] = h) =>
    handle'[h].open /\ handle'[h].returned

(* t has h afterwards only as a call may have a handle.                      *)
Entitled(t, h) ==
  /\ Inside(t)' => /\ arg'[t] = h /\ handle'[h].open
                   /\ handle'[h].returned => handle'[h].owner = t
  /\ pc'[t] # "enter"
  /\ pc'[t] = "copy" => CopyInv(t)'

(* The entries copied are in order and not past the position.                *)
InOrder(h) ==
  /\ ~handle'[h].open => delivered'[h] = <<>>
  /\ \A j \in 1..Len(delivered'[h]) : delivered'[h][j] <= handle'[h].pos
  /\ \A j, k \in 1..Len(delivered'[h]) : j < k => delivered'[h][j] < delivered'[h][k]

LEMMA OneHandle ==
  ASSUME IndInv, NEW t, t \in Threads, NEW h, h \in Handles,
         Elsewhere(t, h), Alone(t, h), Kept(t, h), Entitled(t, h), InOrder(h)
  PROVE  LockInv' /\ DataInv'
<1>1. ASSUME NEW u \in Threads, u # t, Inside(u)'
      PROVE  /\ Inside(u) /\ arg[u] \in Handles /\ arg[u] # h /\ arg'[u] = arg[u]
             /\ taken'[u] = taken[u] /\ pc'[u] = pc[u]
             /\ handle'[arg[u]] = handle[arg[u]] /\ delivered'[arg[u]] = delivered[arg[u]]
  <2>1. pc'[u] = pc[u] /\ arg'[u] = arg[u] /\ taken'[u] = taken[u]
    BY <1>1 DEF Elsewhere
  <2>2. Inside(u) /\ arg[u] \in Handles
    BY <1>1, <2>1 DEF Inside, IndInv, TypeOK
  <2>3. arg[u] # h
    BY <1>1, <2>2 DEF Alone
  <2> QED
    BY <2>1, <2>2, <2>3 DEF Elsewhere
<1>2. ASSUME NEW u \in Threads, Inside(u)'
      PROVE  handle'[arg'[u]].open /\ (handle'[arg'[u]].returned => handle'[arg'[u]].owner = u)
  <2>1. CASE u = t
    BY <1>2, <2>1 DEF Entitled
  <2>2. CASE u # t
    BY <1>1, <1>2, <2>2 DEF IndInv, LockInv
  <2> QED
    BY <2>1, <2>2
<1>3. ASSUME NEW u \in Threads, pc'[u] = "enter"
      PROVE  handle'[arg'[u]].open /\ handle'[arg'[u]].returned
  <2>1. u # t /\ pc[u] = "enter" /\ arg'[u] = arg[u] /\ arg[u] \in Handles
    BY <1>3 DEF Entitled, Elsewhere, IndInv, TypeOK
  <2>2. CASE arg[u] = h
    BY <2>1, <2>2 DEF Kept
  <2>3. CASE arg[u] # h
    <3>1. handle'[arg[u]] = handle[arg[u]]
      BY <2>1, <2>3 DEF Elsewhere
    <3> QED
      BY <2>1, <3>1 DEF IndInv, LockInv
  <2> QED
    BY <2>2, <2>3
<1>4. ASSUME NEW u \in Threads, NEW v \in Threads, Inside(u)', Inside(v)', arg'[u] = arg'[v]
      PROVE  u = v
  <2>1. CASE u # t /\ v # t
    BY <1>1, <1>4, <2>1 DEF IndInv, LockInv
  <2>2. CASE u = t /\ v # t
    BY <1>1, <1>4, <2>2 DEF Entitled
  <2>3. CASE u # t /\ v = t
    BY <1>1, <1>4, <2>3 DEF Entitled
  <2> QED
    BY <2>1, <2>2, <2>3
<1>5. LockInv'
  BY <1>2, <1>3, <1>4, Zenon DEF LockInv
<1>6. ASSUME NEW u \in Threads, pc'[u] = "copy" PROVE CopyInv(u)'
  <2>1. CASE u = t
    BY <1>6, <2>1 DEF Entitled
  <2>2. CASE u # t
    <3>1. Inside(u)'
      BY <1>6 DEF Inside
    <3>2. pc[u] = "copy"
      BY <1>1, <1>6, <2>2, <3>1
    <3>3. CopyInv(u)
      BY <3>2 DEF IndInv, DataInv
    <3> QED
      BY <1>1, <2>2, <3>1, <3>3 DEF CopyInv
  <2> QED
    BY <2>1, <2>2
<1>7. ASSUME NEW g \in Handles PROVE InOrder(g)
  <2>1. CASE g = h
    BY <2>1
  <2>2. CASE g # h
    <3>1. handle'[g] = handle[g] /\ delivered'[g] = delivered[g]
      BY <2>2 DEF Elsewhere
    <3> QED
      BY <3>1 DEF InOrder, IndInv, DataInv, SharedInOrderOnce
  <2> QED
    BY <2>1, <2>2
<1>8. DataInv'
  BY <1>6, <1>7 DEF DataInv, InOrder, SharedInOrderOnce
<1> QED
  BY <1>5, <1>8

(* A step of t that touches no handle, and does not begin to work on one.    *)
LEMMA NoHandle ==
  ASSUME IndInv, NEW t, t \in Threads, UNCHANGED <<handle, delivered>>,
         \A u \in Threads : u # t => pc'[u] = pc[u] /\ arg'[u] = arg[u] /\ taken'[u] = taken[u],
         Inside(t)' => Inside(t) /\ arg'[t] = arg[t] /\ pc'[t] # "copy",
         pc'[t] = "enter" => handle[arg'[t]].open /\ handle[arg'[t]].returned
  PROVE  LockInv' /\ DataInv'
<1>1. \A u \in Threads : Inside(u)' => Inside(u) /\ arg'[u] = arg[u]
  BY DEF Inside
<1>2. LockInv'
  <2>1. \A u \in Threads : Inside(u)' =>
          /\ handle'[arg'[u]].open
          /\ handle'[arg'[u]].returned => handle'[arg'[u]].owner = u
    BY <1>1 DEF IndInv, LockInv
  <2>2. \A u \in Threads : pc'[u] = "enter" => handle'[arg'[u]].open /\ handle'[arg'[u]].returned
    BY DEF IndInv, LockInv
  <2>3. \A u, v \in Threads : Inside(u)' /\ Inside(v)' /\ arg'[u] = arg'[v] => u = v
    BY <1>1 DEF IndInv, LockInv
  <2> QED
    BY <2>1, <2>2, <2>3, Zenon DEF LockInv
<1>3. ASSUME NEW u \in Threads, pc'[u] = "copy" PROVE CopyInv(u)'
  <2>1. u # t
    BY <1>3 DEF Inside
  <2>2. CopyInv(u)
    BY <1>3, <2>1 DEF IndInv, DataInv
  <2> QED
    BY <2>1, <2>2 DEF CopyInv
<1>4. DataInv'
  BY <1>3 DEF IndInv, DataInv, SharedInOrderOnce
<1> QED
  BY <1>2, <1>4
(* What a step of t does to the calls of the threads.                        *)
CallStep(t, where, a, x) ==
  /\ pc'[t] = where /\ arg'[t] = a /\ taken'[t] = x
  /\ \A u \in Threads : u # t => pc'[u] = pc[u] /\ arg'[u] = arg[u] /\ taken'[u] = taken[u]

LEMMA CallSteps ==
  ASSUME TypeOK, NEW t, t \in Threads, NEW where, Goto(t, where)
  PROVE  /\ UNCHANGED <<arg, taken>> => CallStep(t, where, arg[t], taken[t])
         /\ Return(t) => CallStep(t, "out", Something, Nothing)
         /\ \A x : UNCHANGED arg /\ taken' = [taken EXCEPT ![t] = x] => CallStep(t, where, arg[t], x)
         /\ \A a : UNCHANGED taken /\ arg' = [arg EXCEPT ![t] = a] => CallStep(t, where, a, taken[t])
<1>1. pc'[t] = where /\ \A u \in Threads : u # t => pc'[u] = pc[u]
  BY DEF TypeOK, Goto
<1>2. UNCHANGED <<arg, taken>> => CallStep(t, where, arg[t], taken[t])
  BY <1>1 DEF CallStep
<1>3. ASSUME Return(t) PROVE CallStep(t, "out", Something, Nothing)
  <2>1. pc'[t] = "out"
    BY <1>3 DEF Return, Goto, TypeOK
  <2>2. arg'[t] = Something /\ \A u \in Threads : u # t => arg'[u] = arg[u]
    BY <1>3 DEF Return, TypeOK
  <2>3. taken'[t] = Nothing /\ \A u \in Threads : u # t => taken'[u] = taken[u]
    BY <1>3 DEF Return, TypeOK
  <2> QED
    BY <1>1, <2>1, <2>2, <2>3 DEF CallStep
<1>4. ASSUME NEW x, UNCHANGED arg, taken' = [taken EXCEPT ![t] = x]
      PROVE  CallStep(t, where, arg[t], x)
  <2>1. taken'[t] = x /\ \A u \in Threads : u # t => taken'[u] = taken[u]
    BY <1>4 DEF TypeOK
  <2> QED
    BY <1>1, <1>4, <2>1 DEF CallStep
<1>5. ASSUME NEW a, UNCHANGED taken, arg' = [arg EXCEPT ![t] = a]
      PROVE  CallStep(t, where, a, taken[t])
  <2>1. arg'[t] = a /\ \A u \in Threads : u # t => arg'[u] = arg[u]
    BY <1>5 DEF TypeOK
  <2> QED
    BY <1>1, <1>5, <2>1 DEF CallStep
<1> QED
  BY <1>2, <1>3, <1>4, <1>5

(* What a step does to the handles.                                          *)
HandleStep(h, r, d) ==
  /\ handle' = [handle EXCEPT ![h] = r]
  /\ delivered' = [delivered EXCEPT ![h] = d]

LEMMA HandleSteps ==
  ASSUME TypeOK, NEW h, h \in Handles, NEW r, r \in Handle, NEW d, d \in Seq(1..Entries),
         HandleStep(h, r, d)
  PROVE  /\ HandleTypes' /\ handle'[h] = r /\ delivered'[h] = d
         /\ \A g \in Handles : g # h => handle'[g] = handle[g] /\ delivered'[g] = delivered[g]
<1>1. handle \in [Handles -> Handle] /\ delivered \in [Handles -> Seq(1..Entries)]
  BY DEF TypeOK
<1>2. handle' \in [Handles -> Handle] /\ handle'[h] = r
      /\ \A g \in Handles : g # h => handle'[g] = handle[g]
  BY <1>1 DEF HandleStep
<1>3. delivered' \in [Handles -> Seq(1..Entries)] /\ delivered'[h] = d
      /\ \A g \in Handles : g # h => delivered'[g] = delivered[g]
  BY <1>1 DEF HandleStep
<1> QED
  BY <1>2, <1>3 DEF HandleTypes

LEMMA SameDelivered ==
  ASSUME TypeOK, NEW h, h \in Handles, NEW r, handle' = [handle EXCEPT ![h] = r], UNCHANGED delivered
  PROVE  HandleStep(h, r, delivered[h])
<1>1. delivered = [delivered EXCEPT ![h] = delivered[h]]
  BY DEF TypeOK
<1> QED
  BY <1>1 DEF HandleStep

(* A call at work on its handle is alone with it, and who waits for the      *)
(* handle goes on waiting unless it is closed.                               *)
LEMMA AtWork ==
  ASSUME IndInv, NEW t, t \in Threads, Inside(t)
  PROVE  /\ arg[t] \in Handles /\ handle[arg[t]] \in Handle /\ delivered[arg[t]] \in Seq(1..Entries)
         /\ handle[arg[t]].open
         /\ handle[arg[t]].returned => handle[arg[t]].owner = t
         /\ Alone(t, arg[t])
<1>1. arg[t] \in Handles /\ handle[arg[t]] \in Handle /\ delivered[arg[t]] \in Seq(1..Entries)
  BY DEF IndInv, TypeOK
<1> QED
  BY <1>1 DEF IndInv, LockInv, Alone

(* A step of a call at work that changes its handle.                         *)
LEMMA WorkStep ==
  ASSUME IndInv, NEW t, t \in Threads, Inside(t),
         NEW where, NEW x, CallStep(t, where, arg[t], x),
         NEW r, r \in Handle, NEW d, d \in Seq(1..Entries), HandleStep(arg[t], r, d),
         where \in {"scan", "settle", "copy", "leave"},
         r.open, r.returned = handle[arg[t]].returned, r.owner = handle[arg[t]].owner,
         \A j \in 1..Len(d) : d[j] <= r.pos,
         \A j, k \in 1..Len(d) : j < k => d[j] < d[k],
         where = "copy" =>
           /\ x.entry = r.pos /\ x.entry >= 1 /\ x.scan = r.scan
           /\ \A j \in 1..Len(d) : d[j] < r.pos
  PROVE  HandleTypes' /\ LockInv' /\ DataInv'
<1> DEFINE h == arg[t]
<1>1. /\ h \in Handles /\ handle[h].open /\ Alone(t, h)
      /\ handle[h].returned => handle[h].owner = t
  BY AtWork
<1>2. /\ HandleTypes' /\ handle'[h] = r /\ delivered'[h] = d
      /\ \A g \in Handles : g # h => handle'[g] = handle[g] /\ delivered'[g] = delivered[g]
  BY <1>1, HandleSteps DEF IndInv
<1>3. pc'[t] = where /\ arg'[t] = h /\ taken'[t] = x
  BY DEF CallStep
<1> HIDE DEF h
<1>4. Elsewhere(t, h)
  BY <1>2 DEF Elsewhere, CallStep
<1>5. Kept(t, h)
  <2>1. ASSUME NEW u \in Threads, pc[u] = "enter", arg[u] = h
        PROVE  handle'[h].open /\ handle'[h].returned
    <3>1. handle[h].returned
      BY <2>1 DEF IndInv, LockInv
    <3>2. r.returned
      BY <3>1, Zenon DEF h
    <3> QED
      BY <1>2, <3>2
  <2> QED
    BY <2>1 DEF Kept
<1>6. Entitled(t, h)
  <2>1. CopyInv(t)' <=> /\ x.entry = r.pos /\ x.entry >= 1 /\ x.scan = r.scan
                        /\ \A j \in 1..Len(d) : d[j] < r.pos
    BY <1>2, <1>3 DEF CopyInv
  <2> QED
    BY <1>1, <1>2, <1>3, <2>1 DEF Entitled, h
<1>7. InOrder(h)
  BY <1>2 DEF InOrder
<1> QED
  BY <1>1, <1>2, <1>4, <1>5, <1>6, <1>7, OneHandle
-----------------------------------------------------------------------------
(* The steps                                                                 *)

LEMMA Assemble ==
  ASSUME SystemTypes', PointerTypes', CounterTypes', CallTypes', HandleTypes', LockInv', DataInv'
  PROVE  IndInv'
<1>1. TypeOK'
  BY DEF TypeOK, SystemTypes, PointerTypes, CounterTypes, CallTypes, HandleTypes
<1> QED
  BY <1>1 DEF IndInv

LEMMA SystemKept ==
  ASSUME TypeOK, UNCHANGED system, crossed' = crossed \/ crossed' \in BOOLEAN
  PROVE  SystemTypes'
  BY Zenon DEF TypeOK, SystemTypes, system

LEMMA ThreadKept ==
  ASSUME TypeOK, UNCHANGED perThread
  PROVE  PointerTypes' /\ CounterTypes'
  BY DEF TypeOK, PointerTypes, CounterTypes, perThread

LEMMA HandlesKept ==
  ASSUME TypeOK, UNCHANGED <<handle, delivered>>
  PROVE  HandleTypes'
  BY DEF TypeOK, HandleTypes

LEMMA InitKeeps == ASSUME IndInv, NEW t \in Threads, NativeFindInit(t) PROVE IndInv'
<1>1. UNCHANGED <<system, pc, arg, taken, handle, delivered, crossed, s_llMemoryAllocated>>
  BY DEF NativeFindInit
<1>2. SystemTypes' /\ CallTypes' /\ HandleTypes'
  <2>1. SystemTypes'
    BY <1>1, SystemKept DEF IndInv
  <2>2. CallTypes' /\ HandleTypes'
    BY <1>1 DEF IndInv, TypeOK, CallTypes, HandleTypes
  <2> QED
    BY <2>1, <2>2
<1>3. PointerTypes'
  <2>1. exported \cup {"WithStatus"} \in SUBSET Functions
    BY ApiAssumption DEF IndInv, TypeOK, Functions
  <2>2. Sufficient(exported \cup {"WithStatus"}) \in BOOLEAN
    BY Zenon DEF Sufficient
  <2>3. \/ UNCHANGED <<pfn, hNtDll>>
        \/ /\ pfn' = [pfn EXCEPT ![t] = exported \cup {"WithStatus"}]
           /\ hNtDll' = [hNtDll EXCEPT ![t] = Sufficient(exported \cup {"WithStatus"})]
    BY DEF NativeFindInit
  <2> QED
    BY <2>1, <2>2, <2>3, Zenon DEF IndInv, TypeOK, PointerTypes
<1>4. CounterTypes'
  <2>1. PICK size \in InitSizes :
          s_uInitialBufSize' = [s_uInitialBufSize EXCEPT ![t] = IF size = 0 THEN DefaultSize ELSE size]
    BY DEF NativeFindInit
  <2>2. (IF size = 0 THEN DefaultSize ELSE size) \in Nat \ {0}
    BY ApiAssumption
  <2> QED
    BY <1>1, <2>1, <2>2 DEF IndInv, TypeOK, CounterTypes
<1>5. LockInv' /\ DataInv'
  <2>1. pc'[t] = "out"
    BY <1>1 DEF NativeFindInit
  <2>2. ~Inside(t)' /\ pc'[t] # "enter"
    BY <2>1 DEF Inside
  <2> QED
    BY <1>1, <2>2, NoHandle
<1> QED
  BY <1>2, <1>3, <1>4, <1>5, Assemble

LEMMA CrashKeeps ==
  ASSUME IndInv, NEW t \in Threads, NEW a \in Handles, Crash(t),
         UNCHANGED arg \/ arg' = [arg EXCEPT ![t] = a]
  PROVE  IndInv'
<1>1. Goto(t, "crashed") /\ UNCHANGED <<system, perThread, taken, handle, delivered, crossed>>
  BY DEF Crash
<1>2. TypeOK
  BY DEF IndInv
<1>3. SystemTypes' /\ PointerTypes' /\ CounterTypes' /\ HandleTypes'
  BY <1>1, <1>2, SystemKept, ThreadKept, HandlesKept
<1>4. Nothing \in [entry : 0..Entries, scan : Nat]
  BY Chosen
<1>5. CallTypes'
  BY <1>1, <1>2, <1>4, CallTypesKept
<1>6. CallStep(t, "crashed", arg[t], taken[t]) \/ CallStep(t, "crashed", a, taken[t])
  BY <1>1, <1>2, CallSteps
<1>7. LockInv' /\ DataInv'
  BY <1>1, <1>6, NoHandle DEF CallStep, Inside
<1> QED
  BY <1>3, <1>5, <1>7, Assemble

LEMMA FirstFileKeeps ==
  ASSUME IndInv, NEW t \in Threads, NEW h \in Handles, NativeFindFirstFile(t, h)
  PROVE  IndInv'
<1> DEFINE r == [Unused(t) EXCEPT !.open = TRUE]
<1>1. /\ pc[t] = "out" /\ ~handle[h].open /\ arg' = [arg EXCEPT ![t] = h] /\ Goto(t, "scan")
      /\ handle' = [handle EXCEPT ![h] = r]
      /\ s_llMemoryAllocated' = [s_llMemoryAllocated EXCEPT ![t] = @ + HandleSize]
      /\ UNCHANGED <<system, hNtDll, pfn, s_uInitialBufSize, taken, delivered, crossed>>
  BY DEF NativeFindFirstFile, FindFirst
<1>2. TypeOK /\ r \in Handle
  BY UnusedType, HandleUpdates DEF IndInv
<1>3. r.open /\ ~r.returned /\ r.pos = 0
  BY DEF Unused
<1> HIDE DEF r
<1>4. delivered[h] = <<>>
  BY <1>1 DEF IndInv, DataInv
<1>5. delivered[h] \in Seq(1..Entries)
  BY <1>2 DEF TypeOK
<1>6. HandleStep(h, r, delivered[h])
  BY <1>1, <1>2, SameDelivered
<1>7. /\ HandleTypes' /\ handle'[h] = r /\ delivered'[h] = <<>>
      /\ \A g \in Handles : g # h => handle'[g] = handle[g] /\ delivered'[g] = delivered[g]
  BY <1>2, <1>4, <1>5, <1>6, HandleSteps
<1>8. CallStep(t, "scan", h, taken[t])
  BY <1>1, <1>2, CallSteps
<1>9. SystemTypes' /\ PointerTypes'
  BY <1>1, <1>2, SystemKept DEF TypeOK, PointerTypes
<1>10. CounterTypes'
  BY <1>1, <1>2, Sizes DEF TypeOK, CounterTypes
<1>11. Nothing \in [entry : 0..Entries, scan : Nat]
  BY Chosen
<1>12. CallTypes'
  BY <1>1, <1>2, <1>11, CallTypesKept
<1>13. Elsewhere(t, h)
  BY <1>7, <1>8 DEF Elsewhere, CallStep
<1>14. Alone(t, h) /\ Kept(t, h)
  BY <1>1 DEF Alone, Kept, IndInv, LockInv
<1>15. Entitled(t, h)
  BY <1>3, <1>7, <1>8 DEF Entitled, CallStep
<1>16. InOrder(h)
  BY <1>7 DEF InOrder
<1>17. LockInv' /\ DataInv'
  BY <1>13, <1>14, <1>15, <1>16, OneHandle
<1> QED
  BY <1>7, <1>9, <1>10, <1>12, <1>17, Assemble

LEMMA NextFileKeeps ==
  ASSUME IndInv, NEW t \in Threads, NEW h \in Handles, NativeFindNextFile(t, h)
  PROVE  IndInv'
<1>1. /\ handle[h].open /\ handle[h].returned
      /\ Goto(t, "enter") /\ arg' = [arg EXCEPT ![t] = h]
      /\ UNCHANGED <<system, perThread, taken, handle, delivered>>
  BY DEF NativeFindNextFile
<1>2. TypeOK
  BY DEF IndInv
<1>3. crossed' \in BOOLEAN
  BY Zenon DEF NativeFindNextFile
<1>4. SystemTypes' /\ PointerTypes' /\ CounterTypes' /\ HandleTypes'
  BY <1>1, <1>2, <1>3, SystemKept, ThreadKept, HandlesKept
<1>5. Nothing \in [entry : 0..Entries, scan : Nat]
  BY Chosen
<1>6. CallTypes'
  BY <1>1, <1>2, <1>5, CallTypesKept
<1>7. CallStep(t, "enter", h, taken[t])
  BY <1>1, <1>2, CallSteps
<1>8. LockInv' /\ DataInv'
  BY <1>1, <1>7, NoHandle DEF CallStep, Inside
<1> QED
  BY <1>4, <1>6, <1>8, Assemble
(* A handle is freed that no other call is about; t is no longer in a call.  *)
LEMMA FreeKeeps ==
  ASSUME IndInv, NEW t \in Threads, NEW h \in Handles, Free(t, h),
         \A u \in Threads : u # t /\ pc[u] \in {"enter", "scan", "settle", "copy", "leave"} => arg[u] # h,
         pc'[t] = "out",
         \A u \in Threads : u # t => pc'[u] = pc[u] /\ arg'[u] = arg[u] /\ taken'[u] = taken[u],
         UNCHANGED s_uInitialBufSize
  PROVE  HandleTypes' /\ CounterTypes' /\ LockInv' /\ DataInv'
<1> DEFINE r == Unused(Someone)
<1>1. TypeOK /\ r \in Handle /\ <<>> \in Seq(1..Entries)
  BY UnusedType, Chosen DEF IndInv
<1>2. ~r.open
  BY DEF Unused
<1>3. HandleStep(h, r, <<>>)
  BY DEF Free, HandleStep
<1> HIDE DEF r
<1>4. /\ HandleTypes' /\ handle'[h] = r /\ delivered'[h] = <<>>
      /\ \A g \in Handles : g # h => handle'[g] = handle[g] /\ delivered'[g] = delivered[g]
  BY <1>1, <1>3, HandleSteps
<1>5. CounterTypes'
  <2>1. handle[h].cbBuffer \in Nat /\ s_llMemoryAllocated[t] \in Int
    BY <1>1 DEF TypeOK, Handle
  <2>2. s_llMemoryAllocated[t] - HandleSize - handle[h].cbBuffer \in Int
    BY <2>1, Sizes
  <2> QED
    BY <1>1, <2>2 DEF Free, TypeOK, CounterTypes
<1>6. Elsewhere(t, h)
  BY <1>4 DEF Elsewhere
<1>7. Alone(t, h) /\ Kept(t, h)
  BY DEF Alone, Kept, Inside
<1>8. Entitled(t, h)
  BY DEF Entitled, Inside
<1>9. InOrder(h)
  BY <1>4 DEF InOrder
<1> QED
  BY <1>4, <1>5, <1>6, <1>7, <1>8, <1>9, OneHandle

LEMMA CloseKeeps ==
  ASSUME IndInv, NEW t \in Threads, NEW h \in Handles, NativeFindClose(t, h)
  PROVE  IndInv'
<1>1. /\ pc[t] = "out" /\ ~InUse(h) /\ Free(t, h)
      /\ UNCHANGED <<system, pc, hNtDll, pfn, s_uInitialBufSize, arg, taken>>
  BY DEF NativeFindClose
<1>2. \A u \in Threads : pc[u] \in {"enter", "scan", "settle", "copy", "leave"} => arg[u] # h
  BY <1>1 DEF InUse
<1>3. HandleTypes' /\ CounterTypes' /\ LockInv' /\ DataInv'
  BY <1>1, <1>2, FreeKeeps
<1>4. crossed' \in BOOLEAN
  BY Zenon DEF NativeFindClose
<1>5. SystemTypes' /\ PointerTypes' /\ CallTypes'
  BY <1>1, <1>4, SystemKept DEF IndInv, TypeOK, PointerTypes, CallTypes
<1> QED
  BY <1>3, <1>5, Assemble

LEMMA FirstFailsKeeps ==
  ASSUME IndInv, NEW t \in Threads, FirstFails(t) PROVE IndInv'
<1>1. /\ pc[t] = "leave" /\ ~handle[arg[t]].returned /\ Free(t, arg[t]) /\ Return(t)
      /\ UNCHANGED <<system, hNtDll, pfn, s_uInitialBufSize, crossed>>
  BY DEF FirstFails
<1>2. Inside(t) /\ TypeOK
  BY <1>1 DEF Inside, IndInv
<1>3. arg[t] \in Handles /\ Alone(t, arg[t])
  BY <1>2, AtWork
<1>4. \A u \in Threads : u # t /\ pc[u] \in {"enter", "scan", "settle", "copy", "leave"} => arg[u] # arg[t]
  BY <1>1, <1>3 DEF Alone, Inside, IndInv, LockInv
<1>5. Goto(t, "out")
  BY <1>1 DEF Return
<1>6. CallStep(t, "out", Something, Nothing)
  BY <1>1, <1>2, <1>5, CallSteps
<1>7. HandleTypes' /\ CounterTypes' /\ LockInv' /\ DataInv'
  <2>1. /\ pc'[t] = "out"
        /\ \A u \in Threads : u # t => pc'[u] = pc[u] /\ arg'[u] = arg[u] /\ taken'[u] = taken[u]
    BY <1>6 DEF CallStep
  <2> QED
    BY <1>1, <1>3, <1>4, <2>1, FreeKeeps
<1>8. CallTypes'
  BY <1>1, <1>2, <1>5, Chosen, CallTypesKept DEF Return
<1>9. SystemTypes' /\ PointerTypes'
  BY <1>1, <1>2, SystemKept DEF TypeOK, PointerTypes
<1> QED
  BY <1>7, <1>8, <1>9, Assemble

LEMMA EnterKeeps == ASSUME IndInv, NEW t \in Threads, Enter(t) PROVE IndInv'
<1> DEFINE h == arg[t]
           r == [handle[h] EXCEPT !.owner = t]
<1>1. /\ pc[t] = "enter" /\ handle[h].owner \in {NoThread, t} /\ Goto(t, "scan")
      /\ handle' = [handle EXCEPT ![h] = r]
      /\ UNCHANGED <<system, perThread, arg, taken, delivered, crossed>>
  BY DEF Enter
<1>2. TypeOK /\ h \in Handles /\ handle[h] \in Handle /\ delivered[h] \in Seq(1..Entries)
  BY DEF IndInv, TypeOK
<1>3. r \in Handle
  BY <1>2, HandleUpdates
<1>4. handle[h].open /\ handle[h].returned
  BY <1>1 DEF IndInv, LockInv
<1>5. r.owner = t /\ r.pos = handle[h].pos /\ r.open = handle[h].open /\ r.returned = handle[h].returned
  BY <1>2 DEF Handle
<1>6. HandleStep(h, r, delivered[h])
  BY <1>1, <1>2, <1>3, SameDelivered
<1> HIDE DEF r, h
<1>7. /\ HandleTypes' /\ handle'[h] = r /\ delivered'[h] = delivered[h]
      /\ \A g \in Handles : g # h => handle'[g] = handle[g] /\ delivered'[g] = delivered[g]
  BY <1>2, <1>3, <1>6, HandleSteps
<1>8. CallStep(t, "scan", h, taken[t])
  BY <1>1, <1>2, CallSteps DEF h
<1>9. SystemTypes' /\ PointerTypes' /\ CounterTypes'
  BY <1>1, <1>2, SystemKept, ThreadKept
<1>10. CallTypes'
  BY <1>1, <1>2, Chosen, CallTypesKept
<1>11. Elsewhere(t, h)
  BY <1>7, <1>8 DEF Elsewhere, CallStep
<1>12. Alone(t, h)
  <2> SUFFICES ASSUME NEW u \in Threads, u # t, Inside(u), arg[u] = h PROVE FALSE
    BY DEF Alone
  <2>1. handle[h].owner = u
    BY <1>4 DEF IndInv, LockInv
  <2> QED
    BY <1>1, <2>1, ApiAssumption
<1>13. r.open /\ r.returned
  BY <1>4, <1>5, Zenon
<1>14. Kept(t, h) /\ Entitled(t, h)
  BY <1>5, <1>7, <1>8, <1>13 DEF Kept, Entitled, CallStep
<1>15. InOrder(h)
  BY <1>2, <1>5, <1>7, <1>13 DEF InOrder, IndInv, DataInv, SharedInOrderOnce
<1>16. LockInv' /\ DataInv'
  BY <1>2, <1>11, <1>12, <1>14, <1>15, OneHandle
<1> QED
  BY <1>7, <1>9, <1>10, <1>16, Assemble

(* Leaving the critical section, and handing out a new handle.               *)
LEMMA GiveBackKeeps ==
  ASSUME IndInv, NEW t \in Threads, Leave(t) \/ FirstReturns(t)
  PROVE  IndInv'
<1> DEFINE h == arg[t]
           a == [handle[h] EXCEPT !.owner = NoThread]
           b == [handle[h] EXCEPT !.returned = TRUE]
<1>1. /\ pc[t] = "leave" /\ Return(t)
      /\ \/ handle' = [handle EXCEPT ![h] = a] /\ handle[h].returned
         \/ handle' = [handle EXCEPT ![h] = b]
      /\ UNCHANGED <<system, perThread, delivered, crossed>>
  BY DEF Leave, FirstReturns
<1>2. Inside(t) /\ TypeOK
  BY <1>1 DEF Inside, IndInv
<1>3. /\ h \in Handles /\ handle[h] \in Handle /\ delivered[h] \in Seq(1..Entries)
      /\ handle[h].open /\ Alone(t, h)
  BY <1>2, AtWork
<1>4. a \in Handle /\ b \in Handle
  BY <1>3, HandleUpdates
<1>5. /\ a.pos = handle[h].pos /\ a.open = handle[h].open /\ a.returned = handle[h].returned
      /\ b.pos = handle[h].pos /\ b.open = handle[h].open /\ b.returned
  BY <1>3 DEF Handle
<1>6. PICK r \in {a, b} : handle' = [handle EXCEPT ![h] = r] /\ (r = a => handle[h].returned \/ r = b)
  BY <1>1
<1>7. r \in Handle /\ r.pos = handle[h].pos
  BY <1>4, <1>5, <1>6
<1>8. r.open /\ r.returned
  BY <1>3, <1>5, <1>6, Zenon
<1>9. HandleStep(h, r, delivered[h])
  BY <1>1, <1>2, <1>3, <1>6, SameDelivered
<1> HIDE DEF a, b, h
<1>10. /\ HandleTypes' /\ handle'[h] = r /\ delivered'[h] = delivered[h]
       /\ \A g \in Handles : g # h => handle'[g] = handle[g] /\ delivered'[g] = delivered[g]
  BY <1>2, <1>3, <1>7, <1>9, HandleSteps
<1>11. Goto(t, "out")
  BY <1>1 DEF Return
<1>12. CallStep(t, "out", Something, Nothing)
  BY <1>1, <1>2, <1>11, CallSteps
<1>13. SystemTypes' /\ PointerTypes' /\ CounterTypes'
  BY <1>1, <1>2, SystemKept, ThreadKept
<1>14. CallTypes'
  BY <1>1, <1>2, <1>11, Chosen, CallTypesKept DEF Return
<1>15. Elsewhere(t, h)
  BY <1>10, <1>12 DEF Elsewhere, CallStep
<1>16. Kept(t, h) /\ Entitled(t, h)
  BY <1>8, <1>10, <1>12 DEF Kept, Entitled, CallStep, Inside
<1>17. InOrder(h)
  BY <1>3, <1>7, <1>8, <1>10 DEF InOrder, IndInv, DataInv, SharedInOrderOnce
<1>18. LockInv' /\ DataInv'
  BY <1>3, <1>15, <1>16, <1>17, OneHandle
<1> QED
  BY <1>10, <1>13, <1>14, <1>18, Assemble
(* What is in order stays so while the position does not go back.            *)
LEMMA StillInOrder ==
  ASSUME IndInv, NEW h \in Handles, handle[h] \in Handle, NEW p \in Nat, p >= handle[h].pos
  PROVE  /\ \A j \in 1..Len(delivered[h]) : delivered[h][j] <= p
         /\ \A j, k \in 1..Len(delivered[h]) : j < k => delivered[h][j] < delivered[h][k]
<1>1. delivered[h] \in Seq(1..Entries) /\ handle[h].pos \in Nat
  BY Sizes DEF IndInv, TypeOK, Handle
<1>2. ASSUME NEW j \in 1..Len(delivered[h]) PROVE delivered[h][j] <= p
  <2>1. delivered[h][j] <= handle[h].pos
    BY DEF IndInv, DataInv
  <2>2. delivered[h][j] \in 1..Entries
    BY <1>1, ElementOfSeq, Zenon
  <2>3. delivered[h][j] \in Nat
    BY <2>2, Sizes
  <2> QED
    BY <1>1, <2>1, <2>3
<1>3. \A j, k \in 1..Len(delivered[h]) : j < k => delivered[h][j] < delivered[h][k]
  BY DEF IndInv, DataInv, SharedInOrderOnce
<1> QED
  BY <1>2, <1>3

LEMMA ScanKeeps == ASSUME IndInv, NEW t \in Threads, Scan(t) PROVE IndInv'
<1> DEFINE h == arg[t]
           new == Grown(t, handle[h].cbBuffer)
           r == [handle[h] EXCEPT !.cbBuffer = new, !.scan = @ + 1, !.ntStatus = "ALLOTTED_SPACE_EXCEEDED"]
<1>1. /\ pc[t] = "scan" /\ Goto(t, "settle")
      /\ s_llMemoryAllocated' = [s_llMemoryAllocated EXCEPT ![t] = @ + new - handle[h].cbBuffer]
      /\ s_uInitialBufSize' = [s_uInitialBufSize EXCEPT ![t] = Max({@, new})]
      /\ UNCHANGED <<system, hNtDll, pfn, arg, taken, delivered, crossed>>
  BY DEF Scan
<1>2. Inside(t) /\ TypeOK
  BY <1>1 DEF Inside, IndInv
<1>3. h \in Handles /\ handle[h] \in Handle /\ delivered[h] \in Seq(1..Entries) /\ handle[h].open
  BY <1>2, AtWork
<1>4. handle' = [handle EXCEPT ![h] = r]
  BY <1>2, <1>3 DEF Scan, TypeOK
<1>5. handle[h].cbBuffer \in Nat /\ new \in Nat \ {0}
  <2>1. handle[h].cbBuffer \in Nat
    BY <1>3 DEF Handle
  <2> QED
    BY <1>2, <2>1, GrownType
<1> HIDE DEF new
<1>6. r \in Handle
  BY <1>3, <1>5, HandleUpdates
<1>7. r.pos = handle[h].pos /\ r.open = handle[h].open /\ r.returned = handle[h].returned /\ r.owner = handle[h].owner
  BY <1>3 DEF Handle
<1>8. HandleStep(h, r, delivered[h])
  BY <1>1, <1>2, <1>3, <1>4, SameDelivered
<1> HIDE DEF r, h
<1>9. CallStep(t, "settle", h, taken[t])
  BY <1>1, <1>2, CallSteps DEF h
<1>10. /\ \A j \in 1..Len(delivered[h]) : delivered[h][j] <= r.pos
       /\ \A j, k \in 1..Len(delivered[h]) : j < k => delivered[h][j] < delivered[h][k]
  <2>1. r.pos \in Nat /\ r.pos >= handle[h].pos
    BY <1>6, <1>7, Sizes DEF Handle
  <2> QED
    BY <1>3, <2>1, StillInOrder
<1>11. r.open
  BY <1>3, <1>7, Zenon
<1>12. HandleTypes' /\ LockInv' /\ DataInv'
  BY <1>2, <1>3, <1>6, <1>7, <1>8, <1>9, <1>10, <1>11, WorkStep DEF h
<1>13. SystemTypes' /\ PointerTypes'
  BY <1>1, <1>2, SystemKept DEF TypeOK, PointerTypes
<1>14. CounterTypes'
  <2>1. s_uInitialBufSize[t] \in Nat \ {0} /\ s_llMemoryAllocated[t] \in Int
    BY <1>2 DEF TypeOK
  <2>2. s_llMemoryAllocated[t] + new - handle[h].cbBuffer \in Int
    BY <1>5, <2>1
  <2>3. Max({s_uInitialBufSize[t], new}) \in {s_uInitialBufSize[t], new}
    <3>1. s_uInitialBufSize[t] \in Int /\ new \in Int
      BY <1>5, <2>1
    <3> QED
      BY <3>1, MaxType, Zenon
  <2>4. Max({s_uInitialBufSize[t], new}) \in Nat \ {0}
    BY <1>5, <2>1, <2>3
  <2> QED
    BY <1>1, <1>2, <2>2, <2>4 DEF TypeOK, CounterTypes
<1>15. CallTypes'
  BY <1>1, <1>2, Chosen, CallTypesKept
<1> QED
  BY <1>12, <1>13, <1>14, <1>15, Assemble

LEMMA SettleKeeps == ASSUME IndInv, NEW t \in Threads, Settle(t) PROVE IndInv'
<1> DEFINE h == arg[t]
<1>1. pc[t] = "settle" /\ taken' = [taken EXCEPT ![t] = Nothing]
      /\ UNCHANGED <<system, perThread, arg, delivered, crossed>>
  BY DEF Settle
<1>2. Inside(t) /\ TypeOK
  BY <1>1 DEF Inside, IndInv
<1>3. h \in Handles /\ handle[h] \in Handle /\ delivered[h] \in Seq(1..Entries) /\ handle[h].open
  BY <1>2, AtWork
<1>4. PICK r \in Handle, where \in {"scan", "leave"} :
        /\ handle' = [handle EXCEPT ![h] = r] /\ Goto(t, where)
        /\ r.pos = handle[h].pos /\ r.open = handle[h].open
        /\ r.returned = handle[h].returned /\ r.owner = handle[h].owner
  <2>1. CASE \E upTo \in handle[h].fetched + 1 .. Entries :
               /\ handle' = [handle EXCEPT ![h].fetched = upTo, ![h].ntStatus = "SUCCESS"]
               /\ Goto(t, "scan")
    <3>1. PICK upTo \in handle[h].fetched + 1 .. Entries :
             /\ handle' = [handle EXCEPT ![h].fetched = upTo, ![h].ntStatus = "SUCCESS"]
             /\ Goto(t, "scan")
      BY <2>1
    <3> DEFINE r == [handle[h] EXCEPT !.fetched = upTo, !.ntStatus = "SUCCESS"]
    <3>2. upTo \in 0..Entries
      BY <1>3, Sizes DEF Handle
    <3>3. r \in Handle
      BY <1>3, <3>2, HandleUpdates
    <3>4. handle' = [handle EXCEPT ![h] = r]
      BY <1>2, <1>3, <3>1 DEF TypeOK
    <3>5. /\ r.pos = handle[h].pos /\ r.open = handle[h].open
          /\ r.returned = handle[h].returned /\ r.owner = handle[h].owner
      BY <1>3 DEF Handle
    <3> QED
      BY <3>1, <3>3, <3>4, <3>5
  <2>2. CASE /\ handle' = [handle EXCEPT ![h].ntStatus = "NO_MORE_FILES", ![h].bNoMoreFiles = TRUE]
             /\ Goto(t, "leave")
    <3> DEFINE r == [handle[h] EXCEPT !.ntStatus = "NO_MORE_FILES", !.bNoMoreFiles = TRUE]
    <3>1. r \in Handle
      BY <1>3, HandleUpdates
    <3>2. handle' = [handle EXCEPT ![h] = r]
      BY <1>2, <1>3, <2>2 DEF TypeOK
    <3>3. /\ r.pos = handle[h].pos /\ r.open = handle[h].open
          /\ r.returned = handle[h].returned /\ r.owner = handle[h].owner
      BY <1>3 DEF Handle
    <3> QED
      BY <2>2, <3>1, <3>2, <3>3
  <2>3. CASE /\ handle[h].errors < MaxErrors
             /\ handle' = [handle EXCEPT ![h].ntStatus = "ERROR", ![h].errors = @ + 1]
             /\ Goto(t, "leave")
    <3> DEFINE r == [handle[h] EXCEPT !.ntStatus = "ERROR", !.errors = @ + 1]
    <3>1. r \in Handle
      BY <1>3, <2>3, HandleUpdates
    <3>2. handle' = [handle EXCEPT ![h] = r]
      BY <1>2, <1>3, <2>3 DEF TypeOK
    <3>3. /\ r.pos = handle[h].pos /\ r.open = handle[h].open
          /\ r.returned = handle[h].returned /\ r.owner = handle[h].owner
      BY <1>3 DEF Handle
    <3> QED
      BY <2>3, <3>1, <3>2, <3>3
  <2> QED
    BY <2>1, <2>2, <2>3 DEF Settle
<1>5. HandleStep(h, r, delivered[h])
  BY <1>1, <1>2, <1>3, <1>4, SameDelivered
<1> HIDE DEF h
<1>6. CallStep(t, where, h, Nothing)
  BY <1>1, <1>2, <1>4, CallSteps DEF h
<1>7. /\ \A j \in 1..Len(delivered[h]) : delivered[h][j] <= r.pos
      /\ \A j, k \in 1..Len(delivered[h]) : j < k => delivered[h][j] < delivered[h][k]
  <2>1. r.pos \in Nat /\ r.pos >= handle[h].pos
    BY <1>4, Sizes DEF Handle
  <2> QED
    BY <1>3, <2>1, StillInOrder
<1>8. r.open
  BY <1>3, <1>4, Zenon
<1>9. HandleTypes' /\ LockInv' /\ DataInv'
  BY <1>2, <1>3, <1>4, <1>5, <1>6, <1>7, <1>8, WorkStep DEF h
<1>10. SystemTypes' /\ PointerTypes' /\ CounterTypes'
  BY <1>1, <1>2, SystemKept, ThreadKept
<1>11. CallTypes'
  BY <1>1, <1>2, <1>4, Chosen, CallTypesKept
<1> QED
  BY <1>9, <1>10, <1>11, Assemble

LEMMA TakeKeeps == ASSUME IndInv, NEW t \in Threads, Take(t) PROVE IndInv'
<1> DEFINE h == arg[t]
           r == [handle[h] EXCEPT !.pos = @ + 1]
           x == [entry |-> handle[h].pos + 1, scan |-> handle[h].scan]
<1>1. /\ pc[t] = "scan" /\ handle[h].pos < handle[h].fetched /\ Goto(t, "copy")
      /\ handle' = [handle EXCEPT ![h].pos = @ + 1]
      /\ taken' = [taken EXCEPT ![t] = x]
      /\ UNCHANGED <<system, perThread, arg, delivered, crossed>>
  BY DEF Take
<1>2. Inside(t) /\ TypeOK
  BY <1>1 DEF Inside, IndInv
<1>3. h \in Handles /\ handle[h] \in Handle /\ delivered[h] \in Seq(1..Entries) /\ handle[h].open
  BY <1>2, AtWork
<1>4. handle' = [handle EXCEPT ![h] = r]
  BY <1>1, <1>2, <1>3 DEF TypeOK
<1>5. /\ r \in Handle
  BY <1>1, <1>3, HandleUpdates
<1>6. /\ r.pos = handle[h].pos + 1 /\ r.open = handle[h].open /\ r.scan = handle[h].scan
      /\ r.returned = handle[h].returned /\ r.owner = handle[h].owner
  BY <1>3 DEF Handle
<1>7. x.entry = handle[h].pos + 1 /\ x.scan = handle[h].scan
  OBVIOUS
<1>8. x \in [entry : 0..Entries, scan : Nat]
  <2>1. handle[h].pos \in 0..Entries /\ handle[h].fetched \in 0..Entries /\ handle[h].scan \in Nat
    BY <1>3, Zenon DEF Handle
  <2>2. handle[h].pos + 1 \in 0..Entries
    BY <1>1, <2>1, Sizes
  <2> QED
    BY <2>1, <2>2, Zenon
<1>9. HandleStep(h, r, delivered[h])
  BY <1>1, <1>2, <1>3, <1>4, SameDelivered
<1> HIDE DEF r, h, x
<1>10. CallStep(t, "copy", h, x)
  BY <1>1, <1>2, CallSteps DEF h
<1>11. handle[h].pos \in Nat /\ r.pos \in Nat /\ r.pos >= handle[h].pos
  BY <1>3, <1>6, Sizes DEF Handle
<1>12. /\ \A j \in 1..Len(delivered[h]) : delivered[h][j] <= r.pos
       /\ \A j, k \in 1..Len(delivered[h]) : j < k => delivered[h][j] < delivered[h][k]
  BY <1>3, <1>11, StillInOrder
<1>13. ASSUME NEW j \in 1..Len(delivered[h]) PROVE delivered[h][j] < r.pos
  <2>1. delivered[h][j] <= handle[h].pos
    BY <1>3 DEF IndInv, DataInv
  <2>2. delivered[h][j] \in 1..Entries
    BY <1>3, ElementOfSeq, Zenon
  <2>3. delivered[h][j] \in Nat
    BY <2>2, Sizes
  <2> QED
    BY <1>6, <1>11, <2>1, <2>3
<1>14. x.entry = r.pos /\ x.entry >= 1 /\ x.scan = r.scan
  BY <1>6, <1>7, <1>11
<1>15. r.open
  BY <1>3, <1>6, Zenon
<1>16. HandleTypes' /\ LockInv' /\ DataInv'
  BY <1>2, <1>3, <1>5, <1>6, <1>9, <1>10, <1>12, <1>13, <1>14, <1>15, WorkStep DEF h
<1>17. SystemTypes' /\ PointerTypes' /\ CounterTypes'
  BY <1>1, <1>2, SystemKept, ThreadKept
<1>18. CallTypes'
  BY <1>1, <1>2, <1>3, <1>8, CallTypesKept
<1> QED
  BY <1>16, <1>17, <1>18, Assemble

LEMMA TakeNothingKeeps == ASSUME IndInv, NEW t \in Threads, TakeNothing(t) PROVE IndInv'
<1>1. /\ pc[t] = "scan" /\ Goto(t, "leave") /\ taken' = [taken EXCEPT ![t] = Nothing]
      /\ UNCHANGED <<system, perThread, arg, handle, delivered, crossed>>
  BY DEF TakeNothing
<1>2. TypeOK /\ Inside(t)
  BY <1>1 DEF IndInv, Inside
<1>3. SystemTypes' /\ PointerTypes' /\ CounterTypes' /\ HandleTypes'
  BY <1>1, <1>2, SystemKept, ThreadKept, HandlesKept
<1>4. CallTypes'
  BY <1>1, <1>2, Chosen, CallTypesKept
<1>5. CallStep(t, "leave", arg[t], Nothing)
  BY <1>1, <1>2, CallSteps
<1>6. LockInv' /\ DataInv'
  BY <1>1, <1>2, <1>5, NoHandle DEF CallStep, Inside
<1> QED
  BY <1>3, <1>4, <1>6, Assemble

LEMMA CopyKeeps == ASSUME IndInv, NEW t \in Threads, Copy(t) PROVE IndInv'
<1> DEFINE h == arg[t]
           e == taken[t].entry
           d == Append(delivered[h], e)
<1>1. /\ pc[t] = "copy" /\ Goto(t, "leave")
      /\ delivered' = [delivered EXCEPT ![h] = d]
      /\ UNCHANGED <<system, perThread, arg, taken, handle, crossed>>
  BY DEF Copy
<1>2. Inside(t) /\ TypeOK
  BY <1>1 DEF Inside, IndInv
<1>3. h \in Handles /\ handle[h] \in Handle /\ delivered[h] \in Seq(1..Entries) /\ handle[h].open
  BY <1>2, AtWork
<1>4. /\ e = handle[h].pos /\ e >= 1
      /\ \A j \in 1..Len(delivered[h]) : delivered[h][j] < e
  BY <1>1 DEF IndInv, DataInv, CopyInv
<1>5. e \in 1..Entries
  BY <1>3, <1>4, Sizes DEF Handle
<1> HIDE DEF e, h
<1>6. /\ d \in Seq(1..Entries) /\ Len(d) = Len(delivered[h]) + 1 /\ Len(delivered[h]) \in Nat
      /\ d[Len(d)] = e /\ \A j \in 1..Len(delivered[h]) : d[j] = delivered[h][j]
  BY <1>3, <1>5
<1> HIDE DEF d
<1>7. /\ \A j \in 1..Len(d) : d[j] <= handle[h].pos
      /\ \A j, k \in 1..Len(d) : j < k => d[j] < d[k]
  <2>1. ASSUME NEW j \in 1..Len(d), j # Len(d)
        PROVE  j \in 1..Len(delivered[h]) /\ d[j] < e /\ d[j] \in Nat /\ d[j] = delivered[h][j]
    <3>1. j \in 1..Len(delivered[h])
      BY <1>6, <2>1
    <3>2. d[j] \in 1..Entries
      BY <1>6, ElementOfSeq, Zenon
    <3> QED
      BY <1>4, <1>6, <3>1, <3>2, Sizes
  <2>2. e \in Nat /\ e <= handle[h].pos
    BY <1>4, <1>5, Sizes
  <2>3. \A j \in 1..Len(d) : d[j] <= handle[h].pos
    BY <1>4, <1>6, <2>1, <2>2
  <2>4. ASSUME NEW j \in 1..Len(d), NEW k \in 1..Len(d), j < k PROVE d[j] < d[k]
    <3>1. j # Len(d)
      BY <1>6, <2>4
    <3>2. CASE k = Len(d)
      BY <1>6, <2>1, <3>1, <3>2
    <3>3. CASE k # Len(d)
      <4>1. delivered[h][j] < delivered[h][k]
        BY <1>3, <2>1, <2>4, <3>1, <3>3 DEF IndInv, DataInv, SharedInOrderOnce
      <4> QED
        BY <2>1, <3>1, <3>3, <4>1
    <3> QED
      BY <3>2, <3>3
  <2> QED
    BY <2>3, <2>4
<1>8. HandleStep(h, handle[h], d)
  <2>1. handle' = [handle EXCEPT ![h] = handle[h]]
    BY <1>1, <1>2, <1>3 DEF TypeOK
  <2> QED
    BY <1>1, <2>1 DEF HandleStep
<1>9. CallStep(t, "leave", h, taken[t])
  BY <1>1, <1>2, CallSteps DEF h
<1>10. HandleTypes' /\ LockInv' /\ DataInv'
  BY <1>2, <1>3, <1>6, <1>7, <1>8, <1>9, WorkStep DEF h
<1>11. SystemTypes' /\ PointerTypes' /\ CounterTypes'
  BY <1>1, <1>2, SystemKept, ThreadKept
<1>12. CallTypes'
  BY <1>1, <1>2, <1>3, Chosen, CallTypesKept
<1> QED
  BY <1>10, <1>11, <1>12, Assemble
LEMMA RunningKeeps == ASSUME IndInv, NEW t \in Threads, Running(t) PROVE IndInv'
<1>1. arg[t] \in Handles
  BY DEF IndInv, TypeOK
<1>2. CASE ScanCrashes(t) \/ LeaveCrashes(t)
  <2>1. Crash(t) /\ UNCHANGED arg
    BY <1>2 DEF ScanCrashes, LeaveCrashes
  <2> QED
    BY <1>1, <2>1, CrashKeeps
<1> QED
  BY <1>2, EnterKeeps, ScanKeeps, SettleKeeps, TakeKeeps, TakeNothingKeeps, CopyKeeps,
     GiveBackKeeps, FirstFailsKeeps DEF Running

LEMMA NextKeeps == IndInv /\ [Next]_vars => IndInv'
<1> SUFFICES ASSUME IndInv, [Next]_vars PROVE IndInv'
  OBVIOUS
<1>1. CASE UNCHANGED vars
  <2>1. UNCHANGED <<system, pc, perThread, arg, taken, handle, delivered, crossed>>
    BY <1>1 DEF vars
  <2>2. TypeOK
    BY DEF IndInv
  <2>3. SystemTypes' /\ PointerTypes' /\ CounterTypes' /\ HandleTypes'
    BY <2>1, <2>2, SystemKept, ThreadKept, HandlesKept
  <2>4. CallTypes'
    BY <2>1, <2>2 DEF TypeOK, CallTypes
  <2>5. LockInv'
    BY <2>1 DEF IndInv, LockInv, Inside
  <2>6. DataInv'
    BY <2>1 DEF IndInv, DataInv, CopyInv, SharedInOrderOnce
  <2> QED
    BY <2>3, <2>4, <2>5, <2>6, Assemble
<1>2. ASSUME NEW t \in Threads, NEW h \in Handles, FirstFileCrashes(t, h) \/ CloseCrashes(t, h)
      PROVE  IndInv'
  <2>1. Crash(t) /\ (UNCHANGED arg \/ arg' = [arg EXCEPT ![t] = h])
    BY <1>2 DEF FirstFileCrashes, FindFirst, CloseCrashes
  <2> QED
    BY <2>1, CrashKeeps
<1>3. CASE Next
  BY <1>1, <1>2, <1>3, InitKeeps, FirstFileKeeps, NextFileKeeps, CloseKeeps, RunningKeeps DEF Next, Ended
<1> QED
  BY <1>1, <1>3

-----------------------------------------------------------------------------
(* Theorems                                                                  *)

LEMMA Inductive == Spec => []IndInv
<1>1. Init => IndInv
  <2> SUFFICES ASSUME Init PROVE IndInv
    OBVIOUS
  <2>1. TypeOK
    BY InitTypeOK
  <2>2. /\ \A t \in Threads : pc[t] = "out"
        /\ \A h \in Handles : delivered[h] = <<>>
    BY DEF Init
  <2>3. LockInv
    BY <2>2 DEF LockInv, Inside
  <2>4. DataInv
    <3>1. \A h \in Handles : Len(delivered[h]) = 0
      BY <2>2
    <3> QED
      BY <2>2, <3>1 DEF DataInv, SharedInOrderOnce
  <2> QED
    BY <2>1, <2>3, <2>4 DEF IndInv
<1> QED
  BY <1>1, NextKeeps, PTL DEF Spec

(* A find handle may be shared by any number of threads: the calls on it     *)
(* (NativeFindNextFile) are one step to each other, hand out the entries in  *)
(* order and none twice, and copy from the buffer they looked into.          *)
THEOREM SharingSafe == Spec => []SharedSafely
<1>1. IndInv => SharedSafely
  BY DEF IndInv, DataInv, CopyInv, SharedSafely, CopiedFromCurrentBuffer
<1> QED
  BY <1>1, Inductive, PTL

-----------------------------------------------------------------------------
(* Function pointers that are NULL                                           *)

(* Where NativeFindInit has succeeded, or the library is linked, there is    *)
(* nothing missing.                                                          *)
PointerInv ==
  /\ ~dynamic => \A t \in Threads : pfn[t] = Functions
  /\ \A t \in Threads : hNtDll[t] => Required \cup {"WithStatus"} \subseteq pfn[t]
  /\ NullCallOnlyUninitialised

LEMMA NullPointer ==
  ASSUME PointerInv, NEW t \in Threads,
         NEW S, S \subseteq Required \cup {"WithStatus"}, ~Calls(t, S)
  PROVE  dynamic /\ ~hNtDll[t]
<1>1. Required \cup {"WithStatus"} \subseteq Functions
  BY DEF Functions
<1>2. ~(Required \cup {"WithStatus"} \subseteq pfn[t])
  BY DEF Calls
<1> QED
  BY <1>1, <1>2 DEF PointerInv

(* A crash of a thread whose pointers are missing.                           *)
LEMMA CrashPointers ==
  ASSUME TypeOK, PointerInv, NEW t \in Threads, Crash(t), dynamic, ~hNtDll[t]
  PROVE  PointerInv'
<1>1. /\ dynamic' = dynamic /\ pfn' = pfn /\ hNtDll' = hNtDll
      /\ \A u \in Threads : u # t => pc'[u] = pc[u]
  BY DEF Crash, Goto, system, perThread, TypeOK
<1>2. NullCallOnlyUninitialised'
  BY <1>1 DEF NullCallOnlyUninitialised, PointerInv
<1> QED
  BY <1>1, <1>2 DEF PointerInv

(* A step on the way through a call.                                         *)
LEMMA CallPointers ==
  ASSUME TypeOK, PointerInv, UNCHANGED <<system, hNtDll, pfn>>,
         NEW t \in Threads, NEW where, where # "crashed", Goto(t, where)
  PROVE  PointerInv'
<1>1. /\ dynamic' = dynamic /\ pc'[t] # "crashed"
      /\ \A u \in Threads : u # t => pc'[u] = pc[u]
  BY DEF Goto, system, TypeOK
<1>2. NullCallOnlyUninitialised'
  BY <1>1 DEF NullCallOnlyUninitialised, PointerInv
<1> QED
  BY <1>1, <1>2 DEF PointerInv

LEMMA InitPointers ==
  ASSUME TypeOK, PointerInv, NEW t \in Threads, NativeFindInit(t)
  PROVE  PointerInv'
<1> DEFINE found == exported \cup {"WithStatus"}
<1>1. UNCHANGED <<pc, dynamic>> /\ pc[t] = "out"
  BY DEF NativeFindInit, system
<1>2. CASE UNCHANGED <<pfn, hNtDll>>
  BY <1>1, <1>2 DEF PointerInv, NullCallOnlyUninitialised
<1>3. CASE /\ dynamic /\ pfn' = [pfn EXCEPT ![t] = found]
           /\ hNtDll' = [hNtDll EXCEPT ![t] = Sufficient(found)]
  <2>1. pfn'[t] = found /\ hNtDll'[t] = Sufficient(found)
    BY <1>3 DEF TypeOK
  <2>2. \A u \in Threads : u # t => pfn'[u] = pfn[u] /\ hNtDll'[u] = hNtDll[u]
    BY <1>3 DEF TypeOK
  <2>3. hNtDll'[t] => Required \cup {"WithStatus"} \subseteq pfn'[t]
    BY <2>1 DEF Sufficient
  <2>4. \A u \in Threads : hNtDll'[u] => Required \cup {"WithStatus"} \subseteq pfn'[u]
    BY <2>2, <2>3 DEF PointerInv
  <2>5. NullCallOnlyUninitialised'
    BY <1>1, <2>2 DEF NullCallOnlyUninitialised, PointerInv
  <2> QED
    BY <1>1, <1>3, <2>4, <2>5 DEF PointerInv
<1> QED
  BY <1>2, <1>3 DEF NativeFindInit

LEMMA RunningPointers ==
  ASSUME TypeOK, PointerInv, NEW t \in Threads, Running(t)
  PROVE  PointerInv'
<1>1. CASE ScanCrashes(t)
  <2>1. Crash(t) /\ ~Calls(t, {"NtQueryDirectoryFile"})
    BY <1>1 DEF ScanCrashes
  <2>2. {"NtQueryDirectoryFile"} \subseteq Required \cup {"WithStatus"}
    BY DEF Required
  <2> QED
    BY <2>1, <2>2, NullPointer, CrashPointers
<1>2. CASE LeaveCrashes(t)
  <2>1. Crash(t) /\ (~Calls(t, {"RtlNtStatusToDosError"}) \/ ~Calls(t, {"NtClose"}))
    BY <1>2 DEF LeaveCrashes, ErrorTold
  <2>2. /\ {"RtlNtStatusToDosError"} \subseteq Required \cup {"WithStatus"}
        /\ {"NtClose"} \subseteq Required \cup {"WithStatus"}
    BY DEF Required, Reporting
  <2> QED
    BY <2>1, <2>2, NullPointer, CrashPointers
<1>3. CASE Enter(t) \/ Take(t) \/ TakeNothing(t) \/ Copy(t)
  BY <1>3, CallPointers DEF Enter, Take, TakeNothing, Copy, perThread
<1>4. CASE Scan(t)
  BY <1>4, CallPointers DEF Scan
<1>5. CASE Settle(t)
  BY <1>5, CallPointers DEF Settle, perThread
<1>6. CASE Leave(t) \/ FirstReturns(t) \/ FirstFails(t)
  BY <1>6, CallPointers DEF Leave, FirstReturns, FirstFails, Return, perThread
<1> QED
  BY <1>1, <1>2, <1>3, <1>4, <1>5, <1>6 DEF Running

LEMMA NextPointers == TypeOK /\ PointerInv /\ [Next]_vars => PointerInv'
<1> SUFFICES ASSUME TypeOK, PointerInv, [Next]_vars PROVE PointerInv'
  OBVIOUS
<1>1. CASE UNCHANGED vars
  BY <1>1 DEF vars, system, perThread, PointerInv, NullCallOnlyUninitialised
<1>2. ASSUME NEW t \in Threads, NEW h \in Handles,
             NativeFindFirstFile(t, h) \/ NativeFindNextFile(t, h)
      PROVE  PointerInv'
  BY <1>2, CallPointers DEF NativeFindFirstFile, NativeFindNextFile, perThread
<1>3. ASSUME NEW t \in Threads, NEW h \in Handles, NativeFindClose(t, h)
      PROVE  PointerInv'
  BY <1>3 DEF NativeFindClose, system, PointerInv, NullCallOnlyUninitialised
<1>4. ASSUME NEW t \in Threads, NEW h \in Handles, FirstFileCrashes(t, h)
      PROVE  PointerInv'
  <2>1. Crash(t) /\ ~Calls(t, Opening \cup Failing \cup {"WithStatus"})
    BY <1>4 DEF FirstFileCrashes
  <2>2. Opening \cup Failing \cup {"WithStatus"} \subseteq Required \cup {"WithStatus"}
    BY DEF Required, Reporting, Failing
  <2> QED
    BY <2>1, <2>2, NullPointer, CrashPointers
<1>5. ASSUME NEW t \in Threads, NEW h \in Handles, CloseCrashes(t, h)
      PROVE  PointerInv'
  <2>1. Crash(t) /\ ~Calls(t, {"NtClose"})
    BY <1>5 DEF CloseCrashes
  <2>2. {"NtClose"} \subseteq Required \cup {"WithStatus"}
    BY DEF Required
  <2> QED
    BY <2>1, <2>2, NullPointer, CrashPointers
<1> QED
  BY <1>1, <1>2, <1>3, <1>4, <1>5, InitPointers, RunningPointers DEF Next, Ended

(* A call goes through a NULL pointer only in a thread in which              *)
(* NativeFindInit has not succeeded, for all threads and versions of         *)
(* ntdll.dll, whichever thread a handle comes from.                          *)
THEOREM InitialisedThreadsSafe == Spec => []NullCallOnlyUninitialised
<1>1. Init => PointerInv
  <2> SUFFICES ASSUME Init PROVE PointerInv
    OBVIOUS
  <2>1. \A t \in Threads : ~hNtDll[t] /\ pc[t] = "out"
    BY DEF Init
  <2>2. ~dynamic => \A t \in Threads : pfn[t] = Functions
    BY DEF Init
  <2> QED
    BY <2>1, <2>2 DEF PointerInv, NullCallOnlyUninitialised
<1>2. IndInv => TypeOK
  BY DEF IndInv
<1>3. PointerInv => NullCallOnlyUninitialised
  BY DEF PointerInv
<1> QED
  BY <1>1, <1>2, <1>3, Inductive, NextPointers, PTL DEF Spec

-----------------------------------------------------------------------------
(* The status NativeFindLastStatus sees                                      *)

StatusInv ==
  /\ \A h \in Handles : handle[h].ntStatus = "ALLOTTED_SPACE_EXCEEDED" =>
       \E t \in Threads : pc[t] = "settle" /\ arg[t] = h
  /\ \A h \in Handles : handle[h].bNoMoreFiles => handle[h].ntStatus = "NO_MORE_FILES"
  /\ \A t \in Threads : pc[t] = "settle" => ~handle[arg[t]].bNoMoreFiles

(* A step of t outside a scan leaves the status of a handle or makes it new. *)
SameOrNew(h) ==
  \/ handle'[h].ntStatus = handle[h].ntStatus /\ handle'[h].bNoMoreFiles = handle[h].bNoMoreFiles
  \/ handle'[h].ntStatus = "SUCCESS" /\ ~handle'[h].bNoMoreFiles

LEMMA StatusKept ==
  ASSUME TypeOK, StatusInv, NEW t \in Threads, pc[t] # "settle", pc'[t] # "settle",
         \A u \in Threads : u # t => pc'[u] = pc[u] /\ arg'[u] = arg[u],
         \A h \in Handles : SameOrNew(h)
  PROVE  StatusInv'
<1>1. ASSUME NEW h \in Handles, handle'[h].ntStatus = "ALLOTTED_SPACE_EXCEEDED"
      PROVE  \E u \in Threads : pc'[u] = "settle" /\ arg'[u] = h
  <2>1. handle[h].ntStatus = "ALLOTTED_SPACE_EXCEEDED"
    BY <1>1 DEF SameOrNew
  <2>2. PICK u \in Threads : pc[u] = "settle" /\ arg[u] = h
    BY <2>1 DEF StatusInv
  <2>3. u # t
    BY <2>2
  <2> QED
    BY <2>2, <2>3
<1>2. ASSUME NEW h \in Handles, handle'[h].bNoMoreFiles
      PROVE  handle'[h].ntStatus = "NO_MORE_FILES"
  BY <1>2 DEF SameOrNew, StatusInv
<1>3. ASSUME NEW u \in Threads, pc'[u] = "settle"
      PROVE  ~handle'[arg'[u]].bNoMoreFiles
  <2>1. pc[u] = "settle" /\ arg'[u] = arg[u] /\ arg[u] \in Handles
    BY <1>3 DEF TypeOK
  <2> QED
    BY <2>1 DEF SameOrNew, StatusInv
<1> QED
  BY <1>1, <1>2, <1>3 DEF StatusInv

(* A new handle, or none.                                                    *)
LEMMA NewHandle ==
  ASSUME TypeOK, NEW h \in Handles, NEW r, handle' = [handle EXCEPT ![h] = r],
         \/ r.ntStatus = "SUCCESS" /\ ~r.bNoMoreFiles
         \/ r.ntStatus = handle[h].ntStatus /\ r.bNoMoreFiles = handle[h].bNoMoreFiles
  PROVE  \A g \in Handles : SameOrNew(g)
<1>1. handle'[h] = r /\ \A g \in Handles : g # h => handle'[g] = handle[g]
  BY DEF TypeOK
<1> QED
  BY <1>1 DEF SameOrNew

LEMMA FreedHandle ==
  ASSUME TypeOK, NEW t \in Threads, NEW h \in Handles, Free(t, h)
  PROVE  \A g \in Handles : SameOrNew(g)
<1>1. handle' = [handle EXCEPT ![h] = Unused(Someone)]
  BY DEF Free
<1>2. Unused(Someone).ntStatus = "SUCCESS" /\ ~Unused(Someone).bNoMoreFiles
  BY DEF Unused
<1> QED
  BY <1>1, <1>2, NewHandle

LEMMA QuietStatus == handle' = handle => \A g \in Handles : SameOrNew(g)
  BY DEF SameOrNew

LEMMA ScanStatus ==
  ASSUME IndInv, StatusInv, NEW t \in Threads, Scan(t)
  PROVE  StatusInv'
<1> DEFINE h == arg[t]
<1>1. /\ pc[t] = "scan" /\ ~handle[h].bNoMoreFiles /\ Goto(t, "settle") /\ arg' = arg
      /\ TypeOK /\ h \in Handles /\ handle[h] \in Handle
  BY DEF Scan, NeedsQuery, IndInv, TypeOK
<1>2. PICK new : handle' = [handle EXCEPT ![h].cbBuffer = new, ![h].scan = @ + 1,
                                          ![h].ntStatus = "ALLOTTED_SPACE_EXCEEDED"]
  BY DEF Scan
<1>3. /\ handle'[h].ntStatus = "ALLOTTED_SPACE_EXCEEDED"
      /\ handle'[h].bNoMoreFiles = handle[h].bNoMoreFiles
      /\ \A g \in Handles : g # h => handle'[g] = handle[g]
  BY <1>1, <1>2 DEF TypeOK, Handle
<1>4. pc'[t] = "settle" /\ \A u \in Threads : u # t => pc'[u] = pc[u]
  BY <1>1 DEF Goto, TypeOK
<1>5. \A u \in Threads : arg[u] \in Handles
  BY <1>1 DEF TypeOK
<1>6. \A g \in Handles : handle'[g].bNoMoreFiles => handle'[g].ntStatus = "NO_MORE_FILES"
  BY <1>1, <1>3 DEF StatusInv
<1>7. \A u \in Threads : pc'[u] = "settle" => ~handle'[arg'[u]].bNoMoreFiles
  BY <1>1, <1>3, <1>4, <1>5 DEF StatusInv
<1>8. ASSUME NEW g \in Handles, handle'[g].ntStatus = "ALLOTTED_SPACE_EXCEEDED"
      PROVE  \E u \in Threads : pc'[u] = "settle" /\ arg'[u] = g
  <2>1. CASE g = h
    BY <1>1, <1>4, <2>1
  <2>2. CASE g # h
    <3>1. PICK u \in Threads : pc[u] = "settle" /\ arg[u] = g
      BY <1>3, <1>8, <2>2 DEF StatusInv
    <3> QED
      BY <1>1, <1>4, <3>1
  <2> QED
    BY <2>1, <2>2
<1> QED
  BY <1>6, <1>7, <1>8 DEF StatusInv

(* The status is final before the thread that is alone with the handle goes  *)
(* on.                                                                       *)
LEMMA SettleStatus ==
  ASSUME IndInv, StatusInv, NEW t \in Threads, Settle(t)
  PROVE  StatusInv'
<1> DEFINE h == arg[t]
<1>1. /\ pc[t] = "settle" /\ arg' = arg /\ TypeOK /\ h \in Handles /\ handle[h] \in Handle
      /\ ~handle[h].bNoMoreFiles
  BY DEF Settle, IndInv, TypeOK, StatusInv
<1>2. Alone(t, h)
  BY <1>1, AtWork DEF Inside
<1>3. /\ \/ handle'[h].ntStatus \in {"SUCCESS", "ERROR"} /\ ~handle'[h].bNoMoreFiles
         \/ handle'[h].ntStatus = "NO_MORE_FILES"
      /\ \A g \in Handles : g # h => handle'[g] = handle[g]
  <2>1. CASE \E upTo \in handle[h].fetched + 1 .. Entries :
               handle' = [handle EXCEPT ![h].fetched = upTo, ![h].ntStatus = "SUCCESS"]
    <3>1. PICK upTo : handle' = [handle EXCEPT ![h].fetched = upTo, ![h].ntStatus = "SUCCESS"]
      BY <2>1
    <3> QED
      BY <1>1, <3>1 DEF TypeOK, Handle
  <2>2. CASE handle' = [handle EXCEPT ![h].ntStatus = "NO_MORE_FILES", ![h].bNoMoreFiles = TRUE]
    BY <1>1, <2>2 DEF TypeOK, Handle
  <2>3. CASE handle' = [handle EXCEPT ![h].ntStatus = "ERROR", ![h].errors = @ + 1]
    BY <1>1, <2>3 DEF TypeOK, Handle
  <2> QED
    BY <2>1, <2>2, <2>3 DEF Settle
<1>4. pc'[t] # "settle" /\ \A u \in Threads : u # t => pc'[u] = pc[u]
  BY <1>1 DEF Settle, Goto, TypeOK
<1>5. \A u \in Threads : pc'[u] = "settle" => u # t /\ pc[u] = "settle" /\ arg[u] # h /\ arg[u] \in Handles
  BY <1>1, <1>2, <1>4 DEF Alone, Inside, TypeOK
<1>6. \A u \in Threads : pc'[u] = "settle" => ~handle'[arg'[u]].bNoMoreFiles
  BY <1>1, <1>3, <1>5 DEF StatusInv
<1>7. \A g \in Handles : handle'[g].bNoMoreFiles => handle'[g].ntStatus = "NO_MORE_FILES"
  BY <1>3 DEF StatusInv
<1>8. ASSUME NEW g \in Handles, handle'[g].ntStatus = "ALLOTTED_SPACE_EXCEEDED"
      PROVE  \E u \in Threads : pc'[u] = "settle" /\ arg'[u] = g
  <2>1. g # h
    BY <1>3, <1>8
  <2>2. PICK u \in Threads : pc[u] = "settle" /\ arg[u] = g
    BY <1>3, <1>8, <2>1 DEF StatusInv
  <2> QED
    BY <1>1, <1>4, <2>1, <2>2
<1> QED
  BY <1>6, <1>7, <1>8 DEF StatusInv

LEMMA RunningStatus ==
  ASSUME IndInv, StatusInv, NEW t \in Threads, Running(t)
  PROVE  StatusInv'
<1> DEFINE h == arg[t]
<1>1. TypeOK /\ h \in Handles /\ handle[h] \in Handle
  BY DEF IndInv, TypeOK
<1>g. ASSUME NEW where, Goto(t, where), where # "settle", pc[t] # "settle",
             \A u \in Threads : u # t => arg'[u] = arg[u],
             \A g \in Handles : SameOrNew(g)
      PROVE  StatusInv'
  <2>1. pc'[t] = where /\ \A u \in Threads : u # t => pc'[u] = pc[u]
    BY <1>1, <1>g DEF Goto, TypeOK
  <2> QED
    BY <1>1, <1>g, <2>1, StatusKept
<1>r. Return(t) => Goto(t, "out") /\ \A u \in Threads : u # t => arg'[u] = arg[u]
  BY <1>1 DEF Return, TypeOK
<1>2. CASE ScanCrashes(t) \/ LeaveCrashes(t)
  <2>1. pc[t] # "settle" /\ Goto(t, "crashed") /\ arg' = arg /\ handle' = handle
    BY <1>2 DEF ScanCrashes, LeaveCrashes, Crash
  <2> QED
    BY <1>g, <2>1, QuietStatus
<1>3. CASE TakeNothing(t) \/ Copy(t)
  <2>1. pc[t] # "settle" /\ Goto(t, "leave") /\ arg' = arg /\ handle' = handle
    BY <1>3 DEF TakeNothing, Copy
  <2> QED
    BY <1>g, <2>1, QuietStatus
<1>4. CASE Enter(t)
  <2>1. pc[t] # "settle" /\ Goto(t, "scan") /\ arg' = arg
        /\ handle' = [handle EXCEPT ![h] = [handle[h] EXCEPT !.owner = t]]
    BY <1>4 DEF Enter
  <2>2. \A g \in Handles : SameOrNew(g)
    BY <1>1, <2>1, NewHandle DEF Handle
  <2> QED
    BY <1>g, <2>1, <2>2
<1>5. CASE Take(t)
  <2>1. pc[t] # "settle" /\ Goto(t, "copy") /\ arg' = arg
        /\ handle' = [handle EXCEPT ![h] = [handle[h] EXCEPT !.pos = @ + 1]]
    BY <1>5 DEF Take
  <2>2. \A g \in Handles : SameOrNew(g)
    BY <1>1, <2>1, NewHandle DEF Handle
  <2> QED
    BY <1>g, <2>1, <2>2
<1>6. CASE Leave(t) \/ FirstReturns(t)
  <2>1. /\ pc[t] # "settle" /\ Return(t)
        /\ \/ handle' = [handle EXCEPT ![h] = [handle[h] EXCEPT !.owner = NoThread]]
           \/ handle' = [handle EXCEPT ![h] = [handle[h] EXCEPT !.returned = TRUE]]
    BY <1>6 DEF Leave, FirstReturns
  <2>2. \A g \in Handles : SameOrNew(g)
    BY <1>1, <2>1, NewHandle DEF Handle
  <2> QED
    BY <1>g, <1>r, <2>1, <2>2
<1>7. CASE FirstFails(t)
  <2>1. pc[t] # "settle" /\ Return(t) /\ Free(t, h)
    BY <1>7 DEF FirstFails
  <2>2. \A g \in Handles : SameOrNew(g)
    BY <1>1, <2>1, FreedHandle
  <2> QED
    BY <1>g, <1>r, <2>1, <2>2
<1> QED
  BY <1>2, <1>3, <1>4, <1>5, <1>6, <1>7, ScanStatus, SettleStatus DEF Running

LEMMA NextStatus == IndInv /\ StatusInv /\ [Next]_vars => StatusInv'
<1> SUFFICES ASSUME IndInv, StatusInv, [Next]_vars PROVE StatusInv'
  OBVIOUS
<1>t. TypeOK
  BY DEF IndInv
<1>1. CASE UNCHANGED <<pc, arg, handle>>
  BY <1>1 DEF StatusInv
<1>2. ASSUME NEW t \in Threads, NativeFindInit(t) PROVE StatusInv'
  BY <1>1, <1>2 DEF NativeFindInit
<1>3. ASSUME NEW t \in Threads, NEW h \in Handles, NEW where, where # "settle", pc[t] # "settle",
             Goto(t, where), arg' = arg \/ arg' = [arg EXCEPT ![t] = h],
             \A g \in Handles : SameOrNew(g)
      PROVE  StatusInv'
  <2>1. /\ pc'[t] = where
        /\ \A u \in Threads : u # t => pc'[u] = pc[u] /\ arg'[u] = arg[u]
    BY <1>t, <1>3 DEF Goto, TypeOK
  <2> QED
    BY <1>t, <1>3, <2>1, StatusKept
<1>4. ASSUME NEW t \in Threads, NEW h \in Handles, FirstFileCrashes(t, h) \/ CloseCrashes(t, h)
      PROVE  StatusInv'
  <2>1. /\ pc[t] # "settle" /\ Goto(t, "crashed") /\ handle' = handle
        /\ arg' = arg \/ arg' = [arg EXCEPT ![t] = h]
    BY <1>4 DEF FirstFileCrashes, FindFirst, CloseCrashes, Crash
  <2> QED
    BY <1>3, <2>1, QuietStatus
<1>5. ASSUME NEW t \in Threads, NEW h \in Handles, NativeFindNextFile(t, h) PROVE StatusInv'
  <2>1. /\ pc[t] # "settle" /\ Goto(t, "enter") /\ handle' = handle
        /\ arg' = [arg EXCEPT ![t] = h]
    BY <1>5 DEF NativeFindNextFile
  <2> QED
    BY <1>3, <2>1, QuietStatus
<1>6. ASSUME NEW t \in Threads, NEW h \in Handles, NativeFindFirstFile(t, h) PROVE StatusInv'
  <2> DEFINE r == [Unused(t) EXCEPT !.open = TRUE]
  <2>1. /\ pc[t] # "settle" /\ Goto(t, "scan") /\ arg' = [arg EXCEPT ![t] = h]
        /\ handle' = [handle EXCEPT ![h] = r]
    BY <1>6 DEF NativeFindFirstFile, FindFirst
  <2>2. r.ntStatus = "SUCCESS" /\ ~r.bNoMoreFiles
    BY DEF Unused
  <2> HIDE DEF r
  <2>3. \A g \in Handles : SameOrNew(g)
    BY <1>t, <2>1, <2>2, NewHandle
  <2> QED
    BY <1>3, <2>1, <2>3
<1>7. ASSUME NEW t \in Threads, NEW h \in Handles, NativeFindClose(t, h) PROVE StatusInv'
  <2>1. pc[t] = "out" /\ UNCHANGED <<pc, arg>> /\ Free(t, h)
    BY <1>7 DEF NativeFindClose
  <2>2. \A g \in Handles : SameOrNew(g)
    BY <1>t, <2>1, FreedHandle
  <2> QED
    BY <1>t, <2>1, <2>2, StatusKept
<1> QED
  BY <1>1, <1>2, <1>4, <1>5, <1>6, <1>7, RunningStatus DEF Next, Ended, vars

(* NativeFindLastStatus, which reads the status without the critical section *)
(* (:867), sees one that no call ends with only while another thread is in   *)
(* the critical section between two queries of its scan (or before the       *)
(* handle was returned, when nobody can ask), and "no more files" for good.  *)
THEOREM StatusIsFinal == Spec => []StatusSettled
<1>1. Init => StatusInv
  <2> SUFFICES ASSUME Init PROVE StatusInv
    OBVIOUS
  <2>1. \A h \in Handles : handle[h].ntStatus = "SUCCESS" /\ ~handle[h].bNoMoreFiles
    BY DEF Init, Unused
  <2>2. \A t \in Threads : pc[t] = "out"
    BY DEF Init
  <2> QED
    BY <2>1, <2>2 DEF StatusInv
<1>2. IndInv /\ StatusInv => StatusSettled
  <2> SUFFICES ASSUME IndInv, StatusInv PROVE StatusSettled
    OBVIOUS
  <2>1. ASSUME NEW h \in Handles, handle[h].ntStatus = "ALLOTTED_SPACE_EXCEEDED"
        PROVE  MidScan(h)
    <3>1. PICK t \in Threads : pc[t] = "settle" /\ arg[t] = h
      BY <2>1 DEF StatusInv
    <3>2. Inside(t)
      BY <3>1 DEF Inside
    <3>3. handle[h].returned => handle[h].owner = t
      BY <3>1, <3>2 DEF IndInv, LockInv
    <3> QED
      BY <3>1, <3>3 DEF MidScan
  <2> QED
    BY <2>1 DEF StatusInv, StatusSettled, NativeFindLastStatus
<1> QED
  BY <1>1, <1>2, Inductive, NextStatus, PTL DEF Spec
-----------------------------------------------------------------------------
(* Sums                                                                      *)

(* Of a collection of finite sets some are minimal.                          *)
LEMMA LeastSet ==
  ASSUME NEW S, IsFiniteSet(S), NEW B, B \subseteq SUBSET S, B # {}
  PROVE  \E s \in B : \A x \in s : s \ {x} \notin B
<1> DEFINE N == {Cardinality(s) : s \in B}
<1>1. \A s \in B : IsFiniteSet(s) /\ Cardinality(s) \in Nat
  BY FS_Subset, FS_CardinalityType
<1>2. N \subseteq Nat /\ N # {}
  BY <1>1
<1>3. IsWellFoundedOn(OpToRel(<, Nat), Nat)
  BY NatLessThanWellFounded
<1>4. \E m \in N : \A n \in N : ~ (<<n, m>> \in OpToRel(<, Nat))
  <2> HIDE DEF N
  <2> QED
    BY <1>2, <1>3, WFMin
<1>5. PICK m \in N : \A n \in N : ~ (<<n, m>> \in OpToRel(<, Nat))
  BY <1>4
<1>6. PICK s \in B : m = Cardinality(s)
  BY <1>5
<1>7. ASSUME NEW x \in s, s \ {x} \in B PROVE FALSE
  <2>1. Cardinality(s \ {x}) = Cardinality(s) - 1
    BY <1>1, <1>7, FS_RemoveElement
  <2>2. Cardinality(s \ {x}) \in N /\ Cardinality(s \ {x}) \in Nat /\ Cardinality(s) \in Nat
    BY <1>1, <1>7
  <2>3. <<Cardinality(s \ {x}), m>> \in OpToRel(<, Nat)
    BY <1>6, <2>1, <2>2 DEF OpToRel
  <2> QED
    BY <1>5, <2>2, <2>3
<1> QED
  BY <1>7

(* g[s] is the sum of f over s, for every part s of S.                       *)
Adds(g, f, S) ==
  /\ g \in [SUBSET S -> Int] /\ g[{}] = 0
  /\ \A s \in SUBSET S : \A x \in s : g[s] = f[x] + g[s \ {x}]

LEMMA AddsExists ==
  ASSUME NEW S, IsFiniteSet(S), NEW f, f \in [S -> Int]
  PROVE  \E g : Adds(g, f, S)
<1> DEFINE B == {T \in SUBSET S : ~\E g : Adds(g, f, T)}
<1>1. SUFFICES ASSUME B # {} PROVE FALSE
  <2>1. S \notin B => \E g : Adds(g, f, S)
    OBVIOUS
  <2> QED
    BY <2>1
<1>2. PICK T \in B : \A x \in T : T \ {x} \notin B
  <2>1. B \subseteq SUBSET S
    OBVIOUS
  <2> HIDE DEF B
  <2> QED
    BY <1>1, <2>1, LeastSet
<1>3. CASE T = {}
  <2> DEFINE g == [s \in SUBSET {} |-> 0]
  <2>1. Adds(g, f, {})
    BY DEF Adds
  <2> QED
    BY <1>3, <2>1
<1>4. CASE T # {}
  <2>1. PICK x \in T : TRUE
    BY <1>4
  <2>2. PICK g0 : Adds(g0, f, T \ {x})
    BY <1>2
  <2> DEFINE g == [s \in SUBSET T |-> IF x \in s THEN f[x] + g0[s \ {x}] ELSE g0[s]]
  <2>3. f[x] \in Int /\ \A y \in T : f[y] \in Int
    BY <2>1
  <2>4. ASSUME NEW s \in SUBSET T
        PROVE  /\ s \ {x} \in SUBSET (T \ {x}) /\ g0[s \ {x}] \in Int
               /\ x \notin s => s \in SUBSET (T \ {x}) /\ g0[s] \in Int
    BY <2>2 DEF Adds
  <2>5. g \in [SUBSET T -> Int]
    <3>1. ASSUME NEW s \in SUBSET T
          PROVE  (IF x \in s THEN f[x] + g0[s \ {x}] ELSE g0[s]) \in Int
      <4>1. CASE x \in s
        <5>1. g0[s \ {x}] \in Int
          BY <2>4
        <5> QED
          BY <2>3, <4>1, <5>1
      <4>2. CASE x \notin s
        BY <2>4, <4>2
      <4> QED
        BY <4>1, <4>2
    <3> QED
      BY <3>1
  <2>6. g[{}] = 0
    BY <2>2 DEF Adds
  <2>7. ASSUME NEW s \in SUBSET T, NEW y \in s
        PROVE  g[s] = f[y] + g[s \ {y}]
    <3>1. s \ {y} \in SUBSET T
      OBVIOUS
    <3>2. CASE y = x
      BY <3>1, <3>2
    <3>3. CASE y # x /\ x \in s
      <4>1. g[s] = f[x] + g0[s \ {x}] /\ g[s \ {y}] = f[x] + g0[(s \ {y}) \ {x}]
        BY <3>1, <3>3
      <4>2. y \in s \ {x}
        BY <3>3
      <4>3. g0[s \ {x}] = f[y] + g0[(s \ {x}) \ {y}]
        BY <2>2, <2>4, <4>2 DEF Adds
      <4>4. (s \ {x}) \ {y} = (s \ {y}) \ {x}
        OBVIOUS
      <4>5. g0[(s \ {y}) \ {x}] \in Int /\ f[y] \in Int
        BY <2>3, <2>4, <3>1
      <4>6. g0[s \ {x}] = f[y] + g0[(s \ {y}) \ {x}]
        BY <4>3, <4>4
      <4>7. f[x] + (f[y] + g0[(s \ {y}) \ {x}]) = f[y] + (f[x] + g0[(s \ {y}) \ {x}])
        BY <2>3, <4>5
      <4> HIDE DEF g
      <4> QED
        BY <4>1, <4>6, <4>7, Zenon
    <3>4. CASE x \notin s
      <4>1. g[s] = g0[s] /\ g[s \ {y}] = g0[s \ {y}]
        BY <3>1, <3>4
      <4>2. g0[s] = f[y] + g0[s \ {y}]
        BY <2>2, <2>4, <3>4 DEF Adds
      <4> QED
        BY <4>1, <4>2
    <3> QED
      BY <3>2, <3>3, <3>4
  <2> HIDE DEF g
  <2>8. Adds(g, f, T)
    BY <2>5, <2>6, <2>7 DEF Adds
  <2> QED
    BY <2>8
<1> QED
  BY <1>3, <1>4

(* Sums depend only on what is summed.                                       *)
LEMMA AddsAgree ==
  ASSUME NEW S, IsFiniteSet(S), NEW f, f \in [S -> Int], NEW f2, f2 \in [S -> Int],
         NEW g, Adds(g, f, S), NEW g2, Adds(g2, f2, S),
         NEW T \in SUBSET S, \A x \in T : f[x] = f2[x]
  PROVE  g[T] = g2[T]
<1> DEFINE B == {s \in SUBSET T : g[s] # g2[s]}
<1>1. SUFFICES ASSUME B # {} PROVE FALSE
  BY <1>1
<1>2. PICK s \in B : \A x \in s : s \ {x} \notin B
  <2>1. B \subseteq SUBSET S
    OBVIOUS
  <2> HIDE DEF B
  <2> QED
    BY <1>1, <2>1, LeastSet
<1>3. s # {}
  BY <1>2 DEF Adds
<1>4. PICK x \in s : TRUE
  BY <1>3
<1>5. s \in SUBSET S /\ s \ {x} \in SUBSET T /\ x \in T
  OBVIOUS
<1>6. g[s \ {x}] = g2[s \ {x}]
  BY <1>2, <1>5
<1>7. g[s] = f[x] + g[s \ {x}] /\ g2[s] = f2[x] + g2[s \ {x}]
  BY <1>5 DEF Adds
<1> QED
  BY <1>2, <1>5, <1>6, <1>7

(* Zeros add nothing.                                                        *)
LEMMA AddsZeros ==
  ASSUME NEW S, IsFiniteSet(S), NEW f, f \in [S -> Int], NEW g, Adds(g, f, S),
         NEW T \in SUBSET S, \A x \in T : f[x] = 0
  PROVE  g[T] = 0
<1> DEFINE B == {s \in SUBSET T : g[s] # 0}
<1>1. SUFFICES ASSUME B # {} PROVE FALSE
  BY <1>1
<1>2. PICK s \in B : \A x \in s : s \ {x} \notin B
  <2>1. B \subseteq SUBSET S
    OBVIOUS
  <2> HIDE DEF B
  <2> QED
    BY <1>1, <2>1, LeastSet
<1>3. s # {}
  BY <1>2 DEF Adds
<1>4. PICK x \in s : TRUE
  BY <1>3
<1>5. s \in SUBSET S /\ s \ {x} \in SUBSET T /\ x \in T
  OBVIOUS
<1>6. g[s \ {x}] = 0
  BY <1>2, <1>4, <1>5
<1>7. g[s] = f[x] + g[s \ {x}] /\ f[x] = 0
  BY <1>4, <1>5 DEF Adds
<1> QED
  BY <1>2, <1>6, <1>7

(* This is what SumFunctionOnSet computes.                                   *)
LEMMA SumAdds ==
  ASSUME NEW S, IsFiniteSet(S), NEW f, f \in [S -> Int], NEW g, Adds(g, f, S), NEW T \in SUBSET S
  PROVE  SumFunctionOnSet(f, T) = g[T]
<1> DEFINE Fixed(h) ==
             h = [s \in SUBSET T |-> IF s = {} THEN 0
                                     ELSE f[CHOOSE x \in s : TRUE] + h[s \ {CHOOSE x \in s : TRUE}]]
           c == CHOOSE h : Fixed(h)
<1>1. SumFunctionOnSet(f, T) = c[T]
  BY DEF SumFunctionOnSet, FoldFunctionOnSet, MapThenFoldSet
<1>2. ASSUME NEW s \in SUBSET T, s # {} PROVE (CHOOSE x \in s : TRUE) \in s
  BY <1>2
<1>3. Fixed([s \in SUBSET T |-> g[s]])
  <2> DEFINE h == [s \in SUBSET T |-> g[s]]
  <2>1. ASSUME NEW s \in SUBSET T
        PROVE  h[s] = IF s = {} THEN 0
                      ELSE f[CHOOSE x \in s : TRUE] + h[s \ {CHOOSE x \in s : TRUE}]
    <3>1. CASE s = {}
      BY <3>1 DEF Adds
    <3>2. CASE s # {}
      <4> DEFINE x == CHOOSE y \in s : TRUE
      <4>1. x \in s
        BY <1>2, <3>2
      <4> HIDE DEF x
      <4>2. s \in SUBSET S /\ s \ {x} \in SUBSET T
        OBVIOUS
      <4>3. g[s] = f[x] + g[s \ {x}]
        BY <4>1, <4>2 DEF Adds
      <4>4. h[s] = f[x] + h[s \ {x}]
        BY <4>2, <4>3
      <4> HIDE DEF h
      <4> QED
        BY <3>2, <4>4 DEF x
    <3> QED
      BY <3>1, <3>2
  <2> QED
    BY <2>1
<1>4. Fixed(c)
  BY <1>3, Zenon
<1> HIDE DEF c
<1> DEFINE B == {s \in SUBSET T : c[s] # g[s]}
<1>5. SUFFICES ASSUME B # {} PROVE FALSE
  BY <1>1, <1>5
<1>6. PICK s \in B : \A x \in s : s \ {x} \notin B
  <2>1. B \subseteq SUBSET S
    OBVIOUS
  <2> HIDE DEF B
  <2> QED
    BY <1>5, <2>1, LeastSet
<1>7. CASE s = {}
  <2>1. c[{}] = 0
    BY <1>4
  <2> QED
    BY <1>6, <1>7, <2>1 DEF Adds
<1>8. CASE s # {}
  <2> DEFINE x == CHOOSE y \in s : TRUE
  <2>1. x \in s
    BY <1>2, <1>8
  <2>2. c[s] = f[x] + c[s \ {x}]
    BY <1>4, <1>8
  <2> HIDE DEF x
  <2>3. s \ {x} \in SUBSET T /\ s \in SUBSET S
    OBVIOUS
  <2>4. c[s \ {x}] = g[s \ {x}]
    BY <1>6, <2>1, <2>3
  <2>5. g[s] = f[x] + g[s \ {x}]
    BY <2>1, <2>3 DEF Adds
  <2> QED
    BY <1>6, <2>2, <2>4, <2>5
<1> QED
  BY <1>7, <1>8

LEMMA SumOfZeros ==
  ASSUME NEW S, IsFiniteSet(S), NEW f, f \in [S -> Int],
         NEW T \in SUBSET S, \A x \in T : f[x] = 0
  PROVE  SumFunctionOnSet(f, T) = 0
<1>1. PICK g : Adds(g, f, S)
  BY AddsExists
<1>2. SumFunctionOnSet(f, T) = g[T] /\ g[T] = 0
  BY <1>1, SumAdds, AddsZeros
<1> QED
  BY <1>2

(* When what is summed changes at x only, the sum changes by as much.        *)
LEMMA SumShift ==
  ASSUME NEW S, IsFiniteSet(S), NEW f, f \in [S -> Int], NEW f2, f2 \in [S -> Int],
         NEW T \in SUBSET S, NEW T2 \in SUBSET S, NEW x \in S,
         \A y \in S : y # x => f2[y] = f[y] /\ (y \in T2 <=> y \in T),
         NEW a, a = IF x \in T THEN f[x] ELSE 0,
         NEW a2, a2 = IF x \in T2 THEN f2[x] ELSE 0
  PROVE  /\ SumFunctionOnSet(f, T) \in Int
         /\ SumFunctionOnSet(f2, T2) = (SumFunctionOnSet(f, T) - a) + a2
<1>1. PICK g : Adds(g, f, S)
  BY AddsExists
<1>2. PICK g2 : Adds(g2, f2, S)
  BY AddsExists
<1>3. SumFunctionOnSet(f, T) = g[T] /\ SumFunctionOnSet(f2, T2) = g2[T2]
  BY <1>1, <1>2, SumAdds
<1> DEFINE U == T \ {x}
<1>4. U \in SUBSET S /\ U = T \ {x} /\ U = T2 \ {x} /\ \A y \in U : f[y] = f2[y]
  OBVIOUS
<1> HIDE DEF U
<1>5. g[U] = g2[U] /\ g[U] \in Int
  <2>1. g[U] = g2[U]
    BY <1>1, <1>2, <1>4, AddsAgree
  <2> QED
    BY <1>1, <1>4, <2>1 DEF Adds
<1>6. g[T] = a + g[U]
  <2>1. CASE x \in T
    BY <1>1, <1>4, <2>1 DEF Adds
  <2>2. CASE x \notin T
    <3>1. U = T
      BY <1>4, <2>2
    <3> QED
      BY <1>5, <2>2, <3>1
  <2> QED
    BY <2>1, <2>2
<1>7. g2[T2] = a2 + g2[U]
  <2>1. CASE x \in T2
    BY <1>2, <1>4, <2>1 DEF Adds
  <2>2. CASE x \notin T2
    <3>1. U = T2
      BY <1>4, <2>2
    <3> QED
      BY <1>5, <2>2, <3>1
  <2> QED
    BY <2>1, <2>2
<1>8. a \in Int /\ a2 \in Int
  OBVIOUS
<1>9. g[T] \in Int /\ g2[T2] = (g[T] - a) + a2
  BY <1>5, <1>6, <1>7, <1>8
<1> QED
  BY <1>3, <1>9

-----------------------------------------------------------------------------
(* The counters of the threads                                               *)

Busy(t) == pc[t] = "enter" \/ Inside(t)

OpenedBy(t) == {h \in Handles : handle[h].opener = t}

(* As long as no handle has crossed, who is busy with one has opened it.     *)
OwnInv == ~crossed => \A t \in Threads : Busy(t) => handle[arg[t]].opener = t

SumInv == SumFunctionOnSet(s_llMemoryAllocated, Threads) = SumFunctionOnSet(Bytes, Handles)

ExactInv ==
  ~crossed => \A t \in Threads :
    s_llMemoryAllocated[t] = SumFunctionOnSet(Bytes, OpenedBy(t))

CounterInv == OwnInv /\ SumInv /\ ExactInv

SumTypes == s_llMemoryAllocated \in [Threads -> Int] /\ Bytes \in [Handles -> Int]

LEMMA BytesOf ==
  \A h \in Handles : Bytes[h] = IF handle[h].open THEN HandleSize + handle[h].cbBuffer ELSE 0
  BY DEF Bytes

LEMMA Summable == TypeOK => SumTypes
<1> SUFFICES ASSUME TypeOK PROVE SumTypes
  OBVIOUS
<1>1. \A h \in Handles : handle[h].cbBuffer \in Nat
  BY DEF TypeOK, Handle
<1>2. \A h \in Handles : (IF handle[h].open THEN HandleSize + handle[h].cbBuffer ELSE 0) \in Int
  BY <1>1, Sizes
<1>3. Bytes \in [Handles -> Int]
  BY <1>2 DEF Bytes
<1> QED
  BY <1>3 DEF TypeOK, SumTypes

(* A step that makes no handle larger or smaller, nor another's.             *)
SameExtent(h) ==
  /\ handle'[h].open = handle[h].open /\ handle'[h].cbBuffer = handle[h].cbBuffer
  /\ handle'[h].opener = handle[h].opener

LEMMA NothingAllocated ==
  ASSUME IndInv, CounterInv, \A h \in Handles : SameExtent(h),
         UNCHANGED s_llMemoryAllocated, crossed => crossed', OwnInv'
  PROVE  CounterInv'
<1>1. Bytes' = Bytes
  <2>1. \A h \in Handles : (IF handle'[h].open THEN HandleSize + handle'[h].cbBuffer ELSE 0)
                           = IF handle[h].open THEN HandleSize + handle[h].cbBuffer ELSE 0
    BY DEF SameExtent
  <2> QED
    BY <2>1 DEF Bytes
<1>2. \A t : OpenedBy(t)' = OpenedBy(t)
  BY DEF OpenedBy, SameExtent
<1>3. SumInv'
  BY <1>1 DEF CounterInv, SumInv
<1>4. ExactInv'
  BY <1>1, <1>2 DEF CounterInv, ExactInv
<1> QED
  BY <1>3, <1>4 DEF CounterInv

(* A step of t that makes handle h larger by d, or smaller.                  *)
LEMMA Allocated ==
  ASSUME IndInv, TypeOK', CounterInv, NEW t, t \in Threads, NEW h, h \in Handles, NEW d, d \in Int,
         s_llMemoryAllocated'[t] = s_llMemoryAllocated[t] + d,
         \A u \in Threads : u # t => s_llMemoryAllocated'[u] = s_llMemoryAllocated[u],
         Bytes'[h] = Bytes[h] + d,
         \A g \in Handles : g # h => handle'[g] = handle[g],
         crossed => crossed',
         ~crossed' => /\ handle[h].opener = t \/ Bytes[h] = 0
                      /\ handle'[h].opener = t \/ Bytes'[h] = 0,
         OwnInv'
  PROVE  CounterInv'
<1>1. SumTypes /\ SumTypes'
  <2>1. TypeOK
    BY DEF IndInv
  <2> QED
    BY <2>1, Summable, PTL
<1>2. /\ s_llMemoryAllocated \in [Threads -> Int] /\ s_llMemoryAllocated' \in [Threads -> Int]
      /\ Bytes \in [Handles -> Int] /\ Bytes' \in [Handles -> Int]
  BY <1>1 DEF SumTypes
<1>3. IsFiniteSet(Threads) /\ IsFiniteSet(Handles)
  BY ApiAssumption
<1>4. \A g \in Handles : g # h => Bytes'[g] = Bytes[g]
  BY DEF Bytes
<1>5. Bytes[h] \in Int /\ s_llMemoryAllocated[t] \in Int
  BY <1>2
<1>6. SumInv'
  <2>1. /\ SumFunctionOnSet(s_llMemoryAllocated, Threads) \in Int
        /\ SumFunctionOnSet(s_llMemoryAllocated', Threads)
             = (SumFunctionOnSet(s_llMemoryAllocated, Threads) - s_llMemoryAllocated[t])
                 + s_llMemoryAllocated'[t]
    BY <1>2, <1>3, SumShift
  <2>2. /\ SumFunctionOnSet(Bytes, Handles) \in Int
        /\ SumFunctionOnSet(Bytes', Handles)
             = (SumFunctionOnSet(Bytes, Handles) - Bytes[h]) + Bytes'[h]
    BY <1>2, <1>3, <1>4, SumShift
  <2>3. SumFunctionOnSet(s_llMemoryAllocated', Threads) = SumFunctionOnSet(Bytes', Handles)
    BY <1>5, <2>1, <2>2 DEF CounterInv, SumInv
  <2> QED
    BY <2>3 DEF SumInv
<1>7. ExactInv'
  <2> SUFFICES ASSUME ~crossed', NEW u \in Threads
               PROVE  s_llMemoryAllocated'[u] = SumFunctionOnSet(Bytes', OpenedBy(u)')
    BY DEF ExactInv
  <2> DEFINE T == OpenedBy(u)
             T2 == OpenedBy(u)'
             a == IF h \in T THEN Bytes[h] ELSE 0
             a2 == IF h \in T2 THEN Bytes'[h] ELSE 0
  <2>1. s_llMemoryAllocated[u] = SumFunctionOnSet(Bytes, T)
    BY DEF CounterInv, ExactInv
  <2>2. /\ T \in SUBSET Handles /\ T2 \in SUBSET Handles
        /\ h \in T <=> handle[h].opener = u
        /\ h \in T2 <=> handle'[h].opener = u
        /\ \A g \in Handles : g # h => (g \in T2 <=> g \in T)
    BY DEF OpenedBy
  <2>3. /\ handle[h].opener = t \/ Bytes[h] = 0
        /\ handle'[h].opener = t \/ Bytes'[h] = 0
    OBVIOUS
  <2>4. u = t => a = Bytes[h] /\ a2 = Bytes'[h]
    BY <2>2, <2>3
  <2>5. u # t => a = 0 /\ a2 = 0
    BY <2>2, <2>3
  <2>6. a = IF h \in T THEN Bytes[h] ELSE 0
    OBVIOUS
  <2>7. a2 = IF h \in T2 THEN Bytes'[h] ELSE 0
    OBVIOUS
  <2> HIDE DEF a, a2, T, T2
  <2>8. /\ SumFunctionOnSet(Bytes, T) \in Int
        /\ SumFunctionOnSet(Bytes', T2) = (SumFunctionOnSet(Bytes, T) - a) + a2
    BY <1>2, <1>3, <1>4, <2>2, <2>6, <2>7, SumShift
  <2>9. s_llMemoryAllocated'[u] = SumFunctionOnSet(Bytes', T2)
    BY <1>5, <2>1, <2>4, <2>5, <2>8
  <2> QED
    BY <2>9 DEF T2
<1> QED
  BY <1>6, <1>7 DEF CounterInv

(* Who is busy with a handle afterwards was so before, or has opened it.     *)
LEMMA OwnKept ==
  ASSUME IndInv, OwnInv, NEW t, t \in Threads, crossed => crossed',
         \A u \in Threads : u # t => pc'[u] = pc[u] /\ arg'[u] = arg[u],
         \A u \in Threads : u # t /\ Busy(u) => handle'[arg[u]].opener = handle[arg[u]].opener,
         ~crossed' /\ Busy(t)' => handle'[arg'[t]].opener = t
  PROVE  OwnInv'
<1> SUFFICES ASSUME ~crossed', NEW u \in Threads, Busy(u)'
             PROVE  handle'[arg'[u]].opener = u
  BY DEF OwnInv
<1>1. CASE u # t
  <2>1. Busy(u) /\ pc'[u] = pc[u] /\ arg'[u] = arg[u]
    BY <1>1 DEF Busy, Inside
  <2> QED
    BY <1>1, <2>1 DEF OwnInv
<1> QED
  BY <1>1

(* A step of t that leaves each handle its opener and its size.              *)
LEMMA QuietCounter ==
  ASSUME IndInv, CounterInv, NEW t, t \in Threads, NEW where, NEW a, NEW x,
         CallStep(t, where, a, x), \A h \in Handles : SameExtent(h),
         UNCHANGED s_llMemoryAllocated, crossed => crossed',
         \/ where \in {"out", "crashed"}
         \/ Busy(t) /\ a = arg[t]
         \/ ~crossed' => a \in Handles /\ handle[a].opener = t
  PROVE  CounterInv'
<1>1. /\ pc'[t] = where /\ arg'[t] = a
      /\ \A u \in Threads : u # t => pc'[u] = pc[u] /\ arg'[u] = arg[u]
  BY DEF CallStep
<1>2. \A h \in Handles : handle'[h].opener = handle[h].opener
  BY DEF SameExtent
<1>3. \A u \in Threads : arg[u] \in Handles
  BY DEF IndInv, TypeOK
<1>4. ASSUME ~crossed', Busy(t)' PROVE handle'[arg'[t]].opener = t
  <2>1. where \notin {"out", "crashed"}
    BY <1>1, <1>4 DEF Busy, Inside
  <2> QED
    BY <1>1, <1>2, <1>3, <1>4, <2>1 DEF CounterInv, OwnInv
<1>5. OwnInv'
  BY <1>1, <1>2, <1>3, <1>4, OwnKept DEF CounterInv
<1> QED
  BY <1>5, NothingAllocated

(* An update of a handle that is not one of its opener or size.              *)
LEMMA OneExtent ==
  ASSUME TypeOK, NEW h, h \in Handles, NEW r, handle' = [handle EXCEPT ![h] = r],
         r.open = handle[h].open, r.cbBuffer = handle[h].cbBuffer, r.opener = handle[h].opener
  PROVE  \A g \in Handles : SameExtent(g)
<1>1. handle'[h] = r /\ \A g \in Handles : g # h => handle'[g] = handle[g]
  BY DEF TypeOK
<1> QED
  BY <1>1, Zenon DEF SameExtent

LEMMA NoExtent == handle' = handle => \A g \in Handles : SameExtent(g)
  BY Zenon DEF SameExtent

LEMMA InitCounter ==
  ASSUME IndInv, CounterInv, NEW t \in Threads, NativeFindInit(t)
  PROVE  CounterInv'
<1>1. UNCHANGED <<pc, arg, handle, crossed, s_llMemoryAllocated>>
  BY DEF NativeFindInit
<1>2. OwnInv'
  BY <1>1 DEF CounterInv, OwnInv, Busy, Inside
<1> QED
  BY <1>1, <1>2, NoExtent, NothingAllocated

LEMMA CrashCounter ==
  ASSUME IndInv, CounterInv, NEW t \in Threads, NEW a \in Handles, Crash(t),
         UNCHANGED arg \/ arg' = [arg EXCEPT ![t] = a]
  PROVE  CounterInv'
<1>1. Goto(t, "crashed") /\ UNCHANGED <<s_llMemoryAllocated, taken, handle, crossed>>
  BY DEF Crash, perThread
<1>2. CallStep(t, "crashed", arg[t], taken[t]) \/ CallStep(t, "crashed", a, taken[t])
  BY <1>1, CallSteps DEF IndInv
<1> QED
  BY <1>1, <1>2, NoExtent, QuietCounter

LEMMA FirstFileCounter ==
  ASSUME IndInv, IndInv', CounterInv, NEW t \in Threads, NEW h \in Handles, NativeFindFirstFile(t, h)
  PROVE  CounterInv'
<1> DEFINE r == [Unused(t) EXCEPT !.open = TRUE]
<1>1. /\ pc[t] = "out" /\ ~handle[h].open /\ arg' = [arg EXCEPT ![t] = h] /\ Goto(t, "scan")
      /\ handle' = [handle EXCEPT ![h] = r]
      /\ s_llMemoryAllocated' = [s_llMemoryAllocated EXCEPT ![t] = @ + HandleSize]
      /\ UNCHANGED <<taken, crossed>>
  BY DEF NativeFindFirstFile, FindFirst
<1>2. TypeOK /\ TypeOK'
  BY DEF IndInv
<1>3. r.open /\ r.cbBuffer = 0 /\ r.opener = t
  BY DEF Unused
<1> HIDE DEF r
<1>4. handle'[h] = r /\ \A g \in Handles : g # h => handle'[g] = handle[g]
  BY <1>1, <1>2 DEF TypeOK
<1>5. /\ s_llMemoryAllocated'[t] = s_llMemoryAllocated[t] + HandleSize
      /\ \A u \in Threads : u # t => s_llMemoryAllocated'[u] = s_llMemoryAllocated[u]
  BY <1>1, <1>2 DEF TypeOK
<1>6. Bytes[h] = 0
  BY <1>1, BytesOf
<1>7. Bytes'[h] = HandleSize + 0
  <2>1. Bytes'[h] = IF handle'[h].open THEN HandleSize + handle'[h].cbBuffer ELSE 0
    BY DEF Bytes
  <2>2. handle'[h].open /\ handle'[h].cbBuffer = 0
    BY <1>3, <1>4, Zenon
  <2> QED
    BY <2>1, <2>2
<1>8. CallStep(t, "scan", h, taken[t])
  BY <1>1, <1>2, CallSteps
<1>9. OwnInv'
  <2>1. /\ arg'[t] = h /\ handle'[h].opener = t
        /\ \A u \in Threads : u # t => pc'[u] = pc[u] /\ arg'[u] = arg[u]
    BY <1>3, <1>4, <1>8, Zenon DEF CallStep
  <2>2. ASSUME NEW u \in Threads, u # t, Busy(u)
        PROVE  handle'[arg[u]].opener = handle[arg[u]].opener
    <3>1. arg[u] \in Handles /\ arg[u] # h
      BY <1>1, <2>2 DEF Busy, IndInv, LockInv, TypeOK
    <3> QED
      BY <1>4, <3>1
  <2> QED
    BY <1>1, <2>1, <2>2, OwnKept DEF CounterInv
<1>10. HandleSize \in Int /\ Bytes'[h] = Bytes[h] + HandleSize
  BY <1>6, <1>7, Sizes
<1>11. handle'[h].opener = t
  BY <1>3, <1>4, Zenon
<1> QED
  BY <1>1, <1>2, <1>4, <1>5, <1>6, <1>9, <1>10, <1>11, Allocated

LEMMA NextFileCounter ==
  ASSUME IndInv, CounterInv, NEW t \in Threads, NEW h \in Handles, NativeFindNextFile(t, h)
  PROVE  CounterInv'
<1>1. /\ Goto(t, "enter") /\ arg' = [arg EXCEPT ![t] = h]
      /\ UNCHANGED <<s_llMemoryAllocated, taken, handle>>
  BY DEF NativeFindNextFile, perThread
<1>2. crossed' = (crossed \/ handle[h].opener # t)
  BY DEF NativeFindNextFile
<1>3. (crossed => crossed') /\ (~crossed' => handle[h].opener = t)
  BY <1>2, Zenon
<1>4. CallStep(t, "enter", h, taken[t])
  BY <1>1, CallSteps DEF IndInv
<1> QED
  BY <1>1, <1>3, <1>4, NoExtent, QuietCounter

(* A handle is freed by t, with which no other call is busy.                 *)
LEMMA FreeCounter ==
  ASSUME IndInv, IndInv', CounterInv, NEW t \in Threads, NEW h \in Handles, Free(t, h),
         handle[h].open, ~crossed' => handle[h].opener = t, crossed => crossed',
         \A u \in Threads : u # t /\ Busy(u) => arg[u] # h,
         pc'[t] = "out",
         \A u \in Threads : u # t => pc'[u] = pc[u] /\ arg'[u] = arg[u]
  PROVE  CounterInv'
<1> DEFINE d == 0 - HandleSize - handle[h].cbBuffer
<1>1. TypeOK /\ TypeOK'
  BY DEF IndInv
<1>2. handle[h].cbBuffer \in Nat /\ s_llMemoryAllocated[t] \in Int
  BY <1>1 DEF TypeOK, Handle
<1>3. /\ handle'[h] = Unused(Someone)
      /\ \A g \in Handles : g # h => handle'[g] = handle[g]
  BY <1>1 DEF Free, TypeOK
<1>4. /\ s_llMemoryAllocated'[t] = s_llMemoryAllocated[t] - HandleSize - handle[h].cbBuffer
      /\ \A u \in Threads : u # t => s_llMemoryAllocated'[u] = s_llMemoryAllocated[u]
  BY <1>1 DEF Free, TypeOK
<1>5. Bytes[h] = HandleSize + handle[h].cbBuffer
  BY BytesOf
<1>6. Bytes'[h] = 0
  <2>1. Bytes'[h] = IF handle'[h].open THEN HandleSize + handle'[h].cbBuffer ELSE 0
    BY DEF Bytes
  <2>2. ~Unused(Someone).open
    BY DEF Unused
  <2>3. ~handle'[h].open
    BY <1>3, <2>2, Zenon
  <2> QED
    BY <2>1, <2>3
<1>7. d \in Int /\ s_llMemoryAllocated'[t] = s_llMemoryAllocated[t] + d /\ Bytes'[h] = Bytes[h] + d
  BY <1>2, <1>4, <1>5, <1>6, Sizes
<1>8. OwnInv'
  <2>1. ~Busy(t)'
    BY DEF Busy, Inside
  <2>2. \A u \in Threads : u # t /\ Busy(u) => handle'[arg[u]].opener = handle[arg[u]].opener
    BY <1>1, <1>3 DEF TypeOK
  <2> QED
    BY <2>1, <2>2, OwnKept DEF CounterInv
<1> HIDE DEF d
<1> QED
  BY <1>1, <1>3, <1>4, <1>6, <1>7, <1>8, Allocated

LEMMA CloseCounter ==
  ASSUME IndInv, IndInv', CounterInv, NEW t \in Threads, NEW h \in Handles, NativeFindClose(t, h)
  PROVE  CounterInv'
<1>1. /\ pc[t] = "out" /\ handle[h].open /\ ~InUse(h) /\ Free(t, h) /\ UNCHANGED <<pc, arg>>
  BY DEF NativeFindClose
<1>2. crossed' = (crossed \/ handle[h].opener # t)
  BY DEF NativeFindClose
<1>3. (crossed => crossed') /\ (~crossed' => handle[h].opener = t)
  BY <1>2, Zenon
<1>4. \A u \in Threads : u # t /\ Busy(u) => arg[u] # h
  BY <1>1 DEF InUse, Busy, Inside
<1> QED
  BY <1>1, <1>3, <1>4, FreeCounter

LEMMA FirstFailsCounter ==
  ASSUME IndInv, IndInv', CounterInv, NEW t \in Threads, FirstFails(t)
  PROVE  CounterInv'
<1>1. /\ pc[t] = "leave" /\ ~handle[arg[t]].returned /\ Free(t, arg[t]) /\ Return(t)
      /\ UNCHANGED crossed
  BY DEF FirstFails
<1>2. Inside(t) /\ Busy(t) /\ TypeOK
  BY <1>1 DEF Inside, Busy, IndInv
<1>3. arg[t] \in Handles /\ handle[arg[t]].open /\ Alone(t, arg[t])
  BY <1>2, AtWork
<1>4. \A u \in Threads : u # t /\ Busy(u) => arg[u] # arg[t]
  BY <1>1, <1>3 DEF Alone, Busy, IndInv, LockInv
<1>5. Goto(t, "out")
  BY <1>1 DEF Return
<1>6. CallStep(t, "out", Something, Nothing)
  BY <1>1, <1>2, <1>5, CallSteps
<1>7. ~crossed' => handle[arg[t]].opener = t
  BY <1>1, <1>2 DEF CounterInv, OwnInv
<1>8. pc'[t] = "out" /\ \A u \in Threads : u # t => pc'[u] = pc[u] /\ arg'[u] = arg[u]
  BY <1>6 DEF CallStep
<1> QED
  BY <1>1, <1>3, <1>4, <1>7, <1>8, FreeCounter

LEMMA ScanCounter ==
  ASSUME IndInv, IndInv', CounterInv, NEW t \in Threads, Scan(t)
  PROVE  CounterInv'
<1> DEFINE h == arg[t]
           new == Grown(t, handle[h].cbBuffer)
           d == new - handle[h].cbBuffer
<1>1. /\ pc[t] = "scan" /\ Goto(t, "settle")
      /\ s_llMemoryAllocated' = [s_llMemoryAllocated EXCEPT ![t] = @ + new - handle[h].cbBuffer]
      /\ UNCHANGED <<arg, taken, crossed>>
  BY DEF Scan
<1>2. Inside(t) /\ Busy(t) /\ TypeOK /\ TypeOK'
  BY <1>1 DEF Inside, Busy, IndInv
<1>3. h \in Handles /\ handle[h] \in Handle /\ handle[h].open
  BY <1>2, AtWork
<1>4. /\ handle'[h].cbBuffer = new /\ handle'[h].open = handle[h].open /\ handle'[h].opener = handle[h].opener
      /\ \A g \in Handles : g # h => handle'[g] = handle[g]
  <2>1. handle' = [handle EXCEPT ![h].cbBuffer = new, ![h].scan = @ + 1,
                                 ![h].ntStatus = "ALLOTTED_SPACE_EXCEEDED"]
    BY DEF Scan
  <2>2. handle \in [Handles -> Handle]
    BY <1>2 DEF TypeOK
  <2> HIDE DEF h, new
  <2> QED
    BY <1>3, <2>1, <2>2 DEF Handle
<1>5. handle[h].cbBuffer \in Nat /\ new \in Nat
  <2>1. handle[h].cbBuffer \in Nat
    BY <1>3 DEF Handle
  <2> QED
    BY <1>2, <2>1, GrownType
<1>6. /\ s_llMemoryAllocated[t] \in Int
      /\ s_llMemoryAllocated'[t] = s_llMemoryAllocated[t] + new - handle[h].cbBuffer
      /\ \A u \in Threads : u # t => s_llMemoryAllocated'[u] = s_llMemoryAllocated[u]
  BY <1>1, <1>2 DEF TypeOK
<1>7. Bytes[h] = HandleSize + handle[h].cbBuffer
  BY <1>3, BytesOf
<1>8. Bytes'[h] = HandleSize + new
  <2>1. Bytes'[h] = IF handle'[h].open THEN HandleSize + handle'[h].cbBuffer ELSE 0
    BY <1>3 DEF Bytes
  <2>2. handle'[h].open
    BY <1>3, <1>4, Zenon
  <2> QED
    BY <1>4, <2>1, <2>2
<1> HIDE DEF new
<1>9. d \in Int /\ s_llMemoryAllocated'[t] = s_llMemoryAllocated[t] + d /\ Bytes'[h] = Bytes[h] + d
  BY <1>5, <1>6, <1>7, <1>8, Sizes
<1> HIDE DEF h, d
<1>10. CallStep(t, "settle", h, taken[t])
  BY <1>1, <1>2, CallSteps DEF h
<1>11. ~crossed => handle[h].opener = t
  BY <1>2 DEF CounterInv, OwnInv, h
<1>12. OwnInv'
  <2>1. \A g \in Handles : handle'[g].opener = handle[g].opener
    BY <1>4
  <2>2. \A u \in Threads : arg[u] \in Handles
    BY <1>2 DEF TypeOK
  <2>3. arg'[t] = h /\ \A u \in Threads : u # t => pc'[u] = pc[u] /\ arg'[u] = arg[u]
    BY <1>10 DEF CallStep
  <2> QED
    BY <1>1, <1>3, <1>11, <2>1, <2>2, <2>3, OwnKept DEF CounterInv
<1> QED
  BY <1>1, <1>2, <1>3, <1>4, <1>6, <1>9, <1>11, <1>12, Allocated

LEMMA RunningCounter ==
  ASSUME IndInv, IndInv', CounterInv, NEW t \in Threads, Running(t)
  PROVE  CounterInv'
<1> DEFINE h == arg[t]
<1>1. TypeOK /\ h \in Handles /\ handle[h] \in Handle
  BY DEF IndInv, TypeOK
<1>2. CASE ScanCrashes(t) \/ LeaveCrashes(t)
  <2>1. Crash(t) /\ UNCHANGED arg
    BY <1>2 DEF ScanCrashes, LeaveCrashes
  <2> QED
    BY <1>1, <2>1, CrashCounter
<1>3. ASSUME NEW where, NEW a, NEW x, CallStep(t, where, a, x), a = arg[t] \/ where = "out",
             \A g \in Handles : SameExtent(g), UNCHANGED <<crossed, s_llMemoryAllocated>>, Busy(t)
      PROVE  CounterInv'
  BY <1>3, QuietCounter
<1>4. CASE TakeNothing(t) \/ Copy(t)
  <2>1. /\ pc[t] \in {"scan", "copy"} /\ Goto(t, "leave")
        /\ UNCHANGED <<handle, crossed, s_llMemoryAllocated, arg>>
        /\ taken' = taken \/ taken' = [taken EXCEPT ![t] = Nothing]
    BY <1>4 DEF TakeNothing, Copy, perThread
  <2>2. CallStep(t, "leave", arg[t], taken[t]) \/ CallStep(t, "leave", arg[t], Nothing)
    BY <1>1, <2>1, CallSteps
  <2>3. Busy(t)
    BY <2>1 DEF Busy, Inside
  <2> QED
    BY <1>3, <2>1, <2>2, <2>3, NoExtent
<1>5. CASE Enter(t)
  <2>1. /\ pc[t] = "enter" /\ Goto(t, "scan")
        /\ UNCHANGED <<crossed, s_llMemoryAllocated, arg, taken>>
        /\ handle' = [handle EXCEPT ![h] = [handle[h] EXCEPT !.owner = t]]
    BY <1>5 DEF Enter, perThread
  <2>2. \A g \in Handles : SameExtent(g)
    BY <1>1, <2>1, OneExtent DEF Handle
  <2>3. CallStep(t, "scan", arg[t], taken[t]) /\ Busy(t)
    BY <1>1, <2>1, CallSteps DEF Busy
  <2> QED
    BY <1>3, <2>1, <2>2, <2>3
<1>6. CASE Take(t)
  <2> DEFINE x == [entry |-> handle[h].pos + 1, scan |-> handle[h].scan]
  <2>1. /\ pc[t] = "scan" /\ Goto(t, "copy")
        /\ UNCHANGED <<crossed, s_llMemoryAllocated, arg>>
        /\ taken' = [taken EXCEPT ![t] = x]
        /\ handle' = [handle EXCEPT ![h] = [handle[h] EXCEPT !.pos = @ + 1]]
    BY <1>6 DEF Take, perThread
  <2> HIDE DEF x
  <2>2. \A g \in Handles : SameExtent(g)
    BY <1>1, <2>1, OneExtent DEF Handle
  <2>3. CallStep(t, "copy", arg[t], x) /\ Busy(t)
    BY <1>1, <2>1, CallSteps DEF Busy, Inside
  <2> QED
    BY <1>3, <2>1, <2>2, <2>3
<1>7. CASE Leave(t) \/ FirstReturns(t)
  <2>1. /\ pc[t] = "leave" /\ Return(t)
        /\ UNCHANGED <<crossed, s_llMemoryAllocated>>
        /\ \/ handle' = [handle EXCEPT ![h] = [handle[h] EXCEPT !.owner = NoThread]]
           \/ handle' = [handle EXCEPT ![h] = [handle[h] EXCEPT !.returned = TRUE]]
    BY <1>7 DEF Leave, FirstReturns, perThread
  <2>2. \A g \in Handles : SameExtent(g)
    BY <1>1, <2>1, OneExtent DEF Handle
  <2>3. CallStep(t, "out", Something, Nothing) /\ Busy(t)
    BY <1>1, <2>1, CallSteps DEF Busy, Inside, Return
  <2> QED
    BY <1>3, <2>1, <2>2, <2>3
<1>8. CASE Settle(t)
  <2>1. /\ pc[t] = "settle" /\ UNCHANGED <<crossed, s_llMemoryAllocated, arg>>
        /\ taken' = [taken EXCEPT ![t] = Nothing]
    BY <1>8 DEF Settle, perThread
  <2>2. PICK r : /\ handle' = [handle EXCEPT ![h] = r]
                 /\ r.open = handle[h].open /\ r.cbBuffer = handle[h].cbBuffer
                 /\ r.opener = handle[h].opener
                 /\ Goto(t, "scan") \/ Goto(t, "leave")
    <3>1. CASE \E upTo \in handle[h].fetched + 1 .. Entries :
                 /\ handle' = [handle EXCEPT ![h].fetched = upTo, ![h].ntStatus = "SUCCESS"]
                 /\ Goto(t, "scan")
      <4>1. PICK upTo \in handle[h].fetched + 1 .. Entries :
                 /\ handle' = [handle EXCEPT ![h].fetched = upTo, ![h].ntStatus = "SUCCESS"]
                 /\ Goto(t, "scan")
        BY <3>1
      <4> DEFINE r == [handle[h] EXCEPT !.fetched = upTo, !.ntStatus = "SUCCESS"]
      <4>2. handle' = [handle EXCEPT ![h] = r]
        BY <1>1, <4>1 DEF TypeOK
      <4>3. r.open = handle[h].open /\ r.cbBuffer = handle[h].cbBuffer /\ r.opener = handle[h].opener
        BY <1>1 DEF Handle
      <4> QED
        BY <4>1, <4>2, <4>3
    <3>2. CASE /\ handle' = [handle EXCEPT ![h].ntStatus = "NO_MORE_FILES", ![h].bNoMoreFiles = TRUE]
               /\ Goto(t, "leave")
      <4> DEFINE r == [handle[h] EXCEPT !.ntStatus = "NO_MORE_FILES", !.bNoMoreFiles = TRUE]
      <4>2. handle' = [handle EXCEPT ![h] = r]
        BY <1>1, <3>2 DEF TypeOK
      <4>3. r.open = handle[h].open /\ r.cbBuffer = handle[h].cbBuffer /\ r.opener = handle[h].opener
        BY <1>1 DEF Handle
      <4> QED
        BY <3>2, <4>2, <4>3
    <3>3. CASE /\ handle' = [handle EXCEPT ![h].ntStatus = "ERROR", ![h].errors = @ + 1]
               /\ Goto(t, "leave")
      <4> DEFINE r == [handle[h] EXCEPT !.ntStatus = "ERROR", !.errors = @ + 1]
      <4>2. handle' = [handle EXCEPT ![h] = r]
        BY <1>1, <3>3 DEF TypeOK
      <4>3. r.open = handle[h].open /\ r.cbBuffer = handle[h].cbBuffer /\ r.opener = handle[h].opener
        BY <1>1 DEF Handle
      <4> QED
        BY <3>3, <4>2, <4>3
    <3> QED
      BY <1>8, <3>1, <3>2, <3>3 DEF Settle
  <2>3. \A g \in Handles : SameExtent(g)
    BY <1>1, <2>2, OneExtent
  <2>4. (CallStep(t, "scan", arg[t], Nothing) \/ CallStep(t, "leave", arg[t], Nothing)) /\ Busy(t)
    BY <1>1, <2>1, <2>2, CallSteps DEF Busy, Inside
  <2> QED
    BY <1>3, <2>1, <2>3, <2>4
<1> QED
  BY <1>2, <1>4, <1>5, <1>6, <1>7, <1>8, ScanCounter, FirstFailsCounter DEF Running

LEMMA NextCounter == IndInv /\ IndInv' /\ CounterInv /\ [Next]_vars => CounterInv'
<1> SUFFICES ASSUME IndInv, IndInv', CounterInv, [Next]_vars PROVE CounterInv'
  OBVIOUS
<1>1. CASE UNCHANGED vars
  <2>1. UNCHANGED <<pc, arg, handle, crossed, s_llMemoryAllocated>>
    BY <1>1 DEF vars, perThread
  <2>2. OwnInv'
    BY <2>1 DEF CounterInv, OwnInv, Busy, Inside
  <2> QED
    BY <2>1, <2>2, NoExtent, NothingAllocated
<1>2. ASSUME NEW t \in Threads, NEW h \in Handles, FirstFileCrashes(t, h) \/ CloseCrashes(t, h)
      PROVE  CounterInv'
  <2>1. Crash(t) /\ (UNCHANGED arg \/ arg' = [arg EXCEPT ![t] = h])
    BY <1>2 DEF FirstFileCrashes, FindFirst, CloseCrashes
  <2> QED
    BY <2>1, CrashCounter
<1>3. CASE Next
  BY <1>1, <1>2, <1>3, InitCounter, FirstFileCounter, NextFileCounter, CloseCounter,
     RunningCounter DEF Next, Ended
<1> QED
  BY <1>1, <1>3

LEMMA CounterAtStart == Init => CounterInv
<1> SUFFICES ASSUME Init PROVE CounterInv
  OBVIOUS
<1>1. SumTypes
  BY InitTypeOK, Summable
<1>2. \A t \in Threads : s_llMemoryAllocated[t] = 0 /\ pc[t] = "out"
  BY DEF Init
<1>3. \A h \in Handles : Bytes[h] = 0
  <2>1. ~Unused(Someone).open
    BY DEF Unused
  <2>2. \A h \in Handles : ~handle[h].open
    BY <2>1, Zenon DEF Init
  <2> QED
    BY <2>2, BytesOf
<1>4. IsFiniteSet(Threads) /\ IsFiniteSet(Handles)
  BY ApiAssumption
<1>5. OwnInv
  BY <1>2 DEF OwnInv, Busy, Inside
<1>6. SumFunctionOnSet(s_llMemoryAllocated, Threads) = 0
  BY <1>1, <1>2, <1>4, SumOfZeros DEF SumTypes
<1>7. \A T \in SUBSET Handles : SumFunctionOnSet(Bytes, T) = 0
  BY <1>1, <1>3, <1>4, SumOfZeros DEF SumTypes
<1>8. SumInv
  BY <1>6, <1>7 DEF SumInv
<1>9. \A t : OpenedBy(t) \in SUBSET Handles
  BY DEF OpenedBy
<1>10. ExactInv
  BY <1>2, <1>7, <1>9 DEF ExactInv
<1> QED
  BY <1>5, <1>8, <1>10 DEF CounterInv

(* However the threads share the handles, their counters                     *)
(* (NativeFindGetAllocatedBytes) add up to what is allocated, and each of    *)
(* them is what its thread has allocated unless a handle has crossed.        *)
THEOREM CountersExact == Spec => []CountersAddUp
<1>1. TypeOK /\ CounterInv => CountersAddUp
  <2> SUFFICES ASSUME TypeOK, CounterInv PROVE CountersAddUp
    OBVIOUS
  <2>1. SumTypes
    BY Summable
  <2>2. DOMAIN s_llMemoryAllocated = Threads /\ DOMAIN Bytes = Handles
    BY <2>1 DEF SumTypes
  <2>3. AllocatedBytesConserved
    BY <2>2 DEF AllocatedBytesConserved, SumFunction, CounterInv, SumInv
  <2>4. ConfinedCounterExact
    BY DEF ConfinedCounterExact, OpenedBy, CounterInv, ExactInv
  <2> QED
    BY <2>3, <2>4 DEF CountersAddUp
<1>2. IndInv => TypeOK
  BY DEF IndInv
<1> QED
  BY <1>1, <1>2, CounterAtStart, NextCounter, Inductive, PTL DEF Spec
=============================================================================
