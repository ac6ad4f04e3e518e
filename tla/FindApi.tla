-------------------------------- MODULE FindApi --------------------------------
(***************************************************************************)
(* The find API of ntfindfile.c used by several threads: the critical      *)
(* section of a find handle, the counters and function pointers that are   *)
(* kept per thread, and NativeFindInit, which resolves the latter when the *)
(* library is built with NTFINDFILE_DYNAMIC.                               *)
(*                                                                         *)
(* What one call does to the buffer is the subject of FindHandle; here a   *)
(* scan of the kernel fetches some more entries of the listing, passing    *)
(* through a state in which neither buffer nor status are final.  A caller *)
(* may share a handle but does not close it while another call runs on it. *)
(***************************************************************************)
EXTENDS Integers, Sequences, FiniteSetsExt

CONSTANTS
  Threads, Handles,
  NoThread,     \* nobody
  Entries,      \* how many entries the listing has
  Ntdlls,       \* sets of functions that an ntdll.dll may export
  DefaultSize,  \* NTFIND_LARGE_BUFFER_SIZE
  InitSizes,    \* sizes NativeFindInit may be called with, 0 for the default
  MaxSize,      \* NTFIND_LARGE_BUFFER_MAXSIZE
  HandleSize,   \* sizeof(NTFIND_HANDLE)
  MaxErrors,    \* bound on the queries that fail on one handle
  MaxAllocated  \* bound on the threads' counters when a handle is opened

(* The functions the library calls.  WithStatus and U are the two forms of   *)
(* RtlDosPathNameToNtPathName_U.                                             *)
Opening == {"NtOpenFile", "RtlCreateUnicodeString"}
Reporting == {"RtlNtStatusToDosError", "RtlFreeUnicodeString", "RtlInitUnicodeString"}
Required == Opening \cup Reporting \cup {"NtQueryDirectoryFile", "NtClose"}
Functions == Required \cup {"U", "WithStatus"}

ASSUME ApiAssumption ==
  /\ Threads # {} /\ IsFiniteSet(Threads) /\ Handles # {} /\ IsFiniteSet(Handles)
  /\ NoThread \notin Threads
  /\ Ntdlls \subseteq SUBSET Functions
  /\ {Entries, DefaultSize, MaxSize, HandleSize, MaxErrors, MaxAllocated} \subseteq Nat
  /\ InitSizes \subseteq Nat
  /\ 0 < DefaultSize /\ DefaultSize <= MaxSize

VARIABLES
  dynamic,            \* is NTFINDFILE_DYNAMIC defined?
  exported,           \* the functions of the system's ntdll.dll
  pc,                 \* the point in each thread's call
  hNtDll,             \* per thread: is the module handle kept?
  pfn,                \* per thread: the function pointers that are not NULL
  s_uInitialBufSize,  \* per thread
  s_llMemoryAllocated, \* per thread
  arg,                \* the handle each thread's call is about
  taken,              \* per thread: dirinfo, [entry, scan]
  handle,             \* the find handles, see Handle
  delivered,          \* ghost, per handle: the entries copied to a caller
  crossed             \* ghost: has a handle been used by a second thread?

perThread == <<hNtDll, pfn, s_uInitialBufSize, s_llMemoryAllocated>>
system == <<dynamic, exported>>
vars == <<system, pc, perThread, arg, taken, handle, delivered, crossed>>

(* owner: of csFindHandle; returned: has NativeFindFirstFile returned it?;   *)
(* fetched, pos: entries fetched from the kernel and taken by callers;       *)
(* scan: counts the scans, so that it names the contents of the buffer.      *)
Statuses == {"SUCCESS", "NO_MORE_FILES", "ERROR", "ALLOTTED_SPACE_EXCEEDED"}
Handle == [open : BOOLEAN, returned : BOOLEAN, opener : Threads, owner : Threads \cup {NoThread},
           ntStatus : Statuses, bNoMoreFiles : BOOLEAN, pos : 0..Entries,
           fetched : 0..Entries, scan : Nat, errors : 0..MaxErrors, cbBuffer : Nat]

Someone == CHOOSE t \in Threads : TRUE
Something == CHOOSE h \in Handles : TRUE
Nothing == [entry |-> 0, scan |-> 0]

Unused(t) ==
  [open |-> FALSE, returned |-> FALSE, opener |-> t, owner |-> NoThread,
   ntStatus |-> "SUCCESS", bNoMoreFiles |-> FALSE, pos |-> 0,
   fetched |-> 0, scan |-> 0, errors |-> 0, cbBuffer |-> 0]

TypeOK ==
  /\ dynamic \in BOOLEAN /\ exported \in Ntdlls /\ crossed \in BOOLEAN
  /\ pc \in [Threads -> {"out", "enter", "scan", "settle", "copy", "leave", "crashed"}]
  /\ hNtDll \in [Threads -> BOOLEAN]
  /\ pfn \in [Threads -> SUBSET Functions]
  /\ s_uInitialBufSize \in [Threads -> Nat \ {0}]
  /\ s_llMemoryAllocated \in [Threads -> Int]
  /\ arg \in [Threads -> Handles]
  /\ taken \in [Threads -> [entry : 0..Entries, scan : Nat]]
  /\ handle \in [Handles -> Handle]
  /\ delivered \in [Handles -> Seq(1..Entries)]

Init ==
  /\ exported \in Ntdlls /\ crossed = FALSE
  /\ dynamic \in {exported # Functions, TRUE}   \* linked, every function is there
  /\ pc = [t \in Threads |-> "out"]
  /\ hNtDll = [t \in Threads |-> FALSE]
  /\ pfn = [t \in Threads |-> IF dynamic THEN {} ELSE Functions]
  /\ s_uInitialBufSize = [t \in Threads |-> DefaultSize]
  /\ s_llMemoryAllocated = [t \in Threads |-> 0]
  /\ arg = [t \in Threads |-> Something]
  /\ taken = [t \in Threads |-> Nothing]
  /\ handle = [h \in Handles |-> Unused(Someone)]
  /\ delivered = [h \in Handles |-> <<>>]

Goto(t, where) == pc' = [pc EXCEPT ![t] = where]

(* A return to the caller; the thread's locals are gone.                     *)
Return(t) ==
  /\ Goto(t, "out")
  /\ arg' = [arg EXCEPT ![t] = Something]
  /\ taken' = [taken EXCEPT ![t] = Nothing]

-----------------------------------------------------------------------------
(* NativeFindInit                                                            *)

(* Mutant: the functions are not looked at.                                  *)
AnyFound(found) == TRUE

Sufficient(found) == Required \subseteq found

(* The module, which every process has, is looked up once per thread;  *)
(* a second call only changes the size.  When a function is missing the      *)
(* module handle is forgotten, the pointers that were found stay.  The       *)
(* fallback stands in for WithStatus.                                        *)
NativeFindInit(t) ==
  /\ pc[t] = "out"
  /\ \E size \in InitSizes :
       s_uInitialBufSize' = [s_uInitialBufSize EXCEPT ![t] = IF size = 0 THEN DefaultSize ELSE size]
  /\ IF dynamic /\ ~hNtDll[t]
     THEN LET found == exported \cup {"WithStatus"}
          IN  /\ pfn' = [pfn EXCEPT ![t] = found]
              /\ hNtDll' = [hNtDll EXCEPT ![t] = Sufficient(found)]
     ELSE UNCHANGED <<pfn, hNtDll>>
  /\ UNCHANGED <<system, pc, s_llMemoryAllocated, arg, taken, handle, delivered, crossed>>

Calls(t, functions) == functions \subseteq pfn[t]

(* A call through a pointer that is NULL in this thread: an access violation,  *)
(* which ends the process.  Only NativeFindClose handles it (:860): if it can  *)
(* convert the status it returns FALSE, but the critical section is kept for   *)
(* good.  What such a thread does afterwards is left out.                      *)
Crash(t) ==
  /\ Goto(t, "crashed")
  /\ UNCHANGED <<system, perThread, taken, handle, delivered, crossed>>

-----------------------------------------------------------------------------
(* The calls                                                                 *)

(* What the ways out of an opening that fails call.                          *)
Failing == {"RtlFreeUnicodeString", "RtlNtStatusToDosError", "NtClose"}

(* The fallback fails in an orderly way when there is no U either.           *)
CanConvert(t) == dynamic /\ "WithStatus" \notin exported => "U" \in pfn[t]

FindFirst(t, h) ==
  /\ pc[t] = "out" /\ ~handle[h].open
  /\ \A u \in Threads : s_llMemoryAllocated[u] \in -MaxAllocated..MaxAllocated
  /\ arg' = [arg EXCEPT ![t] = h]

(* An opening may fail at any point; then the strings are freed, the         *)
(* directory is closed and the status is converted.                          *)
FirstFileCrashes(t, h) ==
  /\ FindFirst(t, h)
  /\ ~Calls(t, Opening \cup Failing \cup {"WithStatus"})
  /\ Crash(t)

NativeFindFirstFile(t, h) ==
  /\ FindFirst(t, h)
  /\ Calls(t, Opening \cup {"WithStatus"}) /\ CanConvert(t)
  /\ Goto(t, "scan")
  /\ handle' = [handle EXCEPT ![h] = [Unused(t) EXCEPT !.open = TRUE]]
  /\ s_llMemoryAllocated' = [s_llMemoryAllocated EXCEPT ![t] = @ + HandleSize]
  /\ UNCHANGED <<system, hNtDll, pfn, s_uInitialBufSize, taken, delivered, crossed>>

NativeFindNextFile(t, h) ==
  /\ pc[t] = "out" /\ handle[h].open /\ handle[h].returned
  /\ Goto(t, "enter") /\ arg' = [arg EXCEPT ![t] = h]
  /\ crossed' = (crossed \/ handle[h].opener # t)
  /\ UNCHANGED <<system, perThread, taken, handle, delivered>>

InUse(h) == \E t \in Threads : pc[t] # "out" /\ arg[t] = h

(* Mutant: the buffer is not counted.                                        *)
FreeHandleOnly(t, h) ==
  /\ delivered' = [delivered EXCEPT ![h] = <<>>]
  /\ handle' = [handle EXCEPT ![h] = Unused(Someone)]
  /\ s_llMemoryAllocated' = [s_llMemoryAllocated EXCEPT ![t] = @ - HandleSize]

(* freeFindHandle_ is called by the caller's thread; its counter goes down   *)
(* by what the handle has, whoever has allocated that.                       *)
Free(t, h) ==
  /\ delivered' = [delivered EXCEPT ![h] = <<>>]
  /\ handle' = [handle EXCEPT ![h] = Unused(Someone)]
  /\ s_llMemoryAllocated' = [s_llMemoryAllocated EXCEPT ![t] = @ - HandleSize - handle[h].cbBuffer]

CloseCrashes(t, h) ==
  /\ pc[t] = "out" /\ handle[h].open /\ ~InUse(h)
  /\ ~Calls(t, {"NtClose"})
  /\ Crash(t) /\ UNCHANGED arg

NativeFindClose(t, h) ==
  /\ pc[t] = "out" /\ handle[h].open /\ ~InUse(h)
  /\ Calls(t, {"NtClose"})
  /\ Free(t, h)
  /\ crossed' = (crossed \/ handle[h].opener # t)
  /\ UNCHANGED <<system, pc, hNtDll, pfn, s_uInitialBufSize, arg, taken>>

-----------------------------------------------------------------------------
(* The critical section and what is done in it.  NativeFindFirstFile, whose  *)
(* handle nobody else has yet, does the same without it.                     *)

Enter(t) ==
  /\ pc[t] = "enter" /\ handle[arg[t]].owner \in {NoThread, t}
  /\ Goto(t, "scan")
  /\ handle' = [handle EXCEPT ![arg[t]].owner = t]
  /\ UNCHANGED <<system, perThread, arg, taken, delivered, crossed>>

(* Mutant: the end of the listing is not remembered.                         *)
NeedsQueryAgain(h) == handle[h].pos = handle[h].fetched

NeedsQuery(h) == handle[h].pos = handle[h].fetched /\ ~handle[h].bNoMoreFiles

ScanCrashes(t) ==
  /\ pc[t] = "scan" /\ NeedsQuery(arg[t])
  /\ ~Calls(t, {"NtQueryDirectoryFile"})
  /\ Crash(t) /\ UNCHANGED arg

Grown(t, cb) == IF cb = 0 THEN s_uInitialBufSize[t] ELSE Max({cb, Min({2 * cb, MaxSize})})

(* The buffer grows if it can, its size becoming the initial one of this     *)
(* thread if that was smaller, and the query is repeated.                    *)
Scan(t) ==
  /\ pc[t] = "scan" /\ NeedsQuery(arg[t]) /\ Calls(t, {"NtQueryDirectoryFile"})
  /\ LET h == arg[t]
         new == Grown(t, handle[h].cbBuffer)
     IN  /\ handle' = [handle EXCEPT ![h].cbBuffer = new, ![h].scan = @ + 1,
                                     ![h].ntStatus = "ALLOTTED_SPACE_EXCEEDED"]
         /\ s_llMemoryAllocated' =
              [s_llMemoryAllocated EXCEPT ![t] = @ + new - handle[h].cbBuffer]
         /\ s_uInitialBufSize' = [s_uInitialBufSize EXCEPT ![t] = Max({@, new})]
  /\ Goto(t, "settle")
  /\ UNCHANGED <<system, hNtDll, pfn, arg, taken, delivered, crossed>>

(* The last query: more entries, the end, or an error.                       *)
Settle(t) ==
  /\ pc[t] = "settle"
  /\ LET h == arg[t]
     IN \/ \E upTo \in handle[h].fetched + 1 .. Entries :
             /\ handle' = [handle EXCEPT ![h].fetched = upTo, ![h].ntStatus = "SUCCESS"]
             /\ Goto(t, "scan")
        \/ /\ handle[h].fetched = Entries
           /\ handle' = [handle EXCEPT ![h].ntStatus = "NO_MORE_FILES", ![h].bNoMoreFiles = TRUE]
           /\ Goto(t, "leave")
        \/ /\ handle[h].errors < MaxErrors
           /\ handle' = [handle EXCEPT ![h].ntStatus = "ERROR", ![h].errors = @ + 1]
           /\ Goto(t, "leave")
  /\ taken' = [taken EXCEPT ![t] = Nothing]
  /\ UNCHANGED <<system, perThread, arg, delivered, crossed>>

(* Mutant: the critical section is left before the entry is copied.          *)
TakeAndLeave(t) ==
  /\ pc[t] = "scan" /\ handle[arg[t]].pos < handle[arg[t]].fetched
  /\ handle' = [handle EXCEPT ![arg[t]].pos = @ + 1, ![arg[t]].owner = NoThread]
  /\ taken' = [taken EXCEPT ![t] = [entry |-> handle[arg[t]].pos + 1, scan |-> handle[arg[t]].scan]]
  /\ Goto(t, "copy")
  /\ UNCHANGED <<system, perThread, arg, delivered, crossed>>

Take(t) ==
  /\ pc[t] = "scan" /\ handle[arg[t]].pos < handle[arg[t]].fetched
  /\ handle' = [handle EXCEPT ![arg[t]].pos = @ + 1]
  /\ taken' = [taken EXCEPT ![t] = [entry |-> handle[arg[t]].pos + 1, scan |-> handle[arg[t]].scan]]
  /\ Goto(t, "copy")
  /\ UNCHANGED <<system, perThread, arg, delivered, crossed>>

(* The end has been seen in an earlier call.                                 *)
TakeNothing(t) ==
  /\ pc[t] = "scan" /\ ~NeedsQuery(arg[t]) /\ handle[arg[t]].pos = handle[arg[t]].fetched
  /\ taken' = [taken EXCEPT ![t] = Nothing]
  /\ Goto(t, "leave")
  /\ UNCHANGED <<system, perThread, arg, handle, delivered, crossed>>

Copy(t) ==
  /\ pc[t] = "copy"
  /\ delivered' = [delivered EXCEPT ![arg[t]] = Append(@, taken[t].entry)]
  /\ Goto(t, "leave")
  /\ UNCHANGED <<system, perThread, arg, taken, handle, crossed>>

(* Mutant: the critical section is kept when there is no entry.              *)
LeaveIfEntry(t) ==
  /\ pc[t] = "leave" /\ handle[arg[t]].returned
  /\ handle' = [handle EXCEPT ![arg[t]].owner = IF taken[t].entry = 0 THEN @ ELSE NoThread]
  /\ Return(t)
  /\ UNCHANGED <<system, perThread, delivered, crossed>>

ErrorTold(t) == taken[t].entry # 0 \/ Calls(t, {"RtlNtStatusToDosError"})

Leave(t) ==
  /\ pc[t] = "leave" /\ handle[arg[t]].returned /\ ErrorTold(t)
  /\ handle' = [handle EXCEPT ![arg[t]].owner = NoThread]
  /\ Return(t)
  /\ UNCHANGED <<system, perThread, delivered, crossed>>

(* NativeFindFirstFile returns the handle, or frees it when there is no      *)
(* first entry.                                                              *)
FirstReturns(t) ==
  /\ pc[t] = "leave" /\ ~handle[arg[t]].returned /\ taken[t].entry # 0
  /\ handle' = [handle EXCEPT ![arg[t]].returned = TRUE]
  /\ Return(t)
  /\ UNCHANGED <<system, perThread, delivered, crossed>>

FirstFails(t) ==
  /\ pc[t] = "leave" /\ ~handle[arg[t]].returned /\ taken[t].entry = 0
  /\ Calls(t, {"NtClose"}) /\ ErrorTold(t)
  /\ Free(t, arg[t])
  /\ Return(t)
  /\ UNCHANGED <<system, hNtDll, pfn, s_uInitialBufSize, crossed>>

LeaveCrashes(t) ==
  /\ pc[t] = "leave" /\ taken[t].entry = 0
  /\ ~ErrorTold(t) \/ (~handle[arg[t]].returned /\ ~Calls(t, {"NtClose"}))
  /\ Crash(t) /\ UNCHANGED arg

-----------------------------------------------------------------------------

Running(t) ==
  \/ Enter(t) \/ ScanCrashes(t) \/ Scan(t) \/ Settle(t) \/ Take(t) \/ TakeNothing(t)
  \/ Copy(t) \/ Leave(t) \/ FirstReturns(t) \/ FirstFails(t) \/ LeaveCrashes(t)

Crashed == \E t \in Threads : pc[t] = "crashed"

Ended == Crashed /\ UNCHANGED vars

Next ==
  \/ ~Crashed /\ \E t \in Threads :
       \/ NativeFindInit(t)
       \/ \E h \in Handles :
            \/ NativeFindFirstFile(t, h) \/ FirstFileCrashes(t, h)
            \/ NativeFindNextFile(t, h)
            \/ NativeFindClose(t, h) \/ CloseCrashes(t, h)
       \/ Running(t)
  \/ Ended

Spec == Init /\ [][Next]_vars

(* The scheduler runs every thread; who gets a critical section that several *)
(* wait for is not promised.                                                 *)
FairSpec == Spec /\ \A t \in Threads : WF_vars(~Crashed /\ Running(t))

-----------------------------------------------------------------------------
(* Properties                                                                *)

(* NativeFindLastStatus reads the status without the critical section, so    *)
(* that it may return what any state has.                                    *)
NativeFindLastStatus(h) == handle[h].ntStatus

(* A thread is between two queries, and has the handle to itself.            *)
MidScan(h) ==
  \E t \in Threads :
    pc[t] = "settle" /\ arg[t] = h /\ (handle[h].returned => handle[h].owner = t)

(* However the calls of several threads interleave on a handle, the entries  *)
(* are handed out in the order of the listing, none twice, and none to two   *)
(* threads.                                                                  *)
SharedInOrderOnce ==
  \A h \in Handles : \A j, k \in 1..Len(delivered[h]) :
    j < k => delivered[h][j] < delivered[h][k]

(* No other thread's scan replaces the buffer between the moment a thread    *)
(* has a pointer into it and the copy (:829-833).                            *)
CopiedFromCurrentBuffer ==
  \A t \in Threads : pc[t] = "copy" => taken[t].scan = handle[arg[t]].scan

(* A find handle may be shared: NativeFindNextFile is one step to others.    *)
SharedSafely == TypeOK /\ SharedInOrderOnce /\ CopiedFromCurrentBuffer

(* The counters of the threads are wrong one by one when a handle crosses    *)
(* from one to another, but their sum is what is allocated.                  *)
Bytes == [h \in Handles |-> IF handle[h].open THEN HandleSize + handle[h].cbBuffer ELSE 0]
AllocatedBytesConserved == SumFunction(s_llMemoryAllocated) = SumFunction(Bytes)

(* A thread's own counter is exact as long as no handle has crossed.         *)
ConfinedCounterExact ==
  ~crossed => \A t \in Threads :
    s_llMemoryAllocated[t] = SumFunctionOnSet(Bytes, {h \in Handles : handle[h].opener = t})

(* What NativeFindGetAllocatedBytes tells of one thread, and of all together.*)
CountersAddUp == AllocatedBytesConserved /\ ConfinedCounterExact

(* A call goes through a NULL pointer only in a thread in which              *)
(* NativeFindInit has not yet succeeded, be the handle from another one and  *)
(* ntdll.dll an old one: success means that nothing is missing.              *)
NullCallOnlyUninitialised ==
  \A t \in Threads : pc[t] = "crashed" => dynamic /\ ~hNtDll[t]

(* NativeFindLastStatus may see a status with which no call ends, as it does *)
(* not enter the critical section (:867): but only while a scan of another   *)
(* thread is between two queries, so that entering it would be enough.  Once *)
(* a call has seen the end of the listing every thread sees it for good.     *)
StatusSettled ==
  \A h \in Handles :
    /\ NativeFindLastStatus(h) = "ALLOTTED_SPACE_EXCEEDED" => MidScan(h)
    /\ handle[h].bNoMoreFiles => NativeFindLastStatus(h) = "NO_MORE_FILES"

(* A thread that has the critical section of a handle gives it back, in each *)
(* outcome of the call.                                                      *)
LockGivenBack ==
  \A h \in Handles :
    handle[h].owner # NoThread ~> handle[h].owner = NoThread \/ Crashed
=============================================================================
