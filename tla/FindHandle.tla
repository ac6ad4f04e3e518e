----------------------------- MODULE FindHandle -----------------------------
(***************************************************************************)
(* One NTFIND_HANDLE of ntfindfile.c: NativeFindFirstFile, -NextFile,      *)
(* -Close and everything below them, getNextDirInfoEntry_,                 *)
(* updateNextEntryPointer_, wrapNtQueryDirectoryFile_ and                  *)
(* increaseQueryBufferSizeAndZerofill_, one action per stretch of code     *)
(* between two calls of the kernel or of the heap, which may fail.         *)
(*                                                                         *)
(* A listing is abstracted to the number of its entries, dir.n, and the    *)
(* bytes the first k of them take in a query buffer, dir.end[k].  Offsets  *)
(* within the buffer count entries: NextEntryOffset is 1 or 0 (last).      *)
(* The listing does not change while a handle walks it.                    *)
(***************************************************************************)
EXTENDS Integers, Sequences

CONSTANTS
  Listings,         \* the listings a directory may have
  InitialSizes,     \* the sizes NativeFindInit may be called with
  LargeBufferSize,  \* NTFIND_LARGE_BUFFER_SIZE
  MaxBufferSize,    \* NTFIND_LARGE_BUFFER_MAXSIZE
  InfoSize,         \* sizeof(NTFIND_DIR_INFO)
  HandleSize,       \* sizeof(NTFIND_HANDLE)
  FreeFailBound     \* HeapFree may fail while no more than this is overcounted

IsListing(d) ==
  /\ d.n \in Nat
  /\ d.dots \subseteq 1..d.n
  /\ d.end \in [0..d.n -> Nat]
  /\ d.end[0] = 0
  /\ \A i, j \in 0..d.n : i < j => d.end[i] < d.end[j]

ASSUME ListingsAssumption == \A d \in Listings : IsListing(d)

ASSUME SizesAssumption ==
  /\ InitialSizes \subseteq Nat \ {0}
  /\ LargeBufferSize \in Nat \ {0}
  /\ MaxBufferSize \in Nat \ {0}
  /\ LargeBufferSize <= MaxBufferSize
  /\ InfoSize \in Nat
  /\ HandleSize \in Nat
  /\ FreeFailBound \in Nat

VARIABLES
  pc,                          \* where the handle's owner is, see TypeOK
  inFirst,                     \* is NativeFindFirstFile the running call?
  ret,                         \* what the last call returned: "entry" or its error
  dir, bSuppress,              \* the directory and the flag it was opened with
  kpos,                        \* entries the kernel's scan has gone past
  s_uInitialBufSize,           \* the size the next handle's buffer starts with
  llMemoryAllocated,           \* the debug build's s_llMemoryAllocated
  cbBuffer,                    \* 0 stands for pucBuffer = NULL
  base, chain,                 \* the buffered entries: base + i, NextEntryOffset chain[i]
  pucNextEntry,                \* index of a buffered entry, 0 for NULL
  uNextNextEntryOffset,
  info,                        \* iostat_NtQueryDirectoryFile.Information
  dirty,                       \* bytes at and past this offset of the buffer are zero
  ntStatus, bMaxQueryBufferSizeReached, bNoMoreFiles,
  bFirstScan, bBreak,          \* locals of wrapNtQueryDirectoryFile_
  delivered,                   \* the entries returned through this handle, in order
  overcounted,                 \* history: bytes counted for buffers no handle ever got
  firstSize                    \* s_uInitialBufSize when the handle was opened

call    == <<pc, inFirst, ret>>
opened  == <<dir, bSuppress, firstSize>>
heap    == <<s_uInitialBufSize, llMemoryAllocated, overcounted, cbBuffer,
             bMaxQueryBufferSizeReached>>
buffer  == <<kpos, base, chain, info, dirty>>
cursor  == <<pucNextEntry, uNextNextEntryOffset>>
locals  == <<bFirstScan, bBreak>>
vars    == <<call, opened, heap, buffer, cursor, locals,
             ntStatus, bNoMoreFiles, delivered>>

Failures == {"BUFFER_OVERFLOW", "BUFFER_TOO_SMALL", "NO_MORE_FILES",
             "NO_SUCH_FILE", "IO_ERROR", "NO_MEMORY", "UNABLE_TO_FREE_VM",
             "ALLOTTED_SPACE_EXCEEDED"}
Statuses == Failures \cup {"SUCCESS"}

Smaller(a, b) == IF a <= b THEN a ELSE b
Larger(a, b)  == IF a <= b THEN b ELSE a

Buffered == kpos - base
(* Mutant: ".." is forgotten.                                               *)
WantedDotDot(i) == ~(bSuppress /\ i \in dir.dots /\ i = 1)

Wanted(i) == ~(bSuppress /\ i \in dir.dots)

CallType ==
  /\ pc \in {"closed", "idle", "next", "query", "grow", "requery", "null"}
  /\ ret \in Statuses \cup {"none", "entry"}
  /\ ntStatus \in Statuses

FlagType ==
  /\ inFirst \in BOOLEAN /\ bSuppress \in BOOLEAN
  /\ bMaxQueryBufferSizeReached \in BOOLEAN /\ bNoMoreFiles \in BOOLEAN
  /\ bFirstScan \in BOOLEAN /\ bBreak \in BOOLEAN

HeapType ==
  /\ firstSize \in Nat \ {0}
  /\ s_uInitialBufSize \in Nat \ {0}
  /\ llMemoryAllocated \in Int
  /\ overcounted \in Nat
  /\ cbBuffer \in Nat

ScanType ==
  /\ dir \in Listings
  /\ kpos \in 0..dir.n
  /\ base \in 0..kpos
  /\ chain \in [1..Buffered -> {0, 1}]
  /\ info \in Nat
  /\ dirty \in Nat
  /\ pucNextEntry \in 0..Buffered
  /\ uNextNextEntryOffset \in {0, 1}
  /\ delivered \in Seq(1..dir.n)

TypeOK == CallType /\ FlagType /\ HeapType /\ ScanType

(***************************************************************************)
(* The program starts with no handle.  The fields of a handle that does    *)
(* not exist hold the values HEAP_ZERO_MEMORY gives them.                  *)
(***************************************************************************)
FreshHandle ==
  /\ cbBuffer' = 0 /\ bMaxQueryBufferSizeReached' = FALSE
  /\ kpos' = 0 /\ base' = 0 /\ chain' = <<>> /\ info' = 0 /\ dirty' = 0
  /\ pucNextEntry' = 0 /\ uNextNextEntryOffset' = 0
  /\ ntStatus' = "SUCCESS" /\ bNoMoreFiles' = FALSE
  /\ bFirstScan' = FALSE /\ bBreak' = FALSE

Init ==
  /\ pc = "closed" /\ inFirst = FALSE /\ ret = "none"
  /\ dir \in Listings /\ bSuppress \in BOOLEAN
  /\ firstSize = LargeBufferSize
  /\ s_uInitialBufSize = LargeBufferSize
  /\ llMemoryAllocated = 0 /\ overcounted = 0
  /\ cbBuffer = 0 /\ bMaxQueryBufferSizeReached = FALSE
  /\ kpos = 0 /\ base = 0 /\ chain = <<>> /\ info = 0 /\ dirty = 0
  /\ pucNextEntry = 0 /\ uNextNextEntryOffset = 0
  /\ ntStatus = "SUCCESS" /\ bNoMoreFiles = FALSE
  /\ bFirstScan = FALSE /\ bBreak = FALSE
  /\ delivered = <<>>

-----------------------------------------------------------------------------
(* The calls of the API                                                      *)

(* NativeFindInit may be called at any time outside a call; it does not      *)
(* touch an open handle, only the size the next one starts with.             *)
NativeFindInit ==
  /\ pc \in {"closed", "idle"}
  /\ s_uInitialBufSize' \in InitialSizes \cup {LargeBufferSize}
  /\ UNCHANGED <<call, opened, llMemoryAllocated, overcounted, cbBuffer,
                 bMaxQueryBufferSizeReached, buffer, cursor, locals,
                 ntStatus, bNoMoreFiles, delivered>>

(* openDirectoryForSearch_ and initFindHandle_ have succeeded.  When they    *)
(* fail NativeFindFirstFile returns and the state is the one before the call.*)
NativeFindFirstFile ==
  /\ pc = "closed"
  /\ pc' = "next" /\ inFirst' = TRUE /\ ret' = "none"
  /\ dir' \in Listings
  /\ bSuppress' \in BOOLEAN
  /\ firstSize' = s_uInitialBufSize
  /\ llMemoryAllocated' = llMemoryAllocated + HandleSize
  /\ FreshHandle
  /\ delivered' = <<>>
  /\ UNCHANGED <<s_uInitialBufSize, overcounted>>

NativeFindNextFile ==
  /\ pc = "idle"
  /\ pc' = "next" /\ ret' = "none"
  /\ UNCHANGED <<inFirst, opened, heap, buffer, cursor, locals,
                 ntStatus, bNoMoreFiles, delivered>>

FreeFindHandle ==
  /\ llMemoryAllocated' = llMemoryAllocated - cbBuffer - HandleSize
  /\ FreshHandle
  /\ delivered' = <<>>
  /\ UNCHANGED <<opened, s_uInitialBufSize, overcounted>>

NativeFindClose ==
  /\ pc = "idle"
  /\ pc' = "closed" /\ ret' = "none"
  /\ FreeFindHandle
  /\ UNCHANGED inFirst

-----------------------------------------------------------------------------
(* getNextDirInfoEntry_ and updateNextEntryPointer_                          *)

NeedsQuery == cbBuffer = 0 \/ (pucNextEntry = 0 /\ ~bNoMoreFiles)

(* Mutant: the offset that was taken out is not put back.                    *)
OffsetNotPutBack == chain[pucNextEntry]

(* The offset updateNextEntryPointer_ took from an entry when it peeked at   *)
(* it is put back when the walk gets there.                                  *)
OffsetToNext ==
  IF chain[pucNextEntry] = 0 THEN uNextNextEntryOffset ELSE chain[pucNextEntry]

UpdateNextEntryPointer ==
  LET next == pucNextEntry + OffsetToNext
  IN  \/ /\ OffsetToNext # 0
         /\ pucNextEntry' = next
         /\ uNextNextEntryOffset' = chain[next]
         /\ chain' = [chain EXCEPT ![pucNextEntry] = OffsetToNext, ![next] = 0]
      \/ /\ OffsetToNext = 0
         /\ pucNextEntry' = 0
         /\ uNextNextEntryOffset' = 0
         /\ UNCHANGED chain

ReturnEntry(i) ==
  /\ delivered' = Append(delivered, i)
  /\ pc' = "idle" /\ ret' = "entry" /\ inFirst' = FALSE

TakeEntry ==
  /\ pc = "next" /\ ~NeedsQuery /\ pucNextEntry # 0
  /\ UpdateNextEntryPointer
  /\ \/ Wanted(base + pucNextEntry) /\ ReturnEntry(base + pucNextEntry)
     \/ ~Wanted(base + pucNextEntry) /\ UNCHANGED <<call, delivered>>
  /\ UNCHANGED <<opened, heap, kpos, base, info, dirty, locals, ntStatus, bNoMoreFiles>>

(* NativeFindFirstFile gives the handle up when there is no first entry.     *)
ReturnNull ==
  /\ pc = "null" \/ (pc = "next" /\ ~NeedsQuery /\ pucNextEntry = 0)
  /\ ret' = ntStatus /\ inFirst' = FALSE
  /\ \/ /\ inFirst
        /\ pc' = "closed"
        /\ FreeFindHandle
     \/ /\ ~inFirst
        /\ pc' = "idle"
        /\ UNCHANGED <<opened, heap, buffer, cursor, locals,
                       ntStatus, bNoMoreFiles, delivered>>

-----------------------------------------------------------------------------
(* increaseQueryBufferSizeAndZerofill_                                       *)

(* Mutant: doubling without the limit.                                       *)
GrownUnlimited == IF cbBuffer = 0 THEN s_uInitialBufSize ELSE 2 * cbBuffer

GrownSize == IF cbBuffer = 0 THEN s_uInitialBufSize ELSE Smaller(2 * cbBuffer, MaxBufferSize)

MaximumReached ==
  /\ bMaxQueryBufferSizeReached
  /\ ntStatus' = "ALLOTTED_SPACE_EXCEEDED"
  /\ UNCHANGED <<heap, dirty, pucNextEntry>>

OutOfMemory ==
  /\ ~bMaxQueryBufferSizeReached
  /\ ntStatus' = "NO_MEMORY"
  /\ UNCHANGED <<heap, dirty, pucNextEntry>>

(* Mutant: the size of the old buffer is taken off before it is freed.       *)
OldBufferTakenOff ==
  /\ ~bMaxQueryBufferSizeReached
  /\ cbBuffer # 0
  /\ overcounted + GrownSize <= FreeFailBound
  /\ ntStatus' = "UNABLE_TO_FREE_VM"
  /\ llMemoryAllocated' = llMemoryAllocated + GrownSize - cbBuffer
  /\ overcounted' = overcounted + GrownSize
  /\ UNCHANGED <<s_uInitialBufSize, cbBuffer, bMaxQueryBufferSizeReached,
                 dirty, pucNextEntry>>

(* The old buffer cannot be freed: the new one is given back, but the debug  *)
(* counter has been raised by its size (:307) and stays so.                  *)
OldBufferNotFreed ==
  /\ ~bMaxQueryBufferSizeReached
  /\ cbBuffer # 0
  /\ overcounted + GrownSize <= FreeFailBound
  /\ ntStatus' = "UNABLE_TO_FREE_VM"
  /\ llMemoryAllocated' = llMemoryAllocated + GrownSize
  /\ overcounted' = overcounted + GrownSize
  /\ UNCHANGED <<s_uInitialBufSize, cbBuffer, bMaxQueryBufferSizeReached,
                 dirty, pucNextEntry>>

(* Mutant: the new buffer is not zeroed.                                     *)
BufferGrownNotZeroed ==
  /\ ~bMaxQueryBufferSizeReached
  /\ llMemoryAllocated' = llMemoryAllocated + GrownSize - cbBuffer
  /\ s_uInitialBufSize' = Larger(s_uInitialBufSize, GrownSize)
  /\ bMaxQueryBufferSizeReached' = (GrownSize >= MaxBufferSize)
  /\ cbBuffer' = GrownSize /\ dirty' = GrownSize /\ pucNextEntry' = 0
  /\ UNCHANGED <<ntStatus, overcounted>>

BufferGrown ==
  /\ ~bMaxQueryBufferSizeReached
  /\ llMemoryAllocated' = llMemoryAllocated + GrownSize - cbBuffer
  /\ s_uInitialBufSize' = Larger(s_uInitialBufSize, GrownSize)
  /\ bMaxQueryBufferSizeReached' = (GrownSize >= MaxBufferSize)
  /\ cbBuffer' = GrownSize
  /\ dirty' = 0
  /\ pucNextEntry' = 0
  /\ UNCHANGED <<ntStatus, overcounted>>

GrowFailed == OutOfMemory \/ OldBufferNotFreed

-----------------------------------------------------------------------------
(* External: what NtQueryDirectoryFile returns and does to the scan, as the  *)
(* code relies on it.  A chunk holds as many entries as fit.  An entry that  *)
(* does not fit at all is not skipped.                                       *)

Bytes(from, n) == dir.end[from + n] - dir.end[from]
Fits(from, n) == Bytes(from, n) <= cbBuffer

QueryChunk(from) ==
  \E n \in 1..(dir.n - from) :
    /\ Fits(from, n)
    /\ from + n < dir.n => ~Fits(from, n + 1)
    /\ ntStatus' = "SUCCESS"
    /\ base' = from
    /\ kpos' = from + n
    /\ chain' = [k \in 1..n |-> IF k < n THEN 1 ELSE 0]
    /\ info' = Bytes(from, n)
    /\ dirty' = Larger(dirty, Bytes(from, n))

QueryTooSmall(from) ==
  /\ from < dir.n
  /\ ~Fits(from, 1)
  /\ \/ /\ cbBuffer < InfoSize
        /\ ntStatus' = "BUFFER_TOO_SMALL"
        /\ UNCHANGED <<info, dirty>>
     \/ /\ cbBuffer >= InfoSize
        /\ ntStatus' = "BUFFER_OVERFLOW"
        /\ info' = cbBuffer
        /\ dirty' = cbBuffer
  /\ UNCHANGED <<kpos, base, chain>>

QueryAtEnd(from) ==
  /\ from = dir.n
  /\ \/ bFirstScan /\ ntStatus' = "NO_SUCH_FILE" /\ UNCHANGED info
     \/ ~bFirstScan /\ ntStatus' = "NO_MORE_FILES" /\ info' = 0
  /\ UNCHANGED <<kpos, base, chain, dirty>>

QueryError ==
  /\ ntStatus' = "IO_ERROR"
  /\ UNCHANGED buffer

NtQueryDirectoryFile ==
  LET from == IF bFirstScan THEN 0 ELSE kpos
  IN  QueryChunk(from) \/ QueryTooSmall(from) \/ QueryAtEnd(from) \/ QueryError

-----------------------------------------------------------------------------
(* wrapNtQueryDirectoryFile_                                                 *)

(* Mutant: the status of the query is not looked at.                         *)
EndOfWrapUnchecked(status) ==
  /\ bNoMoreFiles' = (status = "NO_MORE_FILES")
  /\ pc' = "next" /\ pucNextEntry' = 1

(* The query loop is over: getNextDirInfoEntry_ goes to the first buffered   *)
(* entry or returns NULL.                                                    *)
EndOfWrap(status) ==
  /\ bNoMoreFiles' = (status = "NO_MORE_FILES")
  /\ \/ status = "SUCCESS" /\ pc' = "next" /\ pucNextEntry' = 1
     \/ status # "SUCCESS" /\ pc' = "null" /\ UNCHANGED pucNextEntry

(* Mutant: the first scan is not marked, so that it is never restarted.      *)
BeginFirstScanUnmarked ==
  /\ pc = "next" /\ NeedsQuery /\ cbBuffer = 0
  /\ bFirstScan' = FALSE
  /\ \/ BufferGrown /\ pc' = "query"
     \/ OutOfMemory /\ pc' = "null"
  /\ UNCHANGED <<inFirst, ret, opened, kpos, base, chain, info,
                 uNextNextEntryOffset, bBreak, bNoMoreFiles, delivered>>

BeginFirstScan ==
  /\ pc = "next" /\ NeedsQuery /\ cbBuffer = 0
  /\ bFirstScan' = TRUE
  /\ \/ BufferGrown /\ pc' = "query"
     \/ OutOfMemory /\ pc' = "null"
  /\ UNCHANGED <<inFirst, ret, opened, kpos, base, chain, info,
                 uNextNextEntryOffset, bBreak, bNoMoreFiles, delivered>>

(* Mutant: every scan starts over.                                           *)
BeginLaterScanRestarting ==
  /\ pc = "next" /\ NeedsQuery /\ cbBuffer # 0
  /\ pc' = "query"
  /\ bFirstScan' = TRUE
  /\ dirty' = 0
  /\ UNCHANGED <<inFirst, ret, opened, heap, kpos, base, chain, info, cursor,
                 bBreak, ntStatus, bNoMoreFiles, delivered>>

(* Only what the last query has written is zero-filled.                      *)
BeginLaterScan ==
  /\ pc = "next" /\ NeedsQuery /\ cbBuffer # 0
  /\ pc' = "query"
  /\ bFirstScan' = FALSE
  /\ dirty' = IF dirty <= Smaller(info, cbBuffer) THEN 0 ELSE dirty
  /\ UNCHANGED <<inFirst, ret, opened, heap, kpos, base, chain, info, cursor,
                 bBreak, ntStatus, bNoMoreFiles, delivered>>

Retried == {"BUFFER_OVERFLOW", "BUFFER_TOO_SMALL", "SUCCESS"}

Query ==
  /\ pc = "query"
  /\ NtQueryDirectoryFile
  /\ \/ /\ ntStatus' \in Retried
        /\ pc' = "grow"
        /\ UNCHANGED <<pucNextEntry, bNoMoreFiles>>
     \/ /\ ntStatus' \notin Retried
        /\ EndOfWrap(ntStatus')
  /\ UNCHANGED <<inFirst, ret, opened, heap, uNextNextEntryOffset, locals, delivered>>

(* Mutants: at the maximum the loop gives up, or does not break.             *)
GrowGivesUp ==
  /\ pc = "grow"
  /\ \/ BufferGrown    /\ bBreak' = FALSE /\ pc' = "requery"
     \/ MaximumReached /\ bBreak' = TRUE  /\ pc' = "null"
  /\ UNCHANGED <<inFirst, ret, opened, kpos, base, chain, info,
                 uNextNextEntryOffset, bFirstScan, bNoMoreFiles, delivered>>

GrowWithoutBreak ==
  /\ pc = "grow"
  /\ BufferGrown \/ MaximumReached
  /\ bBreak' = FALSE /\ pc' = "requery"
  /\ UNCHANGED <<inFirst, ret, opened, kpos, base, chain, info,
                 uNextNextEntryOffset, bFirstScan, bNoMoreFiles, delivered>>

Grow ==
  /\ pc = "grow"
  /\ \/ BufferGrown    /\ bBreak' = FALSE     /\ pc' = "requery"
     \/ MaximumReached /\ bBreak' = TRUE      /\ pc' = "requery"
     \/ GrowFailed     /\ UNCHANGED bBreak    /\ pc' = "null"
  /\ UNCHANGED <<inFirst, ret, opened, kpos, base, chain, info,
                 uNextNextEntryOffset, bFirstScan, bNoMoreFiles, delivered>>

(* "This logic ensures we break out of the loop when the buffer is big       *)
(* enough to fit all entries", ntfindfile.c:450                              *)
HasSlack == ntStatus' = "SUCCESS" /\ cbBuffer - info' > InfoSize

Requery ==
  /\ pc = "requery"
  /\ NtQueryDirectoryFile
  /\ \/ /\ ~HasSlack /\ ~bBreak /\ ntStatus' \in Retried
        /\ pc' = "grow"
        /\ UNCHANGED <<pucNextEntry, bNoMoreFiles>>
     \/ /\ HasSlack \/ bBreak \/ ntStatus' \notin Retried
        /\ EndOfWrap(ntStatus')
  /\ UNCHANGED <<inFirst, ret, opened, heap, uNextNextEntryOffset, locals, delivered>>

-----------------------------------------------------------------------------

Internal ==
  \/ TakeEntry \/ ReturnNull
  \/ BeginFirstScan \/ BeginLaterScan \/ Query \/ Grow \/ Requery

Next ==
  \/ NativeFindInit \/ NativeFindFirstFile \/ NativeFindNextFile \/ NativeFindClose
  \/ Internal

Spec == Init /\ [][Next]_vars

(* A call that has been made runs on: no step of it waits for another thread.*)
FairSpec == Spec /\ WF_vars(Internal)

-----------------------------------------------------------------------------
(* Properties                                                                *)

GuaranteedSize ==
  IF firstSize >= MaxBufferSize THEN firstSize ELSE Smaller(2 * firstSize, MaxBufferSize)

(* The whole listing is sure to fit into the buffer of the first scan: the   *)
(* query loop grows the buffer at least once if it can.                      *)
FitsFirstScan == dir.end[dir.n] <= GuaranteedSize

WasDelivered(i) == \E k \in 1..Len(delivered) : delivered[k] = i

(* The caller sees entries in the order of the listing, none of them twice,  *)
(* and none it asked to suppress, whatever the query loop did in between.    *)
InOrderOnce ==
  /\ \A k \in 1..Len(delivered) : Wanted(delivered[k])
  /\ \A j, k \in 1..Len(delivered) : j < k => delivered[j] < delivered[k]

(* The walk along the NextEntryOffset chain, whose links are taken out and   *)
(* put back one entry ahead (ntfindfile.c:486-518), skips no entry: at every *)
(* entry returned all wanted ones before it in the buffer have been returned.*)
NothingSkippedInBuffer ==
  pc = "idle" /\ ret = "entry" =>
    \A i \in base + 1 .. (IF pucNextEntry = 0 THEN kpos ELSE base + pucNextEntry - 1) :
      Wanted(i) => WasDelivered(i)

(* When the end of a listing is reported that fits into the buffer of the    *)
(* first scan, every wanted entry has been returned, in spite of failed      *)
(* queries and allocations on the way.                                       *)
CompleteIfFits ==
  bNoMoreFiles /\ FitsFirstScan =>
    \A i \in 1..dir.n : Wanted(i) => WasDelivered(i)

(* What the comment at ntfindfile.c:450 says of the loop: it ends with a     *)
(* buffer that holds all entries, so that the end of the listing is reached  *)
(* with every wanted entry returned.                                         *)
AllEntriesDelivered ==
  bNoMoreFiles => \A i \in 1..dir.n : Wanted(i) => WasDelivered(i)

(* A call without an entry says why: never with a success code and never     *)
(* with STATUS_ALLOTTED_SPACE_EXCEEDED, which only steers the query loop;    *)
(* and "no more files" is said exactly when the end has been seen.           *)
FailureIsReported ==
  /\ ret \notin {"SUCCESS", "ALLOTTED_SPACE_EXCEEDED"}
  /\ pc = "idle" /\ ret \notin {"none", "entry"} =>
       (ret = "NO_MORE_FILES") = bNoMoreFiles

(* The entry just returned is the last one of the buffer, so its name is     *)
(* terminated only if the byte after what the query has written is zero      *)
(* (ntfindfile.c:294, :382; the others are terminated at :515).              *)
LastNameTerminated == dirty <= info

(* "The file name is guaranteed to be zero-terminated!", ntfindfile.h:194:   *)
(* the names in the buffer of the first scan are.                            *)
NameTerminatedInFirstBuffer ==
  pc = "idle" /\ ret = "entry" /\ pucNextEntry = 0 /\ base = 0 => LastNameTerminated

(* NativeFindGetAllocatedBytes "returns the amount of Bytes currently        *)
(* allocated" (ntfindfile.h:172), the handle and its query buffer: so it     *)
(* does until the old buffer cannot be freed.  From then on it returns too   *)
(* much, by the sizes of the new buffers that were given up (:307, :317),    *)
(* and by nothing else; closing the handle does not put it right.            *)
AllocatedBytesOver ==
  llMemoryAllocated = overcounted + (IF pc = "closed" THEN 0 ELSE HandleSize + cbBuffer)

(* The buffer stays within NTFIND_LARGE_BUFFER_MAXSIZE unless it started     *)
(* larger, the flag for the fast path says exactly when it cannot grow, and  *)
(* the subtraction of the slack test (:451) never wraps around.              *)
BufferWithinLimit ==
  cbBuffer # 0 =>
    /\ cbBuffer <= Larger(firstSize, MaxBufferSize)
    /\ bMaxQueryBufferSizeReached = (cbBuffer >= MaxBufferSize)
    /\ ntStatus = "SUCCESS" /\ pucNextEntry # 0 => info <= cbBuffer

(* Whichever of the allocation, the free of the old buffer and the query     *)
(* fails, the buffer keeps its limit, and what is counted is what is         *)
(* allocated and what such a failed free has left in the count               *)
(* (increaseQueryBufferSizeAndZerofill_).                                    *)
BufferAccounted == BufferWithinLimit /\ AllocatedBytesOver

(* Every call returns: the query loop ends although it repeats on success.   *)
CallReturns == pc \notin {"closed", "idle"} ~> pc \in {"closed", "idle"}

-----------------------------------------------------------------------------
(* The inductive invariant                                                   *)

InWrap == pc \in {"query", "grow", "requery"}

(* Entries of the listing the walk has gone past.                            *)
Consumed == IF pucNextEntry = 0 THEN kpos ELSE base + pucNextEntry - 1

Link(k) == IF k < Buffered THEN 1 ELSE 0

CursorInv ==
  /\ pucNextEntry = 0 /\ pc # "closed" => uNextNextEntryOffset = 0
  /\ pucNextEntry # 0 =>
       /\ OffsetToNext = Link(pucNextEntry)
       /\ \A k \in pucNextEntry + 1 .. Buffered : chain[k] = Link(k)
  /\ InWrap \/ pc = "null" \/ cbBuffer = 0 => pucNextEntry = 0
  /\ InWrap => cbBuffer # 0

OrderInv ==
  /\ InOrderOnce
  /\ \A k \in 1..Len(delivered) : delivered[k] <= Consumed
  /\ (InWrap /\ bFirstScan) \/ (pc # "closed" /\ cbBuffer = 0) => delivered = <<>>

DeliveredUpTo(from, to) == \A i \in from + 1 .. to : Wanted(i) => WasDelivered(i)

(* What a call without an entry will say.                                    *)
StatusInv ==
  /\ FailureIsReported
  /\ pc # "closed" /\ bNoMoreFiles => ntStatus = "NO_MORE_FILES"
  /\ InWrap \/ pucNextEntry # 0 \/ (pc # "closed" /\ cbBuffer = 0) => ~bNoMoreFiles
  /\ pc = "null" =>
       /\ ntStatus \notin {"SUCCESS", "ALLOTTED_SPACE_EXCEEDED"}
       /\ ntStatus = "NO_MORE_FILES" <=> bNoMoreFiles

BufferInv ==
  pucNextEntry # 0 \/ (pc = "idle" /\ ret = "entry") => DeliveredUpTo(base, Consumed)

(* The first scan ends with the whole listing in the buffer, if it fits, or  *)
(* with no handle.                                                           *)
InFirstScan == (InWrap /\ bFirstScan) \/ (pc \in {"next", "null"} /\ cbBuffer = 0)

FirstScanInv ==
  /\ cbBuffer # 0 => bMaxQueryBufferSizeReached = (cbBuffer >= MaxBufferSize)
  /\ pc = "next" /\ cbBuffer = 0 =>
       s_uInitialBufSize = firstSize /\ ~bMaxQueryBufferSizeReached
  /\ InFirstScan => inFirst /\ ~bNoMoreFiles
  /\ InWrap /\ bFirstScan => cbBuffer >= firstSize
  /\ pc = "requery" /\ bFirstScan => cbBuffer >= GuaranteedSize
  /\ pc = "idle" => ~inFirst /\ cbBuffer # 0

PastFirstScan == pc # "closed" /\ ~InFirstScan /\ ~(pc = "null" /\ inFirst)

FitInv ==
  /\ CompleteIfFits
  /\ FitsFirstScan /\ PastFirstScan =>
       kpos = dir.n /\ DeliveredUpTo(0, Consumed)

(* The chunk a query from the start returns.                                 *)
FirstChunk(n) == Fits(0, n) /\ (n < dir.n => ~Fits(0, n + 1))

(* In the first scan no more of the buffer has been written than will be.    *)
TermInv ==
  /\ PastFirstScan => kpos # 0
  /\ base = 0 /\ (pucNextEntry # 0 \/ (pc = "idle" /\ ret = "entry")) => LastNameTerminated
  /\ InWrap /\ bFirstScan => \A n \in 1..dir.n : FirstChunk(n) => dirty <= Bytes(0, n)

IndInv ==
  /\ TypeOK /\ CursorInv /\ StatusInv /\ OrderInv /\ BufferInv
  /\ FirstScanInv /\ FitInv /\ TermInv

-----------------------------------------------------------------------------
(* The abstract specification                                                *)

(* The handle implements the promise of DirListing, the whole listing being  *)
(* promised if it fits into the buffer of the first scan.                    *)
Promise == INSTANCE DirListing WITH
  state     <- IF pc = "closed" THEN "closed" ELSE IF bNoMoreFiles THEN "ended" ELSE "open",
  suppress  <- bSuppress,
  promised  <- FitsFirstScan

KeepsPromise == Promise!Spec
=============================================================================
