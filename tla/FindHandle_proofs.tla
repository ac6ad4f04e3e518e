------------------------- MODULE FindHandle_proofs -------------------------
(***************************************************************************)
(* Proofs about FindHandle, for every set of listings and all sizes.  The  *)
(* inductive invariant IndInv is proved in layers: each layer uses the     *)
(* ones below it and has a lemma of its own, with one step per action.     *)
(***************************************************************************)
EXTENDS FindHandle, TLAPS

TypeInv == TypeOK /\ CursorInv

LEMMA ListingFacts ==
  \A d \in Listings :
    /\ d.n \in Nat
    /\ d.end \in [0..d.n -> Nat]
    /\ \A i, j \in 0..d.n : i < j => d.end[i] < d.end[j]
    /\ d.end[0] = 0
  BY ListingsAssumption DEF IsListing

LEMMA ElementType ==
  ASSUME NEW S, NEW s \in Seq(S), NEW k \in 1..Len(s)
  PROVE  s[k] \in S
  OBVIOUS

LEMMA AppendType ==
  ASSUME NEW S, NEW s \in Seq(S), NEW e \in S
  PROVE  Append(s, e) \in Seq(S)
  OBVIOUS

(* The arithmetic of positions, for the provers to instantiate.              *)
LEMMA Span ==
  \A n \in Nat : \A k \in 0..n : \A b \in 0..k :
    k \in Nat /\ b \in Nat /\ b <= k /\ k - b \in Nat
  OBVIOUS

LEMMA OneIn == \A n \in Nat : 0 \in 0..n /\ (n >= 1 => 1 \in 0..n /\ 1 \in 1..n)
  OBVIOUS

(* A buffer that grows has a size, and one that is larger than before        *)
(* unless it is at the maximum.                                              *)
LEMMA GrownSizeType ==
  ASSUME TypeOK
  PROVE  GrownSize \in Nat \ {0}
  BY SizesAssumption DEF TypeOK, HeapType, GrownSize, Smaller

LEMMA EmptyChain == <<>> \in [1..0 -> {0, 1}]
  OBVIOUS

LEMMA InitTypeInv == Init => TypeInv
<1> SUFFICES ASSUME Init PROVE TypeInv
  OBVIOUS
<1>1. TypeOK
  <2>1. Buffered = 0 /\ kpos = 0 /\ base = 0
    BY DEF Init, Buffered
  <2>2. chain \in [1..Buffered -> {0, 1}]
    BY <2>1, EmptyChain DEF Init
  <2>3. dir.n \in Nat
    BY ListingFacts DEF Init
  <2>4. delivered \in Seq(1..dir.n)
    BY DEF Init
  <2>5. CallType
    BY DEF Init, CallType, Statuses
  <2>6. FlagType
    BY DEF Init, FlagType
  <2>7. HeapType
    BY SizesAssumption DEF Init, HeapType
  <2>8. ScanType
    BY <2>1, <2>2, <2>3, <2>4 DEF Init, ScanType
  <2> QED
    BY <2>5, <2>6, <2>7, <2>8 DEF TypeOK
<1>2. CursorInv
  BY DEF Init, CursorInv, InWrap
<1> QED
  BY <1>1, <1>2 DEF TypeInv

(* What a query does to the scan and the buffer keeps their types.           *)
LEMMA QueryTypes ==
  ASSUME TypeOK, NtQueryDirectoryFile, dir' = dir
  PROVE  /\ ntStatus' \in Statuses
         /\ kpos' \in 0..dir.n /\ base' \in 0..kpos'
         /\ chain' \in [1..kpos' - base' -> {0, 1}]
         /\ info' \in Nat /\ dirty' \in Nat
         /\ ntStatus' = "SUCCESS" =>
              /\ kpos' - base' >= 1
              /\ \A k \in 1..kpos' - base' : chain'[k] = IF k < kpos' - base' THEN 1 ELSE 0
<1> DEFINE from == IF bFirstScan THEN 0 ELSE kpos
<1>1. from \in 0..dir.n /\ dir.n \in Nat
  BY ListingFacts DEF TypeOK, ScanType, FlagType
<1>2. CASE QueryChunk(from)
  <2>1. PICK n \in 1..(dir.n - from) :
          /\ ntStatus' = "SUCCESS" /\ base' = from /\ kpos' = from + n
          /\ chain' = [k \in 1..n |-> IF k < n THEN 1 ELSE 0]
          /\ info' = Bytes(from, n)
          /\ dirty' = Larger(dirty, Bytes(from, n))
    BY <1>2 DEF QueryChunk
  <2>2. n \in Nat /\ n >= 1 /\ from + n \in 0..dir.n /\ kpos' - base' = n
    BY <1>1, <2>1
  <2>3. Bytes(from, n) \in Nat
    <3>1. dir.end[from] \in Nat /\ dir.end[from + n] \in Nat /\ dir.end[from] < dir.end[from + n]
      <4> DEFINE m == from + n
      <4>1. m \in 0..dir.n /\ from < m
        BY <1>1, <2>2
      <4>2. dir \in Listings
        BY DEF TypeOK, ScanType
      <4> HIDE DEF from, m
      <4>3. dir.end[from] \in Nat /\ dir.end[m] \in Nat /\ dir.end[from] < dir.end[m]
        BY <4>1, <4>2, <1>1, ListingFacts
      <4> QED
        BY <4>3 DEF m
    <3> QED
      BY <3>1 DEF Bytes
  <2>4. info' \in Nat /\ dirty' \in Nat
    BY <2>1, <2>3 DEF Larger, TypeOK, ScanType
  <2>5. kpos' \in 0..dir.n /\ base' \in 0..kpos'
    BY <1>1, <2>1, <2>2
  <2>6. chain' = [k \in 1..kpos' - base' |-> IF k < kpos' - base' THEN 1 ELSE 0]
    BY <2>1, <2>2
  <2>7. chain' \in [1..kpos' - base' -> {0, 1}]
    BY <2>6
  <2>8. \A k \in 1..kpos' - base' : chain'[k] = IF k < kpos' - base' THEN 1 ELSE 0
    BY <2>6
  <2>9. kpos' - base' >= 1 /\ ntStatus' \in Statuses
    BY <2>1, <2>2 DEF Statuses
  <2> QED
    BY <2>4, <2>5, <2>7, <2>8, <2>9
<1>3. CASE QueryTooSmall(from)
  <2>1. kpos' = kpos /\ base' = base /\ chain' = chain
    BY <1>3 DEF QueryTooSmall
  <2>2. kpos \in 0..dir.n /\ base \in 0..kpos /\ chain \in [1..kpos - base -> {0, 1}]
    BY DEF TypeOK, ScanType, Buffered
  <2>3. ntStatus' \in {"BUFFER_TOO_SMALL", "BUFFER_OVERFLOW"}
    BY <1>3 DEF QueryTooSmall
  <2>4. info \in Nat /\ dirty \in Nat /\ cbBuffer \in Nat
    BY DEF TypeOK, ScanType, HeapType
  <2>5. info' \in Nat /\ dirty' \in Nat
    BY <1>3, <2>4 DEF QueryTooSmall
  <2> QED
    BY <2>1, <2>2, <2>3, <2>5 DEF Statuses, Failures
<1>4. CASE QueryAtEnd(from)
  BY <1>4 DEF QueryAtEnd, TypeOK, ScanType, HeapType, Buffered, Statuses, Failures
<1>5. CASE QueryError
  BY <1>5 DEF QueryError, TypeOK, ScanType, HeapType, Buffered, Statuses, Failures, buffer
<1> QED
  BY <1>2, <1>3, <1>4, <1>5 DEF NtQueryDirectoryFile

(* updateNextEntryPointer_ goes to the next buffered entry, or to NULL after *)
(* the last one, and leaves the chain ahead of it as the query wrote it.     *)
LEMMA UpdateCursor ==
  ASSUME TypeInv, pucNextEntry # 0, UpdateNextEntryPointer
  PROVE  /\ pucNextEntry' = IF pucNextEntry < Buffered THEN pucNextEntry + 1 ELSE 0
         /\ uNextNextEntryOffset' \in {0, 1}
         /\ chain' \in [1..Buffered -> {0, 1}]
         /\ pucNextEntry' = 0 => uNextNextEntryOffset' = 0
         /\ pucNextEntry' # 0 =>
              /\ chain'[pucNextEntry'] = 0
              /\ uNextNextEntryOffset' = Link(pucNextEntry')
              /\ \A k \in pucNextEntry' + 1 .. Buffered : chain'[k] = Link(k)
<1>1. /\ Buffered \in Nat /\ pucNextEntry \in 1..Buffered
      /\ chain \in [1..Buffered -> {0, 1}]
  BY ListingFacts DEF TypeInv, TypeOK, ScanType, Buffered
<1>2. /\ OffsetToNext = Link(pucNextEntry)
      /\ \A k \in pucNextEntry + 1 .. Buffered : chain[k] = Link(k)
  BY DEF TypeInv, CursorInv
<1>3. CASE pucNextEntry < Buffered
  <2>1. OffsetToNext = 1
    BY <1>1, <1>2, <1>3 DEF Link
  <2>2. /\ pucNextEntry' = pucNextEntry + 1
        /\ uNextNextEntryOffset' = chain[pucNextEntry + 1]
        /\ chain' = [chain EXCEPT ![pucNextEntry] = 1, ![pucNextEntry + 1] = 0]
    BY <2>1 DEF UpdateNextEntryPointer
  <2> QED
    BY <1>1, <1>2, <1>3, <2>2 DEF Link
<1>4. CASE pucNextEntry = Buffered
  <2>1. OffsetToNext = 0
    BY <1>1, <1>2, <1>4 DEF Link
  <2>2. pucNextEntry' = 0 /\ uNextNextEntryOffset' = 0 /\ chain' = chain
    BY <2>1 DEF UpdateNextEntryPointer
  <2> QED
    BY <1>1, <1>4, <2>2
<1> QED
  BY <1>1, <1>3, <1>4

(* The three outcomes of the allocation function, used by both its callers.  *)
LEMMA GrowTypes ==
  ASSUME TypeOK, BufferGrown \/ MaximumReached \/ GrowFailed
  PROVE  /\ ntStatus' \in Statuses
         /\ s_uInitialBufSize' \in Nat \ {0}
         /\ llMemoryAllocated' \in Int
         /\ overcounted' \in Nat
         /\ cbBuffer' \in Nat
         /\ bMaxQueryBufferSizeReached' \in BOOLEAN
         /\ dirty' \in Nat
         /\ pucNextEntry' = 0 \/ pucNextEntry' = pucNextEntry
         /\ cbBuffer # 0 \/ BufferGrown => cbBuffer' # 0
<1>1. GrownSize \in Nat \ {0}
  BY GrownSizeType
<1>2. CASE BufferGrown
  <2>1. bMaxQueryBufferSizeReached' \in BOOLEAN
    BY <1>2 DEF BufferGrown
  <2>2. ntStatus' = ntStatus /\ pucNextEntry' = 0 /\ dirty' = 0 /\ cbBuffer' = GrownSize
    BY <1>2 DEF BufferGrown
  <2>3. /\ s_uInitialBufSize' \in Nat \ {0} /\ llMemoryAllocated' \in Int
        /\ overcounted' \in Nat
    BY <1>1, <1>2 DEF BufferGrown, Larger, TypeOK, HeapType
  <2> QED
    BY <1>1, <2>1, <2>2, <2>3 DEF TypeOK, CallType
<1>3. CASE MaximumReached
  <2>1. UNCHANGED <<heap, dirty, pucNextEntry>> /\ ntStatus' \in Statuses
    BY <1>3 DEF MaximumReached, Statuses, Failures
  <2>2. ~BufferGrown
    BY <1>3 DEF MaximumReached, BufferGrown
  <2> QED
    BY <2>1, <2>2 DEF heap, TypeOK, HeapType, ScanType, FlagType
<1>4. CASE OutOfMemory
  <2>1. UNCHANGED <<heap, dirty, pucNextEntry>> /\ ntStatus' \in Statuses
    BY <1>4 DEF OutOfMemory, Statuses, Failures
  <2>2. BufferGrown => cbBuffer' # 0
    BY <1>1 DEF BufferGrown
  <2> QED
    BY <2>1, <2>2 DEF heap, TypeOK, HeapType, ScanType, FlagType
<1>5. CASE OldBufferNotFreed
  <2>1. /\ UNCHANGED <<s_uInitialBufSize, cbBuffer, bMaxQueryBufferSizeReached,
                       dirty, pucNextEntry>>
        /\ ntStatus' \in Statuses /\ cbBuffer # 0
    BY <1>5 DEF OldBufferNotFreed, Statuses, Failures
  <2>2. llMemoryAllocated' \in Int /\ overcounted' \in Nat
    BY <1>1, <1>5 DEF OldBufferNotFreed, TypeOK, HeapType
  <2> QED
    BY <2>1, <2>2 DEF TypeOK, HeapType, ScanType, FlagType
<1> QED
  BY <1>2, <1>3, <1>4, <1>5 DEF GrowFailed

LEMMA NextTypeInv == TypeInv /\ [Next]_vars => TypeInv'
<1> SUFFICES ASSUME TypeInv, [Next]_vars PROVE TypeInv'
  OBVIOUS
<1> USE DEF TypeInv
<1>1. CASE NativeFindInit
  <2>1. s_uInitialBufSize' \in Nat \ {0}
    BY <1>1, SizesAssumption DEF NativeFindInit
  <2>2. UNCHANGED <<call, opened, llMemoryAllocated, overcounted, cbBuffer, bMaxQueryBufferSizeReached,
                    buffer, cursor, locals, ntStatus, bNoMoreFiles, delivered>>
    BY <1>1 DEF NativeFindInit
  <2>3. CallType' /\ FlagType' /\ ScanType' /\ CursorInv'
    BY <2>2 DEF TypeOK, CallType, FlagType, ScanType, CursorInv, Buffered, Link, OffsetToNext,
                InWrap, call, opened, buffer, cursor, locals
  <2>4. HeapType'
    BY <2>1, <2>2 DEF TypeOK, HeapType, opened
  <2> QED
    BY <2>3, <2>4 DEF TypeOK
<1>2. CASE NativeFindFirstFile
  <2>1. /\ pc' = "next" /\ ret' = "none" /\ ntStatus' = "SUCCESS"
        /\ kpos' = 0 /\ base' = 0 /\ chain' = <<>> /\ info' = 0 /\ dirty' = 0
        /\ pucNextEntry' = 0 /\ uNextNextEntryOffset' = 0 /\ delivered' = <<>>
        /\ dir' \in Listings /\ cbBuffer' = 0 /\ firstSize' = s_uInitialBufSize
        /\ llMemoryAllocated' = llMemoryAllocated + HandleSize
        /\ s_uInitialBufSize' = s_uInitialBufSize /\ overcounted' = overcounted
    BY <1>2 DEF NativeFindFirstFile, FreshHandle
  <2>2. CallType'
    BY <2>1 DEF CallType, Statuses
  <2>3. FlagType'
    BY <1>2 DEF NativeFindFirstFile, FreshHandle, FlagType
  <2>4. HeapType'
    BY <2>1, SizesAssumption DEF HeapType, TypeOK
  <2>5. ScanType'
    <3>1. dir'.n \in Nat /\ Buffered' = 0
      BY <2>1, ListingFacts DEF Buffered
    <3>2. chain' \in [1..Buffered' -> {0, 1}]
      BY <2>1, <3>1, EmptyChain
    <3>3. delivered' \in Seq(1..dir'.n)
      BY <2>1
    <3> QED
      BY <2>1, <3>1, <3>2, <3>3 DEF ScanType
  <2>6. CursorInv'
    BY <2>1 DEF CursorInv, InWrap
  <2> QED
    BY <2>2, <2>3, <2>4, <2>5, <2>6 DEF TypeOK
<1>3. CASE NativeFindNextFile
  <2>1. /\ pc = "idle" /\ pc' = "next" /\ ret' = "none"
        /\ UNCHANGED <<inFirst, opened, heap, buffer, cursor, locals,
                        ntStatus, bNoMoreFiles, delivered>>
    BY <1>3 DEF NativeFindNextFile
  <2>2. CallType' /\ HeapType' /\ ScanType'
    BY <2>1 DEF TypeOK, CallType, HeapType, ScanType, Buffered, opened, heap, buffer, cursor
  <2>3. FlagType'
    BY <2>1 DEF TypeOK, FlagType, opened, heap, locals
  <2>4. CursorInv'
    BY <2>1 DEF CursorInv, InWrap, Link, Buffered, OffsetToNext, opened, heap, buffer, cursor
  <2> QED
    BY <2>2, <2>3, <2>4 DEF TypeOK
<1>4. FreeFindHandle /\ pc' \in {"closed"} /\ ret' \in Statuses \cup {"none"}
        /\ inFirst' \in BOOLEAN => TypeInv'
  <2> SUFFICES ASSUME FreeFindHandle, pc' = "closed", ret' \in Statuses \cup {"none"},
                      inFirst' \in BOOLEAN
               PROVE  TypeInv'
    OBVIOUS
  <2>1. /\ kpos' = 0 /\ base' = 0 /\ chain' = <<>> /\ info' = 0 /\ dirty' = 0
        /\ pucNextEntry' = 0 /\ uNextNextEntryOffset' = 0 /\ delivered' = <<>>
        /\ ntStatus' = "SUCCESS" /\ cbBuffer' = 0
        /\ llMemoryAllocated' = llMemoryAllocated - cbBuffer - HandleSize
        /\ UNCHANGED <<opened, s_uInitialBufSize, overcounted>>
    BY DEF FreeFindHandle, FreshHandle
  <2>2. CallType'
    BY <2>1 DEF CallType, Statuses
  <2>3. FlagType'
    BY <2>1 DEF FreeFindHandle, FreshHandle, TypeOK, FlagType, opened
  <2>4. HeapType'
    BY <2>1, SizesAssumption DEF TypeOK, HeapType, opened
  <2>5. ScanType'
    <3>1. dir'.n \in Nat /\ Buffered' = 0 /\ dir' \in Listings
      BY <2>1, ListingFacts DEF TypeOK, ScanType, Buffered, opened
    <3>2. chain' \in [1..Buffered' -> {0, 1}]
      BY <2>1, <3>1, EmptyChain
    <3>3. delivered' \in Seq(1..dir'.n)
      BY <2>1
    <3> QED
      BY <2>1, <3>1, <3>2, <3>3 DEF ScanType
  <2>6. CursorInv'
    BY <2>1 DEF CursorInv, InWrap
  <2> QED
    BY <2>2, <2>3, <2>4, <2>5, <2>6 DEF TypeOK
<1>5. CASE NativeFindClose
  <2>1. inFirst' \in BOOLEAN
    BY <1>5 DEF NativeFindClose, TypeOK, FlagType
  <2> QED
    BY <1>4, <1>5, <2>1 DEF NativeFindClose
<1>6. CASE TakeEntry
  <2>1. /\ pc = "next" /\ cbBuffer # 0 /\ pucNextEntry # 0 /\ UpdateNextEntryPointer
        /\ UNCHANGED <<opened, heap, kpos, base, info, dirty, locals, ntStatus, bNoMoreFiles>>
    BY <1>6 DEF TakeEntry, NeedsQuery
  <2>2. \/ ReturnEntry(base + pucNextEntry)
        \/ UNCHANGED <<call, delivered>>
    BY <1>6 DEF TakeEntry
  <2>3. CallType'
    BY <2>1, <2>2 DEF TypeOK, CallType, ReturnEntry, call
  <2>4. FlagType'
    <3>1. inFirst' \in BOOLEAN
      BY <2>2 DEF TypeOK, FlagType, ReturnEntry, call
    <3> QED
      BY <2>1, <3>1 DEF TypeOK, FlagType, opened, heap, locals
  <2>5. HeapType'
    BY <2>1 DEF TypeOK, HeapType, opened, heap
  <2>6. /\ Buffered' = Buffered /\ pucNextEntry \in 1..Buffered /\ dir' = dir /\ dir.n \in Nat
        /\ Buffered \in Nat /\ base + pucNextEntry \in 1..dir.n
    BY <2>1, ListingFacts DEF TypeOK, ScanType, Buffered, opened
  <2>7. delivered' \in Seq(1..dir.n)
    <3>1. delivered' = delivered \/ delivered' = Append(delivered, base + pucNextEntry)
      BY <2>2 DEF ReturnEntry
    <3>2. delivered \in Seq(1..dir.n)
      BY DEF TypeOK, ScanType
    <3>3. base + pucNextEntry \in 1..dir.n
      BY <2>6
    <3>4. Append(delivered, base + pucNextEntry) \in Seq(1..dir.n)
      BY <3>2, <3>3, AppendType
    <3> QED
      BY <3>1, <3>2, <3>4
  <2>8. ScanType'
    BY <2>1, <2>6, <2>7, UpdateCursor DEF TypeOK, ScanType
  <2>9. CursorInv'
    <3>1. pc' \in {"next", "idle"} /\ cbBuffer' # 0
      BY <2>1, <2>2 DEF ReturnEntry, call, heap
    <3>2. pucNextEntry' # 0 => OffsetToNext' = Link(pucNextEntry')
      BY <2>1, UpdateCursor DEF OffsetToNext
    <3>3. \A k : Link(k)' = Link(k)
      BY <2>6 DEF Link
    <3> QED
      BY <2>1, <2>6, <3>1, <3>2, <3>3, UpdateCursor DEF CursorInv, InWrap, Link
  <2> QED
    BY <2>3, <2>4, <2>5, <2>8, <2>9 DEF TypeOK
<1>7. CASE ReturnNull
  <2>1. CASE FreeFindHandle /\ pc' = "closed"
    BY <1>4, <1>7, <2>1 DEF ReturnNull, TypeOK, CallType
  <2>2. CASE /\ pc' = "idle"
             /\ UNCHANGED <<opened, heap, buffer, cursor, locals,
                             ntStatus, bNoMoreFiles, delivered>>
    <3>1. ret' \in Statuses /\ inFirst' = FALSE /\ pucNextEntry = 0
      BY <1>7 DEF ReturnNull, TypeOK, CallType, CursorInv
    <3>2. pc # "closed"
      BY <1>7 DEF ReturnNull
    <3>3. CallType' /\ HeapType' /\ ScanType'
      BY <2>2, <3>1 DEF TypeOK, CallType, HeapType, ScanType, Buffered, opened, heap, buffer, cursor
    <3>4. FlagType'
      BY <2>2, <3>1 DEF TypeOK, FlagType, opened, heap, locals
    <3>5. CursorInv'
      BY <2>2, <3>1, <3>2 DEF CursorInv, InWrap, cursor
    <3> QED
      BY <3>3, <3>4, <3>5 DEF TypeOK
  <2> QED
    BY <1>7, <2>1, <2>2 DEF ReturnNull
<1>8. CASE BeginFirstScan
  <2>0. bFirstScan' = TRUE
    BY <1>8 DEF BeginFirstScan
  <2>1. /\ pc = "next" /\ cbBuffer = 0
        /\ (BufferGrown /\ pc' = "query") \/ (OutOfMemory /\ pc' = "null")
        /\ UNCHANGED <<inFirst, ret, opened, kpos, base, chain, info,
                        uNextNextEntryOffset, bBreak, bNoMoreFiles, delivered>>
    BY <1>8 DEF BeginFirstScan
  <2>2. pucNextEntry = 0 /\ uNextNextEntryOffset = 0 /\ pucNextEntry' = 0
    BY <2>1, GrowTypes DEF CursorInv, GrowFailed
  <2>3. CallType'
    BY <2>1, GrowTypes DEF TypeOK, CallType, GrowFailed
  <2>4. FlagType'
    BY <2>0, <2>1, GrowTypes DEF TypeOK, FlagType, GrowFailed, opened
  <2>5. HeapType'
    BY <2>1, GrowTypes DEF TypeOK, HeapType, GrowFailed, opened
  <2>6. ScanType'
    BY <2>1, <2>2, GrowTypes DEF TypeOK, ScanType, GrowFailed, Buffered, opened
  <2>7. CursorInv'
    BY <2>1, <2>2, GrowTypes DEF CursorInv, InWrap
  <2> QED
    BY <2>3, <2>4, <2>5, <2>6, <2>7 DEF TypeOK
<1>9. CASE BeginLaterScan
  <2>1. /\ pc = "next" /\ cbBuffer # 0 /\ pucNextEntry = 0 /\ pc' = "query" /\ bFirstScan' = FALSE
        /\ dirty' \in {0, dirty}
        /\ UNCHANGED <<inFirst, ret, opened, heap, kpos, base, chain, info, cursor,
                        bBreak, ntStatus, bNoMoreFiles, delivered>>
    BY <1>9 DEF BeginLaterScan, NeedsQuery
  <2>2. CallType' /\ HeapType' /\ ScanType'
    BY <2>1 DEF TypeOK, CallType, HeapType, ScanType, Buffered, opened, heap, cursor
  <2>3. FlagType'
    BY <2>1 DEF TypeOK, FlagType, opened, heap
  <2>4. CursorInv'
    BY <2>1 DEF CursorInv, InWrap, heap, cursor
  <2> QED
    BY <2>2, <2>3, <2>4 DEF TypeOK
<1>10. /\ InWrap /\ NtQueryDirectoryFile
       /\ \/ pc' = "grow" /\ UNCHANGED <<pucNextEntry, bNoMoreFiles>>
          \/ EndOfWrap(ntStatus')
       /\ UNCHANGED <<inFirst, ret, opened, heap, uNextNextEntryOffset, locals, delivered>>
       => TypeInv'
  <2> SUFFICES ASSUME InWrap, NtQueryDirectoryFile,
                      \/ pc' = "grow" /\ UNCHANGED <<pucNextEntry, bNoMoreFiles>>
                      \/ EndOfWrap(ntStatus'),
                      UNCHANGED <<inFirst, ret, opened, heap, uNextNextEntryOffset, locals, delivered>>
               PROVE  TypeInv'
    OBVIOUS
  <2>1. /\ pucNextEntry = 0 /\ uNextNextEntryOffset = 0 /\ cbBuffer # 0 /\ cbBuffer' # 0
        /\ uNextNextEntryOffset' = 0 /\ dir' = dir /\ pc # "closed"
    BY DEF CursorInv, InWrap, heap, opened
  <2>2. /\ ntStatus' \in Statuses
        /\ kpos' \in 0..dir.n /\ base' \in 0..kpos'
        /\ chain' \in [1..kpos' - base' -> {0, 1}]
        /\ info' \in Nat /\ dirty' \in Nat
        /\ ntStatus' = "SUCCESS" =>
             /\ kpos' - base' >= 1
             /\ \A k \in 1..kpos' - base' : chain'[k] = IF k < kpos' - base' THEN 1 ELSE 0
    BY <2>1, QueryTypes
  <2>3. \/ pc' \in {"grow", "null"} /\ pucNextEntry' = 0
        \/ pc' = "next" /\ pucNextEntry' = 1 /\ ntStatus' = "SUCCESS"
    BY <2>1 DEF EndOfWrap
  <2>4. /\ Buffered' = kpos' - base' /\ Buffered' \in Nat
        /\ dir.n \in Nat /\ kpos' \in Nat /\ base' \in Nat
    <3>1. dir.n \in Nat
      BY ListingFacts DEF TypeOK, ScanType
    <3>2. kpos' \in 0..dir.n /\ base' \in 0..kpos'
      BY <2>2
    <3> QED
      BY <3>1, <3>2, Span DEF Buffered
  <2>5. CallType'
    BY <2>2, <2>3 DEF TypeOK, CallType
  <2>6. FlagType'
    <3>1. bNoMoreFiles' \in BOOLEAN
      BY DEF EndOfWrap, TypeOK, FlagType
    <3> QED
      BY <3>1 DEF TypeOK, FlagType, opened, heap, locals
  <2>7. HeapType'
    BY DEF TypeOK, HeapType, opened, heap
  <2>8. ScanType'
    <3>1. pucNextEntry' \in 0..Buffered'
      <4>1. pucNextEntry' = 0 \/ (pucNextEntry' = 1 /\ Buffered' >= 1)
        BY <2>2, <2>3, <2>4
      <4> QED
        BY <2>4, <4>1, OneIn
    <3>2. dir' \in Listings /\ delivered' \in Seq(1..dir'.n) /\ uNextNextEntryOffset' \in {0, 1}
      BY <2>1 DEF TypeOK, ScanType
    <3>3. chain' \in [1..Buffered' -> {0, 1}]
      BY <2>2, <2>4
    <3> QED
      BY <2>1, <2>2, <2>4, <3>1, <3>2, <3>3 DEF ScanType
  <2>9. CursorInv'
    <3>1. \A k \in 1..Buffered' : ntStatus' = "SUCCESS" => chain'[k] = Link(k)'
      BY <2>2, <2>4 DEF Link
    <3>2. pucNextEntry' # 0 => 1 \in 1..Buffered' /\ Buffered' \in Nat
      <4>1. pucNextEntry' # 0 => Buffered' >= 1
        BY <2>2, <2>3, <2>4
      <4> QED
        BY <2>4, <4>1, OneIn
    <3>3. pucNextEntry' # 0 => OffsetToNext' = Link(1)'
      BY <2>1, <2>3, <3>1, <3>2 DEF OffsetToNext, Link
    <3> QED
      BY <2>1, <2>3, <3>1, <3>2, <3>3 DEF CursorInv, InWrap
  <2> QED
    BY <2>5, <2>6, <2>7, <2>8, <2>9 DEF TypeOK
<1>11. CASE Query
  BY <1>10, <1>11 DEF Query, InWrap
<1>12. CASE Requery
  BY <1>10, <1>12 DEF Requery, InWrap
<1>13. CASE Grow
  <2>1. /\ pc = "grow" /\ pc' \in {"requery", "null"} /\ bBreak' \in BOOLEAN
        /\ BufferGrown \/ MaximumReached \/ GrowFailed
        /\ UNCHANGED <<inFirst, ret, opened, kpos, base, chain, info,
                        uNextNextEntryOffset, bFirstScan, bNoMoreFiles, delivered>>
    BY <1>13 DEF Grow, TypeOK, FlagType
  <2>2. cbBuffer # 0 /\ cbBuffer' # 0 /\ pucNextEntry' = 0 /\ uNextNextEntryOffset = 0
    BY <2>1, GrowTypes DEF CursorInv, InWrap
  <2>3. CallType'
    BY <2>1, GrowTypes DEF TypeOK, CallType
  <2>4. FlagType'
    BY <2>1, GrowTypes DEF TypeOK, FlagType, opened
  <2>5. HeapType'
    BY <2>1, GrowTypes DEF TypeOK, HeapType, opened
  <2>6. ScanType'
    BY <2>1, <2>2, GrowTypes, ListingFacts DEF TypeOK, ScanType, Buffered, opened
  <2>7. CursorInv'
    BY <2>1, <2>2 DEF CursorInv, InWrap
  <2> QED
    BY <2>3, <2>4, <2>5, <2>6, <2>7 DEF TypeOK
<1>14. CASE UNCHANGED vars
  <2>1. CallType' /\ HeapType' /\ ScanType'
    BY <1>14 DEF TypeOK, CallType, HeapType, ScanType, Buffered,
                 vars, call, opened, heap, buffer, cursor, locals
  <2>2. FlagType'
    BY <1>14 DEF TypeOK, FlagType, vars, call, opened, heap, locals
  <2>3. CursorInv'
    BY <1>14 DEF CursorInv, InWrap, OffsetToNext, Link, Buffered,
                 vars, call, heap, buffer, cursor
  <2> QED
    BY <2>1, <2>2, <2>3 DEF TypeOK
<1> QED
  BY <1>1, <1>2, <1>3, <1>5, <1>6, <1>7, <1>8, <1>9, <1>11, <1>12, <1>13, <1>14
     DEF Next, Internal

(* Every variable keeps its type, and the walk along the buffered chain      *)
(* never leaves the buffer (updateNextEntryPointer_, ntfindfile.c:469-538).  *)
THEOREM TypeCorrect == Spec => []TypeOK
<1>1. TypeInv => TypeOK
  BY DEF TypeInv
<1> QED
  BY <1>1, InitTypeInv, NextTypeInv, PTL DEF Spec

-----------------------------------------------------------------------------
(* The order of the entries returned                                         *)

LEMMA ConsumedBounds ==
  ASSUME TypeInv
  PROVE  /\ kpos \in Nat /\ base \in Nat /\ pucNextEntry \in Nat
         /\ dir.n \in Nat /\ Consumed \in Nat /\ Consumed <= kpos
         /\ pucNextEntry # 0 => base + pucNextEntry = Consumed + 1
  BY ListingFacts DEF TypeInv, TypeOK, ScanType, Buffered, Consumed

LEMMA ConsumedBoundsNext ==
  ASSUME TypeInv'
  PROVE  Consumed' \in Nat
<1>1. dir'.n \in Nat
  BY ListingFacts DEF TypeInv, TypeOK, ScanType
<1>2. kpos' \in 0..dir'.n /\ base' \in 0..kpos' /\ pucNextEntry' \in 0..(kpos' - base')
  BY DEF TypeInv, TypeOK, ScanType, Buffered
<1>3. kpos' \in Nat /\ base' \in Nat /\ kpos' - base' \in Nat
  BY <1>1, <1>2, Span
<1>4. pucNextEntry' \in Nat
  BY <1>2, <1>3, Span
<1>5. \A b, p \in Nat : p # 0 => b + p - 1 \in Nat
  OBVIOUS
<1> QED
  BY <1>3, <1>4, <1>5 DEF Consumed

(* The entries delivered lie before the point the walk has reached.          *)
DeliveredInOrder ==
  /\ InOrderOnce
  /\ \A k \in 1..Len(delivered) : delivered[k] <= Consumed

LEMMA NothingDelivered == delivered = <<>> => DeliveredInOrder
  BY DEF DeliveredInOrder, InOrderOnce

(* A step that delivers nothing keeps the order if it does not go back.      *)
LEMMA OrderKept ==
  ASSUME TypeInv, TypeInv', DeliveredInOrder, Consumed <= Consumed',
         UNCHANGED <<delivered, dir, bSuppress>>
  PROVE  DeliveredInOrder'
<1>1. InOrderOnce'
  <2>1. InOrderOnce /\ delivered' = delivered /\ dir' = dir /\ bSuppress' = bSuppress
    BY DEF DeliveredInOrder
  <2> QED
    BY <2>1 DEF InOrderOnce, Wanted
<1>2. ASSUME NEW k \in 1..Len(delivered)
      PROVE  delivered[k] <= Consumed'
  <2>1. delivered[k] \in 1..dir.n
    <3>1. delivered \in Seq(1..dir.n)
      BY DEF TypeInv, TypeOK, ScanType
    <3> QED
      BY <3>1, ElementType
  <2>2. delivered[k] \in Nat /\ delivered[k] <= Consumed
    BY <2>1 DEF DeliveredInOrder
  <2>3. Consumed \in Nat /\ Consumed' \in Nat
    BY ConsumedBounds, ConsumedBoundsNext
  <2>4. \A a, b, c \in Nat : a <= b /\ b <= c => a <= c
    OBVIOUS
  <2> QED
    BY <2>2, <2>3, <2>4
<1> QED
  BY <1>1, <1>2 DEF DeliveredInOrder

(* The entry taken is the one at which the walk stands.                      *)
LEMMA TakeEntryOrder ==
  ASSUME TypeInv, TypeInv', DeliveredInOrder, TakeEntry
  PROVE  DeliveredInOrder'
<1> DEFINE i == base + pucNextEntry
<1>1. /\ pucNextEntry # 0 /\ UpdateNextEntryPointer
      /\ dir' = dir /\ bSuppress' = bSuppress /\ kpos' = kpos /\ base' = base
      /\ \/ Wanted(i) /\ delivered' = Append(delivered, i)
         \/ delivered' = delivered
  BY DEF TakeEntry, ReturnEntry, opened
<1>2. Consumed' = Consumed + 1
  <2>1. pucNextEntry' = IF pucNextEntry < Buffered THEN pucNextEntry + 1 ELSE 0
    BY <1>1, UpdateCursor
  <2>2. pucNextEntry \in 1..Buffered /\ Buffered \in Nat /\ kpos \in Nat /\ base \in Nat
        /\ Buffered = kpos - base
    BY <1>1, ListingFacts DEF TypeInv, TypeOK, ScanType, Buffered
  <2> QED
    BY <1>1, <2>1, <2>2 DEF Consumed
<1>3. Consumed \in Nat /\ i = Consumed + 1
  BY <1>1, ConsumedBounds
<1>4. CASE delivered' = delivered
  <2>1. Consumed <= Consumed'
    BY <1>2, <1>3
  <2> QED
    BY <1>1, <1>4, <2>1, OrderKept
<1>5. CASE Wanted(i) /\ delivered' = Append(delivered, i)
  <2>1. delivered \in Seq(1..dir.n) /\ dir.n \in Nat
    BY ListingFacts DEF TypeInv, TypeOK, ScanType
  <2>2. /\ Len(delivered) \in Nat
        /\ Len(delivered') = Len(delivered) + 1
        /\ delivered'[Len(delivered) + 1] = i
        /\ \A k \in 1..Len(delivered) : delivered'[k] = delivered[k] /\ delivered[k] \in 1..dir.n
    BY <1>5, <2>1
  <2>3. \A k \in 1..Len(delivered) : delivered[k] \in Nat /\ delivered[k] <= Consumed
    BY <2>1, <2>2 DEF DeliveredInOrder
  <2>4. \A k \in 1..Len(delivered') : Wanted(delivered'[k])
    BY <1>5, <2>2 DEF DeliveredInOrder, InOrderOnce
  <2>5. \A j, k \in 1..Len(delivered') : j < k => delivered'[j] < delivered'[k]
    <3> SUFFICES ASSUME NEW j \in 1..Len(delivered'), NEW k \in 1..Len(delivered'), j < k
                 PROVE  delivered'[j] < delivered'[k]
      OBVIOUS
    <3>1. j \in 1..Len(delivered)
      BY <2>2
    <3>2. CASE k = Len(delivered) + 1
      BY <1>3, <2>2, <2>3, <3>1, <3>2
    <3>3. CASE k \in 1..Len(delivered)
      BY <2>2, <3>1, <3>3 DEF DeliveredInOrder, InOrderOnce
    <3> QED
      BY <2>2, <3>2, <3>3
  <2>6. \A k \in 1..Len(delivered') : delivered'[k] <= Consumed'
    <3> SUFFICES ASSUME NEW k \in 1..Len(delivered') PROVE delivered'[k] <= Consumed + 1
      BY <1>2
    <3>1. CASE k = Len(delivered) + 1
      BY <1>3, <2>2, <3>1
    <3>2. CASE k \in 1..Len(delivered)
      BY <1>3, <2>2, <2>3, <3>2
    <3> QED
      BY <2>2, <3>1, <3>2
  <2>7. \A k : Wanted(k)' = Wanted(k)
    BY <1>1 DEF Wanted
  <2> QED
    BY <2>4, <2>5, <2>6, <2>7 DEF DeliveredInOrder, InOrderOnce
<1> QED
  BY <1>1, <1>4, <1>5

(* A query that does not start over takes the scan on from where it was.     *)
LEMMA QueryOnward ==
  ASSUME TypeInv, NtQueryDirectoryFile, ~bFirstScan, dir' = dir
  PROVE  /\ kpos <= kpos'
         /\ ntStatus' = "SUCCESS" => base' = kpos
<1>1. kpos \in Nat /\ dir.n \in Nat
  BY ConsumedBounds
<1>2. CASE QueryChunk(kpos)
  <2>1. \E n \in 1..(dir.n - kpos) : base' = kpos /\ kpos' = kpos + n
    BY <1>2 DEF QueryChunk
  <2> QED
    BY <1>1, <2>1
<1>3. CASE QueryTooSmall(kpos)
  BY <1>1, <1>3 DEF QueryTooSmall
<1>4. CASE QueryAtEnd(kpos)
  BY <1>1, <1>4 DEF QueryAtEnd
<1>5. CASE QueryError
  BY <1>1, <1>5 DEF QueryError, buffer
<1> QED
  BY <1>2, <1>3, <1>4, <1>5 DEF NtQueryDirectoryFile

LEMMA QueryStepOrder ==
  ASSUME TypeInv, TypeInv', OrderInv, Query \/ Requery
  PROVE  DeliveredInOrder'
<1>1. /\ InWrap /\ NtQueryDirectoryFile /\ dir' = dir /\ bSuppress' = bSuppress
      /\ delivered' = delivered
      /\ \/ pucNextEntry' = pucNextEntry
         \/ pucNextEntry' = 1 /\ ntStatus' = "SUCCESS"
  BY DEF Query, Requery, InWrap, EndOfWrap, opened
<1>2. CASE bFirstScan
  <2>1. delivered' = <<>>
    BY <1>1, <1>2 DEF OrderInv
  <2> QED
    BY <2>1 DEF DeliveredInOrder, InOrderOnce
<1>3. CASE ~bFirstScan
  <2>1. pucNextEntry = 0 /\ Consumed = kpos
    BY <1>1 DEF TypeInv, CursorInv, Consumed
  <2>2. kpos <= kpos' /\ (ntStatus' = "SUCCESS" => base' = kpos)
    BY <1>1, <1>3, QueryOnward
  <2>3. Consumed <= Consumed'
    <3>1. kpos \in Nat
      BY ConsumedBounds
    <3>2. CASE pucNextEntry' = 0
      BY <2>1, <2>2, <3>2 DEF Consumed
    <3>3. CASE pucNextEntry' = 1 /\ ntStatus' = "SUCCESS"
      <4>1. Consumed' = kpos + 1 - 1
        BY <2>2, <3>3 DEF Consumed
      <4> QED
        BY <2>1, <3>1, <4>1
    <3> QED
      BY <1>1, <2>1, <3>2, <3>3
  <2>4. DeliveredInOrder
    BY DEF OrderInv, DeliveredInOrder
  <2> QED
    BY <1>1, <2>3, <2>4, OrderKept
<1> QED
  BY <1>2, <1>3 DEF TypeInv, TypeOK, FlagType

LEMMA NextOrderInv == TypeInv /\ TypeInv' /\ OrderInv /\ [Next]_vars => OrderInv'
<1> SUFFICES ASSUME TypeInv, TypeInv', OrderInv, [Next]_vars PROVE OrderInv'
  OBVIOUS
<1> DEFINE StartsEmpty ==
      (InWrap /\ bFirstScan) \/ (pc # "closed" /\ cbBuffer = 0) => delivered = <<>>
<1>0. DeliveredInOrder /\ StartsEmpty
  BY DEF OrderInv, DeliveredInOrder
<1> SUFFICES DeliveredInOrder' /\ StartsEmpty'
  BY DEF OrderInv, DeliveredInOrder
<1>a. Consumed \in Nat /\ Consumed <= kpos /\ kpos \in Nat
  BY ConsumedBounds
<1>b. Consumed <= Consumed
  BY <1>a
<1>1. CASE NativeFindInit
  <2>1. /\ Consumed' = Consumed /\ UNCHANGED <<delivered, dir, bSuppress>>
        /\ UNCHANGED <<pc, cbBuffer, bFirstScan>>
    BY <1>1 DEF NativeFindInit, Consumed, call, opened, buffer, cursor, locals
  <2> QED
    BY <1>0, <1>b, <2>1, OrderKept DEF InWrap
<1>2. CASE NativeFindFirstFile
  <2>1. delivered' = <<>>
    BY <1>2 DEF NativeFindFirstFile
  <2> QED
    BY <2>1 DEF DeliveredInOrder, InOrderOnce
<1>3. CASE NativeFindNextFile
  <2>1. /\ Consumed' = Consumed /\ UNCHANGED <<delivered, dir, bSuppress>>
        /\ pc = "idle" /\ pc' = "next" /\ cbBuffer' = cbBuffer
    BY <1>3 DEF NativeFindNextFile, Consumed, opened, heap, buffer, cursor
  <2> QED
    BY <1>0, <1>b, <2>1, OrderKept DEF InWrap
<1>4. ASSUME FreeFindHandle, pc' = "closed" PROVE DeliveredInOrder' /\ StartsEmpty'
  <2>1. delivered' = <<>>
    BY <1>4 DEF FreeFindHandle
  <2> QED
    BY <1>4, <2>1 DEF DeliveredInOrder, StartsEmpty, InOrderOnce
<1>5. CASE NativeFindClose
  BY <1>4, <1>5 DEF NativeFindClose
<1>6. CASE TakeEntry
  <2>1. cbBuffer # 0 /\ cbBuffer' = cbBuffer /\ pc' \in {"next", "idle"}
    BY <1>6 DEF TakeEntry, NeedsQuery, ReturnEntry, heap, call
  <2> QED
    BY <1>0, <1>6, <2>1, TakeEntryOrder DEF InWrap
<1>7. CASE ReturnNull
  <2>1. CASE ~inFirst
    <3>1. /\ Consumed' = Consumed /\ UNCHANGED <<delivered, dir, bSuppress>>
          /\ pc # "closed" /\ pc' = "idle" /\ cbBuffer' = cbBuffer
      BY <1>7, <2>1 DEF ReturnNull, Consumed, opened, heap, buffer, cursor
    <3> QED
      BY <1>0, <1>b, <3>1, OrderKept DEF InWrap
  <2>2. CASE inFirst
    BY <1>4, <1>7, <2>2 DEF ReturnNull
  <2> QED
    BY <2>1, <2>2
<1>8. CASE BeginFirstScan
  <2>1. delivered' = delivered /\ pc = "next" /\ cbBuffer = 0
    BY <1>8 DEF BeginFirstScan
  <2>2. delivered' = <<>>
    BY <1>0, <2>1
  <2> QED
    BY <2>2 DEF DeliveredInOrder, InOrderOnce
<1>9. CASE BeginLaterScan
  <2>1. /\ Consumed' = Consumed /\ UNCHANGED <<delivered, dir, bSuppress>>
        /\ cbBuffer # 0 /\ cbBuffer' = cbBuffer /\ ~bFirstScan'
    BY <1>9 DEF BeginLaterScan, Consumed, opened, heap, cursor
  <2> QED
    BY <1>0, <1>b, <2>1, OrderKept
<1>10. CASE Query \/ Requery
  <2>1. InWrap /\ bFirstScan' = bFirstScan /\ cbBuffer' = cbBuffer /\ delivered' = delivered
    BY <1>10 DEF Query, Requery, InWrap, heap, locals
  <2>2. cbBuffer # 0
    BY <2>1 DEF TypeInv, CursorInv
  <2> QED
    BY <1>0, <1>10, <2>1, <2>2, QueryStepOrder
<1>11. CASE Grow
  <2>1. /\ InWrap /\ UNCHANGED <<delivered, dir, bSuppress, bFirstScan, kpos, base>>
        /\ BufferGrown \/ MaximumReached \/ GrowFailed
    BY <1>11 DEF Grow, InWrap, opened
  <2>2. pucNextEntry = 0 /\ cbBuffer # 0
    BY <2>1 DEF TypeInv, CursorInv
  <2>3. pucNextEntry' = 0 /\ cbBuffer' # 0
    BY <2>1, <2>2, GrowTypes DEF TypeInv
  <2>4. Consumed' = Consumed
    BY <2>1, <2>2, <2>3 DEF Consumed
  <2> QED
    BY <1>0, <1>b, <2>1, <2>3, <2>4, OrderKept
<1>12. CASE UNCHANGED vars
  <2>1. /\ Consumed' = Consumed /\ UNCHANGED <<delivered, dir, bSuppress>>
        /\ UNCHANGED <<pc, cbBuffer, bFirstScan>>
    BY <1>12 DEF vars, Consumed, call, opened, heap, buffer, cursor, locals
  <2> QED
    BY <1>0, <1>b, <2>1, OrderKept DEF InWrap
<1> QED
  BY <1>1, <1>2, <1>3, <1>5, <1>6, <1>7, <1>8, <1>9, <1>10, <1>11, <1>12 DEF Next, Internal

(* Whatever the query loop does, the entries come in the order of the        *)
(* listing, none twice and none the caller asked to suppress.                *)
THEOREM EntriesInOrderOnce == Spec => []InOrderOnce
<1>1. Init => OrderInv
  BY DEF Init, OrderInv, InOrderOnce
<1>2. OrderInv => InOrderOnce
  BY DEF OrderInv
<1> QED
  BY <1>1, <1>2, InitTypeInv, NextTypeInv, NextOrderInv, PTL DEF Spec

-----------------------------------------------------------------------------
(* Listings that fit into the buffer of the first scan                       *)

LEMMA GrowArithmetic ==
  \A c, f, m \in Nat \ {0} :
    f <= c =>
      /\ c < m => /\ Smaller(2 * c, m) >= f
                  /\ Smaller(2 * c, m) >= IF f >= m THEN f ELSE Smaller(2 * f, m)
      /\ c >= m => c >= IF f >= m THEN f ELSE Smaller(2 * f, m)
  BY DEF Smaller

(* The query loop of the first scan works with a buffer that can only grow   *)
(* and that has been grown once, or is at the maximum, when it repeats.      *)
LEMMA GrowSizes ==
  ASSUME TypeInv, FirstScanInv, Grow
  PROVE  /\ cbBuffer' # 0 => bMaxQueryBufferSizeReached' = (cbBuffer' >= MaxBufferSize)
         /\ bFirstScan => cbBuffer' >= firstSize
         /\ bFirstScan /\ pc' = "requery" => cbBuffer' >= GuaranteedSize
<1>1. pc = "grow" /\ InWrap /\ cbBuffer # 0
  BY DEF Grow, InWrap, TypeInv, CursorInv
<1>2. /\ cbBuffer \in Nat \ {0} /\ firstSize \in Nat \ {0} /\ MaxBufferSize \in Nat \ {0}
  BY <1>1, SizesAssumption DEF TypeInv, TypeOK, HeapType
<1>3. bMaxQueryBufferSizeReached = (cbBuffer >= MaxBufferSize)
  BY <1>1 DEF FirstScanInv
<1>4. bFirstScan => cbBuffer >= firstSize
  BY <1>1 DEF FirstScanInv
<1>5. CASE BufferGrown /\ pc' = "requery"
  <2>1. cbBuffer' = GrownSize /\ ~bMaxQueryBufferSizeReached
        /\ bMaxQueryBufferSizeReached' = (GrownSize >= MaxBufferSize)
    BY <1>5 DEF BufferGrown
  <2>2. GrownSize = Smaller(2 * cbBuffer, MaxBufferSize)
    BY <1>1 DEF GrownSize
  <2>3. ~(cbBuffer >= MaxBufferSize)
    BY <1>3, <2>1
  <2>4. cbBuffer < MaxBufferSize
    BY <1>2, <2>3
  <2>5. bFirstScan => GrownSize >= firstSize /\ GrownSize >= GuaranteedSize
    BY <1>2, <1>4, <2>2, <2>4, GrowArithmetic DEF GuaranteedSize
  <2> QED
    BY <2>1, <2>5
<1>6. CASE MaximumReached \/ GrowFailed
  <2>1. cbBuffer' = cbBuffer /\ bMaxQueryBufferSizeReached' = bMaxQueryBufferSizeReached
    BY <1>6 DEF MaximumReached, GrowFailed, OutOfMemory, OldBufferNotFreed, heap
  <2>2. pc' = "requery" => cbBuffer >= MaxBufferSize
    <3>1. CASE BufferGrown
      BY <1>3, <1>6, <2>1, <3>1, SizesAssumption, <1>2 DEF BufferGrown, MaximumReached, GrowFailed,
         OutOfMemory, OldBufferNotFreed, GrownSize, Smaller
    <3>2. CASE ~BufferGrown
      BY <1>3, <3>2 DEF Grow, MaximumReached
    <3> QED
      BY <3>1, <3>2
  <2>3. bFirstScan /\ pc' = "requery" => cbBuffer >= GuaranteedSize
    BY <1>2, <1>4, <2>2, GrowArithmetic DEF GuaranteedSize
  <2> QED
    BY <1>3, <1>4, <2>1, <2>3
<1> QED
  BY <1>5, <1>6 DEF Grow

LEMMA NextFirstScanInv == TypeInv /\ FirstScanInv /\ [Next]_vars => FirstScanInv'
<1> SUFFICES ASSUME TypeInv, FirstScanInv, [Next]_vars PROVE FirstScanInv'
  OBVIOUS
<1>0. /\ cbBuffer # 0 => bMaxQueryBufferSizeReached = (cbBuffer >= MaxBufferSize)
      /\ InFirstScan => inFirst /\ ~bNoMoreFiles
      /\ pc = "idle" => ~inFirst /\ cbBuffer # 0
      /\ InWrap /\ bFirstScan => cbBuffer >= firstSize
      /\ InWrap => cbBuffer # 0
  BY DEF FirstScanInv, TypeInv, CursorInv
<1>1. CASE NativeFindInit
  <2>1. /\ pc \in {"closed", "idle"}
        /\ UNCHANGED <<pc, inFirst, cbBuffer, bMaxQueryBufferSizeReached, bNoMoreFiles, bFirstScan>>
    BY <1>1 DEF NativeFindInit, call, locals
  <2> QED
    BY <1>0, <2>1 DEF FirstScanInv, InWrap, InFirstScan
<1>2. CASE NativeFindFirstFile
  <2>1. /\ pc' = "next" /\ inFirst' /\ cbBuffer' = 0 /\ ~bMaxQueryBufferSizeReached' /\ ~bNoMoreFiles'
        /\ firstSize' = s_uInitialBufSize'
    BY <1>2 DEF NativeFindFirstFile, FreshHandle
  <2> QED
    BY <2>1 DEF FirstScanInv, InWrap, InFirstScan
<1>3. CASE NativeFindNextFile
  <2>1. /\ pc = "idle" /\ pc' = "next"
        /\ UNCHANGED <<inFirst, cbBuffer, bMaxQueryBufferSizeReached, bNoMoreFiles>>
    BY <1>3 DEF NativeFindNextFile, heap
  <2> QED
    BY <1>0, <2>1 DEF FirstScanInv, InWrap, InFirstScan
<1>4. ASSUME FreeFindHandle, pc' = "closed" PROVE FirstScanInv'
  BY <1>4 DEF FreeFindHandle, FreshHandle, FirstScanInv, InWrap, InFirstScan
<1>5. CASE NativeFindClose
  BY <1>4, <1>5 DEF NativeFindClose
<1>6. CASE TakeEntry
  <2>1. /\ cbBuffer # 0 /\ UNCHANGED <<cbBuffer, bMaxQueryBufferSizeReached>>
        /\ pc' = "next" \/ (pc' = "idle" /\ ~inFirst')
    BY <1>6 DEF TakeEntry, NeedsQuery, ReturnEntry, heap, call
  <2> QED
    BY <1>0, <2>1 DEF FirstScanInv, InWrap, InFirstScan
<1>7. CASE ReturnNull
  <2>1. CASE inFirst
    BY <1>4, <1>7, <2>1 DEF ReturnNull
  <2>2. CASE ~inFirst
    <3>1. /\ pc' = "idle" /\ ~inFirst' /\ UNCHANGED <<cbBuffer, bMaxQueryBufferSizeReached>>
      BY <1>7, <2>2 DEF ReturnNull, heap
    <3>2. cbBuffer # 0
      BY <1>0, <1>7, <2>2 DEF ReturnNull, NeedsQuery, InFirstScan
    <3> QED
      BY <1>0, <3>1, <3>2 DEF FirstScanInv, InWrap, InFirstScan
  <2> QED
    BY <2>1, <2>2
<1>8. CASE BeginFirstScan
  <2>1. /\ pc = "next" /\ cbBuffer = 0 /\ UNCHANGED <<inFirst, bNoMoreFiles, firstSize>>
        /\ (BufferGrown /\ pc' = "query") \/ (OutOfMemory /\ pc' = "null")
    BY <1>8 DEF BeginFirstScan, opened
  <2>2. inFirst /\ ~bNoMoreFiles
    BY <1>0, <2>1 DEF InFirstScan
  <2>3. CASE BufferGrown /\ pc' = "query"
    <3>1. /\ cbBuffer' = s_uInitialBufSize /\ s_uInitialBufSize = firstSize
          /\ bMaxQueryBufferSizeReached' = (cbBuffer' >= MaxBufferSize)
      BY <2>1, <2>3 DEF BufferGrown, GrownSize, FirstScanInv
    <3>2. cbBuffer' >= firstSize'
      <4>1. firstSize \in Nat /\ \A x \in Nat : x >= x
        BY DEF TypeInv, TypeOK, HeapType
      <4> QED
        BY <2>1, <3>1, <4>1
    <3> QED
      BY <2>1, <2>2, <2>3, <3>1, <3>2 DEF FirstScanInv, InWrap, InFirstScan
  <2>4. CASE OutOfMemory /\ pc' = "null"
    BY <2>1, <2>2, <2>4 DEF FirstScanInv, InWrap, InFirstScan, OutOfMemory, heap
  <2> QED
    BY <2>1, <2>3, <2>4
<1>9. CASE BeginLaterScan
  <2>1. /\ pc' = "query" /\ ~bFirstScan' /\ UNCHANGED <<cbBuffer, bMaxQueryBufferSizeReached>>
    BY <1>9 DEF BeginLaterScan, heap
  <2> QED
    BY <1>0, <2>1 DEF FirstScanInv, InWrap, InFirstScan
<1>10. CASE Query \/ Requery
  <2>1. /\ InWrap /\ NtQueryDirectoryFile
        /\ UNCHANGED <<inFirst, cbBuffer, bMaxQueryBufferSizeReached, bFirstScan, firstSize>>
        /\ \/ pc' = "grow" /\ bNoMoreFiles' = bNoMoreFiles
           \/ /\ pc' \in {"next", "null"}
              /\ bNoMoreFiles' = (ntStatus' = "NO_MORE_FILES")
    BY <1>10 DEF Query, Requery, InWrap, EndOfWrap, heap, opened, locals
  <2>2. cbBuffer' # 0
    BY <1>0, <2>1
  <2>3. InFirstScan' => pc' = "grow" /\ bFirstScan
    BY <2>1, <2>2 DEF InFirstScan, InWrap
  <2>4. InFirstScan' => InFirstScan /\ bNoMoreFiles' = bNoMoreFiles
    BY <2>1, <2>3 DEF InFirstScan
  <2> QED
    BY <1>0, <2>1, <2>2, <2>3, <2>4 DEF FirstScanInv, InWrap
<1>11. CASE Grow
  <2>1. /\ InWrap /\ pc' \in {"requery", "null"}
        /\ UNCHANGED <<inFirst, bNoMoreFiles, bFirstScan, firstSize>>
        /\ BufferGrown \/ MaximumReached \/ GrowFailed
    BY <1>11 DEF Grow, InWrap, opened
  <2>2. cbBuffer' # 0
    BY <1>0, <2>1, GrowTypes DEF TypeInv
  <2>3. InFirstScan' => InFirstScan
    BY <2>1, <2>2 DEF InFirstScan, InWrap
  <2>4. GuaranteedSize' = GuaranteedSize
    BY <2>1 DEF GuaranteedSize
  <2> QED
    BY <1>0, <1>11, <2>1, <2>2, <2>3, <2>4, GrowSizes DEF FirstScanInv, InWrap
<1>12. CASE UNCHANGED vars
  BY <1>12 DEF vars, call, opened, heap, locals, FirstScanInv, InWrap, InFirstScan, GuaranteedSize
<1> QED
  BY <1>1, <1>2, <1>3, <1>5, <1>6, <1>7, <1>8, <1>9, <1>10, <1>11, <1>12 DEF Next, Internal

(* A query from the start into a buffer that holds the whole listing returns *)
(* all of it, if it returns anything.                                        *)
LEMMA WholeListingQueried ==
  ASSUME TypeInv, NtQueryDirectoryFile, bFirstScan, dir.end[dir.n] <= cbBuffer
  PROVE  /\ ntStatus' # "NO_MORE_FILES"
         /\ ntStatus' = "SUCCESS" => kpos' = dir.n /\ base' = 0
<1>1. dir \in Listings /\ dir.n \in Nat /\ cbBuffer \in Nat
  BY ListingFacts DEF TypeInv, TypeOK, ScanType, HeapType
<1>2. /\ \A k \in 0..dir.n : dir.end[k] \in Nat
      /\ \A k \in 0..dir.n : dir.end[k] <= dir.end[dir.n]
      /\ dir.end[0] = 0
  <2>1. dir.end \in [0..dir.n -> Nat] /\ dir.end[0] = 0
        /\ \A i, j \in 0..dir.n : i < j => dir.end[i] < dir.end[j]
    BY <1>1, ListingFacts
  <2>2. \A k \in 0..dir.n : dir.end[k] \in Nat
    BY <2>1
  <2>3. dir.n \in 0..dir.n
    BY <1>1
  <2>4. ASSUME NEW k \in 0..dir.n PROVE dir.end[k] <= dir.end[dir.n]
    <3>1. k = dir.n \/ k < dir.n
      BY <1>1
    <3>2. \A a, b \in Nat : a = b \/ a < b => a <= b
      OBVIOUS
    <3> QED
      BY <2>1, <2>2, <2>3, <3>1, <3>2
  <2> QED
    BY <2>1, <2>2, <2>4
<1>3. \A n \in 1..dir.n : Fits(0, n)
  <2> SUFFICES ASSUME NEW n \in 1..dir.n PROVE dir.end[0 + n] - dir.end[0] <= cbBuffer
    BY DEF Fits, Bytes
  <2>1. 0 + n = n /\ n \in 0..dir.n /\ dir.n \in 0..dir.n
    BY <1>1
  <2>2. dir.end[n] \in Nat /\ dir.end[dir.n] \in Nat /\ dir.end[n] <= dir.end[dir.n] /\ dir.end[0] = 0
    BY <1>2, <2>1
  <2>3. \A a, b, c \in Nat : a <= b /\ b <= c => a - 0 <= c
    OBVIOUS
  <2> QED
    BY <1>1, <2>1, <2>2, <2>3
<1>4. CASE QueryChunk(0)
  <2>1. PICK n \in 1..(dir.n - 0) :
          /\ 0 + n < dir.n => ~Fits(0, n + 1)
          /\ ntStatus' = "SUCCESS" /\ base' = 0 /\ kpos' = 0 + n
    BY <1>4 DEF QueryChunk
  <2>2. n \in 1..dir.n /\ 0 + n = n
    BY <1>1, <2>1
  <2>3. n = dir.n
    <3>1. n < dir.n => n + 1 \in 1..dir.n
      BY <1>1, <2>2
    <3>2. ~(n < dir.n)
      BY <1>3, <2>1, <2>2, <3>1
    <3> QED
      BY <1>1, <2>2, <3>2
  <2> QED
    BY <2>1, <2>2, <2>3
<1>5. CASE QueryTooSmall(0)
  <2>1. 0 < dir.n => 1 \in 1..dir.n
    BY <1>1
  <2> QED
    BY <1>3, <1>5, <2>1 DEF QueryTooSmall
<1>6. CASE QueryAtEnd(0)
  BY <1>6 DEF QueryAtEnd
<1>7. CASE QueryError
  BY <1>7 DEF QueryError
<1> QED
  BY <1>4, <1>5, <1>6, <1>7 DEF NtQueryDirectoryFile

(* A query at the end of the listing finds that out, or fails.               *)
LEMMA QueriedAtEnd ==
  ASSUME TypeInv, NtQueryDirectoryFile, ~bFirstScan, kpos = dir.n
  PROVE  kpos' = kpos /\ base' = base /\ ntStatus' \in {"NO_MORE_FILES", "IO_ERROR"}
<1>1. kpos \in Nat
  BY ConsumedBounds
<1>2. ~QueryChunk(kpos) /\ ~QueryTooSmall(kpos)
  BY <1>1 DEF QueryChunk, QueryTooSmall
<1>3. CASE QueryAtEnd(kpos)
  BY <1>3 DEF QueryAtEnd
<1>4. CASE QueryError
  BY <1>4 DEF QueryError, buffer
<1> QED
  BY <1>2, <1>3, <1>4 DEF NtQueryDirectoryFile

(* The whole listing has been read and what lies behind is delivered.        *)
ReadWhole == kpos = dir.n /\ DeliveredUpTo(0, Consumed)

LEMMA ReadWholeKept ==
  ASSUME ReadWhole, UNCHANGED <<delivered, dir, bSuppress, kpos>>, Consumed' = Consumed
  PROVE  ReadWhole'
  BY DEF ReadWhole, DeliveredUpTo, Wanted, WasDelivered

LEMMA CompleteKept ==
  ASSUME CompleteIfFits, UNCHANGED <<delivered, opened>>, bNoMoreFiles' => bNoMoreFiles
  PROVE  CompleteIfFits'
  BY DEF CompleteIfFits, FitsFirstScan, GuaranteedSize, Wanted, WasDelivered, opened

(* What taking an entry adds to what has been delivered.                     *)
LEMMA TakeEntryDelivers ==
  ASSUME TypeInv, TakeEntry
  PROVE  /\ UNCHANGED <<dir, bSuppress, firstSize, kpos, base, bNoMoreFiles>>
         /\ pucNextEntry # 0
         /\ \A j : Wanted(j)' = Wanted(j)
         /\ \A j : WasDelivered(j) => WasDelivered(j)'
         /\ Consumed' = Consumed + 1 /\ Consumed \in Nat
         /\ \A j : j = Consumed + 1 /\ Wanted(j) => WasDelivered(j)'
<1> DEFINE i == base + pucNextEntry
<1>1. /\ pucNextEntry # 0 /\ UpdateNextEntryPointer
      /\ UNCHANGED <<dir, bSuppress, firstSize, kpos, base, bNoMoreFiles>>
      /\ \/ Wanted(i) /\ delivered' = Append(delivered, i)
         \/ ~Wanted(i) /\ delivered' = delivered
  BY DEF TakeEntry, ReturnEntry, opened, call
<1>2. delivered \in Seq(1..dir.n) /\ dir.n \in Nat
  BY ListingFacts DEF TypeInv, TypeOK, ScanType
<1>3. \A j : Wanted(j)' = Wanted(j)
  BY <1>1 DEF Wanted
<1>4. ASSUME NEW j, WasDelivered(j) PROVE WasDelivered(j)'
  <2>1. PICK k \in 1..Len(delivered) : delivered[k] = j
    BY <1>4 DEF WasDelivered
  <2>2. CASE delivered' = delivered
    BY <2>1, <2>2 DEF WasDelivered
  <2>3. CASE delivered' = Append(delivered, i)
    <3>1. k \in 1..Len(delivered') /\ delivered'[k] = delivered[k]
      BY <1>2, <2>3
    <3> QED
      BY <2>1, <3>1 DEF WasDelivered
  <2> QED
    BY <1>1, <2>2, <2>3
<1>5. ASSUME NEW j, j = i, Wanted(j) PROVE WasDelivered(j)'
  <2>1. delivered' = Append(delivered, i)
    BY <1>1, <1>5
  <2>2. Len(delivered) + 1 \in 1..Len(delivered') /\ delivered'[Len(delivered) + 1] = j
    BY <1>2, <1>5, <2>1
  <2> QED
    BY <2>2 DEF WasDelivered
<1>6. Consumed' = Consumed + 1 /\ i = Consumed + 1 /\ Consumed \in Nat
  <2>1. pucNextEntry' = IF pucNextEntry < Buffered THEN pucNextEntry + 1 ELSE 0
    BY <1>1, UpdateCursor
  <2>2. pucNextEntry \in 1..Buffered /\ Buffered \in Nat /\ kpos \in Nat /\ base \in Nat
        /\ Buffered = kpos - base
    BY <1>1, ListingFacts DEF TypeInv, TypeOK, ScanType, Buffered
  <2> QED
    BY <1>1, <2>1, <2>2 DEF Consumed
<1> QED
  BY <1>1, <1>3, <1>4, <1>5, <1>6

(* What was delivered up to the cursor still is when it has moved on.        *)
LEMMA DeliveredOnward ==
  ASSUME TypeInv, TakeEntry, NEW from \in Nat, DeliveredUpTo(from, Consumed)
  PROVE  \A j \in from + 1 .. Consumed' : Wanted(j)' => WasDelivered(j)'
<1> SUFFICES ASSUME NEW j \in from + 1 .. Consumed', Wanted(j) PROVE WasDelivered(j)'
  BY TakeEntryDelivers
<1>1. Consumed' = Consumed + 1 /\ Consumed \in Nat
  BY TakeEntryDelivers
<1>2. CASE j = Consumed + 1
  BY <1>2, TakeEntryDelivers
<1>3. CASE j # Consumed + 1
  <2>1. j \in from + 1 .. Consumed
    BY <1>1, <1>3
  <2>2. WasDelivered(j)
    BY <2>1 DEF DeliveredUpTo
  <2> QED
    BY <2>2, TakeEntryDelivers
<1> QED
  BY <1>2, <1>3

LEMMA TakeEntryWhole ==
  ASSUME TypeInv, TakeEntry
  PROVE  /\ CompleteIfFits => CompleteIfFits'
         /\ ReadWhole => ReadWhole'
<1>1. UNCHANGED <<dir, bSuppress, firstSize, kpos, base, bNoMoreFiles>>
  BY TakeEntryDelivers
<1>2. CompleteIfFits => CompleteIfFits'
  <2>1. FitsFirstScan' = FitsFirstScan
    BY <1>1 DEF FitsFirstScan, GuaranteedSize
  <2> QED
    BY <1>1, <2>1, TakeEntryDelivers DEF CompleteIfFits
<1>3. ASSUME ReadWhole PROVE ReadWhole'
  <2>1. \A j \in 0 + 1 .. Consumed' : Wanted(j)' => WasDelivered(j)'
    BY <1>3, DeliveredOnward DEF ReadWhole
  <2> QED
    BY <1>1, <1>3, <2>1 DEF ReadWhole, DeliveredUpTo
<1> QED
  BY <1>2, <1>3

LEMMA NextFitInv ==
  TypeInv /\ TypeInv' /\ FirstScanInv /\ FitInv /\ [Next]_vars => FitInv'
<1> SUFFICES ASSUME TypeInv, TypeInv', FirstScanInv, FitInv, [Next]_vars PROVE FitInv'
  OBVIOUS
<1>0. /\ CompleteIfFits
      /\ FitsFirstScan /\ PastFirstScan => ReadWhole
      /\ InFirstScan => inFirst /\ ~bNoMoreFiles
      /\ pc = "idle" => ~inFirst
      /\ InWrap => cbBuffer # 0 /\ pucNextEntry = 0
  BY DEF FitInv, FirstScanInv, PastFirstScan, ReadWhole, TypeInv, CursorInv
<1>q. /\ CompleteIfFits'
      /\ FitsFirstScan' /\ PastFirstScan' => ReadWhole'
      => FitInv'
  BY DEF FitInv, PastFirstScan, ReadWhole
<1>f. UNCHANGED opened => FitsFirstScan' = FitsFirstScan
  BY DEF opened, FitsFirstScan, GuaranteedSize
<1>1. CASE NativeFindInit
  <2>1. UNCHANGED <<pc, inFirst, cbBuffer, bFirstScan, delivered, opened, bNoMoreFiles, kpos>>
        /\ Consumed' = Consumed
    BY <1>1 DEF NativeFindInit, call, buffer, cursor, locals, Consumed
  <2>2. PastFirstScan' = PastFirstScan
    BY <2>1 DEF PastFirstScan, InFirstScan, InWrap
  <2> QED
    BY <1>0, <1>q, <1>f, <2>1, <2>2, ReadWholeKept, CompleteKept DEF opened
<1>2. CASE NativeFindFirstFile
  <2>1. pc' = "next" /\ cbBuffer' = 0 /\ ~bNoMoreFiles'
    BY <1>2 DEF NativeFindFirstFile, FreshHandle
  <2> QED
    BY <1>q, <2>1 DEF PastFirstScan, InFirstScan, CompleteIfFits
<1>3. CASE NativeFindNextFile
  <2>1. /\ pc = "idle" /\ UNCHANGED <<delivered, opened, bNoMoreFiles, kpos>> /\ Consumed' = Consumed
    BY <1>3 DEF NativeFindNextFile, buffer, cursor, Consumed
  <2>2. PastFirstScan
    BY <2>1 DEF PastFirstScan, InFirstScan, InWrap
  <2> QED
    BY <1>0, <1>q, <1>f, <2>1, <2>2, ReadWholeKept, CompleteKept DEF opened
<1>4. ASSUME FreeFindHandle, pc' = "closed" PROVE FitInv'
  <2>1. bNoMoreFiles' = FALSE
    BY <1>4 DEF FreeFindHandle, FreshHandle
  <2> QED
    BY <1>4, <2>1 DEF FitInv, CompleteIfFits, PastFirstScan
<1>5. CASE NativeFindClose
  BY <1>4, <1>5 DEF NativeFindClose
<1>6. CASE TakeEntry
  <2>1. /\ pc = "next" /\ cbBuffer # 0 /\ opened' = opened
    BY <1>6 DEF TakeEntry, NeedsQuery, opened
  <2>2. PastFirstScan
    BY <2>1 DEF PastFirstScan, InFirstScan, InWrap
  <2> QED
    BY <1>0, <1>6, <1>q, <1>f, <2>1, <2>2, TakeEntryWhole DEF opened
<1>7. CASE ReturnNull
  <2>1. CASE inFirst
    BY <1>4, <1>7, <2>1 DEF ReturnNull
  <2>2. CASE ~inFirst
    <3>1. /\ pc \in {"next", "null"} /\ UNCHANGED <<delivered, opened, bNoMoreFiles, kpos>>
          /\ Consumed' = Consumed
      BY <1>7, <2>2 DEF ReturnNull, buffer, cursor, Consumed
    <3>2. PastFirstScan
      BY <1>0, <2>2, <3>1 DEF PastFirstScan
    <3> QED
      BY <1>0, <1>q, <1>f, <3>1, <3>2, ReadWholeKept, CompleteKept DEF opened
  <2> QED
    BY <2>1, <2>2
<1>8. CASE BeginFirstScan
  <2>1. /\ pc = "next" /\ cbBuffer = 0 /\ bFirstScan' /\ bNoMoreFiles' = bNoMoreFiles
        /\ inFirst' = inFirst /\ pc' \in {"query", "null"}
    BY <1>8 DEF BeginFirstScan
  <2>2. inFirst /\ ~bNoMoreFiles
    BY <1>0, <2>1 DEF InFirstScan
  <2> QED
    BY <1>q, <2>1, <2>2 DEF PastFirstScan, InFirstScan, InWrap, CompleteIfFits
<1>9. CASE BeginLaterScan
  <2>1. /\ pc = "next" /\ cbBuffer # 0 /\ UNCHANGED <<delivered, opened, bNoMoreFiles, kpos>>
        /\ Consumed' = Consumed
    BY <1>9 DEF BeginLaterScan, cursor, Consumed
  <2>2. PastFirstScan
    BY <2>1 DEF PastFirstScan, InFirstScan, InWrap
  <2> QED
    BY <1>0, <1>q, <1>f, <2>1, <2>2, ReadWholeKept, CompleteKept DEF opened
<1>10. CASE Query \/ Requery
  <2>1. /\ InWrap /\ NtQueryDirectoryFile
        /\ UNCHANGED <<inFirst, cbBuffer, bFirstScan, opened, delivered>>
    BY <1>10 DEF Query, Requery, InWrap, heap, locals
  <2>2. \/ pc' = "grow" /\ ntStatus' \in Retried
           /\ UNCHANGED <<pucNextEntry, bNoMoreFiles>>
        \/ EndOfWrap(ntStatus') /\ (ntStatus' = "SUCCESS" => pc = "requery")
    BY <1>10 DEF Query, Requery, Retried
  <2>3. CASE bFirstScan
    <3>1. inFirst /\ ~bNoMoreFiles /\ inFirst'
      BY <1>0, <2>1, <2>3 DEF InFirstScan
    <3>2. CASE pc' = "grow" /\ bNoMoreFiles' = bNoMoreFiles
      BY <1>q, <2>1, <2>3, <3>1, <3>2 DEF PastFirstScan, InFirstScan, InWrap, CompleteIfFits
    <3>3. CASE EndOfWrap(ntStatus') /\ (ntStatus' = "SUCCESS" => pc = "requery")
      <4>1. ntStatus' # "NO_MORE_FILES"
        BY <2>1, <2>3 DEF NtQueryDirectoryFile, QueryChunk, QueryTooSmall, QueryAtEnd, QueryError
      <4>2. CompleteIfFits'
        BY <3>3, <4>1 DEF EndOfWrap, CompleteIfFits
      <4>3. CASE ntStatus' # "SUCCESS"
        BY <1>q, <3>1, <3>3, <4>2, <4>3 DEF EndOfWrap, PastFirstScan
      <4>4. ASSUME ntStatus' = "SUCCESS", FitsFirstScan PROVE ReadWhole'
        <5>1. cbBuffer >= GuaranteedSize
          BY <2>3, <3>3, <4>4 DEF FirstScanInv
        <5>2. dir.end[dir.n] <= cbBuffer
          <6>1. dir.end[dir.n] \in Nat /\ cbBuffer \in Nat /\ GuaranteedSize \in Nat
            <7>1. dir \in Listings /\ dir.n \in Nat /\ dir.n \in 0..dir.n
              BY ListingFacts DEF TypeInv, TypeOK, ScanType
            <7>2. dir.end[dir.n] \in Nat
              BY <7>1, ListingFacts
            <7> QED
              BY <7>2, SizesAssumption DEF TypeInv, TypeOK, HeapType, GuaranteedSize, Smaller
          <6>2. \A a, b, c \in Nat : a <= b /\ c >= b => a <= c
            OBVIOUS
          <6> QED
            BY <4>4, <5>1, <6>1, <6>2 DEF FitsFirstScan
        <5>3. kpos' = dir.n /\ base' = 0 /\ pucNextEntry' = 1
          BY <2>1, <2>3, <3>3, <4>4, <5>2, WholeListingQueried DEF EndOfWrap
        <5>4. Consumed' = 0
          BY <5>3 DEF Consumed
        <5>5. dir' = dir
          BY <2>1 DEF opened
        <5> QED
          BY <5>3, <5>4, <5>5 DEF ReadWhole, DeliveredUpTo
      <4> QED
        BY <1>q, <1>f, <2>1, <4>2, <4>3, <4>4
    <3> QED
      BY <2>2, <3>2, <3>3
  <2>4. CASE ~bFirstScan
    <3>1. PastFirstScan /\ ~bFirstScan' /\ pucNextEntry = 0
      BY <1>0, <2>1, <2>4 DEF PastFirstScan, InFirstScan, InWrap
    <3>2. CASE FitsFirstScan
      <4>1. ReadWhole
        BY <1>0, <3>1, <3>2
      <4>2. /\ kpos' = kpos /\ base' = base /\ ntStatus' \in {"NO_MORE_FILES", "IO_ERROR"}
        BY <2>1, <2>4, <4>1, QueriedAtEnd DEF ReadWhole
      <4>3. EndOfWrap(ntStatus') /\ pucNextEntry' = pucNextEntry
        BY <2>2, <4>2 DEF Retried, EndOfWrap
      <4>4. ReadWhole'
        BY <2>1, <4>1, <4>2, <4>3, ReadWholeKept DEF Consumed, opened
      <4>5. CompleteIfFits'
        <5>1. DeliveredUpTo(0, dir.n)
          BY <3>1, <4>1 DEF ReadWhole, Consumed
        <5>2. \A i \in 1..dir.n : Wanted(i) => WasDelivered(i)
          BY <5>1 DEF DeliveredUpTo
        <5> QED
          BY <2>1, <5>2 DEF CompleteIfFits, Wanted, WasDelivered, opened
      <4> QED
        BY <1>q, <4>4, <4>5
    <3>3. CASE ~FitsFirstScan
      BY <1>q, <1>f, <2>1, <3>3 DEF CompleteIfFits
    <3> QED
      BY <3>2, <3>3
  <2> QED
    BY <2>3, <2>4 DEF TypeInv, TypeOK, FlagType
<1>11. CASE Grow
  <2>1. /\ InWrap /\ pc' \in {"requery", "null"} /\ pc = "grow"
        /\ UNCHANGED <<inFirst, bNoMoreFiles, bFirstScan, opened, delivered, kpos, base>>
        /\ BufferGrown \/ MaximumReached \/ GrowFailed
    BY <1>11 DEF Grow, InWrap
  <2>2. pucNextEntry = 0 /\ pucNextEntry' = 0 /\ cbBuffer # 0
    BY <1>0, <2>1, GrowTypes DEF TypeInv
  <2>3. Consumed' = Consumed
    BY <2>1, <2>2 DEF Consumed
  <2>4. PastFirstScan' => PastFirstScan
    BY <1>0, <2>1 DEF PastFirstScan, InFirstScan, InWrap
  <2> QED
    BY <1>0, <1>q, <1>f, <2>1, <2>3, <2>4, ReadWholeKept, CompleteKept DEF opened
<1>12. CASE UNCHANGED vars
  <2>1. UNCHANGED <<pc, inFirst, cbBuffer, bFirstScan, delivered, opened, bNoMoreFiles, kpos>>
        /\ Consumed' = Consumed
    BY <1>12 DEF vars, call, heap, buffer, cursor, locals, Consumed
  <2>2. PastFirstScan' = PastFirstScan
    BY <2>1 DEF PastFirstScan, InFirstScan, InWrap
  <2> QED
    BY <1>0, <1>q, <1>f, <2>1, <2>2, ReadWholeKept, CompleteKept DEF opened
<1> QED
  BY <1>1, <1>2, <1>3, <1>5, <1>6, <1>7, <1>8, <1>9, <1>10, <1>11, <1>12 DEF Next, Internal

LEMMA InitFitInv == Init => FirstScanInv /\ FitInv
  BY DEF Init, FirstScanInv, FitInv, CompleteIfFits, InFirstScan, PastFirstScan, InWrap

(* Listings that fit into the buffer of the first scan are returned whole    *)
(* before the end is reported, in spite of the query loop's repetitions and  *)
(* of failures on the way.                                                   *)
THEOREM FittingListingsComplete == Spec => []CompleteIfFits
<1>1. FitInv => CompleteIfFits
  BY DEF FitInv
<1> QED
  BY <1>1, InitTypeInv, InitFitInv, NextTypeInv, NextFirstScanInv, NextFitInv, PTL DEF Spec

-----------------------------------------------------------------------------
(* The walk along the buffer                                                 *)

LEMMA BufferKept ==
  ASSUME BufferInv, UNCHANGED <<delivered, dir, bSuppress, base>>, Consumed' = Consumed,
         pucNextEntry' # 0 \/ (pc' = "idle" /\ ret' = "entry") =>
           pucNextEntry # 0 \/ (pc = "idle" /\ ret = "entry")
  PROVE  BufferInv'
  BY DEF BufferInv, DeliveredUpTo, Wanted, WasDelivered

LEMMA NextBufferInv == TypeInv /\ TypeInv' /\ BufferInv /\ [Next]_vars => BufferInv'
<1> SUFFICES ASSUME TypeInv, TypeInv', BufferInv, [Next]_vars PROVE BufferInv'
  OBVIOUS
<1>e. ntStatus # "entry" /\ base \in Nat
  <2>1. ntStatus # "entry"
    BY DEF TypeInv, TypeOK, CallType, Statuses, Failures
  <2> QED
    BY <2>1, ConsumedBounds
<1>1. CASE NativeFindInit
  BY <1>1, BufferKept DEF NativeFindInit, call, opened, buffer, cursor, Consumed
<1>2. CASE NativeFindFirstFile
  BY <1>2 DEF NativeFindFirstFile, FreshHandle, BufferInv
<1>3. CASE NativeFindNextFile
  BY <1>3, BufferKept DEF NativeFindNextFile, opened, buffer, cursor, Consumed
<1>4. ASSUME FreeFindHandle, pc' = "closed" PROVE BufferInv'
  BY <1>4 DEF FreeFindHandle, FreshHandle, BufferInv
<1>5. CASE NativeFindClose
  BY <1>4, <1>5 DEF NativeFindClose
<1>6. CASE TakeEntry
  <2>1. pucNextEntry # 0 /\ base' = base
    BY <1>6, TakeEntryDelivers
  <2>2. DeliveredUpTo(base, Consumed)
    BY <2>1 DEF BufferInv
  <2>3. \A j \in base + 1 .. Consumed' : Wanted(j)' => WasDelivered(j)'
    BY <1>6, <1>e, <2>2, DeliveredOnward
  <2> QED
    BY <2>1, <2>3 DEF BufferInv, DeliveredUpTo
<1>7. CASE ReturnNull
  <2>1. CASE inFirst
    BY <1>4, <1>7, <2>1 DEF ReturnNull
  <2>2. CASE ~inFirst
    <3>1. /\ UNCHANGED <<delivered, dir, bSuppress, base, pucNextEntry>>
          /\ Consumed' = Consumed /\ ret' = ntStatus
      BY <1>7, <2>2 DEF ReturnNull, opened, buffer, cursor, Consumed
    <3> QED
      BY <1>e, <3>1, BufferKept
  <2> QED
    BY <2>1, <2>2
<1>8. CASE BeginFirstScan
  <2>1. pc' # "idle" /\ pucNextEntry' = 0
    <3>1. pc' # "idle" /\ cbBuffer = 0 /\ (pucNextEntry' = 0 \/ pucNextEntry' = pucNextEntry)
      BY <1>8 DEF BeginFirstScan, BufferGrown, OutOfMemory
    <3> QED
      BY <3>1 DEF TypeInv, CursorInv
  <2> QED
    BY <2>1 DEF BufferInv
<1>9. CASE BeginLaterScan
  BY <1>9 DEF BeginLaterScan, NeedsQuery, cursor, BufferInv
<1>10. CASE Query \/ Requery
  <2>1. /\ InWrap /\ NtQueryDirectoryFile /\ pc' # "idle"
        /\ pucNextEntry' = pucNextEntry \/ pucNextEntry' = 1
    BY <1>10 DEF Query, Requery, InWrap, EndOfWrap
  <2>2. CASE pucNextEntry' = 0
    BY <2>1, <2>2 DEF BufferInv
  <2>3. CASE pucNextEntry' = 1
    <3>1. Consumed' = base' /\ base' \in Nat
      <4>1. dir'.n \in Nat /\ kpos' \in 0..dir'.n /\ base' \in 0..kpos'
        BY ListingFacts DEF TypeInv, TypeOK, ScanType
      <4>2. base' \in Nat
        BY <4>1, Span
      <4>3. \A b \in Nat : b + 1 - 1 = b
        OBVIOUS
      <4>4. Consumed' = base' + 1 - 1
        BY <2>3 DEF Consumed
      <4> QED
        BY <4>2, <4>3, <4>4
    <3>2. \A j \in base' + 1 .. Consumed' : FALSE
      <4>1. \A b \in Nat : \A j \in b + 1 .. b : FALSE
        OBVIOUS
      <4> QED
        BY <3>1, <4>1
    <3> QED
      BY <3>2 DEF BufferInv, DeliveredUpTo
  <2>4. pucNextEntry = 0
    BY <2>1 DEF TypeInv, CursorInv
  <2> QED
    BY <2>1, <2>2, <2>3, <2>4
<1>11. CASE Grow
  <2>1. /\ InWrap /\ pc' # "idle"
        /\ BufferGrown \/ MaximumReached \/ GrowFailed
    BY <1>11 DEF Grow, InWrap
  <2>2. pucNextEntry = 0 /\ cbBuffer # 0
    BY <2>1 DEF TypeInv, CursorInv
  <2>3. pucNextEntry' = 0
    BY <2>1, <2>2, GrowTypes DEF TypeInv
  <2> QED
    BY <2>1, <2>3 DEF BufferInv
<1>12. CASE UNCHANGED vars
  BY <1>12, BufferKept DEF vars, call, opened, buffer, cursor, Consumed
<1> QED
  BY <1>1, <1>2, <1>3, <1>5, <1>6, <1>7, <1>8, <1>9, <1>10, <1>11, <1>12 DEF Next, Internal

(* The walk along the chain whose links are taken out and put back one entry *)
(* ahead (updateNextEntryPointer_) skips no wanted entry of the buffer.      *)
THEOREM BufferWalkedWhole == Spec => []NothingSkippedInBuffer
<1>1. Init => BufferInv
  BY DEF Init, BufferInv
<1>2. BufferInv => NothingSkippedInBuffer
  BY DEF BufferInv, NothingSkippedInBuffer, DeliveredUpTo, Consumed
<1> QED
  BY <1>1, <1>2, InitTypeInv, NextTypeInv, NextBufferInv, PTL DEF Spec

-----------------------------------------------------------------------------
(* What a call without an entry says                                         *)

(* The kernel's answers; STATUS_ALLOTTED_SPACE_EXCEEDED is none of them.     *)
LEMMA QueryStatus ==
  ASSUME NtQueryDirectoryFile
  PROVE  ntStatus' # "ALLOTTED_SPACE_EXCEEDED"
  BY DEF NtQueryDirectoryFile, QueryChunk, QueryTooSmall, QueryAtEnd, QueryError

LEMMA StatusKept ==
  ASSUME StatusInv, UNCHANGED <<pc, ret, ntStatus, bNoMoreFiles, cbBuffer, pucNextEntry>>
  PROVE  StatusInv'
  BY DEF StatusInv, FailureIsReported, InWrap

LEMMA NextStatusInv == TypeInv /\ StatusInv /\ [Next]_vars => StatusInv'
<1> SUFFICES ASSUME TypeInv, StatusInv, [Next]_vars PROVE StatusInv'
  OBVIOUS
<1>1. CASE NativeFindInit
  BY <1>1, StatusKept DEF NativeFindInit, call, cursor
<1>2. CASE NativeFindFirstFile
  BY <1>2 DEF NativeFindFirstFile, FreshHandle, StatusInv, FailureIsReported, InWrap
<1>3. CASE NativeFindNextFile
  BY <1>3 DEF NativeFindNextFile, heap, cursor, StatusInv, FailureIsReported, InWrap
<1>4. ASSUME FreeFindHandle, pc' = "closed", ret' \notin {"SUCCESS", "ALLOTTED_SPACE_EXCEEDED"}
      PROVE  StatusInv'
  BY <1>4 DEF FreeFindHandle, FreshHandle, StatusInv, FailureIsReported, InWrap
<1>5. CASE NativeFindClose
  BY <1>4, <1>5 DEF NativeFindClose
<1>6. CASE TakeEntry
  BY <1>6 DEF TakeEntry, ReturnEntry, NeedsQuery, call, heap, StatusInv, FailureIsReported, InWrap
<1>7. CASE ReturnNull
  <2>1. /\ ntStatus \notin {"SUCCESS", "ALLOTTED_SPACE_EXCEEDED"}
        /\ ntStatus = "NO_MORE_FILES" <=> bNoMoreFiles
    <3>1. CASE pc = "null"
      BY <3>1 DEF StatusInv
    <3>2. CASE pc = "next" /\ ~NeedsQuery /\ pucNextEntry = 0
      BY <3>2 DEF StatusInv, NeedsQuery
    <3> QED
      BY <1>7, <3>1, <3>2 DEF ReturnNull
  <2>2. CASE inFirst
    BY <1>4, <1>7, <2>1, <2>2 DEF ReturnNull
  <2>3. CASE ~inFirst
    <3>1. /\ ret' = ntStatus /\ pc' = "idle" /\ pc # "closed"
          /\ UNCHANGED <<ntStatus, bNoMoreFiles, cbBuffer, pucNextEntry>>
      BY <1>7, <2>3 DEF ReturnNull, heap, cursor
    <3>2. (ntStatus = "NO_MORE_FILES") = bNoMoreFiles
      BY <2>1 DEF TypeInv, TypeOK, FlagType
    <3>3. FailureIsReported'
      BY <2>1, <3>1, <3>2 DEF FailureIsReported
    <3>4. bNoMoreFiles => ntStatus = "NO_MORE_FILES" /\ cbBuffer # 0 /\ pucNextEntry = 0
      BY <3>1 DEF StatusInv
    <3> QED
      BY <3>1, <3>3, <3>4 DEF StatusInv, InWrap
  <2> QED
    BY <2>2, <2>3
<1>8. CASE BeginFirstScan
  BY <1>8 DEF BeginFirstScan, BufferGrown, OutOfMemory, StatusInv, FailureIsReported, InWrap
<1>9. CASE BeginLaterScan
  BY <1>9 DEF BeginLaterScan, NeedsQuery, heap, cursor, StatusInv, FailureIsReported, InWrap
<1>10. CASE Query \/ Requery
  <2>1. /\ InWrap /\ cbBuffer # 0 /\ pucNextEntry = 0 /\ UNCHANGED <<ret, cbBuffer>>
        /\ ntStatus' # "ALLOTTED_SPACE_EXCEEDED"
        /\ \/ pc' = "grow" /\ bNoMoreFiles' = bNoMoreFiles /\ pucNextEntry' = pucNextEntry
           \/ EndOfWrap(ntStatus')
    BY <1>10, QueryStatus DEF Query, Requery, InWrap, heap, TypeInv, CursorInv
  <2>2. ~bNoMoreFiles
    BY <2>1 DEF StatusInv
  <2> QED
    <3>1. FailureIsReported'
      BY <2>1 DEF EndOfWrap, StatusInv, FailureIsReported
    <3>2. CASE pc' = "grow" /\ bNoMoreFiles' = bNoMoreFiles /\ pucNextEntry' = pucNextEntry
      BY <2>1, <2>2, <3>1, <3>2 DEF StatusInv, InWrap
    <3>3. CASE EndOfWrap(ntStatus')
      <4>1. /\ bNoMoreFiles' <=> ntStatus' = "NO_MORE_FILES"
            /\ \/ pc' = "next" /\ ntStatus' = "SUCCESS"
               \/ pc' = "null" /\ ntStatus' # "SUCCESS" /\ pucNextEntry' = pucNextEntry
        BY <3>3 DEF EndOfWrap
      <4> QED
        BY <2>1, <3>1, <4>1 DEF StatusInv, InWrap
    <3> QED
      BY <2>1, <3>2, <3>3
<1>11. CASE Grow
  <2>1. /\ InWrap /\ cbBuffer # 0 /\ UNCHANGED <<ret, bNoMoreFiles>>
        /\ \/ pc' = "requery"
           \/ pc' = "null" /\ ntStatus' \in {"NO_MEMORY", "UNABLE_TO_FREE_VM"}
    BY <1>11 DEF Grow, GrowFailed, OutOfMemory, OldBufferNotFreed, InWrap, TypeInv, CursorInv
  <2>2. ~bNoMoreFiles
    BY <2>1 DEF StatusInv
  <2> QED
    BY <2>1, <2>2 DEF StatusInv, FailureIsReported, InWrap
<1>12. CASE UNCHANGED vars
  BY <1>12, StatusKept DEF vars, call, heap, cursor
<1> QED
  BY <1>1, <1>2, <1>3, <1>5, <1>6, <1>7, <1>8, <1>9, <1>10, <1>11, <1>12 DEF Next, Internal

(* A call without an entry says why: never with a success code or the one    *)
(* that steers the query loop, and with "no more files" exactly when the end *)
(* of the listing has been seen (wrapNtQueryDirectoryFile_).                 *)
THEOREM FailuresReported == Spec => []FailureIsReported
<1>1. Init => StatusInv
  BY DEF Init, StatusInv, FailureIsReported, InWrap
<1>2. StatusInv => FailureIsReported
  BY DEF StatusInv
<1> QED
  BY <1>1, <1>2, InitTypeInv, NextTypeInv, NextStatusInv, PTL DEF Spec

-----------------------------------------------------------------------------
(* The size of the buffer and what is counted                                *)

LEMMA AccountedKept ==
  ASSUME BufferAccounted, pc' = "closed" <=> pc = "closed",
         UNCHANGED <<cbBuffer, firstSize, bMaxQueryBufferSizeReached, llMemoryAllocated,
                     overcounted, info, ntStatus>>,
         pucNextEntry' # 0 => pucNextEntry # 0
  PROVE  BufferAccounted'
  BY DEF BufferAccounted, BufferWithinLimit, AllocatedBytesOver

(* A buffer that has grown is within its limits and counted.                 *)
LEMMA GrownAccounted ==
  ASSUME TypeInv, FirstScanInv, BufferAccounted, BufferGrown, firstSize' = firstSize,
         pc \in {"next", "grow"}, pc' # "closed", pc = "grow" => cbBuffer # 0
  PROVE  BufferAccounted'
<1>1. /\ GrownSize \in Nat \ {0} /\ cbBuffer \in Nat /\ HandleSize \in Nat
      /\ MaxBufferSize \in Nat /\ firstSize \in Nat /\ llMemoryAllocated \in Int
      /\ overcounted \in Nat
  BY GrownSizeType, SizesAssumption DEF TypeInv, TypeOK, HeapType
<1>2. /\ cbBuffer' = GrownSize /\ pucNextEntry' = 0
      /\ bMaxQueryBufferSizeReached' = (GrownSize >= MaxBufferSize)
      /\ llMemoryAllocated' = llMemoryAllocated + GrownSize - cbBuffer
      /\ overcounted' = overcounted
  BY DEF BufferGrown
<1>3. GrownSize <= Larger(firstSize, MaxBufferSize)
  <2>1. CASE cbBuffer = 0
    <3>1. GrownSize = firstSize
      BY <2>1 DEF FirstScanInv, GrownSize
    <3> QED
      BY <1>1, <3>1 DEF Larger
  <2>2. CASE cbBuffer # 0
    <3>1. GrownSize = Smaller(2 * cbBuffer, MaxBufferSize)
      BY <2>2 DEF GrownSize
    <3> QED
      BY <1>1, <3>1 DEF Larger, Smaller
  <2> QED
    BY <2>1, <2>2
<1>4. llMemoryAllocated = overcounted + (HandleSize + cbBuffer)
  BY DEF BufferAccounted, AllocatedBytesOver
<1>5. llMemoryAllocated' = overcounted' + (HandleSize + GrownSize)
  BY <1>1, <1>2, <1>4
<1>6. AllocatedBytesOver'
  BY <1>2, <1>5 DEF AllocatedBytesOver
<1>7. BufferWithinLimit'
  BY <1>2, <1>3 DEF BufferWithinLimit
<1> QED
  BY <1>6, <1>7 DEF BufferAccounted

LEMMA NextAccounted ==
  ASSUME TypeInv, FirstScanInv, BufferAccounted, [Next]_vars
  PROVE  BufferAccounted'
<1>t. /\ cbBuffer \in Nat /\ HandleSize \in Nat /\ llMemoryAllocated \in Int
      /\ overcounted \in Nat
  BY SizesAssumption DEF TypeInv, TypeOK, HeapType
<1>1. CASE NativeFindInit
  BY <1>1, AccountedKept DEF NativeFindInit, call, opened, buffer, cursor
<1>2. CASE NativeFindFirstFile
  <2>1. llMemoryAllocated = overcounted + 0
    BY <1>2 DEF NativeFindFirstFile, BufferAccounted, AllocatedBytesOver
  <2>2. /\ llMemoryAllocated' = overcounted' + (HandleSize + 0)
        /\ cbBuffer' = 0 /\ pc' = "next"
    BY <1>2, <1>t, <2>1 DEF NativeFindFirstFile, FreshHandle
  <2> QED
    BY <2>2 DEF BufferAccounted, AllocatedBytesOver, BufferWithinLimit
<1>3. CASE NativeFindNextFile
  BY <1>3, AccountedKept DEF NativeFindNextFile, opened, heap, buffer, cursor
<1>4. ASSUME FreeFindHandle, pc # "closed", pc' = "closed" PROVE BufferAccounted'
  <2>1. llMemoryAllocated = overcounted + (HandleSize + cbBuffer)
    BY <1>4 DEF BufferAccounted, AllocatedBytesOver
  <2>2. llMemoryAllocated' = overcounted' + 0 /\ cbBuffer' = 0
    BY <1>4, <1>t, <2>1 DEF FreeFindHandle, FreshHandle
  <2> QED
    BY <1>4, <2>2 DEF BufferAccounted, AllocatedBytesOver, BufferWithinLimit
<1>5. CASE NativeFindClose
  BY <1>4, <1>5 DEF NativeFindClose
<1>6. CASE TakeEntry
  BY <1>6, AccountedKept DEF TakeEntry, ReturnEntry, opened, heap, call
<1>7. CASE ReturnNull
  <2>1. CASE inFirst
    BY <1>4, <1>7, <2>1 DEF ReturnNull
  <2>2. CASE ~inFirst
    BY <1>7, <2>2, AccountedKept DEF ReturnNull, opened, heap, buffer, cursor
  <2> QED
    BY <2>1, <2>2
<1>8. CASE BeginFirstScan
  <2>1. /\ pc = "next" /\ pc' \in {"query", "null"} /\ firstSize' = firstSize
        /\ info' = info /\ cbBuffer = 0
        /\ BufferGrown \/ OutOfMemory
    BY <1>8 DEF BeginFirstScan, opened
  <2>2. CASE BufferGrown
    BY <2>1, <2>2, GrownAccounted
  <2>3. CASE OutOfMemory
    BY <2>1, <2>3 DEF OutOfMemory, heap, BufferAccounted, AllocatedBytesOver, BufferWithinLimit
  <2> QED
    BY <2>1, <2>2, <2>3
<1>9. CASE BeginLaterScan
  BY <1>9, AccountedKept DEF BeginLaterScan, opened, heap, cursor
<1>10. CASE Query \/ Requery
  <2>1. /\ NtQueryDirectoryFile /\ pc # "closed" /\ pc' # "closed"
        /\ UNCHANGED <<cbBuffer, firstSize, bMaxQueryBufferSizeReached, llMemoryAllocated,
                        overcounted>>
    BY <1>10 DEF Query, Requery, EndOfWrap, heap, opened
  <2>2. ntStatus' = "SUCCESS" => info' <= cbBuffer
    BY <2>1 DEF NtQueryDirectoryFile, QueryChunk, QueryTooSmall, QueryAtEnd, QueryError, Fits
  <2> QED
    BY <2>1, <2>2 DEF BufferAccounted, AllocatedBytesOver, BufferWithinLimit
<1>11. CASE Grow
  <2>1. /\ pc = "grow" /\ pc' \in {"requery", "null"} /\ firstSize' = firstSize
        /\ info' = info
        /\ BufferGrown \/ MaximumReached \/ GrowFailed
    BY <1>11 DEF Grow, opened
  <2>2. pucNextEntry = 0 /\ cbBuffer # 0
    BY <2>1 DEF TypeInv, CursorInv, InWrap
  <2>3. CASE BufferGrown
    BY <2>1, <2>2, <2>3, GrownAccounted
  <2>4. CASE OldBufferNotFreed
    <3>1. llMemoryAllocated = overcounted + (HandleSize + cbBuffer)
      BY <2>1 DEF BufferAccounted, AllocatedBytesOver
    <3>2. GrownSize \in Nat
      BY GrownSizeType DEF TypeInv
    <3>3. /\ llMemoryAllocated' = llMemoryAllocated + GrownSize
          /\ overcounted' = overcounted + GrownSize
          /\ UNCHANGED <<cbBuffer, bMaxQueryBufferSizeReached, pucNextEntry>>
      BY <2>4 DEF OldBufferNotFreed
    <3>4. llMemoryAllocated' = overcounted' + (HandleSize + cbBuffer')
      BY <1>t, <3>1, <3>2, <3>3
    <3> QED
      BY <2>1, <2>2, <3>3, <3>4 DEF BufferAccounted, AllocatedBytesOver, BufferWithinLimit
  <2>5. CASE MaximumReached \/ OutOfMemory
    <3>1. UNCHANGED <<cbBuffer, bMaxQueryBufferSizeReached, llMemoryAllocated, overcounted,
                      pucNextEntry>>
      BY <2>5 DEF MaximumReached, OutOfMemory, heap
    <3> QED
      BY <2>1, <2>2, <3>1 DEF BufferAccounted, AllocatedBytesOver, BufferWithinLimit
  <2> QED
    BY <2>1, <2>3, <2>4, <2>5 DEF GrowFailed
<1>12. CASE UNCHANGED vars
  BY <1>12, AccountedKept DEF vars, call, opened, heap, buffer, cursor
<1> QED
  BY <1>1, <1>2, <1>3, <1>5, <1>6, <1>7, <1>8, <1>9, <1>10, <1>11, <1>12 DEF Next, Internal

(* Whichever allocations, frees of the old buffer and queries fail, the      *)
(* buffer stays within its limit and the debug counter says what is          *)
(* allocated, plus the buffers given up because the old one could not be     *)
(* freed (increaseQueryBufferSizeAndZerofill_).                              *)
THEOREM BufferCounted == Spec => []BufferAccounted
<1>1. Init => BufferAccounted
  BY DEF Init, BufferAccounted, AllocatedBytesOver, BufferWithinLimit
<1>2. TypeInv /\ FirstScanInv /\ BufferAccounted /\ [Next]_vars => BufferAccounted'
  BY NextAccounted
<1>3. Init => FirstScanInv
  BY InitFitInv
<1> QED
  BY <1>1, <1>2, <1>3, InitTypeInv, NextTypeInv, NextFirstScanInv, PTL DEF Spec

-----------------------------------------------------------------------------
(* The zero behind the last name                                             *)

LEMMA BytesGrow ==
  ASSUME TypeInv
  PROVE  /\ dir.n \in Nat /\ cbBuffer \in Nat /\ dirty \in Nat
         /\ \A n \in 0..dir.n : Bytes(0, n) \in Nat
         /\ \A m, n \in 0..dir.n : m <= n => Bytes(0, m) <= Bytes(0, n)
<1>1. dir \in Listings /\ cbBuffer \in Nat /\ dirty \in Nat
  BY DEF TypeInv, TypeOK, ScanType, HeapType
<1>2. /\ dir.n \in Nat /\ dir.end \in [0..dir.n -> Nat] /\ dir.end[0] = 0
      /\ \A i, j \in 0..dir.n : i < j => dir.end[i] < dir.end[j]
  BY <1>1, ListingFacts
<1>3. \A n \in 0..dir.n : Bytes(0, n) = dir.end[n] /\ dir.end[n] \in Nat
  BY <1>2 DEF Bytes
<1>4. \A m, n \in 0..dir.n : m <= n => dir.end[m] <= dir.end[n]
  <2> SUFFICES ASSUME NEW m \in 0..dir.n, NEW n \in 0..dir.n, m <= n
               PROVE  dir.end[m] <= dir.end[n]
    OBVIOUS
  <2>1. CASE m = n
    BY <1>3, <2>1
  <2>2. CASE m < n
    BY <1>2, <1>3, <2>2
  <2> QED
    BY <1>2, <2>1, <2>2
<1> QED
  BY <1>1, <1>2, <1>3, <1>4

(* There is one such chunk at most, and none if not even one entry fits.     *)
LEMMA FirstChunkUnique ==
  ASSUME TypeInv, NEW m \in 1..dir.n, NEW n \in 1..dir.n, FirstChunk(m), Fits(0, n)
  PROVE  Bytes(0, n) <= Bytes(0, m)
<1>1. CASE n <= m
  BY <1>1, BytesGrow
<1>2. CASE m < n
  <2>1. m + 1 \in 0..dir.n /\ m + 1 <= n /\ m < dir.n
    BY <1>2, BytesGrow
  <2>2. Bytes(0, m + 1) <= Bytes(0, n)
    BY <2>1, BytesGrow
  <2>3. Fits(0, m + 1)
    BY <2>1, <2>2, BytesGrow DEF Fits
  <2> QED
    BY <2>1, <2>3 DEF FirstChunk
<1> QED
  BY <1>1, <1>2, BytesGrow

LEMMA FirstChunkFits ==
  ASSUME TypeInv, NEW m \in 1..dir.n, FirstChunk(m)
  PROVE  Fits(0, 1)
<1>1. 1 \in 0..dir.n /\ 1 <= m /\ m \in 0..dir.n
  BY BytesGrow
<1>2. Bytes(0, 1) <= Bytes(0, m)
  BY <1>1, BytesGrow
<1> QED
  BY <1>1, <1>2, BytesGrow DEF FirstChunk, Fits

LEMMA TermKept ==
  ASSUME TermInv, UNCHANGED <<kpos, base, info, dirty>>,
         PastFirstScan' => PastFirstScan,
         pucNextEntry' # 0 \/ (pc' = "idle" /\ ret' = "entry") =>
           pucNextEntry # 0 \/ (pc = "idle" /\ ret = "entry"),
         InWrap' /\ bFirstScan' => InWrap /\ bFirstScan /\ UNCHANGED <<dir, cbBuffer>>
  PROVE  TermInv'
<1>1. PastFirstScan' => kpos' # 0
  BY DEF TermInv
<1>2. base' = 0 /\ (pucNextEntry' # 0 \/ (pc' = "idle" /\ ret' = "entry")) => LastNameTerminated'
  BY DEF TermInv, LastNameTerminated
<1>3. ASSUME InWrap', bFirstScan'
      PROVE  \A n \in 1..dir'.n : FirstChunk(n)' => dirty' <= Bytes(0, n)'
  BY <1>3 DEF TermInv, FirstChunk, Fits, Bytes
<1> QED
  BY <1>1, <1>2, <1>3 DEF TermInv

(* What the first scan reads.                                                *)
LEMMA FirstQueryTerm ==
  ASSUME TypeInv, TermInv, InWrap, bFirstScan, NtQueryDirectoryFile,
         dir' = dir, cbBuffer' = cbBuffer
  PROVE  /\ ntStatus' = "SUCCESS" => kpos' # 0 /\ dirty' <= info'
         /\ ntStatus' \in Retried =>
              \A m \in 1..dir.n : FirstChunk(m) => dirty' <= Bytes(0, m)
<1>0. \A m \in 1..dir.n : FirstChunk(m) => dirty <= Bytes(0, m)
  BY DEF TermInv
<1>1. CASE QueryChunk(0)
  <2>1. PICK n \in 1..(dir.n - 0) :
          /\ Fits(0, n) /\ (0 + n < dir.n => ~Fits(0, n + 1))
          /\ kpos' = 0 + n /\ info' = Bytes(0, n) /\ dirty' = Larger(dirty, Bytes(0, n))
    BY <1>1 DEF QueryChunk
  <2>2. n \in 1..dir.n /\ kpos' = n /\ FirstChunk(n) /\ Bytes(0, n) \in Nat /\ dirty \in Nat
    BY <2>1, BytesGrow DEF FirstChunk
  <2>3. dirty <= Bytes(0, n)
    BY <1>0, <2>2
  <2>4. dirty' = Bytes(0, n)
    BY <2>1, <2>2, <2>3 DEF Larger
  <2>5. \A m \in 1..dir.n : FirstChunk(m) => dirty' <= Bytes(0, m)
    BY <2>1, <2>2, <2>4, FirstChunkUnique
  <2> QED
    BY <2>1, <2>2, <2>4, <2>5, BytesGrow
<1>2. CASE QueryTooSmall(0)
  <2>1. ~Fits(0, 1) /\ ntStatus' # "SUCCESS"
    BY <1>2 DEF QueryTooSmall
  <2> QED
    BY <2>1, FirstChunkFits
<1>3. CASE QueryAtEnd(0)
  BY <1>3 DEF QueryAtEnd, Retried
<1>4. CASE QueryError
  BY <1>4 DEF QueryError, Retried
<1> QED
  BY <1>1, <1>2, <1>3, <1>4 DEF NtQueryDirectoryFile

LEMMA NextTermInv ==
  TypeInv /\ TypeInv' /\ FirstScanInv /\ TermInv /\ [Next]_vars => TermInv'
<1> SUFFICES ASSUME TypeInv, TypeInv', FirstScanInv, TermInv, [Next]_vars PROVE TermInv'
  OBVIOUS
<1>0. /\ InFirstScan => inFirst
      /\ pc = "idle" => ~inFirst
      /\ InWrap => cbBuffer # 0 /\ pucNextEntry = 0
      /\ bFirstScan \in BOOLEAN /\ ntStatus # "entry"
  BY DEF FirstScanInv, TypeInv, CursorInv, TypeOK, FlagType, CallType, Statuses, Failures
<1>1. CASE NativeFindInit
  <2>1. UNCHANGED <<pc, ret, inFirst, cbBuffer, bFirstScan, dir, kpos, base, info, dirty, pucNextEntry>>
    BY <1>1 DEF NativeFindInit, call, opened, buffer, cursor, locals
  <2> QED
    BY <2>1, TermKept DEF PastFirstScan, InFirstScan, InWrap
<1>2. CASE NativeFindFirstFile
  <2>1. pc' = "next" /\ cbBuffer' = 0 /\ pucNextEntry' = 0
    BY <1>2 DEF NativeFindFirstFile, FreshHandle
  <2> QED
    BY <2>1 DEF TermInv, PastFirstScan, InFirstScan, InWrap
<1>3. CASE NativeFindNextFile
  <2>1. /\ pc = "idle" /\ pc' = "next"
        /\ UNCHANGED <<inFirst, kpos, base, info, dirty, pucNextEntry, cbBuffer>>
    BY <1>3 DEF NativeFindNextFile, heap, buffer, cursor
  <2>2. PastFirstScan
    BY <2>1 DEF PastFirstScan, InFirstScan, InWrap
  <2> QED
    BY <2>1, <2>2, TermKept DEF InWrap
<1>4. ASSUME FreeFindHandle, pc' = "closed" PROVE TermInv'
  BY <1>4 DEF FreeFindHandle, FreshHandle, TermInv, PastFirstScan, InWrap
<1>5. CASE NativeFindClose
  BY <1>4, <1>5 DEF NativeFindClose
<1>6. CASE TakeEntry
  <2>1. /\ pc = "next" /\ cbBuffer # 0 /\ pucNextEntry # 0 /\ pc' \in {"next", "idle"}
        /\ UNCHANGED <<kpos, base, info, dirty>>
    BY <1>6 DEF TakeEntry, NeedsQuery, ReturnEntry, call
  <2>2. PastFirstScan
    BY <2>1 DEF PastFirstScan, InFirstScan, InWrap
  <2> QED
    BY <2>1, <2>2, TermKept DEF InWrap
<1>7. CASE ReturnNull
  <2>1. CASE inFirst
    BY <1>4, <1>7, <2>1 DEF ReturnNull
  <2>2. CASE ~inFirst
    <3>1. /\ pc \in {"next", "null"} /\ pc' = "idle" /\ ret' = ntStatus
          /\ UNCHANGED <<kpos, base, info, dirty, pucNextEntry>>
      BY <1>7, <2>2 DEF ReturnNull, buffer, cursor
    <3>2. PastFirstScan
      BY <1>0, <2>2, <3>1 DEF PastFirstScan
    <3> QED
      BY <1>0, <3>1, <3>2, TermKept DEF InWrap
  <2> QED
    BY <2>1, <2>2
<1>8. CASE BeginFirstScan
  <2>1. /\ pc = "next" /\ cbBuffer = 0 /\ inFirst' = inFirst /\ bFirstScan' /\ dir' = dir
        /\ \/ BufferGrown /\ pc' = "query"
           \/ OutOfMemory /\ pc' = "null"
    BY <1>8 DEF BeginFirstScan, opened
  <2>2. inFirst /\ pucNextEntry = 0
    BY <1>0, <2>1 DEF InFirstScan, TypeInv, CursorInv
  <2>3. pucNextEntry' = 0 /\ (pc' = "query" => dirty' = 0)
    BY <2>1, <2>2 DEF BufferGrown, OutOfMemory
  <2>4. ~PastFirstScan'
    BY <2>1, <2>2 DEF PastFirstScan, InFirstScan, InWrap
  <2>5. InWrap' => \A n \in 1..dir'.n : dirty' <= Bytes(0, n)'
    <3>1. \A n \in 1..dir.n : Bytes(0, n) \in Nat
      BY BytesGrow
    <3>2. \A n : Bytes(0, n)' = Bytes(0, n)
      BY <2>1 DEF Bytes
    <3> QED
      BY <2>1, <2>3, <3>1, <3>2 DEF InWrap
  <2>6. pc' # "idle"
    BY <2>1
  <2> QED
    BY <2>3, <2>4, <2>5, <2>6 DEF TermInv
<1>9. CASE BeginLaterScan
  <2>1. /\ pc = "next" /\ cbBuffer # 0 /\ pc' = "query" /\ ~bFirstScan' /\ kpos' = kpos
        /\ pucNextEntry' = 0
    BY <1>9 DEF BeginLaterScan, NeedsQuery, cursor
  <2>2. PastFirstScan
    BY <2>1 DEF PastFirstScan, InFirstScan, InWrap
  <2> QED
    BY <2>1, <2>2 DEF TermInv
<1>10. CASE Query \/ Requery
  <2>1. /\ InWrap /\ NtQueryDirectoryFile /\ pc' # "idle"
        /\ UNCHANGED <<inFirst, cbBuffer, bFirstScan, dir>>
        /\ \/ pc' = "grow" /\ ntStatus' \in Retried /\ pucNextEntry' = pucNextEntry
           \/ pc' = "next" /\ ntStatus' = "SUCCESS" /\ pucNextEntry' = 1
           \/ pc' = "null" /\ pucNextEntry' = pucNextEntry
    BY <1>10 DEF Query, Requery, EndOfWrap, InWrap, heap, locals, opened
  <2>2. CASE bFirstScan
    <3>1. inFirst' /\ pucNextEntry = 0
      BY <1>0, <2>1, <2>2 DEF InFirstScan
    <3>2. /\ ntStatus' = "SUCCESS" => kpos' # 0 /\ dirty' <= info'
          /\ ntStatus' \in Retried =>
               \A m \in 1..dir.n : FirstChunk(m) => dirty' <= Bytes(0, m)
      BY <2>1, <2>2, FirstQueryTerm
    <3>3. CASE pc' = "grow" /\ ntStatus' \in Retried /\ pucNextEntry' = pucNextEntry
      <4>1. \A m : Bytes(0, m)' = Bytes(0, m) /\ FirstChunk(m)' = FirstChunk(m)
        BY <2>1 DEF Bytes, FirstChunk, Fits
      <4> QED
        BY <2>1, <2>2, <3>1, <3>2, <3>3, <4>1 DEF TermInv, PastFirstScan, InFirstScan, InWrap
    <3>4. CASE pc' = "next" /\ ntStatus' = "SUCCESS"
      BY <3>2, <3>4 DEF TermInv, LastNameTerminated, InWrap
    <3>5. CASE pc' = "null" /\ pucNextEntry' = pucNextEntry
      BY <3>1, <3>5 DEF TermInv, PastFirstScan, InWrap
    <3> QED
      BY <2>1, <3>3, <3>4, <3>5
  <2>3. CASE ~bFirstScan
    <3>1. PastFirstScan /\ pucNextEntry = 0 /\ kpos # 0
      BY <1>0, <2>1, <2>3 DEF PastFirstScan, InFirstScan, InWrap, TermInv
    <3>2. kpos <= kpos' /\ (ntStatus' = "SUCCESS" => base' = kpos)
      BY <2>1, <2>3, QueryOnward
    <3>3. kpos' # 0
      <4>1. kpos \in Nat
        BY ConsumedBounds
      <4> QED
        BY <3>1, <3>2, <4>1
    <3> QED
      BY <2>1, <2>3, <3>1, <3>2, <3>3 DEF TermInv
  <2> QED
    BY <1>0, <2>2, <2>3
<1>11. CASE Grow
  <2>1. /\ InWrap /\ pc = "grow" /\ pc' \in {"requery", "null"}
        /\ UNCHANGED <<inFirst, bFirstScan, dir, kpos, base>>
        /\ BufferGrown \/ MaximumReached \/ GrowFailed
        /\ pc' = "requery" => (BufferGrown \/ MaximumReached)
    BY <1>11 DEF Grow, InWrap, opened
  <2>2. pucNextEntry' = 0
    BY <1>0, <2>1, GrowTypes DEF TypeInv
  <2>3. PastFirstScan' => kpos' # 0
    BY <1>0, <2>1 DEF PastFirstScan, InFirstScan, InWrap, TermInv
  <2>4. ASSUME pc' = "requery", bFirstScan
        PROVE  \A n \in 1..dir'.n : FirstChunk(n)' => dirty' <= Bytes(0, n)'
    <3>1. \A n : Bytes(0, n)' = Bytes(0, n)
      BY <2>1 DEF Bytes
    <3>2. CASE BufferGrown
      <4>1. dirty' = 0 /\ \A n \in 1..dir.n : Bytes(0, n) \in Nat
        BY <3>2, BytesGrow DEF BufferGrown
      <4> QED
        BY <2>1, <3>1, <4>1
    <3>3. CASE MaximumReached
      <4>1. dirty' = dirty /\ cbBuffer' = cbBuffer
        BY <3>3 DEF MaximumReached, heap
      <4>2. \A n : FirstChunk(n)' = FirstChunk(n)
        BY <2>1, <4>1 DEF FirstChunk, Fits, Bytes
      <4> QED
        BY <2>1, <2>4, <3>1, <4>1, <4>2 DEF TermInv
    <3> QED
      BY <2>1, <2>4, <3>2, <3>3
  <2> QED
    BY <2>1, <2>2, <2>3, <2>4 DEF TermInv, InWrap
<1>12. CASE UNCHANGED vars
  <2>1. UNCHANGED <<pc, ret, inFirst, cbBuffer, bFirstScan, dir, kpos, base, info, dirty, pucNextEntry>>
    BY <1>12 DEF vars, call, opened, heap, buffer, cursor, locals
  <2> QED
    BY <2>1, TermKept DEF PastFirstScan, InFirstScan, InWrap
<1> QED
  BY <1>1, <1>2, <1>3, <1>5, <1>6, <1>7, <1>8, <1>9, <1>10, <1>11, <1>12 DEF Next, Internal

(* The names in the buffer of the first scan are followed by a zero, the     *)
(* last one too: the buffer was zeroed when it grew, and no query of that    *)
(* scan writes past the end of the chunk it ends with                        *)
(* (wrapNtQueryDirectoryFile_).                                              *)
THEOREM FirstNamesTerminated == Spec => []NameTerminatedInFirstBuffer
<1>1. Init => TermInv
  BY DEF Init, TermInv, PastFirstScan, InWrap
<1>2. TermInv => NameTerminatedInFirstBuffer
  BY DEF TermInv, NameTerminatedInFirstBuffer
<1>3. Init => FirstScanInv
  BY InitFitInv
<1> QED
  BY <1>1, <1>2, <1>3, InitTypeInv, NextTypeInv, NextFirstScanInv, NextTermInv, PTL DEF Spec

-----------------------------------------------------------------------------
(* The handle implements DirListing                                          *)

(* The last entry delivered is the largest, and not ahead of the walk.       *)
LEMMA PastIsLast ==
  ASSUME TypeInv, OrderInv
  PROVE  /\ Promise!Past \in Nat /\ Promise!Past <= Consumed
         /\ \A j \in Nat : WasDelivered(j) => j <= Promise!Past
<1>1. delivered \in Seq(1..dir.n) /\ dir.n \in Nat /\ Consumed \in Nat
  BY ConsumedBounds DEF TypeInv, TypeOK, ScanType
<1>2. CASE delivered = <<>>
  <2>1. Promise!Past = 0
    BY <1>2 DEF Promise!Past
  <2> QED
    BY <1>1, <1>2, <2>1 DEF WasDelivered
<1>3. CASE delivered # <<>>
  <2>1. Len(delivered) \in 1..Len(delivered) /\ Len(delivered) \in Nat
    BY <1>1, <1>3
  <2>2. Promise!Past = delivered[Len(delivered)]
    BY <1>3 DEF Promise!Past
  <2>3. Promise!Past \in 1..dir.n
    BY <1>1, <2>1, <2>2, ElementType
  <2>4. Promise!Past <= Consumed
    BY <2>1, <2>2 DEF OrderInv
  <2>5. ASSUME NEW j \in Nat, WasDelivered(j) PROVE j <= Promise!Past
    <3>1. PICK k \in 1..Len(delivered) : delivered[k] = j
      BY <2>5 DEF WasDelivered
    <3>2. CASE k = Len(delivered)
      BY <2>2, <2>5, <3>1, <3>2
    <3>3. CASE k < Len(delivered)
      <4>1. j < Promise!Past
        BY <2>1, <2>2, <3>1, <3>3 DEF OrderInv, InOrderOnce
      <4> QED
        BY <1>1, <2>3, <2>5, <4>1
    <3> QED
      BY <2>1, <3>2, <3>3
  <2> QED
    BY <1>1, <2>3, <2>4, <2>5
<1> QED
  BY <1>2, <1>3

LEMMA NothingMissed ==
  ASSUME TypeInv, OrderInv, NEW i \in Nat,
         \A j \in 1..dir.n : j < i /\ Wanted(j) => WasDelivered(j)
  PROVE  Promise!NothingMissedBefore(i)
<1> SUFFICES ASSUME NEW j \in 1..dir.n, Promise!Past < j, j < i, Wanted(j) PROVE FALSE
  BY DEF Promise!NothingMissedBefore, Promise!Wants, Wanted
<1>1. WasDelivered(j)
  OBVIOUS
<1>2. dir.n \in Nat
  BY ConsumedBounds
<1>3. j \in Nat
  BY <1>2
<1>4. j <= Promise!Past /\ Promise!Past \in Nat
  BY <1>1, <1>3, PastIsLast
<1> QED
  BY <1>3, <1>4

(* The variables of DirListing.                                              *)
LEMMA Stutters ==
  ASSUME UNCHANGED <<opened, delivered>>, pc' = "closed" <=> pc = "closed",
         bNoMoreFiles' = bNoMoreFiles
  PROVE  UNCHANGED Promise!vars
<1>1. FitsFirstScan' = FitsFirstScan
  BY DEF opened, FitsFirstScan, GuaranteedSize
<1> QED
  BY <1>1 DEF Promise!vars, opened

LEMMA ClosesPromise ==
  ASSUME FreeFindHandle, pc # "closed", pc' = "closed"
  PROVE  Promise!Close
<1>1. opened' = opened /\ delivered' = <<>>
  BY DEF FreeFindHandle
<1>2. FitsFirstScan' = FitsFirstScan
  BY <1>1 DEF opened, FitsFirstScan, GuaranteedSize
<1> QED
  BY <1>1, <1>2 DEF Promise!Close, opened

(* An entry is taken out of the buffer.                                      *)
LEMMA DeliversPromise ==
  ASSUME TypeInv, StatusInv, OrderInv, FitInv, TakeEntry
  PROVE  Promise!Next \/ UNCHANGED Promise!vars
<1> DEFINE i == Consumed + 1
<1>1. /\ pc = "next" /\ cbBuffer # 0 /\ pucNextEntry # 0 /\ pc' \in {"next", "idle"}
      /\ UNCHANGED <<opened, bNoMoreFiles>>
      /\ \/ Wanted(base + pucNextEntry) /\ delivered' = Append(delivered, base + pucNextEntry)
         \/ delivered' = delivered
  BY DEF TakeEntry, NeedsQuery, ReturnEntry, call
<1>2. /\ base + pucNextEntry = i /\ Consumed \in Nat /\ kpos \in Nat /\ dir.n \in Nat
      /\ base \in Nat /\ pucNextEntry \in Nat
  BY <1>1, ConsumedBounds
<1>3. i \in 1..dir.n
  <2>1. pucNextEntry <= kpos - base /\ kpos <= dir.n
    BY <1>1, <1>2 DEF TypeInv, TypeOK, ScanType, Buffered
  <2> QED
    BY <1>2, <2>1
<1>4. CASE delivered' = delivered
  BY <1>1, <1>4, Stutters
<1>5. CASE Wanted(i) /\ delivered' = Append(delivered, i)
  <2>1. ~bNoMoreFiles
    BY <1>1 DEF StatusInv
  <2>2. Promise!Past < i
    BY <1>2, PastIsLast
  <2>3. FitsFirstScan => Promise!NothingMissedBefore(i)
    <3> SUFFICES ASSUME FitsFirstScan PROVE Promise!NothingMissedBefore(i)
      OBVIOUS
    <3>1. DeliveredUpTo(0, Consumed)
      BY <1>1 DEF FitInv, PastFirstScan, InFirstScan, InWrap
    <3>2. \A j \in 1..dir.n : j < i => j \in 0 + 1 .. Consumed
      BY <1>2
    <3>3. \A j \in 1..dir.n : j < i /\ Wanted(j) => WasDelivered(j)
      BY <3>1, <3>2 DEF DeliveredUpTo
    <3>4. i \in Nat
      BY <1>2
    <3> QED
      BY <3>3, <3>4, NothingMissed
  <2>4. FitsFirstScan' = FitsFirstScan
    BY <1>1 DEF opened, FitsFirstScan, GuaranteedSize
  <2>5. Promise!Deliver(i)
    BY <1>1, <1>5, <2>1, <2>2, <2>3, <2>4 DEF Promise!Deliver, Promise!Wants, Wanted, opened
  <2> QED
    BY <1>3, <2>5 DEF Promise!Next
<1> QED
  BY <1>1, <1>2, <1>4, <1>5

(* The end of the listing is told only after the last entry.                 *)
LEMMA EndsPromise ==
  ASSUME TypeInv, StatusInv, OrderInv, FitInv', Query \/ Requery
  PROVE  Promise!Next \/ UNCHANGED Promise!vars
<1>1. /\ InWrap /\ pc # "closed" /\ pc' # "closed" /\ UNCHANGED <<opened, delivered>>
      /\ bNoMoreFiles' \in BOOLEAN \/ bNoMoreFiles' = bNoMoreFiles
  BY DEF Query, Requery, EndOfWrap, InWrap
<1>2. ~bNoMoreFiles /\ bNoMoreFiles \in BOOLEAN
  BY <1>1 DEF StatusInv, TypeInv, TypeOK, FlagType
<1>3. CASE bNoMoreFiles' = bNoMoreFiles
  BY <1>1, <1>3, Stutters
<1>4. CASE bNoMoreFiles'
  <2>1. FitsFirstScan' = FitsFirstScan
    BY <1>1 DEF opened, FitsFirstScan, GuaranteedSize
  <2>2. FitsFirstScan => Promise!NothingMissedBefore(dir.n + 1)
    <3> SUFFICES ASSUME FitsFirstScan PROVE Promise!NothingMissedBefore(dir.n + 1)
      OBVIOUS
    <3>1. \A j \in 1..dir.n : Wanted(j) => WasDelivered(j)
      BY <1>1, <1>4, <2>1 DEF FitInv, CompleteIfFits, Wanted, WasDelivered, opened
    <3>2. dir.n + 1 \in Nat
      BY ConsumedBounds
    <3> QED
      BY <3>1, <3>2, NothingMissed
  <2>3. Promise!End
    BY <1>1, <1>2, <1>4, <2>1, <2>2 DEF Promise!End, opened
  <2> QED
    BY <2>3 DEF Promise!Next
<1> QED
  BY <1>1, <1>2, <1>3, <1>4

LEMMA NextKeepsPromise ==
  TypeInv /\ StatusInv /\ OrderInv /\ FitInv /\ FitInv' /\ [Next]_vars =>
    Promise!Next \/ UNCHANGED Promise!vars
<1> SUFFICES ASSUME TypeInv, StatusInv, OrderInv, FitInv, FitInv', [Next]_vars
             PROVE  Promise!Next \/ UNCHANGED Promise!vars
  OBVIOUS
<1>1. CASE NativeFindInit
  BY <1>1, Stutters DEF NativeFindInit, call
<1>2. CASE NativeFindFirstFile
  <2>1. /\ pc = "closed" /\ pc' = "next" /\ ~bNoMoreFiles' /\ delivered' = <<>>
        /\ dir' \in Listings /\ bSuppress' \in BOOLEAN
    BY <1>2 DEF NativeFindFirstFile, FreshHandle
  <2>2. FitsFirstScan' \in BOOLEAN
    BY DEF FitsFirstScan
  <2>3. Promise!Open
    BY <2>1, <2>2 DEF Promise!Open
  <2> QED
    BY <2>3 DEF Promise!Next
<1>3. CASE NativeFindNextFile
  BY <1>3, Stutters DEF NativeFindNextFile
<1>4. CASE NativeFindClose
  BY <1>4, ClosesPromise DEF NativeFindClose, Promise!Next
<1>5. CASE TakeEntry
  BY <1>5, DeliversPromise
<1>6. CASE ReturnNull
  <2>1. CASE inFirst
    BY <1>6, <2>1, ClosesPromise DEF ReturnNull, Promise!Next
  <2>2. CASE ~inFirst
    BY <1>6, <2>2, Stutters DEF ReturnNull
  <2> QED
    BY <2>1, <2>2
<1>7. CASE BeginFirstScan
  BY <1>7, Stutters DEF BeginFirstScan
<1>8. CASE BeginLaterScan
  BY <1>8, Stutters DEF BeginLaterScan
<1>9. CASE Query \/ Requery
  BY <1>9, EndsPromise
<1>10. CASE Grow
  BY <1>10, Stutters DEF Grow
<1>11. CASE UNCHANGED vars
  BY <1>11, Stutters DEF vars, call
<1> QED
  BY <1>1, <1>2, <1>3, <1>4, <1>5, <1>6, <1>7, <1>8, <1>9, <1>10, <1>11 DEF Next, Internal

(* The find handle of ntfindfile.c implements DirListing: for all listings,  *)
(* sizes, failures and repetitions of the query loop, its caller sees what   *)
(* DirListing promises, the whole listing if it fits into the buffer of the  *)
(* first scan.                                                               *)
THEOREM PromiseKept == Spec => KeepsPromise
<1>1. Init => Promise!Init
  <2> SUFFICES ASSUME Init PROVE Promise!Init
    OBVIOUS
  <2>1. FitsFirstScan \in BOOLEAN
    BY DEF FitsFirstScan
  <2> QED
    BY <2>1 DEF Init, Promise!Init
<1>2. Init => StatusInv /\ OrderInv
  BY DEF Init, StatusInv, FailureIsReported, InWrap, OrderInv, InOrderOnce
<1>3. TypeInv /\ StatusInv /\ OrderInv /\ FitInv /\ FitInv' /\ [Next]_vars => [Promise!Next]_Promise!vars
  BY NextKeepsPromise
<1> QED
  BY <1>1, <1>2, <1>3, InitTypeInv, InitFitInv, NextTypeInv, NextStatusInv, NextOrderInv,
     NextFirstScanInv, NextFitInv, PTL DEF Spec, KeepsPromise, Promise!Spec
=============================================================================
