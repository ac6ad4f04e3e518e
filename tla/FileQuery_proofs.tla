---------------------------- MODULE FileQuery_proofs ----------------------------
(***************************************************************************)
(* Proofs about FileQuery, for all paths, directories, numbers of streams  *)
(* and changes made by others.  The inductive invariant says, for each     *)
(* point of a constructor, what is known there: of the buffers always, of  *)
(* the file as long as nobody has disturbed the query.                     *)
(***************************************************************************)
EXTENDS FileQuery, TLAPS

Classes == {"CReparsePoint", "CAlternateDataStreams"}
Path == [buf : Buffer, what : {"null", "raw", "full", "prefix"}]
ReparsePoint ==
  [error : BOOLEAN, tag : Tags \cup {"0"}, print : Buffer, subst : Buffer, canonical : Buffer,
   guid : BOOLEAN, id : FileIds]
Streams == [size : Nat, buffer : BOOLEAN, count : Nat, array : BOOLEAN, named : Nat]

(* The members have their types, and the streams of links are never queried. *)
Typed ==
  /\ file \in Files /\ opened \in Files
  /\ cwd \in CurrentDirs /\ changes \in 0..MaxChanges
  /\ pc \in {"idle", "directory", "fillDirectory", "measure", "fill", "attributes", "open",
             "reparse", "streams", "count", "names", "close", "built"}
  /\ class \in Classes /\ arg \in Args /\ needed \in Nat
  /\ path \in Path /\ attr \in Kinds \cup {"invalid"}
  /\ rp \in ReparsePoint /\ ads \in Streams
  /\ result \in {0, 2, 3} /\ disturbed \in BOOLEAN
  /\ pc = "streams" => opened.kind \notin Tags \cup {"none"}

Normalising == {"directory", "fillDirectory", "measure", "fill"}

(* Every buffer ends in a zero; the length asked for is the one still needed *)
(* as long as the current directory is the same.                             *)
BufferInv ==
  /\ AllTerminated /\ PrefixOnlyExplained
  /\ pc \in Normalising =>
       arg.kind \in {"dot", "plain"} /\ path = [buf |-> FromText(Prefix), what |-> "null"]
  /\ pc \in {"directory", "fillDirectory"} => arg.kind = "dot"
  /\ pc \in {"measure", "fill"} /\ ~disturbed => arg.kind = "plain"
  /\ pc \in {"fillDirectory", "fill"} /\ ~disturbed =>
       needed = IF HasFullName THEN FullLength + 1 ELSE 0

(* The attributes are those of the file.                                     *)
Open == pc \in {"reparse", "streams", "count", "close"}
FileInv ==
  /\ pc = "open" /\ NamesFile /\ ~disturbed =>
       attr = IF file.kind = "none" THEN "invalid" ELSE file.kind
  /\ Open /\ ~disturbed => file.kind # "none" /\ attr = file.kind

(* What is known of the reparse point, and when the members have a value.    *)
Unread == pc \in Normalising \cup {"idle", "attributes", "open"}
IdRead ==
  rp.id # "unset" /\ (isReparsePoint => rp.id \in {"index", "failed"} /\ (~disturbed => rp.id = "index"))
ReparseInv ==
  /\ pc = "idle" => class = "CReparsePoint"
  /\ class = "CReparsePoint" => ads = FreshStreams /\ pc \notin {"streams", "count", "names"}
  /\ rp.tag \in Links => Null \notin {rp.print, rp.subst, rp.canonical}
  /\ Unread => rp.tag = "0"
  /\ pc = "reparse" =>
       class = "CReparsePoint" /\ rp.tag = "0" /\ rp.guid /\ (~disturbed => opened = file)
  /\ pc = "close" /\ class = "CReparsePoint" =>
       rp.guid /\ IdRead /\ (~disturbed => rp.tag = IF file.kind \in Tags THEN file.kind ELSE "0")
  /\ PrintedInitialised /\ IdOfReparsePoint /\ ResultTruthful

(* What is known of the streams, and of the array with their names.          *)
Expected == IF file.kind \in Tags THEN 1 ELSE file.streams
ArrayNeeded == (ads.named > 0 /\ ads.array = TRUE) \/ (ads.named = 0 /\ ads.array = FALSE)
StreamsInv ==
  /\ ArrayNeeded
  /\ Unread \/ Open => ads.named = 0 /\ (pc # "close" => ads.count = 0)
  /\ pc = "names" => ads.named < ads.count
  /\ pc = "built" => ads.named = ads.count
  /\ pc \in {"streams", "count"} /\ ~disturbed => opened.streams = Expected
  /\ pc = "count" => opened.streams <= ads.size * StreamsPerIncrement
  /\ pc \in {"close", "names", "built"} /\ class = "CAlternateDataStreams" /\ NamesFile /\ ~disturbed =>
       ads.count = Expected

QueryInv == Typed /\ BufferInv /\ FileInv /\ ReparseInv /\ StreamsInv

-----------------------------------------------------------------------------
(* CVerySimpleBuf                                                            *)

LEMMA CeilBound ==
  ASSUME NEW m \in Nat
  PROVE  Ceil(m) \in Nat /\ m <= Ceil(m)
<1> DEFINE k == m + Align - 1
           q == k \div Align
<1>1. Align \in Nat \ {0} /\ k \in Nat
  BY AlignAssumption
<1>2. q \in Nat /\ k < Align * q + Align /\ Align * q \in Nat /\ q * Align = Align * q
  BY <1>1
<1>3. Ceil(m) = Align * q
  BY <1>2 DEF Ceil
<1> HIDE DEF q
<1> QED
  BY <1>1, <1>2, <1>3

LEMMA MinTwo ==
  ASSUME NEW a \in Nat, NEW b \in Nat
  PROVE  /\ Min({a, b}) \in {a, b} /\ Min({a, b}) <= a /\ Min({a, b}) <= b
         /\ a <= b => Min({a, b}) = a
<1>1. \A c, d \in Nat : c <= d => Min({c, d}) = c
  BY DEF Min
<1>2. CASE a <= b
  BY <1>1, <1>2
<1>3. CASE ~(a <= b)
  <2>1. {a, b} = {b, a} /\ b <= a
    BY <1>3
  <2> QED
    BY <1>1, <1>3, <2>1
<1> QED
  BY <1>2, <1>3

(* A buffer has room for one element more than was asked for.                *)
LEMMA ReAllocRoom ==
  ASSUME NEW b \in Buffer, NEW m \in Nat \ {0}
  PROVE  /\ ReAlloc(b, m) \in Buffer /\ ReAlloc(b, m).count >= m + 1
         /\ ReAlloc(b, m).count >= Ceil(m + 1)
         /\ ReAlloc(b, m).len = Min({b.len, m})
<1>1. Ceil(m + 1) \in Nat /\ m + 1 <= Ceil(m + 1)
  BY CeilBound
<1>2. Min({b.len, m}) \in Nat
  BY MinTwo DEF Buffer
<1> HIDE DEF Min
<1>3. CASE Ceil(m + 1) <= b.count
  <2>1. ReAlloc(b, m) = [b EXCEPT !.len = Min({@, m})]
    BY <1>3 DEF ReAlloc, Sized
  <2> QED
    BY <1>1, <1>2, <1>3, <2>1 DEF Buffer
<1>4. CASE ~(Ceil(m + 1) <= b.count)
  <2>1. ReAlloc(b, m) = [count |-> Ceil(m + 1), len |-> Min({b.len, m})]
    BY <1>4 DEF ReAlloc, Sized
  <2> QED
    BY <1>1, <1>2, <2>1 DEF Buffer
<1> QED
  BY <1>3, <1>4

LEMMA NullBuffer == Null \in Buffer /\ Terminated(Null)
  BY DEF Null, Buffer, Terminated

(* A copy is as large as the original.                                       *)
LEMMA CopySame ==
  ASSUME NEW b \in Buffer
  PROVE  Copy(b) = b
<1>1. ReAllocExact(Null, b.count).count = b.count
  BY DEF ReAllocExact, Sized, Null, Buffer
<1> QED
  BY <1>1 DEF Copy, Buffer

LEMMA TextTerminated ==
  ASSUME NEW m \in Nat
  PROVE  FromText(m) \in Buffer /\ Terminated(FromText(m)) /\ FromText(m).len = m
         /\ (m > 0 => FromText(m).count = m + 1)
<1>1. CASE m = 0
  <2>1. FromText(m) = ReAlloc(Null, 1)
    BY <1>1 DEF FromText
  <2>2. Min({Null.len, 1}) = 0
    BY MinTwo DEF Null
  <2> QED
    BY <1>1, <2>1, <2>2, ReAllocRoom, NullBuffer DEF Buffer, Terminated
<1>2. CASE m # 0
  <2>1. ReAllocExact(Null, m + 1) = [count |-> m + 1, len |-> Min({0, m + 1})]
    BY <1>2 DEF ReAllocExact, Sized, Null
  <2>2. FromText(m) = [count |-> m + 1, len |-> m]
    BY <1>2, <2>1 DEF FromText
  <2> QED
    BY <1>2, <2>2 DEF Buffer, Terminated
<1> QED
  BY <1>1, <1>2

(* A name that is copied to a buffer of its own.                             *)
LEMMA NameTerminated ==
  ASSUME NEW m \in Nat
  PROVE  Name(m) \in Buffer /\ Terminated(Name(m)) /\ Name(m) # Null
<1>0. m + 1 \in Nat \ {0}
  OBVIOUS
<1>1. ReAlloc(Null, m + 1) \in Buffer /\ ReAlloc(Null, m + 1).count >= (m + 1) + 1
  BY <1>0, ReAllocRoom, NullBuffer
<1> HIDE DEF ReAlloc
<1>2. Name(m).count >= m + 1 /\ Name(m).len = m /\ Name(m) \in Buffer
  BY <1>1 DEF Name, Fill, Buffer
<1> QED
  BY <1>2 DEF Terminated, Null, Buffer

-----------------------------------------------------------------------------
(* Types                                                                     *)

LEMMA FreshTyped ==
  /\ NoFile \in Files /\ NoPath \in Path /\ SomeArg \in Args
  /\ FreshReparsePoint \in ReparsePoint /\ FreshStreams \in Streams
<1>1. NoFile \in Files
  BY QueryAssumption DEF NoFile, Files, Kinds, Tags
<1>2. NoPath \in Path
  BY NullBuffer DEF NoPath, Path
<1>3. SomeArg \in Args
  BY QueryAssumption DEF SomeArg
<1>4. FreshReparsePoint \in ReparsePoint
  BY NullBuffer DEF FreshReparsePoint, ReparsePoint, FileIds
<1>5. FreshStreams \in Streams
  BY DEF FreshStreams, Streams
<1> QED
  BY <1>1, <1>2, <1>3, <1>4, <1>5

LEMMA InitTyped == Init => Typed
<1> SUFFICES ASSUME Init PROVE Typed
  OBVIOUS
<1>1. disturbed \in BOOLEAN
  BY Zenon DEF Init
<1> QED
  BY <1>1, FreshTyped, QueryAssumption DEF Init, Typed, Classes

LEMMA ForgetTyped ==
  ASSUME Typed, Forget, UNCHANGED <<file, cwd>>
  PROVE  Typed'
<1>1. disturbed' \in BOOLEAN
  BY Zenon DEF Forget
<1> QED
  BY <1>1, FreshTyped, QueryAssumption DEF Forget, Typed, Classes

LEMMA InterfereTyped ==
  ASSUME Typed, Interfere
  PROVE  Typed'
<1>1. changes' \in 0..MaxChanges /\ disturbed' \in BOOLEAN
  BY QueryAssumption DEF Typed, Interfere
<1>2. file' \in Files /\ cwd' \in CurrentDirs /\ opened' \in Files /\ opened'.kind = opened.kind
  BY DEF Typed, Interfere, Files
<1>3. UNCHANGED <<pc, query, needed, path, attr, rp, ads, result>>
  BY DEF Interfere
<1> QED
  BY <1>1, <1>2, <1>3 DEF Typed, query

LEMMA ConstructTyped ==
  ASSUME Typed, Construct
  PROVE  Typed'
<1>1. arg' \in Args /\ arg'.len \in Nat /\ class' \in Classes
  BY QueryAssumption DEF Construct, Classes
<1>2. path' \in Path /\ pc' \in {"attributes", "directory", "measure"}
  <2>1. CASE path' = NoPath
    BY <2>1, FreshTyped DEF Construct
  <2>2. CASE path' = [buf |-> FromText(arg'.len), what |-> "raw"]
    BY <1>1, <2>2, TextTerminated DEF Path, Construct
  <2>3. CASE path' = [buf |-> FromText(Prefix), what |-> "null"]
    BY <2>3, TextTerminated DEF Path, Construct, Prefix
  <2> QED
    BY <2>1, <2>2, <2>3 DEF Construct
<1>3. UNCHANGED <<environment, needed, attr, opened, rp, ads, result, disturbed>>
  BY DEF Construct
<1> QED
  BY <1>1, <1>2, <1>3 DEF Typed, environment

(* The buffer made for the full name.                                        *)
Room == IF pc = "fillDirectory" THEN 1 + needed + path.buf.count ELSE 1 + needed + arg.len

LEMMA NormalisedRoom ==
  ASSUME Typed
  PROVE  /\ Room \in Nat \ {0} /\ Normalised \in Buffer
         /\ Normalised.count >= Room + 1 /\ Normalised.count >= Ceil(Room + 1)
         /\ Normalised.len = Min({path.buf.len, Room})
<1>1. arg.len \in Nat /\ needed \in Nat /\ path.buf \in Buffer /\ path.buf.count \in Nat
  BY QueryAssumption DEF Typed, Path, Buffer
<1>2. Room \in Nat \ {0}
  BY <1>1 DEF Room
<1>3. Normalised = ReAlloc(path.buf, Room)
  BY DEF Normalised, Room
<1> QED
  BY <1>1, <1>2, <1>3, ReAllocRoom

LEMMA FilledTerminated ==
  ASSUME Typed, FullLength + 1 <= Normalised.count - Normalised.len
  PROVE  /\ Fill(Normalised, Normalised.len, FullLength) \in Buffer
         /\ Terminated(Fill(Normalised, Normalised.len, FullLength))
<1>1. FullLength \in Nat
  BY QueryAssumption DEF Typed, FullLength
<1>2. Normalised \in Buffer
  BY NormalisedRoom
<1> HIDE DEF Normalised
<1> QED
  BY <1>1, <1>2 DEF Fill, Buffer, Terminated

LEMMA UnfilledTerminated ==
  ASSUME Typed
  PROVE  Terminated(Normalised)
<1>1. path.buf.len \in Nat
  BY DEF Typed, Path, Buffer
<1>2. Room \in Nat \ {0} /\ Normalised.count >= Room + 1 /\ Normalised.len <= Room /\ Normalised \in Buffer
  BY <1>1, NormalisedRoom, MinTwo
<1> HIDE DEF Normalised, Room
<1> QED
  BY <1>2 DEF Terminated, Buffer

(* What FillIn leaves in the path.                                           *)
Fits == FullLength + 1 <= Normalised.count - Normalised.len
LEMMA FillInSets ==
  ASSUME Typed, FillIn
  PROVE  /\ path'.buf \in Buffer /\ Terminated(path'.buf)
         /\ path'.what = IF Fits /\ Normalised.len = Prefix THEN "full" ELSE "prefix"
         /\ path' = [buf |-> path'.buf, what |-> path'.what]
<1> DEFINE filled == Fill(Normalised, Normalised.len, FullLength)
           buf == IF Fits THEN filled ELSE Normalised
           what == IF Fits /\ Normalised.len = Prefix THEN "full" ELSE "prefix"
<1>1. path' = [buf |-> Copy(buf), what |-> what]
  BY DEF FillIn, Fits
<1>2. buf \in Buffer /\ Terminated(buf)
  <2>1. CASE Fits
    BY <2>1, FilledTerminated DEF Fits
  <2>2. CASE ~Fits
    BY <2>2, NormalisedRoom, UnfilledTerminated
  <2> QED
    BY <2>1, <2>2
<1> HIDE DEF buf
<1>3. Copy(buf) = buf
  BY <1>2, CopySame
<1> QED
  BY <1>1, <1>2, <1>3

LEMMA NormaliseTyped ==
  ASSUME Typed, MeasureDirectory \/ Measure \/ FillIn \/ FillInFails
  PROVE  Typed'
<1>1. cwd \in Nat /\ arg.len \in Nat /\ FullLength \in Nat
  BY QueryAssumption DEF Typed, FullLength
<1>2. CASE MeasureDirectory
  <2>1. needed' \in Nat /\ pc' \in {"measure", "fillDirectory"}
    BY <1>1, <1>2 DEF MeasureDirectory
  <2>2. disturbed' \in BOOLEAN
    BY <1>2, Zenon DEF MeasureDirectory, Typed
  <2> QED
    BY <1>2, <2>1, <2>2 DEF MeasureDirectory, Typed, environment, query
<1>3. CASE Measure
  <2>1. needed' \in Nat /\ pc' = "fill"
    BY <1>1, <1>3 DEF Measure
  <2>2. disturbed' \in BOOLEAN
    BY <1>3, Zenon DEF Measure, Typed
  <2> QED
    BY <1>3, <2>1, <2>2 DEF Measure, Typed, environment, query
<1>4. CASE FillIn
  <2>1. path' \in Path
    BY <1>4, FillInSets DEF Path
  <2> QED
    BY <1>4, <2>1 DEF FillIn, Typed, environment, query
<1>5. CASE FillInFails
  <2>1. path' \in Path
    BY <1>1, <1>5, TextTerminated DEF FillInFails, Path
  <2>2. disturbed' \in BOOLEAN
    BY <1>5, Zenon DEF FillInFails, Typed
  <2> QED
    BY <1>5, <2>1, <2>2 DEF FillInFails, Typed, environment, query
<1> QED
  BY <1>2, <1>3, <1>4, <1>5

LEMMA OpenTyped ==
  ASSUME Typed, Attributes \/ OpenFails \/ OpenSucceeds
  PROVE  Typed'
<1>1. CASE Attributes
  <2>1. attr' \in Kinds \cup {"invalid"}
    BY <1>1 DEF Typed, Attributes, Files
  <2>2. disturbed' \in BOOLEAN
    BY <1>1, Zenon DEF Typed, Attributes
  <2> QED
    BY <1>1, <2>1, <2>2 DEF Attributes, Typed, environment, query
<1>2. CASE OpenFails
  <2>1. disturbed' \in BOOLEAN
    BY <1>2, Zenon DEF Typed, OpenFails
  <2>2. rp' \in ReparsePoint
    BY <1>2 DEF Typed, OpenFails, ReparsePoint
  <2> QED
    BY <1>2, <2>1, <2>2 DEF OpenFails, Typed, environment, query
<1>3. CASE OpenSucceeds
  <2>1. CASE class = "CReparsePoint"
    <3>1. rp' \in ReparsePoint
      BY <1>3, <2>1 DEF Typed, OpenSucceeds, ReparsePoint
    <3> QED
      BY <1>3, <2>1, <3>1 DEF OpenSucceeds, Typed, environment, query
  <2>2. CASE class # "CReparsePoint"
    <3>1. opened' \in Files /\ opened'.kind \notin Tags \cup {"none"}
      BY <1>3, <2>2, QueryAssumption DEF Typed, OpenSucceeds, Files, Kinds, Tags, Links
    <3> QED
      BY <1>3, <2>2, <3>1 DEF OpenSucceeds, Typed, environment, query
  <2> QED
    BY <2>1, <2>2
<1> QED
  BY <1>1, <1>2, <1>3

(* What FSCTL_GET_REPARSE_POINT leaves in the members.                       *)
Queried(n, i) ==
  LET subst == IF opened.kind \in Links THEN Name(n) ELSE Null
  IN  [rp EXCEPT !.tag = opened.kind, !.id = i, !.subst = subst,
         !.print = IF opened.kind \in Links THEN Name(3) ELSE Null,
         !.canonical = IF opened.kind # "vendor" THEN Copy(subst) ELSE Null]

LEMMA QueriedMembers ==
  ASSUME Typed, opened.kind \in Tags, NEW m \in Nat, NEW id \in FileIds
  PROVE  /\ Queried(m, id) \in ReparsePoint
         /\ Queried(m, id).tag = opened.kind /\ Queried(m, id).id = id /\ Queried(m, id).guid = rp.guid
         /\ {Queried(m, id).print, Queried(m, id).subst, Queried(m, id).canonical} \subseteq {Null, Name(m), Name(3)}
         /\ opened.kind \in Links =>
              Null \notin {Queried(m, id).print, Queried(m, id).subst, Queried(m, id).canonical}
<1> DEFINE subst == IF opened.kind \in Links THEN Name(m) ELSE Null
           print == IF opened.kind \in Links THEN Name(3) ELSE Null
           canonical == IF opened.kind # "vendor" THEN Copy(subst) ELSE Null
<1>1. Name(m) \in Buffer /\ Name(3) \in Buffer /\ Null \in Buffer /\ Name(m) # Null /\ Name(3) # Null
  BY NameTerminated, NullBuffer
<1>2. Copy(subst) = subst
  BY <1>1, CopySame
<1>3. /\ {print, subst, canonical} \subseteq Buffer /\ {print, subst, canonical} \subseteq {Null, Name(m), Name(3)}
      /\ opened.kind \in Links => Null \notin {print, subst, canonical}
  BY <1>1, <1>2 DEF Links
<1>4. Queried(m, id) = [rp EXCEPT !.tag = opened.kind, !.id = id, !.subst = subst,
                      !.print = print, !.canonical = canonical]
  BY DEF Queried
<1> HIDE DEF subst, print, canonical
<1> QED
  BY <1>3, <1>4 DEF Typed, ReparsePoint

LEMMA GetReparsePointSets ==
  ASSUME GetReparsePoint
  PROVE  \E m \in {0, 5}, id \in {"index", "failed"} :
           rp' = Queried(m, id) /\ (~disturbed' => ~disturbed /\ id = "index")
<1>1. PICK m \in {0, 5}, id \in {"index", "failed"} :
        rp' = Queried(m, id) /\ disturbed' = (disturbed \/ id = "failed")
  BY DEF GetReparsePoint, Queried
<1>2. ~disturbed' => ~disturbed /\ id = "index"
  BY <1>1
<1> QED
  BY <1>1, <1>2

(* What the other two leave there.                                           *)
LEMMA OtherSets ==
  ASSUME Typed, GetReparsePointFails \/ NoReparsePoint
  PROVE  /\ rp' \in ReparsePoint /\ disturbed' \in BOOLEAN
         /\ rp'.tag = rp.tag /\ rp'.guid = rp.guid /\ rp'.id # "unset"
         /\ rp'.print = rp.print /\ rp'.subst = rp.subst /\ rp'.canonical = rp.canonical
         /\ isReparsePoint => rp'.id \in {"index", "failed"} /\ (~disturbed' => rp'.id = "index")
         /\ ~disturbed' => ~disturbed
<1>1. PICK id \in {"index", "size", "failed"} :
        /\ rp' = [rp EXCEPT !.id = id] /\ (~disturbed' => ~disturbed /\ id # "failed")
        /\ isReparsePoint => id # "size"
  <2>1. CASE GetReparsePointFails
    <3>1. PICK id \in {"index", "failed"} :
            rp' = [rp EXCEPT !.id = id] /\ disturbed' = (disturbed \/ id = "failed" \/ opened.kind \in Tags)
      BY <2>1, Zenon DEF GetReparsePointFails
    <3>2. id # "size" /\ id \in {"index", "size", "failed"}
      OBVIOUS
    <3> QED
      BY <3>1, <3>2
  <2>2. CASE NoReparsePoint
    <3>1. PICK id \in {"size", "failed"} :
            rp' = [rp EXCEPT !.id = id] /\ disturbed' = (disturbed \/ id = "failed")
      BY <2>2, Zenon DEF NoReparsePoint
    <3>2. ~isReparsePoint /\ id \in {"index", "size", "failed"}
      BY <2>2 DEF NoReparsePoint
    <3> QED
      BY <3>1, <3>2
  <2> QED
    BY <2>1, <2>2
<1>2. disturbed' \in BOOLEAN
  BY Zenon DEF GetReparsePointFails, NoReparsePoint
<1>3. rp \in ReparsePoint /\ id \in FileIds
  BY DEF Typed, FileIds
<1>4. /\ rp' \in ReparsePoint /\ rp'.id = id
      /\ rp'.tag = rp.tag /\ rp'.guid = rp.guid
      /\ rp'.print = rp.print /\ rp'.subst = rp.subst /\ rp'.canonical = rp.canonical
  BY <1>1, <1>3 DEF ReparsePoint
<1> QED
  BY <1>1, <1>2, <1>4

LEMMA ReparsePointTyped ==
  ASSUME Typed, GetReparsePoint \/ GetReparsePointFails \/ NoReparsePoint
  PROVE  Typed'
<1>1. rp' \in ReparsePoint
  <2>1. CASE GetReparsePoint
    <3>1. PICK m \in {0, 5}, id \in {"index", "failed"} : rp' = Queried(m, id)
      BY <2>1, GetReparsePointSets
    <3>2. m \in Nat /\ opened.kind \in Tags /\ id \in FileIds
      BY <2>1 DEF GetReparsePoint, FileIds
    <3> QED
      BY <3>1, <3>2, QueriedMembers
  <2>2. CASE GetReparsePointFails \/ NoReparsePoint
    BY <2>2, OtherSets
  <2> QED
    BY <2>1, <2>2
<1>2. disturbed' \in BOOLEAN
  BY Zenon DEF Typed, GetReparsePoint, GetReparsePointFails, NoReparsePoint
<1> QED
  BY <1>1, <1>2 DEF Typed, GetReparsePoint, GetReparsePointFails, NoReparsePoint, environment, query

LEMMA StreamsTyped ==
  ASSUME Typed,
         \/ QueryStreams \/ QueryStreamsFails \/ CountStreams \/ CloseFile
         \/ RetrieveName \/ RetrieveNamesFails
  PROVE  Typed'
<1>1. disturbed' \in BOOLEAN
  BY Zenon DEF Typed, QueryStreams, QueryStreamsFails, CountStreams, CloseFile, RetrieveName, RetrieveNamesFails
<1>2. CASE QueryStreams
  <2>1. ads' \in Streams
    <3>1. ads \in Streams /\ ads.size + 1 \in Nat
      BY DEF Typed, Streams
    <3> QED
      BY <1>2, <3>1, Zenon DEF QueryStreams, Streams
  <2> QED
    BY <1>1, <1>2, <2>1 DEF Typed, QueryStreams, environment, query
<1>3. CASE QueryStreamsFails
  <2>1. ads' \in Streams
    <3>1. ads \in Streams /\ ads.size + 1 \in Nat
      BY DEF Typed, Streams
    <3> QED
      BY <1>3, <3>1, Zenon DEF QueryStreamsFails, Streams
  <2> QED
    BY <1>1, <1>3, <2>1 DEF Typed, QueryStreamsFails, environment, query
<1>4. CASE CountStreams
  <2>1. ads.size * StreamsPerIncrement \in Nat /\ opened.streams \in Nat
    BY QueryAssumption DEF Typed, Streams, Files
  <2>2. Min({opened.streams, ads.size * StreamsPerIncrement}) \in Nat
    BY <2>1, MinTwo
  <2>3. ads' \in Streams
    BY <1>4, <2>2 DEF Typed, CountStreams, Streams
  <2> QED
    BY <1>1, <1>4, <2>3 DEF Typed, CountStreams, environment, query
<1>5. CASE CloseFile
  <2>1. file' \in Files /\ opened' \in Files /\ result' \in {0, 2, 3} /\ pc' \in {"names", "built"}
    BY <1>5, FreshTyped DEF Typed, CloseFile, Shown
  <2> QED
    BY <1>1, <1>5, <2>1 DEF Typed, CloseFile, query
<1>6. CASE RetrieveName
  <2>1. ads' \in Streams
    <3>1. ads \in Streams /\ ads.named + 1 \in Nat
      BY DEF Typed, Streams
    <3> QED
      BY <1>6, <3>1, Zenon DEF RetrieveName, Streams
  <2> QED
    BY <1>1, <1>6, <2>1 DEF Typed, RetrieveName, environment, query
<1>7. CASE RetrieveNamesFails
  <2>1. ads' \in Streams
    BY <1>7 DEF Typed, RetrieveNamesFails, Streams
  <2> QED
    BY <1>1, <1>7, <2>1 DEF Typed, RetrieveNamesFails, environment, query
<1> QED
  BY <1>2, <1>3, <1>4, <1>5, <1>6, <1>7

LEMMA NextTyped == Typed /\ [Next]_vars => Typed'
<1> SUFFICES ASSUME Typed, [Next]_vars PROVE Typed'
  OBVIOUS
<1>1. CASE UNCHANGED vars
  BY <1>1 DEF Typed, vars, environment, query
<1>2. CASE Next
  BY <1>2, ConstructTyped, NormaliseTyped, OpenTyped, ReparsePointTyped, StreamsTyped,
     ForgetTyped, InterfereTyped DEF Next, Constructor, Throw, Destroy
<1> QED
  BY <1>1, <1>2

-----------------------------------------------------------------------------
(* Buffers                                                                   *)

LEMMA FreshBuffers ==
  ASSUME path = NoPath, rp = FreshReparsePoint, pc = "idle"
  PROVE  BufferInv
BY NullBuffer DEF BufferInv, Normalising, AllTerminated, PrefixOnlyExplained, NoPath, FreshReparsePoint

LEMMA ForgetBuffers ==
  ASSUME Forget
  PROVE  BufferInv'
BY NullBuffer DEF Forget, BufferInv, Normalising, AllTerminated, PrefixOnlyExplained, NoPath, FreshReparsePoint

LEMMA ConstructBuffers ==
  ASSUME Typed, BufferInv, Construct
  PROVE  BufferInv'
<1>1. arg' \in Args /\ arg'.len \in Nat /\ arg'.kind \in {"null", "prefixed", "dot", "plain"}
  BY QueryAssumption DEF Construct
<1>2. Terminated(path'.buf) /\ path'.what # "prefix"
  <2>1. CASE path' = NoPath
    BY <2>1, NullBuffer DEF NoPath
  <2>2. CASE path' = [buf |-> FromText(arg'.len), what |-> "raw"]
    BY <1>1, <2>2, TextTerminated
  <2>3. CASE path' = [buf |-> FromText(Prefix), what |-> "null"]
    BY <2>3, TextTerminated DEF Prefix
  <2> QED
    BY <2>1, <2>2, <2>3 DEF Construct
<1>3. AllTerminated' /\ PrefixOnlyExplained'
  BY <1>2 DEF Construct, BufferInv, AllTerminated, PrefixOnlyExplained
<1>4. /\ pc' \in {"attributes", "directory", "measure"}
      /\ pc' # "attributes" =>
           /\ arg'.kind \in {"dot", "plain"} /\ path' = [buf |-> FromText(Prefix), what |-> "null"]
           /\ pc' = "directory" <=> arg'.kind = "dot"
  BY <1>1 DEF Construct
<1> QED
  BY <1>3, <1>4 DEF BufferInv, Normalising

LEMMA MeasureBuffers ==
  ASSUME Typed, BufferInv, MeasureDirectory \/ Measure
  PROVE  BufferInv'
<1>1. /\ pc \in {"directory", "measure"} /\ UNCHANGED <<cwd, arg, path, rp>>
      /\ arg.kind \in {"dot", "plain"} /\ path = [buf |-> FromText(Prefix), what |-> "null"]
  BY DEF MeasureDirectory, Measure, environment, query, BufferInv, Normalising
<1>2. /\ pc' \in {"fillDirectory", "measure", "fill"} /\ (~disturbed' => ~disturbed)
      /\ pc' = "fillDirectory" => arg.kind = "dot"
      /\ ~disturbed' => pc' # "measure" /\ (pc' = "fill" => arg.kind = "plain")
      /\ ~disturbed' => needed' = IF HasFullName THEN FullLength + 1 ELSE 0
  <2>1. CASE MeasureDirectory
    <3>1. arg.kind = "dot" /\ pc' \in {"fillDirectory", "measure"}
      BY <2>1 DEF MeasureDirectory, BufferInv
    <3>2. ~disturbed' => ~disturbed /\ needed' = cwd + 1 /\ pc' = "fillDirectory"
      BY <2>1, Zenon DEF MeasureDirectory
    <3> QED
      BY <3>1, <3>2 DEF HasFullName, FullLength
  <2>2. CASE Measure
    <3>1. pc' = "fill" /\ (~disturbed => arg.kind = "plain")
      BY <2>2 DEF Measure, BufferInv
    <3>2. ~disturbed' => ~disturbed /\ needed' = IF HasFullName THEN FullLength + 1 ELSE 0
      BY <2>2, Zenon DEF Measure
    <3> QED
      BY <3>1, <3>2
  <2> QED
    BY <2>1, <2>2
<1>3. AllTerminated' /\ path'.what # "prefix"
  BY <1>1 DEF BufferInv, AllTerminated
<1>4. HasFullName' = HasFullName /\ FullLength' = FullLength
  BY <1>1 DEF HasFullName, FullLength
<1> QED
  BY <1>1, <1>2, <1>3, <1>4 DEF BufferInv, PrefixOnlyExplained

(* A name does not fit only where nothing is to spare.                       *)
LEMMA FitsUnless ==
  ASSUME Typed, BufferInv, FillIn, ~disturbed
  PROVE  (Fits /\ Normalised.len = Prefix) \/ NoneSpare
<1>1. /\ pc \in {"fillDirectory", "fill"} /\ HasFullName
      /\ needed = FullLength + 1 /\ path = [buf |-> FromText(Prefix), what |-> "null"]
      /\ pc = "fillDirectory" => arg.kind = "dot"
      /\ pc = "fill" => arg.kind = "plain"
  BY DEF FillIn, BufferInv, Normalising
<1>2. path.buf.count = 5 /\ path.buf.len = 4
  BY <1>1, TextTerminated DEF Prefix
<1>3. cwd \in Nat /\ arg.len \in Nat
  BY QueryAssumption DEF Typed
<1> DEFINE count == Normalised.count
<1>4. /\ Room \in Nat \ {0} /\ count \in Nat /\ count >= Room + 1 /\ count >= Ceil(Room + 1)
      /\ Normalised.len = Min({4, Room})
  BY <1>2, NormalisedRoom DEF Buffer
<1>5. Room + 1 \in Nat /\ Ceil(Room + 1) \in Nat /\ Room + 1 <= Ceil(Room + 1)
  BY <1>4, CeilBound
<1>6. Room >= 4 => Normalised.len = 4
  BY <1>4, MinTwo
<1>7. CASE pc = "fillDirectory"
  <2>1. Room = cwd + 7 /\ FullLength = cwd
    BY <1>1, <1>2, <1>3, <1>7 DEF Room, FullLength
  <2> HIDE DEF count
  <2>2. FullLength + 1 <= count - 4 /\ Room >= 4
    BY <1>3, <1>4, <2>1
  <2> QED
    BY <1>6, <2>2 DEF Fits, Prefix, count
<1>8. CASE pc = "fill"
  <2>1. Room = cwd + 3 + arg.len + arg.len /\ FullLength = cwd + 1 + arg.len /\ arg.len >= 1
    BY <1>1, <1>3, <1>8 DEF Room, FullLength, HasFullName
  <2> DEFINE ceil == Ceil(Room + 1)
  <2> HIDE DEF count, ceil
  <2>2. Room >= 4 /\ (FullLength + 1 <= count - 4 \/ (arg.len = 1 /\ count = cwd + 6 /\ Room + 1 = cwd + 6))
    BY <1>3, <1>4, <2>1
  <2>3. arg.len = 1 /\ count = cwd + 6 /\ Room + 1 = cwd + 6 => ceil = cwd + 6
    <3>1. count >= ceil /\ ceil \in Nat /\ Room + 1 <= ceil
      BY <1>4, <1>5 DEF count, ceil
    <3> QED
      BY <1>3, <1>4, <3>1
  <2>4. Room + 1 = cwd + 6 /\ ceil = cwd + 6 => Ceil(cwd + 6) = cwd + 6
    BY DEF ceil
  <2> QED
    BY <1>1, <1>6, <1>8, <2>2, <2>3, <2>4 DEF Fits, Prefix, NoneSpare, count
<1> QED
  BY <1>1, <1>7, <1>8

LEMMA FillInBuffers ==
  ASSUME Typed, BufferInv, FillIn \/ FillInFails
  PROVE  BufferInv'
<1>1. pc' = "attributes" /\ UNCHANGED <<arg, cwd, rp>> /\ arg.len \in Nat
  BY QueryAssumption DEF FillIn, FillInFails, query, environment, Typed
<1>2. CASE FillInFails
  <2>1. path' = [buf |-> FromText(arg.len), what |-> "raw"]
    BY <1>2 DEF FillInFails
  <2> QED
    BY <1>1, <2>1, TextTerminated DEF BufferInv, AllTerminated, PrefixOnlyExplained, Normalising
<1>3. CASE FillIn
  <2>1. Terminated(path'.buf) /\ disturbed' = disturbed
    BY <1>3, FillInSets DEF FillIn
  <2>2. AllTerminated'
    BY <1>1, <2>1 DEF BufferInv, AllTerminated
  <2>3. NoneSpare' = NoneSpare
    BY <1>1 DEF NoneSpare
  <2>4. PrefixOnlyExplained'
    BY <1>3, <2>1, <2>3, FillInSets, FitsUnless DEF PrefixOnlyExplained
  <2> QED
    BY <1>1, <2>2, <2>4 DEF BufferInv, Normalising
<1> QED
  BY <1>2, <1>3

(* Whoever opens or queries the file leaves the path alone.                  *)
Afterwards ==
  \/ Attributes \/ OpenFails \/ OpenSucceeds
  \/ GetReparsePoint \/ GetReparsePointFails \/ NoReparsePoint
  \/ QueryStreams \/ QueryStreamsFails \/ CountStreams
  \/ CloseFile \/ RetrieveName \/ RetrieveNamesFails

LEMMA AfterwardsKeeps ==
  ASSUME Afterwards
  PROVE  /\ pc \notin Normalising \cup {"idle"} /\ pc' \notin Normalising \cup {"idle", "attributes"}
         /\ UNCHANGED <<query, path, cwd, changes>> /\ (disturbed => disturbed')
<1>1. disturbed => disturbed'
  BY Zenon DEF Afterwards, Attributes, OpenFails, OpenSucceeds, GetReparsePoint, GetReparsePointFails,
         NoReparsePoint, QueryStreams, QueryStreamsFails, CountStreams, CloseFile, RetrieveName,
         RetrieveNamesFails, environment
<1>2. pc \notin Normalising \cup {"idle"} /\ pc' \notin Normalising \cup {"idle", "attributes"}
  BY DEF Normalising, Afterwards, Attributes, OpenFails, OpenSucceeds, GetReparsePoint, GetReparsePointFails,
         NoReparsePoint, QueryStreams, QueryStreamsFails, CountStreams, CloseFile, RetrieveName,
         RetrieveNamesFails, environment
<1>3. UNCHANGED <<query, path, cwd, changes>>
  BY DEF Afterwards, Attributes, OpenFails, OpenSucceeds, GetReparsePoint, GetReparsePointFails,
         NoReparsePoint, QueryStreams, QueryStreamsFails, CountStreams, CloseFile, RetrieveName,
         RetrieveNamesFails, environment
<1> QED
  BY <1>1, <1>2, <1>3

LEMMA AfterwardsBuffers ==
  ASSUME Typed, BufferInv, Afterwards
  PROVE  BufferInv'
<1>1. \A b \in {rp'.print, rp'.subst, rp'.canonical} :
         b \in {rp.print, rp.subst, rp.canonical} \/ Terminated(b)
  <2>1. CASE GetReparsePoint
    <3>1. PICK m \in {0, 5}, id \in {"index", "failed"} : rp' = Queried(m, id)
      BY <2>1, GetReparsePointSets
    <3>2. m \in Nat /\ opened.kind \in Tags /\ id \in FileIds
      BY <2>1 DEF GetReparsePoint, FileIds
    <3> QED
      BY <3>1, <3>2, QueriedMembers, NameTerminated, NullBuffer
  <2>2. CASE GetReparsePointFails \/ NoReparsePoint
    BY <2>2, OtherSets
  <2>3. CASE ~GetReparsePoint /\ ~GetReparsePointFails /\ ~NoReparsePoint
    BY <2>3 DEF Typed, ReparsePoint, Afterwards, Attributes, OpenFails, OpenSucceeds, QueryStreams, QueryStreamsFails, CountStreams, CloseFile, RetrieveName,
       RetrieveNamesFails
  <2> QED
    BY <2>1, <2>2, <2>3
<1>2. AllTerminated'
  BY <1>1, AfterwardsKeeps DEF BufferInv, AllTerminated
<1> QED
  BY <1>2, AfterwardsKeeps DEF BufferInv, PrefixOnlyExplained, NoneSpare, Normalising, query

LEMMA NextBuffers == Typed /\ BufferInv /\ [Next]_vars => BufferInv'
<1> SUFFICES ASSUME Typed, BufferInv, [Next]_vars PROVE BufferInv'
  OBVIOUS
<1>1. CASE UNCHANGED vars \/ Interfere
  <2>1. /\ UNCHANGED <<pc, arg, needed, path, rp>>
        /\ disturbed' = TRUE \/ UNCHANGED <<cwd, disturbed>>
    BY <1>1 DEF vars, environment, query, Interfere
  <2> QED
    BY <2>1 DEF BufferInv, AllTerminated, PrefixOnlyExplained, NoneSpare, HasFullName, FullLength
<1>2. CASE Next /\ ~Interfere
  BY <1>2, ConstructBuffers, MeasureBuffers, FillInBuffers, AfterwardsBuffers, ForgetBuffers
     DEF Next, Constructor, Throw, Destroy, Afterwards
<1> QED
  BY <1>1, <1>2

-----------------------------------------------------------------------------
(* The file                                                                  *)

LEMMA AfterwardsFile ==
  ASSUME Typed, FileInv, Afterwards
  PROVE  FileInv'
<1>1. /\ UNCHANGED path /\ (disturbed => disturbed') /\ (NamesFile' <=> NamesFile)
  BY AfterwardsKeeps DEF NamesFile
<1>2. CASE Attributes
  <2>1. pc' = "open" /\ file' = file
    BY <1>2 DEF Attributes, environment
  <2>2. ~disturbed' => attr' = IF NamesFile /\ file.kind # "none" THEN file.kind ELSE "invalid"
    BY <1>2, Zenon DEF Attributes
  <2> QED
    BY <1>1, <2>1, <2>2 DEF FileInv, Open
<1>3. CASE OpenFails
  BY <1>3 DEF FileInv, Open, OpenFails
<1>4. CASE OpenSucceeds
  BY <1>1, <1>4 DEF FileInv, Open, OpenSucceeds, environment
<1>5. CASE CloseFile \/ RetrieveName \/ RetrieveNamesFails
  BY <1>5 DEF FileInv, Open, CloseFile, RetrieveName, RetrieveNamesFails
<1>6. CASE \/ GetReparsePoint \/ GetReparsePointFails \/ NoReparsePoint
           \/ QueryStreams \/ QueryStreamsFails \/ CountStreams
  <2>1. Open /\ pc' # "open" /\ UNCHANGED <<file, attr>>
    BY <1>6 DEF Open, GetReparsePoint, GetReparsePointFails, NoReparsePoint,
                QueryStreams, QueryStreamsFails, CountStreams, environment
  <2> QED
    BY <1>1, <2>1 DEF FileInv
<1> QED
  BY <1>2, <1>3, <1>4, <1>5, <1>6 DEF Afterwards

LEMMA NextFile == Typed /\ FileInv /\ [Next]_vars => FileInv'
<1> SUFFICES ASSUME Typed, FileInv, [Next]_vars PROVE FileInv'
  OBVIOUS
<1>1. CASE UNCHANGED vars \/ Interfere
  <2>1. /\ UNCHANGED <<pc, path, attr>>
        /\ disturbed' = TRUE \/ UNCHANGED <<file, disturbed>>
    BY <1>1 DEF vars, environment, query, Interfere
  <2> QED
    BY <2>1 DEF FileInv, Open, NamesFile
<1>2. CASE Forget \/ Construct \/ MeasureDirectory \/ Measure \/ FillIn \/ FillInFails
  <2>1. pc' \in Normalising \cup {"idle", "attributes"}
    BY <1>2 DEF Forget, Construct, MeasureDirectory, Measure, FillIn, FillInFails, Normalising
  <2> QED
    BY <2>1 DEF FileInv, Open, Normalising
<1>3. CASE Next /\ ~Interfere
  BY <1>2, <1>3, AfterwardsFile DEF Next, Constructor, Throw, Destroy, Afterwards
<1> QED
  BY <1>1, <1>3

-----------------------------------------------------------------------------
(* CReparsePoint                                                             *)

(* Before the file is open nothing is known.                                 *)
LEMMA UnreadReparse ==
  ASSUME Unread', rp'.tag = "0",
         class' = "CReparsePoint" => ads' = FreshStreams,
         pc' = "idle" => class' = "CReparsePoint"
  PROVE  ReparseInv'
BY DEF ReparseInv, Unread, Normalising, PrintedInitialised, IdOfReparsePoint, ResultTruthful, Links

LEMMA EarlyReparse ==
  ASSUME ReparseInv,
         \/ Forget \/ Construct \/ MeasureDirectory \/ Measure \/ FillIn \/ FillInFails \/ Attributes
  PROVE  ReparseInv'
<1>1. CASE Forget
  BY <1>1, UnreadReparse DEF Forget, FreshReparsePoint, Unread
<1>2. CASE Construct
  BY <1>2, UnreadReparse DEF Construct, ReparseInv, Unread, Normalising
<1>3. CASE MeasureDirectory \/ Measure \/ FillIn \/ FillInFails \/ Attributes
  <2>1. UNCHANGED <<class, rp, ads>> /\ Unread /\ pc # "idle" /\ pc' # "idle" /\ Unread'
    BY <1>3 DEF MeasureDirectory, Measure, FillIn, FillInFails, Attributes, Unread, Normalising, query
  <2> QED
    BY <2>1, UnreadReparse DEF ReparseInv
<1> QED
  BY <1>1, <1>2, <1>3

LEMMA OpenReparse ==
  ASSUME Typed, ReparseInv, OpenFails \/ OpenSucceeds
  PROVE  ReparseInv'
<1>1. /\ pc = "open" /\ rp.tag = "0" /\ rp \in ReparsePoint
      /\ class' = class /\ path' = path /\ file' = file /\ ads' = ads
      /\ class = "CReparsePoint" => ads = FreshStreams
  BY DEF Typed, ReparseInv, Unread, OpenFails, OpenSucceeds, environment, query
<1>2. CASE OpenFails
  <2>1. ~disturbed' /\ NamesFile => file.kind = "none"
    BY <1>2, Zenon DEF OpenFails
  <2>2. rp'.tag = "0" /\ pc' = "built" /\ (class = "CReparsePoint" => result' = 3)
    BY <1>1, <1>2 DEF OpenFails, ReparsePoint
  <2>3. PrintedInitialised'
    BY <1>1, <2>2 DEF PrintedInitialised
  <2>5. IdOfReparsePoint'
    BY <1>1, <2>2 DEF IdOfReparsePoint
  <2>4. ResultTruthful'
    <3>1. NamesFile' = NamesFile
      BY <1>1 DEF NamesFile
    <3>2. ~disturbed' /\ NamesFile' => file'.kind = "none"
      BY <1>1, <2>1, <3>1
    <3> QED
      BY <1>1, <2>2, <3>2 DEF ResultTruthful, Tags, Links
  <2> QED
    BY <1>1, <2>2, <2>3, <2>4, <2>5 DEF ReparseInv, Unread, Normalising, Links
<1>3. CASE OpenSucceeds /\ class = "CReparsePoint"
  <2>1. rp'.tag = "0" /\ rp'.guid = TRUE /\ pc' = "reparse" /\ opened' = file
    BY <1>1, <1>3 DEF OpenSucceeds, ReparsePoint
  <2> QED
    BY <1>1, <1>3, <2>1 DEF ReparseInv, Unread, Normalising, PrintedInitialised, IdOfReparsePoint, ResultTruthful, Links
<1>4. CASE OpenSucceeds /\ class # "CReparsePoint"
  <2>1. rp' = rp /\ pc' = "streams"
    BY <1>4 DEF OpenSucceeds
  <2> QED
    BY <1>1, <1>4, <2>1 DEF ReparseInv, Unread, Normalising, PrintedInitialised, IdOfReparsePoint, ResultTruthful, Links
<1> QED
  BY <1>2, <1>3, <1>4

LEMMA ReadReparse ==
  ASSUME Typed, FileInv, ReparseInv, GetReparsePoint \/ GetReparsePointFails \/ NoReparsePoint
  PROVE  ReparseInv'
<1>1. /\ pc = "reparse" /\ pc' = "close" /\ UNCHANGED <<class, ads, file, opened>>
      /\ class = "CReparsePoint" /\ rp.tag = "0" /\ rp.guid /\ ads = FreshStreams
      /\ rp \in ReparsePoint
      /\ ~disturbed => opened = file /\ attr = file.kind
  BY DEF Typed, FileInv, Open, ReparseInv, GetReparsePoint, GetReparsePointFails, NoReparsePoint,
         environment, query
<1>2. /\ rp'.guid = rp.guid /\ IdRead'
      /\ rp'.tag \in Links => Null \notin {rp'.print, rp'.subst, rp'.canonical}
      /\ ~disturbed' => rp'.tag = IF file.kind \in Tags THEN file.kind ELSE "0"
  <2>0. isReparsePoint' = isReparsePoint
    BY DEF isReparsePoint, GetReparsePoint, GetReparsePointFails, NoReparsePoint
  <2>1. CASE GetReparsePoint
    <3>1. PICK m \in {0, 5}, id \in {"index", "failed"} :
            rp' = Queried(m, id) /\ (~disturbed' => ~disturbed /\ id = "index")
      BY <2>1, GetReparsePointSets
    <3>2. m \in Nat /\ opened.kind \in Tags /\ id \in FileIds
      BY <2>1 DEF GetReparsePoint, FileIds
    <3>3. /\ rp'.guid = rp.guid /\ rp'.id = id /\ rp'.tag = opened.kind
          /\ rp'.tag \in Links => Null \notin {rp'.print, rp'.subst, rp'.canonical}
      BY <3>1, <3>2, QueriedMembers
    <3>4. IdRead'
      BY <3>1, <3>3 DEF IdRead
    <3> QED
      BY <1>1, <3>1, <3>2, <3>3, <3>4
  <2>2. CASE GetReparsePointFails
    <3>1. ~disturbed' => ~disturbed /\ opened.kind \notin Tags
      BY <2>2, Zenon DEF GetReparsePointFails
    <3> QED
      BY <1>1, <2>0, <2>2, <3>1, OtherSets DEF Links, IdRead
  <2>3. CASE NoReparsePoint
    <3>1. ~disturbed' => ~disturbed /\ file.kind \notin Tags
      BY <1>1, <2>3, OtherSets DEF NoReparsePoint, isReparsePoint
    <3> QED
      BY <1>1, <2>0, <2>3, <3>1, OtherSets DEF Links, IdRead
  <2> QED
    BY <2>1, <2>2, <2>3
<1>3. rp'.guid
  BY <1>1, <1>2, Zenon
<1> QED
  BY <1>1, <1>2, <1>3 DEF ReparseInv, Unread, Normalising, PrintedInitialised, IdOfReparsePoint, ResultTruthful

LEMMA CloseReparse ==
  ASSUME Typed, FileInv, ReparseInv, CloseFile
  PROVE  ReparseInv'
<1>1. /\ pc = "close" /\ UNCHANGED <<class, ads, rp, path, disturbed>>
      /\ pc' = (IF ads.count # 0 THEN "names" ELSE "built")
      /\ result' = (IF class = "CReparsePoint" THEN Shown ELSE 0)
      /\ file' = (IF DeleteOnClose THEN NoFile ELSE file)
      /\ rp.tag \in Links => Null \notin {rp.print, rp.subst, rp.canonical}
  BY DEF CloseFile, ReparseInv, query
<1>2. CASE class = "CReparsePoint"
  <2>1. /\ ads = FreshStreams /\ pc' = "built" /\ file' = file /\ result' = Shown
        /\ rp.guid /\ IdRead
        /\ ~disturbed => rp.tag = IF file.kind \in Tags THEN file.kind ELSE "0"
    BY <1>1, <1>2 DEF ReparseInv, FreshStreams, DeleteOnClose
  <2>2. PrintedInitialised'
    BY <1>1, <2>1 DEF PrintedInitialised, IdRead
  <2>4. IdOfReparsePoint'
    BY <1>1, <2>1 DEF IdOfReparsePoint, IdRead, Shown
  <2>3. ResultTruthful'
    <3>1. SUFFICES ASSUME ~disturbed
                   PROVE  CASE file.kind = "none" -> result' = 3
                            [] file.kind \in Tags -> result' = 0 /\ rp.tag = file.kind
                            [] OTHER              -> result' = 2 /\ rp.tag = "0"
      BY <1>1, <2>1 DEF ResultTruthful
    <3>2. file.kind # "none" /\ attr = file.kind /\ file.kind \in Kinds
      BY <1>1, <3>1 DEF FileInv, Open, Typed, Files
    <3>3. file.kind # "invalid"
      BY <3>2 DEF Kinds, Tags, Links
    <3> QED
      BY <2>1, <3>1, <3>2, <3>3 DEF Shown, isReparsePoint
  <2> QED
    BY <1>1, <1>2, <2>1, <2>2, <2>3, <2>4 DEF ReparseInv, Unread, Normalising
<1>3. CASE class # "CReparsePoint"
  BY <1>1, <1>3 DEF ReparseInv, Unread, Normalising, PrintedInitialised, IdOfReparsePoint, ResultTruthful
<1> QED
  BY <1>2, <1>3

LEMMA StreamsReparse ==
  ASSUME Typed, ReparseInv,
         \/ QueryStreams \/ QueryStreamsFails \/ CountStreams
         \/ RetrieveName \/ RetrieveNamesFails
  PROVE  ReparseInv'
<1>1. /\ pc \in {"streams", "count", "names"}
      /\ pc' \in {"streams", "count", "close", "names", "built"} /\ UNCHANGED <<class, rp>>
      /\ class # "CReparsePoint"
  BY DEF ReparseInv, QueryStreams, QueryStreamsFails, CountStreams, RetrieveName, RetrieveNamesFails, query
<1> QED
  BY <1>1 DEF ReparseInv, Unread, Normalising, PrintedInitialised, IdOfReparsePoint, ResultTruthful

LEMMA NextReparse == Typed /\ FileInv /\ ReparseInv /\ [Next]_vars => ReparseInv'
<1> SUFFICES ASSUME Typed, FileInv, ReparseInv, [Next]_vars PROVE ReparseInv'
  OBVIOUS
<1>1. CASE UNCHANGED vars
  BY <1>1 DEF vars, environment, query, ReparseInv, Unread, Normalising, IdRead, isReparsePoint, PrintedInitialised,
     IdOfReparsePoint, ResultTruthful, NamesFile
<1>2. CASE Interfere
  <2>1. UNCHANGED <<pc, class, ads, attr, rp, result>> /\ disturbed' = TRUE
    BY <1>2 DEF query, Interfere
  <2>2. IdRead => IdRead'
    BY <2>1 DEF IdRead, isReparsePoint
  <2> QED
    BY <2>1, <2>2 DEF ReparseInv, Unread, Normalising, PrintedInitialised, IdOfReparsePoint, ResultTruthful
<1>3. CASE Next /\ ~Interfere
  BY <1>3, EarlyReparse, OpenReparse, ReadReparse, CloseReparse, StreamsReparse
     DEF Next, Constructor, Throw, Destroy
<1> QED
  BY <1>1, <1>2, <1>3

-----------------------------------------------------------------------------
(* CAlternateDataStreams                                                     *)

(* Before the streams are counted there are none.                            *)
LEMMA NoStreams ==
  ASSUME ads'.named = 0, ads'.array = FALSE, ads'.count = 0,
         pc' \notin {"streams", "count", "close", "names", "built"}
  PROVE  StreamsInv'
BY DEF StreamsInv, ArrayNeeded, Unread, Normalising, Open

LEMMA EarlyStreams ==
  ASSUME Typed, StreamsInv,
         \/ Forget \/ Construct \/ MeasureDirectory \/ Measure \/ FillIn \/ FillInFails \/ Attributes
  PROVE  StreamsInv'
<1>1. CASE Forget
  BY <1>1, NoStreams DEF Forget, FreshStreams
<1>2. CASE Construct \/ MeasureDirectory \/ Measure \/ FillIn \/ FillInFails \/ Attributes
  <2>1. Unread /\ ads' = ads /\ pc' \in Normalising \cup {"attributes", "open"}
    BY <1>2 DEF Unread, Normalising, Construct, MeasureDirectory, Measure, FillIn, FillInFails, Attributes
  <2>2. ads.named = 0 /\ ads.array = FALSE /\ ads.count = 0
    BY <2>1 DEF StreamsInv, ArrayNeeded, Unread, Normalising
  <2> QED
    BY <2>1, <2>2, NoStreams DEF Normalising
<1> QED
  BY <1>1, <1>2

LEMMA OpenStreams ==
  ASSUME Typed, StreamsInv, OpenFails \/ OpenSucceeds
  PROVE  StreamsInv'
<1>1. /\ pc = "open" /\ UNCHANGED <<class, path, file, ads>>
      /\ ads.named = 0 /\ ads.array = FALSE /\ ads.count = 0
  BY DEF OpenFails, OpenSucceeds, environment, query, StreamsInv, ArrayNeeded, Unread
<1>2. CASE OpenFails
  <2>1. ~disturbed' /\ NamesFile => file.kind = "none"
    BY <1>2, Zenon DEF OpenFails
  <2>2. file.kind = "none" => Expected = 0
    BY DEF Typed, Files, Expected, Tags, Links
  <2>3. pc' = "built" /\ Expected' = Expected /\ NamesFile' = NamesFile
    BY <1>1, <1>2 DEF OpenFails, Expected, NamesFile
  <2> QED
    BY <1>1, <2>1, <2>2, <2>3 DEF StreamsInv, ArrayNeeded, Unread, Normalising, Open
<1>3. CASE OpenSucceeds
  <2>1. CASE pc' = "reparse"
    BY <1>1, <2>1, NoStreams
  <2>2. CASE pc' = "streams"
    <3>1. opened'.streams = Expected'
      BY <1>1, <1>3, <2>2 DEF OpenSucceeds, Expected
    <3> QED
      BY <1>1, <2>2, <3>1 DEF StreamsInv, ArrayNeeded, Unread, Normalising, Open
  <2> QED
    BY <1>3, <2>1, <2>2 DEF OpenSucceeds
<1> QED
  BY <1>2, <1>3

LEMMA ReadStreams ==
  ASSUME StreamsInv, ReparseInv, GetReparsePoint \/ GetReparsePointFails \/ NoReparsePoint
  PROVE  StreamsInv'
<1>1. pc = "reparse" /\ pc' = "close" /\ class' = class /\ ads' = ads /\ class = "CReparsePoint"
  BY DEF GetReparsePoint, GetReparsePointFails, NoReparsePoint, query, ReparseInv
<1> QED
  BY <1>1 DEF StreamsInv, ArrayNeeded, Unread, Normalising, Open

LEMMA QueryingStreams ==
  ASSUME Typed, StreamsInv, QueryStreams \/ QueryStreamsFails
  PROVE  StreamsInv'
<1>1. /\ pc = "streams" /\ UNCHANGED <<class, path, file, opened>>
      /\ ads.named = 0 /\ ads.array = FALSE /\ ads.count = 0 /\ ads \in Streams
      /\ Expected' = Expected
  BY DEF Typed, QueryStreams, QueryStreamsFails, StreamsInv, ArrayNeeded, Unread, Normalising, Open,
         environment, query, Expected
<1>2. ads'.named = 0 /\ ads'.array = FALSE /\ ads'.count = 0 /\ ads'.size = ads.size + 1
  BY <1>1 DEF QueryStreams, QueryStreamsFails, Streams
<1>3. CASE QueryStreams
  <2>1. /\ pc' = IF opened.streams <= ads'.size * StreamsPerIncrement THEN "count" ELSE "streams"
        /\ disturbed' = disturbed
    BY <1>2, <1>3 DEF QueryStreams
  <2> QED
    BY <1>1, <1>2, <2>1 DEF StreamsInv, ArrayNeeded, Unread, Normalising, Open
<1>4. CASE QueryStreamsFails
  BY <1>1, <1>2, <1>4 DEF QueryStreamsFails, StreamsInv, ArrayNeeded, Unread, Normalising, Open
<1> QED
  BY <1>3, <1>4

LEMMA CountingStreams ==
  ASSUME Typed, StreamsInv, CountStreams
  PROVE  StreamsInv'
<1> SUFFICES ASSUME NEW m, m = ads.size * StreamsPerIncrement PROVE StreamsInv'
  OBVIOUS
<1>1. /\ pc = "count" /\ pc' = "close" /\ UNCHANGED <<class, path, file, opened, disturbed>>
      /\ ads' = [ads EXCEPT !.count = Min({opened.streams, m})]
      /\ ads.named = 0 /\ ads.array = FALSE /\ ads \in Streams /\ opened.streams \in Nat
      /\ Expected' = Expected /\ opened.streams <= m /\ (~disturbed => opened.streams = Expected)
  BY DEF Typed, CountStreams, StreamsInv, ArrayNeeded, Unread, Normalising, Open, environment, query, Expected, Files
<1>2. m \in Nat
  BY <1>1, QueryAssumption DEF Streams
<1>3. ads'.named = 0 /\ ads'.array = FALSE /\ ads'.count = opened.streams
  BY <1>1, <1>2, MinTwo DEF Streams
<1> QED
  BY <1>1, <1>3 DEF StreamsInv, ArrayNeeded, Unread, Normalising, Open

LEMMA CloseStreams ==
  ASSUME Typed, FileInv, StreamsInv, CloseFile
  PROVE  StreamsInv'
<1>1. /\ pc = "close" /\ UNCHANGED <<class, ads, path, disturbed>>
      /\ pc' = (IF ads.count # 0 THEN "names" ELSE "built")
      /\ file' = (IF DeleteOnClose THEN NoFile ELSE file)
      /\ ads.named = 0 /\ ads.array = FALSE /\ ads.count \in Nat
      /\ class = "CAlternateDataStreams" /\ NamesFile /\ ~disturbed => ads.count = Expected
  BY DEF Typed, Streams, CloseFile, query, StreamsInv, ArrayNeeded, Unread, Normalising, Open
<1>2. ~disturbed => file' = file
  <2>1. ~disturbed => attr = file.kind /\ file.kind \in Kinds
    BY <1>1 DEF FileInv, Open, Typed, Files
  <2> QED
    BY <1>1, <2>1 DEF DeleteOnClose, Kinds, Tags, Links
<1> QED
  BY <1>1, <1>2 DEF StreamsInv, ArrayNeeded, Unread, Normalising, Open, Expected, NamesFile

LEMMA NamesStreams ==
  ASSUME Typed, StreamsInv, RetrieveName \/ RetrieveNamesFails
  PROVE  StreamsInv'
<1>1. pc = "names" /\ ads \in Streams /\ ads.named < ads.count /\ ads.named \in Nat /\ ads.count \in Nat
  BY DEF Typed, RetrieveName, RetrieveNamesFails, StreamsInv, Streams
<1>2. CASE RetrieveName
  <2>1. /\ ads'.named = ads.named + 1 /\ ads'.array = TRUE /\ ads'.count = ads.count
        /\ UNCHANGED <<class, path, file, disturbed>>
        /\ pc' = IF ads.named + 1 < ads.count THEN "names" ELSE "built"
    BY <1>1, <1>2 DEF RetrieveName, Streams, environment, query
  <2> QED
    BY <1>1, <2>1 DEF StreamsInv, ArrayNeeded, Unread, Normalising, Open, Expected, NamesFile
<1>3. CASE RetrieveNamesFails
  <2>1. ads'.named = 0 /\ ads'.array = FALSE /\ ads'.count = 0 /\ pc' = "built" /\ disturbed' = TRUE
    BY <1>1, <1>3 DEF RetrieveNamesFails, Streams
  <2> QED
    BY <2>1 DEF StreamsInv, ArrayNeeded, Unread, Normalising, Open
<1> QED
  BY <1>2, <1>3

LEMMA InterfereStreams ==
  ASSUME Typed, StreamsInv, Interfere
  PROVE  StreamsInv'
<1>1. /\ UNCHANGED <<pc, class, ads>> /\ disturbed' = TRUE
      /\ pc # "streams" => opened' = opened
  BY DEF Interfere, query
<1> QED
  BY <1>1 DEF StreamsInv, ArrayNeeded, Unread, Normalising, Open

LEMMA NextStreams == Typed /\ FileInv /\ ReparseInv /\ StreamsInv /\ [Next]_vars => StreamsInv'
<1> SUFFICES ASSUME Typed, FileInv, ReparseInv, StreamsInv, [Next]_vars PROVE StreamsInv'
  OBVIOUS
<1>1. CASE UNCHANGED vars
  BY <1>1 DEF vars, environment, query, StreamsInv, ArrayNeeded, Unread, Normalising, Open, Expected, NamesFile
<1>2. CASE Next
  BY <1>2, EarlyStreams, OpenStreams, ReadStreams, QueryingStreams, CountingStreams, CloseStreams,
     NamesStreams, InterfereStreams DEF Next, Constructor, Throw, Destroy
<1> QED
  BY <1>1, <1>2

-----------------------------------------------------------------------------
(* What the queries can be relied on for                                     *)

LEMMA InitQueryInv == Init => QueryInv
<1> SUFFICES ASSUME Init PROVE QueryInv
  OBVIOUS
<1>1. /\ pc = "idle" /\ class = "CReparsePoint" /\ path = NoPath
      /\ rp = FreshReparsePoint /\ ads = FreshStreams
  BY DEF Init
<1>2. BufferInv
  BY <1>1, FreshBuffers
<1>3. FileInv
  BY <1>1 DEF FileInv, Open
<1>4. ReparseInv
  BY <1>1 DEF ReparseInv, Unread, PrintedInitialised, IdOfReparsePoint, ResultTruthful, FreshReparsePoint, Links
<1>5. StreamsInv
  BY <1>1 DEF StreamsInv, ArrayNeeded, Unread, Normalising, Open, FreshStreams
<1> QED
  BY <1>2, <1>3, <1>4, <1>5, InitTyped DEF QueryInv

LEMMA NextQueryInv == QueryInv /\ [Next]_vars => QueryInv'
BY NextTyped, NextBuffers, NextFile, NextReparse, NextStreams DEF QueryInv

(* Whatever path and names are put into a CVerySimpleBuf, they fit and end in*)
(* a zero, and a path is cut down to the bare prefix only in the two ways    *)
(* that are known (normalizePath_, cacheValues_), for paths of any length.   *)
THEOREM AllBuffersFit == Spec => []BuffersFit
<1>1. QueryInv => BuffersFit
  <2> SUFFICES ASSUME QueryInv PROVE TypeOK
    BY DEF QueryInv, BufferInv, BuffersFit
  <2>1. /\ path.buf \in Buffer /\ path.what \in {"null", "raw", "full", "prefix"}
        /\ {ads.size, ads.count, ads.named} \subseteq Nat
        /\ rp.tag \in Tags \cup {"0"} /\ {rp.print, rp.subst, rp.canonical} \subseteq Buffer
    BY DEF QueryInv, Typed, Path, ReparsePoint, Streams
  <2>2. /\ rp.error \in BOOLEAN /\ rp.guid \in BOOLEAN /\ rp.id \in FileIds
        /\ {ads.buffer, ads.array} \subseteq BOOLEAN
    BY Zenon DEF QueryInv, Typed, ReparsePoint, Streams
  <2> QED
    BY <2>1, <2>2 DEF QueryInv, Typed, TypeOK, Classes
<1> QED
  BY <1>1, InitQueryInv, NextQueryInv, PTL DEF Spec

(* What showReparsePoint says of a file is so unless somebody has interfered *)
(* or a call failed without reason, and all it prints of a link was read     *)
(* (lookfs.cpp:283-361), for any sequence of queries.                        *)
THEOREM ShownAsIs == Spec => []ShownTruthfully
<1>1. QueryInv => ShownTruthfully
  BY DEF QueryInv, ReparseInv, ShownTruthfully, LinksHaveNames
<1> QED
  BY <1>1, InitQueryInv, NextQueryInv, PTL DEF Spec

(* The list of streams is that of the file, with all the names or with none, *)
(* wherever an allocation throws (cacheStreams_, retrieveNames_).            *)
THEOREM AllStreamsListed == Spec => []StreamsListed
<1>1. QueryInv => StreamsListed
  <2> SUFFICES ASSUME QueryInv PROVE StreamsListed
    OBVIOUS
  <2>1. StreamsTruthful
    BY DEF QueryInv, StreamsInv, StreamsTruthful, Expected
  <2>2. pc = "built" => ads.named = ads.count
    BY DEF QueryInv, StreamsInv
  <2>3. pc = "built" =>
          (ads.count > 0 /\ ads.array = TRUE) \/ (~(ads.count > 0) /\ ads.array = FALSE)
    BY <2>2 DEF QueryInv, StreamsInv, ArrayNeeded
  <2>4. CASE ads.count > 0
    BY <2>1, <2>2, <2>3, <2>4 DEF StreamsListed, StreamsAllOrNone
  <2>5. CASE ~(ads.count > 0)
    <3>1. (ads.count > 0) = FALSE
      <4>1. ads.count \in Nat
        BY DEF QueryInv, Typed, Streams
      <4> QED
        BY <2>5, <4>1, SMT
    <3> QED
      BY <2>1, <2>2, <2>3, <2>5, <3>1, Zenon DEF StreamsListed, StreamsAllOrNone
  <2> QED
    BY <2>4, <2>5
<1> QED
  BY <1>1, InitQueryInv, NextQueryInv, PTL DEF Spec

(* A query never deletes the file, though FILE_FLAG_DELETE_ON_CLOSE is among *)
(* the flags whenever the attributes could not be read                       *)
(* (AlternateDataStreams.hpp:258), unless a call failed without reason.      *)
THEOREM FileLeftAlone == Spec => QueryLeavesFileAlone
<1>1. QueryInv /\ [Next]_vars => [file' # file => disturbed']_vars
  <2> SUFFICES ASSUME QueryInv, Next, file' # file PROVE disturbed'
    OBVIOUS
  <2>1. CASE Interfere
    BY <2>1 DEF Interfere
  <2>2. CASE CloseFile
    <3>1. attr = "invalid" /\ pc = "close" /\ disturbed' = disturbed
      BY <2>2 DEF CloseFile, DeleteOnClose
    <3>2. file.kind # "invalid"
      BY DEF QueryInv, Typed, Files, Kinds, Tags, Links
    <3> QED
      BY <3>1, <3>2 DEF QueryInv, FileInv, Open
  <2>3. CASE ~Interfere /\ ~CloseFile
    BY <2>3 DEF Next, Constructor, Throw, Destroy, Construct, MeasureDirectory, Measure, FillIn,
       FillInFails, Attributes, OpenFails,
       OpenSucceeds, GetReparsePoint, GetReparsePointFails, NoReparsePoint, QueryStreams,
       QueryStreamsFails, CountStreams, RetrieveName, RetrieveNamesFails, environment
  <2> QED
    BY <2>1, <2>2, <2>3
<1> QED
  BY <1>1, InitQueryInv, NextQueryInv, PTL DEF Spec, QueryLeavesFileAlone
=================================================================================
