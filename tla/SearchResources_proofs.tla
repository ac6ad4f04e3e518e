------------------------ MODULE SearchResources_proofs ------------------------
(***************************************************************************)
(* Proofs about SearchResources, for all paths, names and depths.  Who     *)
(* owns what depends on the point in the call, which mask is searched for  *)
(* on where the path came from; IndInv ties both to pc.                    *)
(***************************************************************************)
EXTENDS SearchResources, SequenceTheorems, FiniteSetTheorems, TLAPS

(* A stack without its top.                                                  *)
LEMMA Shorter ==
  ASSUME NEW S, NEW s \in Seq(S), s # <<>>
  PROVE  LET t == SubSeq(s, 1, Len(s) - 1)
         IN  /\ t \in Seq(S) /\ Len(t) = Len(s) - 1
             /\ \A k \in 1..Len(t) : t[k] = s[k] /\ k \in 1..Len(s)
<1>1. Len(s) \in Nat /\ Len(s) >= 1
  OBVIOUS
<1>2. \A k \in 1..Len(s) - 1 : s[k] \in S /\ k \in 1..Len(s)
  BY <1>1
<1>3. Len(s) - 1 \in Int /\ 1 \in Int
  BY <1>1
<1>4. /\ SubSeq(s, 1, Len(s) - 1) \in Seq(S)
      /\ Len(SubSeq(s, 1, Len(s) - 1)) = IF 1 <= Len(s) - 1 THEN (Len(s) - 1) - 1 + 1 ELSE 0
      /\ \A k \in 1..(Len(s) - 1) - 1 + 1 : SubSeq(s, 1, Len(s) - 1)[k] = s[1 + k - 1]
  BY <1>2, <1>3, SubSeqProperties
<1>5. Len(SubSeq(s, 1, Len(s) - 1)) = Len(s) - 1
  <2>1. ASSUME NEW n \in Nat, NEW m, n >= 1, m = IF 1 <= n - 1 THEN (n - 1) - 1 + 1 ELSE 0
        PROVE  m = n - 1
    BY <2>1
  <2>2. Len(SubSeq(s, 1, Len(s) - 1)) = IF 1 <= Len(s) - 1 THEN (Len(s) - 1) - 1 + 1 ELSE 0
    BY <1>4
  <2> QED
    BY <1>1, <2>1, <2>2
<1>6. ASSUME NEW k \in 1..Len(s) - 1
      PROVE  SubSeq(s, 1, Len(s) - 1)[k] = s[k]
  <2>1. k \in 1..(Len(s) - 1) - 1 + 1 /\ 1 + k - 1 = k
    BY <1>1
  <2> QED
    BY <1>4, <2>1
<1> QED
  BY <1>2, <1>4, <1>5, <1>6

Running == pc \in {"parent", "convert", "part", "open", "init"}

(* The strings a call holds at each of its points.                           *)
HeldInv ==
  /\ pc \in {"idle", "parent", "convert", "first"} => held = 0
  /\ pc = "part" => held = IF sub THEN 2 ELSE 1
  /\ pc \in {"open", "init"} => held = 2
  /\ live >= held

(* Only a path relative to the current directory has its buffer moved.       *)
InteriorInv ==
  /\ interior => MayBeRelative /\ ~sub
  /\ pc = "convert" => ~interior

(* Where the path of a call comes from.                                      *)
PathInv ==
  /\ Running /\ sub =>
       /\ handles # <<>>
       /\ \E name \in SubNames : path = <<name, BS, Top>>
  /\ Running /\ ~sub => path \in RootPaths /\ handles = <<>>
  /\ pc = "parent" => sub
  /\ pc = "convert" => ~sub
  /\ pc \in {"open", "init"} => ~EndsInSlash
  /\ pc = "first" => handles # <<>>

(* Masks that have been shortened once are not shortened again.              *)
Shortened == {"*", "f"}
MaskInv == handles \in Seq(Shortened) /\ SameMaskAtAllLevels

IndInv == TypeOK /\ DirectoriesOwned /\ HeldInv /\ InteriorInv /\ PathInv /\ MaskInv

-----------------------------------------------------------------------------
(* Lemmas about paths and masks                                              *)

LEMMA ShortenedTwice == \A m \in Shortened : Compressed(m) = m
  BY DEF Shortened, Compressed

LEMMA ShortenedOnce == \A m \in Masks : Compressed(m) \in Shortened
  BY DEF Shortened, Compressed, Masks

LEMMA ShortenedIsMask == Shortened \subseteq Masks /\ \A m \in Masks : m # BS
  BY DEF Shortened, Masks, BS

(* The path of a subdirectory has three parts, of which the second is the    *)
(* only backslash.                                                           *)
LEMMA SubdirectoryPath ==
  ASSUME NEW name \in SubNames, NEW mask \in Masks, path = <<name, BS, mask>>
  PROVE  path \in Seq(Parts) /\ Len(path) = 3 /\ Count = 1 /\ ~EndsInSlash
<1>1. name \in Parts /\ name # BS /\ mask \in Parts /\ mask # BS /\ BS \in Parts
  BY PathsAssumption, ShortenedIsMask DEF Parts
<1>2. path \in Seq(Parts) /\ Len(path) = 3 /\ path[1] = name /\ path[2] = BS /\ path[3] = mask
  BY <1>1
<1>3. ~EndsInSlash
  BY <1>1, <1>2 DEF EndsInSlash
<1>4. Slashes = {2}
  BY <1>1, <1>2 DEF Slashes
<1>5. Count = 1
  <2>1. Cardinality(Slashes) = 1
    BY <1>4, FS_Singleton
  <2>2. path[1] # BS
    BY <1>1, <1>2
  <2> QED
    BY <2>1, <2>2 DEF Count
<1> QED
  BY <1>2, <1>3, <1>5

LEMMA RootPath ==
  ASSUME NEW p \in RootPaths
  PROVE  p \in Seq(Parts) /\ Len(p) \in Nat /\ Len(p) >= 1 /\ p[Len(p)] \in Masks \cup {BS}
  BY PathsAssumption

LEMMA TopType ==
  ASSUME NEW S, handles \in Seq(S), handles # <<>>
  PROVE  Top \in S /\ Len(handles) \in Nat /\ Len(handles) >= 1
<1>1. Len(handles) \in Nat /\ Len(handles) >= 1
  OBVIOUS
<1> QED
  BY <1>1 DEF Top

LEMMA EmptySequence == \A S : <<>> \in Seq(S) /\ Len(<<>>) = 0
  OBVIOUS

-----------------------------------------------------------------------------
LEMMA InitIndInv == Init => IndInv
<1> SUFFICES ASSUME Init PROVE IndInv
  OBVIOUS
<1>1. TypeOK
  <2>1. path \in Seq(Parts) /\ handles \in Seq(Masks)
    BY EmptySequence DEF Init
  <2>2. /\ pc = "idle" /\ sub = FALSE /\ interior = FALSE
        /\ held = 0 /\ live = 0 /\ directories = 0 /\ damaged = FALSE
    BY DEF Init
  <2>3. sub \in BOOLEAN /\ interior \in BOOLEAN /\ damaged \in BOOLEAN
    BY <2>2, Zenon
  <2>4. held \in 0..2 /\ live \in Nat /\ directories \in Nat
    BY <2>2
  <2> QED
    BY <2>1, <2>2, <2>3, <2>4, Zenon DEF TypeOK
<1>2. DirectoriesOwned /\ HeldInv /\ InteriorInv
  BY DEF Init, DirectoriesOwned, HeldInv, InteriorInv
<1>3. PathInv
  BY DEF Init, PathInv, Running
<1>4. MaskInv
  BY DEF Init, MaskInv, SameMaskAtAllLevels
<1> QED
  BY <1>1, <1>2, <1>3, <1>4 DEF IndInv

(* A step that opens nothing, closes nothing and keeps path and masks.       *)
LEMMA SameMasks ==
  ASSUME MaskInv, UNCHANGED handles
  PROVE  MaskInv'
  BY DEF MaskInv, SameMaskAtAllLevels

(* A call that fails frees some of what it holds.                            *)
LEMMA FailKeeps ==
  ASSUME IndInv, Running, NEW n \in 0..held, NEW b \in BOOLEAN, Fail(n, b),
         directories' = Len(handles),
         interior /\ b => n >= 1
  PROVE  IndInv'
<1>1. TypeOK'
  BY DEF IndInv, TypeOK, HeldInv, Fail, locals
<1>2. DirectoriesOwned'
  BY DEF Fail, DirectoriesOwned, IndInv, TypeOK
<1>3. HeldInv'
  BY DEF Fail, HeldInv, IndInv, TypeOK
<1>4. InteriorInv'
  BY DEF Fail, InteriorInv, IndInv, locals, MayBeRelative, Slashes
<1>5. PathInv'
  BY DEF Fail, PathInv, Running
<1>6. MaskInv'
  BY SameMasks DEF Fail, IndInv
<1> QED
  BY <1>1, <1>2, <1>3, <1>4, <1>5, <1>6 DEF IndInv

-----------------------------------------------------------------------------
(* The steps, one lemma for each point at which something is done            *)

LEMMA OpenRootKeeps == ASSUME IndInv, OpenRoot PROVE IndInv'
<1> PICK p \in RootPaths : Begin(p, FALSE)
  BY DEF OpenRoot
<1>1. /\ pc = "idle" /\ pc' = "convert" /\ handles = <<>> /\ held = 0
      /\ path' = p /\ sub' = FALSE /\ interior' = FALSE /\ held' = 0
      /\ UNCHANGED <<live, directories, handles, damaged>>
  BY DEF OpenRoot, Begin, IndInv, HeldInv
<1>2. TypeOK'
  BY <1>1, RootPath DEF IndInv, TypeOK
<1>3. DirectoriesOwned' /\ HeldInv'
  BY <1>1 DEF IndInv, DirectoriesOwned, HeldInv
<1>4. InteriorInv' /\ PathInv'
  BY <1>1 DEF InteriorInv, PathInv, Running
<1>5. MaskInv'
  BY <1>1, SameMasks DEF IndInv
<1> QED
  BY <1>2, <1>3, <1>4, <1>5 DEF IndInv

LEMMA OpenSubdirectoryKeeps == ASSUME IndInv, OpenSubdirectory PROVE IndInv'
<1> PICK name \in SubNames : Begin(<<name, BS, Top>>, TRUE)
  BY DEF OpenSubdirectory
<1>1. /\ pc = "idle" /\ pc' = "parent" /\ handles # <<>> /\ held = 0
      /\ path' = <<name, BS, Top>> /\ sub' = TRUE /\ interior' = FALSE /\ held' = 0
      /\ UNCHANGED <<live, directories, handles, damaged>>
  BY DEF OpenSubdirectory, Begin, IndInv, HeldInv
<1>2. Top \in Masks
  BY <1>1, TopType DEF IndInv, TypeOK
<1>3. path' \in Seq(Parts)
  BY <1>1, <1>2 DEF Parts
<1>4. TypeOK'
  BY <1>1, <1>3 DEF IndInv, TypeOK
<1>5. DirectoriesOwned' /\ HeldInv'
  BY <1>1 DEF IndInv, DirectoriesOwned, HeldInv
<1>6. InteriorInv'
  BY <1>1 DEF InteriorInv
<1>7. PathInv'
  <2>1. path' = <<name, BS, Top'>>
    BY <1>1 DEF Top
  <2> QED
    BY <1>1, <2>1 DEF PathInv, Running
<1>8. MaskInv'
  BY <1>1, SameMasks DEF IndInv
<1> QED
  BY <1>4, <1>5, <1>6, <1>7, <1>8 DEF IndInv

LEMMA FailuresKeep ==
  ASSUME IndInv, ParentFails \/ ConvertFails \/ PartFails \/ OpenFails \/ InitFails
  PROVE  IndInv'
<1>1. /\ Len(handles) \in Nat /\ held \in Nat
      /\ directories = Len(handles) + (IF pc = "init" THEN 1 ELSE 0)
  BY DEF IndInv, TypeOK, DirectoriesOwned
<1>2. CASE ParentFails \/ ConvertFails
  <2>1. Running
    BY <1>2 DEF ParentFails, ConvertFails, Running
  <2>2. Fail(0, FALSE)
    BY <1>2 DEF ParentFails, ConvertFails
  <2>3. directories' = Len(handles)
    <3>1. directories' = directories /\ pc # "init"
      BY <1>2, Zenon DEF ParentFails, ConvertFails
    <3> QED
      BY <1>1, <3>1
  <2>4. 0 \in 0..held /\ FALSE \in BOOLEAN
    BY <1>1
  <2> QED
    BY <2>1, <2>2, <2>3, <2>4, FailKeeps
<1>3. CASE PartFails
  <2>1. Running
    BY <1>3 DEF PartFails, Running
  <2>2. Fail(1, TRUE)
    BY <1>3 DEF PartFails
  <2>3. directories' = Len(handles)
    BY <1>1, <1>3 DEF PartFails
  <2>4. 1 \in 0..held /\ TRUE \in BOOLEAN /\ 1 >= 1
    BY <1>1, <1>3 DEF PartFails, IndInv, HeldInv
  <2> QED
    BY <2>1, <2>2, <2>3, <2>4, FailKeeps
<1>4. CASE OpenFails \/ InitFails
  <2>1. Running
    BY <1>4 DEF OpenFails, InitFails, Running
  <2>2. Fail(2, TRUE)
    BY <1>4 DEF OpenFails, InitFails
  <2>3. directories' = Len(handles)
    <3>1. CASE OpenFails
      BY <1>1, <3>1 DEF OpenFails
    <3>2. CASE InitFails
      BY <1>1, <3>2 DEF InitFails
    <3> QED
      BY <1>4, <3>1, <3>2
  <2>4. 2 \in 0..held /\ TRUE \in BOOLEAN /\ 2 >= 1
    <3>1. held = 2
      BY <1>4 DEF OpenFails, InitFails, IndInv, HeldInv
    <3> QED
      BY <3>1
  <2> QED
    BY <2>1, <2>2, <2>3, <2>4, FailKeeps
<1> QED
  BY <1>2, <1>3, <1>4

(* A step of a call that neither ends it nor changes its path, nor which     *)
(* find handles there are: only strings and the directory handle are left.   *)
LEMMA GoingOn ==
  ASSUME IndInv, Running, Running',
         UNCHANGED <<path, sub, handles>>,
         pc' \notin {"parent", "convert"},
         pc' \in {"open", "init"} => ~EndsInSlash
  PROVE  PathInv' /\ MaskInv'
<1>1. PathInv'
  <2>1. EndsInSlash' = EndsInSlash /\ Top' = Top
    BY DEF EndsInSlash, Top
  <2> QED
    BY <2>1 DEF IndInv, PathInv, Running
<1>2. MaskInv'
  BY SameMasks DEF IndInv
<1> QED
  BY <1>1, <1>2

LEMMA SplitKeeps == ASSUME IndInv, ParentSplit PROVE IndInv'
<1>1. TypeOK' /\ DirectoriesOwned' /\ HeldInv'
  BY DEF ParentSplit, locals, IndInv, TypeOK, DirectoriesOwned, HeldInv, PathInv
<1>2. InteriorInv'
  BY DEF ParentSplit, locals, IndInv, InteriorInv, MayBeRelative, Slashes
<1>3. PathInv' /\ MaskInv'
  BY GoingOn DEF ParentSplit, locals, Running
<1> QED
  BY <1>1, <1>2, <1>3 DEF IndInv

LEMMA ConvertKeeps == ASSUME IndInv, Convert PROVE IndInv'
<1> PICK relative \in BOOLEAN :
      (relative => MayBeRelative) /\ interior' = (relative /\ ~EndsInSlash)
  BY DEF Convert
<1>1. TypeOK' /\ DirectoriesOwned' /\ HeldInv'
  BY DEF Convert, IndInv, TypeOK, DirectoriesOwned, HeldInv, PathInv
<1>2. InteriorInv'
  BY DEF Convert, IndInv, InteriorInv, PathInv, MayBeRelative, Slashes
<1>3. PathInv' /\ MaskInv'
  BY GoingOn DEF Convert, Running
<1> QED
  BY <1>1, <1>2, <1>3 DEF IndInv

LEMMA PartKeeps == ASSUME IndInv, PartCreated \/ OpenSucceeds PROVE IndInv'
<1>1. TypeOK' /\ DirectoriesOwned' /\ HeldInv'
  BY DEF PartCreated, OpenSucceeds, locals, IndInv, TypeOK, DirectoriesOwned, HeldInv
<1>2. InteriorInv'
  BY DEF PartCreated, OpenSucceeds, locals, IndInv, InteriorInv, MayBeRelative, Slashes
<1>3. PathInv' /\ MaskInv'
  BY GoingOn DEF PartCreated, OpenSucceeds, locals, Running, IndInv, PathInv
<1> QED
  BY <1>1, <1>2, <1>3 DEF IndInv

LEMMA CrashKeeps == ASSUME IndInv, NoFilePart PROVE IndInv'
<1>1. TypeOK' /\ DirectoriesOwned' /\ HeldInv'
  BY DEF NoFilePart, locals, IndInv, TypeOK, DirectoriesOwned, HeldInv
<1>2. InteriorInv' /\ PathInv'
  BY DEF NoFilePart, locals, IndInv, InteriorInv, MayBeRelative, Slashes, PathInv, Running
<1>3. MaskInv'
  BY SameMasks DEF NoFilePart, IndInv
<1> QED
  BY <1>1, <1>2, <1>3 DEF IndInv

(* The mask of the path is the one of the search above, if there is one.     *)
LEMMA MaskOfPath ==
  ASSUME IndInv, pc = "init"
  PROVE  LET mask == Compressed(path[Len(path)])
         IN  mask \in Shortened /\ (handles # <<>> => mask = Top)
<1>1. CASE sub
  <2>1. PICK name \in SubNames : path = <<name, BS, Top>>
    BY <1>1 DEF IndInv, PathInv, Running
  <2>2. Top \in Shortened
    BY <1>1, TopType DEF IndInv, PathInv, Running, MaskInv
  <2>3. path[Len(path)] = Top
    BY <2>1
  <2> QED
    BY <2>2, <2>3, ShortenedTwice
<1>2. CASE ~sub
  <2>1. path \in RootPaths /\ handles = <<>> /\ ~EndsInSlash
    BY <1>2 DEF IndInv, PathInv, Running
  <2>2. path[Len(path)] \in Masks
    BY <2>1, RootPath DEF EndsInSlash
  <2> QED
    BY <2>1, <2>2, ShortenedOnce
<1> QED
  BY <1>1, <1>2 DEF IndInv, TypeOK

LEMMA InitSucceedsKeeps == ASSUME IndInv, InitSucceeds PROVE IndInv'
<1> DEFINE mask == Compressed(path[Len(path)])
<1>1. /\ pc = "init" /\ pc' = "first" /\ held' = 0 /\ handles' = Append(handles, mask)
      /\ UNCHANGED <<path, sub, interior, live, directories, damaged>>
  BY DEF InitSucceeds, locals
<1>2. mask \in Shortened /\ mask \in Masks /\ (handles # <<>> => mask = Top)
  BY <1>1, MaskOfPath, ShortenedIsMask
<1> HIDE DEF mask
<1>3. /\ handles \in Seq(Shortened) /\ handles \in Seq(Masks)
      /\ Len(handles) \in Nat
  BY DEF IndInv, MaskInv, TypeOK
<1>4. /\ handles' \in Seq(Shortened) /\ handles' \in Seq(Masks) /\ handles' # <<>>
      /\ Len(handles') = Len(handles) + 1 /\ handles'[Len(handles) + 1] = mask
      /\ \A k \in 1..Len(handles) : handles'[k] = handles[k]
  BY <1>1, <1>2, <1>3
<1>5. TypeOK' /\ DirectoriesOwned' /\ HeldInv'
  BY <1>1, <1>3, <1>4 DEF IndInv, TypeOK, DirectoriesOwned, HeldInv
<1>6. InteriorInv' /\ PathInv'
  BY <1>1, <1>4 DEF IndInv, InteriorInv, MayBeRelative, Slashes, PathInv, Running
<1>7. MaskInv'
  <2>1. CASE handles = <<>>
    BY <1>3, <1>4, <2>1 DEF MaskInv, SameMaskAtAllLevels
  <2>2. CASE handles # <<>>
    <3>1. Len(handles) >= 1 /\ mask = handles[Len(handles)]
      BY <1>2, <1>3, <2>2 DEF Top
    <3>2. \A k \in 1..Len(handles) : handles[k] = handles[1]
      BY DEF IndInv, MaskInv, SameMaskAtAllLevels
    <3>3. handles'[1] = handles[1] /\ mask = handles[1]
      BY <1>3, <1>4, <3>1, <3>2
    <3>4. \A k \in 1..Len(handles) + 1 : handles'[k] = handles'[1]
      BY <1>3, <1>4, <3>2, <3>3
    <3> QED
      BY <1>4, <3>4 DEF MaskInv, SameMaskAtAllLevels
  <2> QED
    BY <2>1, <2>2
<1> QED
  BY <1>5, <1>6, <1>7 DEF IndInv

LEMMA FreeKeeps == ASSUME IndInv, FreeFindHandle PROVE IndInv'
<1>1. /\ pc \in {"first", "idle"} /\ pc' = "idle" /\ handles # <<>>
      /\ handles' = SubSeq(handles, 1, Len(handles) - 1) /\ directories' = directories - 1
      /\ UNCHANGED <<path, sub, interior, held, live, damaged>>
  BY DEF FreeFindHandle, locals
<1>2. handles \in Seq(Shortened) /\ handles \in Seq(Masks) /\ Len(handles) \in Nat
  BY DEF IndInv, MaskInv, TypeOK
<1>3. /\ handles' \in Seq(Shortened) /\ handles' \in Seq(Masks)
      /\ Len(handles') = Len(handles) - 1 /\ Len(handles) >= 1
      /\ \A k \in 1..Len(handles') : handles'[k] = handles[k] /\ k \in 1..Len(handles)
  BY <1>1, <1>2, Shorter
<1>4. TypeOK' /\ DirectoriesOwned' /\ HeldInv'
  BY <1>1, <1>2, <1>3 DEF IndInv, TypeOK, DirectoriesOwned, HeldInv
<1>5. InteriorInv' /\ PathInv'
  BY <1>1 DEF IndInv, InteriorInv, MayBeRelative, Slashes, PathInv, Running
<1>6. MaskInv'
  <2>1. \A k \in 1..Len(handles) : handles[k] = handles[1]
    BY DEF IndInv, MaskInv, SameMaskAtAllLevels
  <2>2. ASSUME NEW k \in 1..Len(handles')
        PROVE  handles'[k] = handles'[1]
    <3>1. 1 \in 1..Len(handles')
      BY <1>2, <1>3
    <3> QED
      BY <1>3, <2>1, <3>1
  <2> QED
    BY <1>3, <2>2 DEF MaskInv, SameMaskAtAllLevels
<1> QED
  BY <1>4, <1>5, <1>6 DEF IndInv

LEMMA Unchanged == ASSUME IndInv, UNCHANGED vars \/ FirstFound PROVE IndInv'
<1>1. /\ UNCHANGED <<path, sub, interior, held, live, directories, handles, damaged>>
      /\ pc' = pc \/ (pc = "first" /\ pc' = "idle")
  BY DEF vars, locals, FirstFound
<1>2. TypeOK' /\ DirectoriesOwned' /\ HeldInv'
  BY <1>1 DEF IndInv, TypeOK, DirectoriesOwned, HeldInv
<1>3. InteriorInv'
  BY <1>1 DEF IndInv, InteriorInv, MayBeRelative, Slashes
<1>4. PathInv'
  BY <1>1 DEF IndInv, PathInv, Running, EndsInSlash, Top
<1>5. MaskInv'
  BY <1>1, SameMasks DEF IndInv
<1> QED
  BY <1>2, <1>3, <1>4, <1>5 DEF IndInv

LEMMA NextIndInv == IndInv /\ [Next]_vars => IndInv'
<1> SUFFICES ASSUME IndInv, [Next]_vars PROVE IndInv'
  OBVIOUS
<1>1. CASE OpenRoot
  BY <1>1, OpenRootKeeps
<1>2. CASE OpenSubdirectory
  BY <1>2, OpenSubdirectoryKeeps
<1>3. CASE ParentFails \/ ConvertFails \/ PartFails \/ OpenFails \/ InitFails
  BY <1>3, FailuresKeep
<1>4. CASE ParentSplit
  BY <1>4, SplitKeeps
<1>5. CASE Convert
  BY <1>5, ConvertKeeps
<1>6. CASE PartCreated \/ OpenSucceeds
  BY <1>6, PartKeeps
<1>7. CASE NoFilePart
  BY <1>7, CrashKeeps
<1>8. CASE InitSucceeds
  BY <1>8, InitSucceedsKeeps
<1>9. CASE FreeFindHandle
  BY <1>9, FreeKeeps
<1>10. CASE UNCHANGED vars \/ FirstFound \/ Crashed \/ Exhausted
  BY <1>10, Unchanged DEF Crashed, Exhausted
<1> QED
  BY <1>1, <1>2, <1>3, <1>4, <1>5, <1>6, <1>7, <1>8, <1>9, <1>10 DEF Next

LEMMA Inductive == Spec => []IndInv
  BY InitIndInv, NextIndInv, PTL DEF Spec

-----------------------------------------------------------------------------
(* The results                                                               *)

(* Whichever step fails at whatever depth, every open directory handle is    *)
(* that of a find handle or of the call that has just opened it              *)
(* (openDirectoryForSearch_, initFindHandle_, freeFindHandle_).              *)
THEOREM NoDirectoryLost == Spec => []HandlesOwned
<1>1. IndInv => HandlesOwned
  BY DEF IndInv, HandlesOwned
<1> QED
  BY <1>1, Inductive, PTL

(* The name a recursion forms can be taken apart, and the mask that comes of *)
(* it is that of the search above, at every depth (recurseIntoDirectory_,    *)
(* openDirectoryForSearch_).                                                 *)
THEOREM RecursionFindsTheSame == Spec => []RecursionConsistent
<1>1. IndInv => RecursionConsistent
  <2> SUFFICES ASSUME IndInv PROVE RecursionConsistent
    OBVIOUS
  <2>1. ASSUME pc = "parent" PROVE Count = 1 /\ ~EndsInSlash
    <3>1. handles # <<>> /\ \E name \in SubNames : path = <<name, BS, Top>>
      BY <2>1 DEF IndInv, PathInv, Running
    <3>2. Top \in Masks
      BY <3>1, TopType DEF IndInv, TypeOK
    <3> QED
      BY <3>1, <3>2, SubdirectoryPath
  <2> QED
    BY <2>1 DEF IndInv, MaskInv, RecursionConsistent, NameHasOneBackslash
<1> QED
  BY <1>1, Inductive, PTL

LossExplained ==
  Lost' # Lost =>
    \/ Len(handles') < Len(handles) /\ Lost' = Lost + 2
    \/ pc = "part" /\ sub /\ Lost' = Lost + 1
    \/ pc' = "idle" /\ interior /\ Lost' = Lost + 1

(* A failure that frees all that the call holds loses a string only if one   *)
(* of the pointers is not that of a block.                                   *)
LEMMA FailLoses ==
  ASSUME IndInv, NEW n \in 0..held, NEW b \in BOOLEAN, Fail(n, b), n = held
  PROVE  LossExplained
<1>1. /\ handles' = handles /\ held' = 0 /\ pc' = "idle"
      /\ live' = live - (IF interior /\ b THEN n - 1 ELSE n)
  BY DEF Fail
<1>2. live \in Nat /\ held \in Nat /\ Len(handles) \in Nat
  BY DEF IndInv, TypeOK
<1>3. CASE interior /\ b
  BY <1>1, <1>2, <1>3 DEF Lost, LossExplained
<1>4. CASE ~(interior /\ b)
  BY <1>1, <1>2, <1>4 DEF Lost, LossExplained
<1> QED
  BY <1>3, <1>4

LEMMA NextLoses == IndInv /\ [Next]_vars => [LossExplained]_vars
<1> SUFFICES ASSUME IndInv, Next PROVE LossExplained
  BY Zenon
<1>1. /\ live \in Nat /\ held \in Nat /\ Len(handles) \in Nat
      /\ pc \in {"idle", "parent", "convert", "first"} => held = 0
      /\ pc \in {"open", "init"} => held = 2
  BY DEF IndInv, TypeOK, HeldInv
<1>2. CASE OpenRoot \/ OpenSubdirectory
  <2>1. UNCHANGED <<live, handles>> /\ held' = 0 /\ pc = "idle"
    BY <1>2, Zenon DEF OpenRoot, OpenSubdirectory, Begin
  <2> QED
    BY <1>1, <2>1 DEF LossExplained, Lost
<1>3. CASE ParentFails \/ ConvertFails
  <2>1. Fail(0, FALSE) /\ pc \in {"parent", "convert"}
    BY <1>3, Zenon DEF ParentFails, ConvertFails
  <2>2. 0 \in 0..held /\ 0 = held
    BY <1>1, <2>1
  <2> QED
    BY <2>1, <2>2, FailLoses
<1>4. CASE ParentSplit \/ Convert \/ PartCreated
  <2>1. CASE ParentSplit
    BY <1>1, <2>1 DEF ParentSplit, LossExplained, Lost
  <2>2. CASE Convert
    BY <1>1, <2>2 DEF Convert, LossExplained, Lost
  <2>3. CASE PartCreated
    <3>1. pc = "part" /\ held' = 2 /\ live' = live + 1 /\ handles' = handles
      BY <2>3, Zenon DEF PartCreated
    <3>2. CASE sub
      <4>1. held = 2
        BY <3>1, <3>2 DEF IndInv, HeldInv
      <4> QED
        BY <1>1, <3>1, <3>2, <4>1 DEF LossExplained, Lost
    <3>3. CASE ~sub
      <4>1. held = 1
        BY <3>1, <3>3 DEF IndInv, HeldInv
      <4> QED
        BY <1>1, <3>1, <4>1 DEF LossExplained, Lost
    <3> QED
      BY <3>2, <3>3
  <2> QED
    BY <1>4, <2>1, <2>2, <2>3
<1>5. CASE PartFails
  <2>1. pc = "part" /\ Fail(1, TRUE)
    BY <1>5, Zenon DEF PartFails
  <2>2. CASE sub
    <3>1. held = 2 /\ ~interior
      BY <2>1, <2>2 DEF IndInv, HeldInv, InteriorInv
    <3>2. held' = 0 /\ live' = live - 1 /\ handles' = handles
      BY <2>1, <3>1 DEF Fail
    <3> QED
      BY <1>1, <2>1, <2>2, <3>1, <3>2 DEF LossExplained, Lost
  <2>3. CASE ~sub
    <3>1. held = 1
      BY <2>1, <2>3 DEF IndInv, HeldInv
    <3>2. 1 \in 0..held /\ 1 = held
      BY <3>1
    <3> QED
      BY <2>1, <3>2, FailLoses
  <2> QED
    BY <2>2, <2>3
<1>6. CASE OpenFails \/ InitFails
  <2>1. pc \in {"open", "init"} /\ Fail(2, TRUE)
    BY <1>6, Zenon DEF OpenFails, InitFails
  <2>2. 2 \in 0..held /\ 2 = held
    BY <1>1, <2>1
  <2> QED
    BY <2>1, <2>2, FailLoses
<1>7. CASE InitSucceeds
  <2>1. /\ pc = "init" /\ held' = 0 /\ live' = live
        /\ handles' = Append(handles, Compressed(path[Len(path)]))
    BY <1>7, Zenon DEF InitSucceeds
  <2>2. Len(handles') = Len(handles) + 1
    BY <2>1 DEF IndInv, TypeOK
  <2> QED
    BY <1>1, <2>1, <2>2 DEF LossExplained, Lost
<1>8. CASE FreeFindHandle
  <2>1. /\ handles # <<>> /\ handles' = SubSeq(handles, 1, Len(handles) - 1)
        /\ held' = held /\ live' = live
    BY <1>8, Zenon DEF FreeFindHandle
  <2>2. Len(handles') = Len(handles) - 1
    BY <2>1, Shorter DEF IndInv, TypeOK
  <2>3. Lost' = live - held - 2 * (Len(handles) - 1)
    BY <2>1, <2>2 DEF Lost
  <2>4. Lost' = Lost + 2 /\ Len(handles') < Len(handles)
    BY <1>1, <2>2, <2>3 DEF Lost
  <2> QED
    BY <2>4, Zenon DEF LossExplained
<1>9. CASE NoFilePart \/ OpenSucceeds \/ FirstFound \/ Crashed \/ Exhausted
  <2>1. UNCHANGED <<live, held, handles>>
    BY <1>9, Zenon DEF NoFilePart, OpenSucceeds, FirstFound, Crashed, Exhausted, vars
  <2>2. live' - held' - 2 * Len(handles)' = live - held - 2 * Len(handles)
    BY <2>1, Zenon
  <2>3. Lost' = Lost
    BY <2>2, Zenon DEF Lost
  <2> QED
    BY <2>3, Zenon DEF LossExplained
<1>10. \/ OpenRoot \/ OpenSubdirectory \/ ParentFails \/ ConvertFails
       \/ ParentSplit \/ Convert \/ PartCreated \/ PartFails \/ OpenFails \/ InitFails
       \/ InitSucceeds \/ OpenSucceeds \/ FreeFindHandle
       \/ NoFilePart \/ FirstFound \/ Crashed \/ Exhausted
  BY Zenon DEF Next
<1> QED
  BY <1>2, <1>3, <1>4, <1>5, <1>6, <1>7, <1>8, <1>9, <1>10, Zenon

DamageExplained == damaged' # damaged => MayBeRelative /\ ~sub

LEMMA NextDamages == IndInv /\ [Next]_vars => [DamageExplained]_vars
<1> SUFFICES ASSUME IndInv, Next, damaged' # damaged PROVE MayBeRelative /\ ~sub
  BY Zenon DEF DamageExplained
<1>1. \E n \in Nat, b \in BOOLEAN : Fail(n, b)
  BY Zenon DEF Next, Exhausted, OpenRoot, OpenSubdirectory, Begin, ParentFails, ParentSplit,
     ConvertFails, Convert, NoFilePart, Crashed, PartFails, PartCreated, OpenFails,
     OpenSucceeds, InitFails, InitSucceeds, FirstFound, FreeFindHandle, vars
<1>2. interior
  <2>1. PICK n \in Nat, b \in BOOLEAN : damaged' = (damaged \/ (interior /\ b))
    BY <1>1, Zenon DEF Fail
  <2>2. CASE ~interior
    <3>1. damaged' = damaged
      BY <2>1, <2>2 DEF IndInv, TypeOK
    <3> QED
      BY <3>1
  <2> QED
    BY <2>2
<1> QED
  BY <1>2, Zenon DEF IndInv, InteriorInv

(* Strings are lost in the three known ways only, and a pointer that was not *)
(* allocated is freed for no path but one relative to the current directory, *)
(* on whatever paths and to whatever depth (openDirectoryForSearch_,         *)
(* freeFindHandle_).                                                         *)
THEOREM OnlyKnownDamage == Spec => DamageKnown
  BY Inductive, NextLoses, NextDamages, PTL
     DEF Spec, DamageKnown, LossesKnown, AbsoluteIsSafe, LossExplained, DamageExplained
===============================================================================
