---------------------------- MODULE SearchResources ----------------------------
(***************************************************************************)
(* Opening a directory for a search (ntfindfile.c: openDirectoryForSearch_ *)
(* and its callers NativeFindFirstFile and recurseIntoDirectory_): how the *)
(* path is taken apart into a directory and a mask, and who owns the two   *)
(* strings and the directory handle that come of it.                       *)
(*                                                                         *)
(* A path is a sequence of backslashes and names; the last name is the     *)
(* mask.  The find handles in use form a stack: a search in a subdirectory *)
(* is opened relative to the one above it.                                 *)
(***************************************************************************)
EXTENDS Integers, Sequences, FiniteSetsExt

CONSTANTS
  RootPaths,   \* paths given to NativeFindFirstFile or NativeFindFilesZeroCopy
  DirNames,    \* names that lead to the directory in them
  SubNames,    \* names of subdirectories
  MaxHandles,  \* bound on the depth of a recursion
  MaxLost      \* bound on the strings lost on the way

BS == "\\"
Masks == {"*.*", "*.c", "*", "f"}
Parts == DirNames \cup SubNames \cup Masks \cup {BS}

ASSUME PathsAssumption ==
  /\ RootPaths \subseteq Seq(Parts) \ {<<>>}
  /\ \A p \in RootPaths : p[Len(p)] \in Masks \cup {BS}
  /\ BS \notin SubNames
  /\ MaxHandles \in Nat /\ MaxLost \in Nat

VARIABLES
  pc,           \* the point in the running call, "idle" between calls
  path,         \* lpszPathName of the running call
  sub,          \* is it opened relative to the directory above (hParentDir)?
  interior,     \* does usNtPathName.Buffer point into the middle of its block?
  held,         \* strings the running call owns and will free or hand over
  live,         \* strings that are allocated
  directories,  \* directory handles that are open
  handles,      \* the find handles, each given by its mask
  damaged       \* ghost: has a pointer been freed that was not allocated?

locals == <<path, sub, interior>>
vars == <<pc, locals, held, live, directories, handles, damaged>>

Top == handles[Len(handles)]

Init ==
  /\ pc = "idle" /\ path = <<>> /\ sub = FALSE /\ interior = FALSE
  /\ held = 0 /\ live = 0 /\ directories = 0 /\ handles = <<>> /\ damaged = FALSE

TypeOK ==
  /\ pc \in {"idle", "parent", "convert", "part", "open", "init", "first", "crashed"}
  /\ path \in Seq(Parts) /\ sub \in BOOLEAN /\ interior \in BOOLEAN
  /\ held \in 0..2 /\ live \in Nat /\ directories \in Nat
  /\ handles \in Seq(Masks) /\ damaged \in BOOLEAN

-----------------------------------------------------------------------------
(* The calls                                                                 *)

Begin(p, isSub) ==
  /\ path' = p /\ sub' = isSub /\ interior' = FALSE
  /\ held' = 0
  /\ UNCHANGED <<live, directories, handles, damaged>>

OpenRoot ==
  /\ pc = "idle" /\ handles = <<>>
  /\ pc' = "convert"
  /\ \E p \in RootPaths : Begin(p, FALSE)

(* Mutant: every level searches for everything.                              *)
OpenSubdirectoryAll ==
  /\ pc = "idle" /\ handles # <<>> /\ Len(handles) < MaxHandles
  /\ pc' = "parent"
  /\ \E name \in SubNames : Begin(<<name, BS, "*">>, TRUE)

(* lpszSubdirPathName: the subdirectory with the mask of the search above.   *)
OpenSubdirectory ==
  /\ pc = "idle" /\ handles # <<>> /\ Len(handles) < MaxHandles
  /\ pc' = "parent"
  /\ \E name \in SubNames : Begin(<<name, BS, Top>>, TRUE)

(* The call fails having freed n of the strings it holds.  Where it frees    *)
(* usNtPathName, that may be a pointer that was never allocated.             *)
Fail(n, freesNtPath) ==
  /\ pc' = "idle"
  /\ live' = live - (IF interior /\ freesNtPath THEN n - 1 ELSE n)
  /\ held' = 0
  /\ damaged' = (damaged \/ (interior /\ freesNtPath))
  /\ UNCHANGED <<locals, handles>>

-----------------------------------------------------------------------------
(* openDirectoryForSearch_ with a parent directory: the name is scanned from *)
(* its end, a backslash at its very beginning counts twice.  The refusals    *)
(* (:623-637) are for names that no recursion forms, see NameHasOneBackslash.*)

Slashes == {i \in 1..Len(path) : path[i] = BS}
Count == Cardinality(Slashes) + (IF path[1] = BS THEN 1 ELSE 0)
EndsInSlash == path[Len(path)] = BS

(* Neither string could be allocated, or only the first, which is freed.     *)
ParentFails ==
  /\ pc = "parent"
  /\ Fail(0, FALSE)
  /\ UNCHANGED directories

ParentSplit ==
  /\ pc = "parent" /\ ~EndsInSlash /\ Count = 1
  /\ pc' = "part" /\ held' = 2 /\ live' = live + 2
  /\ UNCHANGED <<locals, directories, handles, damaged>>

-----------------------------------------------------------------------------
(* openDirectoryForSearch_ without one                                       *)

(* External: RtlDosPathNameToNtPathName_U.  A path relative to the current   *)
(* directory is reported as such if it has a directory part and the system   *)
(* holds the current directory open.                                         *)
MayBeRelative == path[1] \notin {BS, "C:"} /\ Slashes # {}

ConvertFails ==
  /\ pc = "convert"
  /\ Fail(0, FALSE)
  /\ UNCHANGED directories

(* In relative mode the buffer is moved forward within its block (:663).     *)
(* The directory part ends in a backslash, so the test at :679 never strips  *)
(* anything and the open at :709 is never tried.                             *)
Convert ==
  /\ pc = "convert"
  /\ pc' = "part" /\ held' = 1 /\ live' = live + 1
  /\ \E relative \in BOOLEAN :
       /\ relative => MayBeRelative
       /\ interior' = (relative /\ ~EndsInSlash)
  /\ UNCHANGED <<path, sub, directories, handles, damaged>>

-----------------------------------------------------------------------------
(* openDirectoryForSearch_, what both have in common                         *)

(* There is no file part, and the NULL pointer to it is read (:688).         *)
NoFilePart ==
  /\ pc = "part" /\ EndsInSlash
  /\ pc' = "crashed"
  /\ UNCHANGED <<locals, held, live, directories, handles, damaged>>

Crashed == pc = "crashed" /\ UNCHANGED vars

(* Only usNtPathName is freed; the part name a subdirectory has by now is    *)
(* lost.                                                                     *)
PartFails ==
  /\ pc = "part" /\ ~EndsInSlash
  /\ Fail(1, TRUE)
  /\ UNCHANGED directories

(* The second part name takes the place of the first one of a subdirectory.  *)
PartCreated ==
  /\ pc = "part" /\ ~EndsInSlash
  /\ pc' = "open" /\ held' = 2 /\ live' = live + 1
  /\ UNCHANGED <<locals, directories, handles, damaged>>

(* Mutant: the part name is not freed.                                       *)
OpenFailsLosing ==
  /\ pc = "open"
  /\ Fail(1, TRUE)
  /\ UNCHANGED directories

OpenFails ==
  /\ pc = "open"
  /\ Fail(2, TRUE)
  /\ UNCHANGED directories

OpenSucceeds ==
  /\ pc = "open"
  /\ pc' = "init" /\ directories' = directories + 1
  /\ UNCHANGED <<locals, held, live, handles, damaged>>

(* Four bytes of the mask are compared with "*.*" (:731).                    *)
Compressed(mask) == IF mask \in {"*.*", "*.c"} THEN "*" ELSE mask

(* Mutant: the directory handle is not closed.                               *)
InitFailsLeaks ==
  /\ pc = "init"
  /\ Fail(2, TRUE)
  /\ UNCHANGED directories

(* initFindHandle_ fails, the caller frees what it has.                      *)
InitFails ==
  /\ pc = "init"
  /\ Fail(2, TRUE)
  /\ directories' = directories - 1

InitSucceeds ==
  /\ pc = "init"
  /\ pc' = "first" /\ held' = 0
  /\ handles' = Append(handles, Compressed(path[Len(path)]))
  /\ UNCHANGED <<locals, live, directories, damaged>>

FirstFound ==
  /\ pc = "first"
  /\ pc' = "idle"
  /\ UNCHANGED <<locals, held, live, directories, handles, damaged>>

(* No first entry, or the handle is closed: freeFindHandle_ frees neither of *)
(* its strings.                                                              *)
FreeFindHandle ==
  /\ pc \in {"first", "idle"} /\ handles # <<>>
  /\ pc' = "idle"
  /\ handles' = SubSeq(handles, 1, Len(handles) - 1)
  /\ directories' = directories - 1
  /\ UNCHANGED <<locals, held, live, damaged>>

-----------------------------------------------------------------------------

(* Strings nobody has a pointer to any more.  Bound: no call is begun when   *)
(* MaxLost of them are.                                                      *)
Lost == live - held - 2 * Len(handles)

Exhausted == pc = "idle" /\ handles = <<>> /\ Lost >= MaxLost /\ UNCHANGED vars

Next ==
  \/ Exhausted
  \/ Lost < MaxLost /\ (OpenRoot \/ OpenSubdirectory)
  \/ ParentFails \/ ParentSplit \/ ConvertFails \/ Convert
  \/ NoFilePart \/ Crashed \/ PartFails \/ PartCreated
  \/ OpenFails \/ OpenSucceeds
  \/ InitFails \/ InitSucceeds \/ FirstFound \/ FreeFindHandle

Spec == Init /\ [][Next]_vars

-----------------------------------------------------------------------------
(* Properties                                                                *)

(* Whichever step of opening fails at whatever depth, the open directory     *)
(* handles are those of the find handles, and the one just opened until its  *)
(* find handle is made.                                                      *)
DirectoriesOwned ==
  directories = Len(handles) + (IF pc = "init" THEN 1 ELSE 0)

(* What a call of openDirectoryForSearch_ holds and what its find handles    *)
(* hold is all there is.                                                     *)
HandlesOwned == TypeOK /\ DirectoriesOwned

(* Strings are lost in three ways only: two with each find handle that is    *)
(* freed, one with each subdirectory, and the block of a path relative to    *)
(* the current directory.  A failure to open any other path loses none.      *)
(* The comments promise more: that the string of a subdirectory "will get     *)
(* freed down the call path" (ntfindfile.c:592), and that "it's on the caller *)
(* now to free" both (:740-741), which no caller does.                       *)
LossesKnown ==
  [][Lost' # Lost =>
       \/ Len(handles') < Len(handles) /\ Lost' = Lost + 2
       \/ pc = "part" /\ sub /\ Lost' = Lost + 1
       \/ pc' = "idle" /\ interior /\ Lost' = Lost + 1]_vars

(* A pointer that was not allocated is freed for no path but one relative to *)
(* the current directory: searching absolute paths or subdirectories never   *)
(* damages the heap.  Of such a path every failure frees a pointer into the  *)
(* middle of the block (:663), which :741 leaves to the caller to free.      *)
AbsoluteIsSafe == [][damaged' # damaged => MayBeRelative /\ ~sub]_vars

(* Memory is lost, or damaged, in the ways named above only (freeFindHandle_,*)
(* openDirectoryForSearch_): it is, where the comments say it is not, and    *)
(* this bounds how much.                                                     *)
DamageKnown == LossesKnown /\ AbsoluteIsSafe

(* The name a recursion forms of a subdirectory and the mask (:963-980) is   *)
(* one that openDirectoryForSearch_ takes apart (:598-638), at all depths.   *)
NameHasOneBackslash == pc = "parent" => Count = 1 /\ ~EndsInSlash

(* All levels of a recursion search with the same mask, although each takes  *)
(* it out of its own path and may shorten it.                                *)
SameMaskAtAllLevels == \A i \in 1..Len(handles) : handles[i] = handles[1]

(* A recursion passes on what the next level takes apart again (:942-980).   *)
RecursionConsistent == NameHasOneBackslash /\ SameMaskAtAllLevels
=============================================================================
