-------------------------------- MODULE FileQuery --------------------------------
(***************************************************************************)
(* The two classes that read all there is to know of one file in their     *)
(* constructor: CReparsePoint (ReparsePoint.hpp), with showReparsePoint of *)
(* lookfs.cpp that evaluates it, and CAlternateDataStreams                 *)
(* (AlternateDataStreams.hpp).  Both normalise the path in the same way,   *)
(* read the attributes, open the file and query it; in between the file    *)
(* and the current directory may be changed by others, each call of the    *)
(* system may fail, and each allocation may throw.                         *)
(***************************************************************************)
EXTENDS SimpleBuf

CONSTANTS
  Args,           \* the paths queried, [kind, len]
  CurrentDirs,    \* lengths the name of the current directory may have
  MaxStreams,     \* how many streams a file may have
  StreamsPerIncrement,  \* how many of them dwAllocIncrement bytes describe
  MaxChanges      \* bound on what others change during a query

Prefix == 4       \* wcslen(WIN32_UNICODE_PREFIX)

Links == {"symlink", "mount"}
Tags == Links \cup {"microsoft", "vendor"}
Directories == {"directory", "mount"}
Kinds == {"none", "file", "directory"} \cup Tags

ASSUME QueryAssumption ==
  /\ Args # {} /\ Args \subseteq [kind : {"null", "prefixed", "dot", "plain"}, len : Nat]
  /\ CurrentDirs \subseteq Nat
  /\ MaxStreams \in Nat \ {0} /\ StreamsPerIncrement \in Nat \ {0} /\ MaxChanges \in Nat

VARIABLES
  file,       \* the file named by the path, [kind, streams]
  cwd,        \* length of the current directory's name
  changes,    \* how often others have changed these during the query
  pc,         \* the point in the constructor, "idle" between queries
  class, arg, \* whose constructor, and its argument
  needed,     \* dwNeeded
  path,       \* m_Path, and what it names: [buf, what]
  attr,       \* m_Attr as a kind, "invalid" if it could not be read
  opened,     \* the file that hFile is open for
  rp,         \* members of CReparsePoint
  ads,        \* members of CAlternateDataStreams
  result,     \* what showReparsePoint returns
  disturbed   \* ghost: has anybody interfered, or a call failed without reason?

environment == <<file, cwd, changes>>
query == <<class, arg>>
vars == <<environment, pc, query, needed, path, attr, opened, rp, ads, result, disturbed>>

NoFile == [kind |-> "none", streams |-> 0]
NoPath == [buf |-> Null, what |-> "null"]
Files ==
  { f \in [kind : Kinds, streams : 0..MaxStreams] : f.kind \in Tags \cup {"none"} => f.streams = 0 }

(* m_LastError, m_ReparseTag, the three names; has m_ReparseGuid a value, and*)
(* what is m_FileId made of: the index of the file, its low part replaced by *)
(* the size (:329), or -1 if neither could be read.                          *)
FileIds == {"unset", "index", "size", "failed"}
FreshReparsePoint ==
  [error |-> FALSE, tag |-> "0", print |-> Null, subst |-> Null, canonical |-> Null,
   guid |-> FALSE, id |-> "unset"]

(* m_BufSize in increments; is there a buffer; m_StreamCount; is there an    *)
(* array m_StreamNames, and how many of its elements are not NULL?           *)
FreshStreams == [size |-> 1, buffer |-> FALSE, count |-> 0, array |-> FALSE, named |-> 0]

TypeOK ==
  /\ file \in Files /\ opened \in Files
  /\ cwd \in CurrentDirs /\ changes \in 0..MaxChanges
  /\ pc \in {"idle", "directory", "fillDirectory", "measure", "fill", "attributes", "open",
             "reparse", "streams", "count", "names", "close", "built"}
  /\ class \in {"CReparsePoint", "CAlternateDataStreams"} /\ arg \in Args
  /\ needed \in Nat
  /\ path.buf \in Buffer /\ path.what \in {"null", "raw", "full", "prefix"}
  /\ attr \in Kinds \cup {"invalid"}
  /\ rp.error \in BOOLEAN /\ rp.tag \in Tags \cup {"0"}
  /\ {rp.print, rp.subst, rp.canonical} \subseteq Buffer /\ rp.guid \in BOOLEAN /\ rp.id \in FileIds
  /\ {ads.size, ads.count, ads.named} \subseteq Nat /\ {ads.buffer, ads.array} \subseteq BOOLEAN
  /\ result \in {0, 2, 3} /\ disturbed \in BOOLEAN

SomeArg == CHOOSE a \in Args : TRUE

Init ==
  /\ file \in Files /\ cwd \in CurrentDirs /\ changes = 0
  /\ pc = "idle" /\ class = "CReparsePoint" /\ arg = SomeArg
  /\ needed = 0 /\ path = NoPath /\ attr = "invalid" /\ opened = NoFile
  /\ rp = FreshReparsePoint /\ ads = FreshStreams
  /\ result = 0 /\ disturbed = FALSE

(* The object is gone, or its constructor has thrown; memory it had is       *)
(* freed, a handle it has open is not.                                       *)
Forget ==
  /\ pc' = "idle" /\ class' = "CReparsePoint" /\ arg' = SomeArg
  /\ changes' = 0
  /\ needed' = 0 /\ path' = NoPath /\ attr' = "invalid" /\ opened' = NoFile
  /\ rp' = FreshReparsePoint /\ ads' = FreshStreams
  /\ result' = 0 /\ disturbed' = FALSE

(* An allocation throws, outside of retrieveNames_ out of the constructor.   *)
Throw ==
  /\ pc \in {"directory", "fillDirectory", "measure", "fill", "reparse", "streams"}
  /\ Forget
  /\ UNCHANGED <<file, cwd>>

Interfere ==
  /\ pc \notin {"idle", "built"} /\ changes < MaxChanges
  /\ changes' = changes + 1 /\ disturbed' = TRUE
  /\ \/ file' \in Files /\ UNCHANGED <<cwd, opened>>
     \/ cwd' \in CurrentDirs /\ UNCHANGED <<file, opened>>
     \/ /\ pc = "streams"
        /\ \E n \in 0..MaxStreams : opened' = [opened EXCEPT !.streams = n]
        /\ UNCHANGED <<file, cwd>>
  /\ UNCHANGED <<pc, query, needed, path, attr, rp, ads, result>>

-----------------------------------------------------------------------------
(* normalizePath_, the same in both classes                                  *)

Construct ==
  /\ pc = "idle"
  /\ class' \in {"CReparsePoint", "CAlternateDataStreams"} /\ arg' \in Args
  /\ IF arg'.kind \in {"null", "prefixed"}
     THEN /\ pc' = "attributes"
          /\ path' = IF arg'.kind = "null" THEN NoPath
                     ELSE [buf |-> FromText(arg'.len), what |-> "raw"]
     ELSE /\ pc' = IF arg'.kind = "dot" THEN "directory" ELSE "measure"
          /\ path' = [buf |-> FromText(Prefix), what |-> "null"]
  /\ UNCHANGED <<environment, needed, attr, opened, rp, ads, result, disturbed>>

(* External: GetCurrentDirectory and GetFullPathName, of a name relative to  *)
(* the current directory.  The latter has no name for the empty path.        *)
FullLength == IF arg.kind = "dot" THEN cwd ELSE cwd + 1 + arg.len
HasFullName == arg.kind = "dot" \/ arg.len > 0

(* The call of GetCurrentDirectory that asks for the length, which counts    *)
(* the zero.  When it fails, "." is treated like any other path.             *)
MeasureDirectory ==
  /\ pc = "directory"
  /\ \/ needed' = cwd + 1 /\ pc' = "fillDirectory" /\ UNCHANGED disturbed
     \/ needed' = 0 /\ pc' = "measure" /\ disturbed' = TRUE
  /\ UNCHANGED <<environment, query, path, attr, opened, rp, ads, result>>

(* The same of GetFullPathName, whose failure goes unnoticed.                *)
Measure ==
  /\ pc = "measure"
  /\ \/ needed' = (IF HasFullName THEN FullLength + 1 ELSE 0) /\ UNCHANGED disturbed
     \/ needed' = 0 /\ disturbed' = TRUE
  /\ pc' = "fill"
  /\ UNCHANGED <<environment, query, path, attr, opened, rp, ads, result>>

(* Mutant: nothing is added for the prefix.                                  *)
NormalisedTight == ReAlloc(path.buf, needed)

Normalised ==
  ReAlloc(path.buf, IF pc = "fillDirectory" THEN 1 + needed + path.buf.count
                                            ELSE 1 + needed + arg.len)

(* The second call fills what is left behind the prefix, which the smaller   *)
(* buffer after a failure may have cut.  If that is too small it returns, as *)
(* the first did, a length greater than zero, which the code takes for       *)
(* success.                                                                  *)
FillIn ==
  /\ pc \in {"fillDirectory", "fill"} /\ HasFullName
  /\ LET buf  == Normalised
         fits == FullLength + 1 <= buf.count - buf.len
     IN  path' = [buf  |-> Copy(IF fits THEN Fill(buf, buf.len, FullLength) ELSE buf),
                  what |-> IF fits /\ buf.len = Prefix THEN "full" ELSE "prefix"]
  /\ pc' = "attributes"
  /\ UNCHANGED <<environment, query, needed, attr, opened, rp, ads, result, disturbed>>

(* It fails, and the path is used as it is.                                  *)
FillInFails ==
  /\ pc \in {"fillDirectory", "fill"}
  /\ path' = [buf |-> FromText(arg.len), what |-> "raw"]
  /\ disturbed' = (disturbed \/ HasFullName)
  /\ pc' = "attributes"
  /\ UNCHANGED <<environment, query, needed, attr, opened, rp, ads, result>>

-----------------------------------------------------------------------------
(* What is queried of either file                                            *)

NamesFile == path.what \in {"raw", "full"}

(* External: GetFileAttributes.  A file that exists may not be readable.     *)
Attributes ==
  /\ pc = "attributes"
  /\ \/ /\ attr' = IF NamesFile /\ file.kind # "none" THEN file.kind ELSE "invalid"
        /\ UNCHANGED disturbed
     \/ attr' = "invalid" /\ disturbed' = TRUE
  /\ pc' = "open"
  /\ UNCHANGED <<environment, query, needed, path, opened, rp, ads, result>>

(* Mutant: only links are taken for reparse points.                          *)
isLink == attr \in Links \cup {"invalid"}

(* INVALID_FILE_ATTRIBUTES has every bit set.                                *)
isReparsePoint == attr \in Tags \cup {"invalid"}
isDirectory == attr \in Directories \cup {"invalid"}

OpenFails ==
  /\ pc = "open"
  /\ disturbed' = (disturbed \/ (NamesFile /\ file.kind # "none"))
  /\ rp' = [rp EXCEPT !.error = (class = "CReparsePoint")]
  /\ pc' = "built"
  /\ result' = IF class = "CReparsePoint" THEN 3 ELSE 0
  /\ UNCHANGED <<environment, query, needed, path, attr, opened, ads>>

(* A directory opens for backup semantics only.  CReparsePoint opens a link  *)
(* itself; CAlternateDataStreams what it leads to, here a file of one stream.*)
OpenSucceeds ==
  /\ pc = "open" /\ NamesFile /\ file.kind # "none"
  /\ file.kind \in Directories => isDirectory
  /\ IF class = "CReparsePoint"
     THEN pc' = "reparse" /\ opened' = file /\ rp' = [rp EXCEPT !.guid = TRUE]
     ELSE /\ pc' = "streams" /\ UNCHANGED rp
          /\ opened' = IF file.kind \in Tags THEN [kind |-> "file", streams |-> 1] ELSE file
  /\ UNCHANGED <<environment, query, needed, path, attr, ads, result, disturbed>>

-----------------------------------------------------------------------------
(* CReparsePoint::cacheValues_ and showReparsePoint                          *)

(* A name of n elements is copied to a buffer made for it.                   *)
Name(n) == Fill(ReAlloc(Null, n + 1), 0, n)

(* The file was taken for a reparse point and is one: tag, GUID and, of the  *)
(* two links, the names.  What GetFileInformationByHandle yields is -1 if it *)
(* fails, here and below.                                                    *)
GetReparsePoint ==
  /\ pc = "reparse" /\ isReparsePoint /\ opened.kind \in Tags
  /\ \E substLen \in {0, 5}, id \in {"index", "failed"} :
       LET subst == IF opened.kind \in Links THEN Name(substLen) ELSE Null
       IN  /\ rp' = [rp EXCEPT !.tag = opened.kind, !.id = id, !.subst = subst,
                      !.print = IF opened.kind \in Links THEN Name(3) ELSE Null,
                      !.canonical = IF opened.kind # "vendor" THEN Copy(subst) ELSE Null]
           /\ disturbed' = (disturbed \/ id = "failed")
  /\ pc' = "close"
  /\ UNCHANGED <<environment, query, needed, path, attr, opened, ads, result>>

(* FSCTL_GET_REPARSE_POINT fails, which goes unnoticed.                      *)
GetReparsePointFails ==
  /\ pc = "reparse" /\ isReparsePoint
  /\ \E id \in {"index", "failed"} :
       /\ rp' = [rp EXCEPT !.id = id]
       /\ disturbed' = (disturbed \/ id = "failed" \/ opened.kind \in Tags)
  /\ pc' = "close"
  /\ UNCHANGED <<environment, query, needed, path, attr, opened, ads, result>>

(* The low part of the file id is made from the low part of the size (:329). *)
NoReparsePoint ==
  /\ pc = "reparse" /\ ~isReparsePoint
  /\ \E id \in {"size", "failed"} :
       /\ rp' = [rp EXCEPT !.id = id]
       /\ disturbed' = (disturbed \/ id = "failed")
  /\ pc' = "close"
  /\ UNCHANGED <<environment, query, needed, path, attr, opened, ads, result>>

Shown == IF isReparsePoint THEN 0 ELSE 2

-----------------------------------------------------------------------------
(* CAlternateDataStreams::cacheStreams_ and retrieveNames_                   *)

(* Mutant: a query that overflows is made again from the start.              *)
QueryStreamsReopening ==
  LET enough == opened.streams <= (ads.size + 1) * StreamsPerIncrement
  IN  /\ pc = "streams"
      /\ ads' = [ads EXCEPT !.size = IF enough THEN @ + 1 ELSE 1, !.buffer = enough]
      /\ pc' = IF enough THEN "count" ELSE "open"
      /\ UNCHANGED <<environment, query, needed, path, attr, opened, rp, result, disturbed>>

(* One turn of the loop: a larger buffer, which is or is not large enough.   *)
QueryStreams ==
  /\ pc = "streams"
  /\ ads' = [ads EXCEPT !.size = @ + 1, !.buffer = TRUE]
  /\ pc' = IF opened.streams <= (ads.size + 1) * StreamsPerIncrement THEN "count" ELSE "streams"
  /\ UNCHANGED <<environment, query, needed, path, attr, opened, rp, result, disturbed>>

QueryStreamsFails ==
  /\ pc = "streams"
  /\ disturbed' = TRUE
  /\ ads' = [ads EXCEPT !.size = @ + 1, !.buffer = FALSE]
  /\ pc' = "close"
  /\ UNCHANGED <<environment, query, needed, path, attr, opened, rp, result>>

(* The streams that are described in the buffer.                             *)
CountStreams ==
  /\ pc = "count"
  /\ ads' = [ads EXCEPT !.count = Min({opened.streams, ads.size * StreamsPerIncrement})]
  /\ pc' = "close"
  /\ UNCHANGED <<environment, query, needed, path, attr, opened, rp, result, disturbed>>

(* Mutant: the flag is passed with any attributes.                           *)
DeleteOnAnyClose == class = "CAlternateDataStreams"

(* m_Attr is passed with the flags (:258): when the attributes could not be  *)
(* read all are set, FILE_FLAG_DELETE_ON_CLOSE among them.                   *)
DeleteOnClose == class = "CAlternateDataStreams" /\ attr = "invalid"

CloseFile ==
  /\ pc = "close"
  /\ file' = IF DeleteOnClose THEN NoFile ELSE file
  /\ opened' = NoFile
  /\ pc' = IF ads.count # 0 THEN "names" ELSE "built"
  /\ result' = IF class = "CReparsePoint" THEN Shown ELSE 0
  /\ UNCHANGED <<cwd, changes, query, needed, path, attr, rp, ads, disturbed>>

(* The array is allocated with the first name; each name is a copy.          *)
RetrieveName ==
  /\ pc = "names"
  /\ ads' = [ads EXCEPT !.array = TRUE, !.named = @ + 1]
  /\ pc' = IF ads.named + 1 < ads.count THEN "names" ELSE "built"
  /\ UNCHANGED <<environment, query, needed, path, attr, opened, rp, result, disturbed>>

(* Mutant: the count is not reset.                                           *)
RetrieveNamesFailsCounting ==
  /\ pc = "names"
  /\ ads' = [ads EXCEPT !.array = FALSE, !.named = 0]
  /\ pc' = "built" /\ disturbed' = TRUE
  /\ UNCHANGED <<environment, query, needed, path, attr, opened, rp, result>>

(* emptyStreamNames_, when an allocation throws.                             *)
RetrieveNamesFails ==
  /\ pc = "names"
  /\ ads' = [ads EXCEPT !.array = FALSE, !.named = 0, !.count = 0]
  /\ pc' = "built" /\ disturbed' = TRUE
  /\ UNCHANGED <<environment, query, needed, path, attr, opened, rp, result>>

Destroy ==
  /\ pc = "built"
  /\ Forget
  /\ UNCHANGED <<file, cwd>>

-----------------------------------------------------------------------------

Constructor ==
  \/ MeasureDirectory \/ Measure \/ FillIn \/ FillInFails \/ Attributes \/ OpenFails \/ OpenSucceeds
  \/ GetReparsePoint \/ GetReparsePointFails \/ NoReparsePoint
  \/ QueryStreams \/ QueryStreamsFails \/ CountStreams
  \/ CloseFile \/ RetrieveName \/ RetrieveNamesFails

Next == Construct \/ Constructor \/ Throw \/ Interfere \/ Destroy

Spec == Init /\ [][Next]_vars

(* A constructor runs in one thread and waits for nothing.                   *)
FairSpec == Spec /\ WF_vars(Constructor)

-----------------------------------------------------------------------------
(* Properties                                                                *)

(* Whatever a path or a name is put into ends in a zero, although each       *)
(* buffer gets its size from another computation.                            *)
AllTerminated ==
  \A b \in {path.buf, rp.print, rp.subst, rp.canonical} : Terminated(b)

(* "any other (including "..") seem to be handled fine by GetFullPathName()"  *)
(* (ReparsePoint.hpp:219, AlternateDataStreams.hpp:219), but a name of one   *)
(* character is not when the room asked for is a multiple of a pointer's     *)
(* size: the buffer then is one element too small and the bare prefix is     *)
(* left.  Besides, only a change of the current directory between the two    *)
(* calls, or a failure of the first, leads to that.                          *)
NoneSpare == arg.kind = "plain" /\ arg.len = 1 /\ Ceil(cwd + 6) = cwd + 6
PrefixOnlyExplained == path.what = "prefix" => NoneSpare \/ disturbed

(* What is put into a CVerySimpleBuf is terminated, and the full name is put *)
(* there but in the cases named above (normalizePath_, cacheValues_).        *)
BuffersFit == TypeOK /\ AllTerminated /\ PrefixOnlyExplained

(* When nobody interferes and no call fails, the result of showReparsePoint  *)
(* (lookfs.cpp:283-361) tells what the file is, and the tag is its tag,      *)
(* although the attributes, the open and the query each look for themselves. *)
ResultTruthful ==
  pc = "built" /\ class = "CReparsePoint" /\ ~disturbed /\ NamesFile =>
    CASE file.kind = "none" -> result = 3
      [] file.kind \in Tags -> result = 0 /\ rp.tag = file.kind
      [] OTHER              -> result = 2 /\ rp.tag = "0"

(* A link whose names are printed (lookfs.cpp:308-323) has them, also when   *)
(* they are empty.  Of any other name surrogate NULL is printed for each.    *)
LinksHaveNames ==
  pc = "built" /\ result = 0 /\ rp.tag \in Links =>
    rp.print # Null /\ rp.subst # Null /\ rp.canonical # Null

(* The GUID and the file id, which no constructor initialises, have a value  *)
(* by the time they are printed (lookfs.cpp:300-341, :353).                  *)
PrintedInitialised ==
  pc = "built" /\ class = "CReparsePoint" /\ result # 3 => rp.guid /\ rp.id # "unset"

(* The file id that is printed of a reparse point (lookfs.cpp:301-303) is its*)
(* index, or none is printed; the attributes alone decide which of two places*)
(* reads it (ReparsePoint.hpp:260, :324).  Of any other file the low part of *)
(* what is printed (lookfs.cpp:354) is the size, not the index (:329).       *)
IdOfReparsePoint ==
  pc = "built" /\ class = "CReparsePoint" /\ result = 0 =>
    rp.id \in {"index", "failed"} /\ (~disturbed => rp.id = "index")

(* What showReparsePoint says of a file, its result and tag, is so; what it  *)
(* prints of a link, and the file id of any reparse point, was read from it. *)
(* It does not hold of the file id of other files and of the names of other  *)
(* surrogates, see above.                                                    *)
ShownTruthfully ==
  ResultTruthful /\ LinksHaveNames /\ PrintedInitialised /\ IdOfReparsePoint

(* Wherever an allocation throws, the streams are all there with their names *)
(* or there are none: operator[] never reads through a NULL array.           *)
StreamsAllOrNone ==
  pc = "built" => ads.named = ads.count /\ ads.array = (ads.count > 0)

(* When nobody interferes and no call fails, they are the streams of the     *)
(* file, or of what a link leads to: the loop leaves none out.               *)
StreamsTruthful ==
  pc = "built" /\ class = "CAlternateDataStreams" /\ ~disturbed /\ NamesFile =>
    ads.count = IF file.kind \in Tags THEN 1 ELSE file.streams

(* The list of streams can be relied on (cacheStreams_, retrieveNames_).     *)
StreamsListed == StreamsAllOrNone /\ StreamsTruthful

(* A query leaves the file as it is, unless its attributes could not be read.*)
QueryLeavesFileAlone ==
  [][file' # file => disturbed']_vars

(* Every constructor ends: the loop over the stream query finds a buffer     *)
(* that is large enough.                                                     *)
Returns == pc # "idle" ~> pc \in {"built", "idle"}
===================================================================================
