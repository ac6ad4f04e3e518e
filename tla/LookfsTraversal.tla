--------------------------- MODULE LookfsTraversal ---------------------------
(***************************************************************************)
(* The lookfs tool (lookfs.cpp): the loop over the paths in main,          *)
(* traversePath with its recursion, and the CPathFinder object that each   *)
(* invocation keeps on the stack.  The call stack is the variable stack,   *)
(* the last frame is the running invocation.                               *)
(*                                                                         *)
(* A path names entries of a directory: the one it ends in, or all that    *)
(* match a mask.  A find handle returns the matching entries in order and  *)
(* may fail at any call; which entries it loses when a directory is large  *)
(* is the subject of FindHandle.                                           *)
(***************************************************************************)
EXTENDS Integers, Sequences

CONSTANTS
  Dirs,                  \* the directories
  Cwd,                   \* the one in which the paths of the command line are
  Entries,               \* Entries[d]: the listing of d, records [kind, to]
  CommandLines,          \* sequences of sets of entries of Cwd
  AttributeFailureBound  \* how often GetFileAttributes may fail on a directory

ASSUME TreeAssumption ==
  /\ Cwd \in Dirs
  /\ Entries \in [Dirs -> Seq([kind : {"file", "dir", "link", "junction", "dot"}, to : Dirs])]
  /\ \A args \in CommandLines : args \in Seq(SUBSET (1..Len(Entries[Cwd])))
  /\ AttributeFailureBound \in Nat

VARIABLES
  pc,             \* the point in the running invocation, see TypeOK
  casesensitive,  \* sett.casesensitive, TRUE unless -i is given
  args,           \* the paths still to be traversed
  stack,          \* frames, see Frame
  openFinds,      \* handles of NativeFindFirstFile that are open
  err,            \* what the last invocation of traversePath returned
  retval,         \* the result of the process
  seen,           \* ghost: the entries looked at [at, i], in order
  visits,         \* ghost: the searches that were made [at, dir, match]
  cut,            \* ghost: the searches that did not get to their end
  failed,         \* ghost: has an error been noticed?
  attrFailures    \* ghost: how often GetFileAttributes has failed

vars == <<pc, casesensitive, args, stack, openFinds, err, retval,
          seen, visits, cut, failed, attrFailures>>

ghosts == <<seen, visits, cut, failed, attrFailures>>

(* search: the directory (at: the way to it) and the entries that match;     *)
(* pos: the entry the find handle returned last; found: the entry in m_fd,   *)
(* 0 when it is cleared; iRet: the local of traversePath.                    *)
Search == [at : Seq(Nat), dir : Dirs, match : SUBSET Nat]
Frame == [search : Search, pos : Nat, found : Nat, iRet : 0..3]

Depth == Len(stack)
Top == stack[Depth]
Listing == Entries[Top.search.dir]

TypeOK ==
  /\ pc \in {"main", "construct", "first", "skip", "body", "next", "returned", "exit"}
  /\ casesensitive \in BOOLEAN
  /\ args \in Seq(SUBSET Nat)
  /\ stack \in Seq(Frame)
  /\ openFinds \in Nat
  /\ err \in 0..3 /\ retval \in 0..3
  /\ failed \in BOOLEAN
  /\ attrFailures \in 0..AttributeFailureBound

Init ==
  /\ pc = "main" /\ casesensitive \in BOOLEAN /\ args \in CommandLines
  /\ stack = <<>> /\ openFinds = 0 /\ err = 0 /\ retval = 0
  /\ seen = <<>> /\ visits = {} /\ cut = {} /\ failed = FALSE /\ attrFailures = 0

Call(search) ==
  /\ pc' = "construct"
  /\ stack' = Append(stack, [search |-> search, pos |-> 0, found |-> 0, iRet |-> 0])

-----------------------------------------------------------------------------
(* main                                                                      *)

TraverseArgument ==
  /\ pc = "main" /\ args # <<>>
  /\ Call([at |-> <<Len(args)>>, dir |-> Cwd, match |-> Head(args)])
  /\ args' = Tail(args)
  /\ UNCHANGED <<casesensitive, openFinds, err, retval, ghosts>>

ArgumentTraversed ==
  /\ pc = "returned" /\ stack = <<>>
  /\ pc' = "main"
  /\ retval' = IF err > retval THEN err ELSE retval
  /\ UNCHANGED <<casesensitive, args, stack, openFinds, err, ghosts>>

Exit ==
  /\ pc = "main" /\ args = <<>>
  /\ pc' = "exit"
  /\ UNCHANGED <<casesensitive, args, stack, openFinds, err, retval, ghosts>>

Terminated == pc = "exit" /\ UNCHANGED vars

-----------------------------------------------------------------------------
(* The constructor of CPathFinder                                            *)

(* A return from traversePath.  The destructor closes the find handle.       *)
Return(status, isOpen) ==
  /\ pc' = "returned" /\ err' = status
  /\ stack' = SubSeq(stack, 1, Depth - 1)
  /\ openFinds' = IF isOpen THEN openFinds - 1 ELSE openFinds

(* The path cannot be read: an error message and 1.                          *)
Invalid ==
  /\ Return(1, FALSE)
  /\ failed' = TRUE
  /\ cut' = cut \cup {Top.search}
  /\ UNCHANGED <<casesensitive, args, retval, seen>>

(* adjustPaths_ fails.  In a recursion the path has its prefix already and   *)
(* a backslash, and it cannot.                                               *)
AdjustFails ==
  /\ pc = "construct" /\ Depth = 1
  /\ Invalid
  /\ visits' = visits \cup {Top.search}
  /\ UNCHANGED attrFailures

NamesDirectory == \E i \in Top.search.match :
  Top.search.match = {i} /\ Listing[i].kind \in {"dir", "junction"}

Inside(i) ==
  [at    |-> Append(Top.search.at, i),
   dir   |-> Listing[i].to,
   match |-> 1..Len(Entries[Listing[i].to])]

(* The path is that of a directory: its contents are listed.                 *)
AdjustToDirectory ==
  /\ pc = "construct" /\ NamesDirectory
  /\ pc' = "first"
  /\ \E i \in Top.search.match :
       /\ stack' = [stack EXCEPT ![Depth].search = Inside(i)]
       /\ visits' = visits \cup {Inside(i)}
  /\ UNCHANGED <<casesensitive, args, openFinds, err, retval, seen, cut, failed, attrFailures>>

(* The path is that of a file, or has wildcards (which may match just one    *)
(* directory), or its attributes cannot be read: its last component is the   *)
(* mask.                                                                     *)
AdjustToMask ==
  /\ pc = "construct"
  /\ pc' = "first"
  /\ \/ (~NamesDirectory \/ Depth = 1) /\ UNCHANGED attrFailures
     \/ /\ NamesDirectory
        /\ attrFailures < AttributeFailureBound
        /\ attrFailures' = attrFailures + 1
  /\ visits' = visits \cup {Top.search}
  /\ UNCHANGED <<casesensitive, args, stack, openFinds, err, retval, seen, cut, failed>>

IsDot(i) == Listing[i].kind = "dot"

(* bCaseSensitive is passed for dwFlags (:395), and TRUE is                  *)
(* NTFIND_SUPPRESS_SELF_AND_PARENT: the find handle leaves out "." and "..". *)
Returned(i) == i \in Top.search.match /\ ~(casesensitive /\ IsDot(i))

IsNext(i) ==
  /\ i > Top.pos /\ Returned(i)
  /\ \A j \in 1..i - 1 : j > Top.pos => ~Returned(j)

FirstFileFound ==
  /\ pc = "first"
  /\ \E i \in Top.search.match :
       IsNext(i) /\ stack' = [stack EXCEPT ![Depth].pos = i, ![Depth].found = i]
  /\ pc' = "skip"
  /\ openFinds' = openFinds + 1
  /\ UNCHANGED <<casesensitive, args, err, retval, ghosts>>

(* Mutant: the path is tried again.                                          *)
FirstFileRetried ==
  /\ pc = "first"
  /\ pc' = "construct"
  /\ UNCHANGED <<casesensitive, args, stack, openFinds, err, retval, ghosts>>

(* There is no first entry, or the directory cannot be opened or read.       *)
FirstFileFails ==
  /\ pc = "first"
  /\ Invalid
  /\ UNCHANGED <<visits, attrFailures>>

(* The next entry that is neither "." nor "..".                              *)
IsNextProper(i) ==
  /\ i \in Top.search.match /\ i > Top.pos /\ ~IsDot(i)
  /\ \A j \in Top.search.match : Top.pos < j /\ j < i => IsDot(j)

AtEnd == \A j \in Top.search.match : j > Top.pos => IsDot(j)

(* The three outcomes of next(): an entry, the end of the listing, an error. *)
(* The last two look alike to the caller.                                    *)
NextFound ==
  /\ \E i \in Top.search.match :
       IsNextProper(i) /\ stack' = [stack EXCEPT ![Depth].pos = i, ![Depth].found = i]
  /\ UNCHANGED cut

NextNothing ==
  /\ stack' = [stack EXCEPT ![Depth].found = 0]
  /\ \/ AtEnd /\ UNCHANGED cut
     \/ cut' = cut \cup {Top.search}

(* The loop that skips "." and ".." (:401-407).  When nothing follows them,  *)
(* the object is still valid.                                                *)
SkipDots ==
  /\ pc = "skip"
  /\ pc' = "body"
  /\ \/ ~IsDot(Top.found) /\ UNCHANGED <<stack, cut>>
     \/ IsDot(Top.found) /\ (NextFound \/ NextNothing)
  /\ UNCHANGED <<casesensitive, args, openFinds, err, retval, seen, visits, failed, attrFailures>>

-----------------------------------------------------------------------------
(* The loop of traversePath                                                  *)

Look == seen' = Append(seen, [at |-> Top.search.at, i |-> Top.found])

Nameless == Top.found = 0
Kind == IF Nameless THEN "none" ELSE Listing[Top.found].kind

(* Neither a directory nor a reparse point, or no entry at all.              *)
BodyOther ==
  /\ pc = "body" /\ Kind \in {"file", "none"}
  /\ Look
  /\ pc' = "next"
  /\ UNCHANGED <<casesensitive, args, stack, openFinds, err, retval,
                 visits, cut, failed, attrFailures>>

(* showReparsePoint returns 2 if it is none any more and 3 if it cannot be   *)
(* opened.                                                                   *)
BodyReparsePoint ==
  /\ pc = "body" /\ Kind \in {"link", "junction"}
  /\ Look
  /\ pc' = "next"
  /\ \E status \in {0, 2, 3} :
       /\ stack' = [stack EXCEPT ![Depth].iRet = IF status # 0 THEN status ELSE @]
       /\ failed' = (failed \/ status # 0)
  /\ UNCHANGED <<casesensitive, args, openFinds, err, retval, visits, cut, attrFailures>>

BodyDirectory ==
  /\ pc = "body" /\ Kind = "dir"
  /\ Look
  /\ Call([Top.search EXCEPT !.match = {Top.found}])
  /\ UNCHANGED <<casesensitive, args, openFinds, err, retval,
                 visits, cut, failed, attrFailures>>

(* Mutants: an error from before the recursion is forgotten; the handle      *)
(* stays open; the loop goes round without a call of next().                 *)
SubdirectoryForgets ==
  /\ pc = "returned" /\ stack # <<>>
  /\ Return(err, TRUE)
  /\ UNCHANGED <<casesensitive, args, retval, ghosts>>

SubdirectoryLeaks ==
  /\ pc = "returned" /\ stack # <<>>
  /\ Return(IF err # 0 THEN err ELSE Top.iRet, FALSE)
  /\ UNCHANGED <<casesensitive, args, retval, ghosts>>

SubdirectoryAgain ==
  /\ pc = "returned" /\ stack # <<>>
  /\ pc' = "body"
  /\ UNCHANGED <<casesensitive, args, stack, openFinds, err, retval, ghosts>>

(* Back from the recursion, the loop is left (:677-682).                     *)
SubdirectoryTraversed ==
  /\ pc = "returned" /\ stack # <<>>
  /\ Return(IF err # 0 THEN err ELSE Top.iRet, TRUE)
  /\ UNCHANGED <<casesensitive, args, retval, ghosts>>

NextEntry ==
  /\ pc = "next"
  /\ \/ NextFound /\ pc' = "body" /\ UNCHANGED <<err, openFinds>>
     \/ /\ AtEnd
        /\ Return(Top.iRet, TRUE)
        /\ UNCHANGED cut
     \/ /\ Return(Top.iRet, TRUE)
        /\ cut' = cut \cup {Top.search}
  /\ UNCHANGED <<casesensitive, args, retval, seen, visits, failed, attrFailures>>

-----------------------------------------------------------------------------

Step ==
  \/ TraverseArgument \/ ArgumentTraversed \/ Exit
  \/ AdjustFails \/ AdjustToDirectory \/ AdjustToMask
  \/ FirstFileFound \/ FirstFileFails \/ SkipDots
  \/ BodyOther \/ BodyReparsePoint \/ BodyDirectory
  \/ SubdirectoryTraversed \/ NextEntry

Next == Step \/ Terminated

Spec == Init /\ [][Next]_vars

(* The process has one thread, and its calls of the system return.           *)
FairSpec == Spec /\ WF_vars(Step)

-----------------------------------------------------------------------------
(* Properties                                                                *)

Proper(s) == {i \in s.match : Entries[s.dir][i].kind # "dot"}
WasSeen(s, i) == \E k \in 1..Len(seen) : seen[k] = [at |-> s.at, i |-> i]

(* Every path finder closes its handle, by whichever return of whichever     *)
(* level: while the tool runs a find handle is open for each invocation past *)
(* its first entry, and none when it exits.                                  *)
FindsClosed ==
  openFinds = IF stack # <<>> /\ pc \in {"construct", "first"} THEN Depth - 1 ELSE Depth

(* The stack of traversePath is well-formed and accounts for all find handles.*)
FindersHeld == TypeOK /\ FindsClosed

(* The result of the process is zero exactly if no invocation at any level   *)
(* and for any path noticed an error: a success later on does not hide it.   *)
ErrorReachesExitCode == pc = "exit" => (failed <=> retval # 0)

(* No entry is looked at twice for a path, as long as the attributes of the  *)
(* directories can be read.                                                  *)
LookedAtOnce ==
  attrFailures = 0 =>
    \A j, k \in 1..Len(seen) : j < k /\ seen[j].i # 0 => seen[j] # seen[k]

(* What the tool gets to see, no more and no less: of every search that no   *)
(* error cut short, the entries up to and including the first subdirectory.  *)
SeenUpToSubdirectory ==
  pc = "exit" =>
    \A s \in visits \ cut : \A i \in Proper(s) :
      WasSeen(s, i) <=> \A j \in Proper(s) : j < i => Entries[s.dir][j].kind # "dir"

(* What there is to be looked at is, once (traversePath).                    *)
LookedAtAsListed == LookedAtOnce /\ SeenUpToSubdirectory

(* "Show each file system entity encountered, not just "special" ones",      *)
(* lookfs.cpp:614: a search that no error cut short has come upon all of     *)
(* them.                                                                     *)
AllSeen == pc = "exit" => \A s \in visits \ cut : \A i \in Proper(s) : WasSeen(s, i)

(* The tool ends, loops of junctions or not.                                 *)
Ends == <>(pc = "exit")
=============================================================================
