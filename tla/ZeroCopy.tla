------------------------------ MODULE ZeroCopy ------------------------------
(***************************************************************************)
(* NativeFindFilesZeroCopy and recurseIntoDirectory_ (ntfindfile.c:877-    *)
(* 1034): a recursive walk of a directory tree that asks the caller what   *)
(* to do, through an entry callback and a drill-down callback, and the     *)
(* resources it holds meanwhile.  The call stack is the variable stack,    *)
(* one frame per invocation that has its directory open; the last frame is *)
(* the running one, every other waits for the recursion it started.        *)
(*                                                                         *)
(* The enumeration of one directory (getNextDirInfoEntry_) is abstracted   *)
(* to what DirListing promises of a listing that fits the query buffer,    *)
(* and may end early, with an error status in the handle.  What the        *)
(* callbacks answer is up to the caller, and any answer is tried.          *)
(***************************************************************************)
EXTENDS Integers, Sequences

CONSTANTS
  Dirs,      \* the directories
  Root,      \* the one the walk is asked for
  Entries,   \* Entries[d]: the listing of d, records [kind, to]
  Flags,     \* the flag combinations the walk may be called with
  MaxDepth   \* the caller declines to go deeper than this

Kinds == {"file", "dir", "reparse", "dot"}

ASSUME TreeAssumption ==
  /\ Root \in Dirs
  /\ Entries \in [Dirs -> Seq([kind : Kinds, to : Dirs])]
  /\ Flags \subseteq SUBSET {"SUPPRESS_SELF_AND_PARENT", "RECURSIVE", "SKIP_REPARSE_DIRECTORIES"}
  /\ MaxDepth \in Nat \ {0}

VARIABLES
  pc,           \* the point in the running invocation, see TypeOK
  dwFlags,      \* the flags of the walk
  stack,        \* frames [dir, pos, path, ctx]
  target,       \* the directory the next invocation is to open
  ntStatus,     \* the status of the invocation that has just returned
  openHandles,  \* directory handles that are open
  paths,        \* subdirectory path names that are allocated
  contexts,     \* caller contexts handed out and not yet freed
  reported,     \* ghost: the entries given to the entry callback, in order
  aborted,      \* ghost: has a callback asked for the walk to end?
  told,         \* ghost: the directories (by location) whose walk the caller has cut
                \*   short by an answer, or for which it has been given an error
  unread        \* ghost: those whose enumeration a failed query has ended

vars == <<pc, dwFlags, stack, target, ntStatus, openHandles, paths, contexts,
          reported, aborted, told, unread>>

resources == <<openHandles, paths, contexts>>
ghosts    == <<reported, aborted, told, unread>>

(* The directories not walked to their end.                                  *)
cut == told \cup unread

Statuses == {"SUCCESS", "INVALID_PARAMETER", "OPEN_FAILED", "NO_MEMORY",
             "SKIP_RECURSION", "REQUEST_ABORTED", "CALLER_ERROR"}

(* path: lpszSubdirPathName; ctx: wctxSubDir.cbctx.lpCallerContext.          *)
Frame == [dir : Dirs, pos : Nat, path : {"none", "held", "null"}, ctx : {"none", "held"}]

Depth == Len(stack)
Top == stack[Depth]
Entry == Entries[Top.dir][Top.pos]
IsDirectory(e) == e.kind \in {"dir", "reparse", "dot"}

(* Where an entry lies: the positions that lead to it from the root.         *)
Location == [k \in 1..Depth |-> stack[k].pos]

(* Where the directory of the running invocation lies.                       *)
Directory == [k \in 1..Depth - 1 |-> stack[k].pos]

TypeOK ==
  /\ pc \in {"idle", "open", "enumerate", "entry", "decide", "descend", "returned", "crashed"}
  /\ dwFlags \in Flags
  /\ stack \in Seq(Frame)
  /\ target \in Dirs
  /\ ntStatus \in Statuses
  /\ openHandles \in Nat /\ paths \in Nat /\ contexts \in Nat
  /\ aborted \in BOOLEAN /\ \A at \in cut : at \in Seq(Nat)

Init ==
  /\ pc = "idle" /\ dwFlags \in Flags
  /\ stack = <<>> /\ target = Root /\ ntStatus = "SUCCESS"
  /\ openHandles = 0 /\ paths = 0 /\ contexts = 0
  /\ reported = <<>> /\ aborted = FALSE /\ told = {} /\ unread = {}

-----------------------------------------------------------------------------
(* NativeFindFilesZeroCopy                                                   *)

Call ==
  /\ pc = "idle" /\ dwFlags' \in Flags
  /\ target' = Root
  /\ reported' = <<>> /\ aborted' = FALSE /\ told' = {} /\ unread' = {}
  /\ \/ pc' = "open" /\ UNCHANGED ntStatus
     \/ pc' = "idle" /\ ntStatus' = "INVALID_PARAMETER"   \* a callback or the path is missing
  /\ UNCHANGED <<stack, resources>>

Return ==
  /\ pc = "returned" /\ stack = <<>>
  /\ pc' = "idle"
  /\ UNCHANGED <<dwFlags, stack, target, ntStatus, resources, ghosts>>

-----------------------------------------------------------------------------
(* recurseIntoDirectory_: entering and leaving a directory                   *)

(* The path name is NULL: RtlCreateUnicodeString is called with it, which    *)
(* fails or takes the process down.                                          *)
OpenNullPath ==
  /\ pc = "open" /\ stack # <<>> /\ Top.path = "null"
  /\ \/ pc' = "crashed" /\ UNCHANGED ntStatus
     \/ pc' = "returned" /\ ntStatus' = "NO_MEMORY"
  /\ UNCHANGED <<dwFlags, stack, target, resources, ghosts>>

PathGiven == IF stack = <<>> THEN TRUE ELSE Top.path = "held"

(* "." and ".." are no names for a native relative open.                     *)
Openable == IF stack = <<>> THEN TRUE ELSE Entry.kind # "dot"

OpenFails ==
  /\ pc = "open" /\ PathGiven
  /\ pc' = "returned"
  /\ ntStatus' \in {"OPEN_FAILED", "NO_MEMORY"}
  /\ UNCHANGED <<dwFlags, stack, target, resources, ghosts>>

OpenSucceeds ==
  /\ pc = "open" /\ PathGiven /\ Openable
  /\ pc' = "enumerate"
  /\ stack' = Append(stack, [dir |-> target, pos |-> 0, path |-> "none", ctx |-> "none"])
  /\ openHandles' = openHandles + 1
  /\ UNCHANGED <<dwFlags, target, ntStatus, paths, contexts, ghosts>>

(* freeFindHandle_ followed by a return from the running invocation          *)
Leave(status) ==
  /\ pc' = "returned"
  /\ ntStatus' = status
  /\ stack' = SubSeq(stack, 1, Depth - 1)
  /\ openHandles' = openHandles - 1

(* ... because a callback wanted it, in the middle of the running entry      *)
Abandon(status) ==
  /\ Leave(status)
  /\ told' = told \cup {Directory, Location}
  /\ UNCHANGED unread

(* Mutant: the status of the last recursion is returned.                     *)
EndOfEnumerationLastStatus ==
  /\ pc = "enumerate"
  /\ Leave(ntStatus)
  /\ unread' = IF Top.pos = Len(Entries[Top.dir]) THEN unread ELSE unread \cup {Directory}
  /\ UNCHANGED <<dwFlags, target, paths, contexts, reported, aborted, told>>

(* The loop ends when getNextDirInfoEntry_ returns NULL, and the invocation  *)
(* returns STATUS_SUCCESS (:1016) whether that is the end of the listing or  *)
(* an error, of which nobody is told.                                        *)
EndOfEnumeration ==
  /\ pc = "enumerate"
  /\ Leave("SUCCESS")
  /\ unread' = IF Top.pos = Len(Entries[Top.dir]) THEN unread ELSE unread \cup {Directory}
  /\ UNCHANGED <<dwFlags, target, paths, contexts, reported, aborted, told>>

Suppressed(e) == e.kind = "dot" /\ "SUPPRESS_SELF_AND_PARENT" \in dwFlags

NextEntry ==
  /\ pc = "enumerate"
  /\ Top.pos < Len(Entries[Top.dir])
  /\ stack' = [stack EXCEPT ![Depth].pos = @ + 1]
  /\ pc' = IF Suppressed(Entries[Top.dir][Top.pos + 1]) THEN "enumerate" ELSE "entry"
  /\ UNCHANGED <<dwFlags, target, ntStatus, resources, ghosts>>

-----------------------------------------------------------------------------
(* recurseIntoDirectory_: the callbacks                                      *)

Report == reported' = Append(reported, [at |-> Location, entry |-> Entry])

(* Is the entry one to descend into (:936-940)?                              *)
Descends(e) ==
  /\ IsDirectory(e) /\ "RECURSIVE" \in dwFlags
  /\ ~(e.kind = "reparse" /\ "SKIP_REPARSE_DIRECTORIES" \in dwFlags)

EntryAccepted ==
  /\ pc = "entry"
  /\ Report
  /\ pc' = IF Descends(Entry) THEN "decide" ELSE "enumerate"
  /\ UNCHANGED <<dwFlags, stack, target, ntStatus, resources, aborted, told, unread>>

(* STATUS_NTFIND_SKIP_RECURSION                                              *)
EntrySkipped ==
  /\ pc = "entry"
  /\ Report
  /\ pc' = "enumerate"
  /\ told' = IF Descends(Entry) THEN told \cup {Location} ELSE told
  /\ UNCHANGED <<dwFlags, stack, target, ntStatus, resources, aborted, unread>>

EntryRefused ==
  /\ pc = "entry"
  /\ Report
  /\ Abandon("CALLER_ERROR")
  /\ aborted' = TRUE
  /\ UNCHANGED <<dwFlags, target, paths, contexts>>

(* ntfcbrNewContext is answered with FALSE.  The status is the caller's, a   *)
(* success code among them; left alone it is STATUS_REQUEST_ABORTED.         *)
NewContextRefused ==
  /\ pc = "decide"
  /\ \E status \in {"REQUEST_ABORTED", "SKIP_RECURSION", "SUCCESS"} :
       /\ Abandon(status)
       /\ aborted' = (aborted \/ status = "REQUEST_ABORTED")
  /\ UNCHANGED <<dwFlags, target, paths, contexts, reported>>

NewContextGiven ==
  /\ pc = "decide" /\ Depth < MaxDepth
  /\ pc' = "descend"
  /\ stack' = [stack EXCEPT ![Depth].ctx = "held"]
  /\ contexts' = contexts + 1
  /\ UNCHANGED <<dwFlags, target, ntStatus, openHandles, paths, ghosts>>

PathAllocated ==
  /\ pc = "descend"
  /\ pc' = "open" /\ target' = Entry.to
  /\ stack' = [stack EXCEPT ![Depth].path = "held"]
  /\ paths' = paths + 1
  /\ UNCHANGED <<dwFlags, ntStatus, openHandles, contexts, ghosts>>

(* ntfcbrFreeContext, then ntfcbrRecurseError answered with FALSE, the       *)
(* status being the caller's, who may have changed it to a success code.     *)
PathNotAllocated ==
  /\ pc = "descend"
  /\ \E status \in {"NO_MEMORY", "SUCCESS"} : Abandon(status)
  /\ aborted' = TRUE
  /\ contexts' = contexts - 1
  /\ UNCHANGED <<dwFlags, target, paths, reported>>

(* ... and with TRUE: the code goes on to the recursion, without a path.     *)
PathNotAllocatedContinue ==
  /\ pc = "descend"
  /\ pc' = "open" /\ target' = Entry.to
  /\ stack' = [stack EXCEPT ![Depth].path = "null", ![Depth].ctx = "none"]
  /\ contexts' = contexts - 1
  /\ told' = told \cup {Location}
  /\ UNCHANGED <<dwFlags, ntStatus, openHandles, paths, reported, aborted, unread>>

(* Back from the recursion: the path name is freed and the context is        *)
(* offered to the caller, who frees it and clears the pointer.               *)
Unwound == [Top EXCEPT !.path = "none", !.ctx = "none"]

(* Mutant: only the context is released.                                     *)
ReleaseContextOnly ==
  /\ paths' = paths
  /\ contexts' = IF Top.ctx = "held" THEN contexts - 1 ELSE contexts

ReleaseSubdirectory ==
  /\ paths' = IF Top.path = "held" THEN paths - 1 ELSE paths
  /\ contexts' = IF Top.ctx = "held" THEN contexts - 1 ELSE contexts

(* Mutant: the enumeration of the parent does not go on where it was.        *)
RecursionSucceededRestarts ==
  /\ pc = "returned" /\ stack # <<>> /\ ntStatus = "SUCCESS"
  /\ ReleaseSubdirectory
  /\ pc' = "enumerate"
  /\ stack' = [stack EXCEPT ![Depth] = [Unwound EXCEPT !.pos = 0]]
  /\ UNCHANGED <<dwFlags, target, ntStatus, openHandles, ghosts>>

(* Mutant: the caller is not asked about the error of the recursion.         *)
RecursionErrorUntold ==
  /\ pc = "returned" /\ stack # <<>>
  /\ ReleaseSubdirectory
  /\ pc' = "enumerate"
  /\ stack' = [stack EXCEPT ![Depth] = Unwound]
  /\ UNCHANGED <<dwFlags, target, ntStatus, openHandles, ghosts>>

RecursionSucceeded ==
  /\ pc = "returned" /\ stack # <<>> /\ ntStatus = "SUCCESS"
  /\ ReleaseSubdirectory
  /\ pc' = "enumerate"
  /\ stack' = [stack EXCEPT ![Depth] = Unwound]
  /\ UNCHANGED <<dwFlags, target, ntStatus, openHandles, ghosts>>

(* Mutant: the subdirectory is tried again.                                  *)
RecurseErrorRetries ==
  /\ pc = "returned" /\ stack # <<>> /\ ntStatus # "SUCCESS"
  /\ pc' = "open"
  /\ UNCHANGED <<dwFlags, stack, target, ntStatus, resources, ghosts>>

(* ntfcbrRecurseError is called with the status, and answered with TRUE, ... *)
RecurseErrorContinue ==
  /\ pc = "returned" /\ stack # <<>> /\ ntStatus # "SUCCESS"
  /\ ReleaseSubdirectory
  /\ pc' = "enumerate"
  /\ stack' = [stack EXCEPT ![Depth] = Unwound]
  /\ told' = told \cup {Location}
  /\ UNCHANGED <<dwFlags, target, ntStatus, openHandles, reported, aborted, unread>>

(* ... or FALSE.  The caller may change the status, even to a success code.  *)
RecurseErrorAbort ==
  /\ pc = "returned" /\ stack # <<>> /\ ntStatus # "SUCCESS"
  /\ ReleaseSubdirectory
  /\ \E status \in {ntStatus, "SUCCESS"} : Abandon(status)
  /\ aborted' = TRUE
  /\ UNCHANGED <<dwFlags, target, reported>>

-----------------------------------------------------------------------------

Step ==
  \/ Return \/ OpenNullPath \/ OpenFails \/ OpenSucceeds
  \/ EndOfEnumeration \/ NextEntry
  \/ EntryAccepted \/ EntrySkipped \/ EntryRefused
  \/ NewContextRefused \/ NewContextGiven
  \/ PathAllocated \/ PathNotAllocated \/ PathNotAllocatedContinue
  \/ RecursionSucceeded \/ RecurseErrorContinue \/ RecurseErrorAbort

Next == Call \/ Step

Spec == Init /\ [][Next]_vars

(* The walk runs in the thread that called it, and the callbacks return.     *)
FairSpec == Spec /\ WF_vars(Step)

-----------------------------------------------------------------------------
(* Properties                                                                *)

(* Every one of the ten ways out of an invocation gives back what it holds:  *)
(* when the walk is over no directory handle, no subdirectory path name and  *)
(* no caller context is left, whatever failed on the way and at what depth;  *)
(* and on the way the open handles are those of the running invocations.     *)
NothingLeaked ==
  /\ openHandles = Depth
  /\ pc = "idle" => paths = 0 /\ contexts = 0

(* The stack of recurseIntoDirectory_ is well-formed and accounts for all    *)
(* resources.                                                                *)
ResourcesHeld == TypeOK /\ NothingLeaked

Before(a, b) ==
  \/ Len(a) < Len(b) /\ a = SubSeq(b, 1, Len(a))
  \/ \E k \in 1..Len(a) :
       /\ k <= Len(b)
       /\ SubSeq(a, 1, k - 1) = SubSeq(b, 1, k - 1)
       /\ a[k] < b[k]

(* The callback sees the tree in depth-first order, a directory before what  *)
(* is underneath it, and nothing twice, although the query buffers of all    *)
(* the directories above the current one are kept open in the middle.        *)
DepthFirstOnce ==
  \A j \in 1..Len(reported) - 1 : Before(reported[j].at, reported[j + 1].at)

Seen(at) == \E k \in 1..Len(reported) : reported[k].at = at

WalkedInFull(d, at) ==
  \A i \in 1..Len(Entries[d]) : ~Suppressed(Entries[d][i]) => Seen(Append(at, i))

(* When the walk is over, every directory entered has been reported to its   *)
(* last wanted entry, except those where the caller itself had something     *)
(* skipped or refused, those for which RecurseError was called, at whatever  *)
(* depth the error arose, and those ended by a failed query, of which        *)
(* nobody is told (:1016).  None of them costs entries of another one.       *)
CompleteUnlessCut ==
  pc = "idle" /\ reported # <<>> =>
    /\ <<>> \notin cut => WalkedInFull(Root, <<>>)
    /\ \A k \in 1..Len(reported) :
         LET r == reported[k]
         IN  Descends(r.entry) /\ r.at \notin cut => WalkedInFull(r.entry.to, r.at)

(* A walk that got into its root fails only because a callback wanted it to, *)
(* or asked for a recursion to be skipped: an error that the caller chose to *)
(* continue after (ntfindfile.h:227-229) is not returned later.              *)
ContinuedErrorForgotten ==
  pc = "idle" /\ reported # <<>> /\ ntStatus \notin {"SUCCESS", "SKIP_RECURSION"}
    => aborted

(* What the walk leaves out, failed queries aside, the caller has decided or *)
(* been told in a callback, and no error reaches it twice: once continued    *)
(* after it does not come back as the result (recurseIntoDirectory_).  The   *)
(* rest of a directory whose query fails is lost without a word.             *)
CutsTold == CompleteUnlessCut /\ ContinuedErrorForgotten

(* "If you use this method to filter infinite recursion via reparse points,  *)
(* please ... set *ntStatus=STATUS_NTFIND_SKIP_RECURSION and return FALSE",  *)
(* ntfindfile.h:218-219: the recursion is skipped, the walk goes on.         *)
SkipIsNotAnAbort ==
  pc = "idle" /\ ntStatus = "SKIP_RECURSION" => aborted

(* The walk ends, on a tree with a loop as well if the caller stops at some  *)
(* depth: an error the caller ignores is not tried again forever.            *)
WalkReturns == pc \notin {"idle", "crashed"} ~> pc \in {"idle", "crashed"}
=============================================================================
