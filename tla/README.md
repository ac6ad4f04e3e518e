# A formal model of lookfs and its find library

The repository holds `ntfindfile`, a C library that enumerates directories with
the native Windows call `NtQueryDirectoryFile`, `lookfs`, a command line tool
that walks directories with it and shows the reparse points it meets, and the
code both are built with: classes that query a file, privileges, the delay
loading of `ntdll.dll`, the option parser SimpleOpt, and cmocka, with which its
library is tested. This directory holds TLA+ modules that model these parts, the
TLC configurations that check them on small instances, and proofs of the most
important results for instances of any size.

## The parts of the system

| part | source | state it keeps | operations | what is hard about it |
|---|---|---|---|---|
| find handle | `ntfindfile.c` 184-570, 747-875 | `NTFIND_HANDLE`: query buffer and its size, cursor, offset taken out of the next entry, last status, end-of-listing flag; per thread the size the next buffer starts with and a debug counter | `NativeFindFirstFile`, `-NextFile`, `-Close`, `-LastStatus`, `-Init` | a query that succeeds is repeated with a larger buffer; every allocation, free and query may fail and the handle stays usable; names are terminated by writing into the following entry |
| opening a directory | `ntfindfile.c` 572-744 | the strings and the handle on their way to the find handle | `openDirectoryForSearch_`, two modes | ownership of strings, interior pointers, masks that every level of a recursion takes apart again |
| recursive walk | `ntfindfile.c` 877-1034 | one find handle, path name and caller's context for every level | `NativeFindFilesZeroCopy`, two callbacks with three reasons | ten ways out of one function, callbacks that may end, skip or continue after an error at every level |
| threads, dynamic binding | `ntfindfile.c` 47-182, 747-875 | a critical section per handle; function pointers, module handle, size and counter per thread | all of the API, `NativeFindInit` | a handle that is shared or passed on; an initialisation that fails half way or was made in another thread |
| lookfs | `lookfs.cpp` | settings, output file, exit code, a `CPathFinder` for every level | `main`, `traversePath`, `showReparsePoint` | which entries are seen at all, the result of the process |
| reparse points | `ReparsePoint.hpp` | path, attributes, tag, names, GUID, file id, last error | constructor, getters | the file changes between three looks at it; errors that leave values uninitialised |
| data streams | `AlternateDataStreams.hpp` | buffer, count, names | constructor | a loop that grows a buffer, a failure half way |
| simple buffer | `VerySimpleBuf.hpp` | pointer and count | assign, append, `reAlloc` | sizes rounded up, contents kept or cleared |
| privileges | `priv.c`, `priv.h` | a token's privilege | enable for a scope, disable again | setting a privilege that the token lacks succeeds |
| delay loading | `delayimp.c` | resolved imports | `NtdllDliHook`, a fallback for one function | the fallback calls another import |
| SimpleOpt | `thirdparty/simpleopt/SimpleOpt.h` | `argv` while it is shuffled, the rest of a clump of letters | `Next`, `MultiArg`, `Stop`, `Files` | files move to the end while options are parsed |
| cmocka | `cmocka/src/cmocka.c` | queues of mock values, checks and expected calls; list of blocks; flags and messages across `longjmp`; counters and reports of a group | declaring and using mocks, assertions, `test_malloc`, three runners, four formats | state left behind by a jump out of any function, fixtures that fail, counters with special values |
| version information, test driver, declarations | `VersionInfo.hpp`, `testfind.c`, `ntnative.h`, `ntdll-stubs` | none | | nothing that a model would show |

How they interact: `lookfs` parses its command line with SimpleOpt, enables the
backup privilege, and for each path calls First, Next and Close of the find
handle for each directory and builds a `CReparsePoint` for each reparse point;
the functions of `ntdll.dll` are resolved when they are first called. The
recursive walk uses the find handle's internals directly
(`getNextDirInfoEntry_`) and calls back into the program that started it. Two
handles share nothing but, in one thread, the initial size of query buffers,
raised by every handle that had to grow its own, and the debug counter of
allocated bytes. cmocka calls the functions of a test program, which call
cmocka again, and every failure jumps back to where cmocka called.

What makes each part correct:

- find handle: entries come in the order of the listing, none twice, none the
  caller does not want; none is missed where the code can guarantee it; the end
  is final; failures are reported as failures; the buffer stays within its
  limits; every call returns; the counter is exact.
- opening a directory: directory handles are never lost; memory is lost or
  damaged in the known ways only; all levels search with the mask of the root.
- recursive walk: depth-first order, nothing twice; what a callback or a failure
  cuts off is the subtree it is about and nothing else; all resources are given
  back on every way out; the result says what happened; the walk returns.
- threads: entries are handed out once among all threads, from the buffer they
  were found in; the critical section is always given back; what is allocated is
  the sum of what the threads count; no call goes through a NULL pointer in a
  thread whose initialisation succeeded.
- lookfs: each entry is looked at once and as many as the code gets to; an error
  noticed at any depth reaches the exit code; every find handle is closed; files
  and settings are those of the command line; a privilege believed to be enabled is.
- file queries: what is shown of a file is so if nobody interferes, initialised
  and terminated in any case; streams are listed completely or not at all; a query
  ends and leaves the file alone.
- cmocka: a test gets what it declared and passes only when all of it was used;
  assertions mean what they say; no leak passes; every failure reaches the
  counters and the report; a test answers for itself only.

## Modules

| module | models |
|---|---|
| `DirListing` | abstract: what the caller of First, Next and Close may rely on |
| `FindHandle` | one `NTFIND_HANDLE` with everything `ntfindfile.c` does to it, and its refinement of `DirListing` |
| `FindHandle_proofs` | the proofs about `FindHandle` |
| `SearchResources`, `SearchResources_proofs` | `openDirectoryForSearch_`, `initFindHandle_`, `freeFindHandle_`: strings, directory handles and masks on all levels of a recursion; its proofs |
| `ZeroCopy`, `ZeroCopy_proofs` | `NativeFindFilesZeroCopy` and `recurseIntoDirectory_`; its proofs |
| `FindApi`, `FindApi_proofs` | the API used by several threads, `NativeFindInit`; its proofs |
| `LookfsTraversal`, `LookfsTraversal_proofs` | `lookfs.cpp`: the loop over the paths, `traversePath`, `CPathFinder`; its proofs |
| `CommandLine` | SimpleOpt as `lookfs` uses it |
| `LookfsMain`, `LookfsMain_proofs` | `_tmain` of `lookfs.cpp` with `CommandLine`, the privilege and the delay-loaded imports; the proofs about both |
| `SimpleBuf` | `CVerySimpleBuf`: operators on sizes and lengths |
| `FileQuery`, `FileQuery_proofs` | the constructors of `CReparsePoint` and `CAlternateDataStreams`, and `showReparsePoint`; their proofs |
| `MockQueues` | cmocka: mock values, checks of parameters, expected calls |
| `Checks` | cmocka: the comparisons |
| `TestHeap` | cmocka: the list of blocks, guards, check points |
| `TestFunction` | cmocka: one test or fixture, with the three modules above |
| `TestRunner`, `TestRunner_proofs` | cmocka: the three runners, their counters and reports, with `TestFunction`; the proofs about these |
| `MC...` | the instance of each that TLC checks |

### General conventions

One action stands for each stretch of code between two calls that somebody else
may fail, delay or come in between. Variables carry the names of the fields and
locals they stand for; what has no name in the code is commented where it is
declared, and what only serves a property is called a ghost. A process that has
ended, or has died of an access violation or an exception, stutters, so that
every other state without a successor counts as a deadlock.

### FindHandle

One action for each stretch of code between two calls of the kernel or the
heap. The variable `pc` says where the call on the handle is.

| `pc` | point in the code |
|---|---|
| `closed`, `idle` | no handle; a handle and no call running |
| `next` | in `getNextDirInfoEntry_` |
| `query` | before the first query of a scan (:392) |
| `grow` | at the head of the query loop, before the buffer is grown (:415) |
| `requery` | before the query in the loop (:432) |
| `null` | `getNextDirInfoEntry_` is about to return NULL after an error |

Other variables carry the names of the fields and locals they stand for.
`dir` is the listing: how many entries it has, `dots` (which of them are `.`
and `..`) and `end[k]`, the bytes that the first k entries take in a buffer.
Offsets within the buffer are counted in entries: the buffered entries are
`base + 1 .. kpos`, and `chain[i]` is the `NextEntryOffset` of the i-th. `kpos`
is the kernel's scan position. `dirty` is the smallest offset from which the
buffer is known to be zero, which is all that termination of the last name
depends on. `firstSize` and `delivered` are history variables.

`NtQueryDirectoryFile` is external: a chunk of as many entries as fit, an
overflow if none fits, the end, or any error; the scan position moves only when
entries are returned. This is how the code relies on it. The listing does not
change while a handle is open.

`HeapFree` of the old buffer may fail (`OldBufferNotFreed`). The new buffer is then given
back, but its size has been added to the debug counter (`ntfindfile.c:307`) and stays
there for good; the history variable `overcounted` sums up those sizes, and
`AllocatedBytesOver` says that the counter is too high by exactly that much. So the header's
"the amount of Bytes currently allocated" (`ntfindfile.h:172`) holds only as long as no
such free has failed. `FreeFailBound` bounds `overcounted`, to keep the state space finite;
at 8 the free of a buffer of every size may fail.

A handle that is freed goes back to the values a fresh one has, so that handles that no
longer exist are not told apart.

### SearchResources

`pc` follows one call of `openDirectoryForSearch_`: `parent` in the mode for
subdirectories before the strings are made, `convert` in the other mode before
the path is converted, `part` before the part name is made (:688), `open` before
`NtOpenFile`, `init` with the directory open and no find handle yet, `first`
before the first query. `handles` is the stack of find handles of a recursion,
each by its mask. `held` counts the strings the call will free or hand over,
`live` all that are allocated; the difference to what the handles own is lost
(`Lost`): nobody has a pointer to it. `interior` says that `usNtPathName.Buffer`
was moved forward in its block (:663), so that freeing it damages the heap
(`damaged`). A path is a sequence of backslashes and names, which is all that
counting, splitting and the comparison with `*.*` (:731, on two characters) see.

### FindApi

What one call does to the buffer is `FindHandle`'s subject; here a scan of the
kernel is a step into a state with an intermediate status and a new buffer
(`Scan`) and one out of it (`Settle`), between which other threads run. `pfn`,
`hNtDll`, `s_uInitialBufSize` and `s_llMemoryAllocated` are functions of the
thread, as the code declares them `__declspec(thread)`. With `dynamic` false all
functions are linked. `NativeFindClose` has the guard that no call runs on the
handle: the code deletes the critical section unconditionally (:241), so this is
the caller's duty. A call through a NULL pointer is `crashed`, with which the model
ends; in the code it is the end of the process, but for `NativeFindClose`, which
handles the exception (:860). `NativeFindLastStatus`, which changes nothing and enters
no critical section (:867), may read every state, also one in the middle of another
thread's scan; `StatusSettled` says which states those are.

### ZeroCopy

The variable `stack` is the call stack of `recurseIntoDirectory_`, one frame for
every invocation with an open directory; the last one runs. The callbacks are
nondeterministic: the entry callback accepts, skips or refuses; the drill-down
callback gives a context or refuses with a status of its choice, continues
after an error or ends. Directory opens, path allocations and enumerations may
fail at any time. `openHandles`, `paths` and `contexts` count resources,
independently of the stack. The callbacks follow the header: a context that is
freed is also cleared, so that a second offer does nothing. `reported`, `told`,
`unread` and `aborted` are history variables: what the entry callback was given,
which directories were not walked to their end after a callback that refused or
skipped them or that was asked about the error, which were not because a query
failed, of which the code tells nobody (`ntfindfile.c:1013-1016`), and whether a
callback asked for the walk to end. `cut` is `told \cup unread`.

`MaxDepth` bounds the depth at which the caller still gives a new context. The
code has no such bound: on a loop of mount points a caller that never declines
lets the stack overflow, of which the header warns (`ntfindfile.h:103-105`).

### LookfsTraversal

The variable `stack` is the call stack of `traversePath`; a frame holds the
`CPathFinder` of the invocation (what is searched, where the find handle stands,
which entry is in `m_fd`) and its `iRet`.

| `pc` | point in the code |
|---|---|
| `main` | the loop over the paths (:815) |
| `construct` | in the constructor, before `adjustPaths_` (:391) |
| `first` | before `NativeFindFirstFile` (:395) |
| `skip` | the loop over `.` and `..` (:401) |
| `body`, `next` | the loop of `traversePath` at its start (:634), at its end (:694) |
| `returned` | `traversePath` has returned to whoever called it |
| `exit` | the process has its result |

A path is a search: a directory and the set of its entries that match. The one
a recursion starts from matches a single entry, from which `adjustPaths_` makes
a search for all that is inside when that is a directory. The paths of the
command line are sets of entries of the directory `Cwd`; a set of one may stand
for a name or for wildcards that match nothing else. `at` is the way down to a
search, so that a directory reached twice through a junction is told apart. The
find handle is taken at its promise (`DirListing`), any call of it may fail, and
entries are returned in the order of the listing. `AttributeFailureBound` bounds
how often `GetFileAttributes` fails on a directory that is there; each such
failure makes the code recurse into the same path once more, so that with
failures without end it would not return. `seen`, `visits`, `cut` and `failed`
are history variables.

Of the options only `-i` is in this module, since it decides whether the find
handle leaves out `.` and `..`; the others are in `LookfsMain`.

### CommandLine and LookfsMain

An argument is what the parser can tell of it: whether it begins with a switch
character, which option it names, whether it has an equals sign, and its letters
if it may be a clump. `argv` is the array that `ShuffleArg` rearranges in place,
`m_nNextOption`, `m_nLastArg` and `m_pszClump` are the parser's position. `given`
keeps the command line as it was, and `FilesInOrder` and `SettingsAsGiven` say
what it means in one reading from left to right, independently of the parsing:
options count up to `--` or a clump of letters that contains a hyphen, all of whose
letters count.
`StaticBuf` stands for `SO_STATICBUF`; when the allocation of a larger buffer
fails the constructor does not notice, and the array on the stack is overrun.

`LookfsMain` goes on with the output file (`streams` counts the open ones), the
token of the process with its privileges and `CSnapEnableAssignedPrivilege`,
whose destructor runs at the end. A traversal is here only its result
(`Results`) and the imports it calls in whatever order; for a path that is empty or
has no full name it calls none (`ReturnEarly`).

### SimpleBuf and FileQuery

A buffer is the number of its elements and the number of those before the first
zero. `FileQuery` runs one constructor at a time, step by step through the calls
of the system: ask for the length of the path, fill it in, read the attributes,
open, query, close. Others may change the file or the current directory between
any two steps (`Interfere`), a call may fail, an allocation may throw. When the
length of the current directory cannot be had, `.` is taken like any other path
(`MeasureDirectory`); when the name cannot be filled in the path stays as it was
given (`FillInFails`). The ghost
`disturbed` tells the properties about truth from those that hold in any case.
When the attributes could not be read they are all ones, so that
`CAlternateDataStreams` opens the file with `FILE_FLAG_DELETE_ON_CLOSE` among
the flags (`DeleteOnClose`).

### MockQueues, Checks, TestHeap, TestFunction, TestRunner

The functions of a test program are nondeterministic: at each step they may
declare or use a value, a check or a call, assert, allocate, free, overwrite a
guard, skip, fail, or enter `expect_assert_failure`, within the kinds of
behaviour that the program of the instance has (`does`). `at` says where the
function stands, including how the process ended: `exited`, `aborted`, `crashed`,
or `wild` after a jump into a function that has returned. A failure sets `at`
back to the runner and leaves everything else as it is, which is what `longjmp`
does; this is how flags and messages stay behind.

The queues hold what is left of each declaration with the counter the code keeps:
positive ones count down, -1 is "always, at least once", -2 "any number of times".
In `TestHeap` a check point is an address, as in the code, so that a block freed
and allocated again at the same place can deceive it; `by` is a ghost. From a check
point that is not initialised, or whose block is gone, the code follows whatever the memory holds:
any suffix of the list is taken for what was allocated since, or the process ends. `TestRunner`
is the control flow of `_cmocka_run_group_tests`, `_run_tests` and
`_run_group_tests` with `stage` and `current` for the place in it, and the
reports of the formats by what they say of the numbers and of each test. A hole in
`cm_tests` is read when its turn comes, or at the end of a group whose setup failed, when its
message is freed (`MessageAstray`); what is not initialised may be NULL, too, so that the
runner may also go on. `_run_tests` and `_run_group_tests` keep their own tables in blocks of the
list of the tests' blocks, behind the group's check point and before those of the functions;
these blocks are left out, but allocating them may fail (`OpenTests`).

## Runs

| run | property | what it says |
|---|---|---|
| `handle` | `TypeOK` | cursor, offset taken out and links fit together at every step |
| | `InOrderOnce` | entries come in the order of the listing, none twice, none unwanted |
| | `NothingSkippedInBuffer` | the walk along the buffer visits every entry of it |
| | `CompleteIfFits` | a listing that fits into the first buffer comes complete |
| | `FailureIsReported` | NULL after a failure is never taken for the end |
| | `NameTerminatedInFirstBuffer` | names are followed by a zero in the buffer of the first scan |
| | `BufferAccounted` | `BufferWithinLimit` and `AllocatedBytesOver`: the counter is off only by the buffers given up after a failed free |
| | `KeepsPromise` | the find handle implements `DirListing`, in which the end is final |
| | `CallReturns` | every call returns although the loop goes on after a success |
| `walk` | `ResourcesHeld` | `TypeOK` and `NothingLeaked` |
| | `DepthFirstOnce` | depth-first order, nothing twice |
| | `CutsTold` | `CompleteUnlessCut` and `ContinuedErrorForgotten`: what is left out has been decided or told in a callback, except behind a failed query, of which nobody is told |
| | `WalkReturns` | the walk returns |
| `lookfs` | `FindersHeld` | `TypeOK` and `FindsClosed` |
| | `ErrorReachesExitCode` | an error at any depth reaches the result of the process |
| | `LookedAtAsListed` | `LookedAtOnce` and `SeenUpToSubdirectory` |
| | `Ends` | the tool ends |
| `search` | `HandlesOwned` | `TypeOK` and `DirectoriesOwned`: no failure leaves a directory open |
| | `RecursionConsistent` | `NameHasOneBackslash` and `SameMaskAtAllLevels` |
| | `DamageKnown` | `LossesKnown` and `AbsoluteIsSafe`: strings are lost, and the heap damaged, contrary to the comments but in no other ways than those named |
| `api` | `SharedSafely` | `TypeOK`, `SharedInOrderOnce`, `CopiedFromCurrentBuffer` |
| | `CountersAddUp` | `AllocatedBytesConserved` and `ConfinedCounterExact` |
| | `NullCallOnlyUninitialised` | a NULL pointer is called only without a successful `NativeFindInit` in that thread |
| | `StatusSettled` | `NativeFindLastStatus` sees an intermediate status only while another thread, in the critical section, is between two queries |
| | `LockGivenBack` | the critical section is always left |
| `query` | `BuffersFit` | `TypeOK`, `AllTerminated`, `PrefixOnlyExplained`: the full name is there but for interference, failures, and names of one character when nothing is to spare |
| | `ShownTruthfully` | `ResultTruthful`, `LinksHaveNames`, `PrintedInitialised`, `IdOfReparsePoint`: what is said of reparse points, links and their ids; not the names of other surrogates nor the ids of other files |
| | `StreamsListed` | `StreamsAllOrNone` and `StreamsTruthful` |
| | `QueryLeavesFileAlone` | a query changes no file whose attributes it could read |
| | `Returns` | the constructors end |
| `main` | `CommandLineObeyed` | `TypeOK`, `FilesInOrder`, `SettingsAsGiven`, `OverrunOnlyOutOfMemory`, `OneOutputFile` |
| | `EnabledMeansHeld` | a privilege that was enabled is held by the token |
| | `EndsInOrder` | `ExitCodeIsWorst` and `OldNtdllSuffices` |
| `cmocka` | `MocksAsDeclared` | `TypeOK`, `ReturnsAsDeclared`, `CallsInOrder`, `PassedMeansAllUsed`, `LeftoverHasReason` |
| | `NoLeakPasses` | no test that passes leaves a block |
| | `AssertionsMeanIt` | `AssertionsTruthful` and `ReturnCodeTold`: a return code passes exactly if it is neither negative nor the largest of its own type |
| | `AccidentsExplained` | `WildOnlyAfterFailureInside` and `CrashOnlyByHole`: the only accidents of the runner are at a hole in `cm_tests` and at a stale check point |
| | `OutcomesCounted` | `NoFailureLost`, `MessageOfOwnTest`, `TestsRunAfterSetup` |
| | `ReportsTruthful` | `XmlHeaders`, `FailuresReported`, `TapPlanKept` |
| | `TestsKeptApart` | `LeakCheckFreesOwn` and `SkipIsOwn` |
| `handle_loses`, `walk_skip`, `lookfs_all`, `leftover_maybe` | `AllEntriesDelivered`, `SkipIsNotAnAbort`, `AllSeen`, `MaybeNeverFails` | violated, see the findings |

A property that is a conjunction of named parts is checked as one; each part has
its own comment in the module.

### Bounds, and why they are enough

- `handle`: up to 4 entries of 2 or 5 bytes, with or without
  dots; limits 3 and 8, initial sizes 1, 3 and 9 (larger than the maximum). All
  paths depend on how chunks compare with the buffer and on whether it can still
  grow; four entries give a first, a lost, a repeated and a last chunk, two sizes
  give chunks that shrink and grow from one query to the next.
- `walk`: a tree with `.`, a subdirectory, files and a mount point that leads back
  to the root, to depth 3, so that the loop is taken twice. An invocation interacts
  only with the one above and the one below it.
- `lookfs`: command lines of up to two paths on a tree three levels deep with links,
  a junction to its own directory, an empty directory and entries behind a
  subdirectory; every call may fail. Two paths suffice because the loop in `main`
  keeps nothing but the largest result, and one failure of `GetFileAttributes`
  because each is forgotten with the frame it is in.
- `search`: three levels, so that a level in the middle has one above and one below;
  absolute and relative paths with every kind of mask. Strings that are lost never
  come back, so that calls start only until `MaxLost` (6) are.
- `api`: two threads and one handle, which both may open, use, pass on and close;
  three entries, so that each thread gets one and one is left; a buffer that grows
  once; eight versions of `ntdll.dll`, seven of which lack something. Handles share no
  state but the per-thread values, which one handle opened repeatedly exercises.
- `query`: pointers of 4 elements, so that rounding up leaves 0 to 3 elements;
  current directories of 3 to 6; a streams buffer that has to grow three times;
  one change by others, which is the most that matters between two looks.
- `main`: all command lines of up to three arguments out of twelve kinds, with a
  stack buffer of two pointers, so that it is sometimes too short; a token of two
  privileges.
- `cmocka`: for every kind of behaviour the groups that it needs (`MCTestRunner`),
  five steps of a function for values, four for calls, two for the heap, bytes of 2 bits,
  so that a type's limits are small numbers, three addresses, which are used again,
  a group with a hole that fails its setup, three groups that report to any of three files: a header can be missing in one file
  because of what was done to another one, which no group need have used before.

### Fairness

`FairSpec` of `FindHandle`, `ZeroCopy`, `LookfsTraversal` and `FileQuery` has weak
fairness of the steps inside a call, and none of the caller's actions: a call runs
in the thread of its caller, waits for no other thread, and its system calls and
callbacks return. Nobody has to make another call. In `FindApi` every thread that is
in a call is scheduled (weak fairness for each); that one of several waiting for a
critical section gets it is not assumed, so no property promises it. `LookfsMain` and
`TestRunner` have no fairness and no liveness property: every step of a test is the
program's choice, and the loops of `main` run over finite arrays.

Deadlock is checked in all runs except those of `ZeroCopy`, where a process that has
died of a NULL path has no successor.

## What is proved

`FindHandle_proofs`, for every set of listings, every buffer size and limit that
satisfies the two named assumptions of `FindHandle`:

- `TypeCorrect`: `Spec => []TypeOK`. Already this needs more than the types: that
  the cursor stays within the buffered entries depends on the offset that was
  taken out of the next entry, so the invariant has `CursorInv` as a conjunct: the
  offset in force at the cursor links to the next buffered entry exactly if
  there is one, and the links beyond the cursor are untouched.
- `EntriesInOrderOnce`: `Spec => []InOrderOnce`. The strengthening is `OrderInv`:
  no delivered entry lies behind what the walk has consumed, and nothing has
  been delivered while the first scan, the only one that may restart, runs.
- `FittingListingsComplete`: `Spec => []CompleteIfFits`. The strengthening is
  `FirstScanInv` (in the first scan the buffer has been grown at least once
  before a repeated query, up to `GuaranteedSize`) and `FitInv`: once the first scan
  is over, the kernel's scan stands at the end of a listing that fits, and
  everything up to the cursor has been delivered.
- `BufferWalkedWhole`: `Spec => []NothingSkippedInBuffer`. `BufferInv` says at every
  entry, not only when a call returns, that what lies before it in the buffer has been
  delivered.
- `FailuresReported`: `Spec => []FailureIsReported`. `StatusInv` says of the status of
  the handle what the property says of the result, at the points from which NULL is
  returned, and that no query runs once the end has been seen.
- `FirstNamesTerminated`: `Spec => []NameTerminatedInFirstBuffer`. The queries of the first
  scan start over, and with one size of the buffer the kernel returns one chunk; so no
  more has been written than the chunk the scan ends with (`TermInv`), which rests on the
  offsets growing with the entries.
- `BufferCounted`: `Spec => []BufferAccounted`, failed frees included. It is
  inductive together with `FirstScanInv`, which knows the size the first buffer gets.

- `PromiseKept`: `Spec => KeepsPromise`, the refinement of `DirListing`. Each step is mapped
  on its own: a new handle is an `Open`, an entry that is returned a `Deliver`, the end that is
  noted an `End`, closing a handle or failing to open one a `Close`; the rest stutters. That an entry lies behind
  those before it is `OrderInv`, that none is missed in a listing that fits is `FitInv`,
  and that no entry is returned once the end is noted is `StatusInv`.

With these every invariant of the run `handle` and the refinement it checks are proved. The conjuncts of `IndInv` are the
layers of the induction.

The assumptions say that a listing has offsets that grow with its entries and
that sizes are positive with the large buffer no larger than the maximum.

`SearchResources_proofs`, for all paths, names and depths:

- `NoDirectoryLost`: `Spec => []HandlesOwned`, `RecursionFindsTheSame`:
  `Spec => []RecursionConsistent`, and `OnlyKnownDamage`: `Spec => DamageKnown`. The three
  share the invariant `IndInv`: how many strings a call holds depends on the point
  it is at and on its mode (`HeldInv`); only a path of the other mode has its buffer
  moved (`InteriorInv`); the path of a call is one of the caller's, or has three
  parts of which the last is the mask of the search above (`PathInv`); and masks are
  all equal and have been shortened (`MaskInv`), so that shortening them again does
  nothing. The action properties follow from it step by step.

The assumptions: the paths are sequences of known parts, each ending in a mask or a
backslash, and no name of a subdirectory is a backslash.

`ZeroCopy_proofs`, for all trees (loops among them), flags and depths:

- `NothingLost`: `Spec => []ResourcesHeld`. `NothingLeaked` counts path names and contexts
  only between two walks; the invariant `IndInv` counts them at every step (`Counted`):
  as many as there are frames that are marked as holding one. `RunningFrame` says what the running frame holds at each point; without it a
  step that releases something could take it from a frame that has none.
- `DepthFirst`: `Spec => []DepthFirstOnce`. The property speaks of all reports; what a
  step needs is where the last one lies relative to the running frame (`OrderInv`): at
  its place from the report of an entry until the walk moves on, at or before it
  between entries, also when the invocation below has just returned and its reports
  lie underneath the entry. Every new report then is behind the last one, and
  `Before` is transitive.

- `CutsKnown`: `Spec => []CutsTold`. The property speaks of the end of a walk; `WalkInv` says
  of every step where the walk stands: all wanted entries in front of the running frame's
  position have been reported, none behind it (`AllListed`, `NoneAhead`), each frame is about
  the directory its parent has just reported (`Chain`), and every directory that was
  reported and is not on the stack has been walked to its end or is in `cut` (`AllWalked`,
  `RootWalked`); while a recursion that failed has not been told yet, the directory it
  was for is neither, which the phase "failed" of `WalkInv` stands for (`CoverFailed`). These five are one operator of the stack, the reports and the cuts
  (`Covered`); the lemmas `Cover...` say what it does under each way the stack moves, and
  the steps of `recurseIntoDirectory_` are instances of them. It needs both invariants above.

The assumption `TreeAssumption` gives the constants their types; nothing is assumed of the
shape of the tree.

`FindApi_proofs`, for all sets of threads and handles and all versions of `ntdll.dll`:

- `SharingSafe`: `Spec => []SharedSafely`. `LockInv` is the mutual exclusion, which has two
  reasons: a handle that NativeFindFirstFile has not returned is known to its thread
  alone, and one that has been returned is owned by the thread inside. No handle is
  closed under a thread that uses it. `DataInv` says that what has been delivered is
  not ahead of the handle's position, and that what a thread has taken is still the
  current entry of the current scan when it is copied.
- `InitialisedThreadsSafe`: `Spec => []NullCallOnlyUninitialised`. `PointerInv` says that
  nothing is missing where `NativeFindInit` succeeded or the library is linked.
- `StatusIsFinal`: `Spec => []StatusSettled`. `StatusInv` ties the status that steers the
  query loop to a thread in its scan, which by `LockInv` is in the critical section of the
  handle, and says that no scan runs on a handle whose end was seen. The status is not
  hidden: a thread that asks without the critical section sees it.

- `CountersExact`: `Spec => []CountersAddUp`. That the sums agree is an invariant of its own
  (`SumInv`); that a thread's counter is exact (`ExactInv`) needs `OwnInv`: as long as no
  handle has crossed, who is busy with one has opened it, so that whoever grows or frees it
  is the one who counts it. The sums are folds over finite sets. What they compute is
  proved with minimal counterexamples: of a collection of finite sets some set is minimal
  (`LeastSet`), hence `SumShift`: when what is summed changes at one place, the
  sum changes by as much.

`ApiAssumption` gives the constants their types and says that there is a thread and a handle,
and finitely many of either.

`LookfsTraversal_proofs`, for all trees (junctions to a directory above among them), command
lines and bounds on the failures:

- `FindersReleased`: `Spec => []FindersHeld`. `ShapeInv` says what the running frame has at
  each point; the open handles are counted by the frames that are past their first entry.
- `ErrorsReachExitCode`: `Spec => []ErrorReachesExitCode`. `ErrorInv`: an error that has been
  noticed is in the result of a frame, on its way as the value just returned, or
  in the result of the process, and nothing else is in these places.
- `LooksAsListed`: `Spec => []LookedAtAsListed`. Only the frame on top of the stack
  ever looks at entries, since `traversePath` returns after its first subdirectory; the
  others are on their way out. So `LookInv` speaks of the top: its search is the deepest
  of the argument it belongs to (`DeepestInv`), and either nobody has looked at what it has not passed
  yet or it is the repetition of a search whose directory's attributes could not be read
  (`CursorInv`); `DoneInv` keeps what is known of searches that are over.

`FileQuery_proofs`, for all paths, current directories, numbers of streams and changes:

- `AllBuffersFit`: `Spec => []BuffersFit`, `ShownAsIs`: `Spec => []ShownTruthfully`,
  `AllStreamsListed`: `Spec => []StreamsListed`, and `FileLeftAlone`:
  `Spec => QueryLeavesFileAlone`, an action property. The properties speak of a finished
  query; `QueryInv` says for each point of a constructor what is known there: of the
  buffers always (`BufferInv`: as long as the current directory is the same and no call has
  failed, the length asked for is the one needed; `FitsUnless`: it is enough but for a name of one
  character), of the file only while nobody has disturbed the query
  (`FileInv`, `ReparseInv`, `StreamsInv`).

`QueryAssumption` gives the constants their types and says that there is a path to query and
that a file may have a stream.

`LookfsMain_proofs`, for command lines, tokens and results of any number:

- `PrivilegeHeld`: `Spec => []EnabledMeansHeld`, with the point in the loop over
  the token's privileges (`PrivilegeInv`); `EndsAsItShould`: `Spec => []EndsInOrder`
  with `EndInv`, in which the worst of the results is that of the paths traversed so far.
- `ObeysCommandLine`: `Spec => []CommandLineObeyed`. `ReadInv` says what `argv` holds at any
  time: the arguments not yet read, in their order, and behind them the files that were
  moved, in theirs (`UnreadInv`, `FilesInv`); until an argument stops there
  was none in what is read (`StopInv`), and the settings are those of what has been read, a clump
  taken apart up to a letter (`TakeInv`, `SettingsInv`); all of this as long as the buffer has not
  been overrun. `ShuffleArg` rotates part of the array, so the
  files' places are given by an increasing function from the array to the command line.
  `BufferInv` says when the array on the stack is enough.

The assumptions give the constants their types: arguments of the known kinds, results that are
numbers.

`TestRunner_proofs`, for all programs and whatever their functions do to mocks and heap:

- `AccidentsAreExplained`: `Spec => []AccidentsExplained`. `WildInv`: the jump target of
  `expect_assert_failure` is only left behind by a failure inside; `CrashInv`: where the
  runner crashes. A test without a name is reached only if one with a name is behind it, since
  as many tests are run as have names (`Pigeonhole`). That messages which are not
  initialised are freed only after the setup of the group failed (`AstrayOnlyUnrun`) needs `NamedInv`:
  the tests that were run have names.
- `OutcomesAreCounted`: `Spec => []OutcomesCounted`. For `_cmocka_run_group_tests`, `GroupInv` says which
  tests are over and with what status (`StatusInv`), that a status tells of every
  function that failed within the test (`FailedInv`), and that the counters are those of the tests that are over
  (`CountInv`). For `_run_tests`, `EntryInv`: the flag `run_next_test` is what the last setup
  before the current entry came to. `MessageInv`: the buffer of messages is empty whenever the function
  of another test starts.
- `ReportsAreTruthful`: `Spec => []ReportsTruthful`. `LinesInv` keeps what a TAP consumer has been
  told, `ListedInv` that the list of failures is made of the final statuses. `XmlInv`:
  `xml_printed` is set only once a report was printed or was written behind another
  one. The proof failed for the property as it was first stated, which named other files with two
  reports as the only reason for a missing header: a third file whose first report was appended
  to contents from before is another one, and two files had been too few to show it.

- `LeaksAreFound`: `Spec => []NoLeakPasses`, and `TestsAreKeptApart`: `Spec => TestsKeptApart`. A check
  point is only an address, and the block there may have been freed and another one put in its
  place. `HeapInv` says what the list keeps all the same: it is in the order of the functions that allocated
  (`HeapWell`), and behind the block a check point was taken at stand only blocks that are newer than the check
  point (`Marks`), for each check point that is still in use (`PointsInv`: that of the function, of
  the group, of the setup of a test, and those `_run_tests` has stacked). So a leak check frees a suffix of
  the list, with nothing older in it unless nothing is where its check point was taken (`FoundBlocks`), and
  finds nothing only where nothing is left or its block is gone (`Clean`, kept from that check to
  the end of the function by `LeakInv`). `SkipInv`: the flag of a test's own skip is set only from that
  call of `skip()` to the end of the test.

- `MocksAreAsDeclared`: `Spec => []MocksAsDeclared`. The properties count: how often an entry was
  returned, how many calls were accepted. What makes them inductive is the shape
  of a queue (`QueueWell`): it is the last part of what was declared, only its first
  entry may be partly taken, and what was taken before is all of the entries before, in their order
  (`DeclaredWell`, `ByOrder`, `Left`); the same for the calls, whose queue keeps those that need not
  be made (`OrderedWell`, `CallsByOrder`, `CallsWell`). `UsedInv`: as long as a function runs, the
  check for values is still to come, or it has been made and all was used. With `FrameInv`
  and `RunnerVars`, the types of what the others do not speak of, the theorem contains
  type correctness (`TypeOK`).
- `AssertionsAreMeant`: `Spec => []AssertionsMeanIt`. `JudgedInv` says that the verdict is
  that of a comparison of the program; the rest is arithmetic for bytes of any
  number of bits. The prover knows nothing of powers of two; the lemmas `Power`, `Bigger` and
  `Twice` have them from the numbers of subsets of finite sets. `WordNumbers`: a number that
  is not negative is its own word, any other one is in the upper half.

No function step moves the runner (`FunctionOnly`), and a function ends in few ways; so the
invariants are proved for each step of the runner, and once for all steps of functions.
`ProgramAssumption` says that the groups of a program fit their runners, that there is a bound to
the steps of a function and that the blocks it holds at the start are different ones,
`FileAssumption` that the standard streams are no files. `ComparisonAssumption` says what can be
compared at all (`Comparable`): numbers of one type, signed or unsigned, a range whose
first end is not the larger one, memory of which as much is there as is compared (the code would
read on behind it), and a return code of a signed type or an unsigned byte (of a larger
unsigned type the upper half would fail as if it were negative).

Every safety property that a passing run checks is thus the subject of a theorem. Only
model-checked: liveness, which is out of the prover's reach, as is `ENABLED`. An induction over
data cannot be had from the library's induction
theorems, which take an operator as their parameter; where a proof needs one (sums in
`FindApi_proofs`, the first argument of a kind in `LookfsMain_proofs`), it is an argument by a
minimal counterexample from a theorem about sets.

## Findings

1. `handle_loses`: on every scan but the first, the query loop repeats a query
   that has succeeded without restarting the scan; the entries read first are
   overwritten. A directory that does not fit into the first buffer loses
   entries (`ntfindfile.c:392`, `:432`, comment at `:450`).
2. `walk_skip`: `STATUS_NTFIND_SKIP_RECURSION` from the NewContext callback, as
   `ntfindfile.h:218` asks for, ends the walk of the directory (`ntfindfile.c:957`).
3. `lookfs_all`: `traversePath` returns after its first subdirectory, so that what is
   listed behind it is never looked at (`lookfs.cpp:682`, help text at `:614`).
4. `leftover_maybe`: of the values declared with `will_return_maybe` for a function only the
   first in its list is taken away before cmocka looks for what is left over, so that a second
   one fails the test (`cmocka.c:798`), where `cmocka.h:366-368` says it never does. `LeftoverHasReason`
   names this reason among those for which a test fails.

Noticed while modelling, with the code as it is in the model and without a run of
their own:

- `ntfindfile.c:432`: the second query writes into a buffer that still holds the first
  chunk; beyond the first scan the last name may be followed by old bytes, where
  `ntfindfile.h:194` guarantees termination.
- `ntfindfile.c:307-317`: when the old buffer cannot be freed the counter keeps the size
  of the new one, which is given back; from then on `NativeFindGetAllocatedBytes` does not
  return "the amount of Bytes currently allocated" (`ntfindfile.h:172`).
- `ntfindfile.c:981-998`: continuing after a failed allocation of the path name
  recurses with a NULL path.
- `ntfindfile.c:925`: `.` and `..` of the root are given to the callbacks, which are said
  not to be called for the root (`ntfindfile.h:246`).
- `ntfindfile.c:1016`: an error that ends the enumeration of a directory is returned as
  success.
- `ntfindfile.c:679`: the test for a trailing backslash is inverted, so that the second
  attempt to open a directory is never made; `:687`: a path that ends in a backslash
  leads to a NULL pointer.
- `ntfindfile.c:592`: the string "will get freed down the call path", and `:740-741`: "it's
  on the caller now to free this", says the code that hands over the two strings; but
  `freeFindHandle_` (`:225-248`) frees neither, so each find handle loses both, and the part
  name of a subdirectory is overwritten by a second one (`:688`) and lost as well. Of a path
  relative to the current directory `usNtPathName` points into the middle of its block
  (`:663`): that block is lost, and whatever frees the string after a failure frees a pointer
  that was not allocated. `DamageKnown` says that there is no other loss and no other damage.
- `ntfindfile.c:241`: the critical section is deleted while another thread may wait for it; if
  `NtClose` was not found, `:860` handles the exception and the critical section is never left.
- `ntfindfile.c:867`: `NativeFindLastStatus` does not enter the critical section, so that another thread
  may read STATUS_ALLOTTED_SPACE_EXCEEDED, with which no call has ended.
- `ntfindfile.c:731`: every mask that begins with `*.` finds everything.
- `lookfs.cpp:395`: a boolean is passed as flags; `:403`: with `-i` an empty directory gives
  an entry without a name (comment at `:400`); `:519`: the backslash of a drive's root is
  taken off; `:694`: an error of Next ends the loop like the end of the listing;
  `:134`, `:786`: `operator!` of the output stream is inverted.
- `ReparsePoint.hpp:239` and `AlternateDataStreams.hpp:239`: any path but `.` is "handled
  fine by GetFullPathName()" (`:219` of both), but the room asked for a path of one character
  is one element short of the name behind the prefix; unless the size is rounded up
  (`VerySimpleBuf.hpp:131`), the second call reports the length it needs, which `:241`
  takes for success, and the bare prefix is used as the path. `PrefixOnlyExplained` names the case.
- `ReparsePoint.hpp:329`: the file id of a file that is no reparse point is made with the low
  part of the size, and `lookfs.cpp:354` prints it as its index; `lookfs.cpp:308-323`: of
  name surrogates other than the two links NULL pointers are printed for the names;
  `ReparsePoint.hpp:277`: an allocation that throws leaves the file open.
- `lookfs.cpp:792`: in a clump of letters, such as `-v-i`, a hyphen is `--`: `Stop` is called,
  but "The next call to Next() will return false" (`SimpleOpt.h:444`) does not hold, as `Next`
  first returns the letters behind it (`SimpleOpt.h:616`). They are in the argument that
  stops, so that the files are the same.
- `priv.h:61`: the privilege is disabled at the end also when it was enabled before.
- `cmocka.c:1625`: `assert_return_code` takes the largest value of the code's type (`INT_MAX`, 255
  of an `unsigned char`) for an error, while `cmocka.h:1084-1088` says that it fails "if the
  return code is smaller than 0". `ReturnCodeTold` names the exception.
- `cmocka.c:2804`: a test without a name before one with a name leaves a hole that is read when its
  turn comes, or at `:2920` when the setup of the group has failed;
  `:3184`: the check point of a group without a group setup is not initialised; `:2923`: a
  failed test that leaves a block ends the process; `:3140`: a difference of counters
  wraps; `:1807`: messages are cut off; `:438`: a group named `%g` makes the replacement
  endless; `:2203`: a report appended to a file counts as a header; `:2347`: TAP prints
  `ok` for a group whose setup failed.

## What is not modelled, and why

- `testfind.c`, `VersionInfo.hpp`, `exeversion.h`: straight-line use of the other parts, or
  formatting of one resource.
- `ntnative.h`, `ntdll-stubs`, `SimpleGlob.h`: declarations, generated empty functions, and a
  header no source includes.
- The exception filter and `force_resolve_all` of `delayimp.c`, the comparison operators of
  `CVerySimpleBuf`, privileges of a thread's own token, and the flags of SimpleOpt that
  `lookfs` does not set: nobody in the repository uses them.
- Wording, tracing and layout everywhere; times and sizes of entries
  (`populateFindFileData_` copies them); character encodings; of cmocka also timing, file
  names made from patterns, the text of messages and the states that tests hand on.

What is left to do: a refinement of `FindApi` onto a handle whose calls are atomic.
