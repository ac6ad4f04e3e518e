--------------------------------- MODULE TestRunner ---------------------------------
(***************************************************************************)
(* A test program that uses cmocka: one group of tests after another, each *)
(* run by _cmocka_run_group_tests or by one of the two older runners,      *)
(* _run_tests and _run_group_tests, and what is reported at the end of a   *)
(* group (cmocka/src/cmocka.c).                                            *)
(*                                                                         *)
(* A program is [does : [what, most, abort], before, format, present,      *)
(* groups], and a group [runner, setup, teardown, tests, file].  before    *)
(* are the blocks it holds at the start.  For the runner "group" the tests *)
(* are [named, setup, teardown], for "tests" and "group_tests" they are    *)
(* function types.  file is what CMOCKA_XML_FILE comes to for this group.  *)
(***************************************************************************)
EXTENDS TestFunction

CONSTANTS
  Programs,  \* see above
  XmlFiles   \* files the XML reports may go to

(* What an entry for the older runners is, "none" one without a function, and*)
(* what is left of a CMUnitTest, whose test counts only if it has a name.    *)
FunctionTypes == {"setup", "test", "teardown", "group_setup", "group_teardown", "none"}
UnitTest == [named : BOOLEAN, setup : BOOLEAN, teardown : BOOLEAN]

(* What a group's runner takes as its tests                                  *)
TestsFit(gr) ==
  \/ gr.runner = "group" /\ gr.tests \in Seq(UnitTest)
  \/ gr.runner \in {"tests", "group_tests"} /\ gr.tests \in Seq(FunctionTypes)

(* The standard streams are no files, and no file is named like them.        *)
ASSUME FileAssumption == XmlFiles \cap {"stdout", "stderr", "none"} = {}

ASSUME ProgramAssumption ==
  \A p \in Programs :
    /\ p.format \in {"stdout", "tap", "subunit", "xml"} /\ p.does.most \in Nat
    /\ p.before \in Seq(Addresses) /\ IsInjective(p.before)
    /\ p.groups # <<>> /\ p.groups \in Seq({ p.groups[k] : k \in DOMAIN p.groups })
    /\ \A k \in DOMAIN p.groups : TestsFit(p.groups[k]) /\ p.groups[k].file \in XmlFiles \cup {"none"}

VARIABLES
  prog,      \* the program that runs
  g,         \* its group
  stage,     \* where in the group the runner is
  current,   \* the test, or the entry, it is at
  total,     \* [executed, passed, skipped, failed, errors]
  groupCp,   \* the check point of the group
  testCp,    \* of the setup of the test, or of the older group setup
  status,    \* of each test, as in CMUnitTestStatus
  told,      \* of each test: whose messages it was given
  own,       \* ghost: of each test, the functions that were run for it
  stack,     \* test_states: the check points of the setups still open
  runNext, previousTestFailed, previousSetupFailed,
  ran,       \* ghost: the entries whose functions were called
  failedIn,  \* ghost: where a function failed: <<stage, current>>
  lines,     \* what was reported of the tests of this group: [number, result]
  listed,    \* the tests the group's report says have failed; 0 is the group
  returned,  \* what the runners have returned
  sinks, xmlPrinted, fileAppend  \* what the XML reports were written to

older == <<stack, runNext, previousTestFailed, previousSetupFailed, ran>>
newer == <<status, told, own, lines, listed>>
xml == <<sinks, xmlPrinted, fileAppend>>
place == <<g, stage, current>>
checkPoints == <<groupCp, testCp>>
process == <<function, heap, mocks, does, prog, returned>>
vars == <<process, place, total, checkPoints, newer, older, failedIn, xml>>

group == prog.groups[g]
Sinks == XmlFiles \cup {"stdout", "stderr"}
NoTotal == [executed |-> 0, passed |-> 0, skipped |-> 0, failed |-> 0, errors |-> 0]
Statuses == {"not_started", "passed", "skipped", "failed", "error"}

TypeOK ==
  /\ MocksTypeOK /\ HeapTypeOK /\ FunctionTypeOK
  /\ prog \in Programs /\ does = prog.does /\ g \in DOMAIN prog.groups
  /\ DOMAIN total = DOMAIN NoTotal /\ \A k \in DOMAIN total : total[k] \in Nat
  /\ status \in Seq(Statuses) /\ DOMAIN told = DOMAIN status /\ DOMAIN own = DOMAIN status
  /\ runNext \in BOOLEAN /\ previousTestFailed \in BOOLEAN
  /\ previousSetupFailed \in BOOLEAN
  /\ returned \in Seq(Int) /\ DOMAIN sinks = Sinks
  /\ xmlPrinted \in BOOLEAN /\ fileAppend \in BOOLEAN
  /\ (at \in {"body", "checks"} => stage \in {"group setup", "setup", "test", "teardown",
        "group teardown", "entry runs", "older setup", "older test", "older teardown"})

Init ==
  /\ prog \in Programs /\ does = prog.does
  /\ MocksInit /\ HeapInit(prog.before) /\ FunctionInit
  /\ g = 1 /\ stage = "open" /\ current = 1 /\ total = NoTotal
  /\ groupCp = cp /\ testCp = cp
  /\ status = <<>> /\ told = <<>> /\ own = <<>> /\ lines = <<>> /\ listed = {}
  /\ stack = <<>> /\ runNext = TRUE
  /\ previousTestFailed = FALSE /\ previousSetupFailed = FALSE
  /\ ran = {} /\ failedIn = {} /\ returned = <<>>
  /\ sinks = [s \in Sinks |-> IF s \in prog.present THEN <<"other">> ELSE <<>>]
  /\ xmlPrinted = FALSE /\ fileAppend = FALSE

-----------------------------------------------------------------------------
(* What the runners have in common                                           *)

At(where) == stage = where /\ at = "idle"
Static == UNCHANGED <<does, prog>>
Idle == UNCHANGED <<function, heap, mocks, does, prog>>

Calling(old, k, c) == Begin(old, k, c) /\ Static
Failed == rc # 0
FailedHere == failedIn' = failedIn \cup (IF Failed THEN {<<stage, current>>} ELSE {})

Add(counters) ==
  total' = [c \in DOMAIN total |-> total[c] + (IF c \in counters THEN 1 ELSE 0)]

(* exit_test when no test is running                                         *)
ExitProgram ==
  /\ at' = IF does.abort THEN "aborted" ELSE "exited"
  /\ UNCHANGED <<legacy, kind, todo, cp, nth, steps, rc, why, verdict, running,
                 expecting, inside, left, buffered, skip, message, mocks>>
Crash ==
  /\ at' = "crashed"
  /\ UNCHANGED <<legacy, kind, todo, cp, nth, steps, rc, why, verdict, running,
                 expecting, inside, left, buffered, skip, message, mocks>>

NextGroup(value) ==
  /\ returned' = Append(returned, value)
  /\ IF g < Len(prog.groups) THEN g' = g + 1 /\ stage' = "open"
     ELSE g' = g /\ stage' = "done"

(* total_tests: those that have a name                                       *)
TotalTests == Cardinality({ k \in DOMAIN group.tests : group.tests[k].named })

ReturnValue ==
  CASE group.runner = "group" -> total.failed + total.errors
    [] group.runner = "tests" /\ stack # <<>> -> -1
    [] OTHER -> total.failed

(* vcm_free_error of the messages of as many of cm_tests as were filled in:  *)
(* when the setup of the group failed, none of them has been read before, and*)
(* one that was left out among them is not initialised.                      *)
MessageAstray ==
  group.runner = "group" /\ \E k \in 1..TotalTests : ~group.tests[k].named

(* The last thing a runner does.  What is not initialised may be NULL, which *)
(* can be freed.                                                             *)
CheckGroupBlocks ==
  /\ At("check")
  /\ \/ \E found \in AllocatedSince(groupCp) :
          IF found = <<>>
          THEN NextGroup(ReturnValue) /\ UNCHANGED <<function, heap, mocks>>
          ELSE FreeAllocatedBlocks(found) /\ ExitProgram /\ UNCHANGED <<g, stage, returned>>
     \/ (Dangling(groupCp) \/ MessageAstray) /\ Crash /\ UNCHANGED <<heap, g, stage, returned>>
  /\ Static /\ UNCHANGED <<current, total, checkPoints, newer, older, failedIn, xml>>

-----------------------------------------------------------------------------
(* _cmocka_run_group_tests                                                   *)

OpenGroup ==
  /\ At("open") /\ group.runner = "group"
  /\ status' = [k \in DOMAIN group.tests |-> "not_started"]
  /\ told' = [k \in DOMAIN group.tests |-> {}] /\ own' = told'
  /\ lines' = <<>> /\ listed' = {} /\ failedIn' = {}
  /\ total' = NoTotal /\ current' = 1 /\ groupCp' = Own
  /\ IF group.setup THEN Calling(FALSE, "setup", Own) /\ stage' = "group setup"
     ELSE Idle /\ stage' = "next"
  /\ UNCHANGED <<g, testCp, older, returned, xml>>

(* There is no memory for the results.                                       *)
OpenGroupFails ==
  /\ At("open") /\ group.runner = "group" /\ "heap" \in does.what
  /\ NextGroup(-1) /\ Idle
  /\ UNCHANGED <<current, total, checkPoints, newer, older, failedIn, xml>>

(* cmprintf: what is printed when a test or, as number 0, a group fixture    *)
(* ends.  To TAP, a test that was skipped is not ok either.                  *)
Line(number, result) ==
  CASE prog.format = "xml" -> <<>>
    [] prog.format = "tap" ->
         <<[number |-> number, result |-> IF result = "passed" THEN "ok" ELSE "not ok"]>>
    [] OTHER               -> <<[number |-> number, result |-> result]>>

(* Mutant: the failure is reported only.                                     *)
GroupSetupEndsUncounted ==
  /\ At("group setup") /\ FailedHere
  /\ lines' = IF Failed THEN lines \o Line(0, "error") ELSE lines
  /\ total' = total
  /\ stage' = IF Failed THEN "close" ELSE "next"
  /\ message' = IF Failed THEN {} ELSE message
  /\ UNCHANGED <<frame, skip, heap, mocks, does, prog, g, current, checkPoints, status,
                 told, own, listed, older, returned, xml>>

GroupSetupEnds ==
  /\ At("group setup") /\ FailedHere
  /\ lines' = IF Failed THEN lines \o Line(0, "error") ELSE lines
  /\ Add(IF Failed THEN {"errors"} ELSE {})
  /\ stage' = IF Failed THEN "close" ELSE "next"
  /\ message' = IF Failed THEN {} ELSE message
  /\ UNCHANGED <<frame, skip, heap, mocks, does, prog, g, current, checkPoints, status,
                 told, own, listed, older, returned, xml>>

(* As many of cm_tests are read as were filled in, from the first one: one   *)
(* that was left out in between has not been initialised.                    *)
NextTest ==
  /\ At("next") /\ current <= TotalTests
  /\ LET test == group.tests[current]
     IN  IF ~test.named
         THEN Crash /\ UNCHANGED <<heap, does, prog, stage, testCp, own>>
         ELSE /\ Calling(FALSE, IF test.setup THEN "setup" ELSE "test", Own)
              /\ stage' = IF test.setup THEN "setup" ELSE "test"
              /\ testCp' = IF test.setup THEN Own ELSE [node |-> NoNode, at |-> 0]
              /\ own' = [own EXCEPT ![current] = @ \cup {nth + 1}]
  /\ UNCHANGED <<g, current, total, groupCp, status, told, lines, listed, older,
                 failedIn, returned, xml>>

(* cmocka_run_one_tests, after the setup ...                                 *)
SetupEnds ==
  /\ At("setup") /\ FailedHere
  /\ IF Failed
     THEN /\ status' = [status EXCEPT ![current] = "error"] /\ stage' = "count"
          /\ message' = IF buffered THEN message \cup {nth} ELSE message
          /\ UNCHANGED <<frame, skip, heap, mocks, does, prog, own>>
     ELSE /\ Calling(FALSE, "test", Own) /\ stage' = "test"
          /\ own' = [own EXCEPT ![current] = @ \cup {nth + 1}] /\ UNCHANGED status
  /\ UNCHANGED <<g, current, total, checkPoints, told, lines, listed, older, returned, xml>>

(* Mutant: the flag stays.                                                   *)
FlagKept(result) == skip

(* "Do not skip the next test"                                               *)
FlagAfter(result) == IF result = "skipped" THEN "" ELSE skip

(* ... after the test ...                                                    *)
TestEnds ==
  /\ At("test")
  /\ LET result == IF ~Failed THEN "passed" ELSE IF skip # "" THEN "skipped" ELSE "failed"
     IN  /\ status' = [status EXCEPT ![current] = result]
         /\ skip' = FlagAfter(result)
         /\ failedIn' = failedIn \cup (IF result = "failed" THEN {<<stage, current>>} ELSE {})
  /\ stage' = IF group.tests[current].teardown THEN "tear" ELSE "count"
  /\ UNCHANGED <<frame, message, heap, mocks, does, prog, g, current, total, checkPoints,
                 told, own, lines, listed, older, returned, xml>>

StartTeardown ==
  /\ At("tear")
  /\ Calling(FALSE, "teardown", IF group.tests[current].setup THEN testCp ELSE Own)
  /\ own' = [own EXCEPT ![current] = @ \cup {nth + 1}]
  /\ stage' = "teardown"
  /\ UNCHANGED <<g, current, total, checkPoints, status, told, lines, listed, older,
                 failedIn, returned, xml>>

TeardownEnds ==
  /\ At("teardown") /\ FailedHere
  /\ status' = IF Failed THEN [status EXCEPT ![current] = "error"] ELSE status
  /\ message' = IF Failed /\ buffered THEN message \cup {nth} ELSE message
  /\ stage' = "count"
  /\ UNCHANGED <<frame, skip, heap, mocks, does, prog, g, current, total, checkPoints,
                 told, own, lines, listed, older, returned, xml>>

MessageAfter == {}

(* ... and at its end, with what its caller counts and reports               *)
TestCounted ==
  /\ At("count")
  /\ told' = [told EXCEPT ![current] = message] /\ message' = MessageAfter
  /\ Add({"executed", IF status[current] = "error" THEN "errors" ELSE status[current]})
  /\ lines' = lines \o Line(current, status[current])
  /\ current' = current + 1 /\ stage' = "next"
  /\ UNCHANGED <<frame, skip, heap, mocks, does, prog, g, checkPoints, status, own,
                 listed, older, failedIn, returned, xml>>

CloseGroup ==
  /\ At("close") \/ (At("next") /\ current > TotalTests)
  /\ IF group.teardown
     THEN Calling(FALSE, "teardown", groupCp) /\ stage' = "group teardown"
     ELSE Idle /\ stage' = "finish"
  /\ UNCHANGED <<g, current, total, checkPoints, newer, older, failedIn, returned, xml>>

(* A failure is reported, and counted nowhere.                               *)
GroupTeardownEnds ==
  /\ At("group teardown") /\ FailedHere
  /\ lines' = IF Failed THEN lines \o Line(0, "error") ELSE lines
  /\ message' = IF Failed THEN {} ELSE message
  /\ stage' = "finish"
  /\ UNCHANGED <<frame, skip, heap, mocks, does, prog, g, current, total, checkPoints,
                 status, told, own, listed, older, returned, xml>>

-----------------------------------------------------------------------------
(* Reports                                                                   *)

(* What the report at the end of the group says has failed, by its format    *)
Reported ==
  CASE prog.format = "stdout"  -> { k \in DOMAIN status : status[k] = "failed" }
    [] prog.format = "tap"     ->
         IF total.passed + total.skipped = total.executed THEN {} ELSE {0}
    [] prog.format = "subunit" -> {}
    [] prog.format = "xml"     ->
         { k \in 1..total.executed : status[k] \in {"failed", "error"} }

(* Mutant: the header is taken for printed once it is in any file.           *)
WriteXmlOnce(sink, opened, printed, append) ==
  LET header == ~printed
  IN  /\ sinks' = [sinks EXCEPT ![sink] =
                     @ \o (IF header THEN <<"header", "suite">> ELSE <<"suite">>)]
      /\ xmlPrinted' = TRUE
      /\ fileAppend' = append

(* The header is for the first report on a standard stream, and for a new    *)
(* file; but fileAppend is set for a new file as well.                       *)
WriteXml(sink, opened, printed, append) ==
  LET header == ~printed \/ (opened /\ ~append)
  IN  /\ sinks' = [sinks EXCEPT ![sink] =
                     @ \o (IF header THEN <<"header", "suite">> ELSE <<"suite">>)]
      /\ xmlPrinted' = (printed \/ (header /\ ~opened))
      /\ fileAppend' = append

(* cmprintf_group_finish_xml: a file that cannot be opened, and one that was *)
(* there before this program wrote to any, is not written to.                *)
WriteGroupXml ==
  LET f == group.file
  IN  \/ f = "none" /\ WriteXml("stdout", FALSE, xmlPrinted, fileAppend)
      \/ f # "none" /\ sinks[f] = <<>> /\ WriteXml(f, TRUE, xmlPrinted, TRUE)
      \/ f # "none" /\ sinks[f] # <<>> /\ fileAppend /\ WriteXml(f, TRUE, TRUE, TRUE)
      \/ f # "none" /\ WriteXml("stderr", FALSE, xmlPrinted, fileAppend)

FinishGroup ==
  /\ At("finish")
  /\ listed' = Reported
  /\ IF prog.format = "xml" THEN WriteGroupXml ELSE UNCHANGED xml
  /\ stage' = "check"
  /\ Idle /\ UNCHANGED <<g, current, total, checkPoints, status, told, own, lines,
                         older, failedIn, returned>>

-----------------------------------------------------------------------------
(* _run_tests: functions in a row, setups and teardowns among them           *)

(* More than one setup, or teardown, of the group                            *)
Ambiguous ==
  /\ group.runner = "group_tests"
  /\ \E j, k \in DOMAIN group.tests :
       j # k /\ group.tests[j] = group.tests[k]
             /\ group.tests[j] \in {"group_setup", "group_teardown"}

(* The runner keeps its own tables in blocks of the same list, between the   *)
(* check points of the group and of its functions; they are freed before the *)
(* group is checked and are left out here, but for their allocation failing. *)
OpenTests ==
  /\ At("open") /\ group.runner \in {"tests", "group_tests"}
  /\ \/ (Ambiguous \/ "heap" \in does.what) /\ ExitProgram /\ UNCHANGED <<heap, stage>>
     \/ /\ ~Ambiguous
        /\ stage' = IF group.runner = "tests" THEN "entry" ELSE "older open"
        /\ UNCHANGED <<function, heap, mocks>>
  /\ current' = 1 /\ total' = NoTotal /\ groupCp' = Own
  /\ stack' = <<>> /\ runNext' = TRUE /\ ran' = {} /\ failedIn' = {}
  /\ previousTestFailed' = FALSE /\ previousSetupFailed' = FALSE
  /\ Static /\ UNCHANGED <<g, testCp, newer, returned, xml>>

Entry == group.tests[current]

(* Once a setup has failed, tests run only if the last setup did not.        *)
Runs ==
  CASE Entry = "setup" -> TRUE
    [] Entry = "test"  -> ~previousSetupFailed \/ runNext
    [] OTHER           -> runNext

(* A function of its own kind, or none                                       *)
NextEntry ==
  /\ At("entry") /\ current <= Len(group.tests)
  /\ IF Entry \in {"group_setup", "group_teardown"} \/ (Entry = "teardown" /\ stack = <<>>)
     THEN ExitProgram /\ UNCHANGED <<heap, stage, current, stack, runNext, ran>>
     ELSE IF Entry = "none"
     THEN current' = current + 1
          /\ UNCHANGED <<function, heap, mocks, stage, stack, runNext, ran>>
     ELSE /\ runNext' = Runs
          /\ stack' = CASE Entry = "setup"    -> Append(stack, Own)
                        [] Entry = "teardown" -> Front(stack)
                        [] OTHER              -> stack
          /\ IF Runs
             THEN /\ Begin(TRUE, Entry, IF Entry = "teardown" THEN Last(stack) ELSE Own)
                  /\ ran' = ran \cup {current} /\ stage' = "entry runs" /\ UNCHANGED current
             ELSE /\ current' = current + 1
                  /\ UNCHANGED <<function, heap, mocks, ran, stage>>
  /\ Static
  /\ UNCHANGED <<g, total, checkPoints, newer, previousTestFailed, previousSetupFailed,
                 failedIn, returned, xml>>

EntryEnds ==
  /\ At("entry runs") /\ FailedHere
  /\ Add(CASE Entry = "test"  -> {"executed"} \cup (IF Failed THEN {"failed"} ELSE {})
           [] Entry = "setup" -> IF Failed THEN {"executed", "failed"} ELSE {}
           [] OTHER           -> IF Failed /\ ~previousTestFailed THEN {"failed"} ELSE {})
  /\ runNext' = (runNext /\ ~(Entry = "setup" /\ Failed))
  /\ previousSetupFailed' = (previousSetupFailed \/ (Entry = "setup" /\ Failed))
  /\ previousTestFailed' = CASE Entry = "test" -> Failed
                             [] Entry = "setup" -> FALSE
                             [] OTHER -> previousTestFailed
  /\ current' = current + 1 /\ stage' = "entry"
  /\ Idle /\ UNCHANGED <<g, checkPoints, newer, stack, ran, returned, xml>>

EntriesEnd ==
  /\ At("entry") /\ current > Len(group.tests)
  /\ stage' = "check"
  /\ Idle /\ UNCHANGED <<g, current, total, checkPoints, newer, older, failedIn, returned, xml>>

-----------------------------------------------------------------------------
(* _run_group_tests: one setup and one teardown for all                      *)

Has(type) == \E k \in DOMAIN group.tests : group.tests[k] = type

(* The check point of the teardown is not initialised without a setup.       *)
OlderSetup ==
  /\ At("older open")
  /\ IF Has("group_setup")
     THEN Calling(TRUE, "setup", Own) /\ testCp' = Own /\ stage' = "older setup"
     ELSE /\ testCp' \in { Own, [node |-> NoNode, at |-> nth + 1] }
          /\ stage' = "older" /\ Idle
  /\ UNCHANGED <<g, current, total, groupCp, newer, older, failedIn, returned, xml>>

OlderEnds ==
  /\ at = "idle" /\ stage \in {"older setup", "older test", "older teardown"} /\ FailedHere
  /\ Add({"executed"} \cup (IF Failed THEN {"failed"} ELSE {}))
  /\ current' = IF stage = "older test" THEN current + 1 ELSE current
  /\ stage' = IF stage = "older teardown" THEN "check" ELSE "older"
  /\ Idle /\ UNCHANGED <<g, checkPoints, newer, older, returned, xml>>

OlderNext ==
  /\ At("older")
  /\ IF current <= Len(group.tests)
     THEN IF Entry = "test"
          THEN /\ Calling(TRUE, "test", Own) /\ stage' = "older test"
               /\ ran' = ran \cup {current} /\ UNCHANGED current
          ELSE Idle /\ current' = current + 1 /\ UNCHANGED <<stage, ran>>
     ELSE /\ IF Has("group_teardown")
             THEN \E c \in IF testCp.node = NoNode \/ Has("group_setup") THEN {testCp}
                           ELSE {Own} :
                    Calling(TRUE, "teardown", c) /\ stage' = "older teardown"
             ELSE Idle /\ stage' = "check"
          /\ UNCHANGED <<current, ran>>
  /\ UNCHANGED <<g, total, checkPoints, newer, stack, runNext, previousTestFailed,
                 previousSetupFailed, failedIn, returned, xml>>

-----------------------------------------------------------------------------
TheEnd == (Ended \/ stage = "done") /\ UNCHANGED vars

Next ==
  \/ FunctionStep /\ Static /\ UNCHANGED <<place, total, checkPoints, newer, older,
                                           failedIn, returned, xml>>
  \/ OpenGroup \/ OpenGroupFails \/ GroupSetupEnds \/ NextTest \/ SetupEnds \/ TestEnds
  \/ StartTeardown \/ TeardownEnds \/ TestCounted \/ CloseGroup \/ GroupTeardownEnds
  \/ FinishGroup \/ OpenTests \/ NextEntry \/ EntryEnds \/ EntriesEnd
  \/ OlderSetup \/ OlderEnds \/ OlderNext \/ CheckGroupBlocks
  \/ TheEnd

Spec == Init /\ [][Next]_vars

-----------------------------------------------------------------------------
(* Properties                                                                *)

Passed == at = "idle" /\ nth > 0 /\ why = ""

(* What a mock gets is what was declared for it, in that order: something of *)
(* an entry only once the ones before it have been taken as often as they    *)
(* count, and not more often than it counts itself (get_symbol_value,        *)
(* add_symbol_value).                                                        *)
ReturnsAsDeclared ==
  \A s \in Symbols : \A k \in DOMAIN taken[s] :
    LET id == taken[s][k]
    IN  /\ id \in DOMAIN declared[s]
        /\ \A j \in 1..id - 1 : Times(taken[s], k - 1, j) = declared[s][j].count
        /\ declared[s][id].count > 0 => Times(taken[s], k, id) <= declared[s][id].count

(* A call is accepted only once everything declared before it has been       *)
(* called as often as it has to be, and never too often (_function_called).  *)
CallsInOrder ==
  \A k \in DOMAIN called :
    LET id == called[k]
    IN  /\ id \in DOMAIN ordered
        /\ \A j \in 1..id - 1 : Times(called, k - 1, j) >= Least(ordered[j].count)
        /\ ordered[id].count > 0 => Times(called, k, id) <= ordered[id].count

(* A function that passed has used everything it declared as often as it had *)
(* to (fail_if_leftover_values).                                             *)
PassedMeansAllUsed == Passed => AllUsed

(* "will_return_maybe() will never cause a test to fail if its value is not  *)
(* returned" (cmocka.h:367): a test that has declared nothing of parameters  *)
(* and calls fails for what is left over only if it owes something.          *)
MaybeNeverFails ==
  why = "leftover" =>
    ~AllUsed \/ ordered # <<>> \/ \E p \in Parameters : declared[p] # <<>>

(* One that fails for what is left over owes something, or has declared      *)
(* something that need not be used behind what is always there.  That such a *)
(* value counts as left over is contrary to MaybeNeverFails, which the run   *)
(* leftover_maybe shows; this says that it is the only such case.            *)
LeftoverHasReason ==
  why = "leftover" =>
    \/ ~AllUsed
    \/ \E s \in Symbols : \E k \in DOMAIN declared[s] :
         k > 1 /\ declared[s][k].count = Maybe /\ declared[s][k - 1].count < 0

(* What a test declares of its mocks is what it gets and what it is held to  *)
(* (add_symbol_value, get_symbol_value, _function_called,                    *)
(* check_for_leftover_values).                                               *)
MocksAsDeclared ==
  TypeOK /\ ReturnsAsDeclared /\ CallsInOrder /\ PassedMeansAllUsed /\ LeftoverHasReason

(* No test and no teardown that passes, and no group that returns, leaves a  *)
(* block allocated since its check point, unless the block that was the last *)
(* one then has been freed meanwhile (fail_if_blocks_allocated).             *)
NoLeakPasses ==
  /\ Passed /\ kind # "setup" => ~LeftSince(cp) \/ Stale(cp)
  /\ stage \in {"open", "done"} => ~LeftSince(groupCp) \/ Stale(groupCp)

(* Looking for leaks frees nothing older than the check point, even where    *)
(* addresses have been used again, unless nothing is where the check point   *)
(* was taken: it was never initialised, or its block has been freed          *)
(* (free_allocated_blocks).                                                  *)
LeakCheckFreesOwn ==
  [][ at = "checks" \/ stage = "check" =>
        LET point == IF at = "checks" THEN cp ELSE groupCp
        IN  \A b \in ToSet(blocks) \ ToSet(blocks') : Dangling(point) \/ b.by >= point.at ]_vars

Meant(c) ==
  LET v == c.value[1]
  IN  CASE c.kind = "value"        -> v = c.data[1]
        [] c.kind = "not_value"    -> v # c.data[1]
        [] c.kind = "in_set"       -> v \in ToSet(c.data)
        [] c.kind = "not_in_set"   -> v \notin ToSet(c.data)
        [] c.kind = "in_range"     -> v \in c.data[1]..c.data[2]
        [] c.kind = "not_in_range" -> v \notin c.data[1]..c.data[2]
        [] c.kind \in {"string"}     -> c.value = c.data
        [] c.kind \in {"not_string"} -> c.value # c.data
        [] c.kind = "memory"       -> IsPrefix(c.data, c.value)
        [] c.kind = "not_memory"   -> ~IsPrefix(c.data, c.value)
        [] OTHER                   -> TRUE

(* An assertion passes exactly if what it says of the numbers, the strings   *)
(* or the memory is so; with a range that begins below zero and does not end *)
(* there, nothing is within it (the check and assert functions).             *)
AssertionsTruthful ==
  verdict # <<>> =>
    LET c == verdict[1]
    IN  \/ c.kind = "return_code"
        \/ verdict[2] = Meant(c)
        \/ c.kind \in {"in_range", "not_in_range"} /\ c.data[1] < 0 /\ c.data[2] >= 0
             /\ verdict[2] = (c.kind = "not_in_range")

(* A return code passes exactly if it is not negative and is not the largest *)
(* of its own type, that of bytes being unsigned.  That the largest one fails*)
(* is contrary to the text of cmocka.h:1084-1088, by which only numbers below*)
(* zero do (_assert_return_code).                                            *)
ReturnCodeTold ==
  verdict # <<>> /\ verdict[1].kind = "return_code" =>
    LET code == verdict[1].value[1]
        bytes == verdict[1].data[1]
        largest == IF bytes = 1 THEN 2^ByteBits - 1 ELSE 2^(ByteBits * bytes - 1) - 1
    IN  verdict[2] <=> code >= 0 /\ code # largest

(* Assertions mean what they say (assert_..., check_...).                    *)
AssertionsMeanIt == AssertionsTruthful /\ ReturnCodeTold

(* A jump into an expect_assert_failure that has been left happens only when *)
(* some function failed within one, which leaves global_expecting_assert set *)
(* (mock_assert, expect_assert_failure).                                     *)
WildOnlyAfterFailureInside == at = "wild" => left

(* A test is counted as skipped only if it called skip(), or a fixture or a  *)
(* function of an older runner did before it (global_skip_test).             *)
SkipIsOwn ==
  [][ \A k \in DOMAIN status \cap DOMAIN status' :
        status'[k] = "skipped" /\ status[k] # "skipped" => why = "skip" \/ skip # "test" ]_vars

(* A test answers for itself: neither blocks nor a skip of another one are   *)
(* taken for its own (free_allocated_blocks, cmocka_run_one_tests).          *)
TestsKeptApart == LeakCheckFreesOwn /\ SkipIsOwn

(* A runner returns zero exactly if no function failed, but for those of a   *)
(* group teardown and the tests that are skipped.                            *)
NoFailureLost ==
  stage = "check" =>
    (ReturnValue = 0
       <=> { f \in failedIn : f[1] # "group teardown" } = {}
           /\ (group.runner = "tests" => stack = <<>>))

(* A test without a name stands before one with a name.                      *)
Hole ==
  \E j, k \in DOMAIN group.tests : j < k /\ ~group.tests[j].named /\ group.tests[k].named

(* The program crashes only where a test without a name stands before one    *)
(* with a name, when that test's turn comes or, if no test's turn comes since*)
(* the setup of the group failed, at the end of the group; or at a check     *)
(* point that was freed (_cmocka_run_group_tests).                           *)
CrashOnlyByHole ==
  at = "crashed" =>
    \/ stage = "check" /\ Stale(groupCp)
    \/ stage = "next" /\ Hole
    \/ stage = "check" /\ group.runner = "group" /\ Hole
         /\ \E f \in failedIn : f[1] = "group setup"

(* The runners and mock_assert go astray in these ways only.                 *)
AccidentsExplained == WildOnlyAfterFailureInside /\ CrashOnlyByHole

(* A test is given the messages of the functions run for it, and no others   *)
(* (cm_error_message, cmocka_run_one_tests).                                 *)
MessageOfOwnTest == \A k \in DOMAIN told : told[k] \subseteq own[k]

(* _run_tests runs a test exactly if the last setup before it did not fail,  *)
(* however many entries are between them.                                    *)
TestsRunAfterSetup ==
  stage = "check" /\ group.runner = "tests" =>
    \A k \in DOMAIN group.tests : group.tests[k] = "test" =>
      LET setups == { j \in 1..k - 1 : group.tests[j] = "setup" }
      IN  k \in ran <=> \A j \in setups :
                         (\A other \in setups : other <= j) => <<"entry runs", j>> \notin failedIn

(* The tests that have to run do, and what comes of them reaches the counters*)
(* (_run_tests, _cmocka_run_group_tests).                                    *)
OutcomesCounted == NoFailureLost /\ MessageOfOwnTest /\ TestsRunAfterSetup

(* Has a report been written behind something else than its own header?      *)
Appended(f) ==
  \E k \in DOMAIN sinks[f] : k > 1 /\ sinks[f][k] = "suite" /\ sinks[f][k - 1] # "header"

(* A file of reports has at most one header, at its start, and lacks it only *)
(* if another report went to a standard stream or to the end of another file *)
(* (cmprintf_group_finish_xml).                                              *)
XmlHeaders ==
  \A f \in XmlFiles : sinks[f] # <<>> =>
    /\ \A k \in DOMAIN sinks[f] : sinks[f][k] = "header" => k = 1
    /\ sinks[f][1] = "suite" =>
         \/ \E s \in {"stdout", "stderr"} : sinks[s] # <<>>
         \/ \E other \in XmlFiles \ {f} : Appended(other)

(* A report tells of no failure where there is none, and of one where a test *)
(* failed; without a test that was run, or for errors in fixtures, not every *)
(* format does (cmprintf_group_finish).                                      *)
FailuresReported ==
  stage = "check" /\ group.runner = "group" =>
    /\ ReturnValue = 0 => listed = {}
    /\ ReturnValue # 0 /\ listed = {} =>
         CASE prog.format = "stdout"  -> total.failed = 0
           [] prog.format = "subunit" -> TRUE
           [] OTHER                   -> total.executed = 0

(* What is printed of the tests to a TAP consumer is as many lines as were   *)
(* announced, numbered from one, and ok exactly for the tests that passed,   *)
(* unless the setup of the group fails (cmprintf, cmprintf_group_start_tap). *)
TapPlanKept ==
  stage = "check" /\ group.runner = "group" /\ prog.format = "tap" =>
    LET n == IF \E f \in failedIn : f[1] = "group setup" THEN 0 ELSE TotalTests
    IN  /\ n <= Len(lines)
        /\ \A k \in 1..n :
             lines[k] = [number |-> k, result |-> IF status[k] = "passed" THEN "ok" ELSE "not ok"]
        /\ \A k \in n + 1..Len(lines) : lines[k].number = 0

(* What is reported agrees with what is counted (cmprintf_group_finish).     *)
ReportsTruthful == XmlHeaders /\ FailuresReported /\ TapPlanKept
=====================================================================================
