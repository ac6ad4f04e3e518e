-------------------------------- MODULE TestFunction --------------------------------
(***************************************************************************)
(* One run of a test or of a fixture (cmocka_run_one_test_or_fixture and   *)
(* _run_test of cmocka/src/cmocka.c): the function takes steps of its own  *)
(* choice, calling what cmocka offers; then the blocks it leaked and the   *)
(* declarations it left over are looked for.  Any failure jumps out.       *)
(***************************************************************************)
EXTENDS Checks, MockQueues, TestHeap

CONSTANTS
  Comparisons,  \* what is asserted: [kind, value, data], see Checks
  Results       \* what a fixture may return

ASSUME ComparisonAssumption == \A c \in Comparisons : Comparable(c)

VARIABLES
  does,       \* what the functions of this program do, and how often at most
  at,         \* "idle", "body", "checks", or how the process ended
  legacy,     \* was it called by one of the older runners?
  kind,       \* "test", "setup", "teardown"
  todo,       \* the checks still to be made
  cp,         \* the check point of this function
  nth,        \* which function is running or ran last, from one
  steps,      \* the steps it has taken
  rc,         \* what it returns
  why,        \* ghost: why it failed, or "" if it did not
  verdict,    \* ghost: the last assertion and whether it passed
  running,    \* global_running_test
  skip,       \* global_skip_test: "" or, as a ghost, the kind that set it
  expecting,  \* global_expecting_assert
  inside,     \* is expect_assert_failure still to return?
  left,       \* ghost: has a function failed within expect_assert_failure?
  buffered,   \* cm_error_message_enabled
  message     \* cm_error_message: the functions that have added to it

frame == <<at, legacy, kind, todo, cp, nth, steps, rc, why, verdict, running,
           expecting, inside, left, buffered>>
function == <<frame, skip, message>>

Ended == at \in {"exited", "aborted", "crashed", "wild"}

FunctionTypeOK ==
  /\ at \in {"idle", "body", "checks", "exited", "aborted", "crashed", "wild"}
  /\ legacy \in BOOLEAN /\ kind \in {"test", "setup", "teardown"}
  /\ ToSet(todo) \subseteq {"blocks", "values"}
  /\ cp \in [node : Addresses \cup {ListHead, NoNode}, at : Nat]
  /\ nth \in Nat /\ steps \in 0..does.most
  /\ rc \in Results \cup {-1, 0} /\ (why # "" => rc = -1)
  /\ running = (at \in {"body", "checks"} \/ (Ended /\ running))
  /\ skip \in {"", "test", "setup", "teardown", "legacy"}
  /\ expecting \in BOOLEAN /\ inside \in BOOLEAN /\ left \in BOOLEAN
  /\ (inside => at = "body" /\ expecting)
  /\ buffered \in BOOLEAN /\ message \subseteq 1..nth

FunctionInit ==
  /\ at = "idle" /\ legacy = FALSE /\ kind = "test" /\ todo = <<>> /\ cp = [node |-> ListHead, at |-> 1]
  /\ nth = 0 /\ steps = 0 /\ rc = 0 /\ why = "" /\ verdict = <<>>
  /\ running = FALSE /\ skip = "" /\ expecting = FALSE /\ inside = FALSE /\ left = FALSE
  /\ buffered = TRUE /\ message = {}

-----------------------------------------------------------------------------
(* Mutant: blocks are looked for after tests only.                           *)
ChecksOfTests(older, k) ==
  CASE k = "test" -> IF older THEN <<"values", "blocks">> ELSE <<"blocks", "values">>
    [] OTHER      -> <<"values">>

(* A setup may leave blocks, which are looked for after the teardown.  The   *)
(* older runners look for blocks last.                                       *)
ChecksOf(older, k) ==
  CASE k = "setup"            -> <<"values">>
    [] k # "setup" /\ older   -> <<"values", "blocks">>
    [] OTHER                  -> <<"blocks", "values">>

(* The caller of a function takes its check point; one it has not been given *)
(* is taken when the function starts.                                        *)
Own == CheckPoint(nth + 1)

Begin(older, k, c) ==
  /\ at = "idle"
  /\ at' = "body" /\ legacy' = older /\ kind' = k /\ todo' = ChecksOf(older, k) /\ cp' = c
  /\ nth' = nth + 1 /\ steps' = 0 /\ rc' = 0 /\ why' = "" /\ verdict' = <<>>
  /\ running' = TRUE /\ buffered' = (buffered /\ ~older)
  /\ InitializeTesting
  /\ UNCHANGED <<skip, expecting, inside, left, message, heap>>

(* exit_test while a test is running: the program is aborted if the          *)
(* environment asks for that, or control is back where the function was      *)
(* called, and the test has failed.  What was begun within it is forgotten.  *)
Leave(reason, flag) ==
  /\ why' = reason /\ skip' = flag
  /\ message' = IF buffered THEN message \cup {nth} ELSE message
  /\ left' = (left \/ (inside /\ reason # "no assert"))
  /\ inside' = FALSE /\ steps' = 0 /\ rc' = -1
  /\ IF does.abort THEN at' = "aborted" /\ UNCHANGED <<running, mocks>>
     ELSE at' = "idle" /\ running' = FALSE /\ TeardownTesting
  /\ todo' = <<>>
  /\ UNCHANGED <<legacy, kind, cp, nth, buffered>>

Fail(reason) == Leave(reason, skip) /\ UNCHANGED expecting

-----------------------------------------------------------------------------
(* What a function may do                                                    *)

Step(what) == at = "body" /\ what \in does.what /\ steps < does.most

Goes ==
  /\ steps' = steps + 1
  /\ UNCHANGED <<at, legacy, kind, todo, cp, nth, rc, why, running, skip, left, buffered,
                 message>>

GoesOn == Goes /\ UNCHANGED <<verdict, expecting, inside>>
Fails(reason) == Fail(reason) /\ UNCHANGED <<verdict, heap>>

(* will_return, expect_... and expect_function_call                          *)
DeclareValue ==
  /\ Step("values")
  /\ \E s \in Symbols, count \in Counts : Declare(s, count)
  /\ GoesOn /\ UNCHANGED heap

DeclareCall ==
  /\ Step("calls")
  /\ \E f \in Callees, count \in Counts : ExpectFunctionCall(f, count)
  /\ GoesOn /\ UNCHANGED heap

(* mock: _mock                                                               *)
Mock(s) ==
  /\ Step("values")
  /\ IF queues[s] # <<>> THEN TakeValue(s) /\ GoesOn /\ UNCHANGED heap
     ELSE Fails("no value")

(* check_expected: _check_expected.  Which of the comparisons was declared,  *)
(* and so whether the parameter passes, is left open here.                   *)
CheckExpected(p) ==
  /\ Step("values")
  /\ \/ queues[p] # <<>> /\ TakeValue(p) /\ GoesOn /\ UNCHANGED heap
     \/ Fails(IF queues[p] # <<>> THEN "check" ELSE "no value")

(* function_called: _function_called                                         *)
FunctionCalled(f) ==
  /\ Step("calls")
  /\ \/ AcceptCall(f) /\ GoesOn /\ UNCHANGED heap
     \/ CallFound(f) = {} /\ Fails(IF CallCrashes(f) THEN "exception" ELSE "call")

(* test_malloc and test_calloc; without memory, an assertion fails.          *)
Malloc ==
  /\ Step("heap")
  /\ \/ (\E a \in Addresses : TestMalloc(a, nth)) /\ GoesOn /\ UNCHANGED mocks
     \/ Fails("no memory")

Free(a) ==
  /\ Step("heap") /\ a \in Held
  /\ IF a \in corrupt THEN Fails("guard")
     ELSE TestFree(a) /\ GoesOn /\ UNCHANGED mocks

(* When the guards of the old block are not intact, the new one stays too.   *)
Realloc(a) ==
  /\ Step("heap") /\ a \in Held
  /\ IF a \in corrupt
     THEN /\ \E b \in Addresses : TestMalloc(b, nth)
          /\ Fail("guard") /\ UNCHANGED verdict
     ELSE (\E b \in Addresses : TestRealloc(a, b, nth)) /\ GoesOn /\ UNCHANGED mocks

Corrupt(a) == Step("heap") /\ Overrun(a) /\ GoesOn /\ UNCHANGED mocks

AssertionPasses(c) ==
  IF c.kind = "return_code" THEN ReturnCodePasses(c.value[1], c.data[1])
  ELSE Passes(c.kind, c.value, c.data)

AssertThat ==
  /\ Step("asserts")
  /\ \E c \in Comparisons :
       /\ verdict' = <<c, AssertionPasses(c)>>
       /\ IF AssertionPasses(c) THEN Goes /\ UNCHANGED <<expecting, inside, heap, mocks>>
          ELSE Fail("assert") /\ UNCHANGED heap

(* skip, fail, and a signal or an exception that is handled                  *)
GiveUp ==
  \/ Step("skip") /\ Leave("skip", IF legacy THEN "legacy" ELSE kind)
       /\ UNCHANGED <<expecting, verdict, heap>>
  \/ Step("fail") /\ \E reason \in {"fail", "exception"} : Fails(reason)

(* expect_assert_failure, up to the call of the function it is given         *)
ExpectAssertFailure ==
  /\ Step("expect") /\ ~inside
  /\ inside' = TRUE /\ expecting' = TRUE
  /\ Goes /\ UNCHANGED <<verdict, heap, mocks>>

(* mock_assert when the condition is false.  The jump goes back into the     *)
(* last expect_assert_failure, whether its function still runs or not.       *)
MockAssert ==
  /\ Step("expect")
  /\ CASE expecting /\ inside ->
            /\ inside' = FALSE /\ expecting' = FALSE
            /\ Goes /\ UNCHANGED <<verdict, heap, mocks>>
       [] expecting /\ ~inside ->
            /\ at' = "wild" /\ UNCHANGED <<legacy, kind, todo, cp, nth, steps, rc, why, verdict,
                 running, skip, expecting, inside, left, buffered, message, heap, mocks>>
       [] ~expecting -> Fails("mock assert")

(* Mutant: what is expected stays set.                                       *)
AssertMissedStillExpecting ==
  /\ at = "body" /\ inside
  /\ Leave("no assert", skip) /\ UNCHANGED <<expecting, verdict, heap>>

(* The function returned: expect_assert_failure fails.                       *)
AssertMissed ==
  /\ at = "body" /\ inside
  /\ expecting' = FALSE
  /\ Leave("no assert", skip) /\ UNCHANGED <<verdict, heap>>

-----------------------------------------------------------------------------
(* The end of a function                                                     *)

Return ==
  /\ at = "body" /\ ~inside
  /\ at' = "checks" /\ steps' = 0
  /\ rc' \in IF kind = "test" \/ legacy THEN {0} ELSE Results
  /\ UNCHANGED <<legacy, kind, todo, cp, nth, why, verdict, running, skip, expecting, inside,
                 left, buffered, message, heap, mocks>>

CheckPassed ==
  /\ todo' = Tail(todo)
  /\ UNCHANGED <<at, legacy, kind, cp, nth, steps, rc, why, verdict, running, skip, expecting,
                 inside, left, buffered, message, heap, mocks>>

(* fail_if_blocks_allocated                                                  *)
CheckBlocks ==
  /\ at = "checks" /\ todo # <<>> /\ Head(todo) = "blocks"
  /\ \/ \E found \in AllocatedSince(cp) :
          IF found = <<>> THEN CheckPassed
          ELSE FreeAllocatedBlocks(found) /\ Fail("leak") /\ UNCHANGED verdict
     \/ Dangling(cp) /\ Fails("exception")

(* fail_if_leftover_values                                                   *)
CheckValues ==
  /\ at = "checks" /\ todo # <<>> /\ Head(todo) = "values"
  /\ IF LeftoverValues THEN Fails("leftover") ELSE CheckPassed

FunctionPasses ==
  /\ at = "checks" /\ todo = <<>>
  /\ at' = "idle" /\ running' = FALSE
  /\ TeardownTesting
  /\ UNCHANGED <<legacy, kind, todo, cp, nth, steps, rc, why, verdict, skip, expecting, inside,
                 left, buffered, message, heap>>

FunctionStep ==
  \/ DeclareValue \/ DeclareCall \/ Malloc \/ AssertThat \/ GiveUp
  \/ \E s \in Mocks : Mock(s)
  \/ \E p \in Parameters : CheckExpected(p)
  \/ \E f \in Callees : FunctionCalled(f)
  \/ \E a \in Addresses : Free(a) \/ Realloc(a) \/ Corrupt(a)
  \/ ExpectAssertFailure \/ MockAssert \/ AssertMissed
  \/ Return \/ CheckBlocks \/ CheckValues \/ FunctionPasses
=====================================================================================
