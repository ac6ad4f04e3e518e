--------------------------- MODULE TestRunner_proofs ---------------------------
(***************************************************************************)
(* Proofs about TestRunner, for all programs: what the runners count and   *)
(* report, how cmocka itself may go astray, which leaks are found and what *)
(* is freed then, what becomes of what a test declares of its mocks, and   *)
(* what assertions come to.                                                *)
(***************************************************************************)
EXTENDS TestRunner, SequenceTheorems, FiniteSetTheorems, TLAPS

GroupStages == {"group setup", "next", "setup", "test", "tear", "teardown", "count",
                "close", "group teardown", "finish"}
TestsStages == {"entry", "entry runs"}
OlderStages == {"older open", "older setup", "older", "older test", "older teardown"}
AtTest == {"setup", "test", "tear", "teardown", "count"}

(* Which runner is where.                                                    *)
PlaceInv ==
  /\ prog \in Programs /\ g \in DOMAIN prog.groups /\ TestsFit(group)
  /\ stage \in {"open", "check", "done"} \cup GroupStages \cup TestsStages \cup OlderStages
  /\ stage \in GroupStages => group.runner = "group"
  /\ stage \in TestsStages => group.runner = "tests"
  /\ stage \in OlderStages => group.runner = "group_tests"
  /\ current \in Nat \ {0}
  /\ total \in [executed : Nat, passed : Nat, skipped : Nat, failed : Nat, errors : Nat]

-----------------------------------------------------------------------------
(* _cmocka_run_group_tests                                                   *)

InGroup == stage \in GroupStages \cup {"check"} /\ group.runner = "group"
SetupFailed == \E f \in failedIn : f[1] = "group setup"
Within == {"setup", "test", "teardown"}
Outcomes == {"passed", "skipped", "failed", "error"}

(* The test that is run, and those before and after it.                      *)
StatusInv ==
  /\ status \in [1..Len(group.tests) -> Statuses]
  /\ current <= TotalTests + 1
  /\ stage \in AtTest => current <= TotalTests
  /\ \A k \in 1..Len(group.tests) : k < current => status[k] \in Outcomes
  /\ \A k \in 1..Len(group.tests) : k > current \/ (k = current /\ stage \notin AtTest) =>
       status[k] = "not_started"
  /\ stage \in {"setup", "test"} => status[current] = "not_started"
  /\ stage \in {"tear", "teardown"} => status[current] \in {"passed", "skipped", "failed"}
  /\ stage = "count" => status[current] \in Outcomes

(* Where functions have failed, and what the tests have come to.             *)
FailedInv ==
  /\ \A f \in failedIn :
       /\ f = <<f[1], f[2]>>
       /\ f[1] \in {"group setup", "group teardown"} \/ (f[1] \in Within /\ f[2] \in 1..Len(group.tests))
  /\ \A k \in 1..Len(group.tests) :
       status[k] \in {"failed", "error"} <=> \E w \in Within : <<w, k>> \in failedIn

(* The counters.                                                             *)
CountInv ==
  /\ SetupFailed =>
       /\ stage \in {"close", "group teardown", "finish", "check"} /\ current = 1
       /\ total.executed = 0 /\ total.passed = 0 /\ total.skipped = 0 /\ total.failed = 0
       /\ total.errors > 0
  /\ ~SetupFailed =>
       /\ stage # "close" /\ total.executed = current - 1
       /\ total.executed = total.passed + total.skipped + total.failed + total.errors
       /\ total.errors > 0 <=> \E k \in 1..current - 1 : status[k] = "error"
  /\ total.failed > 0 <=> \E k \in 1..current - 1 : status[k] = "failed"
  /\ stage \in {"group teardown", "finish", "check"} => SetupFailed \/ current = TotalTests + 1
  /\ stage = "group setup" => current = 1

(* What has been printed for a TAP consumer, and listed.                     *)
TapLine(k, st) == [number |-> k, result |-> IF st[k] = "passed" THEN "ok" ELSE "not ok"]
TapLines == [number : Nat, result : {"ok", "not ok"}]
LinesWell(ls, n, st) ==
  /\ ls \in Seq(TapLines) /\ n <= Len(ls)
  /\ \A k \in 1..n : ls[k] = TapLine(k, st)
  /\ \A k \in n + 1..Len(ls) : ls[k].number = 0
(* The lines there are: none is printed after a failed group setup.          *)
Announced == IF SetupFailed THEN 0 ELSE current - 1
LinesInv ==
  prog.format = "tap" =>
    /\ LinesWell(lines, Announced, status)
    /\ stage \notin {"close", "group teardown", "finish", "check"} => Len(lines) = Announced

(* The report of the group.                                                  *)
ListedInv == stage = "check" => listed = Reported

GroupInv == InGroup => StatusInv /\ FailedInv /\ CountInv /\ LinesInv /\ ListedInv

-----------------------------------------------------------------------------
(* _run_tests and _run_group_tests                                           *)

InEntries == stage \in TestsStages \cup {"check"} /\ group.runner = "tests"

(* Did the last setup before entry n, if there was one, not fail?            *)
SetupsBefore(n, tests) == { i \in 1..n - 1 : tests[i] = "setup" }
SetupWell(n, tests, failed) ==
  \A j \in SetupsBefore(n, tests) :
    (\A other \in SetupsBefore(n, tests) : other <= j) => <<"entry runs", j>> \notin failed
SetupBefore(n) == SetupWell(n, group.tests, failedIn)

(* Where functions have failed, so far, and that they are counted.           *)
EntryFailed ==
  /\ stage = "check" => current > Len(group.tests)
  /\ stage = "entry runs" => current <= Len(group.tests)
  /\ \A f \in failedIn : f = <<"entry runs", f[2]>> /\ f[2] \in 1..current - 1
  /\ total.failed = 0 <=> failedIn = {}

(* The flags with which an entry steers the next ones.                       *)
EntryFlags ==
  /\ runNext \in BOOLEAN /\ previousSetupFailed \in BOOLEAN /\ previousTestFailed \in BOOLEAN
  /\ previousTestFailed => total.failed > 0
  /\ ~previousSetupFailed => runNext
  /\ stage # "entry runs" => (runNext <=> SetupBefore(current))
  /\ stage = "entry runs" => runNext /\ (Entry # "setup" => SetupBefore(current))

(* The tests behind a setup that did not fail were run, and no others.       *)
EntryRan ==
  /\ \A k \in ran : k \in Nat /\ (k < current \/ (k = current /\ stage = "entry runs"))
  /\ stage = "entry runs" => current \in ran
  /\ \A k \in 1..Len(group.tests) : k < current /\ group.tests[k] = "test" =>
       (k \in ran <=> SetupBefore(k))

EntryInv == InEntries => EntryFailed /\ EntryFlags /\ EntryRan

(* _run_group_tests counts every function that fails.                        *)
OlderInv ==
  stage \in OlderStages \cup {"check"} /\ group.runner = "group_tests" =>
    /\ \A f \in failedIn : f[1] \in OlderStages
    /\ total.failed = 0 <=> failedIn = {}

-----------------------------------------------------------------------------
(* Messages                                                                  *)

FunctionRuns == {"group setup", "setup", "test", "teardown", "group teardown",
         "entry runs", "older setup", "older test", "older teardown"}

(* The message buffer is emptied before anything of another test runs.       *)
MessageInv ==
  /\ at \in {"body", "checks"} => stage \in FunctionRuns
  /\ stage \in {"setup", "test", "teardown"} => nth \in own[current]
  /\ stage \in AtTest => current \in DOMAIN own /\ message \subseteq own[current]
  /\ stage \in {"group setup", "group teardown"} => message = {} \/ (rc # 0 /\ at \notin {"body", "checks"})
  /\ stage \notin AtTest \cup {"group setup", "group teardown"} => message = {}
  /\ stage \in {"entry runs", "older setup", "older test", "older teardown"} => ~buffered
  /\ stage \in GroupStages => DOMAIN own = 1..Len(group.tests)
  /\ DOMAIN told = DOMAIN own
  /\ MessageOfOwnTest

-----------------------------------------------------------------------------
(* Reports as XML                                                            *)

Words == {"other", "header", "suite"}
(* Has a suite been written behind something else than its own header?       *)
WrittenBehind(s) == \E k \in DOMAIN s : k > 1 /\ s[k] = "suite" /\ s[k - 1] # "header"
HeaderFirst(s) == \A k \in DOMAIN s : s[k] = "header" => k = 1
Printed == \E s \in {"stdout", "stderr"} : sinks[s] # <<>>

(* xml_printed is set only by what lacked a header of its own.               *)
XmlInv ==
  /\ DOMAIN sinks = Sinks /\ xmlPrinted \in BOOLEAN
  /\ \A s \in Sinks : sinks[s] \in Seq(Words) /\ (sinks[s] # <<>> => sinks[s][Len(sinks[s])] # "header")
  /\ xmlPrinted => Printed \/ \E f \in XmlFiles : WrittenBehind(sinks[f])
  /\ \A f \in XmlFiles : sinks[f] # <<>> =>
       /\ HeaderFirst(sinks[f])
       /\ sinks[f][1] = "suite" => Printed \/ \E other \in XmlFiles \ {f} : WrittenBehind(sinks[other])

-----------------------------------------------------------------------------
(* Accidents                                                                 *)

(* left: a function failed inside expect_assert_failure.                     *)
WildInv ==
  /\ expecting /\ ~inside => left
  /\ at = "wild" => left

-----------------------------------------------------------------------------
(* Groups and counters                                                       *)

LEMMA GroupFits ==
  ASSUME PlaceInv
  PROVE  /\ Len(group.tests) \in Nat /\ DOMAIN group.tests = 1..Len(group.tests)
         /\ group.runner = "group" => group.tests \in Seq(UnitTest)
         /\ group.runner # "group" => group.tests \in Seq(FunctionTypes)
<1>1. TestsFit(group)
  BY DEF PlaceInv
<1>2. \/ group.runner = "group" /\ group.tests \in Seq(UnitTest)
      \/ group.runner \in {"tests", "group_tests"} /\ group.tests \in Seq(FunctionTypes)
  BY <1>1 DEF TestsFit
<1>3. Len(group.tests) \in Nat /\ DOMAIN group.tests = 1..Len(group.tests)
  BY <1>2
<1> QED
  BY <1>2, <1>3, Zenon

LEMMA Formats ==
  ASSUME PlaceInv
  PROVE  prog.format \in {"stdout", "tap", "subunit", "xml"} /\ group.file \in XmlFiles \cup {"none"}
  BY ProgramAssumption DEF PlaceInv, group

LEMMA Totals ==
  ASSUME PlaceInv
  PROVE  TotalTests \in Nat /\ TotalTests <= Len(group.tests)
<1> DEFINE N == { k \in DOMAIN group.tests : group.tests[k].named }
           n == Len(group.tests)
<1>1. n \in Nat /\ N \subseteq 1..n
  BY GroupFits
<1>2. IsFiniteSet(1..n) /\ Cardinality(1..n) = n
  BY <1>1, FS_Interval
<1>3. Cardinality(N) \in Nat /\ Cardinality(N) <= Cardinality(1..n)
  BY <1>1, <1>2, FS_Subset, FS_CardinalityType
<1> QED
  BY <1>2, <1>3 DEF TotalTests

(* A test that is read although it has no name has one with a name behind it.*)
LEMMA Pigeonhole ==
  ASSUME PlaceInv, NEW at1 \in Nat \ {0}, at1 <= TotalTests, ~group.tests[at1].named
  PROVE  Hole
<1> DEFINE N == { k \in DOMAIN group.tests : group.tests[k].named }
           n == Len(group.tests)
<1>1. n \in Nat /\ DOMAIN group.tests = 1..n /\ at1 \in Nat \ {0} /\ at1 \in 1..n
  BY GroupFits, Totals 
<1>2. SUFFICES ASSUME ~\E k \in N : at1 < k PROVE FALSE
  BY <1>1 DEF Hole
<1>3. N \subseteq 1..at1 - 1
  <2> SUFFICES ASSUME NEW k \in N PROVE k \in 1..at1 - 1
    OBVIOUS
  <2>1. k \in 1..n /\ ~(at1 < k) /\ k # at1
    BY <1>1, <1>2
  <2> QED
    BY <1>1, <2>1
<1>4. IsFiniteSet(1..at1 - 1) /\ Cardinality(1..at1 - 1) = at1 - 1
  <2> DEFINE m == at1 - 1
  <2>1. 1 \in Int /\ m \in Int /\ m >= 0
    BY <1>1
  <2> HIDE DEF m
  <2>2. IsFiniteSet(1..m) /\ Cardinality(1..m) = IF 1 > m THEN 0 ELSE m - 1 + 1
    BY <2>1, FS_Interval
  <2>3. Cardinality(1..m) = m
    BY <2>1, <2>2
  <2> QED
    BY <2>2, <2>3 DEF m
<1>5. Cardinality(N) <= at1 - 1 /\ Cardinality(N) \in Nat
  BY <1>3, <1>4, FS_Subset, FS_CardinalityType
<1> QED
  BY <1>1, <1>5 DEF TotalTests

Counters == {"executed", "passed", "skipped", "failed", "errors"}
Total == [executed : Nat, passed : Nat, skipped : Nat, failed : Nat, errors : Nat]

LEMMA Added ==
  ASSUME NEW cs, total \in Total, Add(cs)
  PROVE  /\ total' \in Total
         /\ total'.executed = total.executed + (IF "executed" \in cs THEN 1 ELSE 0)
         /\ total'.passed = total.passed + (IF "passed" \in cs THEN 1 ELSE 0)
         /\ total'.skipped = total.skipped + (IF "skipped" \in cs THEN 1 ELSE 0)
         /\ total'.failed = total.failed + (IF "failed" \in cs THEN 1 ELSE 0)
         /\ total'.errors = total.errors + (IF "errors" \in cs THEN 1 ELSE 0)
<1> DEFINE one(c) == IF c \in cs THEN 1 ELSE 0
<1>1. DOMAIN total = Counters /\ \A c \in Counters : one(c) \in Nat
  BY DEF Total, Counters
<1>2. total' = [c \in Counters |-> total[c] + one(c)]
  BY <1>1 DEF Add
<1> HIDE DEF one
<1>3. /\ total' = [executed |-> total.executed + one("executed"), passed |-> total.passed + one("passed"),
                   skipped |-> total.skipped + one("skipped"), failed |-> total.failed + one("failed"),
                   errors |-> total.errors + one("errors")]
  BY <1>2 DEF Counters
<1>4. total' \in Total
  BY <1>1, <1>3 DEF Total, Counters
<1> QED
  BY <1>3, <1>4 DEF one

-----------------------------------------------------------------------------
(* The steps of a function, which leave the runner where it is               *)

FunctionOnly ==
  FunctionStep /\ Static /\ UNCHANGED <<place, total, checkPoints, newer, older, failedIn, returned, xml>>

LEMMA Same ==
  ASSUME prog' = prog, g' = g
  PROVE  group' = group /\ TotalTests' = TotalTests
  BY DEF group, TotalTests

LEMMA FunctionOnlyKeeps ==
  ASSUME FunctionOnly
  PROVE  /\ UNCHANGED <<prog, g, stage, current, total, groupCp, status, told, own, lines, listed>>
         /\ UNCHANGED <<stack, runNext, previousTestFailed, previousSetupFailed, ran, failedIn, returned>>
         /\ UNCHANGED <<sinks, xmlPrinted, fileAppend>>
         /\ group' = group /\ TotalTests' = TotalTests
<1>1. /\ UNCHANGED <<prog, g, stage, current, total, groupCp, status, told, own, lines, listed>>
      /\ UNCHANGED <<stack, runNext, previousTestFailed, previousSetupFailed, ran, failedIn, returned>>
      /\ UNCHANGED <<sinks, xmlPrinted, fileAppend>>
  BY DEF FunctionOnly, Static, place, checkPoints, newer, older, xml
<1> QED
  BY <1>1, Same, Zenon

-----------------------------------------------------------------------------
(* Where the runners are                                                     *)

LEMMA GroupsFit ==
  ASSUME NEW p \in Programs, NEW k \in DOMAIN p.groups
  PROVE  TestsFit(p.groups[k])
  BY ProgramAssumption

LEMMA PlaceBegins == Init => PlaceInv
<1> SUFFICES ASSUME Init PROVE PlaceInv
  OBVIOUS
<1>1. prog \in Programs /\ prog.groups # <<>>
      /\ prog.groups \in Seq({ prog.groups[k] : k \in DOMAIN prog.groups })
  BY ProgramAssumption DEF Init
<1>2. g = 1 /\ g \in DOMAIN prog.groups
  BY <1>1 DEF Init
<1>3. TestsFit(group)
  BY <1>1, <1>2, GroupsFit DEF group
<1> QED
  BY <1>1, <1>2, <1>3 DEF Init, PlaceInv, NoTotal, GroupStages, TestsStages, OlderStages

LEMMA NextGroupFits ==
  ASSUME PlaceInv, prog' = prog, NEW v, NextGroup(v)
  PROVE  g' \in DOMAIN prog'.groups /\ TestsFit(group') /\ stage' \in {"open", "done"}
<1>1. prog \in Programs /\ g \in DOMAIN prog.groups
  BY DEF PlaceInv
<1>2. prog.groups \in Seq({ prog.groups[k] : k \in DOMAIN prog.groups })
  BY <1>1, ProgramAssumption
<1>3. g' \in DOMAIN prog.groups /\ stage' \in {"open", "done"}
  BY <1>1, <1>2 DEF NextGroup
<1>4. TestsFit(prog.groups[g'])
  BY <1>1, <1>3, GroupsFit
<1> QED
  BY <1>3, <1>4 DEF group

LEMMA PlaceStays ==
  ASSUME PlaceInv, UNCHANGED <<prog, g, stage, current, total>>
  PROVE  PlaceInv'
<1>1. group' = group
  BY Same
<1> QED
  BY <1>1 DEF PlaceInv

(* A step within a group                                                     *)
LEMMA PlaceMoves ==
  ASSUME PlaceInv, UNCHANGED <<prog, g>>,
         stage' \in {"open", "check", "done"} \cup GroupStages \cup TestsStages \cup OlderStages,
         stage' \in GroupStages => group.runner = "group",
         stage' \in TestsStages => group.runner = "tests",
         stage' \in OlderStages => group.runner = "group_tests",
         current' \in Nat \ {0}, total' \in Total
  PROVE  PlaceInv'
<1>1. group' = group
  BY Same
<1> QED
  BY <1>1 DEF PlaceInv, Total

LEMMA PlaceKept == PlaceInv /\ [Next]_vars => PlaceInv'
<1> SUFFICES ASSUME PlaceInv, [Next]_vars PROVE PlaceInv'
  OBVIOUS
<1>a. total \in Total /\ NoTotal \in Total /\ current \in Nat \ {0} /\ current + 1 \in Nat \ {0}
  BY DEF PlaceInv, Total, NoTotal
<1>b. ASSUME NEW cs, Add(cs) PROVE total' \in Total
  BY <1>a, <1>b, Added
<1>1. CASE FunctionOnly
  BY <1>1, FunctionOnlyKeeps, PlaceStays
<1>2. CASE OpenGroup
  <2>1. /\ group.runner = "group" /\ total' = NoTotal /\ current' = 1 /\ UNCHANGED <<prog, g>>
        /\ stage' \in {"group setup", "next"}
    BY <1>2 DEF OpenGroup, Calling, Static, Idle
  <2>2. total' \in Total /\ current' \in Nat \ {0}
    <3>1. total' \in Total
      BY <2>1, <1>a, Zenon
    <3>2. current' \in Nat \ {0}
      <4>1. current' = 1
        BY <2>1, Zenon
      <4> QED
        BY <4>1
    <3> QED
      BY <3>1, <3>2
  <2>3. /\ stage' \in {"open", "check", "done"} \cup GroupStages \cup TestsStages \cup OlderStages
        /\ stage' \in GroupStages => group.runner = "group"
        /\ stage' \in TestsStages => group.runner = "tests"
        /\ stage' \in OlderStages => group.runner = "group_tests"
    BY <2>1 DEF GroupStages, TestsStages, OlderStages
  <2> QED
    BY <2>1, <2>2, <2>3, PlaceMoves
<1>3. CASE OpenGroupFails
  <2>1. prog' = prog /\ NextGroup(-1) /\ UNCHANGED <<current, total>>
    BY <1>3 DEF OpenGroupFails, Idle
  <2>2. g' \in DOMAIN prog'.groups /\ TestsFit(group') /\ stage' \in {"open", "done"}
    BY <2>1, NextGroupFits
  <2> QED
    BY <2>1, <2>2 DEF PlaceInv, GroupStages, TestsStages, OlderStages
<1>4. CASE GroupSetupEnds
  <2>1. total' \in Total
    BY <1>4, <1>b DEF GroupSetupEnds
  <2> QED
    BY <1>4, <1>a, <2>1, PlaceMoves DEF PlaceInv, GroupSetupEnds, At, GroupStages, TestsStages, OlderStages
<1>5. CASE NextTest
  BY <1>5, <1>a, PlaceMoves DEF PlaceInv, NextTest, At, Calling, Static, GroupStages, TestsStages, OlderStages
<1>6. CASE SetupEnds
  BY <1>6, <1>a, PlaceMoves DEF PlaceInv, SetupEnds, At, Calling, Static, GroupStages, TestsStages, OlderStages
<1>7. CASE TestEnds
  BY <1>7, <1>a, PlaceMoves DEF PlaceInv, TestEnds, At, GroupStages, TestsStages, OlderStages
<1>8. CASE StartTeardown
  BY <1>8, <1>a, PlaceMoves DEF PlaceInv, StartTeardown, At, Calling, Static, GroupStages, TestsStages, OlderStages
<1>9. CASE TeardownEnds
  BY <1>9, <1>a, PlaceMoves DEF PlaceInv, TeardownEnds, At, GroupStages, TestsStages, OlderStages
<1>10. CASE TestCounted
  <2>1. total' \in Total
    BY <1>10, <1>b DEF TestCounted
  <2> QED
    BY <1>10, <1>a, <2>1, PlaceMoves DEF PlaceInv, TestCounted, At, GroupStages, TestsStages, OlderStages
<1>11. CASE CloseGroup
  BY <1>11, <1>a, PlaceMoves DEF PlaceInv, CloseGroup, At, Calling, Static, Idle, GroupStages, TestsStages, OlderStages
<1>12. CASE GroupTeardownEnds
  BY <1>12, <1>a, PlaceMoves DEF PlaceInv, GroupTeardownEnds, At, GroupStages, TestsStages, OlderStages
<1>13. CASE FinishGroup
  BY <1>13, <1>a, PlaceMoves DEF PlaceInv, FinishGroup, At, Idle, GroupStages, TestsStages, OlderStages
<1>14. CASE OpenTests
  <2>1. /\ group.runner \in {"tests", "group_tests"} /\ total' = NoTotal /\ current' = 1
        /\ UNCHANGED <<prog, g>>
        /\ stage' = "open" \/ stage' = IF group.runner = "tests" THEN "entry" ELSE "older open"
    BY <1>14 DEF OpenTests, At, Static
  <2>2. total' \in Total /\ current' \in Nat \ {0}
    <3>1. total' \in Total
      BY <2>1, <1>a, Zenon
    <3>2. current' \in Nat \ {0}
      <4>1. current' = 1
        BY <2>1, Zenon
      <4> QED
        BY <4>1
    <3> QED
      BY <3>1, <3>2
  <2>3. /\ stage' \in {"open", "check", "done"} \cup GroupStages \cup TestsStages \cup OlderStages
        /\ stage' \in GroupStages => group.runner = "group"
        /\ stage' \in TestsStages => group.runner = "tests"
        /\ stage' \in OlderStages => group.runner = "group_tests"
    BY <2>1, <1>14 DEF OpenTests, At, GroupStages, TestsStages, OlderStages
  <2> QED
    BY <2>1, <2>2, <2>3, PlaceMoves
<1>15. CASE NextEntry
  BY <1>15, <1>a, PlaceMoves DEF PlaceInv, NextEntry, At, Static, GroupStages, TestsStages, OlderStages
<1>16. CASE EntryEnds
  <2>1. total' \in Total
    BY <1>16, <1>b DEF EntryEnds
  <2> QED
    BY <1>16, <1>a, <2>1, PlaceMoves DEF PlaceInv, EntryEnds, At, Idle, GroupStages, TestsStages, OlderStages
<1>17. CASE EntriesEnd
  BY <1>17, <1>a, PlaceMoves DEF PlaceInv, EntriesEnd, At, Idle, GroupStages, TestsStages, OlderStages
<1>18. CASE OlderSetup
  BY <1>18, <1>a, PlaceMoves DEF PlaceInv, OlderSetup, At, Calling, Static, Idle, GroupStages, TestsStages, OlderStages
<1>19. CASE OlderEnds
  <2>1. total' \in Total
    BY <1>19, <1>b DEF OlderEnds
  <2> QED
    BY <1>19, <1>a, <2>1, PlaceMoves DEF PlaceInv, OlderEnds, Idle, GroupStages, TestsStages, OlderStages
<1>20. CASE OlderNext
  BY <1>20, <1>a, PlaceMoves DEF PlaceInv, OlderNext, At, Calling, Static, Idle, GroupStages, TestsStages, OlderStages
<1>21. CASE CheckGroupBlocks
  <2>1. prog' = prog /\ UNCHANGED <<current, total>> /\ (NextGroup(ReturnValue) \/ UNCHANGED <<g, stage>>)
    BY <1>21 DEF CheckGroupBlocks, Static
  <2>2. CASE NextGroup(ReturnValue)
    <3>1. g' \in DOMAIN prog'.groups /\ TestsFit(group') /\ stage' \in {"open", "done"}
      BY <2>1, <2>2, NextGroupFits
    <3> QED
      BY <2>1, <3>1 DEF PlaceInv, GroupStages, TestsStages, OlderStages
  <2> QED
    BY <2>1, <2>2, PlaceStays
<1>22. CASE UNCHANGED vars
  BY <1>22, PlaceStays DEF vars, process, place
<1> QED
  BY <1>1, <1>2, <1>3, <1>4, <1>5, <1>6, <1>7, <1>8, <1>9, <1>10, <1>11, <1>12, <1>13, <1>14, <1>15,
     <1>16, <1>17, <1>18, <1>19, <1>20, <1>21, <1>22 DEF Next, FunctionOnly, TheEnd

-----------------------------------------------------------------------------
(* What a function does to the messages, and how it ends                     *)

FunctionGoes ==
  /\ at \in {"body", "checks"} /\ nth' = nth /\ buffered' = buffered
  /\ \/ message' = message
     \/ /\ message' = IF buffered THEN message \cup {nth} ELSE message
        /\ rc' = -1 /\ at' \in {"idle", "aborted"}
WildKeeps == WildInv => WildInv'

LEMMA Leaving ==
  ASSUME at \in {"body", "checks"}, NEW reason, NEW flag, Leave(reason, flag)
  PROVE  FunctionGoes
  BY DEF FunctionGoes, Leave

LEMMA Leaving2 ==
  ASSUME NEW reason, NEW flag, Leave(reason, flag)
  PROVE  at' # "wild" /\ ~inside' /\ (left => left') /\ (inside /\ reason # "no assert" => left')
  BY DEF Leave

LEMMA Failing ==
  ASSUME at \in {"body", "checks"}, NEW reason, Fail(reason), reason # "no assert"
  PROVE  FunctionGoes /\ WildKeeps
<1>1. Leave(reason, skip) /\ expecting' = expecting
  BY DEF Fail
<1>2. at' # "wild" /\ ~inside' /\ (left => left') /\ (inside => left')
  BY <1>1, Leaving2
<1>3. WildKeeps
  BY <1>1, <1>2, Zenon DEF WildKeeps, WildInv
<1> QED
  BY <1>1, <1>3, Leaving

LEMMA Going ==
  ASSUME at \in {"body", "checks"}, UNCHANGED <<at, expecting, inside, left, nth, buffered, message>>
  PROVE  FunctionGoes /\ WildKeeps
  BY DEF FunctionGoes, WildKeeps, WildInv

LEMMA FunctionSteps ==
  ASSUME FunctionStep
  PROVE  FunctionGoes /\ WildKeeps
<1> DEFINE Kept == UNCHANGED <<at, expecting, inside, left, nth, buffered, message>>
<1>a. GoesOn => Kept
  BY DEF GoesOn, Goes
<1>b. ASSUME NEW what, Step(what) PROVE at \in {"body", "checks"}
  BY <1>b DEF Step
<1>c. CheckPassed => Kept
  BY DEF CheckPassed
<1> HIDE DEF Kept
<1>d. at \in {"body", "checks"} /\ Kept => FunctionGoes /\ WildKeeps
  BY Going DEF Kept
<1>1. CASE DeclareValue \/ DeclareCall
  BY <1>1, <1>a, <1>b, <1>d, Zenon DEF DeclareValue, DeclareCall
<1>2. CASE Malloc
  <2>1. at \in {"body", "checks"} /\ (GoesOn \/ Fail("no memory"))
    BY <1>2, <1>b, Zenon DEF Malloc, Fails
  <2> QED
    BY <2>1, <1>a, <1>d, Failing
<1>3. CASE AssertThat
  <2>1. at \in {"body", "checks"}
    BY <1>3, <1>b, Zenon DEF AssertThat
  <2>2. (Goes /\ UNCHANGED <<expecting, inside>>) \/ Fail("assert")
    BY <1>3 DEF AssertThat
  <2>3. CASE Goes /\ UNCHANGED <<expecting, inside>>
    <3>1. Kept
      BY <2>3 DEF Goes, Kept
    <3> QED
      BY <2>1, <3>1, <1>d
  <2> QED
    BY <2>1, <2>2, <2>3, Failing
<1>4. CASE GiveUp
  <2>1. at \in {"body", "checks"}
    BY <1>4, <1>b, Zenon DEF GiveUp
  <2>2. CASE \E reason \in {"fail", "exception"} : Fails(reason)
    BY <2>1, <2>2, Failing DEF Fails
  <2>3. CASE Leave("skip", IF legacy THEN "legacy" ELSE kind) /\ UNCHANGED expecting
    <3>1. at' # "wild" /\ ~inside' /\ (left => left') /\ (inside => left')
      <4>1. PICK flag : Leave("skip", flag)
        BY <2>3, Zenon
      <4>2. at' # "wild" /\ ~inside' /\ (left => left') /\ (inside /\ "skip" # "no assert" => left')
        BY <4>1, Leaving2
      <4>3. "skip" # "no assert"
        OBVIOUS
      <4> QED
        BY <4>2, <4>3, Zenon
    <3>2. WildKeeps
      BY <2>3, <3>1, Zenon DEF WildKeeps, WildInv
    <3> QED
      BY <2>1, <2>3, <3>2, Leaving
  <2> QED
    BY <1>4, <2>2, <2>3 DEF GiveUp
<1>5. ASSUME NEW s, Mock(s) PROVE FunctionGoes /\ WildKeeps
  <2>1. at \in {"body", "checks"} /\ (GoesOn \/ Fail("no value"))
    BY <1>5, <1>b, Zenon DEF Mock, Fails
  <2> QED
    BY <2>1, <1>a, <1>d, Failing
<1>6. ASSUME NEW p, CheckExpected(p) PROVE FunctionGoes /\ WildKeeps
  <2>1. at \in {"body", "checks"} /\ (GoesOn \/ Fail("check") \/ Fail("no value"))
    <3>1. Step("values") /\ (GoesOn \/ Fail(IF queues[p] # <<>> THEN "check" ELSE "no value"))
      BY <1>6, Zenon DEF CheckExpected, Fails
    <3>2. queues[p] # <<>> \/ ~(queues[p] # <<>>)
      OBVIOUS
    <3> QED
      BY <3>1, <3>2, <1>b, Zenon
  <2> QED
    BY <2>1, <1>a, <1>d, Failing
<1>7. ASSUME NEW f, FunctionCalled(f) PROVE FunctionGoes /\ WildKeeps
  <2>1. at \in {"body", "checks"} /\ (GoesOn \/ Fail("exception") \/ Fail("call"))
    <3>1. Step("calls") /\ (GoesOn \/ Fail(IF CallCrashes(f) THEN "exception" ELSE "call"))
      BY <1>7, Zenon DEF FunctionCalled, Fails
    <3> QED
      BY <3>1, <1>b, Zenon
  <2> QED
    BY <2>1, <1>a, <1>d, Failing
<1>8. ASSUME NEW a, Free(a) \/ Realloc(a) \/ Corrupt(a) PROVE FunctionGoes /\ WildKeeps
  <2>1. at \in {"body", "checks"} /\ (GoesOn \/ Fail("guard"))
    BY <1>8, <1>b, Zenon DEF Free, Realloc, Corrupt, Fails
  <2> QED
    BY <2>1, <1>a, <1>d, Failing
<1>9. CASE ExpectAssertFailure
  <2>1. /\ at \in {"body", "checks"} /\ inside' = TRUE
        /\ UNCHANGED <<at, left, nth, buffered, message>>
    BY <1>9 DEF ExpectAssertFailure, Step, Goes
  <2> QED
    BY <2>1 DEF FunctionGoes, WildKeeps, WildInv
<1>10. CASE MockAssert
  <2>1. at \in {"body", "checks"}
    BY <1>10, <1>b, Zenon DEF MockAssert
  <2>2. CASE expecting /\ inside
    <3>1. expecting' = FALSE /\ UNCHANGED <<at, left, nth, buffered, message>>
      BY <1>10, <2>2 DEF MockAssert, Goes
    <3> QED
      BY <2>1, <3>1 DEF FunctionGoes, WildKeeps, WildInv
  <2>3. CASE expecting /\ ~inside
    <3>1. UNCHANGED <<expecting, inside, left, nth, buffered, message>>
      BY <1>10, <2>3 DEF MockAssert
    <3> QED
      BY <2>1, <2>3, <3>1 DEF FunctionGoes, WildKeeps, WildInv
  <2>4. CASE ~expecting
    <3>1. Fail("mock assert")
      BY <1>10, <2>4 DEF MockAssert, Fails
    <3> QED
      BY <2>1, <3>1, Failing
  <2> QED
    BY <2>2, <2>3, <2>4, Zenon
<1>11. CASE AssertMissed
  <2>1. at = "body" /\ expecting' = FALSE /\ Leave("no assert", skip)
    BY <1>11 DEF AssertMissed
  <2>2. at' # "wild" /\ (left => left')
    BY <2>1, Leaving2
  <2> QED
    BY <2>1, <2>2, Leaving DEF WildKeeps, WildInv
<1>12. CASE Return \/ FunctionPasses
  <2>1. at \in {"body", "checks"} /\ at' # "wild" /\ UNCHANGED <<expecting, inside, left, nth, buffered, message>>
    BY <1>12 DEF Return, FunctionPasses
  <2> QED
    BY <2>1 DEF FunctionGoes, WildKeeps, WildInv
<1>13. CASE CheckBlocks
  <2>1. at \in {"body", "checks"} /\ (CheckPassed \/ Fail("leak") \/ Fail("exception"))
    BY <1>13, Zenon DEF CheckBlocks, Fails
  <2> QED
    BY <2>1, <1>c, <1>d, Failing
<1>14. CASE CheckValues
  <2>1. at \in {"body", "checks"} /\ (CheckPassed \/ Fail("leftover"))
    BY <1>14, Zenon DEF CheckValues, Fails
  <2> QED
    BY <2>1, <1>c, <1>d, Failing
<1> QED
  BY <1>1, <1>2, <1>3, <1>4, <1>5, <1>6, <1>7, <1>8, <1>9, <1>10, <1>11, <1>12, <1>13, <1>14 DEF FunctionStep

-----------------------------------------------------------------------------
(* How a program may end                                                     *)

(* Where the runner crashes.                                                 *)
CrashInv ==
  at = "crashed" =>
    \/ stage = "check" /\ Dangling(groupCp)
    \/ stage = "next" /\ group.runner = "group" /\ Hole
    \/ stage = "check" /\ group.runner = "group" /\ Hole /\ SetupFailed

(* The tests that have been run, and the one that is, have names.            *)
NamedInv ==
  /\ stage \in AtTest => group.tests[current].named
  /\ InGroup => \A k \in 1..current - 1 : group.tests[k].named

RunnerStep ==
  \/ OpenGroup \/ OpenGroupFails \/ GroupSetupEnds \/ NextTest \/ SetupEnds \/ TestEnds
  \/ StartTeardown \/ TeardownEnds \/ TestCounted \/ CloseGroup \/ GroupTeardownEnds
  \/ FinishGroup \/ OpenTests \/ NextEntry \/ EntryEnds \/ EntriesEnd
  \/ OlderSetup \/ OlderEnds \/ OlderNext \/ CheckGroupBlocks

LEMMA Steps ==
  ASSUME [Next]_vars
  PROVE  FunctionOnly \/ RunnerStep \/ UNCHANGED vars
  BY DEF Next, FunctionOnly, RunnerStep, TheEnd

Quiet == UNCHANGED <<expecting, inside, left>> /\ at' \in {"idle", "body", "exited", "aborted"}

LEMMA Quietly ==
  /\ \A old, k, c : Begin(old, k, c) => Quiet
  /\ at = "idle" /\ UNCHANGED function => Quiet
  /\ at = "idle" /\ UNCHANGED frame => Quiet
  /\ ExitProgram => Quiet
<1>1. ASSUME NEW old, NEW k, NEW c, Begin(old, k, c) PROVE Quiet
  BY <1>1 DEF Begin, Quiet
<1>2. at = "idle" /\ UNCHANGED frame => Quiet
  BY DEF Quiet, frame
<1>3. UNCHANGED function => UNCHANGED frame
  BY DEF function
<1>4. ExitProgram => Quiet
  <2>1. ExitProgram => UNCHANGED <<expecting, inside, left>>
    BY DEF ExitProgram
  <2>2. ExitProgram => at' \in {"exited", "aborted"}
    BY DEF ExitProgram
  <2> QED
    BY <2>1, <2>2 DEF Quiet
<1> QED
  BY <1>1, <1>2, <1>3, <1>4, Zenon

LEMMA RunnerQuiet ==
  ASSUME RunnerStep
  PROVE  /\ at = "idle"
         /\ \/ Quiet
            \/ NextTest /\ Crash /\ ~group.tests[current].named /\ stage' = stage
            \/ /\ CheckGroupBlocks /\ Crash /\ (Dangling(groupCp) \/ MessageAstray)
               /\ UNCHANGED <<heap, stage, groupCp>>
<1>1. at = "idle"
  BY DEF RunnerStep, At, OpenGroup, OpenGroupFails, GroupSetupEnds, NextTest, SetupEnds, TestEnds,
     StartTeardown, TeardownEnds, TestCounted, CloseGroup, GroupTeardownEnds, FinishGroup, OpenTests,
     NextEntry, EntryEnds, EntriesEnd, OlderSetup, OlderEnds, OlderNext, CheckGroupBlocks
<1>a. \A old, k, c : Calling(old, k, c) => Quiet
  BY Quietly, Zenon DEF Calling
<1>b. Idle => Quiet
  BY <1>1, Quietly DEF Idle
<1>2. CASE OpenGroup
  BY <1>2, <1>1, <1>a, <1>b, Zenon DEF OpenGroup
<1>3. CASE NextTest
  <2>1. CASE ~group.tests[current].named
    <3>1. Crash /\ stage' = stage
      BY <1>3, <2>1 DEF NextTest
    <3> QED
      BY <1>1, <1>3, <2>1, <3>1, Zenon
  <2>2. CASE group.tests[current].named
    BY <1>3, <2>2, <1>1, <1>a, Zenon DEF NextTest
  <2> QED
    BY <2>1, <2>2, Zenon
<1>4. CASE SetupEnds
  <2>1. UNCHANGED frame \/ Calling(FALSE, "test", Own)
    BY <1>4 DEF SetupEnds
  <2> QED
    BY <2>1, <1>1, <1>a, Quietly, Zenon
<1>5. CASE StartTeardown
  <2>1. \E c : Calling(FALSE, "teardown", c)
    BY <1>5, Zenon DEF StartTeardown
  <2> QED
    BY <2>1, <1>1, <1>a, Zenon
<1>6. CASE CloseGroup
  BY <1>6, <1>1, <1>a, <1>b, Zenon DEF CloseGroup
<1>7. CASE GroupSetupEnds \/ TestEnds \/ TeardownEnds \/ TestCounted \/ GroupTeardownEnds
  <2>1. UNCHANGED frame
    BY <1>7 DEF GroupSetupEnds, TestEnds, TeardownEnds, TestCounted, GroupTeardownEnds
  <2> QED
    BY <2>1, <1>1, Quietly, Zenon
<1>8. CASE OpenGroupFails \/ FinishGroup \/ EntryEnds \/ EntriesEnd \/ OlderEnds
  BY <1>8, <1>1, <1>b, Zenon DEF OpenGroupFails, FinishGroup, EntryEnds, EntriesEnd, OlderEnds
<1>9. CASE OpenTests
  <2>1. ExitProgram \/ UNCHANGED function
    BY <1>9 DEF OpenTests
  <2> QED
    BY <2>1, <1>1, Quietly, Zenon
<1>10. CASE NextEntry
  <2>1. ExitProgram \/ UNCHANGED function \/ \E c : Begin(TRUE, Entry, c)
    BY <1>10, Zenon DEF NextEntry
  <2> QED
    BY <2>1, <1>1, Quietly, Zenon
<1>11. CASE OlderSetup
  BY <1>11, <1>1, <1>a, <1>b, Zenon DEF OlderSetup
<1>12. CASE OlderNext
  <2>1. Idle \/ \E k, c : Calling(TRUE, k, c)
    BY <1>12, Zenon DEF OlderNext
  <2> QED
    BY <2>1, <1>1, <1>a, <1>b, Zenon
<1>13. CASE CheckGroupBlocks
  <2>1. \/ UNCHANGED function
        \/ ExitProgram
        \/ (Dangling(groupCp) \/ MessageAstray) /\ Crash /\ UNCHANGED <<heap, stage>>
    BY <1>13 DEF CheckGroupBlocks
  <2>2. groupCp' = groupCp
    BY <1>13 DEF CheckGroupBlocks, checkPoints
  <2> QED
    BY <2>1, <2>2, <1>1, <1>13, Quietly
<1> QED
  BY <1>1, <1>2, <1>3, <1>4, <1>5, <1>6, <1>7, <1>8, <1>9, <1>10, <1>11, <1>12, <1>13 DEF RunnerStep

LEMMA AccidentsBegin == Init => WildInv /\ CrashInv /\ NamedInv
  BY DEF Init, FunctionInit, WildInv, CrashInv, NamedInv, InGroup, GroupStages, AtTest

LEMMA NamedKept == PlaceInv /\ NamedInv /\ [Next]_vars => NamedInv'
<1> SUFFICES ASSUME PlaceInv, NamedInv, [Next]_vars PROVE NamedInv'
  OBVIOUS
<1>a. current \in Nat \ {0}
  BY DEF PlaceInv
<1>b. ASSUME UNCHANGED <<prog, g, current>>, stage \in GroupStages, stage' \in GroupStages \cup {"check"},
             stage' \in AtTest => group.tests[current].named
      PROVE  NamedInv'
  BY <1>b, Same DEF NamedInv, InGroup, PlaceInv
<1>c. ASSUME group' = group, group.runner # "group", stage' \notin AtTest PROVE NamedInv'
  BY <1>c DEF NamedInv, InGroup
<1>d. ASSUME stage' \in {"open", "done"} PROVE NamedInv'
  BY <1>d DEF NamedInv, InGroup, GroupStages, AtTest
<1>e. ASSUME UNCHANGED <<prog, g, current, stage>> PROVE NamedInv'
  BY <1>e, Same DEF NamedInv, InGroup
<1>1. CASE FunctionOnly
  BY <1>1, <1>e, FunctionOnlyKeeps
<1>2. CASE UNCHANGED vars
  BY <1>2, <1>e DEF vars, process, place
<1>3. CASE OpenGroup
  <2>1. current' = 1 /\ stage' \in {"group setup", "next"}
    BY <1>3 DEF OpenGroup
  <2>2. \A m : m = 1 => \A k \in 1..m - 1 : FALSE
    OBVIOUS
  <2>3. \A k \in 1..current' - 1 : FALSE
    BY <2>1, <2>2, Zenon
  <2> QED
    BY <2>1, <2>3 DEF NamedInv, AtTest
<1>4. CASE OpenGroupFails
  BY <1>4, <1>d DEF OpenGroupFails, NextGroup
<1>5. CASE NextTest
  <2>1. /\ stage = "next" /\ UNCHANGED <<prog, g, current>> /\ stage' \in {"next", "setup", "test"}
        /\ stage' = "next" \/ group.tests[current].named
    BY <1>5 DEF NextTest, At, Calling, Static
  <2> QED
    BY <2>1, <1>b DEF GroupStages, AtTest
<1>6. CASE SetupEnds \/ StartTeardown
  <2>1. /\ stage \in {"setup", "tear"} /\ UNCHANGED <<prog, g, current>>
        /\ stage' \in {"count", "test", "teardown"}
    BY <1>6 DEF SetupEnds, StartTeardown, At, Calling, Static
  <2> QED
    BY <2>1, <1>b DEF GroupStages, AtTest, NamedInv
<1>7. CASE TestEnds \/ TeardownEnds
  <2>1. /\ stage \in {"test", "teardown"} /\ UNCHANGED <<prog, g, current>> /\ stage' \in {"count", "tear"}
    BY <1>7 DEF TestEnds, TeardownEnds, At
  <2> QED
    BY <2>1, <1>b DEF GroupStages, AtTest, NamedInv
<1>8. CASE GroupSetupEnds \/ GroupTeardownEnds
  <2>1. /\ stage \in {"group setup", "group teardown"} /\ UNCHANGED <<prog, g, current>>
        /\ stage' \in {"close", "next", "finish"}
    BY <1>8 DEF GroupSetupEnds, GroupTeardownEnds, At
  <2> QED
    BY <2>1, <1>b DEF GroupStages, AtTest
<1>9. CASE TestCounted
  <2>1. stage = "count" /\ UNCHANGED <<prog, g>> /\ current' = current + 1 /\ stage' = "next"
    BY <1>9 DEF TestCounted, At
  <2>2. group' = group
    BY <2>1, Same
  <2>3. \A k \in 1..current' - 1 : k \in 1..current - 1 \/ k = current
    BY <2>1, <1>a
  <2>4. group.tests[current].named /\ \A k \in 1..current - 1 : group.tests[k].named
    BY <2>1 DEF NamedInv, AtTest, InGroup, GroupStages, PlaceInv
  <2>5. \A k \in 1..current' - 1 : group.tests[k].named
    BY <2>3, <2>4, Zenon
  <2> QED
    BY <2>1, <2>2, <2>5 DEF NamedInv, AtTest
<1>10. CASE CloseGroup \/ FinishGroup
  <2>1. /\ stage \in GroupStages /\ UNCHANGED <<prog, g, current>>
        /\ stage' \in {"group teardown", "finish", "check"}
    BY <1>10 DEF CloseGroup, FinishGroup, At, Calling, Static, Idle, GroupStages
  <2> QED
    BY <2>1, <1>b DEF GroupStages, AtTest
<1>11. CASE OpenTests
  <2>1. UNCHANGED <<prog, g>> /\ group.runner # "group" /\ stage' \in {"open", "entry", "older open"}
    BY <1>11 DEF OpenTests, At, Static
  <2> QED
    BY <2>1, <1>c, Same DEF AtTest
<1>12. CASE NextEntry \/ EntryEnds \/ EntriesEnd \/ OlderSetup \/ OlderEnds \/ OlderNext
  <2>1. stage \in TestsStages \cup OlderStages
    BY <1>12 DEF NextEntry, EntryEnds, EntriesEnd, OlderSetup, OlderEnds, OlderNext, At, TestsStages, OlderStages
  <2>2. UNCHANGED <<prog, g>>
    BY <1>12 DEF NextEntry, EntryEnds, EntriesEnd, OlderSetup, OlderEnds, OlderNext, Idle, Static, Calling
  <2>3. stage' \in TestsStages \cup OlderStages \cup {"check"}
    BY <1>12 DEF NextEntry, EntryEnds, EntriesEnd, OlderSetup, OlderEnds, OlderNext, At, TestsStages, OlderStages
  <2> QED
    BY <2>1, <2>2, <2>3, <1>c, Same DEF PlaceInv, AtTest, TestsStages, OlderStages
<1>13. CASE CheckGroupBlocks
  <2>1. prog' = prog /\ current' = current /\ (NextGroup(ReturnValue) \/ UNCHANGED <<g, stage>>)
    BY <1>13 DEF CheckGroupBlocks, Static
  <2> QED
    BY <2>1, <1>d, <1>e DEF NextGroup
<1> QED
  BY <1>1, <1>2, <1>3, <1>4, <1>5, <1>6, <1>7, <1>8, <1>9, <1>10, <1>11, <1>12, <1>13, Steps DEF RunnerStep

(* Where messages that are not initialised are freed, the tests were not run.*)
LEMMA AstrayOnlyUnrun ==
  ASSUME PlaceInv, NamedInv, GroupInv, stage = "check", MessageAstray
  PROVE  group.runner = "group" /\ Hole /\ SetupFailed
<1>1. group.runner = "group" /\ TotalTests \in Nat
  BY Totals DEF MessageAstray
<1>2. PICK k \in 1..TotalTests : ~group.tests[k].named
  BY DEF MessageAstray
<1>3. Hole
  BY <1>1, <1>2, Pigeonhole
<1>4. SetupFailed \/ current = TotalTests + 1
  BY <1>1 DEF GroupInv, InGroup, CountInv
<1>5. ~(current = TotalTests + 1)
  <2>1. \A j \in 1..current - 1 : group.tests[j].named
    BY <1>1 DEF NamedInv, InGroup
  <2> QED
    BY <1>1, <1>2, <2>1
<1> QED
  BY <1>1, <1>3, <1>4, <1>5

LEMMA AccidentsKept ==
  PlaceInv /\ GroupInv /\ NamedInv /\ WildInv /\ CrashInv /\ [Next]_vars => WildInv' /\ CrashInv'
<1> SUFFICES ASSUME PlaceInv, GroupInv, NamedInv, WildInv, CrashInv, [Next]_vars PROVE WildInv' /\ CrashInv'
  OBVIOUS
<1>1. CASE FunctionOnly
  <2>1. FunctionGoes /\ WildKeeps
    BY <1>1, FunctionSteps DEF FunctionOnly
  <2>2. at' # "crashed"
    BY <1>1 DEF FunctionOnly, FunctionStep, DeclareValue, DeclareCall, Malloc, AssertThat, GiveUp, Mock,
       CheckExpected, FunctionCalled, Free, Realloc, Corrupt, ExpectAssertFailure, MockAssert, AssertMissed,
       Return, CheckBlocks, CheckValues, FunctionPasses, Step, GoesOn, Goes, Fails, Fail, Leave, CheckPassed
  <2> QED
    BY <2>1, <2>2 DEF WildKeeps, CrashInv
<1>2. CASE RunnerStep
  <2>1. CASE Quiet
    BY <2>1 DEF Quiet, WildInv, CrashInv
  <2>2. CASE NextTest /\ Crash /\ ~group.tests[current].named /\ stage' = stage
    <3>1. Hole /\ group.runner = "group" /\ stage = "next"
      BY <2>2, Pigeonhole DEF NextTest, At, PlaceInv, GroupStages
    <3>2. group' = group
      BY <2>2, Same DEF NextTest, Static, Calling
    <3>3. at' = "crashed" /\ UNCHANGED <<expecting, inside, left>>
      BY <2>2 DEF Crash
    <3> QED
      BY <2>2, <3>1, <3>2, <3>3 DEF WildInv, CrashInv, Hole
  <2>3. CASE /\ CheckGroupBlocks /\ Crash /\ (Dangling(groupCp) \/ MessageAstray)
             /\ UNCHANGED <<heap, stage, groupCp>>
    <3>1. at' = "crashed" /\ UNCHANGED <<expecting, inside, left>>
      BY <2>3 DEF Crash
    <3>2. stage = "check" /\ (Dangling(groupCp) => Dangling(groupCp)')
      BY <2>3 DEF CheckGroupBlocks, At, Dangling, Held, heap
    <3>3. CASE Dangling(groupCp)
      BY <2>3, <3>1, <3>2, <3>3 DEF WildInv, CrashInv
    <3>4. CASE MessageAstray
      <4>1. group.runner = "group" /\ Hole /\ SetupFailed
        BY <3>2, <3>4, AstrayOnlyUnrun
      <4>2. UNCHANGED <<prog, failedIn>> /\ (g' = g \/ NextGroup(ReturnValue))
        BY <2>3 DEF CheckGroupBlocks, Static
      <4>3. g' = g
        BY <2>3, <3>2, <4>2 DEF NextGroup
      <4>4. group' = group
        BY <4>2, <4>3, Same
      <4> QED
        BY <2>3, <3>1, <3>2, <4>1, <4>2, <4>4 DEF WildInv, CrashInv, Hole, SetupFailed
    <3> QED
      BY <2>3, <3>3, <3>4
  <2> QED
    BY <1>2, <2>1, <2>2, <2>3, RunnerQuiet
<1>3. CASE UNCHANGED vars
  <2>1. UNCHANGED <<expecting, inside, left, at, stage, groupCp, heap, prog, g, failedIn>>
    BY <1>3 DEF vars, process, function, frame, place, checkPoints
  <2> QED
    BY <2>1, Same DEF WildInv, CrashInv, Hole, SetupFailed, Dangling, Held, heap
<1> QED
  BY <1>1, <1>2, <1>3, Steps

LEMMA AccidentsMeant == PlaceInv /\ WildInv /\ CrashInv => AccidentsExplained
<1> SUFFICES ASSUME PlaceInv, WildInv, CrashInv PROVE AccidentsExplained
  OBVIOUS
<1>1. Dangling(groupCp) => Stale(groupCp)
  BY DEF Dangling, Stale, Held
<1> QED
  BY <1>1 DEF WildInv, CrashInv, SetupFailed, AccidentsExplained, WildOnlyAfterFailureInside, CrashOnlyByHole

-----------------------------------------------------------------------------
(* Whose messages a test is given                                            *)

(* Nothing of this changes with the place alone, outside of a test.          *)
LEMMA MessagesAside ==
  ASSUME PlaceInv, MessageInv, UNCHANGED <<own, told>>, message' = {},
         at' \in {"body", "checks"} => stage' \in FunctionRuns,
         stage' \notin AtTest, stage' \in GroupStages => stage \in GroupStages /\ group' = group,
         stage' \in {"entry runs", "older setup", "older test", "older teardown"} => ~buffered'
  PROVE  MessageInv'
<1>1. stage' \notin {"setup", "test", "teardown"}
  BY DEF AtTest
<1>2. MessageOfOwnTest' /\ (DOMAIN told = DOMAIN own)'
  BY DEF MessageInv, MessageOfOwnTest
<1>3. (stage \in GroupStages => DOMAIN own = 1..Len(group.tests))'
  BY DEF MessageInv
<1> QED
  BY <1>1, <1>2, <1>3 DEF MessageInv

LEMMA MessagesBegin == Init => MessageInv
<1> SUFFICES ASSUME Init PROVE MessageInv
  OBVIOUS
<1>1. stage = "open" /\ at = "idle" /\ message = {} /\ own = <<>> /\ told = <<>>
  BY DEF Init, FunctionInit
<1>2. MessageOfOwnTest
  BY <1>1 DEF MessageOfOwnTest
<1> QED
  BY <1>1, <1>2 DEF MessageInv, AtTest, GroupStages

LEMMA MessagesOfFunction ==
  ASSUME PlaceInv, MessageInv, FunctionOnly
  PROVE  MessageInv'
<1>1. FunctionGoes
  BY FunctionSteps DEF FunctionOnly
<1>2. UNCHANGED <<own, told, stage, current>> /\ group' = group
  BY FunctionOnlyKeeps
<1>3. stage \in FunctionRuns
  BY <1>1 DEF MessageInv, FunctionGoes
<1>4. MessageOfOwnTest' /\ (DOMAIN told = DOMAIN own)' /\ nth' = nth /\ buffered' = buffered
  BY <1>1, <1>2 DEF MessageInv, MessageOfOwnTest, FunctionGoes
<1>5. CASE stage \in {"setup", "test", "teardown"}
  <2>1. message' \subseteq own[current]
    BY <1>1, <1>5 DEF MessageInv, FunctionGoes, AtTest
  <2> QED
    BY <1>2, <1>4, <1>5, <2>1 DEF MessageInv, AtTest, FunctionRuns
<1>6. CASE stage \in {"group setup", "group teardown"}
  <2>1. message = {}
    BY <1>1, <1>6 DEF MessageInv, FunctionGoes
  <2>2. message' = {} \/ (rc' # 0 /\ at' \notin {"body", "checks"})
    BY <1>1, <2>1 DEF FunctionGoes
  <2> QED
    BY <1>2, <1>4, <1>6, <2>2 DEF MessageInv, AtTest, FunctionRuns
<1>7. CASE stage \in {"entry runs", "older setup", "older test", "older teardown"}
  <2>1. ~buffered /\ message = {}
    BY <1>7 DEF MessageInv, AtTest
  <2>2. ~buffered'
    BY <2>1, <1>4
  <2>3. message' = message
    BY <2>1, <1>1 DEF FunctionGoes
  <2> QED
    BY <1>2, <1>4, <1>7, <2>1, <2>2, <2>3 DEF MessageInv, AtTest, FunctionRuns
<1> QED
  BY <1>3, <1>5, <1>6, <1>7 DEF FunctionRuns

LEMMA Called ==
  ASSUME NEW old, NEW k, NEW c, Calling(old, k, c)
  PROVE  /\ at' = "body" /\ nth' = nth + 1 /\ message' = message /\ prog' = prog
         /\ old = TRUE => ~buffered'
  BY DEF Calling, Begin, Static

LEMMA MessagesKept == PlaceInv /\ MessageInv /\ [Next]_vars => MessageInv'
<1> SUFFICES ASSUME PlaceInv, MessageInv, [Next]_vars PROVE MessageInv'
  OBVIOUS
<1>a. stage \notin AtTest \cup {"group setup", "group teardown"} => message = {}
  BY DEF MessageInv
<1>b. Idle => message' = message /\ at' = at /\ prog' = prog
  BY DEF Idle, function, frame
<1>1. CASE FunctionOnly
  BY <1>1, MessagesOfFunction
<1>2. CASE OpenGroup
  <2>1. message' = {} /\ stage' \in {"group setup", "next"} /\ group' = group
    <3>1. stage = "open" /\ UNCHANGED g /\ stage' \in {"group setup", "next"} /\ message' = message /\ prog' = prog
      BY <1>2, <1>b, Called DEF OpenGroup, At
    <3> QED
      BY <3>1, <1>a, Same DEF AtTest
  <2>2. own' = [k \in DOMAIN group.tests |-> {}] /\ told' = own'
    BY <1>2 DEF OpenGroup
  <2>3. DOMAIN own' = 1..Len(group'.tests)
    BY <2>1, <2>2, GroupFits
  <2>4. stage' = "next" => at' = "idle"
    BY <1>2, <1>b DEF OpenGroup, At
  <2>5. MessageOfOwnTest'
    BY <2>2 DEF MessageOfOwnTest
  <2> QED
    BY <2>1, <2>2, <2>3, <2>4, <2>5 DEF MessageInv, AtTest, FunctionRuns, GroupStages
<1>3. CASE OpenGroupFails
  <2>1. stage = "open" /\ stage' \in {"open", "done"} /\ at' = "idle" /\ message' = message /\ UNCHANGED <<own, told>>
    BY <1>3 DEF OpenGroupFails, At, NextGroup, newer, Idle, function, frame
  <2> QED
    BY <2>1, <1>a, MessagesAside DEF AtTest, GroupStages, FunctionRuns
<1>4. CASE GroupSetupEnds
  <2>1. /\ at = "idle" /\ at' = "idle" /\ stage = "group setup" /\ stage' \in {"close", "next"}
        /\ UNCHANGED <<own, told, g, prog>> /\ message' = IF rc # 0 THEN {} ELSE message
    BY <1>4 DEF GroupSetupEnds, At, Failed, frame
  <2>2. message' = {}
    BY <2>1 DEF MessageInv
  <2> QED
    BY <2>1, <2>2, Same, MessagesAside DEF AtTest, GroupStages
<1>5. CASE NextTest
  <2>1. stage = "next" /\ group' = group /\ message' = {} /\ UNCHANGED <<current, told>>
    <3>1. stage = "next" /\ UNCHANGED <<g, prog, message, current, told>>
      BY <1>5, Called DEF NextTest, At, Crash, Static
    <3> QED
      BY <3>1, <1>a, Same DEF AtTest
  <2>2. CASE group.tests[current].named
    <3>1. /\ own' = [own EXCEPT ![current] = @ \cup {nth + 1}]
          /\ stage' \in {"setup", "test"} /\ nth' = nth + 1 /\ at' = "body"
      BY <1>5, <2>2, Called DEF NextTest
    <3>2. current \in DOMAIN own /\ DOMAIN own = 1..Len(group.tests)
      <4>1. DOMAIN own = 1..Len(group.tests) /\ current <= TotalTests /\ current \in Nat \ {0}
        BY <1>5, <2>1 DEF NextTest, MessageInv, GroupStages, PlaceInv
      <4> QED
        BY <4>1, Totals, GroupFits
    <3>3. DOMAIN own' = DOMAIN own /\ current \in DOMAIN own' /\ nth' \in own'[current]
      BY <3>1, <3>2
    <3>4. MessageOfOwnTest'
      BY <2>1, <3>1 DEF MessageInv, MessageOfOwnTest
    <3> QED
      BY <2>1, <3>1, <3>2, <3>3, <3>4 DEF MessageInv, AtTest, FunctionRuns
  <2>3. CASE ~group.tests[current].named
    <3>1. UNCHANGED <<own, stage>> /\ at' = "crashed"
      BY <1>5, <2>3 DEF NextTest, Crash
    <3> QED
      BY <2>1, <3>1, MessagesAside DEF AtTest, GroupStages
  <2> QED
    BY <2>2, <2>3
<1>6. CASE SetupEnds
  <2>1. stage = "setup" /\ group' = group /\ UNCHANGED <<current, told>>
    <3>1. stage = "setup" /\ UNCHANGED <<g, prog, current, told>>
      BY <1>6, Called DEF SetupEnds, At
    <3> QED
      BY <3>1, Same
  <2>2. /\ nth \in own[current] /\ current \in DOMAIN own /\ message \subseteq own[current]
        /\ DOMAIN own = 1..Len(group.tests) /\ DOMAIN told = DOMAIN own
    BY <2>1 DEF MessageInv, AtTest, GroupStages
  <2>3. CASE Failed
    <3>1. /\ UNCHANGED own /\ stage' = "count" /\ message' = (IF buffered THEN message \cup {nth} ELSE message)
          /\ at' = "idle"
      BY <1>6, <2>3 DEF SetupEnds, At, frame
    <3>2. MessageOfOwnTest'
      BY <2>1, <3>1 DEF MessageInv, MessageOfOwnTest
    <3> QED
      BY <2>1, <2>2, <3>1, <3>2 DEF MessageInv, AtTest, FunctionRuns
  <2>4. CASE ~Failed
    <3>1. /\ own' = [own EXCEPT ![current] = @ \cup {nth + 1}]
          /\ stage' = "test" /\ nth' = nth + 1 /\ at' = "body" /\ message' = message
      BY <1>6, <2>4, Called DEF SetupEnds
    <3>2. DOMAIN own' = DOMAIN own /\ nth' \in own'[current] /\ message' \subseteq own'[current]
      BY <2>2, <3>1
    <3>3. MessageOfOwnTest'
      BY <2>1, <3>1 DEF MessageInv, MessageOfOwnTest
    <3> QED
      BY <2>1, <2>2, <3>1, <3>2, <3>3 DEF MessageInv, AtTest, FunctionRuns
  <2> QED
    BY <2>3, <2>4
<1>7. CASE TestEnds
  <2>1. /\ stage = "test" /\ stage' \in {"tear", "count"} /\ at' = "idle"
        /\ UNCHANGED <<g, prog, current, told, own, message>>
    BY <1>7 DEF TestEnds, At, frame
  <2>2. MessageOfOwnTest'
    BY <2>1 DEF MessageInv, MessageOfOwnTest
  <2> QED
    BY <2>1, <2>2, Same DEF MessageInv, AtTest, GroupStages
<1>8. CASE StartTeardown
  <2>1. /\ stage = "tear" /\ stage' = "teardown" /\ at' = "body" /\ nth' = nth + 1
        /\ UNCHANGED <<g, prog, current, told, message>> /\ own' = [own EXCEPT ![current] = @ \cup {nth + 1}]
    BY <1>8, Called DEF StartTeardown, At
  <2>2. /\ current \in DOMAIN own /\ message \subseteq own[current]
        /\ DOMAIN own = 1..Len(group.tests) /\ DOMAIN told = DOMAIN own
    BY <2>1 DEF MessageInv, AtTest, GroupStages
  <2>3. DOMAIN own' = DOMAIN own /\ nth' \in own'[current] /\ message' \subseteq own'[current]
    BY <2>1, <2>2
  <2>4. MessageOfOwnTest'
    BY <2>1 DEF MessageInv, MessageOfOwnTest
  <2> QED
    BY <2>1, <2>2, <2>3, <2>4, Same DEF MessageInv, AtTest, FunctionRuns
<1>9. CASE TeardownEnds
  <2>1. /\ stage = "teardown" /\ stage' = "count" /\ at' = "idle"
        /\ UNCHANGED <<g, prog, current, told, own>> /\ (message' = message \/ message' = message \cup {nth})
    BY <1>9 DEF TeardownEnds, At, frame
  <2>2. MessageOfOwnTest'
    BY <2>1 DEF MessageInv, MessageOfOwnTest
  <2>3. nth \in own[current] /\ current \in DOMAIN own /\ message \subseteq own[current]
    BY <2>1 DEF MessageInv, AtTest
  <2> QED
    BY <2>1, <2>2, <2>3, Same DEF MessageInv, AtTest, GroupStages
<1>10. CASE TestCounted
  <2>1. /\ stage = "count" /\ stage' = "next" /\ at' = "idle" /\ message' = {}
        /\ UNCHANGED <<g, prog, own>> /\ told' = [told EXCEPT ![current] = message]
    BY <1>10 DEF TestCounted, At, frame, MessageAfter
  <2>2. message \subseteq own[current]
    BY <2>1 DEF MessageInv, AtTest
  <2>3. MessageOfOwnTest' /\ DOMAIN told' = DOMAIN told
    BY <2>1, <2>2 DEF MessageInv, MessageOfOwnTest
  <2> QED
    BY <2>1, <2>3, Same DEF MessageInv, AtTest, GroupStages
<1>11. CASE CloseGroup
  <2>1. /\ stage \in {"close", "next"} /\ stage' \in {"group teardown", "finish"} /\ UNCHANGED <<g, prog, message, own, told>>
        /\ stage' = "finish" => at' = "idle"
    BY <1>11, <1>b, Called DEF CloseGroup, At, newer
  <2>2. message' = {} /\ group' = group
    BY <2>1, <1>a, Same DEF AtTest
  <2> QED
    BY <2>1, <2>2, MessagesAside DEF AtTest, GroupStages, FunctionRuns
<1>12. CASE GroupTeardownEnds
  <2>1. /\ at = "idle" /\ at' = "idle" /\ stage = "group teardown" /\ stage' = "finish"
        /\ UNCHANGED <<own, told, g, prog>> /\ message' = IF rc # 0 THEN {} ELSE message
    BY <1>12 DEF GroupTeardownEnds, At, Failed, frame
  <2>2. message' = {}
    BY <2>1 DEF MessageInv
  <2> QED
    BY <2>1, <2>2, Same, MessagesAside DEF AtTest, GroupStages
<1>13. CASE FinishGroup \/ EntriesEnd \/ EntryEnds \/ OlderEnds
  <2>1. /\ stage \in {"finish", "entry", "entry runs", "older setup", "older test", "older teardown"}
        /\ stage' \in {"check", "entry", "older"} /\ at' = "idle" /\ message' = message /\ UNCHANGED <<own, told>>
    BY <1>13, <1>b DEF FinishGroup, EntriesEnd, EntryEnds, OlderEnds, At, newer
  <2>2. message' = {}
    BY <2>1, <1>a DEF AtTest
  <2> QED
    BY <2>1, <2>2, MessagesAside DEF AtTest, GroupStages, FunctionRuns
<1>14. CASE OpenTests
  <2>1. /\ stage = "open" /\ stage' \in {"open", "entry", "older open"} /\ at' \in {"idle", "exited", "aborted"}
        /\ message' = message /\ UNCHANGED <<own, told>>
    BY <1>14 DEF OpenTests, At, newer, ExitProgram, function, frame
  <2>2. message' = {}
    BY <2>1, <1>a DEF AtTest
  <2> QED
    BY <2>1, <2>2, MessagesAside DEF AtTest, GroupStages, FunctionRuns
<1>15. CASE NextEntry
  <2>1. stage = "entry" /\ stage' \in {"entry", "entry runs"} /\ UNCHANGED <<own, told>>
    BY <1>15 DEF NextEntry, At, newer
  <2>2. /\ message' = message
        /\ at' \in {"body", "checks"} => stage' = "entry runs"
        /\ stage' = "entry runs" => ~buffered'
    BY <1>15 DEF NextEntry, At, ExitProgram, function, frame, Begin
  <2>3. message' = {}
    BY <2>1, <2>2, <1>a DEF AtTest
  <2> QED
    BY <2>1, <2>2, <2>3, MessagesAside DEF AtTest, GroupStages, FunctionRuns
<1>16. CASE OlderSetup \/ OlderNext
  <2>1. stage \in {"older open", "older"} /\ UNCHANGED <<own, told>>
        /\ stage' \in {"older", "older setup", "older test", "older teardown", "check"}
    BY <1>16 DEF OlderSetup, OlderNext, At, newer
  <2>2. /\ message' = message
        /\ at' \in {"body", "checks"} => stage' \in FunctionRuns
        /\ stage' \in {"older setup", "older test", "older teardown"} => ~buffered'
    BY <1>16, <1>b, Called DEF OlderSetup, OlderNext, At, FunctionRuns
  <2>3. message' = {}
    BY <2>1, <2>2, <1>a DEF AtTest
  <2> QED
    BY <2>1, <2>2, <2>3, MessagesAside DEF AtTest, GroupStages, FunctionRuns
<1>17. CASE CheckGroupBlocks
  <2>1. /\ stage = "check" /\ stage' \in {"check", "open", "done"} /\ UNCHANGED <<own, told, message>>
        /\ at' \in {"idle", "exited", "aborted", "crashed"}
    BY <1>17 DEF CheckGroupBlocks, At, newer, ExitProgram, Crash, function, frame, NextGroup
  <2>2. message' = {}
    BY <2>1, <1>a DEF AtTest
  <2> QED
    BY <2>1, <2>2, MessagesAside DEF AtTest, GroupStages, FunctionRuns
<1>18. CASE UNCHANGED vars
  <2>1. UNCHANGED <<own, told, message, at, rc, nth, buffered, stage, current, g, prog>>
    BY <1>18 DEF vars, process, function, frame, place, newer
  <2> QED
    BY <2>1, Same DEF MessageInv, MessageOfOwnTest
<1> QED
  BY <1>1, <1>2, <1>3, <1>4, <1>5, <1>6, <1>7, <1>8, <1>9, <1>10, <1>11, <1>12, <1>13, <1>14, <1>15,
     <1>16, <1>17, <1>18, Steps DEF RunnerStep

-----------------------------------------------------------------------------
(* The older runners: which entries run, and what is counted                 *)

LEMMA EntriesBegin == Init => EntryInv /\ OlderInv
  BY DEF Init, EntryInv, OlderInv, InEntries, TestsStages, OlderStages

(* Only the entry before n can change what is said of the last setup.        *)
LEMMA SetupAfter ==
  ASSUME NEW n \in Nat \ {0}, NEW tests, NEW failed
  PROVE  /\ tests[n] = "setup" => (SetupWell(n + 1, tests, failed) <=> <<"entry runs", n>> \notin failed)
         /\ tests[n] # "setup" => (SetupWell(n + 1, tests, failed) <=> SetupWell(n, tests, failed))
<1> DEFINE S(m) == SetupsBefore(m, tests)
<1>1. ASSUME tests[n] = "setup" PROVE SetupWell(n + 1, tests, failed) <=> <<"entry runs", n>> \notin failed
  <2>1. \A j \in S(n + 1) : j <= n /\ ((\A other \in S(n + 1) : other <= j) => j = n)
    BY <1>1 DEF SetupsBefore
  <2>2. n \in S(n + 1)
    BY <1>1 DEF SetupsBefore
  <2> QED
    BY <2>1, <2>2 DEF SetupWell
<1>2. ASSUME tests[n] # "setup" PROVE SetupWell(n + 1, tests, failed) <=> SetupWell(n, tests, failed)
  <2>1. S(n + 1) = S(n)
    BY <1>2 DEF SetupsBefore
  <2> QED
    BY <2>1 DEF SetupWell
<1> QED
  BY <1>1, <1>2

LEMMA NotBehind ==
  ASSUME NEW n \in Nat \ {0}, NEW m \in Nat \ {0}, n <= m
  PROVE  \A j \in 1..n - 1 : j # m
  OBVIOUS

LEMMA SetupKept ==
  ASSUME NEW n \in Nat \ {0}, NEW m \in Nat \ {0}, n <= m, NEW tests, NEW failed, NEW after,
         after = failed \/ after = failed \cup {<<"entry runs", m>>}
  PROVE  SetupWell(n, tests, after) <=> SetupWell(n, tests, failed)
<1> DEFINE S == SetupsBefore(n, tests)
<1>1. \A j \in S : j # m
  <2>1. \A j \in 1..n - 1 : j # m
    BY NotBehind, Zenon
  <2> QED
    BY <2>1 DEF SetupsBefore
<1>2. \A j \in S : <<"entry runs", j>> \in after <=> <<"entry runs", j>> \in failed
  <2> SUFFICES ASSUME NEW j \in S
               PROVE  <<"entry runs", j>> \in after <=> <<"entry runs", j>> \in failed
    OBVIOUS
  <2> HIDE DEF S
  <2>1. <<"entry runs", j>> # <<"entry runs", m>>
    BY <1>1
  <2> QED
    BY <2>1
<1> QED
  BY <1>2 DEF SetupWell

LEMMA EntriesAside ==
  ASSUME EntryInv, UNCHANGED <<stage, current, total, failedIn>>, group' = group,
         UNCHANGED <<runNext, previousTestFailed, previousSetupFailed, ran>>
  PROVE  EntryInv'
  BY DEF EntryInv, EntryFailed, EntryFlags, EntryRan, InEntries, SetupBefore, Entry

LEMMA OlderAside ==
  ASSUME OlderInv, UNCHANGED <<stage, total, failedIn>>, group' = group
  PROVE  OlderInv'
  BY DEF OlderInv

(* What the runner of a group with fixtures does is none of their business.  *)
LEMMA OtherRunners ==
  ASSUME PlaceInv, [Next]_vars
  PROVE  \/ OpenTests \/ NextEntry \/ EntryEnds \/ EntriesEnd \/ OlderSetup \/ OlderEnds \/ OlderNext
         \/ ~InEntries' /\ ~(stage \in OlderStages \cup {"check"} /\ group.runner = "group_tests")'
         \/ /\ UNCHANGED <<stage, current, total, failedIn>> /\ group' = group
            /\ UNCHANGED <<runNext, previousTestFailed, previousSetupFailed, ran>>
<1> DEFINE Out == ~InEntries' /\ ~(stage \in OlderStages \cup {"check"} /\ group.runner = "group_tests")'
           Held2 == /\ UNCHANGED <<stage, current, total, failedIn>> /\ group' = group
                    /\ UNCHANGED <<runNext, previousTestFailed, previousSetupFailed, ran>>
<1>a. ASSUME stage' \in {"open", "done"} PROVE Out
  BY <1>a DEF InEntries, TestsStages, OlderStages
<1>b. ASSUME group' = group, group.runner = "group" PROVE Out
  BY <1>b DEF InEntries
<1> HIDE DEF Out, Held2
<1>1. CASE FunctionOnly
  BY <1>1, FunctionOnlyKeeps DEF Held2
<1>2. CASE UNCHANGED vars
  BY <1>2, Same DEF vars, process, place, older, Held2
<1>3. CASE OpenGroupFails
  BY <1>3, <1>a DEF OpenGroupFails, NextGroup, Out
<1>4. CASE CheckGroupBlocks
  <2>1. NextGroup(ReturnValue) \/ UNCHANGED <<g, stage>>
    BY <1>4 DEF CheckGroupBlocks
  <2>2. CASE NextGroup(ReturnValue)
    BY <2>2, <1>a DEF NextGroup, Out
  <2>3. CASE UNCHANGED <<g, stage>>
    <3>1. UNCHANGED <<prog, current, total, failedIn>> /\ UNCHANGED older
      BY <1>4 DEF CheckGroupBlocks, Static
    <3> QED
      BY <2>3, <3>1, Same DEF older, Held2
  <2> QED
    BY <2>1, <2>2, <2>3
<1>5. CASE OpenGroup
  <2>1. group.runner = "group" /\ UNCHANGED <<prog, g>>
    BY <1>5, Called DEF OpenGroup, Idle
  <2> QED
    BY <2>1, <1>b, Same DEF Out
<1>6. CASE \/ GroupSetupEnds \/ NextTest \/ SetupEnds \/ TestEnds \/ StartTeardown \/ TeardownEnds
           \/ TestCounted \/ CloseGroup \/ GroupTeardownEnds \/ FinishGroup
  <2>1. stage \in GroupStages
    BY <1>6 DEF GroupSetupEnds, NextTest, SetupEnds, TestEnds, StartTeardown, TeardownEnds,
       TestCounted, CloseGroup, GroupTeardownEnds, FinishGroup, At, GroupStages
  <2>2. CASE NextTest \/ SetupEnds \/ StartTeardown \/ CloseGroup \/ FinishGroup
    <3>1. UNCHANGED <<prog, g>>
      BY <2>2, Called DEF NextTest, SetupEnds, StartTeardown, CloseGroup, FinishGroup, Idle
    <3> QED
      BY <2>1, <3>1, <1>b, Same DEF PlaceInv, Out
  <2>3. CASE GroupSetupEnds \/ TestEnds \/ TeardownEnds \/ TestCounted \/ GroupTeardownEnds
    <3>1. UNCHANGED <<prog, g>>
      BY <2>3 DEF GroupSetupEnds, TestEnds, TeardownEnds, TestCounted, GroupTeardownEnds
    <3> QED
      BY <2>1, <3>1, <1>b, Same DEF PlaceInv, Out
  <2> QED
    BY <1>6, <2>2, <2>3
<1> QED
  BY <1>1, <1>2, <1>3, <1>4, <1>5, <1>6, Steps DEF RunnerStep, Out, Held2

(* The functions of an entry add to the counters as they fail.               *)
LEMMA EntryCounts ==
  ASSUME PlaceInv, EntryInv, EntryEnds
  PROVE  /\ total'.failed = 0 <=> failedIn' = {}
         /\ previousTestFailed' => total'.failed > 0
         /\ previousTestFailed' \in BOOLEAN
<1>1. InEntries /\ total \in Total /\ total.failed \in Nat
  BY DEF EntryEnds, At, PlaceInv, TestsStages, InEntries, Total
<1>a. total.failed = 0 <=> failedIn = {}
  BY <1>1 DEF EntryInv, EntryFailed, EntryFlags
<1>b. previousTestFailed => total.failed > 0
  BY <1>1 DEF EntryInv, EntryFailed, EntryFlags
<1>c. previousTestFailed \in BOOLEAN
  BY <1>1 DEF EntryInv, EntryFailed, EntryFlags
<1>d. Failed \in BOOLEAN
  BY DEF Failed
<1> DEFINE cs == CASE Entry = "test"  -> {"executed"} \cup (IF Failed THEN {"failed"} ELSE {})
           [] Entry = "setup" -> IF Failed THEN {"executed", "failed"} ELSE {}
           [] OTHER           -> IF Failed /\ ~previousTestFailed THEN {"failed"} ELSE {}
<1>2. total'.failed = total.failed + (IF "failed" \in cs THEN 1 ELSE 0)
  <2>1. Add(cs)
    BY DEF EntryEnds
  <2> HIDE DEF cs
  <2> QED
    BY <1>1, <2>1, Added
<1>3. "failed" \in cs <=> Failed /\ (Entry \notin {"test", "setup"} => ~previousTestFailed)
  <2>1. CASE Entry = "test"
    BY <2>1
  <2>2. CASE Entry = "setup"
    BY <2>2
  <2>3. CASE Entry # "test" /\ Entry # "setup"
    BY <2>3
  <2> QED
    BY <2>1, <2>2, <2>3
<1> HIDE DEF cs
<1>4. failedIn' = failedIn \cup (IF Failed THEN {<<stage, current>>} ELSE {})
  BY DEF EntryEnds, FailedHere
<1>5. /\ Entry = "test" => (previousTestFailed' = Failed)
      /\ Entry = "setup" => previousTestFailed' = FALSE
      /\ Entry \notin {"test", "setup"} => previousTestFailed' = previousTestFailed
  BY DEF EntryEnds
<1>6. previousTestFailed' \in BOOLEAN
  BY <1>5, <1>c, <1>d
<1>7. CASE Failed
  <2>1. failedIn' # {}
    BY <1>4, <1>7
  <2>2. total'.failed > 0
    <3>1. CASE "failed" \in cs
      <4>1. total'.failed = total.failed + 1
        BY <1>2, <3>1, Zenon
      <4>2. total.failed \in Nat
        BY <1>1
      <4> QED
        BY <4>1, <4>2
    <3>2. CASE "failed" \notin cs
      <4>1. total'.failed = total.failed + 0
        BY <1>2, <3>2, Zenon
      <4>2. previousTestFailed
        BY <1>3, <1>7, <3>2, Zenon
      <4>3. total.failed \in Nat /\ total.failed > 0
        BY <1>1, <1>b, <4>2
      <4> QED
        BY <4>1, <4>3
    <3> QED
      BY <3>1, <3>2
  <2> QED
    <3>1. total'.failed # 0
      BY <2>2
    <3> QED
      BY <1>6, <2>1, <2>2, <3>1, Zenon
<1>8. CASE ~Failed
  <2>1. failedIn' = failedIn
    BY <1>4, <1>8
  <2>2. total'.failed = total.failed
    <3>1. "failed" \notin cs
      BY <1>3, <1>8, Zenon
    <3>2. total'.failed = total.failed + 0
      BY <1>2, <3>1, Zenon
    <3> QED
      BY <1>1, <3>2
  <2>3. previousTestFailed' => previousTestFailed
    BY <1>5, <1>8, Zenon
  <2> QED
    BY <1>a, <1>b, <1>6, <2>1, <2>2, <2>3, Zenon
<1> QED
  BY <1>7, <1>8

LEMMA Later ==
  ASSUME NEW n \in Nat \ {0}
  PROVE  /\ n \in Nat /\ n + 1 \in Nat \ {0} /\ n <= n /\ n < n + 1 /\ (n + 1) - 1 = n
         /\ \A k \in 1..n - 1 : k \in 1..n
         /\ \A k \in Nat : k < n \/ k = n => k < n + 1
         /\ \A k \in Nat : k < n + 1 => k < n \/ k = n
         /\ \A k \in Nat : k < n => k <= n /\ k # n
         /\ \A k \in Nat : k < n + 1 => k <= n
         /\ n \notin 1..n - 1
  OBVIOUS

LEMMA Indices ==
  ASSUME NEW n \in Nat
  PROVE  \A i \in 1..n : i \in Nat
  OBVIOUS

LEMMA EntriesOpen == PlaceInv /\ OpenTests => EntryInv' /\ OlderInv'
<1> SUFFICES ASSUME PlaceInv, OpenTests PROVE EntryInv' /\ OlderInv'
  OBVIOUS
<1>1. /\ stage = "open" /\ current' = 1 /\ total' = NoTotal /\ ran' = {} /\ failedIn' = {} /\ UNCHANGED <<prog, g>>
  BY DEF OpenTests, At, Static
<1>2. runNext' = TRUE /\ previousTestFailed' = FALSE /\ previousSetupFailed' = FALSE
  BY DEF OpenTests
<1>3. group' = group
  BY <1>1, Same
<1>4. stage' # "check" /\ stage' # "entry runs"
  BY <1>1 DEF OpenTests
<1>5. total'.failed = 0
  BY <1>1 DEF NoTotal
<1>6. EntryFailed'
  BY <1>1, <1>4, <1>5 DEF EntryFailed
<1>7. EntryFlags'
  <2>1. SetupBefore(current)'
    BY <1>1 DEF SetupBefore, SetupWell
  <2> QED
    BY <1>2, <1>4, <2>1 DEF EntryFlags
<1>8. EntryRan'
  <2>1. \A k \in 1..Len(group'.tests) : ~(k < current')
    BY <1>1
  <2>2. ran' = {}
    BY <1>1
  <2> QED
    BY <1>4, <2>1, <2>2, Zenon DEF EntryRan
<1>9. OlderInv'
  BY <1>1, <1>5 DEF OlderInv
<1> QED
  BY <1>6, <1>7, <1>8, <1>9 DEF EntryInv

(* An entry that is not run is passed over.                                  *)
LEMMA EntryPassedOver ==
  ASSUME PlaceInv, EntryInv, InEntries, stage = "entry", stage' = "entry", current <= Len(group.tests),
         group' = group, current' = current + 1, Entry # "setup",
         UNCHANGED <<total, failedIn, previousTestFailed, previousSetupFailed, ran>>,
         runNext' = runNext, Entry = "test" => ~runNext
  PROVE  EntryInv'
<1>1. current \in Nat \ {0} /\ current \in Nat /\ current + 1 \in Nat \ {0}
  BY DEF PlaceInv
<1>2. EntryFailed /\ EntryFlags /\ EntryRan
  BY DEF EntryInv
<1>3. \A n : SetupBefore(n)' <=> SetupBefore(n)
  BY DEF SetupBefore
<1>4. SetupBefore(current)' <=> SetupBefore(current)
  BY <1>1, SetupAfter DEF SetupBefore, Entry
<1>6. EntryFailed'
  <2>1. \A f \in failedIn : f = <<"entry runs", f[2]>> /\ f[2] \in 1..(current + 1) - 1
    <3>1. (current + 1) - 1 = current /\ \A k \in 1..current - 1 : k \in 1..current
      BY <1>1, Later
    <3> QED
      BY <1>2, <3>1, Zenon DEF EntryFailed
  <2>2. (total.failed = 0 <=> failedIn = {})'
    BY <1>2 DEF EntryFailed
  <2> QED
    BY <2>1, <2>2 DEF EntryFailed
<1>7. EntryFlags'
  <2>1. runNext' <=> SetupBefore(current)'
    BY <1>2, <1>4 DEF EntryFlags
  <2> QED
    BY <1>2, <2>1 DEF EntryFlags
<1>8. EntryRan'
  <2>1. \A k \in 1..Len(group.tests) : k < current + 1 /\ group.tests[k] = "test" => (k \in ran <=> SetupBefore(k)')
    <3> SUFFICES ASSUME NEW k \in 1..Len(group.tests), k < current + 1, group.tests[k] = "test"
                 PROVE  k \in ran <=> SetupBefore(k)'
      OBVIOUS
    <3>1. SetupBefore(k)' <=> SetupBefore(k)
      BY <1>3
    <3>2. CASE k < current
      BY <1>2, <3>1, <3>2 DEF EntryRan
    <3>3. CASE k = current
      <4>1. k \notin ran
        BY <1>1, <1>2, <3>3 DEF EntryRan
      <4>2. ~SetupBefore(k)
        BY <1>2, <3>3 DEF EntryFlags, Entry
      <4> QED
        BY <3>1, <4>1, <4>2
    <3> QED
      BY <1>1, <3>2, <3>3
  <2>2. \A k \in ran : k \in Nat /\ k < current + 1
    <3>1. \A k \in Nat : k < current \/ k = current => k < current + 1
      BY <1>1, Later
    <3> QED
      BY <1>2, <3>1, Zenon DEF EntryRan
  <2> QED
    BY <2>1, <2>2 DEF EntryRan
<1> QED
  BY <1>6, <1>7, <1>8 DEF EntryInv

LEMMA EntryStarts ==
  ASSUME PlaceInv, EntryInv, InEntries, stage = "entry", stage' = "entry runs", current <= Len(group.tests),
         group' = group, current' = current, ran' = ran \cup {current}, runNext' = TRUE,
         UNCHANGED <<total, failedIn, previousTestFailed, previousSetupFailed>>,
         Entry # "setup" => runNext
  PROVE  EntryInv'
<1>1. current \in Nat \ {0} /\ current \in Nat
  BY DEF PlaceInv
<1>2. EntryFailed /\ EntryFlags /\ EntryRan
  BY DEF EntryInv
<1>3. \A n : SetupBefore(n)' <=> SetupBefore(n)
  BY DEF SetupBefore
<1>4. SetupBefore(current)' <=> SetupBefore(current)
  BY DEF SetupBefore
<1>5. EntryFailed'
  BY <1>2 DEF EntryFailed
<1>6. EntryFlags'
  <2>1. (Entry # "setup" => SetupBefore(current))'
    BY <1>2, <1>4 DEF EntryFlags, Entry
  <2> QED
    BY <1>2, <2>1 DEF EntryFlags
<1>7. EntryRan'
  <2>1. \A k \in 1..Len(group.tests) : k < current /\ group.tests[k] = "test" => (k \in ran' <=> SetupBefore(k)')
    <3> SUFFICES ASSUME NEW k \in 1..Len(group.tests), k < current, group.tests[k] = "test"
                 PROVE  k \in ran' <=> SetupBefore(k)'
      OBVIOUS
    <3>1. SetupBefore(k)' <=> SetupBefore(k)
      BY <1>3
    <3>2. k # current
      <4>1. k \in Nat
        <5>1. Len(group.tests) \in Nat
          BY GroupFits
        <5>2. \A i \in 1..Len(group.tests) : i \in Nat
          BY <5>1, Indices, Zenon
        <5> QED
          BY <5>2, Zenon
      <4>2. \A n \in Nat : n < current => n # current
        BY <1>1, Later
      <4> QED
        BY <4>1, <4>2, Zenon
    <3> QED
      BY <1>2, <3>1, <3>2 DEF EntryRan
  <2> QED
    BY <1>1, <1>2, <2>1 DEF EntryRan
<1> QED
  BY <1>5, <1>6, <1>7 DEF EntryInv

LEMMA EntryFinishes ==
  ASSUME PlaceInv, EntryInv, EntryEnds
  PROVE  EntryInv'
<1>1. /\ InEntries /\ stage = "entry runs" /\ stage' = "entry" /\ current' = current + 1 /\ group' = group
      /\ ran' = ran
  <2>1. stage = "entry runs" /\ stage' = "entry" /\ current' = current + 1 /\ UNCHANGED <<prog, g>> /\ ran' = ran
    BY DEF EntryEnds, At, Idle
  <2> QED
    BY <2>1, Same DEF PlaceInv, InEntries, TestsStages
<1>a. current \in Nat \ {0}
  BY DEF PlaceInv
<1>b. current <= current /\ current \notin 1..current - 1
  BY <1>a, Later
<1>2. EntryFailed /\ EntryFlags /\ EntryRan
  BY <1>1 DEF EntryInv
<1>3. failedIn' = failedIn \cup (IF Failed THEN {<<"entry runs", current>>} ELSE {})
  BY <1>1 DEF EntryEnds, FailedHere
<1>4. failedIn' = failedIn \/ failedIn' = failedIn \cup {<<"entry runs", current>>}
  BY <1>3
<1>5. \A n \in Nat \ {0} : n <= current => (SetupBefore(n)' <=> SetupBefore(n))
  BY <1>1, <1>a, <1>4, SetupKept DEF SetupBefore
<1>6. SetupBefore(current)' <=> IF Entry = "setup" THEN ~Failed ELSE SetupBefore(current)
  <2>1. <<"entry runs", current>> \notin failedIn
    <3>1. \A f \in failedIn : f[2] \in 1..current - 1
      BY <1>2 DEF EntryFailed
    <3> QED
      BY <1>b, <3>1
  <2>2. <<"entry runs", current>> \in failedIn' <=> Failed
    BY <1>3, <2>1
  <2>3. SetupBefore(current)' <=> SetupWell(current + 1, group.tests, failedIn')
    BY <1>1 DEF SetupBefore
  <2>4. /\ Entry = "setup" =>
             (SetupWell(current + 1, group.tests, failedIn') <=> <<"entry runs", current>> \notin failedIn')
        /\ Entry # "setup" =>
             (SetupWell(current + 1, group.tests, failedIn') <=> SetupWell(current, group.tests, failedIn'))
    BY <1>a, SetupAfter DEF Entry
  <2>5. SetupWell(current, group.tests, failedIn') <=> SetupBefore(current)
    BY <1>a, <1>b, <1>4, SetupKept DEF SetupBefore
  <2> QED
    BY <2>2, <2>3, <2>4, <2>5, Zenon
<1>7. (total.failed = 0 <=> failedIn = {})' /\ (previousTestFailed => total.failed > 0)' /\ previousTestFailed' \in BOOLEAN
  BY EntryCounts
<1>8. EntryFailed'
  <2>1. \A f \in failedIn' : f = <<"entry runs", f[2]>> /\ f[2] \in 1..current
    <3>1. \A k \in 1..current - 1 : k \in 1..current
      BY <1>a, Later
    <3>2. \A f \in failedIn : f = <<"entry runs", f[2]>> /\ f[2] \in 1..current
      BY <1>2, <3>1, Zenon DEF EntryFailed
    <3>3. current \in 1..current
      BY <1>a
    <3>4. \A f \in failedIn' : f \in failedIn \/ f = <<"entry runs", current>>
      BY <1>4
    <3>5. <<"entry runs", current>>[2] = current
      OBVIOUS
    <3> QED
      BY <3>2, <3>3, <3>4, <3>5, Zenon
  <2>2. (current + 1) - 1 = current
    BY <1>a, Later
  <2>3. \A f \in failedIn' : f = <<"entry runs", f[2]>> /\ f[2] \in 1..current' - 1
    BY <1>1, <2>1, <2>2
  <2>4. stage' = "entry"
    BY <1>1
  <2> QED
    BY <1>7, <2>3, <2>4 DEF EntryFailed
<1>9. EntryFlags'
  <2>1. runNext' = (runNext /\ ~(Entry = "setup" /\ Failed))
        /\ previousSetupFailed' = (previousSetupFailed \/ (Entry = "setup" /\ Failed))
    BY DEF EntryEnds
  <2>2. runNext /\ (Entry # "setup" => SetupBefore(current))
    BY <1>1, <1>2 DEF EntryFlags
  <2>3. runNext' <=> SetupBefore(current)'
    BY <1>6, <2>1, <2>2, Zenon
  <2>4. runNext' \in BOOLEAN /\ previousSetupFailed' \in BOOLEAN
    BY <2>1
  <2>5. ~previousSetupFailed' => runNext'
    BY <2>1, <2>2, Zenon
  <2>6. stage' # "entry runs"
    BY <1>1
  <2> QED
    BY <1>7, <2>3, <2>4, <2>5, <2>6, Zenon DEF EntryFlags
<1>10. EntryRan'
  <2>1. \A k \in 1..Len(group.tests) : k < current + 1 /\ group.tests[k] = "test" => (k \in ran <=> SetupBefore(k)')
    <3> SUFFICES ASSUME NEW k \in 1..Len(group.tests), k < current + 1, group.tests[k] = "test"
                 PROVE  k \in ran <=> SetupBefore(k)'
      OBVIOUS
    <3>1. k \in Nat \ {0} /\ k \in Nat /\ k <= current
      <4>1. k \in Nat \ {0} /\ k \in Nat
        OBVIOUS
      <4> QED
        BY <1>a, <4>1, Later
    <3>2. SetupBefore(k)' <=> SetupBefore(k)
      BY <1>5, <3>1
    <3>3. CASE k < current
      BY <1>2, <3>2, <3>3 DEF EntryRan
    <3>4. CASE k = current
      <4>1. k \in ran
        BY <1>1, <1>2, <3>4 DEF EntryRan
      <4>2. SetupBefore(k)
        BY <1>1, <1>2, <3>4 DEF EntryFlags, Entry
      <4> QED
        BY <3>2, <4>1, <4>2
    <3>5. k < current \/ k = current
      BY <1>a, <3>1, Later
    <3> QED
      BY <3>3, <3>4, <3>5
  <2>2. \A k \in ran : k \in Nat /\ k < current + 1
    <3>1. \A k \in Nat : k < current \/ k = current => k < current + 1
      BY <1>a, Later
    <3> QED
      BY <1>2, <3>1, Zenon DEF EntryRan
  <2> QED
    BY <1>1, <2>1, <2>2 DEF EntryRan
<1> QED
  BY <1>8, <1>9, <1>10 DEF EntryInv

LEMMA EntriesKept == PlaceInv /\ EntryInv /\ OlderInv /\ [Next]_vars => EntryInv' /\ OlderInv'
<1> SUFFICES ASSUME PlaceInv, EntryInv, OlderInv, [Next]_vars PROVE EntryInv' /\ OlderInv'
  OBVIOUS
<1>1. CASE OpenTests
  BY <1>1, EntriesOpen
<1>2. CASE NextEntry
  <2>1. /\ stage = "entry" /\ stage' \in {"entry", "entry runs"} /\ current <= Len(group.tests)
        /\ UNCHANGED <<prog, g, total, failedIn, previousTestFailed, previousSetupFailed>>
    BY <1>2 DEF NextEntry, At, Static
  <2>2. group' = group /\ InEntries /\ group.runner = "tests"
    BY <2>1, Same DEF PlaceInv, InEntries, TestsStages
  <2>3. OlderInv'
    BY <2>2 DEF OlderInv
  <2>4. EntryFlags
    BY <2>2 DEF EntryInv
  <2>5. ~previousSetupFailed => runNext
    BY <2>4 DEF EntryFlags
  <2>6. CASE Entry \in {"group_setup", "group_teardown"} \/ (Entry = "teardown" /\ stack = <<>>)
    <3>1. UNCHANGED <<stage, current, runNext, ran>>
      BY <1>2, <2>6 DEF NextEntry
    <3> QED
      BY <2>1, <2>2, <2>3, <3>1, EntriesAside
  <2>7. CASE Entry = "none"
    <3>1. current' = current + 1 /\ UNCHANGED <<stage, runNext, ran>>
      BY <1>2, <2>7 DEF NextEntry
    <3> QED
      BY <2>1, <2>2, <2>3, <2>7, <3>1, EntryPassedOver
  <2>8. CASE ~(Entry \in {"group_setup", "group_teardown", "none"} \/ (Entry = "teardown" /\ stack = <<>>))
    <3>1. /\ runNext' = Runs
          /\ Runs => ran' = ran \cup {current} /\ stage' = "entry runs" /\ current' = current
          /\ ~Runs => current' = current + 1 /\ ran' = ran /\ stage' = stage
      BY <1>2, <2>8 DEF NextEntry
    <3>2. Entry = "setup" => Runs
      BY DEF Runs
    <3>3. Entry # "setup" => (Runs <=> runNext)
      BY <2>4, <2>5 DEF Runs, EntryFlags
    <3>4. CASE Runs
      <4>1. runNext' = TRUE
        BY <3>1, <3>4 DEF Runs, EntryFlags
      <4> QED
        BY <2>1, <2>2, <2>3, <3>1, <3>3, <3>4, <4>1, EntryStarts
    <3>5. CASE ~Runs
      <4>1. Entry # "setup" /\ ~runNext /\ ~runNext'
        BY <3>1, <3>2, <3>3, <3>5
      <4>2. runNext' = runNext
        BY <2>4, <3>1, <3>5, <4>1 DEF EntryFlags, Runs
      <4> QED
        BY <2>1, <2>2, <2>3, <3>1, <3>5, <4>1, <4>2, EntryPassedOver
    <3> QED
      BY <3>4, <3>5
  <2> QED
    BY <2>6, <2>7, <2>8
<1>3. CASE EntryEnds
  <2>1. stage = "entry runs" /\ UNCHANGED <<prog, g>>
    BY <1>3 DEF EntryEnds, At, Idle
  <2>2. group'.runner = "tests"
    <3>1. group' = group
      BY <2>1, Same
    <3>2. group.runner = "tests"
      BY <2>1 DEF PlaceInv, TestsStages
    <3> QED
      BY <3>1, <3>2
  <2> QED
    BY <1>3, <2>2, EntryFinishes DEF OlderInv
<1>4. CASE EntriesEnd
  <2>1. /\ stage = "entry" /\ stage' = "check" /\ current > Len(group.tests) /\ UNCHANGED <<prog, g, current, total, failedIn>>
        /\ UNCHANGED <<runNext, previousTestFailed, previousSetupFailed, ran>>
    BY <1>4 DEF EntriesEnd, At, Idle, older
  <2>2. group' = group /\ InEntries /\ group.runner = "tests"
    BY <2>1, Same DEF PlaceInv, InEntries, TestsStages
  <2>3. EntryFailed /\ EntryFlags /\ EntryRan
    BY <2>2 DEF EntryInv
  <2>4. \A n : SetupBefore(n)' <=> SetupBefore(n)
    BY <2>1, <2>2 DEF SetupBefore
  <2>5. SetupBefore(current)' <=> SetupBefore(current)
    BY <2>1, <2>2 DEF SetupBefore
  <2>6. EntryFailed'
    BY <2>1, <2>2, <2>3 DEF EntryFailed
  <2>7. EntryFlags'
    BY <2>1, <2>2, <2>3, <2>5 DEF EntryFlags
  <2>8. EntryRan'
    BY <2>1, <2>2, <2>3, <2>4 DEF EntryRan
  <2> QED
    BY <2>2, <2>6, <2>7, <2>8 DEF EntryInv, OlderInv
<1>5. CASE OlderSetup \/ OlderNext
  <2>1. /\ stage \in {"older open", "older"} /\ stage' \in {"older", "older setup", "older test", "older teardown", "check"}
        /\ UNCHANGED <<prog, g, total, failedIn>>
    BY <1>5, Called DEF OlderSetup, OlderNext, At, Idle
  <2>2. group' = group /\ group.runner = "group_tests"
    BY <2>1, Same DEF PlaceInv, OlderStages
  <2> QED
    BY <2>1, <2>2 DEF EntryInv, InEntries, OlderInv, OlderStages
<1>6. CASE OlderEnds
  <2>1. /\ stage \in {"older setup", "older test", "older teardown"} /\ stage' \in {"older", "check"}
        /\ UNCHANGED <<prog, g>> /\ failedIn' = failedIn \cup (IF Failed THEN {<<stage, current>>} ELSE {})
    BY <1>6 DEF OlderEnds, Idle, FailedHere
  <2>2. group' = group /\ group.runner = "group_tests" /\ total \in Total
    BY <2>1, Same DEF PlaceInv, OlderStages, Total
  <2>3. (\A f \in failedIn : f[1] \in OlderStages) /\ (total.failed = 0 <=> failedIn = {})
    BY <2>1, <2>2 DEF OlderInv, OlderStages
  <2> DEFINE cs == {"executed"} \cup (IF Failed THEN {"failed"} ELSE {})
  <2>4. total'.failed = total.failed + (IF "failed" \in cs THEN 1 ELSE 0)
    <3>1. Add(cs)
      BY <1>6 DEF OlderEnds
    <3> HIDE DEF cs
    <3> QED
      BY <2>2, <3>1, Added
  <2>5. "failed" \in cs <=> Failed
    OBVIOUS
  <2> HIDE DEF cs
  <2>6. total.failed \in Nat
    BY <2>2 DEF Total
  <2>7. total'.failed = 0 <=> failedIn' = {}
    <3>1. CASE Failed
      <4>1. total'.failed = total.failed + 1
        BY <2>4, <2>5, <3>1, Zenon
      <4>2. total'.failed # 0
        BY <2>6, <4>1
      <4>3. failedIn' # {}
        BY <2>1, <3>1
      <4> QED
        BY <4>2, <4>3
    <3>2. CASE ~Failed
      <4>1. total'.failed = total.failed + 0
        BY <2>4, <2>5, <3>2, Zenon
      <4>2. failedIn' = failedIn
        BY <2>1, <3>2
      <4> QED
        BY <2>3, <2>6, <4>1, <4>2
    <3> QED
      BY <3>1, <3>2
  <2>8. \A f \in failedIn' : f[1] \in OlderStages
    <3>1. <<stage, current>>[1] \in OlderStages
      BY <2>1 DEF OlderStages
    <3>2. \A f \in failedIn' : f \in failedIn \/ f = <<stage, current>>
      BY <2>1
    <3> QED
      BY <2>3, <3>1, <3>2, Zenon
  <2> QED
    BY <2>1, <2>2, <2>7, <2>8 DEF EntryInv, InEntries, OlderInv
<1>7. CASE ~InEntries' /\ ~(stage \in OlderStages \cup {"check"} /\ group.runner = "group_tests")'
  BY <1>7 DEF EntryInv, OlderInv
<1>8. CASE /\ UNCHANGED <<stage, current, total, failedIn>> /\ group' = group
           /\ UNCHANGED <<runNext, previousTestFailed, previousSetupFailed, ran>>
  BY <1>8, EntriesAside, OlderAside
<1> QED
  BY <1>1, <1>2, <1>3, <1>4, <1>5, <1>6, <1>7, <1>8, OtherRunners

-----------------------------------------------------------------------------
(* What the reports as XML are written to                                    *)

LEMMA Written ==
  ASSUME NEW s \in Seq(Words), NEW t \in {<<"suite">>, <<"header", "suite">>}
  PROVE  /\ s \o t \in Seq(Words) /\ s \o t # <<>> /\ (s \o t)[Len(s \o t)] = "suite"
         /\ s = <<>> => s \o t = t
<1>1. t \in Seq(Words) /\ t # <<>> /\ Len(t) \in 1..2 /\ t[Len(t)] = "suite"
  <2>1. CASE t = <<"suite">>
    BY <2>1 DEF Words
  <2>2. CASE t = <<"header", "suite">>
    BY <2>2 DEF Words
  <2> QED
    BY <2>1, <2>2
<1>2. s \o t \in Seq(Words) /\ Len(s \o t) = Len(s) + Len(t) /\ Len(s) \in Nat
  BY <1>1
<1>3. (s \o t)[Len(s) + Len(t)] = t[Len(t)]
  BY <1>1, <1>2
<1>4. s \o t # <<>>
  BY <1>1, <1>2
<1>5. s = <<>> => s \o t = t
  BY <1>1
<1> QED
  BY <1>1, <1>2, <1>3, <1>4, <1>5

LEMMA WrittenOn ==
  ASSUME NEW s \in Seq(Words), s # <<>>, s[Len(s)] # "header"
  PROVE  LET t == s \o <<"suite">>
         IN  /\ WrittenBehind(t) /\ t[1] = s[1]
             /\ HeaderFirst(s) => HeaderFirst(t)
<1> DEFINE t == s \o <<"suite">>
           n == Len(s)
<1>1. n \in Nat \ {0} /\ Len(t) = n + 1 /\ DOMAIN t = 1..n + 1 /\ DOMAIN s = 1..n
  OBVIOUS
<1>2. t[n + 1] = "suite" /\ \A k \in 1..n : t[k] = s[k]
  OBVIOUS
<1> HIDE DEF t
<1>3. WrittenBehind(t)
  <2>1. n + 1 \in DOMAIN t /\ n + 1 > 1 /\ (n + 1) - 1 = n /\ n \in 1..n
    BY <1>1
  <2> QED
    BY <1>2, <2>1 DEF WrittenBehind
<1>4. t[1] = s[1]
  BY <1>1, <1>2
<1>5. HeaderFirst(s) => HeaderFirst(t)
  <2> SUFFICES ASSUME HeaderFirst(s), NEW k \in DOMAIN t, t[k] = "header" PROVE k = 1
    BY DEF HeaderFirst
  <2>1. k # n + 1
    BY <1>2
  <2>2. k \in 1..n
    BY <1>1, <2>1
  <2> QED
    BY <1>1, <1>2, <2>2 DEF HeaderFirst
<1> QED
  BY <1>3, <1>4, <1>5 DEF t

LEMMA NewReport ==
  /\ ~WrittenBehind(<<>>)
  /\ HeaderFirst(<<"suite">>) /\ HeaderFirst(<<"header", "suite">>)
  BY DEF WrittenBehind, HeaderFirst

LEMMA XmlBegins == Init => XmlInv
<1> SUFFICES ASSUME Init PROVE XmlInv
  OBVIOUS
<1>1. sinks = [s \in Sinks |-> IF s \in prog.present THEN <<"other">> ELSE <<>>] /\ xmlPrinted = FALSE
  BY DEF Init
<1>2. \A s \in Sinks : sinks[s] = <<"other">> \/ sinks[s] = <<>>
  BY <1>1
<1>3. <<"other">> \in Seq(Words) /\ <<>> \in Seq(Words) /\ <<"other">>[Len(<<"other">>)] # "header"
      /\ HeaderFirst(<<"other">>) /\ <<"other">>[1] # "suite"
  BY DEF Words, HeaderFirst
<1>4. \A s \in Sinks : /\ sinks[s] \in Seq(Words)
                       /\ sinks[s] # <<>> => /\ sinks[s][Len(sinks[s])] # "header"
                                             /\ HeaderFirst(sinks[s]) /\ sinks[s][1] # "suite"
  BY <1>2, <1>3
<1> QED
  BY <1>1, <1>4 DEF XmlInv, Sinks

(* A report on a standard stream                                             *)
LEMMA XmlToStream ==
  ASSUME XmlInv, NEW s \in {"stdout", "stderr"}, WriteXml(s, FALSE, xmlPrinted, fileAppend)
  PROVE  XmlInv'
<1>1. PICK t \in {<<"suite">>, <<"header", "suite">>} : sinks' = [sinks EXCEPT ![s] = @ \o t]
  BY DEF WriteXml
<1>2. s \in Sinks /\ DOMAIN sinks = Sinks /\ s \notin XmlFiles
  BY FileAssumption DEF XmlInv, Sinks
<1>3. sinks'[s] = sinks[s] \o t /\ \A o \in Sinks : o # s => sinks'[o] = sinks[o]
  BY <1>1, <1>2
<1>4. sinks'[s] \in Seq(Words) /\ sinks'[s] # <<>> /\ sinks'[s][Len(sinks'[s])] = "suite"
  <2>1. sinks[s] \in Seq(Words)
    BY <1>2 DEF XmlInv
  <2>2. sinks[s] \o t \in Seq(Words) /\ sinks[s] \o t # <<>> /\ (sinks[s] \o t)[Len(sinks[s] \o t)] = "suite"
    BY <2>1, Written
  <2> QED
    BY <1>3, <2>2
<1>5. Printed'
  BY <1>4 DEF Printed
<1>6. xmlPrinted' \in BOOLEAN /\ DOMAIN sinks' = Sinks
  BY <1>1, <1>2 DEF WriteXml
<1>7. \A o \in Sinks : sinks'[o] \in Seq(Words) /\ (sinks'[o] # <<>> => sinks'[o][Len(sinks'[o])] # "header")
  BY <1>3, <1>4 DEF XmlInv
<1>8. \A f \in XmlFiles : sinks'[f] = sinks[f]
  BY <1>2, <1>3 DEF Sinks
<1> QED
  BY <1>5, <1>6, <1>7, <1>8 DEF XmlInv

LEMMA XmlToFile ==
  ASSUME XmlInv, NEW f \in XmlFiles,
         \/ sinks[f] = <<>> /\ WriteXml(f, TRUE, xmlPrinted, TRUE)
         \/ sinks[f] # <<>> /\ WriteXml(f, TRUE, TRUE, TRUE)
  PROVE  XmlInv'
<1> DEFINE Kept == \A o \in XmlFiles : WrittenBehind(sinks[o]) => WrittenBehind(sinks'[o])
<1>1. f \in Sinks /\ DOMAIN sinks = Sinks /\ f \notin {"stdout", "stderr"} /\ XmlFiles \subseteq Sinks
  BY FileAssumption DEF XmlInv, Sinks
<1>2. PICK t \in {<<"suite">>, <<"header", "suite">>} : sinks' = [sinks EXCEPT ![f] = @ \o t]
  BY DEF WriteXml
<1>3. sinks'[f] = sinks[f] \o t /\ \A o \in Sinks : o # f => sinks'[o] = sinks[o]
  BY <1>1, <1>2
<1>4. sinks'[f] \in Seq(Words) /\ sinks'[f] # <<>> /\ sinks'[f][Len(sinks'[f])] = "suite"
  BY <1>1, <1>3, Written DEF XmlInv
<1>5. DOMAIN sinks' = Sinks
      /\ \A o \in Sinks : sinks'[o] \in Seq(Words) /\ (sinks'[o] # <<>> => sinks'[o][Len(sinks'[o])] # "header")
  BY <1>1, <1>2, <1>3, <1>4 DEF XmlInv
<1>6. Printed' <=> Printed
  BY <1>1, <1>3 DEF Printed, Sinks
<1>7. CASE sinks[f] = <<>> /\ WriteXml(f, TRUE, xmlPrinted, TRUE)
  <2>1. sinks'[f] = IF ~xmlPrinted THEN <<"header", "suite">> ELSE <<"suite">>
    <3>1. sinks' = [sinks EXCEPT ![f] = @ \o (IF ~xmlPrinted THEN <<"header", "suite">> ELSE <<"suite">>)]
      BY <1>7 DEF WriteXml
    <3> QED
      BY <1>1, <1>7, <3>1
  <2>2. xmlPrinted' \in BOOLEAN /\ (xmlPrinted' <=> xmlPrinted)
    BY <1>7 DEF WriteXml
  <2>3. \A o \in XmlFiles : WrittenBehind(sinks[o]) => o # f /\ WrittenBehind(sinks'[o])
    BY <1>1, <1>3, <1>7, NewReport
  <2>4. HeaderFirst(sinks'[f])
    BY <2>1, NewReport
  <2>5. xmlPrinted => Printed \/ \E o \in XmlFiles \ {f} : WrittenBehind(sinks'[o])
    BY <2>3 DEF XmlInv
  <2>6. sinks'[f][1] = "suite" => xmlPrinted
    BY <2>1
  <2>7. \A o \in XmlFiles \ {f} : sinks'[o] # <<>> =>
          /\ HeaderFirst(sinks'[o])
          /\ sinks'[o][1] = "suite" => Printed \/ \E other \in XmlFiles \ {o} : WrittenBehind(sinks'[other])
    BY <1>1, <1>3, <2>3 DEF XmlInv
  <2>8. xmlPrinted' => Printed' \/ \E o \in XmlFiles : WrittenBehind(sinks'[o])
    BY <1>6, <2>2, <2>5, Zenon
  <2>9. \A o \in XmlFiles : sinks'[o] # <<>> =>
          /\ HeaderFirst(sinks'[o])
          /\ sinks'[o][1] = "suite" => Printed' \/ \E other \in XmlFiles \ {o} : WrittenBehind(sinks'[other])
    <3> SUFFICES ASSUME NEW o \in XmlFiles, sinks'[o] # <<>>
                 PROVE  /\ HeaderFirst(sinks'[o])
                        /\ sinks'[o][1] = "suite" => Printed' \/ \E other \in XmlFiles \ {o} : WrittenBehind(sinks'[other])
      OBVIOUS
    <3>1. CASE o = f
      BY <1>6, <2>4, <2>5, <2>6, <3>1, Zenon
    <3>2. CASE o # f
      BY <1>6, <2>7, <3>2
    <3> QED
      BY <3>1, <3>2
  <2> QED
    BY <1>5, <2>2, <2>8, <2>9 DEF XmlInv
<1>8. CASE sinks[f] # <<>> /\ WriteXml(f, TRUE, TRUE, TRUE)
  <2>1. sinks'[f] = sinks[f] \o <<"suite">> /\ xmlPrinted' = TRUE
    <3>1. sinks' = [sinks EXCEPT ![f] = @ \o <<"suite">>] /\ xmlPrinted' = TRUE
      BY <1>8 DEF WriteXml
    <3> QED
      BY <1>1, <3>1
  <2>2. WrittenBehind(sinks'[f]) /\ sinks'[f][1] = sinks[f][1] /\ (HeaderFirst(sinks[f]) => HeaderFirst(sinks'[f]))
    BY <1>1, <1>8, <2>1, WrittenOn DEF XmlInv
  <2>3. \A o \in XmlFiles : WrittenBehind(sinks[o]) => WrittenBehind(sinks'[o])
    BY <1>1, <1>3, <2>2
  <2>4. \A o \in XmlFiles : sinks'[o] # <<>> =>
          /\ HeaderFirst(sinks'[o])
          /\ sinks'[o][1] = "suite" => Printed \/ \E other \in XmlFiles \ {o} : WrittenBehind(sinks'[other])
    BY <1>1, <1>3, <1>8, <2>2, <2>3 DEF XmlInv
  <2> QED
    BY <1>5, <1>6, <2>1, <2>2, <2>4 DEF XmlInv
<1> QED
  BY <1>7, <1>8

LEMMA XmlKept == PlaceInv /\ XmlInv /\ [Next]_vars => XmlInv'
<1> SUFFICES ASSUME PlaceInv, XmlInv, [Next]_vars PROVE XmlInv'
  OBVIOUS
<1>1. CASE UNCHANGED <<sinks, xmlPrinted>>
  BY <1>1 DEF XmlInv, Printed
<1>2. CASE FinishGroup /\ ~UNCHANGED <<sinks, xmlPrinted>>
  <2>1. WriteGroupXml
    BY <1>2 DEF FinishGroup, xml
  <2>2. group.file \in XmlFiles \cup {"none"}
    BY Formats
  <2> QED
    BY <2>1, <2>2, XmlToStream, XmlToFile DEF WriteGroupXml
<1>3. CASE FunctionOnly
  BY <1>1, <1>3, FunctionOnlyKeeps
<1>4. CASE RunnerStep
  <2>1. FinishGroup \/ UNCHANGED xml
    BY <1>4 DEF RunnerStep, OpenGroup, OpenGroupFails, GroupSetupEnds, NextTest, SetupEnds, TestEnds,
       StartTeardown, TeardownEnds, TestCounted, CloseGroup, GroupTeardownEnds, OpenTests,
       NextEntry, EntryEnds, EntriesEnd, OlderSetup, OlderEnds, OlderNext, CheckGroupBlocks
  <2> QED
    BY <1>1, <1>2, <2>1 DEF xml
<1>5. CASE UNCHANGED vars
  BY <1>1, <1>5 DEF vars, xml
<1> QED
  BY <1>3, <1>4, <1>5, Steps

LEMMA XmlMeant == XmlInv => XmlHeaders
  BY DEF XmlInv, XmlHeaders, HeaderFirst, WrittenBehind, Appended, Printed

-----------------------------------------------------------------------------
(* _cmocka_run_group_tests: what becomes of the tests                        *)

LastStages == {"group teardown", "finish", "check"}

LEMMA StatusStays ==
  ASSUME StatusInv, UNCHANGED <<status, current>>, group' = group,
         stage' \in AtTest => current <= TotalTests,
         stage' \notin AtTest => status[current] = "not_started" \/ current > Len(group.tests),
         stage' \in {"setup", "test"} => status[current] = "not_started",
         stage' \in {"tear", "teardown"} => status[current] \in {"passed", "skipped", "failed"},
         stage' = "count" => status[current] \in Outcomes
  PROVE  StatusInv'
<1>1. TotalTests' = TotalTests
  BY DEF TotalTests
<1> QED
  BY <1>1 DEF StatusInv

(* The test that is run comes to a status of its own.                        *)
LEMMA StatusSet ==
  ASSUME PlaceInv, StatusInv, stage \in {"setup", "test", "teardown"}, current' = current, group' = group,
         NEW r \in Outcomes, status' = [status EXCEPT ![current] = r],
         stage' \in {"tear", "count"}, stage' = "tear" => r \in {"passed", "skipped", "failed"}
  PROVE  /\ StatusInv' /\ current \in 1..Len(group.tests) /\ status'[current] = r
         /\ \A k \in 1..Len(group.tests) : k # current => status'[k] = status[k]
<1>1. TotalTests' = TotalTests /\ TotalTests \in Nat /\ TotalTests <= Len(group.tests) /\ Len(group.tests) \in Nat
  BY Totals, GroupFits DEF TotalTests
<1>2. current \in Nat \ {0} /\ current <= TotalTests /\ stage \in AtTest
  BY DEF PlaceInv, StatusInv, AtTest
<1>3. current \in 1..Len(group.tests)
  BY <1>1, <1>2
<1>4. status'[current] = r /\ \A k \in 1..Len(group.tests) : k # current => status'[k] = status[k]
  BY <1>3 DEF StatusInv
<1>5. status' \in [1..Len(group.tests) -> Statuses]
  BY <1>3 DEF StatusInv, Outcomes, Statuses
<1>6. \A k \in 1..Len(group.tests) : k < current => status'[k] \in Outcomes
  BY <1>2, <1>4 DEF StatusInv
<1>7. \A k \in 1..Len(group.tests) : k > current => status'[k] = "not_started"
  BY <1>2, <1>4 DEF StatusInv
<1> QED
  BY <1>1, <1>2, <1>3, <1>4, <1>5, <1>6, <1>7 DEF StatusInv, AtTest

LEMMA FailedStays ==
  ASSUME FailedInv, group' = group, UNCHANGED status, NEW k,
         \/ failedIn' = failedIn
         \/ failedIn' = failedIn \cup {<<"group setup", k>>}
         \/ failedIn' = failedIn \cup {<<"group teardown", k>>}
  PROVE  FailedInv'
<1>1. \A f \in failedIn' : f \in failedIn \/ f = <<"group setup", k>> \/ f = <<"group teardown", k>>
  OBVIOUS
<1>a. <<"group setup", k>>[1] = "group setup" /\ <<"group setup", k>>[2] = k
      /\ <<"group teardown", k>>[1] = "group teardown" /\ <<"group teardown", k>>[2] = k
  OBVIOUS
<1>b. "group setup" \in {"group setup", "group teardown"} /\ "group teardown" \in {"group setup", "group teardown"}
  OBVIOUS
<1>2. \A f \in failedIn' :
       /\ f = <<f[1], f[2]>>
       /\ f[1] \in {"group setup", "group teardown"} \/ (f[1] \in Within /\ f[2] \in 1..Len(group.tests))
  BY <1>1, <1>a, <1>b, Zenon DEF FailedInv
<1>3. \A w \in Within, j \in 1..Len(group.tests) : <<w, j>> \in failedIn' <=> <<w, j>> \in failedIn
  <2> SUFFICES ASSUME NEW w \in Within, NEW j \in 1..Len(group.tests)
               PROVE  <<w, j>> \in failedIn' <=> <<w, j>> \in failedIn
    OBVIOUS
  <2>1. w # "group setup" /\ w # "group teardown"
    BY DEF Within
  <2>2. <<w, j>> # <<"group setup", k>> /\ <<w, j>> # <<"group teardown", k>>
    BY <2>1
  <2> QED
    BY <2>2
<1> QED
  BY <1>2, <1>3 DEF FailedInv

LEMMA FailedSet ==
  ASSUME FailedInv, group' = group, stage \in Within, current \in 1..Len(group.tests),
         NEW r, NEW bad \in BOOLEAN, status' \in [1..Len(group.tests) -> Statuses], status'[current] = r,
         \A k \in 1..Len(group.tests) : k # current => status'[k] = status[k],
         failedIn' = failedIn \cup (IF bad THEN {<<stage, current>>} ELSE {}),
         r \in {"failed", "error"} <=> bad \/ status[current] \in {"failed", "error"}
  PROVE  FailedInv'
<1>1. \A f \in failedIn' : f \in failedIn \/ (bad /\ f = <<stage, current>>)
  OBVIOUS
<1>2. <<stage, current>>[1] = stage /\ <<stage, current>>[2] = current
  OBVIOUS
<1>3. \A f \in failedIn' :
       /\ f = <<f[1], f[2]>>
       /\ f[1] \in {"group setup", "group teardown"} \/ (f[1] \in Within /\ f[2] \in 1..Len(group.tests))
  <2>1. \A f \in failedIn : f = <<f[1], f[2]>> /\ (f[1] \in {"group setup", "group teardown"} \/ (f[1] \in Within /\ f[2] \in 1..Len(group.tests)))
    BY DEF FailedInv
  <2> QED
    BY <1>1, <1>2, <2>1, Zenon
<1>4. \A k \in 1..Len(group.tests) :
       status'[k] \in {"failed", "error"} <=> \E w \in Within : <<w, k>> \in failedIn'
  <2> SUFFICES ASSUME NEW k \in 1..Len(group.tests)
               PROVE  status'[k] \in {"failed", "error"} <=> \E w \in Within : <<w, k>> \in failedIn'
    OBVIOUS
  <2>1. status[k] \in {"failed", "error"} <=> \E w \in Within : <<w, k>> \in failedIn
    BY DEF FailedInv
  <2>2. CASE k = current
    <3>1. CASE bad
      <4>1. <<stage, current>> \in failedIn'
        BY <3>1
      <4>2. r \in {"failed", "error"}
        BY <3>1, Zenon
      <4> QED
        BY <2>2, <4>1, <4>2, Zenon
    <3>2. CASE ~bad
      <4>1. failedIn' = failedIn
        BY <3>2
      <4>2. r \in {"failed", "error"} <=> status[current] \in {"failed", "error"}
        BY <3>2, Zenon
      <4> QED
        BY <2>1, <2>2, <4>1, <4>2, Zenon
    <3> QED
      BY <3>1, <3>2
  <2>3. CASE k # current
    <3>1. \A w : <<w, k>> # <<stage, current>>
      BY <2>3
    <3>2. \A w : <<w, k>> \in failedIn' <=> <<w, k>> \in failedIn
      BY <3>1
    <3>3. status'[k] = status[k]
      BY <2>3
    <3> QED
      BY <2>1, <3>2, <3>3, Zenon
  <2> QED
    BY <2>2, <2>3
<1> QED
  BY <1>3, <1>4 DEF FailedInv

LEMMA CountStays ==
  ASSUME CountInv, UNCHANGED <<total, current>>, group' = group, SetupFailed' <=> SetupFailed,
         \A k \in 1..current - 1 : status'[k] = status[k],
         SetupFailed => stage' \in {"close", "group teardown", "finish", "check"},
         ~SetupFailed => stage' # "close",
         stage' \in LastStages => SetupFailed \/ current = TotalTests + 1,
         stage' # "group setup"
  PROVE  CountInv'
<1>1. TotalTests' = TotalTests
  BY DEF TotalTests
<1>2. \A w : (\E k \in 1..current - 1 : status'[k] = w) <=> \E k \in 1..current - 1 : status[k] = w
  OBVIOUS
<1> QED
  BY <1>1, <1>2 DEF CountInv, LastStages

LEMMA NoPlace == \A k \in 1..0 : FALSE
  OBVIOUS

LEMMA LinesStay ==
  ASSUME PlaceInv, LinesInv, UNCHANGED <<prog, current, lines>>, SetupFailed' <=> SetupFailed,
         \A k \in 1..current - 1 : status'[k] = status[k],
         stage' \notin {"close", "group teardown", "finish", "check"} =>
           stage \notin {"close", "group teardown", "finish", "check"}
  PROVE  LinesInv'
<1>1. Announced' = Announced
  BY DEF Announced
<1>2. \A k \in 1..Announced : k \in 1..current - 1
  <2>1. current \in Nat
    BY DEF PlaceInv
  <2>2. CASE SetupFailed
    <3>1. Announced = 0
      BY <2>2, Zenon DEF Announced
    <3> QED
      BY <3>1, NoPlace, Zenon
  <2>3. CASE ~SetupFailed
    BY <2>3 DEF Announced
  <2> QED
    BY <2>2, <2>3
<1>3. \A k \in 1..Announced : TapLine(k, status') = TapLine(k, status)
  BY <1>2 DEF TapLine
<1>4. LinesWell(lines, Announced, status) => LinesWell(lines, Announced, status')
  BY <1>3 DEF LinesWell
<1> QED
  BY <1>1, <1>4 DEF LinesInv

LEMMA OneMore ==
  ASSUME NEW R, NEW s \in Seq(R), NEW e \in R
  PROVE  /\ s \o <<e>> \in Seq(R) /\ Len(s \o <<e>>) = Len(s) + 1 /\ Len(s) \in Nat
         /\ (s \o <<e>>)[Len(s) + 1] = e /\ \A k \in 1..Len(s) : (s \o <<e>>)[k] = s[k]
  OBVIOUS

LEMMA Places ==
  ASSUME NEW n \in Nat, NEW m \in Nat, n <= m
  PROVE  /\ \A k \in n + 1..m + 1 : k = m + 1 \/ (k \in n + 1..m /\ k \in 1..m)
         /\ \A k \in 1..n : k \in 1..m
         /\ \A k \in 1..n + 1 : k \in 1..n \/ k = n + 1
         /\ \A k \in (n + 1) + 1..n + 1 : FALSE
         /\ n <= m + 1 /\ n + 1 <= n + 1
  OBVIOUS

LEMMA LinesGrow ==
  ASSUME NEW ls, NEW n \in Nat, NEW st, LinesWell(ls, n, st),
         NEW line \in TapLines
  PROVE  /\ line.number = 0 => LinesWell(ls \o <<line>>, n, st)
         /\ line = TapLine(n + 1, st) /\ Len(ls) = n =>
              LinesWell(ls \o <<line>>, n + 1, st) /\ Len(ls \o <<line>>) = n + 1
<1> DEFINE t == ls \o <<line>>
           m == Len(ls)
<1>1. /\ ls \in Seq(TapLines) /\ n <= m /\ \A k \in 1..n : ls[k] = TapLine(k, st)
      /\ \A k \in n + 1..m : ls[k].number = 0
  BY Zenon DEF LinesWell
<1>2. t \in Seq(TapLines) /\ Len(t) = m + 1 /\ t[m + 1] = line /\ (\A k \in 1..m : t[k] = ls[k]) /\ m \in Nat
  <2>1. ls \in Seq(TapLines)
    BY <1>1
  <2> QED
    <3>1. /\ ls \o <<line>> \in Seq(TapLines) /\ Len(ls \o <<line>>) = Len(ls) + 1 /\ Len(ls) \in Nat
          /\ (ls \o <<line>>)[Len(ls) + 1] = line /\ \A k \in 1..Len(ls) : (ls \o <<line>>)[k] = ls[k]
      <4> HIDE DEF t, m
      <4> QED
        BY <2>1, OneMore
    <3> QED
      BY <3>1, Zenon
<1> HIDE DEF t, m
<1>p. /\ \A k \in n + 1..m + 1 : k = m + 1 \/ (k \in n + 1..m /\ k \in 1..m)
      /\ \A k \in 1..n : k \in 1..m
      /\ \A k \in 1..n + 1 : k \in 1..n \/ k = n + 1
      /\ \A k \in (n + 1) + 1..n + 1 : FALSE
      /\ n <= m + 1 /\ n + 1 <= n + 1
  BY <1>1, <1>2, Places, Zenon
<1>b. \A k \in 1..n : t[k] = TapLine(k, st)
  BY <1>1, <1>2, <1>p, Zenon
<1>3. ASSUME line.number = 0 PROVE LinesWell(t, n, st)
  <2>1. \A k \in n + 1..m + 1 : t[k].number = 0
    BY <1>1, <1>2, <1>p, <1>3, Zenon
  <2> QED
    BY <1>2, <1>b, <1>p, <2>1, Zenon DEF LinesWell
<1>4. ASSUME line = TapLine(n + 1, st), m = n PROVE LinesWell(t, n + 1, st) /\ Len(t) = n + 1
  <2>1. \A k \in 1..n + 1 : t[k] = TapLine(k, st)
    BY <1>2, <1>4, <1>b, <1>p, Zenon
  <2> QED
    BY <1>2, <1>4, <1>p, <2>1, Zenon DEF LinesWell
<1> QED
  BY <1>3, <1>4, Zenon DEF t, m

(* What holds in a group while its runner is in it                           *)
GroupParts == StatusInv /\ FailedInv /\ CountInv /\ LinesInv /\ ListedInv

LEMMA SetupFailedStays ==
  ASSUME \/ failedIn' = failedIn
         \/ \E w, k : w # "group setup" /\ failedIn' = failedIn \cup {<<w, k>>}
  PROVE  SetupFailed' <=> SetupFailed
<1>1. CASE failedIn' = failedIn
  BY <1>1 DEF SetupFailed
<1>2. CASE \E w, k : w # "group setup" /\ failedIn' = failedIn \cup {<<w, k>>}
  <2>1. PICK w, k : w # "group setup" /\ failedIn' = failedIn \cup {<<w, k>>}
    BY <1>2
  <2>2. <<w, k>>[1] # "group setup"
    BY <2>1
  <2>3. \A f : f \in failedIn' <=> f \in failedIn \/ f = <<w, k>>
    BY <2>1
  <2> QED
    BY <2>2, <2>3, Zenon DEF SetupFailed
<1> QED
  BY <1>1, <1>2

(* A step that only changes the stage                                        *)
LEMMA StageMoves ==
  ASSUME PlaceInv, GroupParts, UNCHANGED <<prog, current, total, status, failedIn, lines>>, group' = group,
         stage' # "check", stage' # "group setup",
         stage' \in AtTest => current <= TotalTests,
         stage' \notin AtTest => status[current] = "not_started" \/ current > Len(group.tests),
         stage' \in {"setup", "test"} => status[current] = "not_started",
         stage' \in {"tear", "teardown"} => status[current] \in {"passed", "skipped", "failed"},
         stage' = "count" => status[current] \in Outcomes,
         SetupFailed => stage' \in {"close", "group teardown", "finish", "check"},
         ~SetupFailed => stage' # "close",
         stage' \in LastStages => SetupFailed \/ current = TotalTests + 1,
         stage' \notin {"close", "group teardown", "finish", "check"} =>
           stage \notin {"close", "group teardown", "finish", "check"}
  PROVE  GroupParts'
<1>1. SetupFailed' <=> SetupFailed
  BY SetupFailedStays
<1>2. StatusInv'
  BY StatusStays DEF GroupParts
<1>3. FailedInv'
  BY FailedStays DEF GroupParts
<1>4. CountInv'
  BY <1>1, CountStays DEF GroupParts
<1>5. LinesInv'
  BY <1>1, LinesStay DEF GroupParts
<1> QED
  BY <1>2, <1>3, <1>4, <1>5 DEF GroupParts, ListedInv

LEMMA GroupPlace ==
  ASSUME PlaceInv, GroupInv, stage \in GroupStages
  PROVE  /\ GroupParts /\ current \in Nat \ {0} /\ TotalTests \in Nat /\ TotalTests <= Len(group.tests)
         /\ Len(group.tests) \in Nat /\ total \in Total
         /\ stage \notin AtTest => status[current] = "not_started" \/ current > Len(group.tests)
<1>1. GroupParts
  BY DEF GroupInv, GroupParts, InGroup, PlaceInv
<1>2. /\ current \in Nat \ {0} /\ TotalTests \in Nat /\ TotalTests <= Len(group.tests)
      /\ Len(group.tests) \in Nat /\ total \in Total
  BY Totals, GroupFits DEF PlaceInv, Total
<1>3. stage \notin AtTest => status[current] = "not_started" \/ current > Len(group.tests)
  <2> SUFFICES ASSUME stage \notin AtTest, ~(current > Len(group.tests)) PROVE status[current] = "not_started"
    OBVIOUS
  <2>1. current \in 1..Len(group.tests)
    BY <1>2
  <2> QED
    BY <1>1, <2>1 DEF GroupParts, StatusInv
<1> QED
  BY <1>1, <1>2, <1>3

LEMMA First ==
  /\ 1 - 1 = 0 /\ (\A k \in 1..0 : FALSE) /\ \A n \in Nat : 1 <= n + 1
  /\ \A n \in Nat : \A k \in 1..n : ~(k < 1)
  /\ 0 \in Nat /\ ~(0 > 0) /\ 1 > 0 /\ 0 = 0 + 0 + 0 + 0
  OBVIOUS

LEMMA NothingAdded ==
  ASSUME NEW t \in Total, t.executed = 0, t.executed = t.passed + t.skipped + t.failed + t.errors
  PROVE  t.passed = 0 /\ t.skipped = 0 /\ t.failed = 0 /\ t.errors = 0
  BY DEF Total

LEMMA GroupOpens ==
  ASSUME PlaceInv, OpenGroup
  PROVE  GroupParts'
<1>1. /\ stage' \in {"group setup", "next"} /\ UNCHANGED <<prog, g>> /\ current' = 1 /\ total' = NoTotal
      /\ status' = [k \in DOMAIN group.tests |-> "not_started"] /\ failedIn' = {} /\ lines' = <<>>
  <2>1. /\ current' = 1 /\ total' = NoTotal /\ g' = g
        /\ status' = [k \in DOMAIN group.tests |-> "not_started"] /\ failedIn' = {} /\ lines' = <<>>
    BY DEF OpenGroup
  <2>2. stage' \in {"group setup", "next"} /\ prog' = prog
    BY Called DEF OpenGroup, Idle
  <2> QED
    BY <2>1, <2>2
<1>2. group' = group /\ TotalTests' = TotalTests
  BY <1>1, Same
<1>3. TotalTests \in Nat /\ Len(group.tests) \in Nat /\ DOMAIN group.tests = 1..Len(group.tests)
  BY Totals, GroupFits
<1>a. current' = 1 /\ status' = [k \in 1..Len(group.tests) |-> "not_started"]
  BY <1>1, <1>3, Zenon
<1>4. \A k \in 1..Len(group.tests) : status'[k] = "not_started" /\ ~(k < 1)
  <2>1. \A k \in 1..Len(group.tests) : status'[k] = "not_started"
    BY <1>a, Zenon
  <2> QED
    BY <1>3, <2>1, First, Zenon
<1>5. stage' \notin AtTest /\ stage' \notin {"close", "group teardown", "finish", "check", "setup", "test", "tear", "teardown", "count"}
  BY <1>1 DEF AtTest
<1>6. ~SetupFailed' /\ (\A w, k : <<w, k>> \notin failedIn')
  BY <1>1 DEF SetupFailed
<1>7. status' \in [1..Len(group.tests) -> Statuses] /\ 1 <= TotalTests + 1
  <2>1. "not_started" \in Statuses
    BY DEF Statuses
  <2>2. status' \in [1..Len(group.tests) -> Statuses]
    BY <1>a, <2>1, Zenon
  <2> QED
    BY <1>3, <2>2, First, Zenon
<1>8. StatusInv'
  BY <1>1, <1>2, <1>4, <1>5, <1>7 DEF StatusInv
<1>9. FailedInv'
  BY <1>1, <1>2, <1>4, <1>6 DEF FailedInv
<1>10. CountInv'
  <2>1. total'.executed = 0 /\ total'.passed = 0 /\ total'.skipped = 0 /\ total'.failed = 0 /\ total'.errors = 0
    BY <1>1 DEF NoTotal
  <2>2. current' - 1 = 0 /\ \A k \in 1..0 : FALSE
    BY <1>a, First, Zenon
  <2>3. ~(total'.errors > 0) /\ ~(total'.failed > 0) /\ 0 = 0 + 0 + 0 + 0
    BY <2>1, First, Zenon
  <2>4. stage' \notin LastStages /\ stage' # "close"
    BY <1>5 DEF LastStages
  <2> QED
    BY <1>a, <1>6, <2>1, <2>2, <2>3, <2>4, Zenon DEF CountInv, LastStages
<1>11. LinesInv'
  <2>1. Announced' = 0
    BY <1>a, <1>6, First, Zenon DEF Announced
  <2>2. LinesWell(<<>>, 0, status')
    BY DEF LinesWell
  <2> QED
    BY <1>1, <2>1, <2>2 DEF LinesInv
<1> QED
  BY <1>5, <1>8, <1>9, <1>10, <1>11 DEF GroupParts, ListedInv

LEMMA GroupSetupIsCounted ==
  ASSUME PlaceInv, GroupInv, GroupSetupEnds
  PROVE  GroupParts'
<1>1. /\ stage = "group setup" /\ UNCHANGED <<prog, g, current, status>>
      /\ stage' = IF Failed THEN "close" ELSE "next"
  BY DEF GroupSetupEnds, At
<1>2. failedIn' = failedIn \cup (IF Failed THEN {<<"group setup", current>>} ELSE {})
  BY <1>1 DEF GroupSetupEnds, FailedHere
<1>3. lines' = IF Failed THEN lines \o Line(0, "error") ELSE lines
  BY DEF GroupSetupEnds
<1>4. stage \in GroupStages /\ stage \notin AtTest
  BY <1>1 DEF GroupStages, AtTest
<1>5. /\ GroupParts /\ current \in Nat \ {0} /\ TotalTests \in Nat /\ TotalTests <= Len(group.tests)
      /\ Len(group.tests) \in Nat /\ total \in Total
      /\ status[current] = "not_started" \/ current > Len(group.tests)
  BY <1>4, GroupPlace
<1>6. group' = group /\ TotalTests' = TotalTests
  BY <1>1, Same
<1>7. ~SetupFailed /\ current = 1 /\ CountInv
  BY <1>1, <1>5 DEF GroupParts, CountInv
<1> DEFINE cs == IF Failed THEN {"errors"} ELSE {}
<1>8. /\ total' \in Total
      /\ total'.executed = total.executed + (IF "executed" \in cs THEN 1 ELSE 0)
      /\ total'.passed = total.passed + (IF "passed" \in cs THEN 1 ELSE 0)
      /\ total'.skipped = total.skipped + (IF "skipped" \in cs THEN 1 ELSE 0)
      /\ total'.failed = total.failed + (IF "failed" \in cs THEN 1 ELSE 0)
      /\ total'.errors = total.errors + (IF "errors" \in cs THEN 1 ELSE 0)
  <2>1. Add(cs)
    BY DEF GroupSetupEnds
  <2> HIDE DEF cs
  <2> QED
    BY <1>5, <2>1, Added
<1>9. /\ total.executed = 0 /\ total.passed = 0 /\ total.skipped = 0 /\ total.failed = 0 /\ total.errors = 0
  <2>1. current - 1 = 0
    BY <1>7, First, Zenon
  <2>2. total.executed = 0 /\ total.executed = total.passed + total.skipped + total.failed + total.errors
    BY <1>7, <2>1, Zenon DEF CountInv
  <2> QED
    BY <1>5, <2>2, NothingAdded
<1>10. "executed" \notin cs /\ "passed" \notin cs /\ "skipped" \notin cs /\ "failed" \notin cs /\ ("errors" \in cs <=> Failed)
  OBVIOUS
<1> HIDE DEF cs
<1>11. total'.executed = 0 /\ total'.passed = 0 /\ total'.skipped = 0 /\ total'.failed = 0
  BY <1>8, <1>9, <1>10
<1>12. total'.errors = IF Failed THEN 1 ELSE 0
  BY <1>8, <1>9, <1>10
<1>13. stage' \notin AtTest /\ stage' \notin {"setup", "test", "tear", "teardown", "count", "check", "group setup"}
  BY <1>1 DEF AtTest
<1>14. StatusInv'
  BY <1>1, <1>5, <1>6, <1>13, StatusStays DEF GroupParts
<1>15. FailedInv'
  <2>1. failedIn' = failedIn \/ failedIn' = failedIn \cup {<<"group setup", current>>}
    BY <1>2
  <2> QED
    BY <1>1, <1>5, <1>6, <2>1, FailedStays DEF GroupParts
<1>16. SetupFailed' <=> Failed
  <2>1. CASE Failed
    <3>1. <<"group setup", current>> \in failedIn' /\ <<"group setup", current>>[1] = "group setup"
      BY <1>2, <2>1
    <3> QED
      BY <2>1, <3>1 DEF SetupFailed
  <2>2. CASE ~Failed
    <3>1. failedIn' = failedIn
      BY <1>2, <2>2
    <3> QED
      BY <1>7, <2>2, <3>1 DEF SetupFailed
  <2> QED
    BY <2>1, <2>2
<1>17. CountInv'
  <2>a. current' = 1
    BY <1>1, <1>7, Zenon
  <2>1. current' = 1 /\ current' - 1 = 0 /\ \A k \in 1..current' - 1 : FALSE
    BY <2>a
  <2>2. CASE Failed
    <3>1. stage' = "close" /\ SetupFailed' /\ total'.errors > 0
      <4>1. stage' = "close"
        BY <1>1, <2>2
      <4>2. total'.errors = 1
        BY <1>12, <2>2
      <4> QED
        BY <1>16, <2>2, <4>1, <4>2, First, Zenon
    <3> QED
      BY <1>11, <2>1, <3>1 DEF CountInv
  <2>3. CASE ~Failed
    <3>1. stage' = "next" /\ ~SetupFailed' /\ total'.errors = 0
      BY <1>1, <1>12, <1>16, <2>3
    <3> QED
      BY <1>11, <2>1, <3>1 DEF CountInv
  <2> QED
    BY <2>2, <2>3
<1>18. LinesInv'
  <2>1. Announced = 0 /\ Announced' = 0
    <3>1. current = 1 /\ current' = 1 /\ 1 - 1 = 0
      BY <1>1, <1>7, First, Zenon
    <3>2. Announced = 0
      BY <1>7, <3>1, Zenon DEF Announced
    <3>3. CASE SetupFailed'
      BY <3>2, <3>3, Zenon DEF Announced
    <3>4. CASE ~SetupFailed'
      BY <3>1, <3>2, <3>4, Zenon DEF Announced
    <3> QED
      BY <3>2, <3>3, <3>4
  <2>2. SUFFICES ASSUME prog.format = "tap"
                 PROVE  LinesWell(lines', 0, status) /\ (stage' # "close" => Len(lines') = 0)
    BY <1>1, <2>1 DEF LinesInv
  <2>3. LinesWell(lines, 0, status) /\ Len(lines) = 0
    BY <1>1, <1>5, <2>1, <2>2 DEF GroupParts, LinesInv
  <2>4. CASE Failed
    <3> DEFINE line == [number |-> 0, result |-> "not ok"]
    <3>1. lines' = lines \o <<line>>
      BY <1>3, <2>2, <2>4 DEF Line
    <3>2. line \in TapLines /\ line.number = 0
      BY DEF TapLines
    <3>3. LinesWell(lines \o <<line>>, 0, status)
      BY <2>3, <3>2, LinesGrow
    <3> QED
      BY <1>1, <2>4, <3>1, <3>3
  <2>5. CASE ~Failed
    BY <1>3, <2>3, <2>5
  <2> QED
    BY <2>4, <2>5
<1> QED
  BY <1>13, <1>14, <1>15, <1>17, <1>18 DEF GroupParts, ListedInv

LEMMA BeforeIn ==
  ASSUME NEW n \in Nat, NEW k \in Nat \ {0}, k \in 1..n
  PROVE  \A j \in 1..k - 1 : j \in 1..n /\ j # k
  OBVIOUS

(* A function of the test that is run has ended with status r.               *)
LEMMA StatusMoves ==
  ASSUME PlaceInv, GroupInv, stage \in {"setup", "test", "teardown"},
         UNCHANGED <<prog, g, current, total, lines>>,
         NEW r \in Outcomes, status' = [status EXCEPT ![current] = r],
         stage' \in {"tear", "count"}, stage' = "tear" => r \in {"passed", "skipped", "failed"},
         NEW bad \in BOOLEAN, failedIn' = failedIn \cup (IF bad THEN {<<stage, current>>} ELSE {}),
         r \in {"failed", "error"} <=> bad \/ status[current] \in {"failed", "error"}
  PROVE  GroupParts'
<1>1. stage \in GroupStages /\ stage \in Within /\ stage # "group setup"
  BY DEF GroupStages, Within
<1>2. GroupParts /\ current \in Nat \ {0} /\ Len(group.tests) \in Nat
  BY <1>1, GroupPlace
<1>3. group' = group
  BY Same
<1>4. /\ StatusInv' /\ current \in 1..Len(group.tests) /\ status'[current] = r
      /\ \A k \in 1..Len(group.tests) : k # current => status'[k] = status[k]
  BY <1>2, <1>3, StatusSet DEF GroupParts
<1>5. FailedInv'
  <2>1. status' \in [1..Len(group.tests) -> Statuses]
    BY <1>3, <1>4 DEF StatusInv
  <2> QED
    BY <1>1, <1>2, <1>3, <1>4, <2>1, FailedSet DEF GroupParts
<1>6. SetupFailed' <=> SetupFailed
  <2>1. failedIn' = failedIn \/ failedIn' = failedIn \cup {<<stage, current>>}
    OBVIOUS
  <2> QED
    BY <1>1, <2>1, SetupFailedStays
<1>7. \A k \in 1..current - 1 : status'[k] = status[k]
  <2>1. \A k \in 1..current - 1 : k \in 1..Len(group.tests) /\ k # current
    BY <1>2, <1>4, BeforeIn
  <2> QED
    BY <1>4, <2>1, Zenon
<1>8. ~SetupFailed
  BY <1>2 DEF GroupParts, CountInv
<1>9. CountInv'
  BY <1>2, <1>3, <1>6, <1>7, <1>8, CountStays DEF GroupParts, LastStages
<1>10. LinesInv'
  <2>1. stage \notin {"close", "group teardown", "finish", "check"}
    OBVIOUS
  <2> QED
    BY <1>2, <1>6, <1>7, <2>1, LinesStay DEF GroupParts
<1> QED
  BY <1>4, <1>5, <1>9, <1>10 DEF GroupParts, ListedInv

LEMMA TestStarts ==
  ASSUME PlaceInv, GroupInv, NextTest \/ StartTeardown
  PROVE  GroupParts'
<1>1. /\ UNCHANGED <<prog, g, current, total, status, failedIn, lines>>
      /\ \/ stage = "next" /\ current <= TotalTests /\ stage' \in {"next", "setup", "test"}
         \/ stage = "tear" /\ stage' = "teardown"
  <2>1. UNCHANGED <<prog, g, current, total, status, failedIn, lines>>
    BY Called DEF NextTest, StartTeardown
  <2>2. \/ stage = "next" /\ current <= TotalTests /\ stage' \in {"next", "setup", "test"}
        \/ stage = "tear" /\ stage' = "teardown"
    BY DEF NextTest, StartTeardown, At
  <2> QED
    BY <2>1, <2>2
<1>2. stage \in GroupStages
  BY <1>1 DEF GroupStages
<1>3. /\ GroupParts /\ current \in Nat \ {0} /\ TotalTests \in Nat /\ TotalTests <= Len(group.tests)
      /\ Len(group.tests) \in Nat
      /\ stage \notin AtTest => status[current] = "not_started" \/ current > Len(group.tests)
  BY <1>2, GroupPlace
<1>4. group' = group /\ ~SetupFailed
  BY <1>1, <1>3, Same DEF GroupParts, CountInv
<1>5. CASE stage = "next" /\ current <= TotalTests /\ stage' \in {"next", "setup", "test"}
  <2>1. status[current] = "not_started"
    <3>1. ~(current > Len(group.tests))
      BY <1>3, <1>5
    <3> QED
      BY <1>3, <1>5, <3>1 DEF AtTest
  <2> QED
    BY <1>1, <1>3, <1>4, <1>5, <2>1, StageMoves DEF LastStages, AtTest
<1>6. CASE stage = "tear" /\ stage' = "teardown"
  <2>1. current <= TotalTests /\ status[current] \in {"passed", "skipped", "failed"}
    BY <1>3, <1>6 DEF GroupParts, StatusInv, AtTest
  <2> QED
    BY <1>1, <1>3, <1>4, <1>6, <2>1, StageMoves DEF LastStages, AtTest
<1> QED
  BY <1>1, <1>5, <1>6

LEMMA TestMoves ==
  ASSUME PlaceInv, GroupInv, SetupEnds \/ TestEnds \/ TeardownEnds
  PROVE  GroupParts'
<1>1. stage \in GroupStages
  BY DEF SetupEnds, TestEnds, TeardownEnds, At, GroupStages
<1>2. GroupParts /\ StatusInv
  BY <1>1, GroupPlace DEF GroupParts
<1>3. Failed \in BOOLEAN
  BY DEF Failed
<1>4. CASE SetupEnds
  <2>1. /\ stage = "setup" /\ UNCHANGED <<prog, g, current, total, lines>>
        /\ failedIn' = failedIn \cup (IF Failed THEN {<<stage, current>>} ELSE {})
    <3>1. /\ stage = "setup" /\ UNCHANGED <<g, current, total, lines>>
          /\ failedIn' = failedIn \cup (IF Failed THEN {<<stage, current>>} ELSE {})
      BY <1>4 DEF SetupEnds, At, FailedHere
    <3>2. prog' = prog
      BY <1>4, Called DEF SetupEnds
    <3> QED
      BY <3>1, <3>2
  <2>2. status[current] = "not_started" /\ current <= TotalTests
    BY <1>2, <2>1 DEF StatusInv, AtTest
  <2>3. CASE Failed
    <3>1. status' = [status EXCEPT ![current] = "error"] /\ stage' = "count" /\ "error" \in Outcomes
      BY <1>4, <2>3 DEF SetupEnds, Outcomes
    <3> DEFINE r == "error"
    <3>2. r \in {"failed", "error"} <=> Failed \/ status[current] \in {"failed", "error"}
      BY <2>3
    <3>3. stage \in {"setup", "test", "teardown"} /\ stage' \in {"tear", "count"} /\ stage' # "tear"
      BY <2>1, <3>1
    <3>4. r \in Outcomes /\ status' = [status EXCEPT ![current] = r]
      BY <3>1
    <3> HIDE DEF r
    <3> QED
      BY <1>3, <2>1, <3>2, <3>3, <3>4, StatusMoves
  <2>4. CASE ~Failed
    <3>1. stage' = "test" /\ status' = status /\ failedIn' = failedIn
      BY <1>4, <2>1, <2>4 DEF SetupEnds
    <3>2. group' = group /\ ~SetupFailed
      BY <1>2, <2>1, Same DEF GroupParts, CountInv
    <3> QED
      BY <1>2, <2>1, <2>2, <3>1, <3>2, StageMoves DEF LastStages, AtTest
  <2> QED
    BY <2>3, <2>4
<1>5. CASE TestEnds
  <2> DEFINE r == IF ~Failed THEN "passed" ELSE IF skip # "" THEN "skipped" ELSE "failed"
             bad == r = "failed"
  <2>1. /\ stage = "test" /\ UNCHANGED <<prog, g, current, total, lines>>
        /\ status' = [status EXCEPT ![current] = r] /\ stage' \in {"tear", "count"}
        /\ failedIn' = failedIn \cup (IF bad THEN {<<stage, current>>} ELSE {})
    <3>1. stage = "test" /\ UNCHANGED <<prog, g, current, total, lines>> /\ stage' \in {"tear", "count"}
      BY <1>5 DEF TestEnds, At
    <3>2. /\ status' = [status EXCEPT ![current] = r]
          /\ failedIn' = failedIn \cup (IF bad THEN {<<stage, current>>} ELSE {})
      BY <1>5, Zenon DEF TestEnds
    <3> QED
      BY <3>1, <3>2
  <2>2. status[current] = "not_started"
    BY <1>2, <2>1 DEF StatusInv
  <2>3. r \in {"passed", "skipped", "failed"} /\ r \in Outcomes /\ bad \in BOOLEAN
    BY DEF Outcomes
  <2>4. r \in {"failed", "error"} <=> bad \/ status[current] \in {"failed", "error"}
    <3> HIDE DEF r
    <3>1. status[current] \notin {"failed", "error"}
      BY <2>2
    <3>2. r # "error"
      BY <2>3
    <3> QED
      BY <3>1, <3>2
  <2>5. stage \in {"setup", "test", "teardown"}
    BY <2>1
  <2> HIDE DEF r, bad
  <2> QED
    BY <2>1, <2>3, <2>4, <2>5, StatusMoves
<1>6. CASE TeardownEnds
  <2> DEFINE r == IF Failed THEN "error" ELSE status[current]
  <2>1. /\ stage = "teardown" /\ UNCHANGED <<prog, g, current, total, lines>> /\ stage' = "count"
        /\ failedIn' = failedIn \cup (IF Failed THEN {<<stage, current>>} ELSE {})
        /\ status' = IF Failed THEN [status EXCEPT ![current] = "error"] ELSE status
    BY <1>6 DEF TeardownEnds, At, FailedHere
  <2>2. status[current] \in {"passed", "skipped", "failed"} /\ current <= TotalTests
        /\ status \in [1..Len(group.tests) -> Statuses]
    BY <1>2, <2>1 DEF StatusInv, AtTest
  <2>3. r \in Outcomes
    BY <2>2 DEF Outcomes
  <2>4. status' = [status EXCEPT ![current] = r]
    <3>1. CASE Failed
      BY <2>1, <3>1
    <3>2. CASE ~Failed
      BY <2>1, <2>2, <3>2
    <3> QED
      BY <3>1, <3>2
  <2>5. r \in {"failed", "error"} <=> Failed \/ status[current] \in {"failed", "error"}
    BY <2>2
  <2>6. stage \in {"setup", "test", "teardown"} /\ stage' \in {"tear", "count"} /\ stage' # "tear"
    BY <2>1
  <2> HIDE DEF r
  <2> QED
    BY <1>3, <2>1, <2>3, <2>4, <2>5, <2>6, StatusMoves
<1> QED
  BY <1>4, <1>5, <1>6

LEMMA GroupCloses ==
  ASSUME PlaceInv, GroupInv, CloseGroup
  PROVE  GroupParts'
<1>1. /\ UNCHANGED <<prog, g, current, total, status, failedIn, lines>> /\ stage' \in {"group teardown", "finish"}
      /\ stage = "close" \/ (stage = "next" /\ current > TotalTests)
  <2>1. UNCHANGED <<prog, g, current, total, status, failedIn, lines>>
    BY Called DEF CloseGroup, Idle, newer
  <2>2. stage' \in {"group teardown", "finish"}
        /\ (stage = "close" \/ (stage = "next" /\ current > TotalTests))
    BY DEF CloseGroup, At
  <2> QED
    BY <2>1, <2>2
<1>2. stage \in GroupStages /\ stage \notin AtTest
  BY <1>1 DEF GroupStages, AtTest
<1>3. /\ GroupParts /\ current \in Nat \ {0} /\ TotalTests \in Nat
      /\ status[current] = "not_started" \/ current > Len(group.tests)
  BY <1>2, GroupPlace
<1>4. group' = group
  BY <1>1, Same
<1>5. SetupFailed \/ current = TotalTests + 1
  <2>1. CASE stage = "close"
    BY <1>3, <2>1 DEF GroupParts, CountInv
  <2>2. CASE stage = "next" /\ current > TotalTests
    <3>1. current <= TotalTests + 1
      BY <1>3 DEF GroupParts, StatusInv
    <3> QED
      BY <1>3, <2>2, <3>1
  <2> QED
    BY <1>1, <2>1, <2>2
<1> QED
  BY <1>1, <1>3, <1>4, <1>5, StageMoves DEF AtTest, LastStages

LEMMA GroupTeardownIsCounted ==
  ASSUME PlaceInv, GroupInv, GroupTeardownEnds
  PROVE  GroupParts'
<1>1. /\ stage = "group teardown" /\ stage' = "finish" /\ UNCHANGED <<prog, g, current, total, status>>
  BY DEF GroupTeardownEnds, At
<1>2. failedIn' = failedIn \cup (IF Failed THEN {<<"group teardown", current>>} ELSE {})
  BY <1>1 DEF GroupTeardownEnds, FailedHere
<1>3. lines' = IF Failed THEN lines \o Line(0, "error") ELSE lines
  BY DEF GroupTeardownEnds
<1>4. stage \in GroupStages /\ stage \notin AtTest
  BY <1>1 DEF GroupStages, AtTest
<1>5. /\ GroupParts /\ current \in Nat \ {0}
      /\ status[current] = "not_started" \/ current > Len(group.tests)
  BY <1>4, GroupPlace
<1>6. group' = group
  BY <1>1, Same
<1>7. StatusInv'
  BY <1>1, <1>5, <1>6, StatusStays DEF GroupParts, AtTest
<1>8. failedIn' = failedIn \/ failedIn' = failedIn \cup {<<"group teardown", current>>}
  BY <1>2
<1>9. FailedInv'
  BY <1>1, <1>5, <1>6, <1>8, FailedStays DEF GroupParts
<1>10. SetupFailed' <=> SetupFailed
  <2>1. "group teardown" # "group setup"
    OBVIOUS
  <2> QED
    BY <1>8, <2>1, SetupFailedStays
<1>11. CountInv'
  <2>1. SetupFailed \/ current = TotalTests + 1
    BY <1>1, <1>5 DEF GroupParts, CountInv
  <2> QED
    BY <1>1, <1>5, <1>6, <1>10, <2>1, CountStays DEF GroupParts, LastStages
<1>12. LinesInv'
  <2>1. Announced' = Announced
    BY <1>1, <1>10 DEF Announced
  <2>2. SUFFICES ASSUME prog.format = "tap"
                 PROVE  LinesWell(lines', Announced, status)
    BY <1>1, <2>1 DEF LinesInv
  <2>3. LinesWell(lines, Announced, status)
    BY <1>5, <2>2 DEF GroupParts, LinesInv
  <2>4. CASE Failed
    <3> DEFINE line == [number |-> 0, result |-> "not ok"]
    <3>1. lines' = lines \o <<line>>
      BY <1>3, <2>2, <2>4 DEF Line
    <3>2. line \in TapLines /\ line.number = 0
      BY DEF TapLines
    <3>3. Announced \in Nat
      BY <1>5 DEF Announced
    <3>4. LinesWell(lines \o <<line>>, Announced, status)
      BY <2>3, <3>2, <3>3, LinesGrow
    <3> QED
      BY <3>1, <3>4
  <2>5. CASE ~Failed
    BY <1>3, <2>3, <2>5
  <2> QED
    BY <2>4, <2>5
<1> QED
  BY <1>1, <1>7, <1>9, <1>11, <1>12 DEF GroupParts, ListedInv

LEMMA GroupFinishes ==
  ASSUME PlaceInv, GroupInv, FinishGroup
  PROVE  GroupParts'
<1>1. /\ stage = "finish" /\ stage' = "check"
      /\ UNCHANGED <<prog, g, current, total, status, failedIn, lines>> /\ listed' = Reported
  BY DEF FinishGroup, At, Idle
<1>2. stage \in GroupStages /\ stage \notin AtTest
  BY <1>1 DEF GroupStages, AtTest
<1>3. /\ GroupParts /\ current \in Nat \ {0}
      /\ status[current] = "not_started" \/ current > Len(group.tests)
  BY <1>2, GroupPlace
<1>4. group' = group /\ (SetupFailed' <=> SetupFailed)
  BY <1>1, Same DEF SetupFailed
<1>5. StatusInv'
  BY <1>1, <1>3, <1>4, StatusStays DEF GroupParts, AtTest
<1>6. FailedInv'
  BY <1>1, <1>3, <1>4, FailedStays DEF GroupParts
<1>7. CountInv'
  <2>1. SetupFailed \/ current = TotalTests + 1
    BY <1>1, <1>3 DEF GroupParts, CountInv
  <2> QED
    BY <1>1, <1>3, <1>4, <2>1, CountStays DEF GroupParts, LastStages
<1>8. LinesInv'
  BY <1>1, <1>3, <1>4, LinesStay DEF GroupParts
<1>9. ListedInv'
  BY <1>1 DEF ListedInv, Reported
<1> QED
  BY <1>5, <1>6, <1>7, <1>8, <1>9 DEF GroupParts

LEMMA CountedOnce ==
  ASSUME NEW t \in Total, NEW u \in Total, NEW w \in {"passed", "skipped", "failed", "error"},
         t.executed = t.passed + t.skipped + t.failed + t.errors,
         u.executed = t.executed + 1,
         u.passed = t.passed + (IF w = "passed" THEN 1 ELSE 0),
         u.skipped = t.skipped + (IF w = "skipped" THEN 1 ELSE 0),
         u.failed = t.failed + (IF w = "failed" THEN 1 ELSE 0),
         u.errors = t.errors + (IF w = "error" THEN 1 ELSE 0)
  PROVE  u.executed = u.passed + u.skipped + u.failed + u.errors
  BY DEF Total

(* The counters and the lines, as a test is counted                          *)
LEMMA TestIsCounted ==
  ASSUME PlaceInv, GroupInv, TestCounted
  PROVE  GroupParts'
<1>1. /\ stage = "count" /\ stage' = "next" /\ UNCHANGED <<prog, g, status, failedIn>> /\ current' = current + 1
      /\ lines' = lines \o Line(current, status[current])
  BY DEF TestCounted, At
<1>2. stage \in GroupStages /\ stage \in AtTest
  BY <1>1 DEF GroupStages, AtTest
<1>3. /\ GroupParts /\ current \in Nat \ {0} /\ TotalTests \in Nat /\ TotalTests <= Len(group.tests)
      /\ Len(group.tests) \in Nat /\ total \in Total
  BY <1>2, GroupPlace
<1>4. group' = group /\ TotalTests' = TotalTests /\ (SetupFailed' <=> SetupFailed)
  BY <1>1, Same DEF SetupFailed
<1>5. current <= TotalTests /\ status[current] \in Outcomes /\ current \in 1..Len(group.tests)
  <2>1. current <= TotalTests /\ status[current] \in Outcomes
    BY <1>1, <1>2, <1>3 DEF GroupParts, StatusInv
  <2> QED
    BY <1>3, <2>1
<1>6. ~SetupFailed /\ stage' \notin LastStages /\ stage' \notin {"close", "group setup", "check"} /\ stage' \notin AtTest
  BY <1>1, <1>3 DEF GroupParts, CountInv, LastStages, AtTest
<1>7. StatusInv'
  <2>1. \A k \in 1..Len(group.tests) : k < current + 1 => status[k] \in Outcomes
    <3>1. \A k \in 1..Len(group.tests) : k < current + 1 => k < current \/ k = current
      BY <1>3
    <3> QED
      BY <1>3, <1>5, <3>1 DEF GroupParts, StatusInv
  <2>2. \A k \in 1..Len(group.tests) : k > current + 1 \/ k = current + 1 => status[k] = "not_started"
    <3>1. \A k \in 1..Len(group.tests) : k > current + 1 \/ k = current + 1 => k > current
      BY <1>3
    <3> QED
      BY <1>3, <3>1 DEF GroupParts, StatusInv
  <2>3. current + 1 <= TotalTests + 1
    BY <1>3, <1>5
  <2>4. stage' \notin {"setup", "test", "tear", "teardown", "count"}
    BY <1>1
  <2> QED
    BY <1>1, <1>3, <1>4, <1>6, <2>1, <2>2, <2>3, <2>4 DEF GroupParts, StatusInv
<1>8. FailedInv'
  BY <1>1, <1>3, <1>4, FailedStays DEF GroupParts
<1>9. CountInv'
  <2> DEFINE w == status[current]
             cs == {"executed", IF w = "error" THEN "errors" ELSE w}
  <2>1. /\ total' \in Total
        /\ total'.executed = total.executed + (IF "executed" \in cs THEN 1 ELSE 0)
        /\ total'.passed = total.passed + (IF "passed" \in cs THEN 1 ELSE 0)
        /\ total'.skipped = total.skipped + (IF "skipped" \in cs THEN 1 ELSE 0)
        /\ total'.failed = total.failed + (IF "failed" \in cs THEN 1 ELSE 0)
        /\ total'.errors = total.errors + (IF "errors" \in cs THEN 1 ELSE 0)
    <3>1. Add(cs)
      BY DEF TestCounted
    <3> HIDE DEF cs
    <3> QED
      BY <1>3, <3>1, Added
  <2>2. /\ "executed" \in cs /\ ("passed" \in cs <=> w = "passed") /\ ("skipped" \in cs <=> w = "skipped")
        /\ ("failed" \in cs <=> w = "failed") /\ ("errors" \in cs <=> w = "error")
    <3>1. w \in {"passed", "skipped", "failed", "error"}
      BY <1>5 DEF Outcomes
    <3>2. CASE w = "passed"
      BY <3>2
    <3>3. CASE w = "skipped"
      BY <3>3
    <3>4. CASE w = "failed"
      BY <3>4
    <3>5. CASE w = "error"
      BY <3>5
    <3> QED
      BY <3>1, <3>2, <3>3, <3>4, <3>5
  <2>3. w \in {"passed", "skipped", "failed", "error"}
    BY <1>5 DEF Outcomes
  <2> HIDE DEF cs
  <2>4. /\ total'.executed = total.executed + 1
        /\ total'.passed = total.passed + (IF w = "passed" THEN 1 ELSE 0)
        /\ total'.skipped = total.skipped + (IF w = "skipped" THEN 1 ELSE 0)
        /\ total'.failed = total.failed + (IF w = "failed" THEN 1 ELSE 0)
        /\ total'.errors = total.errors + (IF w = "error" THEN 1 ELSE 0)
    BY <2>1, <2>2, Zenon
  <2>5. /\ total.executed = current - 1
        /\ total.executed = total.passed + total.skipped + total.failed + total.errors
        /\ (total.errors > 0 <=> \E k \in 1..current - 1 : status[k] = "error")
        /\ (total.failed > 0 <=> \E k \in 1..current - 1 : status[k] = "failed")
    BY <1>3, <1>6 DEF GroupParts, CountInv
  <2> DEFINE Some(n, v) == \E k \in 1..n : status[k] = v
  <2>6. \A v : Some(current, v) <=> Some(current - 1, v) \/ w = v
    <3>1. \A k : k \in 1..current <=> k \in 1..current - 1 \/ k = current
      BY <1>3
    <3> QED
      BY <3>1
  <2> HIDE DEF Some
  <2>7. \A a \in Nat : ((a + 1 > 0) /\ (a + 0 > 0 <=> a > 0))
    OBVIOUS
  <2>8. total.errors \in Nat /\ total.failed \in Nat
    BY <1>3 DEF Total
  <2>9. total'.errors > 0 <=> Some(current, "error")
    <3>1. total.errors > 0 <=> Some(current - 1, "error")
      BY <2>5, Zenon DEF Some
    <3>2. CASE w = "error"
      <4>1. total'.errors = total.errors + 1
        BY <2>4, <3>2, Zenon
      <4>2. total.errors + 1 > 0
        BY <2>7, <2>8
      <4>3. total'.errors > 0
        BY <4>1, <4>2, Zenon
      <4>4. Some(current, "error")
        BY <2>6, <3>2, Zenon
      <4> QED
        BY <4>3, <4>4
    <3>3. CASE w # "error"
      <4>1. total'.errors = total.errors + 0
        BY <2>4, <3>3, Zenon
      <4>2. total.errors + 0 > 0 <=> total.errors > 0
        BY <2>7, <2>8
      <4>3. total'.errors > 0 <=> total.errors > 0
        BY <4>1, <4>2, Zenon
      <4>4. Some(current, "error") <=> Some(current - 1, "error")
        BY <2>6, <3>3, Zenon
      <4> QED
        BY <3>1, <4>3, <4>4, Zenon
    <3> QED
      BY <3>2, <3>3
  <2>10. total'.failed > 0 <=> Some(current, "failed")
    <3>1. total.failed > 0 <=> Some(current - 1, "failed")
      BY <2>5, Zenon DEF Some
    <3>2. CASE w = "failed"
      <4>1. total'.failed = total.failed + 1
        BY <2>4, <3>2, Zenon
      <4>2. total.failed + 1 > 0
        BY <2>7, <2>8
      <4>3. total'.failed > 0
        BY <4>1, <4>2, Zenon
      <4>4. Some(current, "failed")
        BY <2>6, <3>2, Zenon
      <4> QED
        BY <4>3, <4>4
    <3>3. CASE w # "failed"
      <4>1. total'.failed = total.failed + 0
        BY <2>4, <3>3, Zenon
      <4>2. total.failed + 0 > 0 <=> total.failed > 0
        BY <2>7, <2>8
      <4>3. total'.failed > 0 <=> total.failed > 0
        BY <4>1, <4>2, Zenon
      <4>4. Some(current, "failed") <=> Some(current - 1, "failed")
        BY <2>6, <3>3, Zenon
      <4> QED
        BY <3>1, <4>3, <4>4, Zenon
    <3> QED
      BY <3>2, <3>3
  <2>11. total'.executed = (current + 1) - 1 /\ (current + 1) - 1 = current
    BY <1>3, <2>4, <2>5
  <2>12. total'.executed = total'.passed + total'.skipped + total'.failed + total'.errors
    BY <1>3, <2>1, <2>3, <2>4, <2>5, CountedOnce
  <2> QED
    BY <1>1, <1>4, <1>6, <2>9, <2>10, <2>11, <2>12, Zenon DEF CountInv, LastStages, Some
<1>10. LinesInv'
  <2>1. Announced = current - 1 /\ Announced' = current /\ current - 1 \in Nat /\ (current - 1) + 1 = current
    <3>1. (current + 1) - 1 = current /\ current - 1 \in Nat /\ (current - 1) + 1 = current
      BY <1>3
    <3>2. Announced' = current' - 1
      BY <1>4, <1>6 DEF Announced
    <3> QED
      BY <1>1, <1>6, <3>1, <3>2 DEF Announced
  <2>2. SUFFICES ASSUME prog.format = "tap"
                 PROVE  LinesWell(lines', current, status) /\ Len(lines') = current
    BY <1>1, <2>1 DEF LinesInv
  <2>3. LinesWell(lines, current - 1, status) /\ Len(lines) = current - 1
    BY <1>1, <1>3, <2>1, <2>2 DEF GroupParts, LinesInv
  <2> DEFINE line == TapLine(current, status)
  <2>4. lines' = lines \o <<line>>
    BY <1>1, <2>2 DEF Line, TapLine
  <2>5. line \in TapLines
    BY <1>3 DEF TapLine, TapLines
  <2>6. LinesWell(lines \o <<line>>, current, status) /\ Len(lines \o <<line>>) = current
    <3> DEFINE n == current - 1
    <3>1. n \in Nat /\ n + 1 = current /\ LinesWell(lines, n, status) /\ Len(lines) = n
      BY <2>1, <2>3
    <3>2. line = TapLine(n + 1, status)
      BY <3>1
    <3> HIDE DEF n, line
    <3>3. LinesWell(lines \o <<line>>, n + 1, status) /\ Len(lines \o <<line>>) = n + 1
      BY <2>5, <3>1, <3>2, LinesGrow
    <3> QED
      BY <3>1, <3>3
  <2> QED
    BY <2>4, <2>6
<1> QED
  BY <1>6, <1>7, <1>8, <1>9, <1>10 DEF GroupParts, ListedInv

(* A group's exit, and what the other runners do                             *)
LEMMA GroupKept == PlaceInv /\ GroupInv /\ [Next]_vars => GroupInv'
<1> SUFFICES ASSUME PlaceInv, GroupInv, [Next]_vars PROVE GroupInv'
  OBVIOUS
<1>a. GroupParts' => GroupInv'
  BY DEF GroupParts, GroupInv
<1>b. ASSUME UNCHANGED <<prog, g, stage, current, total, status, failedIn, lines, listed>> PROVE GroupInv'
  <2>1. group' = group /\ TotalTests' = TotalTests
    BY <1>b, Same
  <2> QED
    BY <1>b, <2>1 DEF GroupInv, InGroup, StatusInv, FailedInv, CountInv, LinesInv, ListedInv, LinesWell,
       TapLine, Announced, SetupFailed, Reported
<1>c. ASSUME stage' \in {"open", "done"} PROVE GroupInv'
  BY <1>c DEF GroupInv, InGroup, GroupStages
<1>d. ASSUME group' = group, group.runner # "group" PROVE GroupInv'
  BY <1>d DEF GroupInv, InGroup
<1>1. CASE FunctionOnly
  BY <1>1, <1>b, FunctionOnlyKeeps
<1>2. CASE UNCHANGED vars
  BY <1>2, <1>b DEF vars, process, place, newer
<1>3. CASE OpenGroupFails
  BY <1>3, <1>c DEF OpenGroupFails, NextGroup
<1>4. CASE CheckGroupBlocks
  <2>1. NextGroup(ReturnValue) \/ UNCHANGED <<g, stage>>
    BY <1>4 DEF CheckGroupBlocks
  <2>2. CASE NextGroup(ReturnValue)
    BY <2>2, <1>c DEF NextGroup
  <2>3. CASE UNCHANGED <<g, stage>>
    <3>1. UNCHANGED <<prog, current, total, failedIn>> /\ UNCHANGED newer
      BY <1>4 DEF CheckGroupBlocks, Static
    <3> QED
      BY <2>3, <3>1, <1>b DEF newer
  <2> QED
    BY <2>1, <2>2, <2>3
<1>5. CASE OpenTests \/ NextEntry \/ EntryEnds \/ EntriesEnd \/ OlderSetup \/ OlderEnds \/ OlderNext
  <2>1. group.runner # "group"
    <3>1. CASE OpenTests
      BY <3>1 DEF OpenTests
    <3>2. CASE ~OpenTests
      <4>1. stage \in TestsStages \cup OlderStages
        BY <1>5, <3>2 DEF NextEntry, EntryEnds, EntriesEnd, OlderSetup, OlderEnds, OlderNext, At, TestsStages, OlderStages
      <4> QED
        BY <4>1 DEF PlaceInv
    <3> QED
      BY <3>1, <3>2
  <2>2. UNCHANGED <<prog, g>>
    BY <1>5, Called DEF OpenTests, NextEntry, EntryEnds, EntriesEnd, OlderSetup, OlderEnds, OlderNext, Idle, Static
  <2>3. group' = group
    BY <2>2, Same
  <2> QED
    BY <2>1, <2>3, <1>d
<1> QED
  BY <1>a, <1>1, <1>2, <1>3, <1>4, <1>5, Steps, GroupOpens, GroupSetupIsCounted, TestStarts, TestMoves,
     TestIsCounted, GroupCloses, GroupTeardownIsCounted, GroupFinishes DEF RunnerStep

LEMMA GroupBegins == Init => GroupInv
  BY DEF Init, GroupInv, InGroup, GroupStages

-----------------------------------------------------------------------------
(* What this says at the end of a group                                      *)

LEMMA AtCheck ==
  ASSUME PlaceInv, GroupInv, stage = "check", group.runner = "group"
  PROVE  /\ GroupParts /\ total \in Total /\ current \in Nat \ {0} /\ TotalTests \in Nat
         /\ SetupFailed \/ current = TotalTests + 1
         /\ Len(group.tests) \in Nat
         /\ ReturnValue = total.failed + total.errors
         /\ listed = Reported
         /\ \A k \in 1..Len(group.tests) :
              status[k] \in {"failed", "error"} => k \in 1..current - 1
         /\ \A k \in 1..current - 1 : k \in 1..Len(group.tests)
<1>1. GroupParts
  BY DEF GroupInv, GroupParts, InGroup
<1>2. total \in Total /\ current \in Nat \ {0} /\ TotalTests \in Nat /\ Len(group.tests) \in Nat
      /\ TotalTests <= Len(group.tests)
  BY Totals, GroupFits DEF PlaceInv, Total
<1>3. SetupFailed \/ current = TotalTests + 1
  BY <1>1 DEF GroupParts, CountInv
<1>4. ReturnValue = total.failed + total.errors /\ listed = Reported
  BY <1>1 DEF ReturnValue, GroupParts, ListedInv
<1>5. \A k \in 1..Len(group.tests) : status[k] \in {"failed", "error"} => k \in 1..current - 1
  <2> SUFFICES ASSUME NEW k \in 1..Len(group.tests), status[k] \in {"failed", "error"}
               PROVE  k \in 1..current - 1
    OBVIOUS
  <2>1. ~(k > current \/ k = current)
    BY <1>1 DEF GroupParts, StatusInv, AtTest
  <2> QED
    BY <1>2, <2>1
<1>6. \A k \in 1..current - 1 : k \in 1..Len(group.tests)
  <2>1. current <= TotalTests + 1
    BY <1>1 DEF GroupParts, StatusInv
  <2> QED
    BY <1>2, <2>1
<1> QED
  BY <1>1, <1>2, <1>3, <1>4, <1>5, <1>6

LEMMA ZeroSum ==
  ASSUME NEW t \in Total
  PROVE  /\ t.failed \in Nat /\ t.errors \in Nat
         /\ t.failed + t.errors = 0 <=> ~(t.failed > 0) /\ ~(t.errors > 0)
         /\ t.failed = 0 <=> ~(t.failed > 0)
  BY DEF Total

LEMMA GroupLosesNothing ==
  ASSUME PlaceInv, GroupInv, stage = "check", group.runner = "group"
  PROVE  ReturnValue = 0 <=> { f \in failedIn : f[1] # "group teardown" } = {}
<1> DEFINE Others == { f \in failedIn : f[1] # "group teardown" }
<1>1. /\ GroupParts /\ total \in Total /\ ReturnValue = total.failed + total.errors
      /\ \A k \in 1..Len(group.tests) : status[k] \in {"failed", "error"} => k \in 1..current - 1
      /\ \A k \in 1..current - 1 : k \in 1..Len(group.tests)
  BY AtCheck
<1>2. ReturnValue = 0 <=> ~(total.failed > 0) /\ ~(total.errors > 0)
  BY <1>1, ZeroSum
<1>3. CASE SetupFailed
  <2>1. total.errors > 0
    BY <1>1, <1>3 DEF GroupParts, CountInv
  <2>2. PICK f \in failedIn : f[1] = "group setup"
    BY <1>3 DEF SetupFailed
  <2>3. f \in Others
    BY <2>2
  <2> QED
    BY <1>2, <2>1, <2>3
<1>4. CASE ~SetupFailed
  <2>1. /\ total.errors > 0 <=> \E k \in 1..current - 1 : status[k] = "error"
        /\ total.failed > 0 <=> \E k \in 1..current - 1 : status[k] = "failed"
    BY <1>1, <1>4 DEF GroupParts, CountInv
  <2>2. ReturnValue = 0 <=> ~\E k \in 1..Len(group.tests) : status[k] \in {"failed", "error"}
    BY <1>1, <1>2, <2>1
  <2>3. \A k \in 1..Len(group.tests) :
          status[k] \in {"failed", "error"} <=> \E w \in Within : <<w, k>> \in failedIn
    BY <1>1 DEF GroupParts, FailedInv
  <2>4. ASSUME NEW f \in Others PROVE \E k \in 1..Len(group.tests) : status[k] \in {"failed", "error"}
    <3>1. f \in failedIn /\ f[1] # "group teardown" /\ f[1] # "group setup"
      BY <1>4 DEF SetupFailed
    <3>2. f = <<f[1], f[2]>> /\ f[1] \in Within /\ f[2] \in 1..Len(group.tests)
      BY <1>1, <3>1 DEF GroupParts, FailedInv
    <3> QED
      BY <2>3, <3>1, <3>2, Zenon
  <2>5. ASSUME NEW k \in 1..Len(group.tests), status[k] \in {"failed", "error"} PROVE Others # {}
    <3>1. PICK w \in Within : <<w, k>> \in failedIn
      BY <2>3, <2>5
    <3>2. <<w, k>>[1] # "group teardown"
      BY DEF Within
    <3>3. <<w, k>> \in Others
      BY <3>1, <3>2
    <3> QED
      BY <3>3
  <2> QED
    BY <2>2, <2>4, <2>5
<1> QED
  BY <1>3, <1>4

LEMMA NothingLost == PlaceInv /\ GroupInv /\ EntryInv /\ OlderInv => NoFailureLost
<1> SUFFICES ASSUME PlaceInv, GroupInv, EntryInv, OlderInv, stage = "check"
             PROVE  ReturnValue = 0
                      <=> { f \in failedIn : f[1] # "group teardown" } = {}
                          /\ (group.runner = "tests" => stack = <<>>)
  BY DEF NoFailureLost
<1> DEFINE Others == { f \in failedIn : f[1] # "group teardown" }
<1>1. group.runner \in {"group", "tests", "group_tests"}
  BY DEF PlaceInv, TestsFit
<1>2. CASE group.runner = "group"
  BY <1>2, GroupLosesNothing
<1>3. CASE group.runner = "tests"
  <2>1. (\A f \in failedIn : f = <<"entry runs", f[2]>>) /\ (total.failed = 0 <=> failedIn = {})
    BY <1>3 DEF EntryInv, InEntries, EntryFailed
  <2>2. \A f \in failedIn : f[1] # "group teardown"
    <3>1. \A v : <<"entry runs", v>>[1] # "group teardown"
      OBVIOUS
    <3> QED
      BY <2>1, <3>1, Zenon
  <2>3. Others = failedIn
    BY <2>2
  <2> HIDE DEF Others
  <2>4. ReturnValue = IF stack # <<>> THEN -1 ELSE total.failed
    BY <1>3 DEF ReturnValue
  <2>5. CASE stack = <<>>
    <3>1. ReturnValue = total.failed
      BY <2>4, <2>5
    <3> QED
      BY <2>1, <2>3, <2>5, <3>1 DEF Others
  <2>6. CASE stack # <<>>
    <3>1. ReturnValue = -1 /\ -1 # 0
      BY <2>4, <2>6
    <3> QED
      BY <1>3, <2>6, <3>1, Zenon
  <2> QED
    BY <2>5, <2>6
<1>4. CASE group.runner = "group_tests"
  <2>1. (\A f \in failedIn : f[1] \in OlderStages) /\ (total.failed = 0 <=> failedIn = {})
    BY <1>4 DEF OlderInv
  <2>2. "group teardown" \notin OlderStages
    BY DEF OlderStages
  <2>3. Others = failedIn
    BY <2>1, <2>2
  <2>4. ReturnValue = total.failed
    BY <1>4 DEF ReturnValue
  <2> QED
    BY <1>4, <2>1, <2>3, <2>4
<1> QED
  BY <1>1, <1>2, <1>3, <1>4

LEMMA RunAfterSetup == PlaceInv /\ EntryInv => TestsRunAfterSetup
<1> SUFFICES ASSUME PlaceInv, EntryInv, stage = "check", group.runner = "tests",
                    NEW k \in DOMAIN group.tests, group.tests[k] = "test"
             PROVE  LET setups == { j \in 1..k - 1 : group.tests[j] = "setup" }
                    IN  k \in ran <=> \A j \in setups :
                         (\A other \in setups : other <= j) => <<"entry runs", j>> \notin failedIn
  BY DEF TestsRunAfterSetup
<1>1. EntryFailed /\ EntryRan
  BY DEF EntryInv, InEntries
<1>2. k \in 1..Len(group.tests) /\ Len(group.tests) \in Nat /\ current \in Nat
  BY GroupFits DEF PlaceInv
<1>3. k < current
  <2>1. current > Len(group.tests)
    BY <1>1 DEF EntryFailed
  <2> QED
    BY <1>2, <2>1
<1>4. k \in ran <=> SetupBefore(k)
  BY <1>1, <1>2, <1>3 DEF EntryRan
<1> QED
  BY <1>4 DEF SetupBefore, SetupWell, SetupsBefore

LEMMA TapSum ==
  ASSUME NEW t \in Total, t.executed = t.passed + t.skipped + t.failed + t.errors
  PROVE  t.passed + t.skipped = t.executed <=> t.failed + t.errors = 0
  BY DEF Total

LEMMA NothingRan ==
  ASSUME NEW t \in Total, t.executed = 0, t.passed = 0, t.skipped = 0
  PROVE  t.passed + t.skipped = t.executed
  BY DEF Total

LEMMA Reporting == PlaceInv /\ GroupInv => FailuresReported
<1> SUFFICES ASSUME PlaceInv, GroupInv, stage = "check", group.runner = "group"
             PROVE  /\ ReturnValue = 0 => listed = {}
                    /\ ReturnValue # 0 /\ listed = {} =>
                         CASE prog.format = "stdout"  -> total.failed = 0
                           [] prog.format = "subunit" -> TRUE
                           [] OTHER                   -> total.executed = 0
  BY DEF FailuresReported
<1>1. /\ GroupParts /\ total \in Total /\ ReturnValue = total.failed + total.errors
      /\ \A k \in 1..Len(group.tests) : status[k] \in {"failed", "error"} => k \in 1..current - 1
      /\ \A k \in 1..current - 1 : k \in 1..Len(group.tests)
      /\ listed = Reported
  BY AtCheck
<1>2. ReturnValue = 0 <=> ~(total.failed > 0) /\ ~(total.errors > 0)
  BY <1>1, ZeroSum
<1>3. total.failed > 0 <=> \E k \in 1..current - 1 : status[k] = "failed"
  BY <1>1 DEF GroupParts, CountInv
<1>4. DOMAIN status = 1..Len(group.tests)
  BY <1>1 DEF GroupParts, StatusInv
<1>5. SetupFailed => total.executed = 0 /\ total.passed = 0 /\ total.skipped = 0 /\ total.errors > 0
  BY <1>1 DEF GroupParts, CountInv
<1>6. ~SetupFailed =>
       /\ total.executed = current - 1
       /\ total.executed = total.passed + total.skipped + total.failed + total.errors
       /\ total.errors > 0 <=> \E k \in 1..current - 1 : status[k] = "error"
  BY <1>1 DEF GroupParts, CountInv
<1>7. CASE prog.format = "stdout"
  <2>1. listed = { k \in DOMAIN status : status[k] = "failed" }
    BY <1>1, <1>7 DEF Reported
  <2>2. listed = {} <=> ~(total.failed > 0)
    BY <1>1, <1>3, <1>4, <2>1
  <2> QED
    BY <1>1, <1>2, <1>7, <2>2, ZeroSum
<1>8. CASE prog.format = "subunit"
  BY <1>1, <1>8 DEF Reported
<1>9. CASE prog.format = "tap"
  <2>1. listed = IF total.passed + total.skipped = total.executed THEN {} ELSE {0}
    BY <1>1, <1>9 DEF Reported
  <2>2. CASE SetupFailed
    <3>1. total.passed + total.skipped = total.executed
      BY <1>1, <1>5, <2>2, NothingRan, Zenon
    <3>2. listed = {} /\ total.executed = 0
      BY <1>5, <2>1, <2>2, <3>1, Zenon
    <3>3. ReturnValue # 0
      BY <1>2, <1>5, <2>2, Zenon
    <3> QED
      BY <1>9, <3>2, <3>3
  <2>3. CASE ~SetupFailed
    <3>1. total.passed + total.skipped = total.executed <=> total.failed + total.errors = 0
      BY <1>1, <1>6, <2>3, TapSum
    <3>2. listed = {} <=> ReturnValue = 0
      BY <1>1, <2>1, <3>1
    <3>3. listed = {} => ReturnValue = 0
      BY <3>2
    <3> QED
      BY <1>9, <3>2, <3>3
  <2> QED
    BY <2>2, <2>3
<1>10. CASE prog.format = "xml"
  <2>1. listed = { k \in 1..total.executed : status[k] \in {"failed", "error"} }
    BY <1>1, <1>10 DEF Reported
  <2>2. CASE SetupFailed
    <3>1. ReturnValue # 0 /\ total.executed = 0
      BY <1>2, <1>5, <2>2
    <3> QED
      BY <1>10, <3>1
  <2>3. CASE ~SetupFailed
    <3>1. listed = {} <=> ~(total.failed > 0) /\ ~(total.errors > 0)
      BY <1>3, <1>6, <2>1, <2>3
    <3> QED
      BY <1>2, <3>1
  <2> QED
    BY <2>2, <2>3
<1>11. prog.format \in {"stdout", "tap", "subunit", "xml"}
  BY Formats
<1> QED
  BY <1>7, <1>8, <1>9, <1>10, <1>11

LEMMA PlanKept == PlaceInv /\ GroupInv => TapPlanKept
<1> SUFFICES ASSUME PlaceInv, GroupInv, stage = "check", group.runner = "group", prog.format = "tap"
             PROVE  LET n == IF SetupFailed THEN 0 ELSE TotalTests
                    IN  /\ n <= Len(lines)
                        /\ \A k \in 1..n : lines[k] = TapLine(k, status)
                        /\ \A k \in n + 1..Len(lines) : lines[k].number = 0
  BY DEF TapPlanKept, SetupFailed, TapLine
<1> DEFINE n == IF SetupFailed THEN 0 ELSE TotalTests
<1>1. /\ GroupParts /\ TotalTests \in Nat /\ (SetupFailed \/ current = TotalTests + 1)
  BY AtCheck
<1>2. Announced = n
  <2>1. CASE SetupFailed
    BY <2>1 DEF Announced
  <2>2. CASE ~SetupFailed
    BY <1>1, <2>2 DEF Announced
  <2> QED
    BY <2>1, <2>2
<1>3. LinesWell(lines, n, status)
  BY <1>1, <1>2 DEF GroupParts, LinesInv
<1> HIDE DEF n
<1>4. /\ n <= Len(lines)
      /\ \A k \in 1..n : lines[k] = TapLine(k, status)
      /\ \A k \in n + 1..Len(lines) : lines[k].number = 0
  BY <1>3, Zenon DEF LinesWell
<1> QED
  BY <1>4 DEF n

-----------------------------------------------------------------------------
(* The heap and the skips: blocks and check points                           *)

Blocks == [addr : Addresses, by : Nat]
Points == [node : Addresses \cup {ListHead, NoNode}, at : Nat]

(* The list is in the order of the functions that allocated; n is the last.  *)
HeapWell(s, n) ==
  /\ s \in Seq(Blocks)
  /\ \A j, k \in DOMAIN s : j < k => s[j].addr # s[k].addr /\ s[j].by <= s[k].by
  /\ \A k \in DOMAIN s : s[k].by <= n

(* What stands behind the node of a check point is of later functions, unless*)
(* it is not the block it was taken at.                                      *)
Marks(c, s) ==
  /\ c.node = ListHead => \A k \in DOMAIN s : s[k].by >= c.at
  /\ \A j, k \in DOMAIN s : s[j].addr = c.node /\ s[j].by < c.at /\ j < k => s[k].by >= c.at

(* Nothing is left since then, or nobody can tell.                           *)
Clean(c, s) ==
  \/ \A k \in DOMAIN s : s[k].by < c.at
  \/ c.node # ListHead /\ \A k \in DOMAIN s : s[k].addr = c.node => s[k].by >= c.at

(* n functions have been run, of which one may run now.                      *)
Running(p) == p \in {"body", "checks"}
GoodPoint(c, s, n, p) ==
  c \in Points /\ Marks(c, s) /\ c.at <= n + 1 /\ (Running(p) => c.at <= n)
Good(c) == GoodPoint(c, blocks, nth, at)

PointsInv ==
  /\ nth > 0 => Good(cp)
  /\ stage \notin {"open", "done"} => Good(groupCp)
  /\ stage \in AtTest \cup (OlderStages \ {"older open"}) => Good(testCp)
  /\ stack \in Seq(Points) /\ \A k \in 1..Len(stack) : Good(stack[k])

LeakInv ==
  /\ Running(at) => todo \in Seq({"blocks", "values"})
  /\ kind # "setup" /\ nth > 0 =>
       /\ at = "body" => "blocks" \in { todo[k] : k \in DOMAIN todo }
       /\ at = "checks" => (\E k \in DOMAIN todo : todo[k] = "blocks") \/ Clean(cp, blocks)
       /\ at = "idle" /\ why = "" => Clean(cp, blocks)
  /\ stage \in {"open", "done"} => groupCp \in Points /\ Clean(groupCp, blocks)

HeapInv ==
  HeapWell(blocks, nth) /\ nth \in Nat /\ (Running(at) => nth > 0) /\ PointsInv /\ LeakInv

(* Whose skip it is                                                          *)
SkipInv ==
  /\ Running(at) => (stage = "test" <=> ~legacy /\ kind = "test")
  /\ skip = "test" => stage = "test" /\ why = "skip" /\ rc # 0 /\ ~Running(at)

(* t is what is left of s.                                                   *)
Sub(t, s) ==
  /\ t \in Seq(Blocks)
  /\ \E f \in [DOMAIN t -> DOMAIN s] :
       /\ \A j, k \in DOMAIN t : j < k => f[j] < f[k]
       /\ \A k \in DOMAIN t : t[k] = s[f[k]]

LEMMA SubSame ==
  ASSUME NEW s \in Seq(Blocks)
  PROVE  Sub(s, s)
<1> DEFINE f == [k \in DOMAIN s |-> k]
<1>1. f \in [DOMAIN s -> DOMAIN s]
  OBVIOUS
<1>2. /\ \A j, k \in DOMAIN s : j < k => f[j] < f[k]
      /\ \A k \in DOMAIN s : s[k] = s[f[k]]
  OBVIOUS
<1> QED
  BY <1>1, <1>2 DEF Sub

LEMMA Cut ==
  ASSUME NEW S, NEW s \in Seq(S), NEW k \in 1..Len(s) + 1, NEW n \in 0..Len(s) - k + 1
  PROVE  LET t == SubSeq(s, 1, k - 1) \o SubSeq(s, k + n, Len(s))
         IN  /\ t \in Seq(S) /\ Len(t) = Len(s) - n
             /\ \A m \in 1..Len(t) : m < k => t[m] = s[m] /\ m \in 1..Len(s)
             /\ \A m \in 1..Len(t) : m >= k => t[m] = s[m + n] /\ m + n \in 1..Len(s)
<1> DEFINE a == SubSeq(s, 1, k - 1)
           b == SubSeq(s, k + n, Len(s))
<1>1. Len(s) \in Nat /\ k \in Nat /\ n \in Nat /\ 1 <= k /\ k + n <= Len(s) + 1
  OBVIOUS
<1>2. a \in Seq(S) /\ Len(a) = k - 1 /\ \A m \in 1..k - 1 : a[m] = s[m]
  <2>1. /\ \A m \in 1..k - 1 : s[m] \in S
        /\ 1 \in Int /\ k - 1 \in Int
    BY <1>1
  <2>2. /\ a \in Seq(S)
        /\ Len(a) = IF 1 <= k - 1 THEN (k - 1) - 1 + 1 ELSE 0
        /\ \A m \in 1..(k - 1) - 1 + 1 : a[m] = s[1 + m - 1]
    BY <2>1, SubSeqProperties
  <2> HIDE DEF a
  <2>3. Len(a) = k - 1
    BY <1>1, <2>2
  <2>4. ASSUME NEW m \in 1..k - 1 PROVE a[m] = s[m]
    <3>1. m \in 1..(k - 1) - 1 + 1 /\ 1 + m - 1 = m
      BY <1>1
    <3> QED
      BY <2>2, <3>1
  <2> QED
    BY <2>2, <2>3, <2>4
<1>3. b \in Seq(S) /\ Len(b) = Len(s) - k - n + 1 /\ \A m \in 1..Len(s) - k - n + 1 : b[m] = s[m + k + n - 1]
  <2>1. /\ \A m \in k + n..Len(s) : s[m] \in S
        /\ k + n \in Int /\ Len(s) \in Int
    BY <1>1
  <2>2. /\ b \in Seq(S)
        /\ Len(b) = IF k + n <= Len(s) THEN Len(s) - (k + n) + 1 ELSE 0
        /\ \A m \in 1..Len(s) - (k + n) + 1 : b[m] = s[(k + n) + m - 1]
    BY <2>1, SubSeqProperties
  <2> HIDE DEF b
  <2>3. Len(b) = Len(s) - k - n + 1
    <3>1. CASE k + n <= Len(s)
      <4>1. Len(b) = Len(s) - (k + n) + 1
        BY <2>2, <3>1, Zenon
      <4> QED
        BY <1>1, <4>1
    <3>2. CASE ~(k + n <= Len(s))
      <4>1. Len(b) = 0
        BY <2>2, <3>2, Zenon
      <4>2. Len(s) - k - n + 1 = 0
        BY <1>1, <3>2
      <4> QED
        BY <4>1, <4>2
    <3> QED
      BY <3>1, <3>2
  <2>4. ASSUME NEW m \in 1..Len(s) - k - n + 1 PROVE b[m] = s[m + k + n - 1]
    <3>1. m \in 1..Len(s) - (k + n) + 1 /\ (k + n) + m - 1 = m + k + n - 1
      BY <1>1
    <3> QED
      BY <2>2, <3>1
  <2> QED
    BY <2>2, <2>3, <2>4
<1> HIDE DEF a, b
<1>4. a \o b \in Seq(S) /\ Len(a \o b) = Len(a) + Len(b)
  BY <1>2, <1>3, ConcatProperties, Zenon
<1>5. \A m \in 1..Len(a) + Len(b) : (a \o b)[m] = IF m <= Len(a) THEN a[m] ELSE b[m - Len(a)]
  BY <1>2, <1>3
<1>6. Len(a \o b) = Len(s) - n
  BY <1>1, <1>2, <1>3, <1>4
<1>7. ASSUME NEW m \in 1..Len(s) - n, m < k PROVE (a \o b)[m] = s[m] /\ m \in 1..Len(s)
  <2>1. m \in 1..Len(a) + Len(b) /\ m <= Len(a) /\ m \in 1..k - 1 /\ m \in 1..Len(s)
    BY <1>1, <1>2, <1>3, <1>7
  <2> QED
    BY <1>2, <1>5, <2>1
<1>8. ASSUME NEW m \in 1..Len(s) - n, m >= k PROVE (a \o b)[m] = s[m + n] /\ m + n \in 1..Len(s)
  <2>1. /\ m \in 1..Len(a) + Len(b) /\ ~(m <= Len(a)) /\ m - Len(a) \in 1..Len(s) - k - n + 1
        /\ (m - Len(a)) + k + n - 1 = m + n /\ m + n \in 1..Len(s)
    BY <1>1, <1>2, <1>3, <1>8
  <2>2. b[m - Len(a)] = s[(m - Len(a)) + k + n - 1]
    BY <1>3, <2>1
  <2> QED
    BY <1>5, <2>1, <2>2
<1>9. a \o b = SubSeq(s, 1, k - 1) \o SubSeq(s, k + n, Len(s))
  BY DEF a, b
<1> QED
  BY <1>4, <1>6, <1>7, <1>8, <1>9

(* Without some blocks in a row, the others are left.                        *)
LEMMA CutIsSub ==
  ASSUME NEW s \in Seq(Blocks), NEW k \in 1..Len(s) + 1, NEW n \in 0..Len(s) - k + 1
  PROVE  Sub(SubSeq(s, 1, k - 1) \o SubSeq(s, k + n, Len(s)), s)
<1> DEFINE t == SubSeq(s, 1, k - 1) \o SubSeq(s, k + n, Len(s))
           f == [m \in 1..Len(t) |-> IF m < k THEN m ELSE m + n]
<1>1. /\ t \in Seq(Blocks) /\ Len(t) = Len(s) - n
      /\ \A m \in 1..Len(t) : m < k => t[m] = s[m] /\ m \in 1..Len(s)
      /\ \A m \in 1..Len(t) : m >= k => t[m] = s[m + n] /\ m + n \in 1..Len(s)
  BY Cut
<1> HIDE DEF t
<1>2. Len(t) \in Nat /\ DOMAIN t = 1..Len(t) /\ DOMAIN s = 1..Len(s)
  BY <1>1
<1>3. f \in [DOMAIN t -> DOMAIN s]
  BY <1>1, <1>2
<1>4. \A i, j \in DOMAIN t : i < j => f[i] < f[j]
  BY <1>2
<1>5. \A m \in DOMAIN t : t[m] = s[f[m]]
  BY <1>1, <1>2
<1> HIDE DEF f
<1>6. Sub(t, s)
  BY <1>1, <1>3, <1>4, <1>5 DEF Sub
<1> QED
  BY <1>6 DEF t

LEMMA SubKeeps ==
  ASSUME NEW s, NEW t, Sub(t, s), NEW n \in Nat, HeapWell(s, n)
  PROVE  /\ HeapWell(t, n)
         /\ \A c \in Points : Marks(c, s) => Marks(c, t)
         /\ \A c \in Points : Clean(c, s) => Clean(c, t)
<1>1. PICK f \in [DOMAIN t -> DOMAIN s] :
        /\ \A j, k \in DOMAIN t : j < k => f[j] < f[k]
        /\ \A k \in DOMAIN t : t[k] = s[f[k]]
  BY DEF Sub
<1>2. /\ t \in Seq(Blocks)
      /\ \A j, k \in DOMAIN s : j < k => s[j].addr # s[k].addr /\ s[j].by <= s[k].by
      /\ \A k \in DOMAIN s : s[k].by <= n
  BY DEF Sub, HeapWell
<1>a. \A k \in DOMAIN t : f[k] \in DOMAIN s
  BY <1>1
<1>3. HeapWell(t, n)
  <2>1. ASSUME NEW j \in DOMAIN t, NEW k \in DOMAIN t, j < k
        PROVE  t[j].addr # t[k].addr /\ t[j].by <= t[k].by
    <3>1. f[j] < f[k] /\ t[j] = s[f[j]] /\ t[k] = s[f[k]] /\ f[j] \in DOMAIN s /\ f[k] \in DOMAIN s
      BY <1>1, <1>a, <2>1
    <3>2. s[f[j]].addr # s[f[k]].addr /\ s[f[j]].by <= s[f[k]].by
      BY <1>2, <3>1, Zenon
    <3> QED
      BY <3>1, <3>2, Zenon
  <2>2. \A k \in DOMAIN t : t[k].by <= n
    BY <1>1, <1>2, <1>a, Zenon
  <2> QED
    BY <1>2, <2>1, <2>2, Zenon DEF HeapWell
<1>4. ASSUME NEW c \in Points, Marks(c, s) PROVE Marks(c, t)
  <2>1. ASSUME c.node = ListHead, NEW k \in DOMAIN t PROVE t[k].by >= c.at
    BY <1>1, <1>4, <1>a, <2>1, Zenon DEF Marks
  <2>2. ASSUME NEW j \in DOMAIN t, NEW k \in DOMAIN t, t[j].addr = c.node, t[j].by < c.at, j < k
        PROVE  t[k].by >= c.at
    <3>1. f[j] < f[k] /\ t[j] = s[f[j]] /\ t[k] = s[f[k]] /\ f[j] \in DOMAIN s /\ f[k] \in DOMAIN s
      BY <1>1, <1>a, <2>2
    <3>2. s[f[j]].addr = c.node /\ s[f[j]].by < c.at
      BY <2>2, <3>1, Zenon
    <3>3. s[f[k]].by >= c.at
      BY <1>4, <3>1, <3>2, Zenon DEF Marks
    <3> QED
      BY <3>1, <3>3, Zenon
  <2> QED
    BY <2>1, <2>2, Zenon DEF Marks
<1>5. ASSUME NEW c \in Points, Clean(c, s) PROVE Clean(c, t)
  BY <1>1, <1>5, Zenon DEF Clean
<1> QED
  BY <1>3, <1>4, <1>5

(* A block of the function that runs                                         *)
LEMMA AppendKeeps ==
  ASSUME NEW t, NEW n \in Nat, HeapWell(t, n), NEW a \in Addresses, \A k \in DOMAIN t : t[k].addr # a
  PROVE  LET s == Append(t, [addr |-> a, by |-> n])
         IN  /\ HeapWell(s, n)
             /\ \A c \in Points : Marks(c, t) /\ c.at <= n => Marks(c, s)
<1> DEFINE b == [addr |-> a, by |-> n]
           s == Append(t, b)
<1>1. /\ t \in Seq(Blocks)
      /\ \A j, k \in DOMAIN t : j < k => t[j].addr # t[k].addr /\ t[j].by <= t[k].by
      /\ \A k \in DOMAIN t : t[k].by <= n
  BY DEF HeapWell
<1>2. b \in Blocks /\ b.addr = a /\ b.by = n
  BY DEF Blocks
<1> HIDE DEF b
<1>3. /\ s \in Seq(Blocks) /\ Len(t) \in Nat /\ DOMAIN t = 1..Len(t) /\ DOMAIN s = 1..Len(t) + 1
      /\ s[Len(t) + 1] = b /\ \A k \in 1..Len(t) : s[k] = t[k]
  BY <1>1, <1>2
<1> HIDE DEF s
<1>4. ASSUME NEW j \in DOMAIN s, NEW k \in DOMAIN s, j < k
      PROVE  j \in DOMAIN t /\ (k \in DOMAIN t \/ k = Len(t) + 1)
  BY <1>3, <1>4
<1>5. ASSUME NEW j \in DOMAIN s, NEW k \in DOMAIN s, j < k
      PROVE  s[j].addr # s[k].addr /\ s[j].by <= s[k].by
  <2>1. j \in DOMAIN t /\ (k \in DOMAIN t \/ k = Len(t) + 1)
    BY <1>4, <1>5
  <2>2. CASE k \in DOMAIN t
    BY <1>1, <1>3, <1>5, <2>1, <2>2
  <2>3. CASE k = Len(t) + 1
    BY <1>1, <1>2, <1>3, <2>1, <2>3
  <2> QED
    BY <2>1, <2>2, <2>3
<1>6. \A k \in DOMAIN s : s[k].by <= n
  <2> SUFFICES ASSUME NEW k \in DOMAIN s PROVE s[k].by <= n
    OBVIOUS
  <2>1. CASE k \in DOMAIN t
    BY <1>1, <1>3, <2>1
  <2>2. CASE k = Len(t) + 1
    BY <1>2, <1>3, <2>2
  <2> QED
    BY <1>3, <2>1, <2>2
<1>7. HeapWell(s, n)
  BY <1>3, <1>5, <1>6 DEF HeapWell
<1>8. ASSUME NEW c \in Points, Marks(c, t), c.at <= n PROVE Marks(c, s)
  <2>0. n >= c.at
    BY <1>8 DEF Points
  <2>1. ASSUME c.node = ListHead, NEW k \in DOMAIN s PROVE s[k].by >= c.at
    <3>1. CASE k \in DOMAIN t
      BY <1>3, <1>8, <2>1, <3>1 DEF Marks
    <3>2. CASE k = Len(t) + 1
      BY <1>2, <1>3, <2>0, <3>2
    <3> QED
      BY <1>3, <3>1, <3>2
  <2>2. ASSUME NEW j \in DOMAIN s, NEW k \in DOMAIN s, s[j].addr = c.node, s[j].by < c.at, j < k
        PROVE  s[k].by >= c.at
    <3>1. j \in DOMAIN t /\ (k \in DOMAIN t \/ k = Len(t) + 1)
      BY <1>4, <2>2
    <3>2. CASE k \in DOMAIN t
      BY <1>3, <1>8, <2>2, <3>1, <3>2 DEF Marks
    <3>3. CASE k = Len(t) + 1
      BY <1>2, <1>3, <2>0, <3>3
    <3> QED
      BY <3>1, <3>2, <3>3
  <2> QED
    BY <2>1, <2>2 DEF Marks
<1> QED
  BY <1>7, <1>8 DEF s, b

LEMMA WhereBlockIs ==
  ASSUME NEW n, HeapWell(blocks, n), NEW a \in Held
  PROVE  /\ Place(a) \in DOMAIN blocks /\ blocks[Place(a)].addr = a
         /\ \A k \in DOMAIN blocks : blocks[k].addr = a => k = Place(a)
<1>1. \E k \in DOMAIN blocks : blocks[k].addr = a
  BY DEF Held
<1>2. Place(a) \in DOMAIN blocks /\ blocks[Place(a)].addr = a
  BY <1>1 DEF Place
<1>3. ASSUME NEW k \in DOMAIN blocks, blocks[k].addr = a PROVE k = Place(a)
  <2>1. /\ blocks \in Seq(Blocks)
        /\ \A i, j \in DOMAIN blocks : i < j => blocks[i].addr # blocks[j].addr
    BY DEF HeapWell
  <2>2. k \in Int /\ Place(a) \in Int
    BY <1>2, <2>1
  <2>3. ~(k < Place(a)) /\ ~(Place(a) < k)
    BY <1>2, <1>3, <2>1, Zenon
  <2> QED
    BY <2>2, <2>3
<1> QED
  BY <1>2, <1>3

LEMMA FreedOne ==
  ASSUME NEW n, HeapWell(blocks, n), NEW a \in Held
  PROVE  Sub(Without(Place(a), 1), blocks)
<1>1. blocks \in Seq(Blocks) /\ Place(a) \in DOMAIN blocks
  BY WhereBlockIs DEF HeapWell
<1>2. Place(a) \in 1..Len(blocks) + 1 /\ 1 \in 0..Len(blocks) - Place(a) + 1
  BY <1>1
<1> QED
  BY <1>1, <1>2, CutIsSub DEF Without

(* A suffix of the list                                                      *)
LEMMA Suffix ==
  ASSUME NEW s \in Seq(Blocks), NEW i \in 0..Len(s)
  PROVE  LET t == SubSeq(s, i + 1, Len(s))
         IN  /\ Len(t) = Len(s) - i /\ (t = <<>> => i = Len(s))
             /\ \A k \in 1..Len(s) - i : t[k] = s[k + i]
<1> DEFINE t == SubSeq(s, i + 1, Len(s))
<1>1. /\ \A m \in i + 1..Len(s) : s[m] \in Blocks
      /\ i + 1 \in Int /\ Len(s) \in Int /\ Len(s) \in Nat /\ i \in Nat /\ i <= Len(s)
  OBVIOUS
<1>2. /\ t \in Seq(Blocks)
      /\ Len(t) = IF i + 1 <= Len(s) THEN Len(s) - (i + 1) + 1 ELSE 0
      /\ \A m \in 1..Len(s) - (i + 1) + 1 : t[m] = s[(i + 1) + m - 1]
  BY <1>1, SubSeqProperties
<1> HIDE DEF t
<1>3. Len(t) = Len(s) - i
  BY <1>1, <1>2
<1>4. ASSUME NEW m \in 1..Len(s) - i PROVE t[m] = s[m + i]
  <2>1. m \in 1..Len(s) - (i + 1) + 1 /\ (i + 1) + m - 1 = m + i
    BY <1>1
  <2> QED
    BY <1>2, <2>1
<1>5. t = <<>> => i = Len(s)
  BY <1>1, <1>3
<1> QED
  BY <1>3, <1>4, <1>5 DEF t

(* What a leak check finds is a suffix of the list, all of it allocated since*)
(* the check point unless that leads astray, and it finds nothing only where *)
(* nothing is left.                                                          *)
LEMMA FoundBlocks ==
  ASSUME NEW n, HeapWell(blocks, n), NEW c \in Points, Marks(c, blocks), NEW found \in AllocatedSince(c)
  PROVE  \E i \in 0..Len(blocks) :
           /\ found = SubSeq(blocks, i + 1, Len(blocks))
           /\ \A m \in DOMAIN blocks : m > i => Dangling(c) \/ blocks[m].by >= c.at
           /\ found = <<>> => Clean(c, blocks)
<1>1. /\ blocks \in Seq(Blocks) /\ Len(blocks) \in Nat /\ DOMAIN blocks = 1..Len(blocks)
      /\ \A j, k \in DOMAIN blocks : j < k => blocks[j].addr # blocks[k].addr /\ blocks[j].by <= blocks[k].by
  BY DEF HeapWell
<1>2. c.at \in Nat /\ \A k \in DOMAIN blocks : blocks[k].by \in Nat
  <2>1. \A k \in DOMAIN blocks : blocks[k] \in Blocks
    BY <1>1
  <2> QED
    BY <2>1, Zenon DEF Points, Blocks
<1>3. CASE Dangling(c)
  <2>1. PICK k \in 1..Len(blocks) + 1 : found = SubSeq(blocks, k, Len(blocks))
    BY <1>3 DEF AllocatedSince
  <2> DEFINE i == k - 1
  <2>2. i \in 0..Len(blocks) /\ i + 1 = k
    BY <1>1, <2>1
  <2>3. Clean(c, blocks)
    <3>1. c.node # ListHead /\ \A m \in DOMAIN blocks : blocks[m].addr # c.node
      BY <1>3 DEF Dangling, Held
    <3> QED
      BY <3>1 DEF Clean
  <2> QED
    BY <1>3, <2>1, <2>2, <2>3
<1>4. CASE ~Dangling(c) /\ c.node = ListHead
  <2>1. found = blocks /\ \A k \in DOMAIN blocks : blocks[k].by >= c.at
    BY <1>4 DEF AllocatedSince, Behind, Marks
  <2>2. SubSeq(blocks, 0 + 1, Len(blocks)) = blocks
    BY <1>1
  <2>3. found = <<>> => Clean(c, blocks)
    BY <2>1 DEF Clean
  <2>4. 0 \in 0..Len(blocks)
    BY <1>1
  <2> QED
    BY <2>1, <2>2, <2>3, <2>4
<1>5. CASE ~Dangling(c) /\ c.node # ListHead
  <2> DEFINE i == Place(c.node)
  <2>1. c.node \in Held /\ found = SubSeq(blocks, i + 1, Len(blocks))
    BY <1>5 DEF AllocatedSince, Behind, Dangling
  <2>2. i \in DOMAIN blocks /\ blocks[i].addr = c.node /\ \A k \in DOMAIN blocks : blocks[k].addr = c.node => k = i
    BY <2>1, WhereBlockIs
  <2> HIDE DEF i
  <2>3. i \in 0..Len(blocks) /\ blocks[i].by \in Nat
    BY <1>1, <1>2, <2>2
  <2>4. ASSUME NEW m \in DOMAIN blocks, m > i PROVE blocks[m].by >= c.at
    <3>0. i < m /\ i \in Nat /\ m \in Nat
      BY <1>1, <2>2, <2>4
    <3>1. CASE blocks[i].by < c.at
      BY <2>2, <3>0, <3>1, Zenon DEF Marks
    <3>2. CASE ~(blocks[i].by < c.at)
      <4>1. blocks[i].by <= blocks[m].by
        BY <1>1, <2>2, <3>0, Zenon
      <4> QED
        BY <1>2, <2>3, <3>2, <4>1
    <3> QED
      BY <3>1, <3>2
  <2>5. ASSUME found = <<>> PROVE Clean(c, blocks)
    <3>1. i = Len(blocks)
      BY <1>1, <2>1, <2>3, <2>5, Suffix
    <3>2. CASE blocks[i].by < c.at
      <4>1. ASSUME NEW k \in DOMAIN blocks PROVE blocks[k].by < c.at
        <5>1. k < i \/ k = i
          BY <1>1, <3>1
        <5>2. k < i => blocks[k].by <= blocks[i].by
          BY <1>1, <2>2, Zenon
        <5> QED
          BY <1>2, <2>3, <3>2, <5>1, <5>2
      <4> QED
        BY <4>1 DEF Clean
    <3>3. CASE ~(blocks[i].by < c.at)
      <4>1. blocks[i].by >= c.at
        BY <1>2, <2>3, <3>3
      <4>2. \A k \in DOMAIN blocks : blocks[k].addr = c.node => blocks[k].by >= c.at
        BY <2>2, <4>1, Zenon
      <4> QED
        BY <1>5, <4>2 DEF Clean
    <3> QED
      BY <3>2, <3>3
  <2> QED
    BY <2>1, <2>3, <2>4, <2>5
<1> QED
  BY <1>3, <1>4, <1>5

LEMMA FoundFreed ==
  ASSUME NEW n, HeapWell(blocks, n), NEW c \in Points, Marks(c, blocks), NEW found \in AllocatedSince(c),
         FreeAllocatedBlocks(found)
  PROVE  /\ Sub(blocks', blocks)
         /\ \A m \in DOMAIN blocks :
              (\E k \in DOMAIN blocks' : blocks'[k] = blocks[m]) \/ Dangling(c) \/ blocks[m].by >= c.at
<1>1. blocks \in Seq(Blocks) /\ Len(blocks) \in Nat /\ DOMAIN blocks = 1..Len(blocks)
  BY DEF HeapWell
<1>2. PICK i \in 0..Len(blocks) :
        /\ found = SubSeq(blocks, i + 1, Len(blocks))
        /\ \A m \in DOMAIN blocks : m > i => Dangling(c) \/ blocks[m].by >= c.at
  BY FoundBlocks
<1>3. Len(found) = Len(blocks) - i
  BY <1>1, <1>2, Suffix
<1>4. PICK r \in 0..Len(found) : blocks' = Without(Len(blocks) - Len(found) + 1, r)
  BY DEF FreeAllocatedBlocks
<1>5. Len(blocks) - Len(found) + 1 = i + 1
  BY <1>1, <1>3
<1>6. i + 1 \in 1..Len(blocks) + 1 /\ r \in 0..Len(blocks) - (i + 1) + 1 /\ r \in Nat /\ i \in Nat
  BY <1>1, <1>3, <1>4
<1>7. blocks' = SubSeq(blocks, 1, (i + 1) - 1) \o SubSeq(blocks, (i + 1) + r, Len(blocks))
  BY <1>4, <1>5 DEF Without
<1>8. Sub(blocks', blocks)
  BY <1>1, <1>6, <1>7, CutIsSub
<1>9. /\ blocks' \in Seq(Blocks) /\ Len(blocks') = Len(blocks) - r
      /\ \A k \in 1..Len(blocks') : k < i + 1 => blocks'[k] = blocks[k]
  BY <1>1, <1>6, <1>7, Cut
<1>10. ASSUME NEW m \in DOMAIN blocks, ~(Dangling(c) \/ blocks[m].by >= c.at)
       PROVE  \E k \in DOMAIN blocks' : blocks'[k] = blocks[m]
  <2>1. ~(m > i)
    BY <1>2, <1>10
  <2>2. m \in 1..Len(blocks') /\ m < i + 1 /\ DOMAIN blocks' = 1..Len(blocks')
    BY <1>1, <1>6, <1>9, <2>1
  <2> QED
    BY <1>9, <2>2
<1> QED
  BY <1>8, <1>10

-----------------------------------------------------------------------------
(* What a step of a function does to the list of blocks, and to itself       *)

Grown ==
  \E t \in Seq(Blocks), a \in Addresses :
    /\ Sub(t, blocks) /\ \A k \in DOMAIN t : t[k].addr # a
    /\ blocks' = Append(t, [addr |-> a, by |-> nth])
Touched == Sub(blocks', blocks) \/ Grown

FunctionLeaves ==
  /\ why' # "" /\ rc' = -1 /\ at' \in {"idle", "aborted"}
  /\ skip' = skip \/ (why' = "skip" /\ skip' = IF legacy THEN "legacy" ELSE kind)
FunctionChecks ==
  /\ at = "checks" /\ at' = "checks" /\ todo # <<>> /\ todo' = Tail(todo)
  /\ Head(todo) = "blocks" => <<>> \in AllocatedSince(cp)
  /\ UNCHANGED <<blocks, why, skip>>

Effect ==
  /\ at \in {"body", "checks"} /\ UNCHANGED <<nth, cp, kind, legacy>>
  /\ \/ at = "body" /\ at' = "body" /\ Touched /\ UNCHANGED <<todo, why, skip>>
     \/ at = "body" /\ FunctionLeaves /\ Touched
     \/ at = "checks" /\ FunctionLeaves /\ Sub(blocks', blocks)
     \/ at = "body" /\ at' = "checks" /\ UNCHANGED <<blocks, todo, why, skip>>
     \/ FunctionChecks
     \/ at = "checks" /\ todo = <<>> /\ at' = "idle" /\ UNCHANGED <<blocks, why, skip>>
     \/ at = "body" /\ at' = "wild" /\ UNCHANGED <<blocks, why, skip>>

LEMMA LeavesAs ==
  ASSUME NEW reason, NEW flag, Leave(reason, flag)
  PROVE  /\ UNCHANGED <<nth, cp, kind, legacy>>
         /\ why' = reason /\ rc' = -1 /\ at' \in {"idle", "aborted"} /\ skip' = flag
  BY DEF Leave

LEMMA FailsAs ==
  ASSUME NEW reason, reason # "", Fail(reason)
  PROVE  UNCHANGED <<nth, cp, kind, legacy>> /\ FunctionLeaves
<1>1. /\ UNCHANGED <<nth, cp, kind, legacy>>
      /\ why' = reason /\ rc' = -1 /\ at' \in {"idle", "aborted"} /\ skip' = skip
  BY LeavesAs DEF Fail
<1> QED
  BY <1>1 DEF FunctionLeaves

LEMMA GoesAs ==
  ASSUME Goes
  PROVE  UNCHANGED <<nth, cp, kind, legacy, at, todo, why, skip>>
  BY DEF Goes

LEMMA FunctionEffect ==
  ASSUME HeapWell(blocks, nth), nth \in Nat, Good(cp), FunctionStep
  PROVE  Effect
<1> DEFINE Same4 == UNCHANGED <<nth, cp, kind, legacy>>
<1>a. blocks \in Seq(Blocks)
  BY DEF HeapWell
<1>b. blocks' = blocks => Sub(blocks', blocks) /\ Touched
  BY <1>a, SubSame DEF Touched
<1>c. UNCHANGED heap => blocks' = blocks
  BY DEF heap
<1>d. ASSUME at = "body", Goes, Touched PROVE Effect
  BY <1>d, GoesAs DEF Effect
<1>e. ASSUME at = "body", NEW reason, reason # "", Fail(reason), Touched PROVE Effect
  BY <1>e, FailsAs DEF Effect
<1>f. ASSUME at = "checks", NEW reason, reason # "", Fail(reason), Sub(blocks', blocks) PROVE Effect
  BY <1>f, FailsAs DEF Effect
<1>g. ASSUME NEW what, Step(what) PROVE at = "body"
  BY <1>g DEF Step
<1>h. GoesOn => Goes
  BY DEF GoesOn
<1>i. \A reason : Fails(reason) => Fail(reason) /\ UNCHANGED heap
  BY DEF Fails
<1>j. \A r \in {"no value", "check", "exception", "call", "no memory", "guard", "assert", "fail", "mock assert",
                "leak", "leftover"} : r # ""
  OBVIOUS
<1>k. "no value" # "" /\ "check" # "" /\ "exception" # "" /\ "call" # "" /\ "no memory" # "" /\ "guard" # ""
      /\ "assert" # "" /\ "fail" # "" /\ "mock assert" # "" /\ "leak" # "" /\ "leftover" # ""
      /\ "no assert" # "" /\ "skip" # ""
  OBVIOUS
<1>1. CASE DeclareValue \/ DeclareCall
  BY <1>1, <1>b, <1>c, <1>d, <1>g, <1>h, Zenon DEF DeclareValue, DeclareCall
<1>2. CASE Malloc
  <2>1. at = "body" /\ ((GoesOn /\ \E a \in Addresses : TestMalloc(a, nth)) \/ Fails("no memory"))
    BY <1>2, <1>g, Zenon DEF Malloc
  <2>2. ASSUME NEW a \in Addresses, TestMalloc(a, nth) PROVE Touched
    <3>1. a \notin Held /\ blocks' = Append(blocks, [addr |-> a, by |-> nth])
      BY <2>2 DEF TestMalloc
    <3>2. \A k \in DOMAIN blocks : blocks[k].addr # a
      BY <3>1 DEF Held
    <3> QED
      BY <1>a, <3>1, <3>2, SubSame DEF Touched, Grown
  <2>3. CASE GoesOn /\ \E a \in Addresses : TestMalloc(a, nth)
    BY <2>1, <2>2, <2>3, <1>d, <1>h, Zenon
  <2>4. CASE Fails("no memory")
    BY <2>1, <2>4, <1>b, <1>c, <1>e, <1>i, <1>k, Zenon
  <2> QED
    BY <2>1, <2>3, <2>4
<1>3. CASE AssertThat
  <2>1. at = "body" /\ UNCHANGED heap /\ (Goes \/ Fail("assert"))
    BY <1>3, <1>g, Zenon DEF AssertThat
  <2> QED
    BY <2>1, <1>b, <1>c, <1>d, <1>e, <1>k, Zenon
<1>4. CASE GiveUp
  <2>1. at = "body"
    BY <1>4, <1>g, Zenon DEF GiveUp
  <2>2. CASE \E reason \in {"fail", "exception"} : Fails(reason)
    BY <2>1, <2>2, <1>b, <1>c, <1>e, <1>i, <1>j
  <2>3. CASE Leave("skip", IF legacy THEN "legacy" ELSE kind) /\ UNCHANGED heap
    <3>1. /\ UNCHANGED <<nth, cp, kind, legacy>>
          /\ why' = "skip" /\ rc' = -1 /\ at' \in {"idle", "aborted"}
          /\ skip' = IF legacy THEN "legacy" ELSE kind
      BY <2>3, LeavesAs
    <3>2. FunctionLeaves
      BY <3>1 DEF FunctionLeaves
    <3> QED
      BY <2>1, <2>3, <3>1, <3>2, <1>b, <1>c DEF Effect
  <2> QED
    BY <1>4, <2>2, <2>3 DEF GiveUp
<1>5. ASSUME NEW s, Mock(s) PROVE Effect
  <2>1. at = "body" /\ ((Goes /\ UNCHANGED heap) \/ Fails("no value"))
    BY <1>5, <1>g, <1>h, Zenon DEF Mock
  <2> QED
    BY <2>1, <1>b, <1>c, <1>d, <1>e, <1>i, <1>k, Zenon
<1>6. ASSUME NEW p, CheckExpected(p) PROVE Effect
  <2>1. at = "body" /\ ((Goes /\ UNCHANGED heap) \/ Fails("check") \/ Fails("no value"))
    <3>1. at = "body" /\ ((Goes /\ UNCHANGED heap) \/ Fails(IF queues[p] # <<>> THEN "check" ELSE "no value"))
      BY <1>6, <1>g, <1>h, Zenon DEF CheckExpected
    <3>2. queues[p] # <<>> \/ ~(queues[p] # <<>>)
      OBVIOUS
    <3> QED
      BY <3>1, <3>2, Zenon
  <2> QED
    BY <2>1, <1>b, <1>c, <1>d, <1>e, <1>i, <1>k, Zenon
<1>7. ASSUME NEW f, FunctionCalled(f) PROVE Effect
  <2>1. at = "body" /\ ((Goes /\ UNCHANGED heap) \/ Fails("exception") \/ Fails("call"))
    <3>1. at = "body" /\ ((Goes /\ UNCHANGED heap) \/ Fails(IF CallCrashes(f) THEN "exception" ELSE "call"))
      BY <1>7, <1>g, <1>h, Zenon DEF FunctionCalled
    <3> QED
      BY <3>1, Zenon
  <2> QED
    BY <2>1, <1>b, <1>c, <1>d, <1>e, <1>i, <1>k, Zenon
<1>8. ASSUME NEW a \in Addresses, Free(a) PROVE Effect
  <2>1. at = "body" /\ a \in Held /\ ((Goes /\ TestFree(a)) \/ Fails("guard"))
    BY <1>8, <1>g, <1>h, Zenon DEF Free
  <2>2. TestFree(a) => Touched
    BY <2>1, FreedOne DEF TestFree, Touched
  <2> QED
    BY <2>1, <2>2, <1>b, <1>c, <1>d, <1>e, <1>i, <1>k, Zenon
<1>9. ASSUME NEW a \in Addresses, Realloc(a) PROVE Effect
  <2>1. /\ at = "body" /\ a \in Held
        /\ \/ Fail("guard") /\ \E b \in Addresses : TestMalloc(b, nth)
           \/ Goes /\ \E b \in Addresses : TestRealloc(a, b, nth)
    BY <1>9, <1>g, <1>h, Zenon DEF Realloc
  <2>2. ASSUME NEW b \in Addresses, TestMalloc(b, nth) PROVE Touched
    <3>1. b \notin Held /\ blocks' = Append(blocks, [addr |-> b, by |-> nth])
      BY <2>2 DEF TestMalloc
    <3>2. \A k \in DOMAIN blocks : blocks[k].addr # b
      BY <3>1 DEF Held
    <3> QED
      BY <1>a, <3>1, <3>2, SubSame DEF Touched, Grown
  <2>3. ASSUME NEW b \in Addresses, TestRealloc(a, b, nth) PROVE Touched
    <3> DEFINE t == Without(Place(a), 1)
    <3>1. b \notin Held /\ blocks' = Append(t, [addr |-> b, by |-> nth])
      BY <2>3 DEF TestRealloc
    <3>2. Sub(t, blocks)
      BY <2>1, FreedOne
    <3> HIDE DEF t
    <3>3. \A k \in DOMAIN t : t[k].addr # b
      BY <3>1, <3>2 DEF Sub, Held
    <3>4. t \in Seq(Blocks)
      BY <3>2 DEF Sub
    <3> QED
      BY <3>1, <3>2, <3>3, <3>4 DEF Touched, Grown
  <2> QED
    BY <2>1, <2>2, <2>3, <1>d, <1>e, <1>k, Zenon
<1>10. ASSUME NEW a, Corrupt(a) PROVE Effect
  <2>1. at = "body" /\ Goes /\ blocks' = blocks
    BY <1>10, <1>g, <1>h, Zenon DEF Corrupt, Overrun
  <2> QED
    BY <2>1, <1>b, <1>d, Zenon
<1>11. CASE ExpectAssertFailure
  <2>1. at = "body" /\ Goes /\ UNCHANGED heap
    BY <1>11, <1>g, Zenon DEF ExpectAssertFailure
  <2> QED
    BY <2>1, <1>b, <1>c, <1>d, Zenon
<1>12. CASE MockAssert
  <2>1. at = "body"
    BY <1>12, <1>g, Zenon DEF MockAssert
  <2>2. CASE expecting /\ inside
    <3>1. Goes /\ UNCHANGED heap
      BY <1>12, <2>2 DEF MockAssert
    <3> QED
      BY <2>1, <3>1, <1>b, <1>c, <1>d, Zenon
  <2>3. CASE expecting /\ ~inside
    <3>1. at' = "wild" /\ UNCHANGED <<nth, cp, kind, legacy, why, skip, heap>>
      BY <1>12, <2>3 DEF MockAssert
    <3> QED
      BY <2>1, <3>1, <1>c DEF Effect
  <2>4. CASE ~expecting
    <3>1. Fails("mock assert")
      BY <1>12, <2>4 DEF MockAssert
    <3> QED
      BY <2>1, <3>1, <1>b, <1>c, <1>e, <1>i, <1>k, Zenon
  <2> QED
    BY <2>2, <2>3, <2>4, Zenon
<1>13. CASE AssertMissed
  <2>1. at = "body" /\ Leave("no assert", skip) /\ UNCHANGED heap
    BY <1>13 DEF AssertMissed
  <2>2. UNCHANGED <<nth, cp, kind, legacy>> /\ FunctionLeaves
    <3>1. /\ UNCHANGED <<nth, cp, kind, legacy>>
          /\ why' = "no assert" /\ rc' = -1 /\ at' \in {"idle", "aborted"} /\ skip' = skip
      BY <2>1, LeavesAs
    <3> QED
      BY <3>1, <1>k DEF FunctionLeaves
  <2> QED
    BY <2>1, <2>2, <1>b, <1>c DEF Effect
<1>14. CASE Return
  BY <1>14, <1>c DEF Return, Effect
<1>15. CASE FunctionPasses
  BY <1>15, <1>c DEF FunctionPasses, Effect
<1>16. CASE CheckBlocks
  <2>1. at = "checks" /\ todo # <<>>
    BY <1>16 DEF CheckBlocks
  <2>2. \/ CheckPassed /\ <<>> \in AllocatedSince(cp)
        \/ Fail("leak") /\ \E found \in AllocatedSince(cp) : FreeAllocatedBlocks(found)
        \/ Fail("exception") /\ UNCHANGED heap
    BY <1>16, Zenon DEF CheckBlocks, Fails
  <2>3. CASE CheckPassed /\ <<>> \in AllocatedSince(cp)
    <3>1. UNCHANGED <<at, legacy, kind, cp, nth, why, skip, heap>> /\ todo' = Tail(todo)
      BY <2>3 DEF CheckPassed
    <3> QED
      BY <2>1, <2>3, <3>1, <1>c DEF Effect, FunctionChecks
  <2>4. CASE Fail("leak") /\ \E found \in AllocatedSince(cp) : FreeAllocatedBlocks(found)
    <3>1. Sub(blocks', blocks)
      BY <2>4, FoundFreed DEF Good, GoodPoint
    <3> QED
      BY <2>1, <2>4, <3>1, <1>f, <1>k, Zenon
  <2> QED
    BY <2>1, <2>2, <2>3, <2>4, <1>b, <1>c, <1>f, <1>k, Zenon
<1>17. CASE CheckValues
  <2>1. at = "checks" /\ todo # <<>> /\ Head(todo) = "values"
    BY <1>17 DEF CheckValues
  <2>2. CheckPassed \/ Fails("leftover")
    BY <1>17, Zenon DEF CheckValues
  <2>3. CASE CheckPassed
    <3>1. UNCHANGED <<at, legacy, kind, cp, nth, why, skip, heap>> /\ todo' = Tail(todo)
      BY <2>3 DEF CheckPassed
    <3> QED
      BY <2>1, <3>1, <1>c DEF Effect, FunctionChecks
  <2> QED
    BY <2>1, <2>2, <2>3, <1>b, <1>c, <1>f, <1>i, <1>k, Zenon
<1> QED
  BY <1>1, <1>2, <1>3, <1>4, <1>5, <1>6, <1>7, <1>8, <1>9, <1>10, <1>11, <1>12, <1>13, <1>14, <1>15, <1>16, <1>17
  DEF FunctionStep

-----------------------------------------------------------------------------
(* Functions keep to it                                                      *)

(* What was good for the blocks there were is so for those there are then.   *)
LEMMA TouchKeeps ==
  ASSUME HeapWell(blocks, nth), nth \in Nat, Touched
  PROVE  /\ HeapWell(blocks', nth)
         /\ \A c \in Points : Marks(c, blocks) /\ c.at <= nth => Marks(c, blocks')
<1>1. CASE Sub(blocks', blocks)
  BY <1>1, SubKeeps
<1>2. CASE Grown
  <2>1. PICK t \in Seq(Blocks), a \in Addresses :
          /\ Sub(t, blocks) /\ \A k \in DOMAIN t : t[k].addr # a
          /\ blocks' = Append(t, [addr |-> a, by |-> nth])
    BY <1>2 DEF Grown
  <2>2. HeapWell(t, nth) /\ \A c \in Points : Marks(c, blocks) => Marks(c, t)
    BY <2>1, SubKeeps
  <2>3. /\ HeapWell(blocks', nth)
        /\ \A c \in Points : Marks(c, t) /\ c.at <= nth => Marks(c, blocks')
    BY <2>1, <2>2, AppendKeeps
  <2> QED
    BY <2>2, <2>3, Zenon
<1> QED
  BY <1>1, <1>2 DEF Touched

LEMMA EffectOnBlocks ==
  ASSUME Effect, blocks \in Seq(Blocks)
  PROVE  Touched /\ Running(at) /\ UNCHANGED <<nth, cp, kind, legacy>>
<1>1. blocks' = blocks => Touched
  BY SubSame DEF Touched
<1> QED
  BY <1>1 DEF Effect, FunctionChecks, Touched, Running

LEMMA PointsOfFunction ==
  ASSUME HeapInv, Touched, Running(at), UNCHANGED <<nth, cp, stage, groupCp, testCp, stack>>
  PROVE  HeapWell(blocks, nth)' /\ PointsInv'
<1>1. HeapWell(blocks, nth) /\ nth \in Nat /\ nth > 0 /\ PointsInv
  BY DEF HeapInv
<1>2. HeapWell(blocks', nth) /\ \A c \in Points : Marks(c, blocks) /\ c.at <= nth => Marks(c, blocks')
  BY <1>1, TouchKeeps
<1>3. ASSUME NEW c, Good(c) PROVE GoodPoint(c, blocks', nth, at')
  <2>1. c \in Points /\ Marks(c, blocks) /\ c.at <= nth + 1 /\ c.at <= nth
    BY <1>3 DEF Good, GoodPoint
  <2> QED
    BY <1>2, <2>1, Zenon DEF GoodPoint
<1>4. \A c : Good(c) => GoodPoint(c, blocks', nth', at')
  BY <1>3
<1>5. PointsInv'
  BY <1>1, <1>4, Zenon DEF PointsInv, Good
<1> QED
  BY <1>2, <1>5

LEMMA TailHas ==
  ASSUME NEW s \in Seq({"blocks", "values"}), s # <<>>, NEW check, Head(s) # check,
         \E k \in DOMAIN s : s[k] = check
  PROVE  \E k \in DOMAIN Tail(s) : Tail(s)[k] = check
<1>1. PICK k \in DOMAIN s : s[k] = check
  OBVIOUS
<1>2. k # 1 /\ k - 1 \in DOMAIN Tail(s) /\ Tail(s)[k - 1] = s[k]
  BY <1>1
<1> QED
  BY <1>1, <1>2

LEMMA LeaksOfFunction ==
  ASSUME HeapInv, Effect, UNCHANGED <<stage, groupCp>>, stage \notin {"open", "done"}
  PROVE  LeakInv'
<1>a. /\ HeapWell(blocks, nth) /\ nth \in Nat /\ nth > 0 /\ Good(cp) /\ Running(at)
      /\ todo \in Seq({"blocks", "values"}) /\ UNCHANGED <<nth, cp, kind>>
  BY EffectOnBlocks DEF HeapInv, PointsInv, LeakInv, Effect, Running
<1>b. kind # "setup" =>
        /\ at = "body" => "blocks" \in { todo[k] : k \in DOMAIN todo }
        /\ at = "checks" => (\E k \in DOMAIN todo : todo[k] = "blocks") \/ Clean(cp, blocks)
  BY <1>a, Zenon DEF HeapInv, LeakInv
<1>1. CASE at = "body" /\ at' = "body" /\ UNCHANGED todo
  BY <1>a, <1>b, <1>1 DEF LeakInv, Running
<1>2. CASE FunctionLeaves
  BY <1>a, <1>2 DEF LeakInv, Running, FunctionLeaves
<1>3. CASE at = "body" /\ at' = "checks" /\ UNCHANGED todo
  BY <1>a, <1>b, <1>3 DEF LeakInv, Running
<1>4. CASE FunctionChecks
  <2>1. todo' \in Seq({"blocks", "values"})
    BY <1>4, <1>a DEF FunctionChecks
  <2>2. ASSUME kind # "setup"
        PROVE  (\E k \in DOMAIN todo' : todo'[k] = "blocks") \/ Clean(cp, blocks)
    <3>1. CASE Head(todo) = "blocks"
      <4>1. <<>> \in AllocatedSince(cp)
        BY <1>4, <3>1 DEF FunctionChecks
      <4> QED
        BY <1>a, <4>1, FoundBlocks DEF Good, GoodPoint
    <3>2. CASE Head(todo) # "blocks"
      <4>1. todo # <<>> /\ todo' = Tail(todo) /\ at = "checks"
        BY <1>4 DEF FunctionChecks
      <4> QED
        BY <1>a, <1>b, <2>2, <3>2, <4>1, TailHas
    <3> QED
      BY <3>1, <3>2
  <2>3. at' = "checks" /\ blocks' = blocks
    BY <1>4 DEF FunctionChecks
  <2> QED
    BY <1>a, <2>1, <2>2, <2>3 DEF LeakInv, Running
<1>5. CASE at = "checks" /\ todo = <<>> /\ at' = "idle" /\ blocks' = blocks
  <2>1. kind # "setup" => Clean(cp, blocks)
    BY <1>b, <1>5
  <2> QED
    BY <1>a, <1>5, <2>1 DEF LeakInv, Running
<1>6. CASE at' = "wild"
  BY <1>a, <1>6 DEF LeakInv, Running
<1> QED
  BY <1>1, <1>2, <1>3, <1>4, <1>5, <1>6 DEF Effect

LEMMA SkipOfFunction ==
  ASSUME SkipInv, Effect, stage' = stage
  PROVE  SkipInv'
<1>1. Running(at) /\ UNCHANGED <<kind, legacy>> /\ skip # "test" /\ (stage = "test" <=> ~legacy /\ kind = "test")
  BY DEF Effect, Running, SkipInv
<1>2. skip' = skip \/ (FunctionLeaves /\ why' = "skip" /\ skip' = IF legacy THEN "legacy" ELSE kind)
  BY DEF Effect, FunctionLeaves, FunctionChecks
<1>3. CASE skip' = skip
  BY <1>1, <1>3 DEF SkipInv
<1>4. CASE FunctionLeaves /\ why' = "skip" /\ skip' = IF legacy THEN "legacy" ELSE kind
  <2>1. rc' = -1 /\ ~Running(at')
    BY <1>4 DEF FunctionLeaves, Running
  <2>2. rc' # 0
    BY <2>1
  <2>3. skip' = "test" => stage = "test"
    BY <1>1, <1>4
  <2> QED
    BY <1>1, <1>4, <2>1, <2>2, <2>3, Zenon DEF SkipInv
<1> QED
  BY <1>2, <1>3, <1>4

LEMMA FunctionKeepsHeap ==
  ASSUME HeapInv, SkipInv, MessageInv, FunctionOnly
  PROVE  HeapInv' /\ SkipInv'
<1>1. HeapWell(blocks, nth) /\ nth \in Nat /\ (Running(at) => nth > 0)
  BY DEF HeapInv
<1>2. Running(at) /\ FunctionStep
  <2>1. at \in {"body", "checks"}
    BY FunctionSteps DEF FunctionOnly, FunctionGoes
  <2> QED
    BY <2>1 DEF Running, FunctionOnly
<1>3. Good(cp)
  BY <1>1, <1>2 DEF HeapInv, PointsInv
<1>4. Effect
  BY <1>1, <1>2, <1>3, FunctionEffect
<1>5. UNCHANGED <<stage, groupCp, testCp, stack>>
  BY DEF FunctionOnly, place, checkPoints, older
<1>6. Touched /\ UNCHANGED <<nth, cp>>
  BY <1>1, <1>4, EffectOnBlocks DEF HeapWell
<1>7. stage \notin {"open", "done"}
  BY <1>2 DEF MessageInv, Running, FunctionRuns
<1>8. LeakInv'
  BY <1>4, <1>5, <1>7, LeaksOfFunction
<1>9. HeapWell(blocks, nth)' /\ PointsInv'
  BY <1>2, <1>5, <1>6, PointsOfFunction
<1>10. nth' \in Nat /\ (Running(at') => nth' > 0)
  BY <1>1, <1>2, <1>6
<1>11. SkipInv'
  BY <1>4, <1>5, SkipOfFunction
<1> QED
  BY <1>8, <1>9, <1>10, <1>11, Zenon DEF HeapInv

-----------------------------------------------------------------------------
(* The runners keep to it                                                    *)

(* What may become a check point before the next function runs               *)
OldPoint(c) == c \in Points /\ Marks(c, blocks) /\ c.at <= nth + 1

Stays == UNCHANGED <<nth, cp, kind, why>> /\ ~Running(at')
Pauses == Stays /\ skip' = skip /\ blocks' = blocks
Starts == \E old, k, c : Begin(old, k, c) /\ (stage' = "test" <=> ~old /\ k = "test")

LEMMA Pausing ==
  /\ Idle /\ at = "idle" => Pauses
  /\ UNCHANGED <<frame, heap>> /\ at = "idle" => Stays /\ blocks' = blocks
  /\ UNCHANGED <<function, heap>> /\ at = "idle" => Pauses
  /\ Crash \/ ExitProgram => Stays /\ skip' = skip /\ at' \in {"crashed", "exited", "aborted"}
  /\ \A old, k, c : Begin(old, k, c) => skip' = skip /\ blocks' = blocks
<1>1. UNCHANGED <<frame, heap>> /\ at = "idle" => Stays /\ blocks' = blocks
  BY DEF frame, heap, Stays, Running
<1>2. UNCHANGED <<function, heap>> /\ at = "idle" => Pauses
  BY <1>1 DEF function, Pauses
<1>3. Idle => UNCHANGED <<function, heap>>
  BY DEF Idle
<1>4. Crash \/ ExitProgram => UNCHANGED <<nth, cp, kind, why>> /\ skip' = skip /\ at' \in {"crashed", "exited", "aborted"}
  BY DEF Crash, ExitProgram
<1>5. at' \in {"crashed", "exited", "aborted"} => ~Running(at')
  BY DEF Running
<1>6. \A old, k, c : Begin(old, k, c) => skip' = skip /\ blocks' = blocks
  BY DEF Begin, heap
<1> QED
  BY <1>1, <1>2, <1>3, <1>4, <1>5, <1>6, Zenon DEF Stays

(* A runner starts a function, or it leaves what the function did alone; only*)
(* its own check for blocks frees any.                                       *)
Frees ==
  /\ At("check") /\ ExitProgram /\ Stays /\ skip' = skip /\ UNCHANGED <<stage, groupCp>>
  /\ \E found \in AllocatedSince(groupCp) : FreeAllocatedBlocks(found)

LEMMA RunnerDoes ==
  ASSUME RunnerStep
  PROVE  /\ at = "idle"
         /\ \/ Starts /\ stage # "test" /\ skip' = skip /\ blocks' = blocks
            \/ Pauses /\ stage # "test"
            \/ TestEnds /\ Stays /\ blocks' = blocks
            \/ Frees
<1>1. at = "idle"
  BY RunnerQuiet
<1>a. Idle => Pauses
  BY <1>1, Pausing, Zenon
<1>b. UNCHANGED <<frame, heap>> => Stays /\ blocks' = blocks
  BY <1>1, Pausing, Zenon
<1>c. UNCHANGED <<function, heap>> => Pauses
  BY <1>1, Pausing, Zenon
<1>d. (Crash \/ ExitProgram) /\ blocks' = blocks => Pauses
  BY Pausing, Zenon DEF Pauses
<1>e. ASSUME NEW old, NEW k, NEW c, Begin(old, k, c), stage' = "test" <=> ~old /\ k = "test"
      PROVE  Starts /\ skip' = skip /\ blocks' = blocks
  <2>1. skip' = skip /\ blocks' = blocks
    BY <1>e, Pausing, Zenon
  <2>2. Starts
    BY <1>e DEF Starts
  <2> QED
    BY <2>1, <2>2
<1>f. UNCHANGED heap => blocks' = blocks
  BY DEF heap
<1>g. UNCHANGED <<frame, skip, heap>> => Pauses
  BY <1>b, Zenon DEF Pauses
<1>2. CASE OpenGroup
  <2>1. stage # "test" /\ (Idle \/ (Begin(FALSE, "setup", Own) /\ stage' = "group setup"))
    BY <1>2 DEF OpenGroup, At, Calling
  <2> QED
    BY <2>1, <1>1, <1>a, <1>e
<1>3. CASE OpenGroupFails \/ EntryEnds \/ EntriesEnd \/ FinishGroup
  <2>1. stage # "test" /\ Idle
    BY <1>3 DEF OpenGroupFails, EntryEnds, EntriesEnd, FinishGroup, At
  <2> QED
    BY <2>1, <1>1, <1>a
<1>4. CASE GroupSetupEnds \/ TeardownEnds \/ TestCounted \/ GroupTeardownEnds
  <2>1. stage # "test" /\ UNCHANGED <<frame, skip, heap>>
    BY <1>4 DEF GroupSetupEnds, TeardownEnds, TestCounted, GroupTeardownEnds, At
  <2> QED
    BY <2>1, <1>1, <1>g
<1>5. CASE NextTest
  <2> DEFINE test == group.tests[current]
  <2>1. stage # "test"
    BY <1>5 DEF NextTest, At
  <2>2. CASE ~test.named
    <3>1. Crash /\ UNCHANGED heap
      BY <1>5, <2>2 DEF NextTest
    <3> QED
      BY <2>1, <3>1, <1>1, <1>d, <1>f
  <2>3. CASE test.named
    <3>1. /\ Begin(FALSE, IF test.setup THEN "setup" ELSE "test", Own)
          /\ stage' = IF test.setup THEN "setup" ELSE "test"
      BY <1>5, <2>3 DEF NextTest, Calling
    <3>2. CASE test.setup
      <4>1. Begin(FALSE, "setup", Own) /\ stage' = "setup"
        BY <3>1, <3>2, Zenon
      <4> QED
        BY <2>1, <4>1, <1>1, <1>e
    <3>3. CASE ~test.setup
      <4>1. Begin(FALSE, "test", Own) /\ stage' = "test"
        BY <3>1, <3>3, Zenon
      <4> QED
        BY <2>1, <4>1, <1>1, <1>e
    <3> QED
      BY <3>2, <3>3
  <2> QED
    BY <2>2, <2>3
<1>6. CASE SetupEnds
  <2>1. stage # "test" /\ (UNCHANGED <<frame, skip, heap>> \/ (Begin(FALSE, "test", Own) /\ stage' = "test"))
    BY <1>6 DEF SetupEnds, At, Calling
  <2> QED
    BY <2>1, <1>1, <1>e, <1>g
<1>7. CASE TestEnds
  <2>1. UNCHANGED <<frame, heap>>
    BY <1>7 DEF TestEnds
  <2> QED
    BY <2>1, <1>1, <1>7, <1>b
<1>8. CASE StartTeardown
  <2>1. stage # "test" /\ stage' = "teardown" /\ \E c : Begin(FALSE, "teardown", c)
    BY <1>8, Zenon DEF StartTeardown, At, Calling
  <2> QED
    BY <2>1, <1>1, <1>e
<1>9. CASE CloseGroup
  <2>1. stage # "test" /\ (Idle \/ (Begin(FALSE, "teardown", groupCp) /\ stage' = "group teardown"))
    BY <1>9 DEF CloseGroup, At, Calling
  <2> QED
    BY <2>1, <1>1, <1>a, <1>e
<1>10. CASE OpenTests
  <2>1. stage # "test" /\ ((ExitProgram /\ UNCHANGED heap) \/ UNCHANGED <<function, heap>>)
    BY <1>10, Zenon DEF OpenTests, At
  <2> QED
    BY <2>1, <1>1, <1>c, <1>d, <1>f
<1>11. CASE NextEntry
  <2>1. /\ stage # "test"
        /\ \/ (ExitProgram /\ UNCHANGED heap) \/ UNCHANGED <<function, heap>>
           \/ stage' = "entry runs" /\ \E c : Begin(TRUE, Entry, c)
    BY <1>11, Zenon DEF NextEntry, At
  <2> QED
    BY <2>1, <1>1, <1>c, <1>d, <1>e, <1>f
<1>12. CASE OlderSetup
  <2>1. stage # "test" /\ (Idle \/ (Begin(TRUE, "setup", Own) /\ stage' = "older setup"))
    BY <1>12, Zenon DEF OlderSetup, At, Calling
  <2> QED
    BY <2>1, <1>1, <1>a, <1>e
<1>13. CASE OlderEnds
  <2>1. stage # "test" /\ Idle
    BY <1>13 DEF OlderEnds
  <2> QED
    BY <2>1, <1>1, <1>a
<1>14. CASE OlderNext
  <2>1. /\ stage # "test"
        /\ \/ Idle
           \/ stage' \in {"older test", "older teardown"} /\ \E k, c : Begin(TRUE, k, c)
    BY <1>14, Zenon DEF OlderNext, At, Calling
  <2> QED
    BY <2>1, <1>1, <1>a, <1>e
<1>15. CASE CheckGroupBlocks
  <2>1. At("check") /\ stage # "test" /\ UNCHANGED groupCp
    BY <1>15 DEF CheckGroupBlocks, At, checkPoints
  <2>2. \/ UNCHANGED <<function, heap>> \/ (Crash /\ UNCHANGED heap)
        \/ /\ ExitProgram /\ UNCHANGED stage
           /\ \E found \in AllocatedSince(groupCp) : FreeAllocatedBlocks(found)
    BY <1>15, Zenon DEF CheckGroupBlocks, function, heap, mocks
  <2>3. ExitProgram => Stays /\ skip' = skip
    BY Pausing, Zenon
  <2> QED
    BY <2>1, <2>2, <2>3, <1>1, <1>c, <1>d, <1>f DEF Frees
<1> QED
  BY <1>2, <1>3, <1>4, <1>5, <1>6, <1>7, <1>8, <1>9, <1>10, <1>11, <1>12, <1>13, <1>14, <1>15 DEF RunnerStep

(* A check point that is taken now is good, and nothing has been left yet.   *)
LEMMA OwnIsOld ==
  ASSUME HeapWell(blocks, nth), nth \in Nat
  PROVE  OldPoint(Own) /\ Clean(Own, blocks)
<1>1. /\ blocks \in Seq(Blocks) /\ Len(blocks) \in Nat /\ DOMAIN blocks = 1..Len(blocks)
      /\ \A j, k \in DOMAIN blocks : j < k => blocks[j].addr # blocks[k].addr
      /\ \A k \in DOMAIN blocks : blocks[k].by <= nth /\ blocks[k] \in Blocks
  BY DEF HeapWell
<1>2. Own = [node |-> LastNode, at |-> nth + 1]
  BY DEF Own, CheckPoint
<1>3. \A k \in DOMAIN blocks : blocks[k].by < nth + 1
  <2> SUFFICES ASSUME NEW k \in DOMAIN blocks PROVE blocks[k].by < nth + 1
    OBVIOUS
  <2>1. blocks[k].by \in Nat /\ blocks[k].by <= nth
    BY <1>1 DEF Blocks
  <2> QED
    BY <2>1
<1>4. Clean(Own, blocks)
  BY <1>2, <1>3 DEF Clean
<1>5. CASE blocks = <<>>
  <2>1. LastNode = ListHead /\ DOMAIN blocks = {}
    BY <1>5 DEF LastNode
  <2> QED
    BY <1>2, <1>4, <2>1 DEF OldPoint, Points, Marks
<1>6. CASE blocks # <<>>
  <2> DEFINE n == Len(blocks)
  <2>1. n \in DOMAIN blocks /\ LastNode = blocks[n].addr
    BY <1>1, <1>6 DEF LastNode, Last
  <2>2. LastNode \in Addresses /\ LastNode # ListHead
    BY <1>1, <2>1, AddressAssumption DEF Blocks
  <2>3. ASSUME NEW j \in DOMAIN blocks, NEW k \in DOMAIN blocks, blocks[j].addr = LastNode, j < k
        PROVE  FALSE
    <3>1. j < n
      BY <1>1, <2>1, <2>3
    <3> QED
      BY <1>1, <2>1, <2>3, <3>1
  <2>4. Own.node = LastNode /\ Own \in Points /\ Own.at <= nth + 1
    BY <1>2, <2>2 DEF Points
  <2>5. Marks(Own, blocks)
    BY <2>2, <2>3, <2>4 DEF Marks
  <2> QED
    BY <1>4, <2>4, <2>5 DEF OldPoint
<1> QED
  BY <1>5, <1>6

LEMMA NoNodeIsOld ==
  ASSUME HeapWell(blocks, nth), nth \in Nat, NEW m \in 0..nth + 1
  PROVE  OldPoint([node |-> NoNode, at |-> m])
<1> DEFINE c == [node |-> NoNode, at |-> m]
<1>1. c \in Points /\ c.node = NoNode /\ c.at <= nth + 1 /\ NoNode # ListHead
  BY DEF Points, NoNode, ListHead
<1>2. ASSUME NEW k \in DOMAIN blocks PROVE blocks[k].addr # NoNode
  <2>1. blocks[k] \in Blocks
    BY DEF HeapWell
  <2>2. blocks[k].addr \in Nat
    BY <2>1, AddressAssumption DEF Blocks
  <2> QED
    BY <2>2 DEF NoNode
<1>3. Marks(c, blocks)
  BY <1>1, <1>2 DEF Marks
<1> QED
  BY <1>1, <1>3 DEF OldPoint

OldPoints(c, gc, tc, ss, st, n) ==
  /\ n > 0 => OldPoint(c)
  /\ st \notin {"open", "done"} => OldPoint(gc)
  /\ st \in AtTest \cup (OlderStages \ {"older open"}) => OldPoint(tc)
  /\ ss \in Seq(Points) /\ \A k \in 1..Len(ss) : OldPoint(ss[k])
OldNow == OldPoints(cp, groupCp, testCp, stack, stage, nth)
OldThen == OldPoints(cp', groupCp', testCp', stack', stage', nth')

LEMMA StackFront ==
  ASSUME NEW s \in Seq(Points), s # <<>>, \A k \in 1..Len(s) : OldPoint(s[k])
  PROVE  /\ Front(s) \in Seq(Points) /\ \A k \in 1..Len(Front(s)) : OldPoint(Front(s)[k])
         /\ OldPoint(Last(s))
<1>0. \A n \in Nat : n > 0 /\ ~(1 <= n - 1) => n - 1 = 0
  OBVIOUS
<1>1. Len(s) \in Nat /\ Len(s) > 0 /\ Len(s) \in 1..Len(s)
  OBVIOUS
<1>2. Front(s) = SubSeq(s, 1, Len(s) - 1) /\ Last(s) = s[Len(s)]
  BY DEF Front, Last
<1>3. /\ Front(s) \in Seq(Points) /\ Len(Front(s)) = Len(s) - 1
      /\ \A k \in 1..Len(s) - 1 : Front(s)[k] = s[k]
  <2>1. /\ \A m \in 1..Len(s) - 1 : s[m] \in Points
        /\ 1 \in Int /\ Len(s) - 1 \in Int
    BY <1>1
  <2>2. /\ Front(s) \in Seq(Points)
        /\ Len(Front(s)) = IF 1 <= Len(s) - 1 THEN (Len(s) - 1) - 1 + 1 ELSE 0
        /\ \A m \in 1..(Len(s) - 1) - 1 + 1 : Front(s)[m] = s[1 + m - 1]
    BY <1>2, <2>1, SubSeqProperties
  <2>3. Len(Front(s)) = Len(s) - 1
    <3>1. CASE 1 <= Len(s) - 1
      BY <1>1, <2>2, <3>1
    <3>2. CASE ~(1 <= Len(s) - 1)
      <4>1. Len(Front(s)) = 0
        BY <2>2, <3>2, Zenon
      <4>2. Len(s) - 1 = 0
        BY <1>0, <1>1, <3>2, Zenon
      <4> QED
        BY <4>1, <4>2
    <3> QED
      BY <3>1, <3>2
  <2>4. ASSUME NEW k \in 1..Len(s) - 1 PROVE Front(s)[k] = s[k]
    <3>1. k \in 1..(Len(s) - 1) - 1 + 1 /\ 1 + k - 1 = k
      BY <1>1
    <3> QED
      BY <2>2, <3>1
  <2> QED
    BY <2>2, <2>3, <2>4
<1>4. ASSUME NEW k \in 1..Len(Front(s)) PROVE OldPoint(Front(s)[k])
  <2>1. k \in 1..Len(s) - 1 /\ k \in 1..Len(s)
    BY <1>1, <1>3
  <2> QED
    BY <1>3, <2>1
<1> QED
  BY <1>1, <1>2, <1>3, <1>4

LEMMA StackGrows ==
  ASSUME NEW s \in Seq(Points), NEW c, OldPoint(c), \A k \in 1..Len(s) : OldPoint(s[k])
  PROVE  Append(s, c) \in Seq(Points) /\ \A k \in 1..Len(Append(s, c)) : OldPoint(Append(s, c)[k])
<1>1. c \in Points
  BY DEF OldPoint
<1>2. /\ Append(s, c) \in Seq(Points) /\ Len(Append(s, c)) = Len(s) + 1
      /\ Append(s, c)[Len(s) + 1] = c /\ \A k \in 1..Len(s) : Append(s, c)[k] = s[k]
  BY <1>1
<1>3. ASSUME NEW k \in 1..Len(Append(s, c)) PROVE OldPoint(Append(s, c)[k])
  <2>1. k \in 1..Len(s) \/ k = Len(s) + 1
    BY <1>2
  <2> QED
    BY <1>2, <2>1
<1> QED
  BY <1>2, <1>3

LEMMA RunnerPoints ==
  ASSUME HeapWell(blocks, nth), nth \in Nat, OldNow, RunnerStep
  PROVE  OldThen
<1>1. OldPoint(Own)
  BY OwnIsOld
<1>2. \A m \in 0..nth + 1 : OldPoint([node |-> NoNode, at |-> m])
  BY NoNodeIsOld
<1>3. /\ nth > 0 => OldPoint(cp)
      /\ stage \notin {"open", "done"} => OldPoint(groupCp)
      /\ stage \in AtTest \cup (OlderStages \ {"older open"}) => OldPoint(testCp)
  BY DEF OldNow, OldPoints
<1>4. stack \in Seq(Points) /\ \A k \in 1..Len(stack) : OldPoint(stack[k])
  BY DEF OldNow, OldPoints
<1>5. <<>> \in Seq(Points) /\ \A k \in 1..Len(<<>>) : OldPoint((<<>>)[k])
  OBVIOUS
(* It begins a function, or not.                                             *)
<1>a. \A old, k, c : Begin(old, k, c) => cp' = c
  BY DEF Begin
<1>b. Idle => UNCHANGED <<cp, nth>>
  BY DEF Idle, function, frame
<1>c. UNCHANGED frame => UNCHANGED <<cp, nth>>
  BY DEF frame
<1>d. UNCHANGED function => UNCHANGED <<cp, nth>>
  BY DEF function, frame
<1>e. Crash \/ ExitProgram => UNCHANGED <<cp, nth>>
  BY DEF Crash, ExitProgram
<1>f. UNCHANGED <<cp, nth>> => (nth' > 0 => OldPoint(cp'))
  BY <1>3
<1>6. ASSUME NEW w, At(w) PROVE stage = w
  BY <1>6 DEF At
<1>7. CASE OpenGroup
  <2>1. /\ groupCp' = Own /\ UNCHANGED stack /\ stage' \in {"group setup", "next"}
        /\ (Idle \/ Begin(FALSE, "setup", Own))
    BY <1>7 DEF OpenGroup, Calling, older
  <2>2. nth' > 0 => OldPoint(cp')
    BY <2>1, <1>1, <1>a, <1>b, <1>f, Zenon
  <2> QED
    BY <2>1, <2>2, <1>1, <1>4 DEF OldThen, OldPoints, AtTest, OlderStages
<1>8. CASE OpenGroupFails
  <2>1. UNCHANGED <<groupCp, testCp, stack>> /\ Idle /\ stage' \in {"open", "done"}
    BY <1>8 DEF OpenGroupFails, NextGroup, checkPoints, older
  <2> QED
    BY <2>1, <1>4, <1>b, <1>f DEF OldThen, OldPoints, AtTest, OlderStages
<1>9. CASE GroupSetupEnds \/ GroupTeardownEnds
  <2>1. /\ UNCHANGED <<groupCp, testCp, stack>> /\ UNCHANGED frame /\ stage \notin {"open", "done"}
        /\ stage' \in {"close", "next", "finish"}
    BY <1>9 DEF GroupSetupEnds, GroupTeardownEnds, At, checkPoints, older
  <2> QED
    BY <2>1, <1>3, <1>4, <1>c, <1>f DEF OldThen, OldPoints, AtTest, OlderStages
<1>10. CASE NextTest
  <2>1. /\ UNCHANGED <<groupCp, stack>> /\ stage = "next"
        /\ \/ Crash /\ stage' = "next"
           \/ /\ stage' \in {"setup", "test"} /\ (testCp' = Own \/ testCp' = [node |-> NoNode, at |-> 0])
              /\ \E k : Begin(FALSE, k, Own)
    BY <1>10 DEF NextTest, Calling, At, older
  <2>2. nth' > 0 => OldPoint(cp')
    BY <2>1, <1>1, <1>a, <1>e, <1>f, Zenon
  <2>3. OldPoint([node |-> NoNode, at |-> 0])
    BY <1>2
  <2> QED
    BY <2>1, <2>2, <2>3, <1>1, <1>3, <1>4 DEF OldThen, OldPoints, AtTest, OlderStages
<1>11. CASE SetupEnds
  <2>1. /\ UNCHANGED <<groupCp, testCp, stack>> /\ stage = "setup" /\ stage' \in {"count", "test"}
        /\ (UNCHANGED frame \/ Begin(FALSE, "test", Own))
    BY <1>11 DEF SetupEnds, Calling, At, checkPoints, older
  <2>2. nth' > 0 => OldPoint(cp')
    BY <2>1, <1>1, <1>a, <1>c, <1>f, Zenon
  <2> QED
    BY <2>1, <2>2, <1>3, <1>4 DEF OldThen, OldPoints, AtTest, OlderStages
<1>12. CASE TestEnds \/ TeardownEnds \/ TestCounted
  <2>1. /\ UNCHANGED <<groupCp, testCp, stack>> /\ UNCHANGED frame /\ stage \in {"test", "teardown", "count"}
        /\ stage' \in {"tear", "count", "next"}
    BY <1>12 DEF TestEnds, TeardownEnds, TestCounted, At, checkPoints, older
  <2> QED
    BY <2>1, <1>3, <1>4, <1>c, <1>f DEF OldThen, OldPoints, AtTest, OlderStages
<1>13. CASE StartTeardown
  <2>1. /\ UNCHANGED <<groupCp, testCp, stack>> /\ stage = "tear" /\ stage' = "teardown"
        /\ \E c \in {testCp, Own} : Begin(FALSE, "teardown", c)
    BY <1>13 DEF StartTeardown, Calling, At, checkPoints, older
  <2>2. OldPoint(testCp) /\ OldPoint(groupCp)
    BY <2>1, <1>3 DEF AtTest
  <2>3. nth' > 0 => OldPoint(cp')
    BY <2>1, <2>2, <1>1, <1>a
  <2> QED
    BY <2>1, <2>2, <2>3, <1>4 DEF OldThen, OldPoints, AtTest, OlderStages
<1>14. CASE CloseGroup
  <2>1. /\ UNCHANGED <<groupCp, testCp, stack>> /\ stage \in {"close", "next"}
        /\ stage' \in {"group teardown", "finish"}
        /\ (Idle \/ Begin(FALSE, "teardown", groupCp))
    BY <1>14 DEF CloseGroup, Calling, At, checkPoints, older
  <2>2. OldPoint(groupCp)
    BY <2>1, <1>3
  <2>3. nth' > 0 => OldPoint(cp')
    BY <2>1, <2>2, <1>a, <1>b, <1>f, Zenon
  <2> QED
    BY <2>1, <2>2, <2>3, <1>4 DEF OldThen, OldPoints, AtTest, OlderStages
<1>15. CASE FinishGroup \/ EntryEnds \/ EntriesEnd
  <2>1. /\ UNCHANGED <<groupCp, testCp, stack>> /\ Idle /\ stage \notin {"open", "done"}
        /\ stage' \in {"check", "entry"}
    BY <1>15 DEF FinishGroup, EntryEnds, EntriesEnd, At, checkPoints, older
  <2> QED
    BY <2>1, <1>3, <1>4, <1>b, <1>f DEF OldThen, OldPoints, AtTest, OlderStages
<1>16. CASE OpenTests
  <2>1. /\ groupCp' = Own /\ stack' = <<>> /\ stage' \in {"open", "entry", "older open"}
        /\ (ExitProgram \/ UNCHANGED function)
    BY <1>16 DEF OpenTests, At
  <2>2. nth' > 0 => OldPoint(cp')
    BY <2>1, <1>d, <1>e, <1>f, Zenon
  <2> QED
    BY <2>1, <2>2, <1>1, <1>5 DEF OldThen, OldPoints, AtTest, OlderStages
<1>17. CASE NextEntry
  <2>1. /\ UNCHANGED <<groupCp, testCp>> /\ stage = "entry" /\ stage' \in {"entry", "entry runs"}
    BY <1>17 DEF NextEntry, At, checkPoints
  <2>2. \/ ExitProgram /\ stack' = stack
        \/ UNCHANGED function /\ stack' = stack
        \/ /\ Entry = "teardown" => stack # <<>>
           /\ stack' = CASE Entry = "setup"    -> Append(stack, Own)
                         [] Entry = "teardown" -> Front(stack)
                         [] OTHER              -> stack
           /\ \/ Begin(TRUE, Entry, IF Entry = "teardown" THEN Last(stack) ELSE Own)
              \/ UNCHANGED function
    BY <1>17, Zenon DEF NextEntry
  <2>3. OldPoint(groupCp)
    BY <2>1, <1>3
  <2>4. CASE (ExitProgram \/ UNCHANGED function) /\ stack' = stack
    <3>1. nth' > 0 => OldPoint(cp')
      BY <2>4, <1>d, <1>e, <1>f, Zenon
    <3> QED
      BY <2>1, <2>3, <2>4, <3>1, <1>4 DEF OldThen, OldPoints, AtTest, OlderStages
  <2>5. CASE /\ Entry = "teardown" => stack # <<>>
             /\ stack' = CASE Entry = "setup"    -> Append(stack, Own)
                           [] Entry = "teardown" -> Front(stack)
                           [] OTHER              -> stack
             /\ \/ Begin(TRUE, Entry, IF Entry = "teardown" THEN Last(stack) ELSE Own)
                \/ UNCHANGED function
    <3>1. nth' > 0 => OldPoint(cp')
      <4>1. CASE Entry = "teardown"
        <5>1. OldPoint(Last(stack))
          BY <2>5, <4>1, <1>4, StackFront
        <5> QED
          BY <2>5, <4>1, <5>1, <1>a, <1>d, <1>f, Zenon
      <4>2. CASE Entry # "teardown"
        BY <2>5, <4>2, <1>1, <1>a, <1>d, <1>f, Zenon
      <4> QED
        BY <4>1, <4>2
    <3>2. stack' \in Seq(Points) /\ \A k \in 1..Len(stack') : OldPoint(stack'[k])
      <4>1. CASE Entry = "teardown"
        <5>1. stack' = Front(stack) /\ stack # <<>>
          BY <2>5, <4>1
        <5> QED
          BY <5>1, <1>4, StackFront
      <4>2. CASE Entry = "setup"
        <5>1. stack' = Append(stack, Own)
          BY <2>5, <4>2
        <5> QED
          BY <5>1, <1>1, <1>4, StackGrows
      <4>3. CASE Entry # "teardown" /\ Entry # "setup"
        <5>1. stack' = stack
          BY <2>5, <4>3
        <5> QED
          BY <5>1, <1>4
      <4> QED
        BY <4>1, <4>2, <4>3
    <3> QED
      BY <2>1, <2>3, <3>1, <3>2 DEF OldThen, OldPoints, AtTest, OlderStages
  <2> QED
    BY <2>2, <2>4, <2>5
<1>18. CASE OlderSetup
  <2>1. /\ UNCHANGED <<groupCp, stack>> /\ stage = "older open" /\ stage' \in {"older setup", "older"}
        /\ testCp' \in { Own, [node |-> NoNode, at |-> nth + 1] }
        /\ (Idle \/ Begin(TRUE, "setup", Own))
    BY <1>18 DEF OlderSetup, Calling, At, older
  <2>2. OldPoint(testCp') /\ OldPoint(groupCp)
    <3>1. OldPoint([node |-> NoNode, at |-> nth + 1])
      BY <1>2
    <3> QED
      BY <2>1, <3>1, <1>1, <1>3
  <2>3. nth' > 0 => OldPoint(cp')
    BY <2>1, <1>1, <1>a, <1>b, <1>f, Zenon
  <2> QED
    BY <2>1, <2>2, <2>3, <1>4 DEF OldThen, OldPoints, AtTest, OlderStages
<1>19. CASE OlderEnds
  <2>1. /\ UNCHANGED <<groupCp, testCp, stack>> /\ Idle /\ stage' \in {"check", "older"}
        /\ stage \in {"older setup", "older test", "older teardown"}
    BY <1>19 DEF OlderEnds, checkPoints, older
  <2> QED
    BY <2>1, <1>3, <1>4, <1>b, <1>f DEF OldThen, OldPoints, AtTest, OlderStages
<1>20. CASE OlderNext
  <2>1. /\ UNCHANGED <<groupCp, testCp, stack>> /\ stage = "older"
        /\ stage' \in {"older", "older test", "older teardown", "check"}
    BY <1>20 DEF OlderNext, At, Idle, checkPoints
  <2>2. Idle \/ \E k : \E c \in {testCp, Own} : Begin(TRUE, k, c)
    BY <1>20 DEF OlderNext, Calling
  <2>3. OldPoint(testCp) /\ OldPoint(groupCp)
    BY <2>1, <1>3 DEF OlderStages
  <2>4. nth' > 0 => OldPoint(cp')
    BY <2>2, <2>3, <1>1, <1>a, <1>b, <1>f
  <2> QED
    BY <2>1, <2>3, <2>4, <1>4 DEF OldThen, OldPoints, AtTest, OlderStages
<1>21. CASE CheckGroupBlocks
  <2>1. /\ UNCHANGED <<groupCp, testCp, stack>> /\ stage = "check" /\ stage' \in {"open", "done", "check"}
        /\ (UNCHANGED function \/ ExitProgram \/ Crash)
    BY <1>21 DEF CheckGroupBlocks, At, NextGroup, checkPoints, older
  <2>2. nth' > 0 => OldPoint(cp')
    BY <2>1, <1>d, <1>e, <1>f, Zenon
  <2> QED
    BY <2>1, <2>2, <1>3, <1>4 DEF OldThen, OldPoints, AtTest, OlderStages
<1> QED
  BY <1>7, <1>8, <1>9, <1>10, <1>11, <1>12, <1>13, <1>14, <1>15, <1>16, <1>17, <1>18, <1>19, <1>20, <1>21 DEF RunnerStep

LEMMA PointsAreOld ==
  ASSUME PointsInv
  PROVE  OldNow
<1>1. \A c : Good(c) => OldPoint(c)
  BY DEF Good, GoodPoint, OldPoint
<1> QED
  BY <1>1, Zenon DEF PointsInv, OldNow, OldPoints

(* A block is freed, or none, and perhaps a function starts.                 *)
LEMMA OldIsGood ==
  ASSUME HeapWell(blocks, nth), nth \in Nat, OldThen, Sub(blocks', blocks),
         nth' = nth + 1 \/ (nth' = nth /\ ~Running(at'))
  PROVE  HeapWell(blocks, nth)' /\ PointsInv'
<1>1. HeapWell(blocks', nth) /\ \A c \in Points : Marks(c, blocks) => Marks(c, blocks')
  BY SubKeeps
<1>2. nth' \in Nat /\ nth <= nth'
  OBVIOUS
<1>3. HeapWell(blocks', nth')
  <2>1. ASSUME NEW k \in DOMAIN blocks' PROVE blocks'[k].by <= nth'
    <3>1. blocks'[k] \in Blocks /\ blocks'[k].by <= nth
      BY <1>1 DEF HeapWell
    <3> QED
      BY <1>2, <3>1 DEF Blocks
  <2> QED
    BY <1>1, <2>1 DEF HeapWell
<1>4. ASSUME NEW c, OldPoint(c) PROVE GoodPoint(c, blocks', nth', at')
  <2>1. c \in Points /\ Marks(c, blocks) /\ c.at <= nth + 1 /\ c.at \in Nat
    BY <1>4 DEF OldPoint, Points
  <2>2. c.at <= nth' + 1 /\ (Running(at') => c.at <= nth')
    BY <1>2, <2>1
  <2> QED
    BY <1>1, <2>1, <2>2 DEF GoodPoint
<1>5. PointsInv'
  BY <1>4, Zenon DEF OldThen, OldPoints, PointsInv, Good
<1> QED
  BY <1>3, <1>5

LEMMA ChecksKnown ==
  ASSUME NEW later, NEW k
  PROVE  /\ ChecksOf(later, k) \in Seq({"blocks", "values"})
         /\ \E n \in DOMAIN ChecksOf(later, k) : ChecksOf(later, k)[n] = "values"
         /\ k # "setup" => "blocks" \in { ChecksOf(later, k)[n] : n \in DOMAIN ChecksOf(later, k) }
<1>1. CASE k = "setup"
  BY <1>1 DEF ChecksOf
<1>2. CASE k # "setup" /\ later
  BY <1>2 DEF ChecksOf
<1>3. CASE k # "setup" /\ ~later
  BY <1>3 DEF ChecksOf
<1> QED
  BY <1>1, <1>2, <1>3

(* Whether the group leaves a block                                          *)
LEMMA GroupLeavesNone ==
  ASSUME HeapInv, RunnerStep, stage' \in {"open", "done"}
  PROVE  groupCp' \in Points /\ Clean(groupCp', blocks)
<1>1. HeapWell(blocks, nth) /\ nth \in Nat
  BY DEF HeapInv
<1>2. stage \in {"open", "done"} => groupCp \in Points /\ Clean(groupCp, blocks)
  BY DEF HeapInv, LeakInv
<1>3. CASE OpenTests
  <2>1. groupCp' = Own
    BY <1>3 DEF OpenTests
  <2> QED
    BY <1>1, <2>1, OwnIsOld DEF OldPoint
<1>4. CASE OpenGroupFails
  <2>1. groupCp' = groupCp /\ stage = "open"
    BY <1>4 DEF OpenGroupFails, At, checkPoints
  <2> QED
    BY <1>2, <2>1
<1>5. CASE CheckGroupBlocks
  <2>1. stage = "check" /\ groupCp' = groupCp
    BY <1>5 DEF CheckGroupBlocks, At, checkPoints
  <2>2. <<>> \in AllocatedSince(groupCp)
    BY <1>5, <2>1 DEF CheckGroupBlocks
  <2>3. Good(groupCp)
    BY <2>1 DEF HeapInv, PointsInv
  <2> QED
    BY <1>1, <2>1, <2>2, <2>3, FoundBlocks DEF Good, GoodPoint
<1>6. CASE OpenGroup \/ GroupSetupEnds \/ NextTest \/ SetupEnds \/ TestEnds \/ StartTeardown \/ TeardownEnds
           \/ TestCounted \/ CloseGroup \/ GroupTeardownEnds
  BY <1>6, Zenon DEF At, OpenGroup, GroupSetupEnds, NextTest, SetupEnds, TestEnds, StartTeardown, TeardownEnds,
     TestCounted, CloseGroup, GroupTeardownEnds
<1>7. CASE FinishGroup \/ NextEntry \/ EntryEnds \/ EntriesEnd \/ OlderSetup \/ OlderEnds \/ OlderNext
  BY <1>7, Zenon DEF At, FinishGroup, NextEntry, EntryEnds, EntriesEnd, OlderSetup, OlderEnds, OlderNext
<1> QED
  BY <1>3, <1>4, <1>5, <1>6, <1>7 DEF RunnerStep

LEMMA LeaksOfRunner ==
  ASSUME HeapInv, RunnerStep, Sub(blocks', blocks)
  PROVE  LeakInv'
<1>1. /\ HeapWell(blocks, nth) /\ nth \in Nat /\ LeakInv
      /\ \A c \in Points : Clean(c, blocks) => Clean(c, blocks')
  BY SubKeeps DEF HeapInv
<1>2. OldNow /\ OldThen
  BY <1>1, PointsAreOld, RunnerPoints DEF HeapInv
<1>3. ASSUME stage' \in {"open", "done"} PROVE groupCp' \in Points /\ Clean(groupCp', blocks')
  <2>1. groupCp' \in Points /\ Clean(groupCp', blocks)
    BY <1>3, GroupLeavesNone
  <2>2. blocks' = blocks
    <3>1. (Starts /\ blocks' = blocks) \/ Pauses \/ (TestEnds /\ blocks' = blocks) \/ Frees
      BY RunnerDoes
    <3>2. Pauses => blocks' = blocks
      BY DEF Pauses
    <3>3. ~Frees
      BY <1>3 DEF Frees, At
    <3> QED
      BY <3>1, <3>2, <3>3
  <2> QED
    BY <2>1, <2>2
<1>4. CASE Starts
  <2>1. PICK old, k, c : Begin(old, k, c)
    BY <1>4 DEF Starts
  <2>2. at' = "body" /\ kind' = k /\ todo' = ChecksOf(old, k)
    BY <2>1 DEF Begin
  <2> QED
    BY <1>3, <2>2, ChecksKnown DEF LeakInv, Running
<1>5. CASE Stays /\ blocks' = blocks
  <2>1. ~Running(at') /\ UNCHANGED <<nth, cp, kind, why>>
    BY <1>5 DEF Stays
  <2>2. at = "idle"
    BY RunnerDoes
  <2> QED
    BY <1>1, <1>3, <1>5, <2>1, <2>2 DEF LeakInv, Running
<1>6. CASE Frees
  <2>1. at' \in {"exited", "aborted", "crashed"}
    BY <1>6, Pausing DEF Frees
  <2> QED
    BY <1>3, <2>1 DEF LeakInv, Running
<1> QED
  BY <1>4, <1>5, <1>6, RunnerDoes DEF Pauses

LEMMA RunnerKeepsHeap ==
  ASSUME HeapInv, RunnerStep
  PROVE  HeapInv'
<1>1. HeapWell(blocks, nth) /\ nth \in Nat /\ PointsInv /\ blocks \in Seq(Blocks)
  BY DEF HeapInv, HeapWell
<1>2. OldThen
  BY <1>1, PointsAreOld, RunnerPoints
<1>3. nth' = nth + 1 \/ (nth' = nth /\ ~Running(at'))
  BY RunnerDoes DEF Starts, Begin, Pauses, Frees, Stays
<1>4. Sub(blocks', blocks)
  <2>1. CASE Frees
    <3>1. Good(groupCp)
      BY <1>1, <2>1 DEF Frees, At, PointsInv
    <3> QED
      BY <1>1, <2>1, <3>1, FoundFreed DEF Frees, Good, GoodPoint
  <2>2. CASE blocks' = blocks
    BY <1>1, <2>2, SubSame
  <2> QED
    BY <2>1, <2>2, RunnerDoes DEF Pauses
<1>5. HeapWell(blocks, nth)' /\ PointsInv'
  BY <1>1, <1>2, <1>3, <1>4, OldIsGood
<1>6. LeakInv'
  BY <1>4, LeaksOfRunner
<1>7. nth' \in Nat /\ (Running(at') => nth' > 0)
  BY <1>1, <1>3
<1> QED
  BY <1>5, <1>6, <1>7, Zenon DEF HeapInv

LEMMA RunnerKeepsSkip ==
  ASSUME SkipInv, RunnerStep
  PROVE  SkipInv'
<1>1. skip' # "test"
  <2>1. CASE stage # "test" /\ skip' = skip
    BY <2>1 DEF SkipInv
  <2>2. CASE Frees
    BY <2>2 DEF Frees, At, SkipInv
  <2>3. CASE TestEnds
    <3>1. \E result : skip' = FlagAfter(result) /\
                      result = IF ~Failed THEN "passed" ELSE IF skip # "" THEN "skipped" ELSE "failed"
      BY <2>3 DEF TestEnds
    <3>2. CASE skip = "test"
      <4>1. Failed
        BY <3>2 DEF SkipInv, Failed
      <4>2. skip' = ""
        BY <3>1, <3>2, <4>1 DEF FlagAfter
      <4> QED
        BY <4>2
    <3>3. CASE skip # "test"
      BY <3>1, <3>3 DEF FlagAfter
    <3> QED
      BY <3>2, <3>3
  <2> QED
    BY <2>1, <2>2, <2>3, RunnerDoes DEF Pauses
<1>2. Running(at') => (stage' = "test" <=> ~legacy' /\ kind' = "test")
  <2>1. CASE Starts
    <3>1. PICK old, k, c : Begin(old, k, c) /\ (stage' = "test" <=> ~old /\ k = "test")
      BY <2>1 DEF Starts
    <3>2. legacy' = old /\ kind' = k
      BY <3>1 DEF Begin
    <3> QED
      BY <3>1, <3>2, Zenon
  <2>2. CASE ~Running(at')
    BY <2>2
  <2> QED
    BY <2>1, <2>2, RunnerDoes DEF Pauses, Frees, Stays
<1> QED
  BY <1>1, <1>2, Zenon DEF SkipInv

LEMMA HeapBegins == Init => HeapInv /\ SkipInv
<1> SUFFICES ASSUME Init PROVE HeapInv /\ SkipInv
  OBVIOUS
<1>0. groupCp = [node |-> ListHead, at |-> 1]
  BY DEF Init, FunctionInit
<1>1. at = "idle" /\ nth = 0 /\ skip = "" /\ stage = "open" /\ stack = <<>>
  BY DEF Init, FunctionInit
<1>2. /\ prog \in Programs /\ prog.before \in Seq(Addresses) /\ IsInjective(prog.before)
      /\ blocks = [k \in DOMAIN prog.before |-> [addr |-> prog.before[k], by |-> 0]]
  BY ProgramAssumption DEF Init, HeapInit
<1> DEFINE b == prog.before
<1>3. \A j, k \in DOMAIN b : b[j] = b[k] => j = k
  BY <1>2 DEF IsInjective
<1> HIDE DEF b
<1>4. b \in Seq(Addresses) /\ blocks = [k \in DOMAIN b |-> [addr |-> b[k], by |-> 0]]
  BY <1>2 DEF b
<1>5. /\ Len(b) \in Nat /\ DOMAIN b = 1..Len(b) /\ \A k \in DOMAIN b : b[k] \in Addresses
  BY <1>4
<1>6. DOMAIN blocks = DOMAIN b /\ \A k \in DOMAIN b : blocks[k] = [addr |-> b[k], by |-> 0]
  BY <1>4
<1>7. \A k \in DOMAIN blocks : blocks[k] \in Blocks /\ blocks[k].addr = b[k] /\ blocks[k].by = 0
  BY <1>5, <1>6 DEF Blocks
<1>8. blocks \in Seq(Blocks)
  <2>1. blocks = [k \in 1..Len(b) |-> blocks[k]]
    BY <1>4, <1>5
  <2>2. \A k \in 1..Len(b) : blocks[k] \in Blocks
    BY <1>5, <1>6, <1>7
  <2> QED
    BY <1>5, <2>1, <2>2, IsASeq
<1>9. HeapWell(blocks, nth)
  <2>1. ASSUME NEW j \in DOMAIN blocks, NEW k \in DOMAIN blocks, j < k
        PROVE  blocks[j].addr # blocks[k].addr
    <3>1. j \in Nat /\ k \in Nat /\ j # k
      BY <1>5, <1>6, <2>1
    <3> QED
      BY <1>3, <1>6, <1>7, <3>1
  <2>2. ASSUME NEW j \in DOMAIN blocks, NEW k \in DOMAIN blocks
        PROVE  blocks[j].by <= blocks[k].by /\ blocks[k].by <= nth
    <3>1. blocks[j].by = 0 /\ blocks[k].by = 0 /\ nth = 0
      BY <1>1, <1>7, Zenon
    <3> QED
      BY <3>1
  <2> QED
    BY <1>8, <2>1, <2>2, Zenon DEF HeapWell
<1>10. PointsInv
  <2>0. nth = 0 /\ stack = <<>> /\ stage = "open"
    BY <1>1, Zenon
  <2>1. <<>> \in Seq(Points) /\ \A k \in 1..Len(<<>>) : Good((<<>>)[k])
    OBVIOUS
  <2>2. ~(0 > 0) /\ "open" \notin AtTest \cup (OlderStages \ {"older open"}) /\ "open" \in {"open", "done"}
    BY DEF AtTest, OlderStages
  <2> QED
    BY <2>0, <2>1, <2>2, Zenon DEF PointsInv
<1>11. groupCp \in Points /\ Clean(groupCp, blocks)
  <2>1. groupCp.at = 1 /\ groupCp \in Points
    BY <1>0 DEF Points
  <2> QED
    BY <1>7, <2>1 DEF Clean
<1>12. LeakInv
  <2>1. at = "idle" /\ nth = 0
    BY <1>1, Zenon
  <2>2. ~Running(at) /\ at # "body" /\ at # "checks" /\ ~(nth > 0)
    BY <2>1 DEF Running
  <2> QED
    BY <1>11, <2>2, Zenon DEF LeakInv
<1> QED
  BY <1>1, <1>9, <1>10, <1>12 DEF HeapInv, SkipInv, Running

(* What a check for leaks frees was allocated since its check point, unless  *)
(* that leads astray.                                                        *)
LEMMA FreesOwn ==
  ASSUME NEW n, HeapWell(blocks, n), NEW c, c \in Points, Marks(c, blocks),
         NEW found \in AllocatedSince(c), FreeAllocatedBlocks(found)
  PROVE  \A b \in ToSet(blocks) \ ToSet(blocks') : Dangling(c) \/ b.by >= c.at
<1>1. \A m \in DOMAIN blocks :
        (\E k \in DOMAIN blocks' : blocks'[k] = blocks[m]) \/ Dangling(c) \/ blocks[m].by >= c.at
  BY FoundFreed
<1>2. ASSUME NEW b \in ToSet(blocks) \ ToSet(blocks') PROVE Dangling(c) \/ b.by >= c.at
  <2>1. PICK m \in DOMAIN blocks : blocks[m] = b
    BY <1>2 DEF ToSet
  <2>2. ~\E k \in DOMAIN blocks' : blocks'[k] = blocks[m]
    BY <1>2, <2>1 DEF ToSet
  <2> QED
    BY <1>1, <2>1, <2>2
<1> QED
  BY <1>2

LeaksOwn ==
  at = "checks" \/ stage = "check" =>
    LET point == IF at = "checks" THEN cp ELSE groupCp
    IN  \A b \in ToSet(blocks) \ ToSet(blocks') : Dangling(point) \/ b.by >= point.at

LEMMA LeaksAreOwn ==
  ASSUME HeapInv, MessageInv, [Next]_vars
  PROVE  LeaksOwn
<1>1. HeapWell(blocks, nth) /\ PointsInv /\ (Running(at) => nth > 0) /\ nth \in Nat
  BY DEF HeapInv
<1>a. blocks' = blocks => LeaksOwn
  BY DEF LeaksOwn
<1>b. UNCHANGED heap => blocks' = blocks
  BY DEF heap
<1>2. CASE FunctionOnly
  <2>1. FunctionStep /\ (stage = "check" => ~Running(at)) /\ Running(at)
    <3>1. at \in {"body", "checks"}
      BY <1>2, FunctionSteps DEF FunctionOnly, FunctionGoes
    <3> QED
      BY <1>2, <3>1 DEF FunctionOnly, MessageInv, FunctionRuns, Running
  <2>2. CASE at = "checks"
    <3>1. Good(cp)
      BY <1>1, <2>1 DEF PointsInv
    <3>2. at # "body"
      BY <2>2
    <3>3. \A what : ~Step(what)
      BY <3>2 DEF Step
    <3>4. CheckBlocks \/ CheckValues \/ FunctionPasses
      BY <2>1, <3>2, <3>3, Zenon DEF FunctionStep, DeclareValue, DeclareCall, Malloc, AssertThat, GiveUp, Mock,
         CheckExpected, FunctionCalled, Free, Realloc, Corrupt, ExpectAssertFailure, MockAssert, AssertMissed, Return
    <3>5. UNCHANGED heap \/ \E found \in AllocatedSince(cp) : FreeAllocatedBlocks(found)
      BY <3>4, Zenon DEF CheckBlocks, CheckValues, FunctionPasses, CheckPassed, Fails
    <3>6. ASSUME NEW found \in AllocatedSince(cp), FreeAllocatedBlocks(found) PROVE LeaksOwn
      <4>1. \A b \in ToSet(blocks) \ ToSet(blocks') : Dangling(cp) \/ b.by >= cp.at
        BY <1>1, <3>1, <3>6, FreesOwn DEF Good, GoodPoint
      <4> QED
        BY <2>2, <4>1 DEF LeaksOwn
    <3> QED
      BY <3>5, <3>6, <1>a, <1>b
  <2>3. CASE at # "checks"
    BY <2>1, <2>3 DEF LeaksOwn
  <2> QED
    BY <2>2, <2>3
<1>3. CASE RunnerStep
  <2>1. CASE Frees
    <3>1. stage = "check" /\ at = "idle" /\ Good(groupCp)
      BY <1>1, <2>1 DEF Frees, At, PointsInv
    <3>2. PICK found \in AllocatedSince(groupCp) : FreeAllocatedBlocks(found)
      BY <2>1 DEF Frees
    <3>3. \A b \in ToSet(blocks) \ ToSet(blocks') : Dangling(groupCp) \/ b.by >= groupCp.at
      BY <1>1, <3>1, <3>2, FreesOwn DEF Good, GoodPoint
    <3> QED
      BY <3>1, <3>3 DEF LeaksOwn
  <2> QED
    BY <1>3, <1>a, <2>1, RunnerDoes DEF Pauses
<1>4. CASE UNCHANGED vars
  BY <1>4, <1>a, <1>b DEF vars, process
<1> QED
  BY <1>2, <1>3, <1>4, Steps

LEMMA LeaksMeant == HeapInv => NoLeakPasses
<1> SUFFICES ASSUME HeapInv PROVE NoLeakPasses
  OBVIOUS
<1>1. ASSUME NEW c, Clean(c, blocks), c \in Points PROVE ~LeftSince(c) \/ Stale(c)
  <2>1. c.at \in Nat /\ \A k \in DOMAIN blocks : blocks[k].by \in Nat
    <3>1. \A k \in DOMAIN blocks : blocks[k] \in Blocks
      BY DEF HeapInv, HeapWell
    <3> QED
      BY <1>1, <3>1, Zenon DEF Points, Blocks
  <2>2. CASE \A k \in DOMAIN blocks : blocks[k].by < c.at
    BY <2>1, <2>2 DEF LeftSince
  <2>3. CASE c.node # ListHead /\ \A k \in DOMAIN blocks : blocks[k].addr = c.node => blocks[k].by >= c.at
    BY <2>1, <2>3 DEF Stale
  <2> QED
    BY <1>1, <2>2, <2>3 DEF Clean
<1>2. Passed /\ kind # "setup" => Clean(cp, blocks) /\ cp \in Points
  BY DEF Passed, HeapInv, PointsInv, LeakInv, Good, GoodPoint
<1>3. stage \in {"open", "done"} => Clean(groupCp, blocks) /\ groupCp \in Points
  BY DEF HeapInv, LeakInv
<1> QED
  BY <1>1, <1>2, <1>3 DEF NoLeakPasses


LEMMA HeapKept == MessageInv /\ HeapInv /\ SkipInv /\ [Next]_vars => HeapInv' /\ SkipInv'
<1> SUFFICES ASSUME MessageInv, HeapInv, SkipInv, [Next]_vars PROVE HeapInv' /\ SkipInv'
  OBVIOUS
<1>1. CASE FunctionOnly
  BY <1>1, FunctionKeepsHeap
<1>2. CASE RunnerStep
  BY <1>2, RunnerKeepsHeap, RunnerKeepsSkip
<1>3. CASE UNCHANGED vars
  BY <1>3 DEF HeapInv, SkipInv, PointsInv, LeakInv, Good, vars, process, function, frame, heap, place,
     checkPoints, older
<1> QED
  BY <1>1, <1>2, <1>3, Steps

-----------------------------------------------------------------------------
(* The mocks: how often a number is in a sequence                            *)

LEMMA TimesMore ==
  ASSUME NEW s, NEW n \in Nat, NEW id
  PROVE  /\ Times(s, n, id) \in Nat /\ Times(s, 0, id) = 0
         /\ Times(s, n + 1, id) = Times(s, n, id) + (IF s[n + 1] = id THEN 1 ELSE 0)
<1> DEFINE P(m) == { k \in 1..m : s[k] = id }
<1>1. IsFiniteSet(P(n)) /\ Cardinality(P(n)) \in Nat
  <2>1. IsFiniteSet(1..n) /\ P(n) \subseteq 1..n
    BY FS_Interval
  <2> QED
    BY <2>1, FS_Subset, FS_CardinalityType
<1>2. P(0) = {} /\ Cardinality(P(0)) = 0
  BY FS_EmptySet
<1>3. CASE s[n + 1] = id
  <2>1. P(n + 1) = P(n) \cup {n + 1} /\ n + 1 \notin P(n)
    BY <1>3
  <2> HIDE DEF P
  <2>2. Cardinality(P(n + 1)) = Cardinality(P(n)) + 1
    BY <1>1, <2>1, FS_AddElement
  <2> QED
    BY <1>1, <1>2, <1>3, <2>2 DEF Times, P
<1>4. CASE s[n + 1] # id
  <2>1. P(n + 1) = P(n)
    BY <1>4
  <2> QED
    BY <1>1, <1>2, <1>4, <2>1 DEF Times
<1> QED
  BY <1>3, <1>4

LEMMA TimesSame ==
  ASSUME NEW s, NEW t, NEW n, \A k \in 1..n : s[k] = t[k], NEW id
  PROVE  Times(s, n, id) = Times(t, n, id)
<1>1. { k \in 1..n : s[k] = id } = { k \in 1..n : t[k] = id }
  OBVIOUS
<1> QED
  BY <1>1 DEF Times

LEMMA TimesNone ==
  ASSUME NEW s, NEW n, NEW id, \A k \in 1..n : s[k] # id
  PROVE  Times(s, n, id) = 0
<1>1. { k \in 1..n : s[k] = id } = {}
  OBVIOUS
<1> QED
  BY <1>1, FS_EmptySet DEF Times

LEMMA OneTaken ==
  ASSUME NEW s \in Seq(Nat), NEW x \in Nat
  PROVE  LET t == Append(s, x)
         IN  /\ t \in Seq(Nat) /\ Len(t) = Len(s) + 1 /\ t[Len(s) + 1] = x
             /\ \A k \in 1..Len(s) : t[k] = s[k]
             /\ \A id : \A k \in 0..Len(s) : Times(t, k, id) = Times(s, k, id)
             /\ \A id : Times(t, Len(s) + 1, id) = InAll(s, id) + (IF x = id THEN 1 ELSE 0)
             /\ \A id : InAll(t, id) = InAll(s, id) + (IF x = id THEN 1 ELSE 0)
             /\ \A id : InAll(s, id) \in Nat
<1> DEFINE t == Append(s, x)
<1>1. /\ t \in Seq(Nat) /\ Len(t) = Len(s) + 1 /\ t[Len(s) + 1] = x /\ Len(s) \in Nat
      /\ \A k \in 1..Len(s) : t[k] = s[k]
  OBVIOUS
<1> HIDE DEF t
<1>2. ASSUME NEW id, NEW k \in 0..Len(s) PROVE Times(t, k, id) = Times(s, k, id)
  <2>1. \A m \in 1..k : t[m] = s[m]
    BY <1>1
  <2> QED
    BY <2>1, TimesSame
<1>3. ASSUME NEW id
      PROVE  InAll(s, id) \in Nat /\ Times(t, Len(s) + 1, id) = InAll(s, id) + (IF x = id THEN 1 ELSE 0)
  <2> DEFINE n == Len(s)
  <2>1. n \in Nat /\ n \in 0..n /\ t[n + 1] = x
    BY <1>1
  <2>2. Times(t, n, id) = Times(s, n, id) /\ InAll(s, id) = Times(s, n, id)
    BY <1>2, <2>1 DEF InAll
  <2> HIDE DEF n
  <2>3. Times(s, n, id) \in Nat
    BY <2>1, TimesMore
  <2>4. Times(t, n + 1, id) = Times(t, n, id) + (IF t[n + 1] = id THEN 1 ELSE 0)
    BY <2>1, TimesMore
  <2>5. InAll(s, id) \in Nat /\ Times(t, n + 1, id) = InAll(s, id) + (IF x = id THEN 1 ELSE 0)
    BY <2>1, <2>2, <2>3, <2>4
  <2> QED
    BY <2>5 DEF n
<1>4. \A id : InAll(t, id) = Times(t, Len(s) + 1, id)
  BY <1>1 DEF InAll
<1> QED
  BY <1>1, <1>2, <1>3, <1>4 DEF t

-----------------------------------------------------------------------------
(* One queue                                                                 *)

(* What remains of an entry that was to count c, of which n have been taken. *)
Left(remains, c, n) ==
  \/ c > 0 /\ remains = c - n /\ remains > 0
  \/ c = Always /\ n = 0 /\ remains = Always
  \/ c = Always /\ n > 0 /\ remains = Maybe
  \/ c = Maybe /\ remains = Maybe

CountWell(c) == c \in Int /\ c # 0 /\ c >= Maybe

DeclaredWell(d) ==
  d \in Seq(Entries) /\ \A k \in DOMAIN d : d[k].id = k /\ CountWell(d[k].count)

ByOrder(d, t) ==
  \A k \in DOMAIN t :
    /\ t[k] \in DOMAIN d
    /\ \A j \in 1..t[k] - 1 : Times(t, k - 1, j) = d[j].count
    /\ d[t[k]].count > 0 => Times(t, k, t[k]) <= d[t[k]].count

(* The queue is the last part of what was declared, and only its first entry *)
(* may have been taken in part.                                              *)
QueueWell(q, d, t) ==
  /\ q \in Seq(Entries) /\ Len(q) <= Len(d)
  /\ \A k \in DOMAIN q :
       /\ q[k].id = Len(d) - Len(q) + k
       /\ Left(q[k].count, d[Len(d) - Len(q) + k].count, InAll(t, Len(d) - Len(q) + k))
       /\ k > 1 => InAll(t, Len(d) - Len(q) + k) = 0
  /\ \A i \in 1..Len(d) - Len(q) : d[i].count = InAll(t, i)

LEMMA NoneYet ==
  ASSUME NEW d \in Seq(Entries), NEW t \in Seq(Nat), \A k \in DOMAIN t : t[k] \in DOMAIN d
  PROVE  InAll(t, Len(d) + 1) = 0
<1>1. \A k \in 1..Len(t) : t[k] # Len(d) + 1
  OBVIOUS
<1> QED
  BY <1>1, TimesNone DEF InAll

LEMMA NewLeft ==
  ASSUME NEW c, CountWell(c)
  PROVE  Left(c, c, 0)
<1>1. c \in Int /\ c # 0 /\ c >= -2
  BY DEF CountWell, Maybe
<1>2. c > 0 \/ c = -1 \/ c = -2
  BY <1>1
<1>3. c > 0 => c = c - 0
  BY <1>1
<1> QED
  BY <1>1, <1>2, <1>3 DEF Left, Always, Maybe

LEMMA Declaring ==
  ASSUME NEW q, NEW d, NEW t \in Seq(Nat), DeclaredWell(d), ByOrder(d, t), QueueWell(q, d, t),
         NEW c, CountWell(c)
  PROVE  LET e == [id |-> Len(d) + 1, count |-> c]
         IN  DeclaredWell(Append(d, e)) /\ ByOrder(Append(d, e), t) /\ QueueWell(Append(q, e), Append(d, e), t)
<1> DEFINE e == [id |-> Len(d) + 1, count |-> c]
           d2 == Append(d, e)
           q2 == Append(q, e)
<1>1. d \in Seq(Entries) /\ q \in Seq(Entries) /\ Len(d) \in Nat /\ Len(q) \in Nat /\ Len(q) <= Len(d)
      /\ DOMAIN d = 1..Len(d) /\ DOMAIN q = 1..Len(q)
  BY DEF DeclaredWell, QueueWell
<1>2. e \in Entries /\ e.id = Len(d) + 1 /\ e.count = c
  BY <1>1 DEF Entries, CountWell
<1> HIDE DEF e
<1>3. /\ d2 \in Seq(Entries) /\ Len(d2) = Len(d) + 1 /\ DOMAIN d2 = 1..Len(d) + 1 /\ d2[Len(d) + 1] = e
      /\ \A k \in 1..Len(d) : d2[k] = d[k]
  BY <1>1, <1>2
<1>4. /\ q2 \in Seq(Entries) /\ Len(q2) = Len(q) + 1 /\ DOMAIN q2 = 1..Len(q) + 1 /\ q2[Len(q) + 1] = e
      /\ \A k \in 1..Len(q) : q2[k] = q[k]
  BY <1>1, <1>2
<1> HIDE DEF d2, q2
<1>5. DeclaredWell(d2)
  <2>1. ASSUME NEW k \in DOMAIN d2 PROVE d2[k].id = k /\ CountWell(d2[k].count)
    <3>1. k \in DOMAIN d \/ k = Len(d) + 1
      BY <1>1, <1>3
    <3>2. CASE k \in DOMAIN d
      BY <1>1, <1>3, <3>2 DEF DeclaredWell
    <3>3. CASE k = Len(d) + 1
      BY <1>2, <1>3, <3>3
    <3> QED
      BY <3>1, <3>2, <3>3
  <2> QED
    BY <1>3, <2>1 DEF DeclaredWell
<1>6. ByOrder(d2, t)
  <2>1. ASSUME NEW k \in DOMAIN t
        PROVE  /\ t[k] \in DOMAIN d2
               /\ \A j \in 1..t[k] - 1 : Times(t, k - 1, j) = d2[j].count
               /\ d2[t[k]].count > 0 => Times(t, k, t[k]) <= d2[t[k]].count
    <3>1. /\ t[k] \in DOMAIN d
          /\ \A j \in 1..t[k] - 1 : Times(t, k - 1, j) = d[j].count
          /\ d[t[k]].count > 0 => Times(t, k, t[k]) <= d[t[k]].count
      BY DEF ByOrder
    <3>2. t[k] \in 1..Len(d) /\ t[k] \in 1..Len(d) + 1 /\ \A j \in 1..t[k] - 1 : j \in 1..Len(d)
      BY <1>1, <3>1
    <3>3. d2[t[k]] = d[t[k]] /\ \A j \in 1..t[k] - 1 : d2[j] = d[j]
      BY <1>3, <3>2
    <3> QED
      BY <1>3, <3>1, <3>2, <3>3
  <2> QED
    BY <2>1 DEF ByOrder
<1>7. QueueWell(q2, d2, t)
  <2>1. Len(d2) - Len(q2) = Len(d) - Len(q) /\ Len(q2) <= Len(d2)
    BY <1>1, <1>3, <1>4
  <2>2. ASSUME NEW k \in DOMAIN q2
        PROVE  /\ q2[k].id = Len(d) - Len(q) + k
               /\ Left(q2[k].count, d2[Len(d) - Len(q) + k].count, InAll(t, Len(d) - Len(q) + k))
               /\ k > 1 => InAll(t, Len(d) - Len(q) + k) = 0
    <3>1. k \in DOMAIN q \/ k = Len(q) + 1
      BY <1>1, <1>4
    <3>2. CASE k \in DOMAIN q
      <4>1. q2[k] = q[k] /\ d2[Len(d) - Len(q) + k] = d[Len(d) - Len(q) + k]
        <5>1. Len(d) - Len(q) + k \in 1..Len(d) /\ k \in 1..Len(q)
          BY <1>1, <3>2
        <5> QED
          BY <1>3, <1>4, <5>1
      <4> QED
        BY <3>2, <4>1, Zenon DEF QueueWell
    <3>3. CASE k = Len(q) + 1
      <4>1. Len(d) - Len(q) + k = Len(d) + 1
        BY <1>1, <3>3
      <4>2. InAll(t, Len(d) + 1) = 0
        BY <1>1, NoneYet DEF ByOrder
      <4>3. q2[k] = e /\ d2[Len(d) + 1] = e /\ Left(c, c, 0)
        BY <1>3, <1>4, <3>3, NewLeft
      <4> QED
        BY <1>2, <4>1, <4>2, <4>3
    <3> QED
      BY <3>1, <3>2, <3>3
  <2>3. ASSUME NEW i \in 1..Len(d) - Len(q) PROVE d2[i].count = InAll(t, i)
    <3>1. i \in 1..Len(d)
      BY <1>1
    <3> QED
      BY <1>3, <3>1 DEF QueueWell
  <2> HIDE DEF e
  <2> QED
    BY <1>4, <2>1, <2>2, <2>3 DEF QueueWell
<1> QED
  BY <1>5, <1>6, <1>7 DEF d2, q2, e

LEMMA TakenLeft ==
  ASSUME NEW r, NEW c, NEW n \in Nat, CountWell(c), Left(r, c, n), r - 1 # 0
  PROVE  Left(IF r > Maybe THEN r - 1 ELSE r, c, n + 1)
<1>1. c \in Int
  BY DEF CountWell
<1>2. CASE c > 0 /\ r = c - n /\ r > 0
  <2>1. r \in Int /\ r > Maybe /\ r - 1 = c - (n + 1) /\ r - 1 > 0
    BY <1>1, <1>2 DEF Maybe
  <2> QED
    BY <1>2, <2>1 DEF Left
<1>3. CASE c = Always /\ n = 0 /\ r = Always
  <2>1. r > Maybe /\ r - 1 = Maybe /\ n + 1 > 0
    BY <1>3 DEF Always, Maybe
  <2> QED
    BY <1>3, <2>1 DEF Left
<1>4. CASE r = Maybe /\ (c = Maybe \/ c = Always)
  <2>1. ~(r > Maybe) /\ n + 1 > 0
    BY <1>4 DEF Maybe
  <2> QED
    BY <1>4, <2>1 DEF Left
<1> QED
  BY <1>2, <1>3, <1>4 DEF Left

LEMMA LastLeft ==
  ASSUME NEW r, NEW c, NEW n \in Nat, CountWell(c), Left(r, c, n), r - 1 = 0
  PROVE  c > 0 /\ c = n + 1
<1>1. c \in Int
  BY DEF CountWell
<1>2. r # Always /\ r # Maybe
  BY DEF Always, Maybe
<1>3. c > 0 /\ r = c - n /\ r > 0
  BY <1>2 DEF Left
<1> QED
  BY <1>1, <1>3

LEMMA LeftBounds ==
  ASSUME NEW r, NEW c, NEW n \in Nat, CountWell(c), Left(r, c, n)
  PROVE  /\ r \in Int /\ r # 0 /\ r >= Maybe /\ (c > 0 => n < c)
         /\ r >= Always => ~(n >= Least(c))
         /\ r < Always => r = Maybe /\ n >= Least(c) /\ c < 0
         /\ n = 0 /\ r = Maybe => c = Maybe
<1>1. c \in Int
  BY DEF CountWell
<1>2. CASE c > 0 /\ r = c - n /\ r > 0
  <2>1. Least(c) = c
    BY <1>2 DEF Least
  <2> QED
    BY <1>1, <1>2, <2>1 DEF Always, Maybe
<1>3. CASE c = Always /\ n = 0 /\ r = Always
  <2>1. Least(c) = 1
    BY <1>3 DEF Least, Always
  <2> QED
    BY <1>3, <2>1 DEF Always, Maybe
<1>4. CASE c = Always /\ n > 0 /\ r = Maybe
  <2>1. Least(c) = 1
    BY <1>4 DEF Least, Always
  <2> QED
    BY <1>4, <2>1 DEF Always, Maybe
<1>5. CASE c = Maybe /\ r = Maybe
  <2>1. Least(c) = 0
    BY <1>5 DEF Least, Always, Maybe
  <2> QED
    BY <1>5, <2>1 DEF Always, Maybe
<1> QED
  BY <1>2, <1>3, <1>4, <1>5 DEF Left

LEMMA ShorterQueue ==
  ASSUME NEW q \in Seq(Entries), q # <<>>
  PROVE  /\ Tail(q) \in Seq(Entries) /\ Len(Tail(q)) = Len(q) - 1
         /\ \A k \in 1..Len(q) - 1 : Tail(q)[k] = q[k + 1]
         /\ Head(q) = q[1] /\ 1 \in DOMAIN q
  OBVIOUS

LEMMA SameQueue ==
  ASSUME NEW q \in Seq(Entries), q # <<>>, NEW e \in Entries
  PROVE  LET p == <<e>> \o Tail(q)
         IN  /\ p \in Seq(Entries) /\ Len(p) = Len(q) /\ p[1] = e
             /\ \A k \in 1..Len(q) : k > 1 => p[k] = q[k]
<1> DEFINE r == Tail(q)
           p == <<e>> \o r
<1>1. /\ r \in Seq(Entries) /\ Len(r) = Len(q) - 1 /\ Len(q) \in Nat /\ Len(q) > 0
      /\ \A k \in 1..Len(q) - 1 : r[k] = q[k + 1]
  OBVIOUS
<1> HIDE DEF r
<1>2. <<e>> \in Seq(Entries) /\ Len(<<e>>) = 1 /\ <<e>>[1] = e
  OBVIOUS
<1>3. /\ p \in Seq(Entries) /\ Len(p) = 1 + Len(r)
      /\ \A k \in 1..1 + Len(r) : p[k] = IF k <= 1 THEN <<e>>[k] ELSE r[k - 1]
  BY <1>1, <1>2, ConcatProperties
<1> HIDE DEF p
<1>4. ASSUME NEW k \in 1..Len(q), k > 1 PROVE p[k] = q[k]
  <2>1. k \in 1..1 + Len(r) /\ ~(k <= 1) /\ k - 1 \in 1..Len(q) - 1 /\ (k - 1) + 1 = k
    BY <1>1, <1>4
  <2> QED
    BY <1>1, <1>3, <2>1
<1>5. p[1] = e /\ Len(p) = Len(q)
  BY <1>1, <1>2, <1>3
<1> QED
  BY <1>3, <1>4, <1>5 DEF p, r

LEMMA OrderTaken ==
  ASSUME NEW d, NEW t \in Seq(Nat), DeclaredWell(d), ByOrder(d, t), NEW h \in DOMAIN d,
         \A j \in 1..h - 1 : d[j].count = InAll(t, j),
         d[h].count > 0 => InAll(t, h) < d[h].count
  PROVE  ByOrder(d, Append(t, h))
<1> DEFINE t2 == Append(t, h)
<1>1. d \in Seq(Entries) /\ h \in Nat /\ Len(t) \in Nat
  BY DEF DeclaredWell
<1>2. /\ t2 \in Seq(Nat) /\ Len(t2) = Len(t) + 1 /\ t2[Len(t) + 1] = h
      /\ \A k \in 1..Len(t) : t2[k] = t[k]
      /\ \A id : \A k \in 0..Len(t) : Times(t2, k, id) = Times(t, k, id)
      /\ \A id : Times(t2, Len(t) + 1, id) = InAll(t, id) + (IF h = id THEN 1 ELSE 0)
      /\ \A id : InAll(t, id) \in Nat
  BY <1>1, OneTaken
<1> HIDE DEF t2
<1>3. ASSUME NEW k \in DOMAIN t2
      PROVE  /\ t2[k] \in DOMAIN d
             /\ \A j \in 1..t2[k] - 1 : Times(t2, k - 1, j) = d[j].count
             /\ d[t2[k]].count > 0 => Times(t2, k, t2[k]) <= d[t2[k]].count
  <2>1. k \in 1..Len(t) \/ k = Len(t) + 1
    BY <1>1, <1>2
  <2>2. CASE k \in 1..Len(t)
    <3>1. k \in DOMAIN t /\ k \in 0..Len(t) /\ k - 1 \in 0..Len(t) /\ t2[k] = t[k]
      BY <1>1, <1>2, <2>2
    <3> QED
      BY <1>2, <3>1 DEF ByOrder
  <2>3. CASE k = Len(t) + 1
    <3>1. t2[k] = h /\ k - 1 = Len(t) /\ Len(t) \in 0..Len(t)
      BY <1>1, <1>2, <2>3
    <3>2. ASSUME NEW j \in 1..h - 1 PROVE Times(t2, k - 1, j) = d[j].count
      BY <1>2, <3>1 DEF InAll
    <3>3. ASSUME d[h].count > 0 PROVE Times(t2, k, h) <= d[h].count
      <4>1. Times(t2, k, h) = InAll(t, h) + 1 /\ InAll(t, h) \in Nat /\ InAll(t, h) < d[h].count
        BY <1>2, <2>3, <3>3
      <4>2. d[h].count \in Int
        BY DEF DeclaredWell, CountWell
      <4> QED
        BY <4>1, <4>2
    <3> QED
      BY <3>1, <3>2, <3>3
  <2> QED
    BY <2>1, <2>2, <2>3
<1> QED
  BY <1>3 DEF ByOrder, t2

LEMMA Taking ==
  ASSUME NEW q, NEW d, NEW t \in Seq(Nat), DeclaredWell(d), ByOrder(d, t), QueueWell(q, d, t), q # <<>>
  PROVE  LET t2 == Append(t, Head(q).id)
         IN  t2 \in Seq(Nat) /\ ByOrder(d, t2) /\ QueueWell(Taken(q), d, t2)
<1> DEFINE h == Len(d) - Len(q) + 1
           t2 == Append(t, h)
           e == Used(Head(q))
           n == InAll(t, h)
<1>1. /\ d \in Seq(Entries) /\ q \in Seq(Entries) /\ Len(d) \in Nat /\ Len(q) \in Nat /\ Len(q) <= Len(d)
      /\ DOMAIN d = 1..Len(d) /\ DOMAIN q = 1..Len(q) /\ Len(q) > 0 /\ 1 \in DOMAIN q /\ Head(q) = q[1]
  BY DEF DeclaredWell, QueueWell
<1>2. h \in Nat /\ h \in DOMAIN d /\ CountWell(d[h].count) /\ d[h].count \in Int
  <2>1. h \in Nat /\ h \in DOMAIN d
    BY <1>1
  <2> QED
    BY <2>1 DEF DeclaredWell, CountWell
<1>3. q[1].id = h /\ Left(q[1].count, d[h].count, n)
  BY <1>1 DEF QueueWell
<1>4. \A i \in 1..h - 1 : d[i].count = InAll(t, i)
  <2>1. h - 1 = Len(d) - Len(q)
    BY <1>1
  <2> QED
    BY <2>1 DEF QueueWell
<1>5. ASSUME NEW k \in DOMAIN q, k > 1
      PROVE  /\ q[k].id = Len(d) - Len(q) + k /\ Left(q[k].count, d[Len(d) - Len(q) + k].count, 0)
             /\ InAll(t, Len(d) - Len(q) + k) = 0
  BY <1>5, Zenon DEF QueueWell
<1>a. Head(q).id = h
  BY <1>1, <1>3
<1> HIDE DEF h
<1>6. /\ t2 \in Seq(Nat) /\ \A id : InAll(t2, id) = InAll(t, id) + (IF h = id THEN 1 ELSE 0)
      /\ \A id : InAll(t, id) \in Nat
  BY <1>2, OneTaken
<1> HIDE DEF t2, e, n
<1>7. n \in Nat /\ InAll(t2, h) = n + 1 /\ \A id : id # h => InAll(t2, id) = InAll(t, id)
  BY <1>6 DEF n
<1>8. ByOrder(d, t2)
  <2>1. d[h].count > 0 => n < d[h].count
    BY <1>2, <1>3, <1>7, LeftBounds
  <2> QED
    BY <1>2, <1>4, <2>1, OrderTaken DEF t2, n
<1>9. \A i \in 1..h - 1 : d[i].count = InAll(t2, i)
  <2> SUFFICES ASSUME NEW i \in 1..h - 1 PROVE d[i].count = InAll(t2, i)
    OBVIOUS
  <2>1. i # h
    BY <1>2
  <2> QED
    BY <1>4, <1>7, <2>1
<1>10. CASE Head(q).count - 1 = 0
  <2> DEFINE q2 == Tail(q)
  <2>1. Taken(q) = q2
    BY <1>10 DEF Taken
  <2>2. q2 \in Seq(Entries) /\ Len(q2) = Len(q) - 1 /\ \A k \in 1..Len(q) - 1 : q2[k] = q[k + 1]
    BY <1>1, ShorterQueue
  <2> HIDE DEF q2
  <2>3. DOMAIN q2 = 1..Len(q) - 1 /\ Len(d) - Len(q2) = h /\ Len(q2) <= Len(d)
    BY <1>1, <2>2 DEF h
  <2>4. d[h].count = n + 1
    BY <1>1, <1>2, <1>3, <1>7, <1>10, LastLeft
  <2>5. ASSUME NEW i \in 1..h PROVE d[i].count = InAll(t2, i)
    <3>1. i = h \/ i \in 1..h - 1
      BY <1>2
    <3> QED
      BY <1>7, <1>9, <2>4, <3>1
  <2>6. ASSUME NEW k \in DOMAIN q2
        PROVE  /\ q2[k].id = h + k /\ Left(q2[k].count, d[h + k].count, InAll(t2, h + k))
               /\ InAll(t2, h + k) = 0
    <3>1. k + 1 \in DOMAIN q /\ k + 1 > 1 /\ Len(d) - Len(q) + (k + 1) = h + k /\ h + k # h
      BY <1>1, <1>2, <2>3 DEF h
    <3>2. /\ q[k + 1].id = h + k /\ Left(q[k + 1].count, d[h + k].count, 0) /\ InAll(t, h + k) = 0
      BY <1>5, <3>1
    <3>3. InAll(t2, h + k) = 0 /\ q2[k] = q[k + 1]
      BY <1>7, <2>2, <2>3, <3>1, <3>2
    <3> QED
      BY <3>2, <3>3, Zenon
  <2>7. QueueWell(q2, d, t2)
    BY <2>2, <2>3, <2>5, <2>6 DEF QueueWell
  <2> QED
    BY <1>6, <1>8, <1>a, <2>1, <2>7 DEF t2
<1>11. CASE Head(q).count - 1 # 0
  <2> DEFINE q2 == <<e>> \o Tail(q)
  <2>1. Taken(q) = q2
    BY <1>11 DEF Taken, e
  <2>2. /\ e \in Entries /\ e.id = h
        /\ e.count = IF q[1].count > Maybe THEN q[1].count - 1 ELSE q[1].count
    <3>0. q[1] \in Entries
      BY <1>1
    <3>1. q[1] \in Entries /\ q[1].count \in Int
      BY <3>0 DEF Entries
    <3>2. CASE q[1].count > Maybe
      <4>1. e = [q[1] EXCEPT !.count = q[1].count - 1] /\ q[1].count - 1 \in Int
        BY <1>1, <3>1, <3>2 DEF e, Used
      <4> QED
        BY <1>3, <3>1, <3>2, <4>1 DEF Entries
    <3>3. CASE ~(q[1].count > Maybe)
      BY <1>1, <1>3, <3>1, <3>3 DEF e, Used
    <3> QED
      BY <3>2, <3>3
  <2>3. /\ q2 \in Seq(Entries) /\ Len(q2) = Len(q) /\ q2[1] = e /\ \A k \in 1..Len(q) : k > 1 => q2[k] = q[k]
    BY <1>1, <2>2, SameQueue
  <2> HIDE DEF q2
  <2>4. DOMAIN q2 = 1..Len(q)
    BY <2>3
  <2>5. Left(e.count, d[h].count, n + 1)
    BY <1>1, <1>2, <1>3, <1>7, <1>11, <2>2, TakenLeft
  <2>6. ASSUME NEW k \in DOMAIN q2
        PROVE  /\ q2[k].id = Len(d) - Len(q) + k
               /\ Left(q2[k].count, d[Len(d) - Len(q) + k].count, InAll(t2, Len(d) - Len(q) + k))
               /\ k > 1 => InAll(t2, Len(d) - Len(q) + k) = 0
    <3>1. CASE k = 1
      <4>1. q2[k] = e /\ Len(d) - Len(q) + k = h /\ ~(k > 1)
        BY <2>3, <3>1 DEF h
      <4> QED
        BY <1>7, <2>2, <2>5, <4>1, Zenon
    <3>2. CASE k # 1
      <4>1. k > 1 /\ k \in DOMAIN q /\ Len(d) - Len(q) + k # h /\ q2[k] = q[k]
        BY <1>1, <2>3, <2>4, <3>2 DEF h
      <4>2. /\ q[k].id = Len(d) - Len(q) + k /\ Left(q[k].count, d[Len(d) - Len(q) + k].count, 0)
            /\ InAll(t, Len(d) - Len(q) + k) = 0
        BY <1>5, <4>1
      <4>3. InAll(t2, Len(d) - Len(q) + k) = 0
        BY <1>7, <4>1, <4>2
      <4> QED
        BY <4>1, <4>2, <4>3, Zenon
    <3> QED
      BY <3>1, <3>2
  <2>7. Len(d) - Len(q) = h - 1
    BY <1>1 DEF h
  <2>8. \A i \in 1..Len(d) - Len(q) : d[i].count = InAll(t2, i)
    BY <1>9, <2>7
  <2>9. QueueWell(q2, d, t2)
    BY <1>1, <2>3, <2>6, <2>8 DEF QueueWell
  <2> QED
    BY <1>6, <1>8, <1>a, <2>1, <2>9 DEF t2
<1> QED
  BY <1>10, <1>11

LEMMA QueueUsed ==
  ASSUME NEW q, NEW d, NEW t \in Seq(Nat), DeclaredWell(d), QueueWell(q, d, t), Remaining(q) = <<>>
  PROVE  \A k \in DOMAIN d : InAll(t, d[k].id) >= Least(d[k].count)
<1>1. /\ d \in Seq(Entries) /\ q \in Seq(Entries) /\ Len(d) \in Nat /\ Len(q) \in Nat /\ Len(q) <= Len(d)
      /\ DOMAIN d = 1..Len(d) /\ DOMAIN q = 1..Len(q)
  BY DEF DeclaredWell, QueueWell
<1>a. \A k : InAll(t, k) \in Nat
  BY TimesMore DEF InAll
<1>2. q = <<>> \/ (Len(q) = 1 /\ q[1].count < Always)
  <2>1. CASE q # <<>>
    <3>1. Head(q).count < Always /\ Tail(q) = <<>>
      BY <2>1 DEF Remaining
    <3>2. Len(Tail(q)) = Len(q) - 1 /\ Head(q) = q[1]
      BY <1>1, <2>1, ShorterQueue
    <3>3. Len(q) \in Nat /\ Len(Tail(q)) = 0 /\ Len(Tail(q)) = Len(q) - 1
      <4>1. Len(<<>>) = 0
        OBVIOUS
      <4> QED
        BY <1>1, <3>1, <3>2, <4>1, Zenon
    <3>4. Len(q) = 1
      <4> DEFINE a == Len(q)
                 b == Len(Tail(q))
      <4>1. a \in Nat /\ b = 0 /\ b = a - 1
        BY <3>3
      <4> HIDE DEF a, b
      <4>2. a = 1
        BY <4>1
      <4> QED
        BY <4>2 DEF a
    <3> QED
      BY <3>1, <3>2, <3>4, Zenon
  <2> QED
    BY <2>1
<1>3. ASSUME NEW k \in DOMAIN d PROVE InAll(t, d[k].id) >= Least(d[k].count)
  <2>1. d[k].id = k /\ CountWell(d[k].count)
    BY DEF DeclaredWell
  <2>2. CASE k \in 1..Len(d) - Len(q)
    <3>1. d[k].count = InAll(t, k) /\ d[k].count \in Nat /\ d[k].count # 0
      BY <1>a, <2>1, <2>2 DEF QueueWell, CountWell
    <3>2. d[k].count > 0 /\ d[k].count >= d[k].count
      BY <3>1
    <3>3. Least(d[k].count) = d[k].count
      BY <3>2 DEF Least
    <3> QED
      BY <2>1, <3>1, <3>2, <3>3
  <2>3. CASE k \notin 1..Len(d) - Len(q)
    <3>1. Len(q) = 1 /\ q[1].count < Always /\ 1 \in DOMAIN q /\ Len(d) - Len(q) + 1 = k
      BY <1>1, <1>2, <2>3
    <3>2. Left(q[1].count, d[k].count, InAll(t, k))
      BY <3>1 DEF QueueWell
    <3> QED
      BY <1>a, <2>1, <3>1, <3>2, LeftBounds
  <2> QED
    BY <2>2, <2>3
<1> QED
  BY <1>3

LEMMA QueueOwes ==
  ASSUME NEW q, NEW d, NEW t \in Seq(Nat), DeclaredWell(d), QueueWell(q, d, t), Remaining(q) # <<>>
  PROVE  \/ \E k \in DOMAIN d : ~(InAll(t, d[k].id) >= Least(d[k].count))
         \/ \E k \in DOMAIN d : k > 1 /\ d[k].count = Maybe /\ d[k - 1].count < 0
<1>1. /\ d \in Seq(Entries) /\ q \in Seq(Entries) /\ Len(d) \in Nat /\ Len(q) \in Nat /\ Len(q) <= Len(d)
      /\ DOMAIN d = 1..Len(d) /\ DOMAIN q = 1..Len(q)
  BY DEF DeclaredWell, QueueWell
<1>a. \A k : InAll(t, k) \in Nat
  BY TimesMore DEF InAll
<1>b. \A k \in DOMAIN d : d[k].id = k /\ CountWell(d[k].count)
  BY DEF DeclaredWell
<1> DEFINE h == Len(d) - Len(q) + 1
<1>2. q # <<>> /\ 1 \in DOMAIN q /\ Head(q) = q[1] /\ h \in DOMAIN d
  <2>1. q # <<>>
    BY DEF Remaining
  <2> QED
    BY <1>1, <2>1
<1>3. Left(q[1].count, d[h].count, InAll(t, h))
  BY <1>2 DEF QueueWell
<1> HIDE DEF h
<1>4. CASE ~(q[1].count < Always)
  <2>1. q[1].count >= Always
    <3>1. q[1].count \in Int
      BY <1>a, <1>b, <1>2, <1>3, LeftBounds
    <3> QED
      BY <1>4, <3>1 DEF Always
  <2>2. ~(InAll(t, h) >= Least(d[h].count))
    BY <1>a, <1>b, <1>2, <1>3, <2>1, LeftBounds
  <2> QED
    BY <1>b, <1>2, <2>2
<1>5. CASE q[1].count < Always
  <2>1. Tail(q) # <<>>
    BY <1>2, <1>5 DEF Remaining
  <2>2. 2 \in DOMAIN q /\ Len(d) - Len(q) + 2 = h + 1 /\ h + 1 \in DOMAIN d /\ h + 1 > 1 /\ (h + 1) - 1 = h
    BY <1>1, <1>2, <2>1 DEF h
  <2>3. Left(q[2].count, d[h + 1].count, InAll(t, h + 1)) /\ InAll(t, h + 1) = 0
    <3>1. 2 > 1
      OBVIOUS
    <3> QED
      BY <2>2, <3>1 DEF QueueWell
  <2>4. d[h].count < 0
    BY <1>a, <1>b, <1>2, <1>3, <1>5, LeftBounds
  <2>5. CASE q[2].count >= Always
    <3>1. ~(InAll(t, h + 1) >= Least(d[h + 1].count))
      BY <1>a, <1>b, <2>2, <2>3, <2>5, LeftBounds
    <3> QED
      BY <1>b, <2>2, <3>1
  <2>6. CASE ~(q[2].count >= Always)
    <3>1. q[2].count < Always
      <4>1. q[2].count \in Int
        BY <1>a, <1>b, <2>2, <2>3, LeftBounds
      <4> QED
        BY <2>6, <4>1 DEF Always
    <3>2. d[h + 1].count = Maybe
      BY <1>a, <1>b, <2>2, <2>3, <3>1, LeftBounds
    <3> QED
      BY <2>2, <2>4, <3>2
  <2> QED
    BY <2>5, <2>6
<1> QED
  BY <1>4, <1>5

-----------------------------------------------------------------------------
(* The calls that are expected                                               *)

OrderedWell(o) ==
  o \in Seq(Calls) /\ \A k \in DOMAIN o : o[k].id = k /\ CountWell(o[k].count)

CallsByOrder(o, l) ==
  \A k \in DOMAIN l :
    /\ l[k] \in DOMAIN o
    /\ \A j \in 1..l[k] - 1 : Times(l, k - 1, j) >= Least(o[j].count)
    /\ o[l[k]].count > 0 => Times(l, k, l[k]) <= o[l[k]].count

(* c holds what o declared, in its order, but for what has been used up.     *)
CallsWell(c, o, l) ==
  /\ c \in Seq(Calls)
  /\ \A k \in DOMAIN c : c[k].id \in DOMAIN o /\ Left(c[k].count, o[c[k].id].count, InAll(l, c[k].id))
  /\ \A j, k \in DOMAIN c : j < k => c[j].id < c[k].id
  /\ \A i \in DOMAIN o : (\E k \in DOMAIN c : c[k].id = i) \/ o[i].count = InAll(l, i)

LEMMA NoCallYet ==
  ASSUME NEW o \in Seq(Calls), NEW l \in Seq(Nat), \A k \in DOMAIN l : l[k] \in DOMAIN o
  PROVE  InAll(l, Len(o) + 1) = 0
<1>1. \A k \in 1..Len(l) : l[k] # Len(o) + 1
  OBVIOUS
<1> QED
  BY <1>1, TimesNone DEF InAll

LEMMA Expecting ==
  ASSUME NEW c, NEW o, NEW l \in Seq(Nat), OrderedWell(o), CallsByOrder(o, l), CallsWell(c, o, l),
         NEW f \in Callees, NEW n, CountWell(n)
  PROVE  LET e == [id |-> Len(o) + 1, of |-> f, count |-> n]
         IN  /\ OrderedWell(Append(o, e)) /\ CallsByOrder(Append(o, e), l)
             /\ CallsWell(Append(c, e), Append(o, e), l)
<1> DEFINE e == [id |-> Len(o) + 1, of |-> f, count |-> n]
           o2 == Append(o, e)
           c2 == Append(c, e)
<1>1. o \in Seq(Calls) /\ c \in Seq(Calls) /\ Len(o) \in Nat /\ Len(c) \in Nat
      /\ DOMAIN o = 1..Len(o) /\ DOMAIN c = 1..Len(c)
  BY DEF OrderedWell, CallsWell
<1>2. e \in Calls /\ e.id = Len(o) + 1 /\ e.count = n
  BY <1>1 DEF Calls, CountWell
<1> HIDE DEF e
<1>3. /\ o2 \in Seq(Calls) /\ Len(o2) = Len(o) + 1 /\ DOMAIN o2 = 1..Len(o) + 1 /\ o2[Len(o) + 1] = e
      /\ \A k \in 1..Len(o) : o2[k] = o[k]
  BY <1>1, <1>2
<1>4. /\ c2 \in Seq(Calls) /\ Len(c2) = Len(c) + 1 /\ DOMAIN c2 = 1..Len(c) + 1 /\ c2[Len(c) + 1] = e
      /\ \A k \in 1..Len(c) : c2[k] = c[k]
  BY <1>1, <1>2
<1> HIDE DEF o2, c2
<1>5. OrderedWell(o2)
  <2>1. ASSUME NEW k \in DOMAIN o2 PROVE o2[k].id = k /\ CountWell(o2[k].count)
    <3>1. k \in DOMAIN o \/ k = Len(o) + 1
      BY <1>1, <1>3
    <3>2. CASE k \in DOMAIN o
      BY <1>1, <1>3, <3>2 DEF OrderedWell
    <3>3. CASE k = Len(o) + 1
      BY <1>2, <1>3, <3>3
    <3> QED
      BY <3>1, <3>2, <3>3
  <2> QED
    BY <1>3, <2>1 DEF OrderedWell
<1>6. CallsByOrder(o2, l)
  <2>1. ASSUME NEW k \in DOMAIN l
        PROVE  /\ l[k] \in DOMAIN o2
               /\ \A j \in 1..l[k] - 1 : Times(l, k - 1, j) >= Least(o2[j].count)
               /\ o2[l[k]].count > 0 => Times(l, k, l[k]) <= o2[l[k]].count
    <3>1. /\ l[k] \in DOMAIN o
          /\ \A j \in 1..l[k] - 1 : Times(l, k - 1, j) >= Least(o[j].count)
          /\ o[l[k]].count > 0 => Times(l, k, l[k]) <= o[l[k]].count
      BY DEF CallsByOrder
    <3>2. l[k] \in 1..Len(o) /\ l[k] \in 1..Len(o) + 1 /\ \A j \in 1..l[k] - 1 : j \in 1..Len(o)
      BY <1>1, <3>1
    <3>3. o2[l[k]] = o[l[k]] /\ \A j \in 1..l[k] - 1 : o2[j] = o[j]
      BY <1>3, <3>2
    <3> QED
      BY <1>3, <3>1, <3>2, <3>3
  <2> QED
    BY <2>1 DEF CallsByOrder
<1>7. CallsWell(c2, o2, l)
  <2>1. ASSUME NEW k \in DOMAIN c
        PROVE  /\ c[k].id \in DOMAIN o /\ Left(c[k].count, o[c[k].id].count, InAll(l, c[k].id))
               /\ c[k].id < Len(o) + 1 /\ c2[k] = c[k] /\ k \in DOMAIN c2 /\ o2[c[k].id] = o[c[k].id]
    <3>1. c[k].id \in DOMAIN o /\ Left(c[k].count, o[c[k].id].count, InAll(l, c[k].id))
      BY DEF CallsWell
    <3> QED
      BY <1>1, <1>3, <1>4, <3>1
  <2>2. c2[Len(c) + 1].id = Len(o) + 1 /\ Len(c) + 1 \in DOMAIN c2
    BY <1>1, <1>2, <1>4
  <2>3. ASSUME NEW k \in DOMAIN c2
        PROVE  c2[k].id \in DOMAIN o2 /\ Left(c2[k].count, o2[c2[k].id].count, InAll(l, c2[k].id))
    <3>1. k \in DOMAIN c \/ k = Len(c) + 1
      BY <1>1, <1>4
    <3>2. CASE k \in DOMAIN c
      <4>1. c2[k].id \in DOMAIN o2
        BY <1>1, <1>3, <2>1, <3>2
      <4>2. Left(c2[k].count, o2[c2[k].id].count, InAll(l, c2[k].id))
        BY <2>1, <3>2, Zenon
      <4> QED
        BY <4>1, <4>2
    <3>3. CASE k = Len(c) + 1
      <4>1. InAll(l, Len(o) + 1) = 0
        BY <1>1, NoCallYet DEF CallsByOrder
      <4>2. Left(n, n, 0)
        BY NewLeft
      <4>3. c2[k].id = Len(o) + 1 /\ c2[k].count = n /\ o2[Len(o) + 1].count = n /\ Len(o) + 1 \in DOMAIN o2
        BY <1>1, <1>2, <1>3, <1>4, <3>3
      <4> QED
        BY <4>1, <4>2, <4>3, Zenon
    <3> QED
      BY <3>1, <3>2, <3>3
  <2>4. ASSUME NEW j \in DOMAIN c2, NEW k \in DOMAIN c2, j < k PROVE c2[j].id < c2[k].id
    <3>1. j \in DOMAIN c /\ (k \in DOMAIN c \/ k = Len(c) + 1)
      BY <1>1, <1>4, <2>4
    <3>2. CASE k \in DOMAIN c
      <4>1. c[j].id < c[k].id
        BY <2>4, <3>1, <3>2 DEF CallsWell
      <4> QED
        BY <2>1, <3>1, <3>2, <4>1
    <3>3. CASE k = Len(c) + 1
      BY <2>1, <2>2, <3>1, <3>3
    <3> QED
      BY <3>1, <3>2, <3>3
  <2>5. ASSUME NEW i \in DOMAIN o2 PROVE (\E k \in DOMAIN c2 : c2[k].id = i) \/ o2[i].count = InAll(l, i)
    <3>1. i \in DOMAIN o \/ i = Len(o) + 1
      BY <1>1, <1>3
    <3>2. CASE i \in DOMAIN o
      <4>1. o2[i] = o[i]
        BY <1>1, <1>3, <3>2
      <4>2. (\E k \in DOMAIN c : c[k].id = i) \/ o[i].count = InAll(l, i)
        BY <3>2 DEF CallsWell
      <4> QED
        BY <2>1, <4>1, <4>2
    <3>3. CASE i = Len(o) + 1
      BY <2>2, <3>3
    <3> QED
      BY <3>1, <3>2, <3>3
  <2> QED
    BY <1>4, <2>3, <2>4, <2>5 DEF CallsWell
<1> QED
  BY <1>5, <1>6, <1>7 DEF o2, c2, e

(* What may be passed over has been used as often as it must.                *)
LEMMA CallOrder ==
  ASSUME NEW c, NEW o, NEW l \in Seq(Nat), OrderedWell(o), CallsByOrder(o, l), CallsWell(c, o, l),
         NEW k \in DOMAIN c, \A j \in 1..k - 1 : c[j].count < Always
  PROVE  CallsByOrder(o, Append(l, c[k].id))
<1> DEFINE h == c[k].id
           l2 == Append(l, h)
<1>0. c \in Seq(Calls) /\ o \in Seq(Calls) /\ DOMAIN c = 1..Len(c) /\ Len(c) \in Nat /\ Len(l) \in Nat
      /\ DOMAIN o = 1..Len(o) /\ Len(o) \in Nat
  BY DEF CallsWell, OrderedWell
<1>1. h \in DOMAIN o /\ Left(c[k].count, o[h].count, InAll(l, h)) /\ h \in Nat
  <2>1. h \in DOMAIN o /\ Left(c[k].count, o[h].count, InAll(l, h))
    BY DEF CallsWell
  <2> QED
    BY <1>0, <2>1
<1>2. \A i \in DOMAIN o : CountWell(o[i].count) /\ InAll(l, i) \in Nat
  <2>1. \A i \in DOMAIN o : CountWell(o[i].count)
    BY DEF OrderedWell
  <2> QED
    BY <2>1, TimesMore DEF InAll
<1>3. ASSUME NEW i \in 1..h - 1 PROVE InAll(l, i) >= Least(o[i].count)
  <2>1. i \in DOMAIN o
    BY <1>0, <1>1
  <2>2. CASE o[i].count = InAll(l, i)
    <3>1. o[i].count \in Int /\ o[i].count > 0
      BY <1>2, <2>1, <2>2 DEF CountWell
    <3>2. Least(o[i].count) = o[i].count
      BY <3>1 DEF Least
    <3> QED
      BY <2>2, <3>1, <3>2
  <2>3. CASE \E m \in DOMAIN c : c[m].id = i
    <3>1. PICK m \in DOMAIN c : c[m].id = i
      BY <2>3
    <3>2. m < k
      <4>1. ~(k < m) /\ m # k
        <5>1. k < m => h < i
          BY <3>1 DEF CallsWell
        <5>2. ~(h < i) /\ i # h
          BY <1>1
        <5> QED
          BY <3>1, <5>1, <5>2
      <4> QED
        BY <1>0, <4>1
    <3>3. c[m].count < Always
      BY <1>0, <3>2
    <3>4. Left(c[m].count, o[i].count, InAll(l, i))
      BY <3>1 DEF CallsWell
    <3> QED
      BY <1>2, <2>1, <3>3, <3>4, LeftBounds
  <2> QED
    BY <2>1, <2>2, <2>3 DEF CallsWell
<1> HIDE DEF h
<1>4. o[h].count > 0 => InAll(l, h) < o[h].count
  BY <1>1, <1>2, LeftBounds
<1>5. /\ l2 \in Seq(Nat) /\ Len(l2) = Len(l) + 1 /\ l2[Len(l) + 1] = h
      /\ \A m \in 1..Len(l) : l2[m] = l[m]
      /\ \A id : \A m \in 0..Len(l) : Times(l2, m, id) = Times(l, m, id)
      /\ \A id : Times(l2, Len(l) + 1, id) = InAll(l, id) + (IF h = id THEN 1 ELSE 0)
      /\ \A id : InAll(l, id) \in Nat
  BY <1>1, OneTaken
<1> HIDE DEF l2
<1>6. ASSUME NEW m \in DOMAIN l2
      PROVE  /\ l2[m] \in DOMAIN o
             /\ \A j \in 1..l2[m] - 1 : Times(l2, m - 1, j) >= Least(o[j].count)
             /\ o[l2[m]].count > 0 => Times(l2, m, l2[m]) <= o[l2[m]].count
  <2>1. m \in 1..Len(l) \/ m = Len(l) + 1
    BY <1>0, <1>5
  <2>2. CASE m \in 1..Len(l)
    <3>1. m \in DOMAIN l /\ m \in 0..Len(l) /\ m - 1 \in 0..Len(l) /\ l2[m] = l[m]
      BY <1>0, <1>5, <2>2
    <3> QED
      BY <1>5, <3>1 DEF CallsByOrder
  <2>3. CASE m = Len(l) + 1
    <3>1. l2[m] = h /\ m - 1 = Len(l) /\ Len(l) \in 0..Len(l)
      BY <1>0, <1>5, <2>3
    <3>2. ASSUME NEW j \in 1..h - 1 PROVE Times(l2, m - 1, j) >= Least(o[j].count)
      <4>1. Times(l2, m - 1, j) = InAll(l, j)
        BY <1>5, <3>1 DEF InAll
      <4> QED
        BY <1>3, <4>1
    <3>3. ASSUME o[h].count > 0 PROVE Times(l2, m, h) <= o[h].count
      <4>1. Times(l2, m, h) = InAll(l, h) + 1 /\ InAll(l, h) \in Nat /\ InAll(l, h) < o[h].count
        BY <1>4, <1>5, <2>3, <3>3
      <4>2. o[h].count \in Int
        BY <1>1, <1>2 DEF CountWell
      <4> QED
        BY <4>1, <4>2
    <3> QED
      BY <1>1, <3>1, <3>2, <3>3
  <2> QED
    BY <2>1, <2>2, <2>3
<1> QED
  BY <1>6 DEF CallsByOrder, l2, h

(* Without one of them, the others are left in their order.                  *)
LEMMA CutOne ==
  ASSUME NEW S, NEW s \in Seq(S), NEW k \in 1..Len(s)
  PROVE  LET t == SubSeq(s, 1, k - 1) \o SubSeq(s, k + 1, Len(s))
         IN  /\ t \in Seq(S)
             /\ \A m \in DOMAIN t : \E a \in DOMAIN s : a # k /\ t[m] = s[a]
             /\ \A j, m \in DOMAIN t : j < m => \E a, b \in DOMAIN s : a < b /\ t[j] = s[a] /\ t[m] = s[b]
             /\ \A a \in DOMAIN s : a # k => \E m \in DOMAIN t : t[m] = s[a]
<1> DEFINE t == SubSeq(s, 1, k - 1) \o SubSeq(s, k + 1, Len(s))
<1>1. ASSUME NEW n \in 0..Len(s) - k + 1, n = 1
      PROVE  /\ t \in Seq(S) /\ Len(t) = Len(s) - n
             /\ \A m \in 1..Len(t) : m < k => t[m] = s[m] /\ m \in 1..Len(s)
             /\ \A m \in 1..Len(t) : m >= k => t[m] = s[m + n] /\ m + n \in 1..Len(s)
  <2> DEFINE u == SubSeq(s, 1, k - 1) \o SubSeq(s, k + n, Len(s))
  <2>1. k \in 1..Len(s) + 1
    OBVIOUS
  <2>2. /\ u \in Seq(S) /\ Len(u) = Len(s) - n
        /\ \A m \in 1..Len(u) : m < k => u[m] = s[m] /\ m \in 1..Len(s)
        /\ \A m \in 1..Len(u) : m >= k => u[m] = s[m + n] /\ m + n \in 1..Len(s)
    BY <2>1, Cut
  <2>3. t = u
    BY <1>1
  <2> HIDE DEF t, u
  <2> QED
    BY <2>2, <2>3, Zenon
<1>2. 1 \in 0..Len(s) - k + 1
  OBVIOUS
<1> HIDE DEF t
<1>3. /\ t \in Seq(S) /\ Len(t) = Len(s) - 1
      /\ \A m \in 1..Len(t) : m < k => t[m] = s[m] /\ m \in 1..Len(s)
      /\ \A m \in 1..Len(t) : m >= k => t[m] = s[m + 1] /\ m + 1 \in 1..Len(s)
  BY <1>1, <1>2
<1>4. /\ Len(s) \in Nat /\ k \in Nat /\ k <= Len(s) /\ Len(t) = Len(s) - 1
      /\ \A m : m \in DOMAIN t <=> m \in Nat /\ 1 <= m /\ m <= Len(s) - 1
      /\ \A m : m \in 1..Len(t) <=> m \in Nat /\ 1 <= m /\ m <= Len(s) - 1
      /\ \A m : m \in DOMAIN s <=> m \in Nat /\ 1 <= m /\ m <= Len(s)
      /\ \A m : m \in 1..Len(s) <=> m \in Nat /\ 1 <= m /\ m <= Len(s)
  <2>1. t \in Seq(S) /\ Len(t) = Len(s) - 1 /\ Len(s) \in Nat
    BY <1>3
  <2>2. DOMAIN t = 1..Len(t) /\ DOMAIN s = 1..Len(s)
    BY <2>1
  <2>3. \A n \in Nat : \A m : m \in 1..n <=> m \in Nat /\ 1 <= m /\ m <= n
    OBVIOUS
  <2>4. Len(t) \in Nat /\ k \in Nat /\ k <= Len(s)
    BY <2>1
  <2> QED
    BY <2>1, <2>2, <2>3, <2>4, Zenon
<1> DEFINE shift(m) == IF m < k THEN m ELSE m + 1
<1>5. ASSUME NEW m \in DOMAIN t PROVE shift(m) \in DOMAIN s /\ shift(m) # k /\ t[m] = s[shift(m)]
  <2>1. m \in Nat /\ 1 <= m /\ m <= Len(s) - 1 /\ m \in 1..Len(t)
    BY <1>4, Zenon
  <2>2. CASE m < k
    <3>1. m # k /\ m \in Nat /\ 1 <= m /\ m <= Len(s)
      BY <1>4, <2>1, <2>2
    <3>2. m \in DOMAIN s /\ t[m] = s[m]
      BY <1>3, <1>4, <2>1, <2>2, <3>1, Zenon
    <3>3. shift(m) = m
      BY <2>2
    <3> QED
      BY <3>1, <3>2, <3>3, Zenon
  <2>3. CASE ~(m < k)
    <3>1. m + 1 # k /\ m >= k /\ m + 1 \in Nat /\ 1 <= m + 1 /\ m + 1 <= Len(s)
      BY <1>4, <2>1, <2>3
    <3>2. m + 1 \in DOMAIN s /\ t[m] = s[m + 1]
      BY <1>3, <1>4, <2>1, <3>1, Zenon
    <3>3. shift(m) = m + 1
      BY <2>3
    <3> QED
      BY <3>1, <3>2, <3>3, Zenon
  <2> QED
    BY <2>2, <2>3
<1>6. ASSUME NEW j \in DOMAIN t, NEW m \in DOMAIN t, j < m PROVE shift(j) < shift(m)
  <2>1. j \in Nat /\ m \in Nat
    BY <1>4, Zenon
  <2> QED
    BY <1>4, <1>6, <2>1
<1>7. ASSUME NEW a \in DOMAIN s, a # k PROVE \E m \in DOMAIN t : t[m] = s[a]
  <2>1. a \in Nat /\ 1 <= a /\ a <= Len(s)
    BY <1>4, Zenon
  <2>2. CASE a < k
    <3>1. a \in Nat /\ 1 <= a /\ a <= Len(s) - 1
      BY <1>4, <2>1, <2>2
    <3> QED
      BY <1>3, <1>4, <2>2, <3>1, Zenon
  <2>3. CASE ~(a < k)
    <3> DEFINE b == a - 1
    <3>1. b \in Nat /\ 1 <= b /\ b <= Len(s) - 1 /\ b >= k /\ b + 1 = a
      BY <1>4, <1>7, <2>1, <2>3
    <3> HIDE DEF b
    <3>2. b \in DOMAIN t /\ t[b] = s[b + 1]
      BY <1>3, <1>4, <3>1, Zenon
    <3> QED
      BY <3>1, <3>2, Zenon
  <2> QED
    BY <2>2, <2>3
<1> HIDE DEF shift
<1>8. \A m \in DOMAIN t : \E a \in DOMAIN s : a # k /\ t[m] = s[a]
  BY <1>5, Zenon
<1>9. \A j, m \in DOMAIN t : j < m => \E a, b \in DOMAIN s : a < b /\ t[j] = s[a] /\ t[m] = s[b]
  BY <1>5, <1>6, Zenon
<1> QED
  BY <1>3, <1>7, <1>8, <1>9 DEF t

LEMMA Accepting ==
  ASSUME NEW c, NEW o, NEW l \in Seq(Nat), OrderedWell(o), CallsByOrder(o, l), CallsWell(c, o, l),
         NEW k \in DOMAIN c, \A j \in 1..k - 1 : c[j].count < Always
  PROVE  LET c2 == IF c[k].count > Maybe /\ c[k].count - 1 = 0
                   THEN SubSeq(c, 1, k - 1) \o SubSeq(c, k + 1, Len(c))
                   ELSE [c EXCEPT ![k] = Used(@)]
             l2 == Append(l, c[k].id)
         IN  l2 \in Seq(Nat) /\ CallsByOrder(o, l2) /\ CallsWell(c2, o, l2)
<1> DEFINE h == c[k].id
           l2 == Append(l, h)
           n == InAll(l, h)
           c2 == IF c[k].count > Maybe /\ c[k].count - 1 = 0
                 THEN SubSeq(c, 1, k - 1) \o SubSeq(c, k + 1, Len(c))
                 ELSE [c EXCEPT ![k] = Used(@)]
<1> HIDE DEF c2
<1>0. c \in Seq(Calls) /\ o \in Seq(Calls) /\ DOMAIN c = 1..Len(c) /\ Len(c) \in Nat /\ DOMAIN o = 1..Len(o)
  BY DEF CallsWell, OrderedWell
<1>1. h \in DOMAIN o /\ Left(c[k].count, o[h].count, n) /\ CountWell(o[h].count) /\ h \in Nat
  <2>1. h \in DOMAIN o /\ Left(c[k].count, o[h].count, InAll(l, h))
    BY DEF CallsWell
  <2>2. CountWell(o[h].count)
    BY <2>1 DEF OrderedWell
  <2> QED
    BY <1>0, <2>1, <2>2
<1>2. CallsByOrder(o, l2)
  BY CallOrder DEF l2, h
<1>3. ASSUME NEW m \in DOMAIN c, m # k PROVE c[m].id # h
  <2>1. m < k \/ k < m
    BY <1>0, <1>3
  <2>2. c[m].id \in Nat /\ c[k].id \in Nat
    <3>1. c[m] \in Calls /\ c[k] \in Calls
      BY <1>0
    <3> QED
      BY <3>1 DEF Calls
  <2>3. c[m].id < c[k].id \/ c[k].id < c[m].id
    BY <2>1 DEF CallsWell
  <2> QED
    BY <2>2, <2>3
<1>a. /\ \A m \in DOMAIN c : c[m].id \in DOMAIN o /\ Left(c[m].count, o[c[m].id].count, InAll(l, c[m].id))
      /\ \A i, m \in DOMAIN c : i < m => c[i].id < c[m].id
      /\ \A i \in DOMAIN o : (\E m \in DOMAIN c : c[m].id = i) \/ o[i].count = InAll(l, i)
  BY DEF CallsWell
<1> HIDE DEF h
<1>4. /\ l2 \in Seq(Nat) /\ \A id : InAll(l2, id) = InAll(l, id) + (IF h = id THEN 1 ELSE 0)
      /\ \A id : InAll(l, id) \in Nat
  BY <1>1, OneTaken
<1> HIDE DEF l2, n
<1>5. n \in Nat /\ InAll(l2, h) = n + 1 /\ \A id : id # h => InAll(l2, id) = InAll(l, id)
  BY <1>4 DEF n
<1>6. CASE c[k].count > Maybe /\ c[k].count - 1 = 0
  <2> DEFINE t == SubSeq(c, 1, k - 1) \o SubSeq(c, k + 1, Len(c))
  <2>1. c2 = t /\ k \in 1..Len(c)
    BY <1>0, <1>6 DEF c2
  <2>2. /\ t \in Seq(Calls)
        /\ \A m \in DOMAIN t : \E a \in DOMAIN c : a # k /\ t[m] = c[a]
        /\ \A j, m \in DOMAIN t : j < m => \E a, b \in DOMAIN c : a < b /\ t[j] = c[a] /\ t[m] = c[b]
        /\ \A a \in DOMAIN c : a # k => \E m \in DOMAIN t : t[m] = c[a]
    BY <1>0, <2>1, CutOne
  <2> HIDE DEF t
  <2>3. /\ c2 \in Seq(Calls)
        /\ \A m \in DOMAIN c2 : \E a \in DOMAIN c : a # k /\ c2[m] = c[a]
        /\ \A j, m \in DOMAIN c2 : j < m => \E a, b \in DOMAIN c : a < b /\ c2[j] = c[a] /\ c2[m] = c[b]
        /\ \A a \in DOMAIN c : a # k => \E m \in DOMAIN c2 : c2[m] = c[a]
    BY <2>1, <2>2
  <2>8. o[h].count = n + 1
    BY <1>1, <1>5, <1>6, LastLeft
  <2>9. ASSUME NEW m \in DOMAIN c2
        PROVE  c2[m].id \in DOMAIN o /\ Left(c2[m].count, o[c2[m].id].count, InAll(l2, c2[m].id))
    <3>0. PICK a \in DOMAIN c : a # k /\ c2[m] = c[a]
      BY <2>3, Zenon
    <3>1. c2[m].id # h
      BY <1>3, <3>0, Zenon
    <3>2. c2[m].id \in DOMAIN o /\ Left(c2[m].count, o[c2[m].id].count, InAll(l, c2[m].id))
      BY <1>a, <3>0, Zenon
    <3> QED
      BY <1>5, <3>1, <3>2, Zenon
  <2>10. ASSUME NEW j \in DOMAIN c2, NEW m \in DOMAIN c2, j < m PROVE c2[j].id < c2[m].id
    <3>1. PICK a \in DOMAIN c, b \in DOMAIN c : a < b /\ c2[j] = c[a] /\ c2[m] = c[b]
      BY <2>3, <2>10, Zenon
    <3>2. c[a].id < c[b].id
      BY <1>a, <3>1, Zenon
    <3> QED
      BY <3>1, <3>2, Zenon
  <2>11. ASSUME NEW i \in DOMAIN o PROVE (\E m \in DOMAIN c2 : c2[m].id = i) \/ o[i].count = InAll(l2, i)
    <3>1. CASE i = h
      BY <1>5, <2>8, <3>1
    <3>2. CASE i # h
      <4>1. InAll(l2, i) = InAll(l, i)
        BY <1>5, <3>2
      <4>2. CASE \E m \in DOMAIN c : c[m].id = i
        <5>1. PICK m \in DOMAIN c : c[m].id = i
          BY <4>2
        <5>2. m # k
          BY <3>2, <5>1 DEF h
        <5> QED
          BY <2>3, <5>1, <5>2, Zenon
      <4> QED
        BY <1>a, <4>1, <4>2
    <3> QED
      BY <3>1, <3>2
  <2>12. CallsWell(c2, o, l2)
    BY <2>3, <2>9, <2>10, <2>11 DEF CallsWell
  <2> QED
    BY <1>2, <1>4, <2>12 DEF l2, h, c2
<1>7. CASE ~(c[k].count > Maybe /\ c[k].count - 1 = 0)
  <2> DEFINE e == Used(c[k])
  <2>1. c2 = [c EXCEPT ![k] = e]
    BY <1>7 DEF c2
  <2>2. /\ e \in Calls /\ e.id = h
        /\ e.count = IF c[k].count > Maybe THEN c[k].count - 1 ELSE c[k].count
    <3>0. c[k] \in Calls /\ c[k].id = h
      BY DEF CallsWell, h
    <3>1. c[k].count \in Int
      BY <3>0 DEF Calls
    <3>2. CASE c[k].count > Maybe
      <4>1. e = [c[k] EXCEPT !.count = c[k].count - 1] /\ c[k].count - 1 \in Int
        BY <3>1, <3>2 DEF Used
      <4> QED
        BY <3>0, <3>1, <3>2, <4>1 DEF Calls
    <3>3. CASE ~(c[k].count > Maybe)
      BY <3>0, <3>1, <3>3 DEF Used
    <3> QED
      BY <3>2, <3>3
  <2> HIDE DEF e
  <2>3. /\ c2 \in Seq(Calls) /\ DOMAIN c2 = DOMAIN c /\ c2[k] = e
        /\ \A m \in DOMAIN c : m # k => c2[m] = c[m]
    BY <1>0, <2>1, <2>2
  <2>4. c[k].count - 1 # 0
    <3>1. c[k].count - 1 = 0 => c[k].count > Maybe
      <4>1. c[k] \in Calls
        BY <1>0
      <4>2. c[k].count \in Int
        BY <4>1 DEF Calls
      <4> QED
        BY <4>2 DEF Maybe
    <3> QED
      BY <1>7, <3>1
  <2>5. Left(e.count, o[h].count, n + 1)
    BY <1>1, <1>5, <2>2, <2>4, TakenLeft
  <2>6. \A m \in DOMAIN c2 : c2[m].id = c[m].id
    BY <2>2, <2>3 DEF h
  <2>7. ASSUME NEW m \in DOMAIN c2
        PROVE  c2[m].id \in DOMAIN o /\ Left(c2[m].count, o[c2[m].id].count, InAll(l2, c2[m].id))
    <3>1. CASE m = k
      BY <1>1, <1>5, <2>2, <2>3, <2>5, <3>1, Zenon
    <3>2. CASE m # k
      <4>1. c2[m] = c[m] /\ c[m].id # h /\ m \in DOMAIN c
        BY <1>3, <2>3, <3>2
      <4> QED
        BY <1>5, <1>a, <4>1, Zenon
    <3> QED
      BY <3>1, <3>2
  <2>8. ASSUME NEW i \in DOMAIN o PROVE (\E m \in DOMAIN c2 : c2[m].id = i) \/ o[i].count = InAll(l2, i)
    <3>1. CASE i = h
      BY <2>2, <2>3, <3>1
    <3>2. CASE i # h
      <4>1. InAll(l2, i) = InAll(l, i)
        BY <1>5, <3>2
      <4> QED
        BY <1>a, <2>3, <2>6, <4>1, Zenon
    <3> QED
      BY <3>1, <3>2
  <2>9. CallsWell(c2, o, l2)
    BY <1>a, <2>3, <2>6, <2>7, <2>8, Zenon DEF CallsWell
  <2> QED
    BY <1>2, <1>4, <2>9 DEF l2, h, c2
<1> QED
  BY <1>6, <1>7 DEF c2

LEMMA CallsUsed ==
  ASSUME NEW c, NEW o, NEW l \in Seq(Nat), OrderedWell(o), CallsWell(c, o, l),
         { k \in DOMAIN c : c[k].count >= Always } = {}
  PROVE  \A k \in DOMAIN o : InAll(l, o[k].id) >= Least(o[k].count)
<1> SUFFICES ASSUME NEW i \in DOMAIN o PROVE InAll(l, o[i].id) >= Least(o[i].count)
  OBVIOUS
<1>1. o[i].id = i /\ CountWell(o[i].count) /\ InAll(l, i) \in Nat
  <2>1. o[i].id = i /\ CountWell(o[i].count)
    BY DEF OrderedWell
  <2>2. Len(l) \in Nat
    OBVIOUS
  <2> QED
    BY <2>1, <2>2, TimesMore DEF InAll
<1>2. CASE o[i].count = InAll(l, i)
  <2>1. o[i].count \in Int /\ o[i].count > 0
    BY <1>1, <1>2 DEF CountWell
  <2>2. Least(o[i].count) = o[i].count
    BY <2>1 DEF Least
  <2> QED
    BY <1>1, <1>2, <2>1, <2>2
<1>3. CASE \E m \in DOMAIN c : c[m].id = i
  <2>1. PICK m \in DOMAIN c : c[m].id = i
    BY <1>3
  <2>2. Left(c[m].count, o[i].count, InAll(l, i))
    BY <2>1 DEF CallsWell
  <2>3. c[m].count < Always
    <3>1. ~(c[m].count >= Always) /\ c[m].count \in Int
      BY <1>1, <2>2, LeftBounds
    <3> QED
      BY <3>1 DEF Always
  <2> QED
    BY <1>1, <2>2, <2>3, LeftBounds
<1> QED
  BY <1>2, <1>3 DEF CallsWell

LEMMA CallsOwe ==
  ASSUME NEW c, NEW o, NEW l \in Seq(Nat), OrderedWell(o), CallsWell(c, o, l),
         { k \in DOMAIN c : c[k].count >= Always } # {}
  PROVE  \E k \in DOMAIN o : ~(InAll(l, o[k].id) >= Least(o[k].count))
<1>1. PICK m \in DOMAIN c : c[m].count >= Always
  OBVIOUS
<1> DEFINE i == c[m].id
<1>2. i \in DOMAIN o /\ Left(c[m].count, o[i].count, InAll(l, i))
  BY DEF CallsWell
<1>3. o[i].id = i /\ CountWell(o[i].count) /\ InAll(l, i) \in Nat
  <2>1. o[i].id = i /\ CountWell(o[i].count)
    BY <1>2 DEF OrderedWell
  <2>2. Len(l) \in Nat
    OBVIOUS
  <2> QED
    BY <2>1, <2>2, TimesMore DEF InAll
<1> HIDE DEF i
<1> QED
  BY <1>1, <1>2, <1>3, LeftBounds

-----------------------------------------------------------------------------
(* All of the mocks                                                          *)

DeclaredInv ==
  /\ declared \in [Symbols -> Seq(Entries)] /\ taken \in [Symbols -> Seq(Nat)] /\ called \in Seq(Nat)
  /\ \A s \in Symbols : DeclaredWell(declared[s]) /\ ByOrder(declared[s], taken[s])
  /\ OrderedWell(ordered) /\ CallsByOrder(ordered, called)

QueuesInv ==
  /\ queues \in [Symbols -> Seq(Entries)]
  /\ \A s \in Symbols : QueueWell(queues[s], declared[s], taken[s])
  /\ CallsWell(calls, ordered, called)

NoMocks == queues = Nothing /\ calls = <<>>
MocksInv == DeclaredInv /\ (QueuesInv \/ (NoMocks /\ ~Running(at)))

(* What a function does to them while it runs                                *)
MocksMove ==
  \/ \E s \in Symbols, n \in Counts : Declare(s, n)
  \/ \E f \in Callees, n \in Counts : ExpectFunctionCall(f, n)
  \/ \E s \in Symbols : TakeValue(s)
  \/ \E f \in Callees : AcceptCall(f)
  \/ UNCHANGED mocks

LEMMA OneChanged ==
  ASSUME NEW D, NEW R, NEW f \in [D -> R], NEW s \in D, NEW x \in R
  PROVE  LET h == [f EXCEPT ![s] = x]
         IN  h \in [D -> R] /\ h[s] = x /\ \A u \in D : u # s => h[u] = f[u]
  OBVIOUS

LEMMA CountsWell ==
  ASSUME NEW n \in Counts
  PROVE  CountWell(n)
  BY MockAssumption DEF CountWell, Maybe

LEMMA Declares ==
  ASSUME DeclaredInv, QueuesInv, NEW s \in Symbols, NEW n \in Counts, Declare(s, n)
  PROVE  DeclaredInv' /\ QueuesInv'
<1> DEFINE e == [id |-> Len(declared[s]) + 1, count |-> n]
           q == Append(queues[s], e)
           d == Append(declared[s], e)
<1>1. /\ DeclaredWell(declared[s]) /\ ByOrder(declared[s], taken[s]) /\ taken[s] \in Seq(Nat)
      /\ QueueWell(queues[s], declared[s], taken[s]) /\ CountWell(n)
  BY CountsWell DEF DeclaredInv, QueuesInv
<1>2. DeclaredWell(d) /\ ByOrder(d, taken[s]) /\ QueueWell(q, d, taken[s])
  BY <1>1, Declaring
<1>3. q \in Seq(Entries) /\ d \in Seq(Entries)
  BY <1>2 DEF DeclaredWell, QueueWell
<1>4. queues' = [queues EXCEPT ![s] = q] /\ declared' = [declared EXCEPT ![s] = d]
      /\ UNCHANGED <<calls, taken, ordered, called>>
  BY DEF Declare
<1> HIDE DEF q, d
<1>5. /\ queues' \in [Symbols -> Seq(Entries)] /\ queues'[s] = q
      /\ \A u \in Symbols : u # s => queues'[u] = queues[u]
  BY <1>3, <1>4, OneChanged DEF QueuesInv
<1>6. /\ declared' \in [Symbols -> Seq(Entries)] /\ declared'[s] = d
      /\ \A u \in Symbols : u # s => declared'[u] = declared[u]
  BY <1>3, <1>4, OneChanged DEF DeclaredInv
<1>7. ASSUME NEW u \in Symbols
      PROVE  /\ DeclaredWell(declared'[u]) /\ ByOrder(declared'[u], taken'[u])
             /\ QueueWell(queues'[u], declared'[u], taken'[u])
  <2>1. CASE u = s
    BY <1>2, <1>4, <1>5, <1>6, <2>1, Zenon
  <2>2. CASE u # s
    BY <1>4, <1>5, <1>6, <2>2, Zenon DEF DeclaredInv, QueuesInv
  <2> QED
    BY <2>1, <2>2
<1>8. DeclaredInv'
  BY <1>4, <1>6, <1>7, Zenon DEF DeclaredInv
<1>9. QueuesInv'
  BY <1>4, <1>5, <1>7, Zenon DEF QueuesInv
<1> QED
  BY <1>8, <1>9

LEMMA Takes ==
  ASSUME DeclaredInv, QueuesInv, NEW s \in Symbols, TakeValue(s)
  PROVE  DeclaredInv' /\ QueuesInv'
<1> DEFINE q == Taken(queues[s])
           t == Append(taken[s], Head(queues[s]).id)
<1>1. /\ DeclaredWell(declared[s]) /\ ByOrder(declared[s], taken[s]) /\ taken[s] \in Seq(Nat)
      /\ QueueWell(queues[s], declared[s], taken[s]) /\ queues[s] # <<>>
  BY DEF DeclaredInv, QueuesInv, TakeValue
<1>2. t \in Seq(Nat) /\ ByOrder(declared[s], t) /\ QueueWell(q, declared[s], t)
  BY <1>1, Taking
<1>3. q \in Seq(Entries)
  BY <1>2 DEF QueueWell
<1>4. queues' = [queues EXCEPT ![s] = q] /\ taken' = [taken EXCEPT ![s] = t]
      /\ UNCHANGED <<calls, declared, ordered, called>>
  BY DEF TakeValue
<1> HIDE DEF q, t
<1>5. /\ queues' \in [Symbols -> Seq(Entries)] /\ queues'[s] = q
      /\ \A u \in Symbols : u # s => queues'[u] = queues[u]
  BY <1>3, <1>4, OneChanged DEF QueuesInv
<1>6. /\ taken' \in [Symbols -> Seq(Nat)] /\ taken'[s] = t
      /\ \A u \in Symbols : u # s => taken'[u] = taken[u]
  BY <1>2, <1>4, OneChanged DEF DeclaredInv
<1>7. ASSUME NEW u \in Symbols
      PROVE  /\ DeclaredWell(declared'[u]) /\ ByOrder(declared'[u], taken'[u])
             /\ QueueWell(queues'[u], declared'[u], taken'[u])
  <2>1. CASE u = s
    BY <1>1, <1>2, <1>4, <1>5, <1>6, <2>1, Zenon
  <2>2. CASE u # s
    BY <1>4, <1>5, <1>6, <2>2, Zenon DEF DeclaredInv, QueuesInv
  <2> QED
    BY <2>1, <2>2
<1>8. DeclaredInv'
  BY <1>4, <1>6, <1>7, Zenon DEF DeclaredInv
<1>9. QueuesInv'
  BY <1>4, <1>5, <1>7, Zenon DEF QueuesInv
<1> QED
  BY <1>8, <1>9

LEMMA Expects ==
  ASSUME DeclaredInv, QueuesInv, NEW f \in Callees, NEW n \in Counts, ExpectFunctionCall(f, n)
  PROVE  DeclaredInv' /\ QueuesInv'
<1> DEFINE e == [id |-> Len(ordered) + 1, of |-> f, count |-> n]
           c == Append(calls, e)
           o == Append(ordered, e)
<1>1. OrderedWell(ordered) /\ CallsByOrder(ordered, called) /\ CallsWell(calls, ordered, called)
      /\ called \in Seq(Nat) /\ CountWell(n)
  BY CountsWell DEF DeclaredInv, QueuesInv
<1>2. OrderedWell(o) /\ CallsByOrder(o, called) /\ CallsWell(c, o, called)
  BY <1>1, Expecting
<1>3. calls' = c /\ ordered' = o /\ UNCHANGED <<queues, declared, taken, called>>
  BY DEF ExpectFunctionCall
<1> HIDE DEF c, o
<1> QED
  BY <1>2, <1>3, Zenon DEF DeclaredInv, QueuesInv

LEMMA Accepts ==
  ASSUME DeclaredInv, QueuesInv, NEW f, AcceptCall(f)
  PROVE  DeclaredInv' /\ QueuesInv'
<1>1. PICK k \in CallFound(f) :
        /\ calls' = IF calls[k].count > Maybe /\ calls[k].count - 1 = 0
                    THEN SubSeq(calls, 1, k - 1) \o SubSeq(calls, k + 1, Len(calls))
                    ELSE [calls EXCEPT ![k] = Used(@)]
        /\ called' = Append(called, calls[k].id)
        /\ UNCHANGED <<queues, declared, taken, ordered>>
  BY DEF AcceptCall
<1>2. k \in DOMAIN calls /\ \A j \in 1..k - 1 : calls[j].count < Always
  BY DEF CallFound
<1>3. OrderedWell(ordered) /\ CallsByOrder(ordered, called) /\ CallsWell(calls, ordered, called)
      /\ called \in Seq(Nat)
  BY DEF DeclaredInv, QueuesInv
<1>4. called' \in Seq(Nat) /\ CallsByOrder(ordered, called') /\ CallsWell(calls', ordered, called')
  BY <1>1, <1>2, <1>3, Accepting
<1> QED
  BY <1>1, <1>3, <1>4, Zenon DEF DeclaredInv, QueuesInv

LEMMA MocksMoved ==
  ASSUME DeclaredInv, QueuesInv, MocksMove
  PROVE  DeclaredInv' /\ QueuesInv'
<1>1. UNCHANGED mocks => DeclaredInv' /\ QueuesInv'
  <2>1. UNCHANGED mocks => UNCHANGED <<queues, calls, declared, taken, ordered, called>>
    BY DEF mocks
  <2> QED
    BY <2>1, Zenon DEF DeclaredInv, QueuesInv
<1> QED
  BY <1>1, Declares, Expects, Takes, Accepts, Zenon DEF MocksMove

(* What is left over when everything has been used                           *)
Owing ==
  \/ ~AllUsed
  \/ \E s \in Symbols : \E k \in DOMAIN declared[s] :
       k > 1 /\ declared[s][k].count = Maybe /\ declared[s][k - 1].count < 0

LEMMA NothingLeft ==
  ASSUME DeclaredInv, QueuesInv, ~LeftoverValues
  PROVE  AllUsed
<1>1. /\ \A s \in Symbols : Remaining(queues[s]) = <<>>
      /\ { k \in DOMAIN calls : calls[k].count >= Always } = {}
  BY DEF LeftoverValues, RemainingCalls
<1>2. ASSUME NEW s \in Symbols
      PROVE  \A k \in DOMAIN declared[s] : InAll(taken[s], declared[s][k].id) >= Least(declared[s][k].count)
  <2>1. /\ DeclaredWell(declared[s]) /\ taken[s] \in Seq(Nat) /\ QueueWell(queues[s], declared[s], taken[s])
        /\ Remaining(queues[s]) = <<>>
    BY <1>1 DEF DeclaredInv, QueuesInv
  <2> QED
    BY <2>1, QueueUsed
<1>3. \A k \in DOMAIN ordered : InAll(called, ordered[k].id) >= Least(ordered[k].count)
  BY <1>1, CallsUsed DEF DeclaredInv, QueuesInv
<1> QED
  BY <1>2, <1>3, Zenon DEF AllUsed

LEMMA SomethingLeft ==
  ASSUME DeclaredInv, QueuesInv, LeftoverValues
  PROVE  Owing
<1>1. CASE \E s \in Symbols : Remaining(queues[s]) # <<>>
  <2>1. PICK s \in Symbols : Remaining(queues[s]) # <<>>
    BY <1>1
  <2>2. DeclaredWell(declared[s]) /\ taken[s] \in Seq(Nat) /\ QueueWell(queues[s], declared[s], taken[s])
    BY DEF DeclaredInv, QueuesInv
  <2>3. \/ \E k \in DOMAIN declared[s] : ~(InAll(taken[s], declared[s][k].id) >= Least(declared[s][k].count))
        \/ \E k \in DOMAIN declared[s] :
             k > 1 /\ declared[s][k].count = Maybe /\ declared[s][k - 1].count < 0
    BY <2>1, <2>2, QueueOwes
  <2> QED
    BY <2>3, Zenon DEF Owing, AllUsed
<1>2. CASE RemainingCalls # {}
  <2>1. { k \in DOMAIN calls : calls[k].count >= Always } # {}
    BY <1>2 DEF RemainingCalls
  <2>2. \E k \in DOMAIN ordered : ~(InAll(called, ordered[k].id) >= Least(ordered[k].count))
    BY <2>1, CallsOwe DEF DeclaredInv, QueuesInv
  <2> QED
    BY <2>2, Zenon DEF Owing, AllUsed
<1> QED
  BY <1>1, <1>2 DEF LeftoverValues

-----------------------------------------------------------------------------
(* What a step of a function does to itself and to the mocks                 *)

FrameInv ==
  /\ at \in {"idle", "body", "checks", "exited", "aborted", "crashed", "wild"}
  /\ legacy \in BOOLEAN /\ kind \in {"test", "setup", "teardown"} /\ buffered \in BOOLEAN
  /\ todo \in Seq({"blocks", "values"}) /\ does.most \in Nat /\ steps \in 0..does.most
  /\ rc \in Results \cup {-1, 0} /\ (why # "" => rc = -1) /\ (Running(at) => why = "")
  /\ running \in BOOLEAN /\ (Running(at) => running) /\ (running => Running(at) \/ Ended)
  /\ skip \in {"", "test", "setup", "teardown", "legacy"}
  /\ expecting \in BOOLEAN /\ inside \in BOOLEAN /\ left \in BOOLEAN
  /\ (inside => at = "body" /\ expecting)
  /\ message \subseteq 1..nth /\ (nth = 0 => rc = 0 /\ cp \in Points)

Continues ==
  at = "body" /\ at' = "body" /\ UNCHANGED <<todo, why, rc, running>> /\ MocksMove
Leaves ==
  /\ why' # "" /\ rc' = -1 /\ todo' = <<>> /\ (why' = "leftover" => LeftoverValues)
  /\ \/ at' = "aborted" /\ UNCHANGED <<running, mocks>>
     \/ at' = "idle" /\ running' = FALSE /\ TeardownTesting
Returns ==
  at = "body" /\ at' = "checks" /\ rc' \in Results \cup {0} /\ UNCHANGED <<todo, why, running, mocks>>
ChecksOne ==
  /\ at = "checks" /\ at' = "checks" /\ todo # <<>> /\ todo' = Tail(todo)
  /\ Head(todo) = "values" => ~LeftoverValues
  /\ UNCHANGED <<rc, why, running, mocks>>
PassesNow ==
  /\ at = "checks" /\ todo = <<>> /\ at' = "idle" /\ running' = FALSE /\ TeardownTesting
  /\ UNCHANGED <<rc, why, todo>>
GoesWild == at = "body" /\ at' = "wild" /\ UNCHANGED <<todo, rc, why, running, mocks>>

FunctionDoes ==
  /\ Running(at) /\ UNCHANGED <<nth, cp, kind, legacy, buffered>>
  /\ steps' \in 0..does.most
  /\ message' = message \/ message' = message \cup {nth}
  /\ skip' = skip \/ skip' = IF legacy THEN "legacy" ELSE kind
  /\ expecting' \in BOOLEAN /\ inside' \in BOOLEAN /\ left' \in BOOLEAN
  /\ (inside' => at' = "body" /\ expecting')
  /\ Continues \/ Leaves \/ Returns \/ ChecksOne \/ PassesNow \/ GoesWild

LEMMA GoingOn ==
  ASSUME FrameInv, at = "body", Goes, steps < does.most, MocksMove,
         expecting' \in BOOLEAN, inside' \in BOOLEAN, inside' => expecting'
  PROVE  FunctionDoes
<1>1. /\ UNCHANGED <<at, legacy, kind, todo, cp, nth, rc, why, running, skip, left, buffered, message>>
      /\ steps' = steps + 1
  BY DEF Goes
<1>2. steps' \in 0..does.most
  <2>1. does.most \in Nat /\ steps \in 0..does.most
    BY DEF FrameInv
  <2> QED
    BY <1>1, <2>1
<1>3. Continues
  BY <1>1 DEF Continues
<1>4. Running(at) /\ left' \in BOOLEAN
  BY <1>1 DEF Running, FrameInv
<1> QED
  BY <1>1, <1>2, <1>3, <1>4, Zenon DEF FunctionDoes

LEMMA NoStep == \A n \in Nat : 0 \in 0..n
  OBVIOUS

LEMMA LeavingNow ==
  ASSUME FrameInv, Running(at), NEW reason, NEW flag, Leave(reason, flag), reason # "",
         reason = "leftover" => LeftoverValues, expecting' \in BOOLEAN,
         flag = skip \/ flag = IF legacy THEN "legacy" ELSE kind
  PROVE  FunctionDoes
<1>1. /\ why' = reason /\ rc' = -1 /\ skip' = flag /\ inside' = FALSE /\ steps' = 0 /\ todo' = <<>>
      /\ message' = IF buffered THEN message \cup {nth} ELSE message
      /\ \/ at' = "aborted" /\ UNCHANGED <<running, mocks>>
         \/ at' = "idle" /\ running' = FALSE /\ TeardownTesting
      /\ UNCHANGED <<legacy, kind, cp, nth, buffered>>
  BY DEF Leave
<1>2. left' \in BOOLEAN
  <2>1. left' = (left \/ (inside /\ reason # "no assert"))
    BY DEF Leave
  <2> QED
    BY <2>1, Zenon
<1>3. steps' \in 0..does.most
  <2>1. does.most \in Nat
    BY DEF FrameInv
  <2> QED
    BY <1>1, <2>1, NoStep, Zenon
<1>4. Leaves
  BY <1>1, Zenon DEF Leaves
<1>5. message' = message \/ message' = message \cup {nth}
  BY <1>1, Zenon
<1>6. inside' \in BOOLEAN /\ ~inside'
  BY <1>1
<1>7. skip' = skip \/ skip' = IF legacy THEN "legacy" ELSE kind
  BY <1>1, Zenon
<1> QED
  BY <1>1, <1>2, <1>3, <1>4, <1>5, <1>6, <1>7, Zenon DEF FunctionDoes

LEMMA FailingNow ==
  ASSUME FrameInv, Running(at), NEW reason, Fail(reason), reason # "",
         reason = "leftover" => LeftoverValues
  PROVE  FunctionDoes
<1>1. Leave(reason, skip) /\ expecting' = expecting
  BY DEF Fail
<1>2. expecting' \in BOOLEAN
  BY <1>1 DEF FrameInv
<1> QED
  BY <1>1, <1>2, LeavingNow, Zenon

LEMMA DoesCheck ==
  ASSUME FrameInv, at = "checks", todo # <<>>, CheckPassed, Head(todo) = "values" => ~LeftoverValues
  PROVE  FunctionDoes
<1>1. /\ todo' = Tail(todo)
      /\ UNCHANGED <<at, legacy, kind, cp, nth, steps, rc, why, running, skip, expecting,
                     inside, left, buffered, message, mocks>>
  BY DEF CheckPassed
<1>2. ChecksOne
  BY <1>1 DEF ChecksOne
<1>3. Running(at) /\ steps' \in 0..does.most /\ ~inside
  BY <1>1 DEF FrameInv, Running
<1>4. expecting' \in BOOLEAN /\ inside' \in BOOLEAN /\ left' \in BOOLEAN /\ ~inside'
  BY <1>1, <1>3, Zenon DEF FrameInv
<1> QED
  BY <1>1, <1>2, <1>3, <1>4, Zenon DEF FunctionDoes

(* Why it may fail while it runs                                             *)
Reasons ==
  {"no value", "check", "exception", "call", "no memory", "guard", "assert", "fail", "mock assert", "leak"}

LEMMA FunctionDoing ==
  ASSUME FrameInv, FunctionStep
  PROVE  FunctionDoes
<1>a. ASSUME NEW what, Step(what) PROVE at = "body" /\ steps < does.most /\ Running(at)
  BY <1>a DEF Step, Running
<1>b. UNCHANGED mocks => MocksMove
  BY Zenon DEF MocksMove
<1>c. expecting \in BOOLEAN /\ inside \in BOOLEAN /\ (inside => expecting)
  BY DEF FrameInv
<1>d. ASSUME at = "body", steps < does.most, GoesOn, MocksMove PROVE FunctionDoes
  <2>1. Goes /\ expecting' = expecting /\ inside' = inside
    BY <1>d DEF GoesOn
  <2>2. expecting' \in BOOLEAN /\ inside' \in BOOLEAN /\ (inside' => expecting')
    BY <1>c, <2>1
  <2> QED
    BY <1>d, <2>1, <2>2, GoingOn, Zenon
<1>e. \A reason : Fails(reason) => Fail(reason)
  BY DEF Fails
<1>f. ASSUME NEW reason, Fail(reason), Running(at), reason # "", reason # "leftover" PROVE FunctionDoes
  BY <1>f, FailingNow, Zenon
<1>g. \A r \in Reasons : r # "" /\ r # "leftover"
  BY DEF Reasons
<1>h. ASSUME NEW r \in Reasons, Fail(r), Running(at)
      PROVE  FunctionDoes
  BY <1>f, <1>g, <1>h, Zenon
<1>i. ASSUME NEW r \in Reasons, Fails(r), Running(at)
      PROVE  FunctionDoes
  BY <1>e, <1>h, <1>i, Zenon
<1>j. /\ "no value" \in Reasons /\ "check" \in Reasons /\ "exception" \in Reasons /\ "call" \in Reasons
      /\ "no memory" \in Reasons /\ "guard" \in Reasons /\ "assert" \in Reasons /\ "fail" \in Reasons
      /\ "mock assert" \in Reasons /\ "leak" \in Reasons
  BY DEF Reasons
<1>1. CASE DeclareValue
  <2>1. at = "body" /\ steps < does.most /\ GoesOn /\ \E s \in Symbols, n \in Counts : Declare(s, n)
    BY <1>1, <1>a, Zenon DEF DeclareValue
  <2> QED
    BY <2>1, <1>d, Zenon DEF MocksMove
<1>2. CASE DeclareCall
  <2>1. at = "body" /\ steps < does.most /\ GoesOn /\ \E f \in Callees, n \in Counts : ExpectFunctionCall(f, n)
    BY <1>2, <1>a, Zenon DEF DeclareCall
  <2> QED
    BY <2>1, <1>d, Zenon DEF MocksMove
<1>3. CASE Malloc
  <2>1. at = "body" /\ steps < does.most /\ Running(at) /\ ((GoesOn /\ UNCHANGED mocks) \/ Fails("no memory"))
    BY <1>3, <1>a, Zenon DEF Malloc
  <2> QED
    BY <2>1, <1>b, <1>d, <1>i, <1>j, Zenon
<1>4. CASE AssertThat
  <2>1. at = "body" /\ steps < does.most /\ Running(at)
        /\ ((Goes /\ UNCHANGED <<expecting, inside>> /\ UNCHANGED mocks) \/ Fail("assert"))
    <3>1. \E k \in Comparisons :
            IF AssertionPasses(k) THEN Goes /\ UNCHANGED <<expecting, inside, heap, mocks>>
            ELSE Fail("assert") /\ UNCHANGED heap
      BY <1>4, Zenon DEF AssertThat
    <3>2. (Goes /\ UNCHANGED <<expecting, inside, heap, mocks>>) \/ Fail("assert")
      BY <3>1, Zenon
    <3>3. at = "body" /\ steps < does.most /\ Running(at)
      BY <1>4, <1>a, Zenon DEF AssertThat
    <3> QED
      BY <3>2, <3>3
  <2>2. CASE Goes /\ UNCHANGED <<expecting, inside>> /\ UNCHANGED mocks
    <3>1. expecting' \in BOOLEAN /\ inside' \in BOOLEAN /\ (inside' => expecting')
      BY <2>2, <1>c
    <3> QED
      BY <2>1, <2>2, <3>1, <1>b, GoingOn, Zenon
  <2> QED
    BY <2>1, <2>2, <1>h, <1>j, Zenon
<1>5. CASE GiveUp
  <2>1. Running(at)
    BY <1>5, <1>a, Zenon DEF GiveUp
  <2>2. CASE \E reason \in {"fail", "exception"} : Fails(reason)
    <3>1. Fails("fail") \/ Fails("exception")
      BY <2>2
    <3> QED
      BY <2>1, <3>1, <1>i, <1>j, Zenon
  <2>3. CASE Leave("skip", IF legacy THEN "legacy" ELSE kind) /\ UNCHANGED expecting
    <3>1. expecting' \in BOOLEAN /\ "skip" # "" /\ "skip" # "leftover"
      BY <2>3, <1>c
    <3> QED
      BY <2>1, <2>3, <3>1, LeavingNow
  <2> QED
    BY <1>5, <2>2, <2>3 DEF GiveUp
<1>6. ASSUME NEW s \in Mocks, Mock(s) PROVE FunctionDoes
  <2>1. at = "body" /\ steps < does.most /\ Running(at) /\ ((GoesOn /\ TakeValue(s)) \/ Fails("no value"))
    BY <1>6, <1>a, Zenon DEF Mock
  <2>2. TakeValue(s) => MocksMove
    BY Zenon DEF MocksMove, Symbols
  <2> QED
    BY <2>1, <2>2, <1>d, <1>i, <1>j, Zenon
<1>7. ASSUME NEW p \in Parameters, CheckExpected(p) PROVE FunctionDoes
  <2>1. /\ at = "body" /\ steps < does.most /\ Running(at)
        /\ (GoesOn /\ TakeValue(p)) \/ Fails("check") \/ Fails("no value")
    <3>1. (GoesOn /\ TakeValue(p)) \/ Fails(IF queues[p] # <<>> THEN "check" ELSE "no value")
      BY <1>7, Zenon DEF CheckExpected
    <3>2. queues[p] # <<>> \/ ~(queues[p] # <<>>)
      OBVIOUS
    <3>3. at = "body" /\ steps < does.most /\ Running(at)
      BY <1>7, <1>a, Zenon DEF CheckExpected
    <3> QED
      BY <3>1, <3>2, <3>3, Zenon
  <2>2. TakeValue(p) => MocksMove
    BY Zenon DEF MocksMove, Symbols
  <2> QED
    BY <2>1, <2>2, <1>d, <1>i, <1>j, Zenon
<1>8. ASSUME NEW f \in Callees, FunctionCalled(f) PROVE FunctionDoes
  <2>1. /\ at = "body" /\ steps < does.most /\ Running(at)
        /\ (GoesOn /\ AcceptCall(f)) \/ Fails("exception") \/ Fails("call")
    <3>1. (GoesOn /\ AcceptCall(f)) \/ Fails(IF CallCrashes(f) THEN "exception" ELSE "call")
      BY <1>8, Zenon DEF FunctionCalled
    <3>2. at = "body" /\ steps < does.most /\ Running(at)
      BY <1>8, <1>a, Zenon DEF FunctionCalled
    <3> QED
      BY <3>1, <3>2, Zenon
  <2>2. AcceptCall(f) => MocksMove
    BY Zenon DEF MocksMove
  <2> QED
    BY <2>1, <2>2, <1>d, <1>i, <1>j, Zenon
<1>9. ASSUME NEW a \in Addresses, Free(a) \/ Realloc(a) PROVE FunctionDoes
  <2>1. /\ at = "body" /\ steps < does.most /\ Running(at)
        /\ (GoesOn /\ UNCHANGED mocks) \/ Fail("guard")
    BY <1>9, <1>a, <1>e, Zenon DEF Free, Realloc
  <2> QED
    BY <2>1, <1>b, <1>d, <1>h, <1>j, Zenon
<1>10. ASSUME NEW a \in Addresses, Corrupt(a) PROVE FunctionDoes
  <2>1. at = "body" /\ steps < does.most /\ GoesOn /\ UNCHANGED mocks
    BY <1>10, <1>a, Zenon DEF Corrupt
  <2> QED
    BY <2>1, <1>b, <1>d, Zenon
<1>11. CASE ExpectAssertFailure
  <2>1. at = "body" /\ steps < does.most /\ Goes /\ UNCHANGED mocks /\ inside' = TRUE /\ expecting' = TRUE
    BY <1>11, <1>a, Zenon DEF ExpectAssertFailure
  <2>2. expecting' \in BOOLEAN /\ inside' \in BOOLEAN /\ (inside' => expecting')
    BY <2>1
  <2> QED
    BY <2>1, <2>2, <1>b, GoingOn, Zenon
<1>12. CASE MockAssert
  <2>1. at = "body" /\ steps < does.most /\ Running(at)
    BY <1>12, <1>a, Zenon DEF MockAssert
  <2>2. CASE expecting /\ inside
    <3>1. Goes /\ UNCHANGED mocks /\ inside' = FALSE /\ expecting' = FALSE
      BY <1>12, <2>2 DEF MockAssert
    <3>2. expecting' \in BOOLEAN /\ inside' \in BOOLEAN /\ (inside' => expecting')
      BY <3>1
    <3> QED
      BY <2>1, <3>1, <3>2, <1>b, GoingOn, Zenon
  <2>3. CASE expecting /\ ~inside
    <3>1. /\ at' = "wild"
          /\ UNCHANGED <<legacy, kind, todo, cp, nth, steps, rc, why, running, skip, expecting, inside, left,
                         buffered, message, mocks>>
      BY <1>12, <2>3 DEF MockAssert
    <3>2. GoesWild
      BY <2>1, <3>1 DEF GoesWild
    <3>3. expecting' \in BOOLEAN /\ inside' \in BOOLEAN /\ left' \in BOOLEAN /\ ~inside' /\ steps' \in 0..does.most
      BY <2>3, <3>1 DEF FrameInv
    <3> QED
      BY <2>1, <3>1, <3>2, <3>3, Zenon DEF FunctionDoes
  <2>4. CASE ~expecting
    <3>1. Fails("mock assert")
      BY <1>12, <2>4 DEF MockAssert
    <3> QED
      BY <2>1, <3>1, <1>i, <1>j, Zenon
  <2> QED
    BY <2>2, <2>3, <2>4, Zenon
<1>13. CASE AssertMissed
  <2>1. at = "body" /\ Leave("no assert", skip) /\ expecting' = FALSE
    BY <1>13 DEF AssertMissed
  <2>2. Running(at) /\ expecting' \in BOOLEAN /\ "no assert" # "" /\ "no assert" # "leftover"
    BY <2>1 DEF Running
  <2> QED
    BY <2>1, <2>2, LeavingNow, Zenon
<1>14. CASE Return
  <2>1. /\ at = "body" /\ ~inside /\ at' = "checks" /\ steps' = 0
        /\ rc' \in IF kind = "test" \/ legacy THEN {0} ELSE Results
        /\ UNCHANGED <<legacy, kind, todo, cp, nth, why, running, skip, expecting, inside,
                 left, buffered, message, mocks>>
    BY <1>14 DEF Return
  <2>2. rc' \in Results \cup {0}
    BY <2>1
  <2>3. Returns
    BY <2>1, <2>2 DEF Returns
  <2>4. Running(at) /\ steps' \in 0..does.most
    <3>1. does.most \in Nat
      BY DEF FrameInv
    <3> QED
      BY <2>1, <3>1 DEF Running
  <2>5. expecting' \in BOOLEAN /\ inside' \in BOOLEAN /\ left' \in BOOLEAN /\ ~inside'
    BY <2>1, Zenon DEF FrameInv
  <2> QED
    BY <2>1, <2>3, <2>4, <2>5, Zenon DEF FunctionDoes
<1>15. CASE FunctionPasses
  <2>1. /\ at = "checks" /\ todo = <<>> /\ at' = "idle" /\ running' = FALSE /\ TeardownTesting
        /\ UNCHANGED <<legacy, kind, todo, cp, nth, steps, rc, why, skip, expecting, inside, left, buffered, message>>
    BY <1>15 DEF FunctionPasses
  <2>2. PassesNow
    BY <2>1 DEF PassesNow
  <2>3. Running(at) /\ steps' \in 0..does.most /\ ~inside
    BY <2>1 DEF FrameInv, Running
  <2>4. expecting' \in BOOLEAN /\ inside' \in BOOLEAN /\ left' \in BOOLEAN /\ ~inside'
    BY <2>1, <2>3, Zenon DEF FrameInv
  <2> QED
    BY <2>1, <2>2, <2>3, <2>4, Zenon DEF FunctionDoes
<1>16. CASE CheckBlocks
  <2>1. at = "checks" /\ todo # <<>> /\ Head(todo) = "blocks" /\ Running(at)
    BY <1>16 DEF CheckBlocks, Running
  <2>2. CheckPassed \/ Fail("leak") \/ Fail("exception")
    BY <1>16, Zenon DEF CheckBlocks, Fails
  <2>3. Head(todo) # "values"
    BY <2>1
  <2> QED
    BY <2>1, <2>2, <2>3, <1>h, <1>j, DoesCheck, Zenon
<1>17. CASE CheckValues
  <2>1. at = "checks" /\ todo # <<>> /\ Head(todo) = "values" /\ Running(at)
    BY <1>17 DEF CheckValues, Running
  <2>2. (LeftoverValues /\ Fails("leftover")) \/ (~LeftoverValues /\ CheckPassed)
    BY <1>17, Zenon DEF CheckValues
  <2>3. "leftover" # ""
    OBVIOUS
  <2> QED
    BY <2>1, <2>2, <2>3, <1>e, DoesCheck, FailingNow, Zenon
<1> QED
  BY <1>1, <1>2, <1>3, <1>4, <1>5, <1>6, <1>7, <1>8, <1>9, <1>10, <1>11, <1>12, <1>13, <1>14, <1>15, <1>16, <1>17
  DEF FunctionStep

-----------------------------------------------------------------------------
(* What is declared is used, or the function does not pass.                  *)

Holds(s, check) == \E k \in DOMAIN s : s[k] = check

UsedInv ==
  /\ Running(at) => Holds(todo, "values") \/ (at = "checks" /\ AllUsed)
  /\ at = "idle" /\ nth > 0 /\ why = "" => AllUsed
  /\ why = "leftover" => Owing

LEMMA SameUse ==
  ASSUME UNCHANGED <<declared, taken, ordered, called>>
  PROVE  (AllUsed' <=> AllUsed) /\ (Owing' <=> Owing) /\ (DeclaredInv' <=> DeclaredInv)
<1>1. (AllUsed' <=> AllUsed) /\ (DeclaredInv' <=> DeclaredInv)
  BY DEF AllUsed, DeclaredInv
<1> QED
  BY <1>1 DEF Owing

LEMMA MocksSame ==
  /\ UNCHANGED mocks => UNCHANGED <<queues, calls, declared, taken, ordered, called>>
  /\ UNCHANGED mocks => (QueuesInv => QueuesInv') /\ (NoMocks => NoMocks')
  /\ TeardownTesting => UNCHANGED <<declared, taken, ordered, called>> /\ NoMocks'
<1>1. UNCHANGED mocks => UNCHANGED <<queues, calls, declared, taken, ordered, called>>
  BY DEF mocks
<1>2. Nothing' = Nothing
  BY DEF Nothing
<1>3. UNCHANGED mocks => (QueuesInv => QueuesInv') /\ (NoMocks => NoMocks')
  BY <1>1, <1>2, Zenon DEF QueuesInv, NoMocks
<1>4. TeardownTesting => UNCHANGED <<declared, taken, ordered, called>> /\ NoMocks'
  BY <1>2 DEF TeardownTesting, NoMocks
<1> QED
  BY <1>1, <1>3, <1>4

LEMMA FunctionKeepsMocks ==
  ASSUME FrameInv, MocksInv, UsedInv, FunctionDoes
  PROVE  MocksInv' /\ UsedInv'
<1>1. Running(at) /\ DeclaredInv /\ QueuesInv /\ why = "" /\ todo \in Seq({"blocks", "values"}) /\ nth' = nth
  BY Zenon DEF FunctionDoes, MocksInv, FrameInv
<1>2. Holds(todo, "values") \/ (at = "checks" /\ AllUsed)
  BY <1>1, Zenon DEF UsedInv
<1>3. why # "leftover" /\ "body" # "checks" /\ "idle" # "checks"
  BY <1>1
<1>4. CASE Continues
  <2>1. at = "body" /\ at' = "body" /\ UNCHANGED <<todo, why>> /\ MocksMove
    BY <1>4 DEF Continues
  <2>2. DeclaredInv' /\ QueuesInv'
    BY <1>1, <2>1, MocksMoved
  <2>3. at' # "idle" /\ at # "checks" /\ why' # "leftover"
    BY <1>3, <2>1
  <2> QED
    BY <1>2, <2>1, <2>2, <2>3, Zenon DEF MocksInv, UsedInv
<1>5. CASE Leaves
  <2>1. /\ why' # "" /\ (why' = "leftover" => LeftoverValues)
        /\ ~Running(at') /\ (UNCHANGED mocks \/ TeardownTesting)
    BY <1>5 DEF Leaves, Running
  <2>2. UNCHANGED <<declared, taken, ordered, called>> /\ (QueuesInv' \/ NoMocks')
    BY <1>1, <2>1, MocksSame, Zenon
  <2>3. DeclaredInv' /\ (why' = "leftover" => Owing')
    BY <1>1, <2>1, <2>2, SameUse, SomethingLeft, Zenon
  <2> QED
    BY <2>1, <2>2, <2>3, Zenon DEF MocksInv, UsedInv
<1>6. CASE Returns
  <2>1. at = "body" /\ at' = "checks" /\ UNCHANGED <<todo, why, mocks>>
    BY <1>6 DEF Returns
  <2>2. DeclaredInv' /\ QueuesInv'
    BY <1>1, <2>1, MocksSame, SameUse, Zenon
  <2>3. at' # "idle" /\ at # "checks" /\ why' # "leftover"
    BY <1>3, <2>1
  <2> QED
    BY <1>2, <2>1, <2>2, <2>3, Zenon DEF MocksInv, UsedInv
<1>7. CASE ChecksOne
  <2>1. /\ at = "checks" /\ at' = "checks" /\ todo # <<>> /\ todo' = Tail(todo)
        /\ Head(todo) = "values" => ~LeftoverValues
        /\ UNCHANGED <<why, mocks>>
    BY <1>7 DEF ChecksOne
  <2>2. DeclaredInv' /\ QueuesInv' /\ (AllUsed' <=> AllUsed)
    BY <1>1, <2>1, MocksSame, SameUse, Zenon
  <2>3. AllUsed \/ Holds(todo', "values")
    <3>1. CASE Head(todo) = "values"
      BY <1>1, <2>1, <3>1, NothingLeft
    <3>2. CASE Head(todo) # "values"
      <4>1. ASSUME Holds(todo, "values") PROVE Holds(todo', "values")
        <5>1. \E k \in DOMAIN Tail(todo) : Tail(todo)[k] = "values"
          BY <1>1, <2>1, <3>2, <4>1, TailHas DEF Holds
        <5> QED
          BY <2>1, <5>1, Zenon DEF Holds
      <4> QED
        BY <1>2, <4>1
    <3> QED
      BY <3>1, <3>2
  <2>4. at' # "idle" /\ why' # "leftover"
    BY <1>3, <2>1
  <2> QED
    BY <2>1, <2>2, <2>3, <2>4, Zenon DEF MocksInv, UsedInv
<1>8. CASE PassesNow
  <2>1. at = "checks" /\ todo = <<>> /\ at' = "idle" /\ TeardownTesting /\ UNCHANGED why
    BY <1>8 DEF PassesNow
  <2>2. ~Holds(todo, "values")
    BY <2>1 DEF Holds
  <2>3. AllUsed /\ ~Running(at') /\ why' # "leftover"
    BY <1>2, <1>3, <2>1, <2>2 DEF Running
  <2>4. NoMocks' /\ DeclaredInv' /\ AllUsed'
    BY <1>1, <2>1, <2>3, MocksSame, SameUse, Zenon
  <2> QED
    BY <2>3, <2>4, Zenon DEF MocksInv, UsedInv
<1>9. CASE GoesWild
  <2>1. ~Running(at') /\ at' # "idle" /\ UNCHANGED <<why, mocks>>
    BY <1>9 DEF GoesWild, Running
  <2>2. DeclaredInv' /\ QueuesInv'
    BY <1>1, <2>1, MocksSame, SameUse, Zenon
  <2>3. why' # "leftover"
    BY <1>3, <2>1
  <2> QED
    BY <2>1, <2>2, <2>3, Zenon DEF MocksInv, UsedInv
<1> QED
  BY <1>4, <1>5, <1>6, <1>7, <1>8, <1>9, Zenon DEF FunctionDoes

LEMMA FunctionKeepsFrame ==
  ASSUME FrameInv, FunctionDoes, does' = does, nth \in Nat, nth > 0
  PROVE  FrameInv'
<1>1. /\ Running(at) /\ UNCHANGED <<nth, cp, kind, legacy, buffered>>
      /\ steps' \in 0..does.most
      /\ message' = message \/ message' = message \cup {nth}
      /\ skip' = skip \/ skip' = IF legacy THEN "legacy" ELSE kind
      /\ expecting' \in BOOLEAN /\ inside' \in BOOLEAN /\ left' \in BOOLEAN
      /\ (inside' => at' = "body" /\ expecting')
  BY DEF FunctionDoes
<1>2. /\ legacy' \in BOOLEAN /\ kind' \in {"test", "setup", "teardown"} /\ buffered' \in BOOLEAN
      /\ does'.most \in Nat /\ steps' \in 0..does'.most
  BY <1>1, Zenon DEF FrameInv
<1>3. skip' \in {"", "test", "setup", "teardown", "legacy"}
  <2>1. skip \in {"", "test", "setup", "teardown", "legacy"} /\ kind \in {"test", "setup", "teardown"}
    BY DEF FrameInv
  <2> QED
    BY <1>1, <2>1
<1>4. message' \subseteq 1..nth' /\ ~(nth' = 0)
  <2>1. message \subseteq 1..nth
    BY DEF FrameInv
  <2>2. nth \in 1..nth /\ nth' = nth /\ ~(nth = 0)
    <3>1. \A n \in Nat : n > 0 => n \in 1..n /\ ~(n = 0)
      OBVIOUS
    <3> QED
      BY <1>1, <3>1, Zenon
  <2>3. message' = message \/ message' = message \cup {nth}
    BY <1>1, Zenon
  <2>4. message' \subseteq 1..nth
    BY <2>1, <2>2, <2>3, Zenon
  <2> QED
    BY <2>2, <2>4, Zenon
<1>5. todo \in Seq({"blocks", "values"}) /\ why = "" /\ running = TRUE /\ rc \in Results \cup {-1, 0}
  BY <1>1, Zenon DEF FrameInv
<1>6. /\ at' \in {"idle", "body", "checks", "exited", "aborted", "crashed", "wild"}
      /\ todo' \in Seq({"blocks", "values"})
      /\ rc' \in Results \cup {-1, 0} /\ (why' # "" => rc' = -1) /\ (Running(at') => why' = "")
      /\ running' \in BOOLEAN /\ (Running(at') => running') /\ (running' => Running(at') \/ Ended')
  <2>1. CASE Continues \/ Returns \/ ChecksOne \/ GoesWild
    <3>1. /\ at' \in {"body", "checks", "wild"} /\ running' = running /\ why' = why
          /\ todo' = todo \/ (todo # <<>> /\ todo' = Tail(todo))
          /\ rc' = rc \/ rc' \in Results \cup {0}
      BY <2>1 DEF Continues, Returns, ChecksOne, GoesWild
    <3>2. todo' \in Seq({"blocks", "values"})
      <4>1. todo # <<>> => Tail(todo) \in Seq({"blocks", "values"})
        <5>1. \A s \in Seq({"blocks", "values"}) : s # <<>> => Tail(s) \in Seq({"blocks", "values"})
          OBVIOUS
        <5> QED
          BY <1>5, <5>1, Zenon
      <4> QED
        BY <1>5, <3>1, <4>1, Zenon
    <3>3. rc' \in Results \cup {-1, 0}
      BY <1>5, <3>1
    <3>4. Running(at') \/ Ended'
      BY <3>1 DEF Running, Ended
    <3>5. running' = TRUE /\ why' = ""
      BY <1>5, <3>1, Zenon
    <3> QED
      BY <3>1, <3>2, <3>3, <3>4, <3>5
  <2>2. CASE Leaves
    <3>1. /\ rc' = -1 /\ todo' = <<>> /\ at' \in {"aborted", "idle"} /\ why' # ""
          /\ (at' = "aborted" /\ running' = running) \/ running' = FALSE
      BY <2>2, Zenon DEF Leaves
    <3>2. /\ ~Running(at') /\ (at' = "aborted" => Ended')
          /\ at' \in {"idle", "body", "checks", "exited", "aborted", "crashed", "wild"}
      <4>1. at' = "aborted" \/ at' = "idle"
        BY <3>1
      <4> QED
        BY <4>1 DEF Running, Ended
    <3>3. rc' \in Results \cup {-1, 0} /\ todo' \in Seq({"blocks", "values"})
      <4>1. rc' = -1 /\ todo' = <<>>
        BY <3>1, Zenon
      <4>2. <<>> \in Seq({"blocks", "values"}) /\ -1 \in Results \cup {-1, 0}
        OBVIOUS
      <4> QED
        BY <4>1, <4>2, Zenon
    <3> QED
      BY <1>5, <3>1, <3>2, <3>3, Zenon
  <2>3. CASE PassesNow
    <3>1. at' = "idle" /\ running' = FALSE /\ UNCHANGED <<rc, why, todo>>
      BY <2>3 DEF PassesNow
    <3>2. ~Running(at') /\ at' \in {"idle", "body", "checks", "exited", "aborted", "crashed", "wild"}
      BY <3>1 DEF Running
    <3> QED
      BY <1>5, <3>1, <3>2, Zenon
  <2> QED
    BY <2>1, <2>2, <2>3, Zenon DEF FunctionDoes
<1> QED
  BY <1>1, <1>2, <1>3, <1>4, <1>6, Zenon DEF FrameInv

-----------------------------------------------------------------------------
(* What a runner does to a function and to the mocks                         *)

BeginsOne == \E old \in BOOLEAN, k \in {"test", "setup", "teardown"} : \E c : Begin(old, k, c)
Rests ==
  /\ UNCHANGED <<legacy, kind, todo, cp, nth, steps, rc, why, verdict, running, expecting, inside, left,
                 buffered, mocks>>
  /\ at' \in {"idle", "exited", "aborted", "crashed"}
  /\ skip' = skip \/ skip' = ""
  /\ message' = message \/ message' = {} \/ (rc # 0 /\ message' = message \cup {nth})

LEMMA Resting ==
  ASSUME at = "idle"
  PROVE  /\ Idle => Rests
         /\ UNCHANGED <<function, mocks>> => Rests
         /\ Crash \/ ExitProgram => Rests
         /\ UNCHANGED <<frame, skip, mocks>> /\ message' = {} => Rests
         /\ UNCHANGED <<frame, skip, mocks>> /\ message' = message => Rests
         /\ UNCHANGED <<frame, skip, mocks>> /\ rc # 0 /\ message' = message \cup {nth} => Rests
         /\ UNCHANGED <<frame, message, mocks>> /\ skip' = "" => Rests
<1>1. UNCHANGED frame =>
        /\ UNCHANGED <<legacy, kind, todo, cp, nth, steps, rc, why, verdict, running, expecting, inside, left,
                       buffered>>
        /\ at' = "idle"
  BY DEF frame
<1>2. UNCHANGED <<function, mocks>> => UNCHANGED <<frame, skip, message, mocks>>
  BY DEF function
<1>3. Idle => UNCHANGED <<function, mocks>>
  BY DEF Idle
<1>4. at' = "idle" => at' \in {"idle", "exited", "aborted", "crashed"}
  OBVIOUS
<1>5. Crash \/ ExitProgram => Rests
  BY DEF Crash, ExitProgram, Rests
<1>6. UNCHANGED <<function, mocks>> => Rests
  BY <1>1, <1>2, <1>4, Zenon DEF Rests
<1> QED
  BY <1>1, <1>3, <1>4, <1>5, <1>6, Zenon DEF Rests

LEMMA RunnerFrame ==
  ASSUME PlaceInv, RunnerStep
  PROVE  at = "idle" /\ (BeginsOne \/ Rests) /\ UNCHANGED <<does, corrupt>>
<1>1. at = "idle"
  BY RunnerQuiet
<1>a. Idle => Rests /\ UNCHANGED <<does, corrupt>>
  <2>1. Idle => UNCHANGED <<does, corrupt>>
    BY DEF Idle, heap
  <2> QED
    BY <1>1, <2>1, Resting, Zenon
<1>b. UNCHANGED <<function, mocks>> => Rests
  BY <1>1, Resting, Zenon
<1>c. Crash \/ ExitProgram => Rests
  BY <1>1, Resting, Zenon
<1>d. ASSUME NEW old \in BOOLEAN, NEW k \in {"test", "setup", "teardown"}, NEW c, Begin(old, k, c)
      PROVE  BeginsOne /\ corrupt' = corrupt
  BY <1>d DEF BeginsOne, Begin, heap
<1>e. TRUE \in BOOLEAN /\ FALSE \in BOOLEAN /\ "test" \in {"test", "setup", "teardown"}
      /\ "setup" \in {"test", "setup", "teardown"} /\ "teardown" \in {"test", "setup", "teardown"}
  OBVIOUS
<1>f. UNCHANGED heap => corrupt' = corrupt
  BY DEF heap
<1>g. Static => does' = does
  BY DEF Static
<1>2. CASE OpenGroup
  <2>1. Idle \/ (Begin(FALSE, "setup", Own) /\ Static)
    BY <1>2, Zenon DEF OpenGroup, Calling
  <2> QED
    BY <2>1, <1>1, <1>a, <1>d, <1>e, <1>g, Zenon
<1>3. CASE OpenGroupFails \/ EntryEnds \/ EntriesEnd \/ FinishGroup \/ OlderEnds
  <2>1. Idle
    BY <1>3, Zenon DEF OpenGroupFails, EntryEnds, EntriesEnd, FinishGroup, OlderEnds
  <2> QED
    BY <2>1, <1>1, <1>a
<1>4. CASE GroupSetupEnds \/ TeardownEnds \/ TestCounted \/ GroupTeardownEnds
  <2>1. UNCHANGED <<frame, skip, heap, mocks, does>>
    BY <1>4 DEF GroupSetupEnds, TeardownEnds, TestCounted, GroupTeardownEnds
  <2>2. message' = message \/ message' = {} \/ (rc # 0 /\ message' = message \cup {nth})
    BY <1>4, Zenon DEF GroupSetupEnds, TeardownEnds, TestCounted, GroupTeardownEnds, MessageAfter, Failed
  <2> QED
    BY <2>1, <2>2, <1>1, <1>f, Resting, Zenon
<1>5. CASE NextTest
  <2> DEFINE test == group.tests[current]
  <2>1. does' = does
    BY <1>5, <1>g, Zenon DEF NextTest, Calling
  <2>2. (Crash /\ UNCHANGED heap) \/ Begin(FALSE, "setup", Own) \/ Begin(FALSE, "test", Own)
    <3>1. (Crash /\ UNCHANGED heap) \/ Begin(FALSE, IF test.setup THEN "setup" ELSE "test", Own)
      BY <1>5, Zenon DEF NextTest, Calling
    <3> QED
      BY <3>1, Zenon
  <2> QED
    BY <2>1, <2>2, <1>1, <1>c, <1>d, <1>e, <1>f, Zenon
<1>6. CASE SetupEnds
  <2>1. \/ /\ UNCHANGED <<frame, skip, heap, mocks, does>> /\ Failed
           /\ message' = IF buffered THEN message \cup {nth} ELSE message
        \/ Begin(FALSE, "test", Own) /\ Static
    BY <1>6, Zenon DEF SetupEnds, Calling
  <2>2. CASE UNCHANGED <<frame, skip, heap, mocks, does>> /\ Failed
             /\ message' = IF buffered THEN message \cup {nth} ELSE message
    <3>1. message' = message \/ (rc # 0 /\ message' = message \cup {nth})
      BY <2>2, Zenon DEF Failed
    <3> QED
      BY <2>2, <3>1, <1>1, <1>f, Resting, Zenon
  <2> QED
    BY <2>1, <2>2, <1>1, <1>d, <1>e, <1>g, Zenon
<1>7. CASE TestEnds
  <2>1. UNCHANGED <<frame, message, heap, mocks, does>> /\ \E result : skip' = FlagAfter(result)
    BY <1>7, Zenon DEF TestEnds
  <2>2. skip' = skip \/ skip' = ""
    BY <2>1, Zenon DEF FlagAfter
  <2> QED
    BY <2>1, <2>2, <1>1, <1>f, Resting, Zenon
<1>8. CASE StartTeardown
  <2>1. Static /\ \E c : Begin(FALSE, "teardown", c)
    BY <1>8, Zenon DEF StartTeardown, Calling
  <2> QED
    BY <2>1, <1>1, <1>d, <1>e, <1>g, Zenon
<1>9. CASE CloseGroup
  <2>1. Idle \/ (Begin(FALSE, "teardown", groupCp) /\ Static)
    BY <1>9, Zenon DEF CloseGroup, Calling
  <2> QED
    BY <2>1, <1>1, <1>a, <1>d, <1>e, <1>g, Zenon
<1>10. CASE OpenTests
  <2>1. Static /\ ((ExitProgram /\ UNCHANGED heap) \/ UNCHANGED <<function, heap, mocks>>)
    BY <1>10, Zenon DEF OpenTests
  <2> QED
    BY <2>1, <1>1, <1>b, <1>c, <1>f, <1>g, Zenon
<1>11. CASE NextEntry
  <2>1. /\ Static
        /\ \/ (ExitProgram /\ UNCHANGED heap) \/ UNCHANGED <<function, heap, mocks>>
           \/ /\ Entry \notin {"group_setup", "group_teardown"} /\ Entry # "none"
              /\ \E c : Begin(TRUE, Entry, c)
    BY <1>11, Zenon DEF NextEntry
  <2>2. Entry \in FunctionTypes
    <3>1. group.runner # "group" /\ current <= Len(group.tests) /\ current \in Nat \ {0}
      BY <1>11 DEF NextEntry, At, PlaceInv, TestsStages
    <3>2. group.tests \in Seq(FunctionTypes) /\ current \in 1..Len(group.tests)
      BY <3>1, GroupFits
    <3> QED
      BY <3>2 DEF Entry
  <2>3. Entry \notin {"group_setup", "group_teardown"} /\ Entry # "none" => Entry \in {"test", "setup", "teardown"}
    BY <2>2 DEF FunctionTypes
  <2> QED
    BY <2>1, <2>3, <1>1, <1>b, <1>c, <1>d, <1>e, <1>f, <1>g, Zenon
<1>12. CASE OlderSetup
  <2>1. Idle \/ (Begin(TRUE, "setup", Own) /\ Static)
    BY <1>12, Zenon DEF OlderSetup, Calling
  <2> QED
    BY <2>1, <1>1, <1>a, <1>d, <1>e, <1>g, Zenon
<1>13. CASE OlderNext
  <2>1. Idle \/ (Static /\ ((\E c : Begin(TRUE, "test", c)) \/ (\E c : Begin(TRUE, "teardown", c))))
    BY <1>13, Zenon DEF OlderNext, Calling
  <2> QED
    BY <2>1, <1>1, <1>a, <1>d, <1>e, <1>g, Zenon
<1>14. CASE CheckGroupBlocks
  <2>1. Static
    BY <1>14 DEF CheckGroupBlocks
  <2>2. \/ UNCHANGED <<function, heap, mocks>> \/ (Crash /\ UNCHANGED heap)
        \/ ExitProgram /\ \E found \in AllocatedSince(groupCp) : FreeAllocatedBlocks(found)
    BY <1>14, Zenon DEF CheckGroupBlocks
  <2>3. \A found : FreeAllocatedBlocks(found) => corrupt' = corrupt
    BY DEF FreeAllocatedBlocks
  <2> QED
    BY <2>1, <2>2, <2>3, <1>1, <1>b, <1>c, <1>f, <1>g, Zenon
<1> QED
  BY <1>2, <1>3, <1>4, <1>5, <1>6, <1>7, <1>8, <1>9, <1>10, <1>11, <1>12, <1>13, <1>14 DEF RunnerStep

LEMMA EmptyWell ==
  /\ DeclaredWell(<<>>) /\ ByOrder(<<>>, <<>>) /\ QueueWell(<<>>, <<>>, <<>>)
  /\ OrderedWell(<<>>) /\ CallsByOrder(<<>>, <<>>) /\ CallsWell(<<>>, <<>>, <<>>)
  /\ Nothing \in [Symbols -> Seq(Entries)] /\ Nothing \in [Symbols -> Seq(Nat)] /\ <<>> \in Seq(Nat)
  /\ \A s \in Symbols : Nothing[s] = <<>>
<1>1. DeclaredWell(<<>>) /\ ByOrder(<<>>, <<>>) /\ OrderedWell(<<>>) /\ CallsByOrder(<<>>, <<>>)
  BY DEF DeclaredWell, ByOrder, OrderedWell, CallsByOrder
<1>2. QueueWell(<<>>, <<>>, <<>>) /\ CallsWell(<<>>, <<>>, <<>>)
  BY DEF QueueWell, CallsWell
<1>3. Nothing \in [Symbols -> Seq(Entries)] /\ Nothing \in [Symbols -> Seq(Nat)] /\ <<>> \in Seq(Nat)
      /\ \A s \in Symbols : Nothing[s] = <<>>
  BY DEF Nothing
<1> QED
  BY <1>1, <1>2, <1>3

LEMMA RunnerKeepsMocks ==
  ASSUME FrameInv, MocksInv, UsedInv, at = "idle", nth \in Nat, BeginsOne \/ Rests
  PROVE  MocksInv' /\ UsedInv'
<1>1. CASE BeginsOne
  <2>0. PICK old \in BOOLEAN, k \in {"test", "setup", "teardown"} : \E c : Begin(old, k, c)
    BY <1>1, Zenon DEF BeginsOne
  <2>1. PICK c : Begin(old, k, c)
    BY <2>0
  <2>2. at' = "body" /\ todo' = ChecksOf(old, k) /\ why' = "" /\ InitializeTesting
    BY <2>1 DEF Begin
  <2>3. /\ queues' = Nothing /\ calls' = <<>> /\ declared' = Nothing /\ taken' = Nothing
        /\ ordered' = <<>> /\ called' = <<>>
    BY <2>2 DEF InitializeTesting
  <2>4. DeclaredInv' /\ QueuesInv'
    BY <2>3, EmptyWell, Zenon DEF DeclaredInv, QueuesInv
  <2>5. Holds(todo', "values")
    BY <2>2, ChecksKnown, Zenon DEF Holds
  <2>6. at' # "idle" /\ why' # "leftover"
    BY <2>2
  <2> QED
    BY <2>4, <2>5, <2>6, Zenon DEF MocksInv, UsedInv
<1>2. CASE Rests
  <2>1. UNCHANGED <<nth, why, mocks>> /\ ~Running(at') /\ ~Running(at)
    BY <1>2 DEF Rests, Running
  <2>2. MocksInv'
    <3>1. DeclaredInv /\ (QueuesInv \/ NoMocks)
      BY DEF MocksInv
    <3> QED
      BY <2>1, <3>1, MocksSame, SameUse, Zenon DEF MocksInv
  <2>3. (AllUsed' <=> AllUsed) /\ (Owing' <=> Owing)
    BY <2>1, MocksSame, SameUse, Zenon
  <2> QED
    BY <2>1, <2>2, <2>3, Zenon DEF UsedInv
<1> QED
  BY <1>1, <1>2

LEMMA RunnerKeepsFrame ==
  ASSUME FrameInv, at = "idle", nth \in Nat, BeginsOne \/ Rests, does' = does
  PROVE  FrameInv'
<1>0. /\ inside = FALSE /\ running = FALSE /\ left \in BOOLEAN /\ expecting \in BOOLEAN
      /\ message \subseteq 1..nth /\ does.most \in Nat
  <2>1. ~Running(at) /\ ~Ended /\ at # "body"
    BY DEF Running, Ended
  <2>2. inside \in BOOLEAN /\ running \in BOOLEAN /\ ~inside /\ ~running
    BY <2>1, Zenon DEF FrameInv
  <2> QED
    BY <2>2 DEF FrameInv
<1>1. CASE BeginsOne
  <2>0. PICK old \in BOOLEAN, k \in {"test", "setup", "teardown"} : \E c : Begin(old, k, c)
    BY <1>1, Zenon DEF BeginsOne
  <2>1. PICK c : Begin(old, k, c)
    BY <2>0
  <2>2. /\ at' = "body" /\ legacy' = old /\ kind' = k /\ todo' = ChecksOf(old, k)
        /\ nth' = nth + 1 /\ steps' = 0 /\ rc' = 0 /\ why' = ""
        /\ running' = TRUE /\ buffered' = (buffered /\ ~old)
        /\ UNCHANGED <<skip, expecting, inside, left, message>>
    BY <2>1 DEF Begin
  <2>3. at' \in {"idle", "body", "checks", "exited", "aborted", "crashed", "wild"} /\ Running(at')
        /\ rc' \in Results \cup {-1, 0}
    BY <2>2 DEF Running
  <2>4. todo' \in Seq({"blocks", "values"})
    BY <2>2, ChecksKnown, Zenon
  <2>5. steps' \in 0..does'.most /\ does'.most \in Nat
    BY <1>0, <2>2, NoStep, Zenon
  <2>6. message' \subseteq 1..nth' /\ ~(nth' = 0)
    <3>1. \A n \in Nat : 1..n \subseteq 1..n + 1 /\ ~(n + 1 = 0)
      OBVIOUS
    <3>2. 1..nth \subseteq 1..nth + 1 /\ ~(nth + 1 = 0)
      BY <3>1, Zenon
    <3>3. message' = message /\ nth' = nth + 1 /\ message \subseteq 1..nth
      BY <1>0, <2>2, Zenon
    <3>4. message \subseteq 1..nth + 1
      BY <3>2, <3>3, Zenon
    <3> QED
      BY <3>2, <3>3, <3>4, Zenon
  <2>7. buffered' \in BOOLEAN /\ legacy' \in BOOLEAN /\ kind' \in {"test", "setup", "teardown"}
    BY <2>1, <2>2, Zenon
  <2>8. running' = TRUE /\ inside' = FALSE /\ left' \in BOOLEAN /\ expecting' \in BOOLEAN
        /\ skip' \in {"", "test", "setup", "teardown", "legacy"}
    BY <1>0, <2>2, Zenon DEF FrameInv
  <2> QED
    BY <2>2, <2>3, <2>4, <2>5, <2>6, <2>7, <2>8, Zenon DEF FrameInv
<1>2. CASE Rests
  <2>1. /\ UNCHANGED <<legacy, kind, todo, cp, nth, steps, rc, why, running, expecting, inside, left, buffered>>
        /\ at' \in {"idle", "exited", "aborted", "crashed"}
        /\ skip' = skip \/ skip' = ""
        /\ message' = message \/ message' = {} \/ (rc # 0 /\ message' = message \cup {nth})
    BY <1>2 DEF Rests
  <2>2. at' \in {"idle", "body", "checks", "exited", "aborted", "crashed", "wild"} /\ ~Running(at')
    BY <2>1 DEF Running
  <2>3. skip' \in {"", "test", "setup", "teardown", "legacy"}
    <3>1. skip \in {"", "test", "setup", "teardown", "legacy"}
      BY DEF FrameInv
    <3> QED
      BY <2>1, <3>1
  <2>4. message' \subseteq 1..nth
    <3>1. \A n \in Nat : n = 0 \/ n \in 1..n
      OBVIOUS
    <3>2. rc # 0 => nth \in 1..nth
      BY <3>1, Zenon DEF FrameInv
    <3> QED
      BY <1>0, <2>1, <3>2, Zenon
  <2>5. running' = FALSE /\ inside' = FALSE
    BY <1>0, <2>1, Zenon
  <2> QED
    BY <1>0, <2>1, <2>2, <2>3, <2>4, <2>5, Zenon DEF FrameInv
<1> QED
  BY <1>1, <1>2

-----------------------------------------------------------------------------
(* Blocks whose guards are not intact stay in the list.                      *)

CorruptInv == corrupt \subseteq Held

(* What does not belong to the blocks that are cut out stays.                *)
LEMMA CutHolds ==
  ASSUME blocks \in Seq(Blocks), NEW k \in 1..Len(blocks) + 1, NEW n \in 0..Len(blocks) - k + 1,
         NEW m \in DOMAIN blocks, m < k \/ m >= k + n
  PROVE  \E i \in DOMAIN Without(k, n) : Without(k, n)[i] = blocks[m]
<1> DEFINE t == Without(k, n)
<1>1. /\ t \in Seq(Blocks) /\ Len(t) = Len(blocks) - n
      /\ \A i \in 1..Len(t) : i < k => t[i] = blocks[i] /\ i \in 1..Len(blocks)
      /\ \A i \in 1..Len(t) : i >= k => t[i] = blocks[i + n] /\ i + n \in 1..Len(blocks)
  BY Cut DEF Without
<1> HIDE DEF t
<1>2. DOMAIN t = 1..Len(t) /\ m \in 1..Len(blocks) /\ Len(blocks) \in Nat
  BY <1>1
<1>3. ASSUME m < k PROVE \E i \in DOMAIN t : t[i] = blocks[m]
  <2>1. m \in 1..Len(t)
    BY <1>1, <1>2, <1>3
  <2> QED
    BY <1>1, <1>2, <1>3, <2>1
<1>4. ASSUME m >= k + n PROVE \E i \in DOMAIN t : t[i] = blocks[m]
  <2>1. m - n \in 1..Len(t) /\ m - n >= k /\ (m - n) + n = m
    BY <1>1, <1>2, <1>4
  <2> QED
    BY <1>1, <1>2, <2>1
<1> QED
  BY <1>3, <1>4 DEF t

LEMMA StillHeld ==
  ASSUME blocks \in Seq(Blocks), NEW k \in 1..Len(blocks) + 1, NEW n \in 0..Len(blocks) - k + 1,
         CorruptInv,
         \A m \in DOMAIN blocks : m >= k /\ m < k + n => blocks[m].addr \notin corrupt
  PROVE  \A a \in corrupt : \E i \in DOMAIN Without(k, n) : Without(k, n)[i].addr = a
<1> DEFINE t == Without(k, n)
<1>1. ASSUME NEW a \in corrupt PROVE \E i \in DOMAIN t : t[i].addr = a
  <2>1. PICK m \in DOMAIN blocks : blocks[m].addr = a
    BY DEF CorruptInv, Held
  <2>2. m < k \/ m >= k + n
    BY <2>1
  <2>3. PICK i \in DOMAIN t : t[i] = blocks[m]
    BY <2>2, CutHolds
  <2> QED
    BY <2>1, <2>3
<1> QED
  BY <1>1

LEMMA CorruptStays ==
  ASSUME corrupt' = corrupt, \A a \in corrupt : \E i \in DOMAIN blocks' : blocks'[i].addr = a
  PROVE  CorruptInv'
BY DEF CorruptInv, Held

LEMMA WithoutOne ==
  ASSUME NEW n, HeapWell(blocks, n), CorruptInv, NEW a \in Held \ corrupt
  PROVE  /\ Without(Place(a), 1) \in Seq(Blocks)
         /\ \A x \in corrupt : \E i \in DOMAIN Without(Place(a), 1) : Without(Place(a), 1)[i].addr = x
<1>1. /\ blocks \in Seq(Blocks) /\ Place(a) \in DOMAIN blocks /\ blocks[Place(a)].addr = a
  BY WhereBlockIs DEF HeapWell
<1>2. Place(a) \in 1..Len(blocks) + 1 /\ 1 \in 0..Len(blocks) - Place(a) + 1 /\ Place(a) \in Int
  BY <1>1
<1>3. \A m \in DOMAIN blocks : m >= Place(a) /\ m < Place(a) + 1 => m = Place(a)
  BY <1>1, <1>2
<1>4. \A m \in DOMAIN blocks : m >= Place(a) /\ m < Place(a) + 1 => blocks[m].addr \notin corrupt
  BY <1>1, <1>3
<1>5. Without(Place(a), 1) \in Seq(Blocks)
  BY <1>1, <1>2, Cut DEF Without
<1> DEFINE p == Place(a)
<1>6. p \in 1..Len(blocks) + 1 /\ 1 \in 0..Len(blocks) - p + 1
  BY <1>2
<1>7. \A m \in DOMAIN blocks : m >= p /\ m < p + 1 => blocks[m].addr \notin corrupt
  BY <1>4
<1> HIDE DEF p
<1>8. \A x \in corrupt : \E i \in DOMAIN Without(p, 1) : Without(p, 1)[i].addr = x
  BY <1>1, <1>6, <1>7, StillHeld, Zenon
<1> QED
  BY <1>5, <1>8 DEF p

LEMMA AppendHolds ==
  ASSUME NEW t \in Seq(Blocks), NEW b, NEW x, \E i \in DOMAIN t : t[i].addr = x
  PROVE  \E i \in DOMAIN Append(t, b) : Append(t, b)[i].addr = x
<1>1. PICK i \in DOMAIN t : t[i].addr = x
  OBVIOUS
<1>2. i \in DOMAIN Append(t, b) /\ Append(t, b)[i] = t[i]
  OBVIOUS
<1> QED
  BY <1>1, <1>2

LEMMA FreedKeeps ==
  ASSUME NEW n, HeapWell(blocks, n), CorruptInv, NEW c \in Points, Marks(c, blocks),
         NEW found \in AllocatedSince(c), FreeAllocatedBlocks(found)
  PROVE  CorruptInv'
<1>1. blocks \in Seq(Blocks) /\ Len(blocks) \in Nat /\ DOMAIN blocks = 1..Len(blocks)
  BY DEF HeapWell
<1>2. PICK i \in 0..Len(blocks) : found = SubSeq(blocks, i + 1, Len(blocks))
  BY FoundBlocks
<1>3. Len(found) = Len(blocks) - i /\ \A k \in 1..Len(blocks) - i : found[k] = blocks[k + i]
  BY <1>1, <1>2, Suffix
<1>4. PICK r \in 0..Len(found) :
        /\ \A k \in 1..r : found[k].addr \notin corrupt
        /\ blocks' = Without(Len(blocks) - Len(found) + 1, r)
  BY DEF FreeAllocatedBlocks
<1>5. corrupt' = corrupt
  BY DEF FreeAllocatedBlocks
<1>6. Len(blocks) - Len(found) + 1 = i + 1
  BY <1>1, <1>3
<1>7. i + 1 \in 1..Len(blocks) + 1 /\ r \in 0..Len(blocks) - (i + 1) + 1 /\ r \in Nat /\ i \in Nat
  BY <1>1, <1>3, <1>4
<1>8. ASSUME NEW m \in DOMAIN blocks, m >= i + 1 /\ m < i + 1 + r PROVE blocks[m].addr \notin corrupt
  <2>1. m - i \in 1..r /\ m - i \in 1..Len(blocks) - i /\ (m - i) + i = m
    BY <1>1, <1>7, <1>8
  <2>2. found[m - i] = blocks[m]
    BY <1>3, <2>1
  <2> QED
    BY <1>4, <2>1, <2>2
<1>9. \A a \in corrupt : \E k \in DOMAIN blocks' : blocks'[k].addr = a
  <2> DEFINE k == i + 1
             t == blocks'
  <2>1. t = Without(k, r)
    BY <1>4, <1>6
  <2>2. /\ k \in 1..Len(blocks) + 1 /\ r \in 0..Len(blocks) - k + 1
        /\ \A m \in DOMAIN blocks : m >= k /\ m < k + r => blocks[m].addr \notin corrupt
    BY <1>7, <1>8
  <2> HIDE DEF k, t
  <2>3. \A a \in corrupt : \E j \in DOMAIN t : t[j].addr = a
    BY <1>1, <2>1, <2>2, StillHeld, Zenon
  <2> QED
    BY <2>3 DEF t
<1> QED
  BY <1>5, <1>9, CorruptStays

LEMMA HeapMoved ==
  ASSUME NEW n, HeapWell(blocks, n), CorruptInv
  PROVE  /\ UNCHANGED heap => CorruptInv'
         /\ \A a, by : TestMalloc(a, by) => CorruptInv'
         /\ \A a : TestFree(a) => CorruptInv'
         /\ \A a, b, by : TestRealloc(a, b, by) => CorruptInv'
         /\ \A a : Overrun(a) => CorruptInv'
<1>0. blocks \in Seq(Blocks)
  BY DEF HeapWell
<1>1. \A x \in corrupt : \E i \in DOMAIN blocks : blocks[i].addr = x
  BY DEF CorruptInv, Held
<1>2. UNCHANGED heap => CorruptInv'
  BY DEF CorruptInv, Held, heap
<1>3. ASSUME NEW a, NEW by, TestMalloc(a, by) PROVE CorruptInv'
  <2>1. corrupt' = corrupt /\ blocks' = Append(blocks, [addr |-> a, by |-> by])
    BY <1>3 DEF TestMalloc
  <2> QED
    BY <1>0, <1>1, <2>1, AppendHolds, CorruptStays
<1>4. ASSUME NEW a, TestFree(a) PROVE CorruptInv'
  <2>1. corrupt' = corrupt /\ a \in Held \ corrupt /\ blocks' = Without(Place(a), 1)
    BY <1>4 DEF TestFree
  <2> QED
    BY <2>1, WithoutOne, CorruptStays
<1>5. ASSUME NEW a, NEW b, NEW by, TestRealloc(a, b, by) PROVE CorruptInv'
  <2> DEFINE t == Without(Place(a), 1)
  <2>1. corrupt' = corrupt /\ a \in Held \ corrupt /\ blocks' = Append(t, [addr |-> b, by |-> by])
    BY <1>5 DEF TestRealloc
  <2>2. t \in Seq(Blocks) /\ \A x \in corrupt : \E i \in DOMAIN t : t[i].addr = x
    BY <2>1, WithoutOne
  <2> HIDE DEF t
  <2> QED
    BY <2>1, <2>2, AppendHolds, CorruptStays
<1>6. ASSUME NEW a, Overrun(a) PROVE CorruptInv'
  BY <1>6 DEF Overrun, CorruptInv, Held
<1> QED
  BY <1>2, <1>3, <1>4, <1>5, <1>6, Zenon

LEMMA FunctionKeepsCorrupt ==
  ASSUME HeapWell(blocks, nth), Good(cp), CorruptInv, FunctionStep
  PROVE  CorruptInv'
<1>a. \A reason : Fails(reason) => UNCHANGED heap
  BY DEF Fails
<1>b. UNCHANGED heap => CorruptInv'
  BY HeapMoved
<1>c. \A a, by : TestMalloc(a, by) => CorruptInv'
  BY HeapMoved, Zenon
<1>1. CASE DeclareValue \/ DeclareCall \/ AssertThat \/ ExpectAssertFailure \/ AssertMissed \/ Return
  <2>1. UNCHANGED heap
    BY <1>1, Zenon DEF DeclareValue, DeclareCall, AssertThat, ExpectAssertFailure, AssertMissed, Return
  <2> QED
    BY <2>1, <1>b
<1>2. CASE Malloc
  BY <1>2, <1>a, <1>b, <1>c, Zenon DEF Malloc
<1>3. CASE GiveUp
  BY <1>3, <1>a, <1>b, Zenon DEF GiveUp
<1>4. ASSUME NEW s, Mock(s) \/ CheckExpected(s) \/ FunctionCalled(s) PROVE CorruptInv'
  BY <1>4, <1>a, <1>b, Zenon DEF Mock, CheckExpected, FunctionCalled
<1>5. ASSUME NEW a \in Addresses, Free(a) PROVE CorruptInv'
  <2>1. Fails("guard") \/ TestFree(a)
    BY <1>5, Zenon DEF Free
  <2> QED
    BY <2>1, <1>a, <1>b, HeapMoved, Zenon
<1>6. ASSUME NEW a \in Addresses, Realloc(a) PROVE CorruptInv'
  <2>1. (\E b \in Addresses : TestMalloc(b, nth)) \/ (\E b \in Addresses : TestRealloc(a, b, nth))
    BY <1>6, Zenon DEF Realloc
  <2> QED
    BY <2>1, <1>c, HeapMoved, Zenon
<1>7. ASSUME NEW a \in Addresses, Corrupt(a) PROVE CorruptInv'
  <2>1. Overrun(a)
    BY <1>7, Zenon DEF Corrupt
  <2> QED
    BY <2>1, HeapMoved, Zenon
<1>8. CASE MockAssert
  <2>1. UNCHANGED heap
    BY <1>8 DEF MockAssert, Fails
  <2> QED
    BY <2>1, <1>b
<1>9. CASE CheckBlocks
  <2>1. UNCHANGED heap \/ \E found \in AllocatedSince(cp) : FreeAllocatedBlocks(found)
    BY <1>9, <1>a, Zenon DEF CheckBlocks, CheckPassed
  <2> QED
    BY <2>1, <1>b, FreedKeeps DEF Good, GoodPoint
<1>10. CASE CheckValues \/ FunctionPasses
  <2>1. UNCHANGED heap
    BY <1>10, <1>a, Zenon DEF CheckValues, CheckPassed, FunctionPasses
  <2> QED
    BY <2>1, <1>b
<1> QED
  BY <1>1, <1>2, <1>3, <1>4, <1>5, <1>6, <1>7, <1>8, <1>9, <1>10, Zenon DEF FunctionStep

-----------------------------------------------------------------------------
(* The variables of the runners                                              *)

RunnerVars ==
  /\ does = prog.does
  /\ status \in Seq(Statuses) /\ DOMAIN told = DOMAIN status /\ returned \in Seq(Int)
  /\ runNext \in BOOLEAN /\ previousTestFailed \in BOOLEAN /\ previousSetupFailed \in BOOLEAN
  /\ fileAppend \in BOOLEAN

LEMMA OneStatus ==
  ASSUME NEW s \in Seq(Statuses), NEW k, NEW x \in Statuses
  PROVE  [s EXCEPT ![k] = x] \in Seq(Statuses) /\ DOMAIN [s EXCEPT ![k] = x] = DOMAIN s
<1> DEFINE t == [s EXCEPT ![k] = x]
<1>1. DOMAIN t = 1..Len(s) /\ \A i \in 1..Len(s) : t[i] \in Statuses /\ Len(s) \in Nat
  OBVIOUS
<1>2. t = [i \in 1..Len(s) |-> t[i]]
  OBVIOUS
<1>3. DOMAIN s = 1..Len(s)
  OBVIOUS
<1> HIDE DEF t
<1>4. t \in Seq(Statuses)
  BY <1>1, <1>2, IsASeq
<1> QED
  BY <1>1, <1>3, <1>4 DEF t

LEMMA StatusesKept ==
  ASSUME PlaceInv, RunnerVars, RunnerStep
  PROVE  status' \in Seq(Statuses) /\ DOMAIN told' = DOMAIN status'
<1>a. status \in Seq(Statuses) /\ DOMAIN told = DOMAIN status
  BY DEF RunnerVars
<1>b. UNCHANGED newer => UNCHANGED <<status, told>>
  BY DEF newer
<1>c. \A x : DOMAIN [told EXCEPT ![current] = x] = DOMAIN told
  OBVIOUS
<1>d. /\ "error" \in Statuses /\ "passed" \in Statuses /\ "skipped" \in Statuses /\ "failed" \in Statuses
      /\ "not_started" \in Statuses
  BY DEF Statuses
<1>1. CASE OpenGroup
  <2> DEFINE n == Len(group.tests)
  <2>1. /\ status' = [k \in DOMAIN group.tests |-> "not_started"]
        /\ told' = [k \in DOMAIN group.tests |-> {}]
    BY <1>1 DEF OpenGroup
  <2>2. n \in Nat /\ DOMAIN group.tests = 1..n
    BY GroupFits
  <2> HIDE DEF n
  <2>3. status' = [k \in 1..n |-> "not_started"] /\ DOMAIN told' = 1..n
    BY <2>1, <2>2
  <2>4. status' \in Seq(Statuses)
    BY <1>d, <2>2, <2>3, IsASeq
  <2> QED
    BY <2>3, <2>4
<1>2. CASE SetupEnds \/ TeardownEnds
  <2>1. told' = told /\ (status' = [status EXCEPT ![current] = "error"] \/ status' = status)
    BY <1>2, Zenon DEF SetupEnds, TeardownEnds
  <2>2. /\ [status EXCEPT ![current] = "error"] \in Seq(Statuses)
        /\ DOMAIN [status EXCEPT ![current] = "error"] = DOMAIN status
    BY <1>a, <1>d, OneStatus, Zenon
  <2> QED
    BY <1>a, <2>1, <2>2
<1>3. CASE TestEnds
  <2>1. told' = told /\ \E r \in {"passed", "skipped", "failed"} : status' = [status EXCEPT ![current] = r]
    BY <1>3 DEF TestEnds
  <2>2. PICK r \in {"passed", "skipped", "failed"} : status' = [status EXCEPT ![current] = r]
    BY <2>1
  <2>3. r \in Statuses
    BY DEF Statuses
  <2> QED
    BY <1>a, <2>1, <2>2, <2>3, OneStatus, Zenon
<1>4. CASE TestCounted
  <2>1. status' = status /\ told' = [told EXCEPT ![current] = message]
    BY <1>4 DEF TestCounted
  <2> QED
    BY <1>a, <1>c, <2>1, Zenon
<1>5. CASE OpenGroupFails \/ GroupSetupEnds \/ NextTest \/ StartTeardown \/ CloseGroup \/ GroupTeardownEnds
           \/ FinishGroup \/ OpenTests \/ NextEntry \/ EntryEnds \/ EntriesEnd
           \/ OlderSetup \/ OlderEnds \/ OlderNext \/ CheckGroupBlocks
  <2>1. UNCHANGED <<status, told>>
    BY <1>5, <1>b, Zenon DEF OpenGroupFails, GroupSetupEnds, NextTest, StartTeardown, CloseGroup, GroupTeardownEnds,
       FinishGroup, OpenTests, NextEntry, EntryEnds, EntriesEnd, OlderSetup, OlderEnds, OlderNext, CheckGroupBlocks
  <2> QED
    BY <1>a, <2>1, Zenon
<1> QED
  BY <1>1, <1>2, <1>3, <1>4, <1>5, Zenon DEF RunnerStep

LEMMA ReturnsKept ==
  ASSUME PlaceInv, RunnerVars, RunnerStep
  PROVE  returned' \in Seq(Int)
<1>a. returned \in Seq(Int)
  BY DEF RunnerVars
<1>b. ReturnValue \in Int /\ -1 \in Int
  <2>1. total.failed \in Nat /\ total.errors \in Nat
    BY DEF PlaceInv
  <2>2. total.failed + total.errors \in Int /\ total.failed \in Int
    BY <2>1
  <2> QED
    BY <2>2 DEF ReturnValue
<1>c. \A x \in Int : Append(returned, x) \in Seq(Int)
  BY <1>a
<1>1. CASE OpenGroupFails \/ CheckGroupBlocks
  <2>1. returned' = returned \/ NextGroup(-1) \/ NextGroup(ReturnValue)
    BY <1>1, Zenon DEF OpenGroupFails, CheckGroupBlocks
  <2>2. returned' = returned \/ returned' = Append(returned, -1) \/ returned' = Append(returned, ReturnValue)
    BY <2>1, Zenon DEF NextGroup
  <2> QED
    BY <1>a, <1>b, <1>c, <2>2, Zenon
<1>2. CASE OpenGroup \/ GroupSetupEnds \/ NextTest \/ SetupEnds \/ TestEnds \/ StartTeardown \/ TeardownEnds
           \/ TestCounted \/ CloseGroup \/ GroupTeardownEnds \/ FinishGroup \/ OpenTests \/ NextEntry
           \/ EntryEnds \/ EntriesEnd \/ OlderSetup \/ OlderEnds \/ OlderNext
  <2>1. returned' = returned
    BY <1>2, Zenon DEF OpenGroup, GroupSetupEnds, NextTest, SetupEnds, TestEnds, StartTeardown, TeardownEnds,
       TestCounted, CloseGroup, GroupTeardownEnds, FinishGroup, OpenTests, NextEntry, EntryEnds, EntriesEnd,
       OlderSetup, OlderEnds, OlderNext
  <2> QED
    BY <1>a, <2>1
<1> QED
  BY <1>1, <1>2, Zenon DEF RunnerStep

LEMMA FlagsKept ==
  ASSUME RunnerVars, RunnerStep
  PROVE  runNext' \in BOOLEAN /\ previousTestFailed' \in BOOLEAN /\ previousSetupFailed' \in BOOLEAN
<1>a. runNext \in BOOLEAN /\ previousTestFailed \in BOOLEAN /\ previousSetupFailed \in BOOLEAN
  BY DEF RunnerVars
<1>b. UNCHANGED older => UNCHANGED <<runNext, previousTestFailed, previousSetupFailed>>
  BY DEF older
<1>1. CASE OpenTests
  BY <1>1 DEF OpenTests
<1>2. CASE NextEntry
  <2>1. runNext' = runNext \/ runNext' = Runs
    BY <1>2, Zenon DEF NextEntry
  <2>2. UNCHANGED <<previousTestFailed, previousSetupFailed>>
    BY <1>2 DEF NextEntry
  <2>3. Runs \in BOOLEAN
    BY <1>a DEF Runs
  <2> QED
    BY <1>a, <2>1, <2>2, <2>3, Zenon
<1>3. CASE EntryEnds
  <2>1. /\ runNext' = (runNext /\ ~(Entry = "setup" /\ Failed))
        /\ previousSetupFailed' = (previousSetupFailed \/ (Entry = "setup" /\ Failed))
        /\ previousTestFailed' = CASE Entry = "test" -> Failed [] Entry = "setup" -> FALSE
                                   [] OTHER -> previousTestFailed
    BY <1>3 DEF EntryEnds
  <2>2. Failed \in BOOLEAN
    BY DEF Failed
  <2>3. previousTestFailed' \in BOOLEAN
    BY <1>a, <2>1, <2>2
  <2> QED
    BY <2>1, <2>3, Zenon
<1>4. CASE OpenGroup \/ OpenGroupFails \/ GroupSetupEnds \/ NextTest \/ SetupEnds \/ TestEnds \/ StartTeardown
           \/ TeardownEnds \/ TestCounted \/ CloseGroup \/ GroupTeardownEnds \/ FinishGroup
           \/ EntriesEnd \/ OlderSetup \/ OlderEnds \/ OlderNext \/ CheckGroupBlocks
  <2>1. UNCHANGED <<runNext, previousTestFailed, previousSetupFailed>>
    BY <1>4, <1>b, Zenon DEF OpenGroup, OpenGroupFails, GroupSetupEnds, NextTest, SetupEnds, TestEnds, StartTeardown,
       TeardownEnds, TestCounted, CloseGroup, GroupTeardownEnds, FinishGroup, EntriesEnd,
       OlderSetup, OlderEnds, OlderNext, CheckGroupBlocks
  <2> QED
    BY <1>a, <2>1, Zenon
<1> QED
  BY <1>1, <1>2, <1>3, <1>4, Zenon DEF RunnerStep

LEMMA FilesKept ==
  ASSUME RunnerVars, RunnerStep
  PROVE  fileAppend' \in BOOLEAN
<1>a. fileAppend \in BOOLEAN
  BY DEF RunnerVars
<1>b. UNCHANGED xml => fileAppend' = fileAppend
  BY DEF xml
<1>1. CASE FinishGroup
  <2>1. UNCHANGED xml \/ WriteGroupXml
    BY <1>1, Zenon DEF FinishGroup
  <2>2. WriteGroupXml => fileAppend' = fileAppend \/ fileAppend' = TRUE
    BY Zenon DEF WriteGroupXml, WriteXml
  <2> QED
    BY <1>a, <1>b, <2>1, <2>2, Zenon
<1>2. CASE ~FinishGroup
  <2>1. UNCHANGED xml
    BY <1>2, Zenon DEF RunnerStep, OpenGroup, OpenGroupFails, GroupSetupEnds, NextTest, SetupEnds, TestEnds,
       StartTeardown, TeardownEnds, TestCounted, CloseGroup, GroupTeardownEnds, OpenTests, NextEntry, EntryEnds,
       EntriesEnd, OlderSetup, OlderEnds, OlderNext, CheckGroupBlocks
  <2> QED
    BY <1>a, <1>b, <2>1, Zenon
<1> QED
  BY <1>1, <1>2

LEMMA ProgramStays ==
  ASSUME RunnerStep
  PROVE  prog' = prog
<1>1. (Idle => prog' = prog) /\ (Static => prog' = prog)
  BY DEF Idle, Static
<1>2. CASE OpenGroup \/ NextTest \/ SetupEnds \/ StartTeardown \/ CloseGroup \/ OlderSetup \/ OlderNext
  BY <1>1, <1>2, Zenon DEF OpenGroup, NextTest, SetupEnds, StartTeardown, CloseGroup, OlderSetup, OlderNext, Calling
<1>3. CASE OpenGroupFails \/ EntryEnds \/ EntriesEnd \/ FinishGroup \/ OlderEnds \/ OpenTests \/ NextEntry
           \/ CheckGroupBlocks
  BY <1>1, <1>3, Zenon DEF OpenGroupFails, EntryEnds, EntriesEnd, FinishGroup, OlderEnds, OpenTests, NextEntry,
     CheckGroupBlocks
<1>4. CASE GroupSetupEnds \/ TestEnds \/ TeardownEnds \/ TestCounted \/ GroupTeardownEnds
  BY <1>4, Zenon DEF GroupSetupEnds, TestEnds, TeardownEnds, TestCounted, GroupTeardownEnds
<1> QED
  BY <1>2, <1>3, <1>4, Zenon DEF RunnerStep

LEMMA RunnerKeepsCorrupt ==
  ASSUME PlaceInv, HeapInv, CorruptInv, RunnerStep
  PROVE  CorruptInv'
<1>1. HeapWell(blocks, nth) /\ PointsInv
  BY DEF HeapInv
<1>2. corrupt' = corrupt
  BY RunnerFrame
<1>3. CASE blocks' = blocks
  <2>1. UNCHANGED heap
    BY <1>2, <1>3 DEF heap
  <2> QED
    BY <1>1, <2>1, HeapMoved
<1>4. CASE Frees
  <2>1. Good(groupCp)
    BY <1>1, <1>4 DEF Frees, At, PointsInv
  <2>2. \E found \in AllocatedSince(groupCp) : FreeAllocatedBlocks(found)
    BY <1>4 DEF Frees
  <2> QED
    BY <1>1, <2>1, <2>2, FreedKeeps DEF Good, GoodPoint
<1> QED
  BY <1>3, <1>4, RunnerDoes DEF Pauses

-----------------------------------------------------------------------------
(* All of that together                                                      *)

UseInv == FrameInv /\ MocksInv /\ UsedInv /\ CorruptInv /\ RunnerVars

LEMMA UseStays ==
  ASSUME UNCHANGED vars, UseInv
  PROVE  UseInv'
<1>1. UNCHANGED <<function, heap, mocks, does, prog, returned, newer, older, xml>>
  BY DEF vars, process
<1>2. UNCHANGED <<at, legacy, kind, todo, nth, steps, rc, why, running, expecting, inside, left, buffered, skip, message>>
      /\ cp' = cp
  BY <1>1 DEF function, frame
<1>3. UNCHANGED <<queues, calls, declared, taken, ordered, called, blocks, corrupt, does, prog, returned>>
  BY <1>1 DEF mocks, heap
<1>4. UNCHANGED <<status, told, runNext, previousTestFailed, previousSetupFailed, fileAppend>>
  BY <1>1 DEF newer, older, xml
<1>5. FrameInv'
  <2>1. FrameInv /\ does' = does
    BY <1>3 DEF UseInv
  <2>2. /\ at' = at /\ legacy' = legacy /\ kind' = kind /\ todo' = todo /\ nth' = nth /\ steps' = steps
        /\ rc' = rc /\ why' = why /\ running' = running /\ expecting' = expecting /\ inside' = inside
        /\ left' = left /\ buffered' = buffered /\ skip' = skip /\ message' = message /\ cp' = cp
    BY <1>2
  <2>3. (Ended' <=> Ended) /\ (Running(at)' <=> Running(at)) /\ Points' = Points
    BY <2>2 DEF Ended, Running, Points
  <2>4. /\ at' \in {"idle", "body", "checks", "exited", "aborted", "crashed", "wild"}
        /\ legacy' \in BOOLEAN /\ kind' \in {"test", "setup", "teardown"} /\ buffered' \in BOOLEAN
        /\ todo' \in Seq({"blocks", "values"}) /\ does'.most \in Nat /\ steps' \in 0..does'.most
        /\ rc' \in Results \cup {-1, 0} /\ (why' # "" => rc' = -1)
    BY <2>1, <2>2, Zenon DEF FrameInv
  <2>5. /\ Running(at)' => why' = ""
        /\ running' \in BOOLEAN /\ (Running(at)' => running') /\ (running' => Running(at)' \/ Ended')
    BY <2>1, <2>2, <2>3, Zenon DEF FrameInv
  <2>6. /\ skip' \in {"", "test", "setup", "teardown", "legacy"}
        /\ expecting' \in BOOLEAN /\ inside' \in BOOLEAN /\ left' \in BOOLEAN
        /\ (inside' => at' = "body" /\ expecting')
        /\ message' \subseteq 1..nth' /\ (nth' = 0 => rc' = 0 /\ cp' \in Points')
    BY <2>1, <2>2, <2>3, Zenon DEF FrameInv
  <2> QED
    BY <2>4, <2>5, <2>6, Zenon DEF FrameInv
<1>6. (DeclaredInv' <=> DeclaredInv) /\ (QueuesInv => QueuesInv') /\ (NoMocks => NoMocks')
      /\ (AllUsed' <=> AllUsed) /\ (Owing' <=> Owing)
  <2>1. UNCHANGED mocks
    BY <1>1
  <2> QED
    BY <1>3, <2>1, SameUse, MocksSame, Zenon
<1>7. MocksInv'
  BY <1>2, <1>6, Zenon DEF MocksInv, UseInv
<1>8. UsedInv'
  BY <1>2, <1>6, Zenon DEF UsedInv, UseInv
<1>9. CorruptInv' /\ RunnerVars'
  BY <1>3, <1>4 DEF CorruptInv, Held, RunnerVars, UseInv
<1> QED
  BY <1>5, <1>7, <1>8, <1>9, Zenon DEF UseInv

LEMMA UseKept == PlaceInv /\ HeapInv /\ UseInv /\ [Next]_vars => UseInv'
<1> SUFFICES ASSUME PlaceInv, HeapInv, UseInv, [Next]_vars PROVE UseInv'
  OBVIOUS
<1>1. FrameInv /\ MocksInv /\ UsedInv /\ CorruptInv /\ RunnerVars
  BY DEF UseInv
<1>2. HeapWell(blocks, nth) /\ nth \in Nat /\ (Running(at) => nth > 0) /\ PointsInv
  BY DEF HeapInv
<1>3. CASE FunctionOnly
  <2>1. FunctionStep /\ does' = does /\ prog' = prog
    BY <1>3 DEF FunctionOnly, Static
  <2>2. FunctionDoes
    BY <1>1, <2>1, FunctionDoing
  <2>3. nth > 0 /\ Good(cp)
    BY <1>2, <2>2 DEF FunctionDoes, PointsInv
  <2>4. MocksInv' /\ UsedInv' /\ FrameInv'
    BY <1>1, <1>2, <2>1, <2>2, <2>3, FunctionKeepsMocks, FunctionKeepsFrame
  <2>5. CorruptInv'
    BY <1>1, <1>2, <2>1, <2>3, FunctionKeepsCorrupt
  <2>6. RunnerVars'
    <3>1. UNCHANGED <<status, told, returned, runNext, previousTestFailed, previousSetupFailed, fileAppend>>
      BY <1>3, FunctionOnlyKeeps
    <3> QED
      BY <1>1, <2>1, <3>1 DEF RunnerVars
  <2> QED
    BY <2>4, <2>5, <2>6, Zenon DEF UseInv
<1>4. CASE RunnerStep
  <2>1. at = "idle" /\ (BeginsOne \/ Rests) /\ does' = does
    BY <1>4, RunnerFrame
  <2>2. MocksInv' /\ UsedInv' /\ FrameInv'
    BY <1>1, <1>2, <2>1, RunnerKeepsMocks, RunnerKeepsFrame
  <2>3. CorruptInv'
    BY <1>1, <1>4, RunnerKeepsCorrupt
  <2>4. does' = prog'.does
    BY <1>1, <1>4, <2>1, ProgramStays, Zenon DEF RunnerVars
  <2>5. RunnerVars'
    BY <1>1, <1>4, <2>4, StatusesKept, ReturnsKept, FlagsKept, FilesKept, Zenon DEF RunnerVars
  <2> QED
    BY <2>2, <2>3, <2>5, Zenon DEF UseInv
<1>5. CASE UNCHANGED vars
  BY <1>5, UseStays
<1> QED
  BY <1>3, <1>4, <1>5, Steps

LEMMA UseBegins == Init => UseInv
<1> SUFFICES ASSUME Init PROVE UseInv
  OBVIOUS
<1>1. FunctionInit /\ MocksInit /\ prog \in Programs /\ does = prog.does /\ corrupt = {}
  BY DEF Init, HeapInit
<1>2. /\ at = "idle" /\ legacy = FALSE /\ kind = "test" /\ todo = <<>> /\ cp = [node |-> ListHead, at |-> 1]
      /\ nth = 0 /\ steps = 0 /\ rc = 0 /\ why = "" /\ running = FALSE /\ skip = "" /\ expecting = FALSE
      /\ inside = FALSE /\ left = FALSE /\ buffered = TRUE /\ message = {}
  BY <1>1 DEF FunctionInit
<1>3. ~Running(at) /\ why # "leftover" /\ ~(nth > 0)
  <2>1. at = "idle" /\ why = "" /\ nth = 0
    BY <1>2, Zenon
  <2>2. "" # "leftover" /\ ~(0 > 0) /\ ~Running("idle")
    BY DEF Running
  <2> QED
    BY <2>1, <2>2, Zenon
<1>4. FrameInv
  <2>1. does.most \in Nat
    BY <1>1, ProgramAssumption
  <2>2. 0 \in 0..does.most
    BY <2>1, NoStep, Zenon
  <2>3. cp \in Points /\ <<>> \in Seq({"blocks", "values"}) /\ 0 \in Results \cup {-1, 0}
    <3>1. [node |-> ListHead, at |-> 1] \in Points
      BY DEF Points
    <3>2. <<>> \in Seq({"blocks", "values"}) /\ 0 \in Results \cup {-1, 0}
      OBVIOUS
    <3> QED
      BY <1>2, <3>1, <3>2, Zenon
  <2>4. /\ at \in {"idle", "body", "checks", "exited", "aborted", "crashed", "wild"}
        /\ kind \in {"test", "setup", "teardown"} /\ skip \in {"", "test", "setup", "teardown", "legacy"}
    BY <1>2
  <2>5. /\ todo \in Seq({"blocks", "values"}) /\ steps \in 0..does.most /\ rc \in Results \cup {-1, 0}
        /\ (why # "" => rc = -1) /\ (nth = 0 => rc = 0) /\ message \subseteq 1..nth
    BY <1>2, <2>2, <2>3, Zenon
  <2>6. /\ legacy \in BOOLEAN /\ buffered \in BOOLEAN /\ running \in BOOLEAN /\ ~running
        /\ expecting \in BOOLEAN /\ inside \in BOOLEAN /\ ~inside /\ left \in BOOLEAN
    BY <1>2
  <2> QED
    BY <1>3, <2>1, <2>3, <2>4, <2>5, <2>6, Zenon DEF FrameInv
<1>5. MocksInv
  <2>1. /\ queues = Nothing /\ calls = <<>> /\ declared = Nothing /\ taken = Nothing
        /\ ordered = <<>> /\ called = <<>>
    BY <1>1 DEF MocksInit
  <2>2. DeclaredInv /\ QueuesInv
    BY <2>1, EmptyWell, Zenon DEF DeclaredInv, QueuesInv
  <2> QED
    BY <2>2, Zenon DEF MocksInv
<1>6. UsedInv
  BY <1>3, Zenon DEF UsedInv
<1>7. CorruptInv
  BY <1>1 DEF CorruptInv
<1>8. RunnerVars
  <2>1. /\ status = <<>> /\ told = <<>> /\ returned = <<>> /\ runNext = TRUE
        /\ previousTestFailed = FALSE /\ previousSetupFailed = FALSE /\ fileAppend = FALSE
    BY DEF Init
  <2>2. <<>> \in Seq(Statuses) /\ <<>> \in Seq(Int)
    OBVIOUS
  <2>3. status \in Seq(Statuses) /\ returned \in Seq(Int) /\ DOMAIN told = DOMAIN status
    BY <2>1, <2>2, Zenon
  <2>4. runNext \in BOOLEAN /\ previousTestFailed \in BOOLEAN /\ previousSetupFailed \in BOOLEAN
        /\ fileAppend \in BOOLEAN
    BY <2>1
  <2> QED
    BY <1>1, <2>3, <2>4, Zenon DEF RunnerVars
<1> QED
  BY <1>4, <1>5, <1>6, <1>7, <1>8, Zenon DEF UseInv

LEMMA MocksTyped == MocksInv => MocksTypeOK
<1> SUFFICES ASSUME MocksInv PROVE MocksTypeOK
  OBVIOUS
<1>1. /\ declared \in [Symbols -> Seq(Entries)] /\ taken \in [Symbols -> Seq(Nat)] /\ called \in Seq(Nat)
      /\ \A s \in Symbols : DeclaredWell(declared[s])
      /\ OrderedWell(ordered) /\ ordered \in Seq(Calls)
  BY DEF MocksInv, DeclaredInv, OrderedWell
<1>2. CASE NoMocks
  <2>1. queues = Nothing /\ calls = <<>>
    BY <1>2 DEF NoMocks
  <2>2. queues \in [Symbols -> Seq(Entries)] /\ \A s \in Symbols : queues[s] = <<>>
    BY <2>1, EmptyWell, Zenon
  <2>3. /\ \A s \in Symbols : \A k \in DOMAIN queues[s] : queues[s][k].count # 0 /\ queues[s][k].count >= Maybe
        /\ calls \in Seq(Calls) /\ \A k \in DOMAIN calls : calls[k].count # 0
    BY <2>1, <2>2
  <2> QED
    BY <1>1, <2>2, <2>3, Zenon DEF MocksTypeOK
<1>3. CASE QueuesInv
  <2>1. queues \in [Symbols -> Seq(Entries)] /\ calls \in Seq(Calls)
    BY <1>3 DEF QueuesInv, CallsWell
  <2>2. ASSUME NEW s \in Symbols, NEW k \in DOMAIN queues[s]
        PROVE  queues[s][k].count # 0 /\ queues[s][k].count >= Maybe
    <3> DEFINE q == queues[s]
               d == declared[s]
               t == taken[s]
               i == Len(d) - Len(q) + k
    <3>1. QueueWell(q, d, t) /\ DeclaredWell(d) /\ t \in Seq(Nat) /\ k \in DOMAIN q
      BY <1>1, <1>3 DEF QueuesInv
    <3> HIDE DEF q, d, t
    <3>2. Len(q) \in Nat /\ Len(d) \in Nat /\ Len(q) <= Len(d) /\ DOMAIN q = 1..Len(q) /\ DOMAIN d = 1..Len(d)
      BY <3>1 DEF QueueWell, DeclaredWell
    <3>3. i \in DOMAIN d
      BY <3>1, <3>2
    <3>4. CountWell(d[i].count)
      BY <3>1, <3>3 DEF DeclaredWell
    <3>5. Left(q[k].count, d[i].count, InAll(t, i))
      BY <3>1 DEF QueueWell
    <3>6. InAll(t, i) \in Nat
      BY <3>1, OneTaken, <3>2
    <3> HIDE DEF i
    <3>7. q[k].count # 0 /\ q[k].count >= Maybe
      BY <3>4, <3>5, <3>6, LeftBounds
    <3> QED
      BY <3>7 DEF q
  <2>3. ASSUME NEW k \in DOMAIN calls PROVE calls[k].count # 0
    <3>1. /\ calls[k].id \in DOMAIN ordered
          /\ Left(calls[k].count, ordered[calls[k].id].count, InAll(called, calls[k].id))
      BY <1>3 DEF QueuesInv, CallsWell
    <3>2. CountWell(ordered[calls[k].id].count)
      BY <1>1, <3>1 DEF OrderedWell
    <3>3. InAll(called, calls[k].id) \in Nat
      <4>1. called \in Seq(Nat) /\ 0 \in Nat
        BY <1>1
      <4> QED
        BY <4>1, OneTaken
    <3> QED
      BY <3>1, <3>2, <3>3, LeftBounds
  <2> QED
    BY <1>1, <2>1, <2>2, <2>3, Zenon DEF MocksTypeOK
<1> QED
  BY <1>2, <1>3 DEF MocksInv

LEMMA HeapTyped ==
  ASSUME NEW n, HeapWell(blocks, n), CorruptInv
  PROVE  HeapTypeOK
<1>1. blocks \in Seq(Blocks) /\ \A j, k \in DOMAIN blocks : j < k => blocks[j].addr # blocks[k].addr
  BY DEF HeapWell
<1>2. DOMAIN blocks = 1..Len(blocks) /\ Len(blocks) \in Nat
  BY <1>1
<1> DEFINE f == [k \in DOMAIN blocks |-> blocks[k].addr]
<1>3. ASSUME NEW j \in DOMAIN f, NEW k \in DOMAIN f, f[j] = f[k] PROVE j = k
  <2>1. j \in DOMAIN blocks /\ k \in DOMAIN blocks /\ j \in Int /\ k \in Int
        /\ blocks[j].addr = blocks[k].addr
    BY <1>2, <1>3
  <2>2. ~(j < k) /\ ~(k < j)
    BY <1>1, <2>1
  <2> QED
    BY <2>1, <2>2
<1>4. IsInjective(f)
  BY <1>3 DEF IsInjective
<1>5. corrupt \subseteq { blocks[k].addr : k \in DOMAIN blocks }
  BY DEF CorruptInv, Held
<1> QED
  BY <1>1, <1>4, <1>5 DEF HeapTypeOK, Blocks

LEMMA FunctionTyped ==
  ASSUME FrameInv, HeapInv
  PROVE  FunctionTypeOK
<1>1. nth \in Nat /\ (nth > 0 => Good(cp))
  BY DEF HeapInv, PointsInv
<1>2. cp \in Points
  <2>1. nth > 0 => cp \in Points
    BY <1>1 DEF Good, GoodPoint
  <2>2. nth = 0 => cp \in Points
    BY DEF FrameInv
  <2>3. nth = 0 \/ nth > 0
    BY <1>1
  <2> QED
    BY <2>1, <2>2, <2>3
<1>3. running = (at \in {"body", "checks"} \/ (Ended /\ running))
  <2>1. running \in BOOLEAN /\ (Running(at) => running) /\ (running => Running(at) \/ Ended)
    BY DEF FrameInv
  <2>2. Running(at) <=> at \in {"body", "checks"}
    BY DEF Running
  <2>3. (at \in {"body", "checks"} \/ (Ended /\ running)) \in BOOLEAN
    OBVIOUS
  <2>4. running <=> (at \in {"body", "checks"} \/ (Ended /\ running))
    BY <2>1, <2>2, Zenon
  <2> QED
    BY <2>1, <2>3, <2>4, Zenon
<1>4. ToSet(todo) \subseteq {"blocks", "values"}
  <2>1. todo \in Seq({"blocks", "values"})
    BY DEF FrameInv
  <2> QED
    BY <2>1 DEF ToSet
<1>5. cp \in [node : Addresses \cup {ListHead, NoNode}, at : Nat]
  BY <1>2 DEF Points
<1> QED
  BY <1>1, <1>3, <1>4, <1>5, Zenon DEF FunctionTypeOK, FrameInv

LEMMA TypesKnown == PlaceInv /\ MessageInv /\ XmlInv /\ HeapInv /\ UseInv => TypeOK
<1> SUFFICES ASSUME PlaceInv, MessageInv, XmlInv, HeapInv, UseInv PROVE TypeOK
  OBVIOUS
<1>1. MocksTypeOK /\ HeapTypeOK /\ FunctionTypeOK
  BY MocksTyped, HeapTyped, FunctionTyped DEF UseInv, HeapInv
<1>2. prog \in Programs /\ g \in DOMAIN prog.groups /\ does = prog.does
  BY DEF PlaceInv, UseInv, RunnerVars
<1>3. DOMAIN total = DOMAIN NoTotal /\ \A k \in DOMAIN total : total[k] \in Nat
  BY DEF PlaceInv, NoTotal
<1>4. status \in Seq(Statuses) /\ DOMAIN told = DOMAIN status /\ DOMAIN own = DOMAIN status
  <2>1. DOMAIN told = DOMAIN own
    BY DEF MessageInv
  <2>2. status \in Seq(Statuses) /\ DOMAIN told = DOMAIN status
    BY DEF UseInv, RunnerVars
  <2> QED
    BY <2>1, <2>2, Zenon
<1>5. /\ runNext \in BOOLEAN /\ previousTestFailed \in BOOLEAN /\ previousSetupFailed \in BOOLEAN
      /\ returned \in Seq(Int) /\ fileAppend \in BOOLEAN
  BY DEF UseInv, RunnerVars
<1>6. DOMAIN sinks = Sinks /\ xmlPrinted \in BOOLEAN
  BY DEF XmlInv
<1>7. at \in {"body", "checks"} => stage \in {"group setup", "setup", "test", "teardown",
        "group teardown", "entry runs", "older setup", "older test", "older teardown"}
  BY DEF MessageInv, FunctionRuns
<1> QED
  BY <1>1, <1>2, <1>3, <1>4, <1>5, <1>6, <1>7, Zenon DEF TypeOK

LEMMA MocksMeant == PlaceInv /\ MessageInv /\ XmlInv /\ HeapInv /\ UseInv => MocksAsDeclared
<1> SUFFICES ASSUME PlaceInv, MessageInv, XmlInv, HeapInv, UseInv PROVE MocksAsDeclared
  OBVIOUS
<1>1. /\ \A s \in Symbols : ByOrder(declared[s], taken[s])
      /\ CallsByOrder(ordered, called)
  BY DEF UseInv, MocksInv, DeclaredInv
<1>2. ReturnsAsDeclared
  BY <1>1 DEF ReturnsAsDeclared, ByOrder
<1>3. CallsInOrder
  BY <1>1 DEF CallsInOrder, CallsByOrder
<1>4. PassedMeansAllUsed /\ LeftoverHasReason
  BY DEF UseInv, UsedInv, PassedMeansAllUsed, Passed, LeftoverHasReason, Owing
<1> QED
  BY <1>2, <1>3, <1>4, TypesKnown, Zenon DEF MocksAsDeclared

-----------------------------------------------------------------------------
(* What % and powers of two are                                              *)

LEMMA Mod ==
  ASSUME NEW m \in Nat, m > 0, NEW n \in Int
  PROVE  /\ 0 <= n /\ n < m => n % m = n
         /\ -m <= n /\ n < 0 => n % m = n + m
<1>1. ASSUME 0 <= n, n < m PROVE n % m = n
  BY <1>1
<1>2. ASSUME -m <= n, n < 0 PROVE n % m = n + m
  BY <1>2
<1> QED
  BY <1>1, <1>2

LEMMA Power ==
  ASSUME NEW n \in Nat
  PROVE  2^n \in Nat /\ 2^n > 0
<1> DEFINE S == 1..n
<1>1. IsFiniteSet(S) /\ Cardinality(S) = n
  BY FS_Interval
<1> HIDE DEF S
<1>2. IsFiniteSet(SUBSET S) /\ Cardinality(SUBSET S) = 2^n
  BY <1>1, FS_SUBSET
<1>3. Cardinality(SUBSET S) \in Nat /\ Cardinality(SUBSET S) # 0
  <2>1. SUBSET S # {}
    OBVIOUS
  <2> QED
    BY <1>2, <2>1, FS_CardinalityType, FS_EmptySet
<1> QED
  BY <1>2, <1>3

LEMMA Bigger ==
  ASSUME NEW m \in Nat, NEW n \in Nat, m <= n
  PROVE  2^m <= 2^n
<1> DEFINE S == 1..m
           T == 1..n
<1>1. IsFiniteSet(S) /\ Cardinality(S) = m /\ IsFiniteSet(T) /\ Cardinality(T) = n /\ S \subseteq T
  BY FS_Interval
<1> HIDE DEF S, T
<1>2. IsFiniteSet(SUBSET S) /\ Cardinality(SUBSET S) = 2^m /\ IsFiniteSet(SUBSET T) /\ Cardinality(SUBSET T) = 2^n
  BY <1>1, FS_SUBSET
<1>3. SUBSET S \subseteq SUBSET T
  BY <1>1
<1> QED
  BY <1>2, <1>3, FS_Subset

LEMMA Twice ==
  ASSUME NEW n \in Nat
  PROVE  2^(n + 1) = 2^n + 2^n
<1> DEFINE S == SUBSET (1..n)
           T == { X \cup {n + 1} : X \in S }
           f == [X \in S |-> X \cup {n + 1}]
<1>1. IsFiniteSet(1..n) /\ Cardinality(1..n) = n /\ IsFiniteSet(1..n + 1) /\ Cardinality(1..n + 1) = n + 1
  BY FS_Interval
<1>2. IsFiniteSet(S) /\ Cardinality(S) = 2^n /\ Cardinality(SUBSET (1..n + 1)) = 2^(n + 1)
  BY <1>1, FS_SUBSET
<1>a. \A X \in S : n + 1 \notin X
  OBVIOUS
<1>3. ExistsBijection(S, T)
  <2>1. f \in [S -> T] /\ \A X \in S : f[X] = X \cup {n + 1}
    OBVIOUS
  <2>2. ASSUME NEW X \in S, NEW Y \in S, f[X] = f[Y] PROVE X = Y
    <3>1. X \cup {n + 1} = Y \cup {n + 1} /\ n + 1 \notin X /\ n + 1 \notin Y
      BY <1>a, <2>1, <2>2
    <3> QED
      BY <3>1
  <2>3. \A t \in T : \E X \in S : f[X] = t
    OBVIOUS
  <2> HIDE DEF f, S, T
  <2>4. f \in Bijection(S, T)
    <3>1. f \in Injection(S, T)
      BY <2>1, <2>2 DEF Injection, IsInjective
    <3>2. f \in Surjection(S, T)
      BY <2>1, <2>3 DEF Surjection
    <3> QED
      BY <3>1, <3>2 DEF Bijection
  <2> QED
    BY <2>4, Zenon DEF ExistsBijection
<1>5. S \cap T = {} /\ SUBSET (1..n + 1) = S \cup T
  <2>1. ASSUME NEW X \in SUBSET (1..n + 1) PROVE X \in S \cup T
    <3>1. CASE n + 1 \in X
      <4>1. X \ {n + 1} \in S /\ X = (X \ {n + 1}) \cup {n + 1}
        BY <3>1
      <4> QED
        BY <4>1
    <3>2. CASE n + 1 \notin X
      BY <3>2
    <3> QED
      BY <3>1, <3>2
  <2>2. 1..n \subseteq 1..n + 1 /\ n + 1 \in 1..n + 1
    OBVIOUS
  <2>3. S \subseteq SUBSET (1..n + 1)
    BY <2>2, Zenon
  <2>4. T \subseteq SUBSET (1..n + 1)
    BY <2>2, Zenon
  <2>5. \A X \in T : n + 1 \in X
    OBVIOUS
  <2> QED
    BY <1>a, <2>1, <2>3, <2>4, <2>5, Zenon
<1> HIDE DEF S, T
<1>4. IsFiniteSet(T) /\ Cardinality(T) = Cardinality(S)
  BY <1>2, <1>3, FS_Bijection, Zenon
<1>6. Cardinality(S \cup T) = Cardinality(S) + Cardinality(T) - Cardinality(S \cap T)
  BY <1>2, <1>4, FS_Union, Zenon
<1>7. Cardinality(S \cap T) = 0
  BY <1>5, FS_EmptySet, Zenon
<1>8. 2^n \in Nat /\ \A m \in Nat : m + m - 0 = m + m
  BY Power
<1>9. 2^(n + 1) = 2^n + 2^n - 0
  BY <1>2, <1>4, <1>5, <1>6, <1>7, Zenon
<1> QED
  BY <1>8, <1>9, Zenon

HalfWord == 2^(8 * ByteBits - 1)

LEMMA HalfWords ==
  /\ HalfWord \in Nat /\ HalfWord > 0 /\ 2^(8 * ByteBits) = HalfWord + HalfWord
  /\ 2^ByteBits \in Nat /\ 2^ByteBits > 0 /\ 2^ByteBits <= HalfWord
  /\ 2^(ByteBits * 1 - 1) <= 2^ByteBits
  /\ \A bytes \in {1, 2, 4, 8} :
       /\ 2^(ByteBits * bytes - 1) \in Nat /\ 2^(ByteBits * bytes - 1) > 0
       /\ 2^(ByteBits * bytes - 1) <= HalfWord
<1> DEFINE h == 8 * ByteBits - 1
<1>1. ByteBits \in Nat /\ ByteBits > 0
  BY ByteAssumption
<1>2. h \in Nat /\ ByteBits <= h /\ 8 * ByteBits = h + 1
  BY <1>1
<1>3. ASSUME NEW bytes \in {1, 2, 4, 8} PROVE ByteBits * bytes - 1 \in Nat /\ ByteBits * bytes - 1 <= h
  BY <1>1
<1>4. HalfWord = 2^h
  BY Zenon DEF HalfWord
<1> HIDE DEF h
<1>5. 2^(8 * ByteBits) = 2^h + 2^h
  BY <1>2, Twice, Zenon
<1>6. \A n \in Nat : n <= h => 2^n \in Nat /\ 2^n > 0 /\ 2^n <= 2^h
  BY <1>2, Power, Bigger, Zenon
<1>7. h <= h
  BY <1>2
<1>8. ByteBits * 1 - 1 \in Nat /\ ByteBits * 1 - 1 <= ByteBits
  BY <1>1
<1>9. 2^(ByteBits * 1 - 1) <= 2^ByteBits
  BY <1>1, <1>8, Bigger, Zenon
<1> QED
  BY <1>9, <1>1, <1>2, <1>3, <1>4, <1>5, <1>6, <1>7, Zenon

(* A number that is not negative is its own word, any other one is in the    *)
(* upper half.                                                               *)
LEMMA WordNumbers ==
  /\ \A n \in Signed(8) : n \in Int /\ -HalfWord <= n /\ n < HalfWord
  /\ \A n \in Unsigned(8) : n \in Int /\ 0 <= n /\ n < HalfWord + HalfWord
  /\ \A n \in Int : 0 <= n /\ n < HalfWord + HalfWord => Word(n) = n
  /\ \A n \in Int : -HalfWord <= n /\ n < 0 => Word(n) = n + HalfWord + HalfWord
<1> DEFINE m == HalfWord + HalfWord
<1>1. HalfWord \in Nat /\ HalfWord > 0 /\ m \in Nat /\ m > 0
  BY HalfWords
<1>2. 2^(8 * ByteBits) = m /\ ByteBits \in Nat
  BY HalfWords, ByteAssumption, Zenon
<1>3. ByteBits * 8 = 8 * ByteBits /\ ByteBits * 8 - 1 = 8 * ByteBits - 1
  BY <1>2
<1>4. 2^(ByteBits * 8 - 1) = HalfWord /\ 2^(ByteBits * 8) = m
  BY <1>2, <1>3, Zenon DEF HalfWord
<1>5. Signed(8) = -HalfWord..HalfWord - 1 /\ Unsigned(8) = 0..m - 1
  BY <1>4, Zenon DEF Signed, SignedMax, Unsigned
<1>6. \A n : Word(n) = n % m
  BY <1>2, Zenon DEF Word
<1>7. \A n \in Int : -HalfWord <= n => -m <= n
  BY <1>1
<1>8. ASSUME NEW n \in Signed(8) PROVE n \in Int /\ -HalfWord <= n /\ n < HalfWord
  BY <1>1, <1>5
<1>9. ASSUME NEW n \in Unsigned(8) PROVE n \in Int /\ 0 <= n /\ n < m
  BY <1>1, <1>5
<1>10. \A n \in Int : n + m = n + HalfWord + HalfWord
  BY <1>1
<1> HIDE DEF m
<1>11. ASSUME NEW n \in Int
       PROVE  (0 <= n /\ n < m => n % m = n) /\ (-m <= n /\ n < 0 => n % m = n + m)
  BY <1>1, Mod, Zenon
<1> QED
  BY <1>6, <1>7, <1>8, <1>9, <1>10, <1>11, Zenon DEF m

LEMMA SameWords ==
  ASSUME NEW a, NEW b, {a, b} \subseteq Signed(8) \/ {a, b} \subseteq Unsigned(8)
  PROVE  a \in Int /\ b \in Int /\ (SameWord(a, b) <=> a = b)
<1>1. HalfWord \in Nat /\ HalfWord > 0
  BY HalfWords
<1>2. SameWord(a, b) <=> Word(a) = Word(b)
  BY Zenon DEF SameWord
<1>3. CASE {a, b} \subseteq Signed(8)
  <2>1. a \in Int /\ b \in Int /\ -HalfWord <= a /\ a < HalfWord /\ -HalfWord <= b /\ b < HalfWord
    BY <1>3, WordNumbers
  <2>2. Word(a) = (IF a < 0 THEN a + HalfWord + HalfWord ELSE a)
    BY <1>1, <2>1, WordNumbers
  <2>3. Word(b) = (IF b < 0 THEN b + HalfWord + HalfWord ELSE b)
    BY <1>1, <2>1, WordNumbers
  <2> QED
    BY <1>1, <1>2, <2>1, <2>2, <2>3
<1>4. CASE {a, b} \subseteq Unsigned(8)
  <2>1. a \in Int /\ b \in Int /\ Word(a) = a /\ Word(b) = b
    BY <1>4, WordNumbers
  <2> QED
    BY <1>2, <2>1
<1> QED
  BY <1>3, <1>4

LEMMA Ranges ==
  ASSUME NEW v, NEW a, NEW b, {v, a, b} \subseteq Signed(8) \/ {v, a, b} \subseteq Unsigned(8), a <= b
  PROVE  /\ a \in Int /\ (a >= 0 \/ b < 0 => (InRange(v, a, b) <=> v \in a..b))
         /\ b \in Int /\ (a < 0 /\ b >= 0 => ~InRange(v, a, b))
         /\ NotInRange(v, a, b) <=> ~InRange(v, a, b)
<1>1. HalfWord \in Nat /\ HalfWord > 0
  BY HalfWords
<1>2. InRange(v, a, b) <=> Word(v) >= Word(a) /\ Word(v) <= Word(b)
  BY Zenon DEF InRange
<1>3. NotInRange(v, a, b) <=> Word(v) < Word(a) \/ Word(v) > Word(b)
  BY Zenon DEF NotInRange
<1>4. CASE {v, a, b} \subseteq Signed(8)
  <2>1. \A n \in {v, a, b} : /\ n \in Int /\ -HalfWord <= n /\ n < HalfWord
                            /\ Word(n) = (IF n < 0 THEN n + HalfWord + HalfWord ELSE n)
    BY <1>1, <1>4, WordNumbers
  <2> QED
    BY <1>1, <1>2, <1>3, <2>1
<1>5. CASE {v, a, b} \subseteq Unsigned(8)
  <2>1. \A n \in {v, a, b} : n \in Int /\ 0 <= n /\ Word(n) = n
    BY <1>5, WordNumbers
  <2> QED
    BY <1>2, <1>3, <2>1
<1> QED
  BY <1>4, <1>5

-----------------------------------------------------------------------------
(* What an assertion comes to                                                *)

LEMMA PassesAs ==
  ASSUME NEW c
  PROVE  /\ c.kind = "value" => AssertionPasses(c) = SameWord(c.value[1], c.data[1])
         /\ c.kind = "not_value" => AssertionPasses(c) = ~SameWord(c.value[1], c.data[1])
         /\ c.kind = "in_set" => AssertionPasses(c) = ValueInSet(c.value[1], c.data, FALSE)
         /\ c.kind = "not_in_set" => AssertionPasses(c) = ValueInSet(c.value[1], c.data, TRUE)
         /\ c.kind = "in_range" => AssertionPasses(c) = InRange(c.value[1], c.data[1], c.data[2])
         /\ c.kind = "not_in_range" => AssertionPasses(c) = NotInRange(c.value[1], c.data[1], c.data[2])
         /\ c.kind = "string" => AssertionPasses(c) = StringEqual(c.value, c.data)
         /\ c.kind = "not_string" => AssertionPasses(c) = ~StringEqual(c.value, c.data)
         /\ c.kind = "memory" => AssertionPasses(c) = MemoryEqual(c.value, c.data)
         /\ c.kind = "not_memory" => AssertionPasses(c) = MemoryNotEqual(c.value, c.data)
         /\ c.kind = "any" => AssertionPasses(c) = TRUE
         /\ c.kind = "return_code" => AssertionPasses(c) = ReturnCodePasses(c.value[1], c.data[1])
  BY DEF AssertionPasses, Passes

LEMMA MeantAs ==
  ASSUME NEW c
  PROVE  /\ c.kind = "value" => Meant(c) = (c.value[1] = c.data[1])
         /\ c.kind = "not_value" => Meant(c) = (c.value[1] # c.data[1])
         /\ c.kind = "in_set" => Meant(c) = (c.value[1] \in ToSet(c.data))
         /\ c.kind = "not_in_set" => Meant(c) = (c.value[1] \notin ToSet(c.data))
         /\ c.kind = "in_range" => Meant(c) = (c.value[1] \in c.data[1]..c.data[2])
         /\ c.kind = "not_in_range" => Meant(c) = (c.value[1] \notin c.data[1]..c.data[2])
         /\ c.kind = "string" => Meant(c) = (c.value = c.data)
         /\ c.kind = "not_string" => Meant(c) = (c.value # c.data)
         /\ c.kind = "memory" => Meant(c) = IsPrefix(c.data, c.value)
         /\ c.kind = "not_memory" => Meant(c) = ~IsPrefix(c.data, c.value)
         /\ c.kind = "any" => Meant(c) = TRUE
  BY DEF Meant

LEMMA SamePrefix ==
  ASSUME NEW a \in Seq(Int), NEW b \in Seq(Int), Len(b) <= Len(a)
  PROVE  (MemoryEqual(a, b) <=> IsPrefix(b, a)) /\ (MemoryNotEqual(a, b) <=> ~IsPrefix(b, a))
<1>1. Len(b) \in Nat /\ Len(b) <= Len(a) /\ DOMAIN b = 1..Len(b)
  OBVIOUS
<1>2. \A i \in 1..Len(b) : a[i] \in Int /\ b[i] \in Int
  BY <1>1
<1>3. /\ Len(SubSeq(a, 1, Len(b))) = Len(b) /\ SubSeq(a, 1, Len(b)) \in Seq(Int)
      /\ \A i \in 1..Len(b) : SubSeq(a, 1, Len(b))[i] = a[i]
      /\ Len(SubSeq(b, 1, Len(b))) = Len(b) /\ SubSeq(b, 1, Len(b)) \in Seq(Int)
      /\ \A i \in 1..Len(b) : SubSeq(b, 1, Len(b))[i] = b[i]
  BY <1>1, <1>2, SubSeqProperties
<1>4. IsPrefix(b, a) <=> SubSeq(b, 1, Len(b)) = SubSeq(a, 1, Len(b))
  BY DEF IsPrefix
<1>5. SubSeq(b, 1, Len(b)) = SubSeq(a, 1, Len(b)) <=> \A i \in 1..Len(b) : a[i] = b[i]
  BY <1>1, <1>3
<1>6. Differences(a, b) = {} <=> \A i \in 1..Len(b) : a[i] = b[i]
  BY <1>1 DEF Differences
<1>7. MemoryEqual(a, b) <=> Differences(a, b) = {}
  BY Zenon DEF MemoryEqual
<1>8. MemoryNotEqual(a, b) <=> ~(Differences(a, b) = {})
  BY Zenon DEF MemoryNotEqual
<1> QED
  BY <1>4, <1>5, <1>6, <1>7, <1>8, Zenon

LEMMA Sets ==
  ASSUME NEW v, NEW type \in {Signed(8), Unsigned(8)}, v \in type, NEW data \in Seq(type)
  PROVE  /\ ValueInSet(v, data, FALSE) <=> v \in ToSet(data)
         /\ ValueInSet(v, data, TRUE) <=> v \notin ToSet(data)
<1>1. \A i \in DOMAIN data : data[i] \in type
  OBVIOUS
<1>2. \A i \in DOMAIN data : SameWord(data[i], v) <=> data[i] = v
  BY <1>1, SameWords
<1>3. (\E i \in DOMAIN data : SameWord(data[i], v)) <=> v \in ToSet(data)
  BY <1>2 DEF ToSet
<1> QED
  BY <1>3, Zenon DEF ValueInSet

Outcome(c) ==
  \/ c.kind = "return_code"
  \/ AssertionPasses(c) = Meant(c)
  \/ c.kind \in {"in_range", "not_in_range"} /\ c.data[1] < 0 /\ c.data[2] >= 0
       /\ AssertionPasses(c) = (c.kind = "not_in_range")

LEMMA AssertionOutcomes ==
  ASSUME NEW c, Comparable(c)
  PROVE  Outcome(c)
<1>1. /\ c.kind \in Kinds \cup {"return_code"} /\ c.value \in Seq(Int) /\ c.data \in Seq(Int)
      /\ c.kind \in Kinds => OfOneType(c)
      /\ c.kind \in Kinds \ {"string", "not_string", "memory", "not_memory"} => Len(c.value) = 1
      /\ c.kind \in {"value", "not_value"} => Len(c.data) = 1
      /\ c.kind \in {"in_range", "not_in_range"} => Len(c.data) = 2 /\ c.data[1] <= c.data[2]
      /\ c.kind \in {"memory", "not_memory"} => Len(c.data) <= Len(c.value)
  BY DEF Comparable
<1>2. CASE c.kind = "return_code"
  BY <1>2, Zenon DEF Outcome
<1>3. CASE c.kind \in Kinds
  <2>1. PICK type \in {Signed(8), Unsigned(8)} : c.value \in Seq(type) /\ c.data \in Seq(type)
    BY <1>1, <1>3, Zenon DEF OfOneType
  <2> DEFINE v == c.value[1]
  <2>4. Len(c.value) = 1 => v \in type
    BY <2>1
  <2>5. CASE c.kind \in {"value", "not_value"}
    <3>1. c.data[1] \in type /\ v \in type
      <4>1. Len(c.data) = 1 /\ Len(c.value) = 1
        BY <1>1, <2>5 DEF Kinds
      <4> QED
        BY <2>1, <4>1
    <3>2. SameWord(v, c.data[1]) <=> v = c.data[1]
      BY <3>1, <2>1, SameWords
    <3>3. SameWord(v, c.data[1]) \in BOOLEAN
      BY DEF SameWord
    <3>4. CASE c.kind = "value"
      <4>1. AssertionPasses(c) = SameWord(v, c.data[1]) /\ Meant(c) = (v = c.data[1])
        BY <3>4, PassesAs, MeantAs, Zenon
      <4> QED
        BY <3>2, <3>3, <4>1 DEF Outcome
    <3>5. CASE c.kind = "not_value"
      <4>1. AssertionPasses(c) = ~SameWord(v, c.data[1]) /\ Meant(c) = (v # c.data[1])
        BY <3>5, PassesAs, MeantAs, Zenon
      <4> QED
        BY <3>2, <3>3, <4>1 DEF Outcome
    <3> QED
      BY <2>5, <3>4, <3>5
  <2>6. CASE c.kind \in {"in_set", "not_in_set"}
    <3>1. v \in type
      BY <1>1, <2>4, <2>6 DEF Kinds
    <3>2. /\ ValueInSet(v, c.data, FALSE) <=> v \in ToSet(c.data)
          /\ ValueInSet(v, c.data, TRUE) <=> v \notin ToSet(c.data)
      BY <2>1, <3>1, Sets
    <3>3. ValueInSet(v, c.data, FALSE) \in BOOLEAN /\ ValueInSet(v, c.data, TRUE) \in BOOLEAN
      BY DEF ValueInSet
    <3>4. CASE c.kind = "in_set"
      <4>1. AssertionPasses(c) = ValueInSet(v, c.data, FALSE) /\ Meant(c) = (v \in ToSet(c.data))
        BY <3>4, PassesAs, MeantAs, Zenon
      <4>2. CASE v \in ToSet(c.data)
        <5>1. ValueInSet(v, c.data, FALSE) = TRUE /\ (v \in ToSet(c.data)) = TRUE
          BY <3>2, <3>3, <4>2, Zenon
        <5> QED
          BY <4>1, <5>1, Zenon DEF Outcome
      <4>3. CASE v \notin ToSet(c.data)
        <5>1. ~ValueInSet(v, c.data, FALSE)
          BY <3>2, <4>3, Zenon
        <5>2. ValueInSet(v, c.data, FALSE) = FALSE
          BY <3>3, <5>1
        <5>3. (v \in ToSet(c.data)) = FALSE
          BY <4>3
        <5> QED
          BY <4>1, <5>2, <5>3, Zenon DEF Outcome
      <4> QED
        BY <4>2, <4>3, Zenon
    <3>5. CASE c.kind = "not_in_set"
      <4>1. AssertionPasses(c) = ValueInSet(v, c.data, TRUE) /\ Meant(c) = (v \notin ToSet(c.data))
        BY <3>5, PassesAs, MeantAs, Zenon
      <4> QED
        BY <3>2, <3>3, <4>1 DEF Outcome
    <3> QED
      BY <2>6, <3>4, <3>5
  <2>7. CASE c.kind \in {"in_range", "not_in_range"}
    <3> DEFINE a == c.data[1]
               b == c.data[2]
    <3>1. v \in type /\ a \in type /\ b \in type /\ a <= b
      <4>1. Len(c.data) = 2 /\ Len(c.value) = 1 /\ a <= b
        BY <1>1, <2>7 DEF Kinds
      <4> QED
        BY <2>1, <4>1
    <3>2. /\ a \in Int /\ (a >= 0 \/ b < 0 => (InRange(v, a, b) <=> v \in a..b))
          /\ b \in Int /\ (a < 0 /\ b >= 0 => ~InRange(v, a, b))
          /\ NotInRange(v, a, b) <=> ~InRange(v, a, b)
      <4>1. {v, a, b} \subseteq Signed(8) \/ {v, a, b} \subseteq Unsigned(8)
        <5>1. type = Signed(8) \/ type = Unsigned(8)
          BY <2>1, Zenon
        <5>2. {v, a, b} \subseteq type
          BY <3>1
        <5> QED
          BY <5>1, <5>2, Zenon
      <4> HIDE DEF v, a, b
      <4> QED
        BY <3>1, <4>1, Ranges, Zenon
    <3>3. InRange(v, a, b) \in BOOLEAN /\ NotInRange(v, a, b) \in BOOLEAN
      BY DEF InRange, NotInRange
    <3>4. a >= 0 \/ b < 0 \/ (a < 0 /\ b >= 0)
      BY <3>2
    <3>5. CASE c.kind = "in_range"
      <4>1. AssertionPasses(c) = InRange(v, a, b) /\ Meant(c) = (v \in a..b)
        BY <3>5, PassesAs, MeantAs, Zenon
      <4>2. CASE a < 0 /\ b >= 0
        <5>1. AssertionPasses(c) = (c.kind = "not_in_range")
          BY <3>2, <3>3, <3>5, <4>1, <4>2
        <5> QED
          BY <2>7, <4>2, <5>1, Zenon DEF Outcome
      <4>3. CASE a >= 0 \/ b < 0
        <5>1. AssertionPasses(c) = Meant(c)
          BY <3>2, <3>3, <4>1, <4>3
        <5> QED
          BY <5>1, Zenon DEF Outcome
      <4> QED
        BY <3>4, <4>2, <4>3
    <3>6. CASE c.kind = "not_in_range"
      <4>1. AssertionPasses(c) = NotInRange(v, a, b) /\ Meant(c) = (v \notin a..b)
        BY <3>6, PassesAs, MeantAs, Zenon
      <4>2. CASE a < 0 /\ b >= 0
        <5>1. AssertionPasses(c) = (c.kind = "not_in_range")
          BY <3>2, <3>3, <3>6, <4>1, <4>2
        <5> QED
          BY <2>7, <4>2, <5>1, Zenon DEF Outcome
      <4>3. CASE a >= 0 \/ b < 0
        <5>1. AssertionPasses(c) = Meant(c)
          BY <3>2, <3>3, <4>1, <4>3
        <5> QED
          BY <5>1, Zenon DEF Outcome
      <4> QED
        BY <3>4, <4>2, <4>3
    <3> QED
      BY <2>7, <3>5, <3>6
  <2>8. CASE c.kind \in {"string", "not_string"}
    <3>1. /\ c.kind = "string" => AssertionPasses(c) = StringEqual(c.value, c.data) /\ Meant(c) = (c.value = c.data)
          /\ c.kind = "not_string" => AssertionPasses(c) = ~StringEqual(c.value, c.data) /\ Meant(c) = (c.value # c.data)
      BY PassesAs, MeantAs, Zenon
    <3> QED
      BY <2>8, <3>1 DEF Outcome, StringEqual
  <2>9. CASE c.kind \in {"memory", "not_memory"}
    <3>0. c.value \in Seq(Int) /\ c.data \in Seq(Int)
      BY <1>1, Zenon
    <3>1. Len(c.data) <= Len(c.value)
      BY <1>1, <2>9
    <3>2. /\ MemoryEqual(c.value, c.data) <=> IsPrefix(c.data, c.value)
          /\ MemoryNotEqual(c.value, c.data) <=> ~IsPrefix(c.data, c.value)
      BY <3>0, <3>1, SamePrefix, Zenon
    <3>3. MemoryEqual(c.value, c.data) \in BOOLEAN /\ MemoryNotEqual(c.value, c.data) \in BOOLEAN
          /\ IsPrefix(c.data, c.value) \in BOOLEAN
      BY DEF MemoryEqual, MemoryNotEqual, IsPrefix
    <3>4. /\ c.kind = "memory" => AssertionPasses(c) = MemoryEqual(c.value, c.data)
                                   /\ Meant(c) = IsPrefix(c.data, c.value)
          /\ c.kind = "not_memory" => AssertionPasses(c) = MemoryNotEqual(c.value, c.data)
                                       /\ Meant(c) = ~IsPrefix(c.data, c.value)
      BY PassesAs, MeantAs, Zenon
    <3> QED
      BY <2>9, <3>2, <3>3, <3>4 DEF Outcome
  <2>10. CASE c.kind = "any"
    <3>1. AssertionPasses(c) = TRUE /\ Meant(c) = TRUE
      BY <2>10, PassesAs, MeantAs, Zenon
    <3> QED
      BY <3>1, Zenon DEF Outcome
  <2> QED
    BY <1>3, <2>5, <2>6, <2>7, <2>8, <2>9, <2>10 DEF Kinds
<1> QED
  BY <1>1, <1>2, <1>3, Zenon

(* A negative return code is a word in the upper half.                       *)
ReturnOutcome(c) ==
  c.kind = "return_code" =>
    LET code == c.value[1]
        bytes == c.data[1]
        largest == IF bytes = 1 THEN 2^ByteBits - 1 ELSE 2^(ByteBits * bytes - 1) - 1
    IN  AssertionPasses(c) <=> code >= 0 /\ code # largest

LEMMA ReturnOutcomes ==
  ASSUME NEW c, Comparable(c)
  PROVE  ReturnOutcome(c)
<1> SUFFICES ASSUME c.kind = "return_code" PROVE ReturnOutcome(c)
  BY Zenon DEF ReturnOutcome
<1> DEFINE code == c.value[1]
<1>1. PICK bytes \in {1, 2, 4, 8} : c.data = <<bytes>>
        /\ (code \in Signed(bytes) \/ (bytes = 1 /\ code \in Unsigned(1)))
  BY Zenon DEF Comparable
<1>2. c.data[1] = bytes
  BY <1>1
<1> DEFINE top == 2^ByteBits
           half == 2^(ByteBits * bytes - 1)
<1>3. /\ HalfWord \in Nat /\ HalfWord > 0 /\ top \in Nat /\ top > 0 /\ top <= HalfWord
      /\ half \in Nat /\ half > 0 /\ half <= HalfWord /\ (bytes = 1 => half <= top)
  BY HalfWords
<1>4. ByteBits * 1 = ByteBits
  BY ByteAssumption
<1>5. Signed(bytes) = -half..half - 1 /\ Unsigned(1) = 0..top - 1
  BY <1>4, Zenon DEF Signed, SignedMax, Unsigned
<1>6. AssertionPasses(c) <=> Word(code) <= ValMax(bytes) - 1
  BY <1>2, Zenon DEF AssertionPasses, ReturnCodePasses
<1>7. ValMax(bytes) = IF bytes = 1 THEN top - 1 ELSE half - 1
  BY Zenon DEF ValMax, SignedMax
<1>8. AssertionPasses(c) \in BOOLEAN
  BY DEF AssertionPasses, ReturnCodePasses
<1>9. Word(code) <= ValMax(bytes) - 1 <=> code >= 0 /\ code # (IF bytes = 1 THEN top - 1 ELSE half - 1)
  <2> HIDE DEF top, half, code
  <2>1. code \in Int /\ -half <= code /\ (code < half \/ (bytes = 1 /\ code < top))
    BY <1>1, <1>3, <1>5
  <2>2. -HalfWord <= code /\ code < HalfWord + HalfWord
    BY <1>3, <2>1
  <2>3. Word(code) = (IF code < 0 THEN code + HalfWord + HalfWord ELSE code)
    BY <2>1, <2>2, WordNumbers
  <2>4. CASE code < 0
    <3>1. Word(code) >= HalfWord /\ ValMax(bytes) - 1 < HalfWord
      BY <1>3, <1>7, <2>1, <2>2, <2>3, <2>4
    <3>2. Word(code) \in Int /\ ValMax(bytes) - 1 \in Int
      BY <1>3, <1>7, <2>1, <2>3
    <3>3. ~(Word(code) <= ValMax(bytes) - 1)
      <4> DEFINE w == Word(code)
                 m == ValMax(bytes) - 1
      <4> HIDE DEF w, m
      <4>1. w >= HalfWord /\ m < HalfWord /\ w \in Int /\ m \in Int
        BY <3>1, <3>2 DEF w, m
      <4>2. ~(w <= m)
        BY <1>3, <4>1
      <4> QED
        BY <4>2 DEF w, m
    <3> QED
      BY <2>1, <2>4, <3>3
  <2>5. CASE code >= 0
    <3>1. Word(code) = code
      BY <2>1, <2>3, <2>5
    <3>2. CASE bytes = 1
      <4>1. ValMax(bytes) = top - 1 /\ code < top
        BY <1>3, <1>7, <2>1, <3>2
      <4>2. code <= top - 1 - 1 <=> code # top - 1
        BY <1>3, <2>1, <4>1
      <4> QED
        BY <2>5, <3>1, <3>2, <4>1, <4>2
    <3>3. CASE bytes # 1
      <4>1. ValMax(bytes) = half - 1 /\ code < half
        BY <1>7, <2>1, <3>3
      <4>2. code <= half - 1 - 1 <=> code # half - 1
        BY <1>3, <2>1, <4>1
      <4> QED
        BY <2>5, <3>1, <3>3, <4>1, <4>2
    <3> QED
      BY <3>2, <3>3
  <2> QED
    BY <2>1, <2>4, <2>5
<1> QED
  BY <1>2, <1>6, <1>9, Zenon DEF ReturnOutcome

-----------------------------------------------------------------------------
(* What was asserted                                                         *)

(* A verdict is what an assertion came to.                                   *)
JudgedInv == verdict = <<>> \/ \E c \in Comparisons : verdict = <<c, AssertionPasses(c)>>

LEMMA FunctionJudges ==
  ASSUME FunctionStep
  PROVE  verdict' = verdict \/ \E c \in Comparisons : verdict' = <<c, AssertionPasses(c)>>
<1>a. GoesOn => verdict' = verdict
  BY DEF GoesOn
<1>b. \A reason : Fails(reason) => verdict' = verdict
  BY DEF Fails
<1>c. CheckPassed => verdict' = verdict
  BY DEF CheckPassed
<1>1. CASE DeclareValue \/ DeclareCall
  BY <1>1, <1>a, Zenon DEF DeclareValue, DeclareCall
<1>2. CASE Malloc
  BY <1>2, <1>a, <1>b, Zenon DEF Malloc
<1>3. CASE AssertThat
  BY <1>3, Zenon DEF AssertThat
<1>4. CASE GiveUp
  <2>1. (\E reason : Fails(reason)) \/ UNCHANGED <<expecting, verdict, heap>>
    BY <1>4, Zenon DEF GiveUp
  <2> QED
    BY <2>1, <1>b
<1>5. ASSUME NEW s, Mock(s) \/ CheckExpected(s) \/ FunctionCalled(s) PROVE verdict' = verdict
  BY <1>5, <1>a, <1>b, Zenon DEF Mock, CheckExpected, FunctionCalled
<1>6. ASSUME NEW a, Free(a) \/ Realloc(a) \/ Corrupt(a) PROVE verdict' = verdict
  BY <1>6, <1>a, <1>b, Zenon DEF Free, Realloc, Corrupt
<1>7. CASE ExpectAssertFailure \/ AssertMissed \/ Return \/ FunctionPasses
  BY <1>7 DEF ExpectAssertFailure, AssertMissed, Return, FunctionPasses
<1>8. CASE MockAssert
  BY <1>8 DEF MockAssert, Fails
<1>9. CASE CheckBlocks
  <2>1. CheckPassed \/ (\E reason : Fails(reason)) \/ UNCHANGED verdict
    BY <1>9, Zenon DEF CheckBlocks
  <2> QED
    BY <2>1, <1>b, <1>c
<1>10. CASE CheckValues
  BY <1>10, <1>b, <1>c, Zenon DEF CheckValues
<1> QED
  BY <1>1, <1>2, <1>3, <1>4, <1>5, <1>6, <1>7, <1>8, <1>9, <1>10, Zenon DEF FunctionStep

LEMMA JudgedBegins == Init => JudgedInv
  BY DEF Init, FunctionInit, JudgedInv

LEMMA JudgedKept == PlaceInv /\ JudgedInv /\ [Next]_vars => JudgedInv'
<1> SUFFICES ASSUME PlaceInv, JudgedInv, [Next]_vars PROVE JudgedInv'
  OBVIOUS
<1>a. verdict' = verdict => JudgedInv'
  <2>1. \A c : AssertionPasses(c)' = AssertionPasses(c)
    BY DEF AssertionPasses
  <2> QED
    BY <2>1, Zenon DEF JudgedInv
<1>1. CASE FunctionOnly
  <2>1. FunctionStep
    BY <1>1 DEF FunctionOnly
  <2> QED
    BY <2>1, <1>a, FunctionJudges, Zenon DEF JudgedInv
<1>2. CASE RunnerStep
  <2>1. BeginsOne \/ Rests
    BY <1>2, RunnerFrame
  <2>2. BeginsOne => verdict' = <<>>
    BY DEF BeginsOne, Begin
  <2>3. Rests => verdict' = verdict
    BY DEF Rests
  <2> QED
    BY <2>1, <2>2, <2>3, <1>a, Zenon DEF JudgedInv
<1>3. CASE UNCHANGED vars
  BY <1>3, <1>a DEF vars, process, function, frame
<1> QED
  BY <1>1, <1>2, <1>3, Steps

LEMMA VerdictsMeant == JudgedInv => AssertionsMeanIt
<1> SUFFICES ASSUME JudgedInv, verdict # <<>> PROVE AssertionsMeanIt
  BY Zenon DEF AssertionsMeanIt, AssertionsTruthful, ReturnCodeTold
<1>1. PICK c \in Comparisons : verdict = <<c, AssertionPasses(c)>>
  BY Zenon DEF JudgedInv
<1>2. verdict[1] = c /\ verdict[2] = AssertionPasses(c)
  BY <1>1
<1>3. Outcome(c) /\ ReturnOutcome(c)
  BY ComparisonAssumption, AssertionOutcomes, ReturnOutcomes, Zenon
<1>4. AssertionsTruthful
  BY <1>2, <1>3, Zenon DEF AssertionsTruthful, Outcome
<1>5. ReturnCodeTold
  BY <1>2, <1>3, Zenon DEF ReturnCodeTold, ReturnOutcome
<1> QED
  BY <1>4, <1>5, Zenon DEF AssertionsMeanIt

-----------------------------------------------------------------------------
(* The theorems                                                              *)

(* The inductive invariant                                                   *)
TRInv ==
  /\ PlaceInv /\ GroupInv /\ EntryInv /\ OlderInv /\ MessageInv /\ XmlInv /\ WildInv /\ CrashInv
  /\ NamedInv /\ HeapInv /\ SkipInv /\ UseInv /\ JudgedInv

LEMMA RunnerInvariant == Spec => []TRInv
<1>1. Init => TRInv
  BY PlaceBegins, GroupBegins, EntriesBegin, MessagesBegin, XmlBegins, AccidentsBegin, HeapBegins, UseBegins,
     JudgedBegins, Zenon DEF TRInv
<1>2. TRInv /\ [Next]_vars => TRInv'
  BY PlaceKept, GroupKept, EntriesKept, MessagesKept, XmlKept, NamedKept, AccidentsKept, HeapKept, UseKept,
     JudgedKept, Zenon DEF TRInv
<1> QED
  BY <1>1, <1>2, PTL DEF Spec

(* Whatever the program: a mock_assert jumps into an expect_assert_failure   *)
(* that has been left only after a function failed in one, and the runner    *)
(* crashes only at a test without a name before one with a name, either when *)
(* its turn comes or, if the setup of the group failed, at the end of the    *)
(* group, or at a check point that was freed.                                *)
THEOREM AccidentsAreExplained == Spec => []AccidentsExplained
<1>1. TRInv => AccidentsExplained
  BY AccidentsMeant, Zenon DEF TRInv
<1> QED
  BY <1>1, RunnerInvariant, PTL

(* Whatever the program: a runner returns zero exactly if no function that   *)
(* it counts failed, a test is given its own messages only, and _run_tests   *)
(* runs a test exactly if the last setup before it did not fail.             *)
THEOREM OutcomesAreCounted == Spec => []OutcomesCounted
<1>1. MessageInv => MessageOfOwnTest
  BY DEF MessageInv
<1>2. TRInv => OutcomesCounted
  BY <1>1, NothingLost, RunAfterSetup, Zenon DEF TRInv, OutcomesCounted
<1> QED
  BY <1>2, RunnerInvariant, PTL

(* Whatever the program: what the reports say of headers, failures and the   *)
(* plan of a TAP consumer agrees with what is counted.                       *)
THEOREM ReportsAreTruthful == Spec => []ReportsTruthful
<1>1. TRInv => ReportsTruthful
  BY XmlMeant, Reporting, PlanKept, Zenon DEF TRInv, ReportsTruthful
<1> QED
  BY <1>1, RunnerInvariant, PTL

(* Whatever the program does to the heap: no test and no teardown passes,    *)
(* and no group returns, with a block left that was allocated since its check*)
(* point, unless the block that was the last one then has been freed.        *)
THEOREM LeaksAreFound == Spec => []NoLeakPasses
<1>1. TRInv => NoLeakPasses
  BY LeaksMeant, Zenon DEF TRInv
<1> QED
  BY <1>1, RunnerInvariant, PTL

(* Whatever the program: a check for leaks frees only what was allocated     *)
(* since its check point, unless no block is where that was taken, and a test*)
(* counts as skipped only if it called skip(), or a fixture or a function of *)
(* an older runner did before it.                                            *)
THEOREM TestsAreKeptApart == Spec => TestsKeptApart
<1>1. TRInv /\ [Next]_vars =>
        [ at = "checks" \/ stage = "check" =>
            LET point == IF at = "checks" THEN cp ELSE groupCp
            IN  \A b \in ToSet(blocks) \ ToSet(blocks') : Dangling(point) \/ b.by >= point.at ]_vars
  BY LeaksAreOwn, Zenon DEF TRInv, LeaksOwn
<1>2. TRInv /\ [Next]_vars =>
        [ \A k \in DOMAIN status \cap DOMAIN status' :
            status'[k] = "skipped" /\ status[k] # "skipped" => why = "skip" \/ skip # "test" ]_vars
  BY Zenon DEF TRInv, SkipInv
<1>3. Spec => LeakCheckFreesOwn
  BY <1>1, RunnerInvariant, PTL DEF Spec, LeakCheckFreesOwn
<1>4. Spec => SkipIsOwn
  BY <1>2, RunnerInvariant, PTL DEF Spec, SkipIsOwn
<1> QED
  BY <1>3, <1>4 DEF TestsKeptApart

(* Whatever a test declares and in whatever order it uses it: a mock returns *)
(* what was declared, entry after entry and none too often, calls are        *)
(* accepted in the order they were declared in, a function passes only if it *)
(* has used all that it had to, and fails for what is left over only if it   *)
(* owes something or declared something that need not be used behind what is *)
(* always there.                                                             *)
THEOREM MocksAreAsDeclared == Spec => []MocksAsDeclared
<1>1. TRInv => MocksAsDeclared
  BY MocksMeant, Zenon DEF TRInv
<1> QED
  BY <1>1, RunnerInvariant, PTL

(* Whatever is asserted: an assertion passes exactly if what it says of      *)
(* numbers, strings or memory is so, but for a range from below zero to zero *)
(* or more, in which nothing is; a return code passes exactly if it is not   *)
(* negative and is not the largest of its own type.                          *)
THEOREM AssertionsAreMeant == Spec => []AssertionsMeanIt
<1>1. TRInv => AssertionsMeanIt
  BY VerdictsMeant, Zenon DEF TRInv
<1> QED
  BY <1>1, RunnerInvariant, PTL
=============================================================================
