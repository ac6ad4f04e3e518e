-------------------------------- MODULE MCTestRunner --------------------------------
(***************************************************************************)
(* Small test programs for TestRunner: each one has one kind of behaviour  *)
(* in its functions and the groups that this behaviour needs.              *)
(***************************************************************************)
EXTENDS TestRunner

Function(what, most) == [what |-> what, most |-> most, abort |-> FALSE]
Test(setup, teardown) == [named |-> TRUE, setup |-> setup, teardown |-> teardown]
Plain == Test(FALSE, FALSE)
Unnamed == [named |-> FALSE, setup |-> FALSE, teardown |-> FALSE]

GroupOf(setup, teardown, ts) ==
  [runner |-> "group", setup |-> setup, teardown |-> teardown, tests |-> ts, file |-> "none"]
Older(runner, types) ==
  [runner |-> runner, setup |-> FALSE, teardown |-> FALSE, tests |-> types, file |-> "none"]
WithFile(f) == [GroupOf(FALSE, FALSE, <<Plain>>) EXCEPT !.file = f]

Program(d, groups) ==
  [does |-> d, before |-> <<>>, format |-> "stdout", present |-> {}, groups |-> groups]

OneTest == <<GroupOf(FALSE, FALSE, <<Plain>>)>>
Fixtures == GroupOf(TRUE, TRUE, <<Test(TRUE, TRUE), Test(FALSE, TRUE)>>)

MCPrograms ==
  { Program(Function({"values"}, 5), OneTest),
    Program(Function({"calls"}, 4), OneTest),
    Program(Function({"asserts"}, 1), OneTest),
    Program(Function({"heap"}, 2), <<GroupOf(TRUE, TRUE, <<Test(TRUE, TRUE)>>)>>),
    Program(Function({"heap"}, 2), <<Older("tests", <<"setup", "test", "teardown">>)>>),
    Program(Function({"heap"}, 2), <<Older("group_tests", <<"test", "group_teardown">>)>>),
    [Program(Function({"heap"}, 2), <<GroupOf(FALSE, FALSE, <<Test(FALSE, TRUE)>>)>>)
       EXCEPT !.before = <<1, 2>>],
    Program(Function({"expect", "fail", "skip"}, 2),
            <<Older("tests", <<"test">>), GroupOf(TRUE, FALSE, <<Test(TRUE, TRUE), Plain>>)>>),
    [Program(Function({"fail", "expect"}, 2), OneTest) EXCEPT !.does.abort = TRUE],
    [Program(Function({"fail"}, 1), <<Older("tests", <<"teardown">>)>>)
       EXCEPT !.does.abort = TRUE] }
  \cup { Program(Function({"fail"}, 1), <<Older("tests", types)>>) :
           types \in { <<"setup", "test", "none", "test", "setup", "test", "teardown", "teardown">>,
                       <<"test", "group_setup">> } }
  \cup { Program(Function({"fail"}, 1), <<Older("group_tests", types)>>) :
           types \in { <<"group_setup", "test", "group_teardown", "setup", "test">>,
                       <<"group_setup", "group_setup">>, <<"test">> } }
  \cup { Program(Function({"fail"}, 1), <<GroupOf(FALSE, FALSE, ts)>>) :
           ts \in { <<Plain, Unnamed>>, <<Unnamed, Plain>> } }
  \cup { Program(Function({"fail"}, 1), <<GroupOf(TRUE, FALSE, <<Unnamed, Plain>>)>>) }
  \cup { [Program(Function({"fail", "skip"}, 1), <<Fixtures>>) EXCEPT !.format = format] :
           format \in {"stdout", "tap", "subunit", "xml"} }
  \cup { [Program(Function({}, 0), <<WithFile(a), WithFile(b), WithFile(c)>>)
            EXCEPT !.format = "xml", !.present = there] :
           a, b, c \in {"first", "second", "third"}, there \in SUBSET {"first"} }

MCCounts == {-2, -1, 1, 2}
MCResults == {0, 1}

Compare(kinds, values, datas) ==
  [kind : kinds, value : values, data : datas]
Numbers == { <<n>> : n \in {-2, -1, 0, 1, 2} }
Texts == { <<>>, <<1>>, <<1, 1>>, <<1, 2>>, <<2, 1>> }

MCComparisons ==
  Compare({"value", "not_value"}, Numbers, Numbers)
  \cup Compare({"in_set", "not_in_set"}, Numbers, {<<1, 1>>, <<-1, 2>>})
  \cup Compare({"in_range", "not_in_range"}, Numbers,
               {<<0, 1>>, <<-2, -1>>, <<-1, 1>>, <<1, 1>>})
  \cup Compare({"string", "not_string"}, {<<1>>, <<1, 2>>}, {<<1>>, <<1, 2>>, <<2>>})
  \cup Compare({"memory", "not_memory"}, {<<1, 2>>, <<1, 1>>}, Texts)
  \cup Compare({"return_code"}, { <<n>> : n \in {-1, 0, 1, 2, 3} }, {<<1>>})
  \cup Compare({"return_code"}, { <<n>> : n \in {-128, -1, 0, 5, 126, 127} }, {<<4>>})
=====================================================================================
