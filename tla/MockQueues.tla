-------------------------------- MODULE MockQueues --------------------------------
(***************************************************************************)
(* What a test of cmocka has declared about the functions it mocks: values *)
(* to return, checks of parameters, and calls that are to be made.  Each   *)
(* function or parameter has a queue; the two trees of doubly linked lists *)
(* they are kept in are here one function from symbols to sequences, and a *)
(* symbol without a queue has an empty one.                                *)
(***************************************************************************)
EXTENDS Integers, Sequences, FiniteSets, SequencesExt

CONSTANTS
  Mocks,       \* functions that return values
  Parameters,  \* parameters of functions, each with the function it is of
  Callees,     \* functions whose calls are expected
  Counts       \* how often something may be declared to happen

Always == -1  \* WILL_RETURN_ALWAYS: at least once
Maybe == -2   \* WILL_RETURN_ONCE: any number of times, or already once

Symbols == Mocks \cup Parameters

ASSUME MockAssumption == Counts \subseteq Int \ {0} /\ \A c \in Counts : c >= Maybe

VARIABLES
  queues,    \* of each symbol: what remains, [id, count]
  calls,     \* the calls that remain, [id, of, count]
  declared,  \* ghost: of each symbol, everything that has been declared
  taken,     \* ghost: of each symbol, the ids of what has been taken
  ordered,   \* ghost: every call that has been declared
  called     \* ghost: the ids of the calls that have been accepted

mocks == <<queues, calls, declared, taken, ordered, called>>

Entries == [id : Nat, count : Int]
Calls == [id : Nat, of : Callees, count : Int]

MocksTypeOK ==
  /\ queues \in [Symbols -> Seq(Entries)] /\ declared \in [Symbols -> Seq(Entries)]
  /\ calls \in Seq(Calls) /\ ordered \in Seq(Calls)
  /\ taken \in [Symbols -> Seq(Nat)] /\ called \in Seq(Nat)
  /\ \A s \in Symbols : \A k \in DOMAIN queues[s] : queues[s][k].count # 0 /\ queues[s][k].count >= Maybe
  /\ \A k \in DOMAIN calls : calls[k].count # 0

Nothing == [s \in Symbols |-> <<>>]

MocksInit ==
  /\ queues = Nothing /\ calls = <<>>
  /\ declared = Nothing /\ taken = Nothing
  /\ ordered = <<>> /\ called = <<>>

(* initialize_testing                                                        *)
InitializeTesting ==
  /\ queues' = Nothing /\ calls' = <<>>
  /\ declared' = Nothing /\ taken' = Nothing
  /\ ordered' = <<>> /\ called' = <<>>

(* teardown_testing frees all queues; what they were is kept to be compared. *)
TeardownTesting ==
  /\ queues' = Nothing /\ calls' = <<>>
  /\ UNCHANGED <<declared, taken, ordered, called>>

-----------------------------------------------------------------------------
(* Values and parameters                                                     *)

(* _will_return and _expect_check: add_symbol_value                          *)
Declare(s, count) ==
  LET entry == [id |-> Len(declared[s]) + 1, count |-> count]
  IN  /\ queues' = [queues EXCEPT ![s] = Append(@, entry)]
      /\ declared' = [declared EXCEPT ![s] = Append(@, entry)]
      /\ UNCHANGED <<calls, taken, ordered, called>>

(* The first time, an entry that is always there is marked as used.          *)
Used(e) == IF e.count > Maybe THEN [e EXCEPT !.count = @ - 1] ELSE e

(* get_symbol_value                                                          *)
Taken(q) ==
  IF Head(q).count - 1 = 0 THEN Tail(q) ELSE <<Used(Head(q))>> \o Tail(q)

TakeValue(s) ==
  /\ queues[s] # <<>>
  /\ queues' = [queues EXCEPT ![s] = Taken(@)]
  /\ taken' = [taken EXCEPT ![s] = Append(@, Head(queues[s]).id)]
  /\ UNCHANGED <<calls, declared, ordered, called>>

-----------------------------------------------------------------------------
(* Calls                                                                     *)

ExpectFunctionCall(f, count) ==
  LET entry == [id |-> Len(ordered) + 1, of |-> f, count |-> count]
  IN  /\ calls' = Append(calls, entry) /\ ordered' = Append(ordered, entry)
      /\ UNCHANGED <<queues, declared, taken, called>>

(* _function_called: the first entry, unless it is there always and for      *)
(* another function; then the first one behind it that is for this function  *)
(* or is not always there.                                                   *)
CallFound(f) ==
  { k \in DOMAIN calls :
      /\ calls[k].of = f
      /\ \A j \in 1..k - 1 : calls[j].count < Always /\ calls[j].of # f }

(* When the only entry there is is always there and for another function,    *)
(* the code goes on to the head of the list and reads through its NULL value.*)
CallCrashes(f) == Len(calls) = 1 /\ calls[1].count < Always /\ calls[1].of # f

AcceptCall(f) ==
  \E k \in CallFound(f) :
    /\ calls' = IF calls[k].count > Maybe /\ calls[k].count - 1 = 0
                THEN SubSeq(calls, 1, k - 1) \o SubSeq(calls, k + 1, Len(calls))
                ELSE [calls EXCEPT ![k] = Used(@)]
    /\ called' = Append(called, calls[k].id)
    /\ UNCHANGED <<queues, declared, taken, ordered>>

-----------------------------------------------------------------------------
(* fail_if_leftover_values                                                   *)

(* Mutant: an entry that has never been used is removed as well.             *)
RemainingUnused(q) == IF q # <<>> /\ Head(q).count < 0 THEN Tail(q) ELSE q

(* remove_always_return_values: only the first of a queue is removed.        *)
Remaining(q) == IF q # <<>> /\ Head(q).count < Always THEN Tail(q) ELSE q

(* remove_always_return_values_from_list: all of the calls are.              *)
RemainingCalls == { k \in DOMAIN calls : calls[k].count >= Always }

LeftoverValues ==
  \/ \E s \in Symbols : Remaining(queues[s]) # <<>>
  \/ RemainingCalls # {}

-----------------------------------------------------------------------------
(* What was meant                                                            *)

(* How often among the first n                                               *)
Times(seq, n, id) == Cardinality({ k \in 1..n : seq[k] = id })

(* How often in all                                                          *)
InAll(seq, id) == Times(seq, Len(seq), id)

Least(count) == IF count > 0 THEN count ELSE IF count = Always THEN 1 ELSE 0

(* Has everything been used as often as it must?                             *)
AllUsed ==
  /\ \A s \in Symbols : \A k \in DOMAIN declared[s] :
       InAll(taken[s], declared[s][k].id) >= Least(declared[s][k].count)
  /\ \A k \in DOMAIN ordered : InAll(called, ordered[k].id) >= Least(ordered[k].count)
===================================================================================
