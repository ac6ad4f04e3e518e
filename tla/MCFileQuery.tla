------------------------------ MODULE MCFileQuery ------------------------------
(* FileQuery on a 64-bit system, for paths of each kind.                     *)
EXTENDS FileQuery

MCArgs ==
  { [kind |-> "null", len |-> 0], [kind |-> "dot", len |-> 1],
    [kind |-> "prefixed", len |-> 7] } \cup
  { [kind |-> "plain", len |-> n] : n \in 0..2 }
===================================================================================
