-------------------------- MODULE MCSearchResources --------------------------
(* SearchResources on absolute and relative paths, with each kind of mask    *)
(* and one that ends in a backslash.                                         *)
EXTENDS SearchResources

MCRootPaths ==
  { <<"C:", BS, "d", BS, mask>> : mask \in Masks } \cup
  { <<"d", BS, mask>> : mask \in {"*.c", "f"} } \cup
  { <<"f">>, <<"C:", BS, "d", BS>> }
=============================================================================
