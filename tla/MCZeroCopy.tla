----------------------------- MODULE MCZeroCopy -----------------------------
(* ZeroCopy on a small tree: a file, a subdirectory with a file and, where   *)
(* Looped is TRUE, a mount point that leads back to the root.                *)
EXTENDS ZeroCopy, TLC

CONSTANTS top, sub, Looped

E(kind, to) == [kind |-> kind, to |-> to]

MCDirs == {top, sub}

MCEntries ==
  (top :> <<E("dot", top), E("dir", sub), E("file", top)>> \o (IF Looped THEN <<E("reparse", top)>> ELSE <<>>))
    @@ (sub :> <<E("dot", sub), E("file", sub)>>)

MCFlags ==
  { {},
    {"RECURSIVE"},
    {"RECURSIVE", "SUPPRESS_SELF_AND_PARENT"},
    {"RECURSIVE", "SUPPRESS_SELF_AND_PARENT", "SKIP_REPARSE_DIRECTORIES"} }
=============================================================================
