-------------------------- MODULE MCLookfsTraversal --------------------------
(* LookfsTraversal on a small tree.  The current directory has a file, a     *)
(* link, a full and an empty directory; in the full one a junction leads     *)
(* back to it, and a directory follows and is followed by something.         *)
EXTENDS LookfsTraversal, TLC

CONSTANTS cwd, full, sub, empty, MaxArguments

E(kind, to) == [kind |-> kind, to |-> to]

MCDirs == {cwd, full, sub, empty}

MCEntries ==
  cwd   :> <<E("link", cwd), E("dir", full), E("dir", empty)>> @@
  full  :> <<E("dot", full), E("junction", full), E("dir", sub), E("file", full)>> @@
  sub   :> <<E("dot", sub), E("file", sub)>> @@
  empty :> <<E("dot", empty)>>

MCCommandLines == UNION {[1..n -> {{1}, {2}, {3}, 1..3}] : n \in 0..MaxArguments}
=============================================================================
