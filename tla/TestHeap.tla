---------------------------------- MODULE TestHeap ----------------------------------
(***************************************************************************)
(* The blocks a test allocates through test_malloc: a list in the order of *)
(* their allocation, in which a check point is the node that was the last  *)
(* one when it was taken (cmocka/src/cmocka.c).                            *)
(***************************************************************************)
EXTENDS Integers, Sequences, SequencesExt

CONSTANT Addresses  \* where a block can be

ListHead == 0   \* the head of the list, which is no block
NoNode == -1    \* what was never initialised

ASSUME AddressAssumption == Addresses \subseteq Nat \ {ListHead}

VARIABLES
  blocks,   \* [addr, by]: by is a ghost, which function allocated it
  corrupt   \* the blocks whose guards have been overwritten

heap == <<blocks, corrupt>>

HeapTypeOK ==
  /\ blocks \in Seq([addr : Addresses, by : Nat])
  /\ IsInjective([k \in DOMAIN blocks |-> blocks[k].addr])
  /\ corrupt \subseteq { blocks[k].addr : k \in DOMAIN blocks }

(* The program may have allocated before it runs its first group.            *)
HeapInit(before) ==
  /\ blocks = [k \in DOMAIN before |-> [addr |-> before[k], by |-> 0]]
  /\ corrupt = {}

Held == { blocks[k].addr : k \in DOMAIN blocks }

(* Every allocation comes from the system's heap, which may use an address   *)
(* again as soon as the block there has been freed.                          *)
TestMalloc(a, by) ==
  /\ a \in Addresses \ Held
  /\ blocks' = Append(blocks, [addr |-> a, by |-> by]) /\ UNCHANGED corrupt

(* The list without n blocks from the k-th one on                            *)
Without(k, n) == SubSeq(blocks, 1, k - 1) \o SubSeq(blocks, k + n, Len(blocks))
Place(a) == CHOOSE k \in DOMAIN blocks : blocks[k].addr = a

(* When the guards are intact                                                *)
TestFree(a) ==
  /\ a \in Held \ corrupt
  /\ blocks' = Without(Place(a), 1) /\ UNCHANGED corrupt

TestRealloc(a, b, by) ==
  /\ a \in Held \ corrupt /\ b \in Addresses \ Held
  /\ blocks' = Append(Without(Place(a), 1), [addr |-> b, by |-> by]) /\ UNCHANGED corrupt

(* The test writes past the end of a block, or before its start.             *)
Overrun(a) ==
  /\ a \in Held /\ corrupt' = corrupt \cup {a} /\ UNCHANGED blocks

-----------------------------------------------------------------------------

(* check_point_allocated_blocks                                              *)
LastNode == IF blocks = <<>> THEN ListHead ELSE Last(blocks).addr

(* A check point and, as a ghost, the first function to run after it.        *)
CheckPoint(next) == [node |-> LastNode, at |-> next]

Dangling(cp) == cp.node \notin Held \cup {ListHead}

Behind(node) ==
  IF node = ListHead THEN blocks
  ELSE SubSeq(blocks, Place(node) + 1, Len(blocks))

(* What follows the check point.  A node that has been freed, or was never   *)
(* initialised, is read all the same.  What is there may lead to any place in*)
(* the list; mostly it leads nowhere, as the blocks are overwritten before   *)
(* they are freed, and reading it raises an exception (see Dangling).        *)
AllocatedSince(cp) ==
  IF ~Dangling(cp) THEN { Behind(cp.node) }
  ELSE { SubSeq(blocks, k, Len(blocks)) : k \in 1..Len(blocks) + 1 }

(* free_allocated_blocks goes through _test_free, which fails at the first   *)
(* block with a corrupt guard: that one and all behind it stay.              *)
FreeAllocatedBlocks(found) ==
  /\ \E n \in 0..Len(found) :
       /\ \A k \in 1..n : found[k].addr \notin corrupt
       /\ n < Len(found) => found[n + 1].addr \in corrupt
       /\ blocks' = Without(Len(blocks) - Len(found) + 1, n)
  /\ UNCHANGED corrupt

(* Is something left that was allocated after the check point?               *)
LeftSince(cp) == \E k \in DOMAIN blocks : blocks[k].by >= cp.at

(* The block the check point was taken at has been freed since.              *)
Stale(cp) ==
  /\ cp.node # ListHead
  /\ ~\E k \in DOMAIN blocks : blocks[k].addr = cp.node /\ blocks[k].by < cp.at
=====================================================================================
