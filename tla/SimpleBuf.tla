-------------------------------- MODULE SimpleBuf --------------------------------
(***************************************************************************)
(* CVerySimpleBuf<WCHAR> (VerySimpleBuf.hpp): a buffer that grows, keeps   *)
(* its contents and clears what it adds.  A buffer is the number of its    *)
(* elements and of those before the first zero; the latter is what         *)
(* getBufLenZ_ counts if there is a zero at all.                           *)
(***************************************************************************)
EXTENDS Integers, FiniteSetsExt

CONSTANT Align  \* elements in a pointer: what getCeil_ rounds up to

ASSUME AlignAssumption == Align \in Nat \ {0}

Buffer == [count : Nat, len : Nat]
Null == [count |-> 0, len |-> 0]

Terminated(b) == b = Null \/ b.len < b.count

Ceil(n) == ((n + Align - 1) \div Align) * Align

(* The size comes out of the number of elements asked for.                   *)
Sized(b, n, size) ==
  CASE n = 0            -> Null
    [] 0 < n /\ size <= b.count -> [b EXCEPT !.len = Min({@, n})]
    [] OTHER            -> [count |-> size, len |-> Min({b.len, n})]

ReAlloc(b, n) == Sized(b, n, Ceil(n + 1))
ReAllocExact(b, n) == Sized(b, n, n)

(* operator= of a buffer, and of a text of n elements.                       *)
Copy(b) == [count |-> ReAllocExact(Null, b.count).count, len |-> b.len]
FromText(n) == IF n = 0 THEN ReAlloc(Null, 1) ELSE [ReAllocExact(Null, n + 1) EXCEPT !.len = n]

(* A text of n elements is copied to the beginning, or behind the first k.   *)
Fill(b, k, n) == [b EXCEPT !.len = k + n]
===================================================================================
