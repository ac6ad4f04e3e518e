---------------------------------- MODULE Checks ----------------------------------
(***************************************************************************)
(* What cmocka compares: the assertions and the checks of the parameters   *)
(* of mocked functions share their comparisons (cmocka/src/cmocka.c).      *)
(*                                                                         *)
(* A value is a sequence: of one number, or of the elements of a string or *)
(* of memory.  The data are what it is compared with: one number, the two  *)
(* ends of a range, the elements of a set, of a string or of memory.       *)
(***************************************************************************)
EXTENDS Integers, Sequences

CONSTANT ByteBits  \* how many bits a byte has; eight bytes are a word

ASSUME ByteAssumption == ByteBits \in Nat \ {0}

Kinds == {"value", "not_value", "in_set", "not_in_set", "in_range", "not_in_range",
          "string", "not_string", "memory", "not_memory", "any"}

(* A number as a LargestIntegralType, which is unsigned.                     *)
Word(n) == n % 2^(8 * ByteBits)
SameWord(a, b) == Word(a) = Word(b)

(* Mutant: the search goes on, and each time the number is found the result  *)
(* is turned over.                                                           *)
ValueInSetAll(value, set, invert) ==
  LET found == { i \in DOMAIN set : SameWord(set[i], value) }
  IN  IF \E i, j \in found : i # j /\ \A k \in found : k \in {i, j} THEN invert
      ELSE IF found # {} THEN ~invert ELSE invert

(* value_in_set_display_error: succeeded, at first invert, is turned over    *)
(* once when the number is found.                                            *)
ValueInSet(value, set, invert) ==
  LET found == \E i \in DOMAIN set : SameWord(set[i], value)
  IN  IF found THEN ~invert ELSE invert

InRange(value, minimum, maximum) ==
  Word(value) >= Word(minimum) /\ Word(value) <= Word(maximum)
NotInRange(value, minimum, maximum) ==
  Word(value) < Word(minimum) \/ Word(value) > Word(maximum)

StringEqual(left, right) == left = right

(* The size is that of what is expected, the value may be longer.            *)
Differences(a, b) == { i \in DOMAIN b : a[i] # b[i] }
MemoryEqual(a, b) == Differences(a, b) = {}

MemoryNotEqual(a, b) == Differences(a, b) # {}

Passes(kind, value, data) ==
  CASE kind = "value"        -> SameWord(value[1], data[1])
    [] kind = "not_value"    -> ~SameWord(value[1], data[1])
    [] kind = "in_set"       -> ValueInSet(value[1], data, FALSE)
    [] kind = "not_in_set"   -> ValueInSet(value[1], data, TRUE)
    [] kind = "in_range"     -> InRange(value[1], data[1], data[2])
    [] kind = "not_in_range" -> NotInRange(value[1], data[1], data[2])
    [] kind = "string"       -> StringEqual(value, data)
    [] kind = "not_string"   -> ~StringEqual(value, data)
    [] kind = "memory"       -> MemoryEqual(value, data)
    [] kind = "not_memory"   -> MemoryNotEqual(value, data)
    [] kind = "any"          -> TRUE

-----------------------------------------------------------------------------
(* assert_return_code, of a number of so many bytes                          *)

SignedMax(bytes) == 2^(ByteBits * bytes - 1) - 1

(* For one byte the largest number is that of an unsigned one.               *)
ValMax(bytes) == IF bytes = 1 THEN 2^ByteBits - 1 ELSE SignedMax(bytes)

ReturnCodePasses(result, bytes) == Word(result) <= ValMax(bytes) - 1

-----------------------------------------------------------------------------
(* What can be compared: numbers of one type, signed or not, a range with    *)
(* its smaller end first, memory of which so much is there, and a return     *)
(* code of a signed type or of an unsigned byte.                             *)

Signed(bytes) == -2^(ByteBits * bytes - 1)..SignedMax(bytes)
Unsigned(bytes) == 0..2^(ByteBits * bytes) - 1
OfOneType(c) == \E type \in {Signed(8), Unsigned(8)} : c.value \in Seq(type) /\ c.data \in Seq(type)

Comparable(c) ==
  /\ c.kind \in Kinds \cup {"return_code"}
  /\ c.value \in Seq(Int) /\ c.data \in Seq(Int)
  /\ c.kind \in Kinds => OfOneType(c)
  /\ c.kind \in Kinds \ {"string", "not_string", "memory", "not_memory"} => Len(c.value) = 1
  /\ c.kind \in {"value", "not_value"} => Len(c.data) = 1
  /\ c.kind \in {"in_range", "not_in_range"} => Len(c.data) = 2 /\ c.data[1] <= c.data[2]
  /\ c.kind \in {"memory", "not_memory"} => Len(c.data) <= Len(c.value)
  /\ c.kind = "return_code" =>
       \E bytes \in {1, 2, 4, 8} :
         /\ Len(c.value) = 1 /\ c.data = <<bytes>>
         /\ c.value[1] \in Signed(bytes) \/ (bytes = 1 /\ c.value[1] \in Unsigned(1))
===================================================================================
