------------------------------- MODULE Words --------------------------------
(***************************************************************************)
(* The units that bit-vector.cc and flat-vector.h store bits in.  A unit   *)
(* is the set of its bits that are 1; the code has units of 64 bits.       *)
(***************************************************************************)
EXTENDS BitOps

CONSTANT UnitBits  (* MARISA_WORD_SIZE *)

ASSUME WordsAssumption == UnitBits \in Nat \ {0}

UnitPlaces == 0 .. UnitBits - 1

Complement(unit) == UnitPlaces \ unit

(* PopCount of the bits of a unit below bit n.                             *)
LowOnes(unit, n) == Cardinality({b \in unit : b < n})

(* select_bit: the place of the i-th 1 of a unit.                          *)
SelectBit(i, unit) == CHOOSE b \in unit : LowOnes(unit, b) = i

ShiftRight(unit, n) == {b - n : b \in {c \in unit : c >= n}}

ShiftLeft(unit, n) == {b + n : b \in {c \in unit : c + n < UnitBits}}

(* The number of bits it takes to count up to n: how often n is halved     *)
(* before nothing is left.                                                 *)
Halvings[n \in Nat] == IF n = 0 THEN 0 ELSE Halvings[n \div 2] + 1

Width(n) == Halvings[n]

(* The numbers of so many bits.                                            *)
TwoTo[n \in Nat] == IF n = 0 THEN 1 ELSE 2 * TwoTo[n - 1]

(* The 1s of a number.                                                     *)
Ones(n) == {b \in 0 .. Width(n) - 1 : (n \div (2 ^ b)) % 2 = 1}
=============================================================================
