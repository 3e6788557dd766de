----------------------------- MODULE BitVector ------------------------------
(***************************************************************************)
(* The bit vector of the trie (bit-vector.cc): units of bits, an index of  *)
(* ranks per block of eight units, and samples of the positions of every   *)
(* so many 0s and 1s.  rank1, select0 and select1 answer from the index;   *)
(* BitOps says what they have to answer.                                   *)
(*                                                                         *)
(* A unit is the set of its bits that are 1.  The sizes are constants: the *)
(* code has units of 64 bits, and blocks and samples of 8 * 64.  Arrays are*)
(* counted from 0 as in the code.                                          *)
(***************************************************************************)
EXTENDS Words

CONSTANTS
  LinearBlocks,  (* samples this many blocks apart or less: blocks one by one*)
  Lanes          (* warpSize                                               *)

ASSUME BitVectorAssumption == LinearBlocks \in Nat /\ Lanes \in Nat \ {0}

BlockUnits == 8
BlockBits == BlockUnits * UnitBits

EmptyRank == [abs |-> 0, rel |-> [k \in 1 .. BlockUnits - 1 |-> 0]]

EmptyBits ==
  [units |-> << >>, size |-> 0, ones |-> 0, ranks |-> << >>, select0s |-> << >>, select1s |-> << >>]

(* push_back: a new unit comes in with zeros.                              *)
PushBack(v, bit) ==
  LET grown == IF v.size = UnitBits * Len(v.units) THEN Append(v.units, {}) ELSE v.units
      unit == v.size \div UnitBits
  IN [v EXCEPT !.units = IF bit THEN [grown EXCEPT ![unit + 1] = @ \cup {v.size % UnitBits}] ELSE grown,
               !.ones = IF bit THEN @ + 1 ELSE @,
               !.size = @ + 1]

BitAt(v, i) == i % UnitBits \in At(v.units, i \div UnitBits)

-----------------------------------------------------------------------------
(* A slip: a field too small for the count of units full of 1s.            *)
FieldSizeTight(k) == Width(k * UnitBits - 1)

(* RankIndex packs the seven counts within a block in fields of so many    *)
(* bits: enough for the bits that come before.                             *)
FieldSize(k) == Width(k * UnitBits)

SetRel(rank, k, value) == [rank EXCEPT !.rel[k] = value % TwoTo[FieldSize(k)]]

(* Counts before unit k of a block, in its own field or none.              *)
Rel(rank, k) == IF k = 0 THEN 0 ELSE rank.rel[k]

(* A sample is due in a unit when it holds the count that a multiple of    *)
(* BlockBits comes at, with seen such bits before it: the first such bit.  *)
DueIn(seen) == (BlockBits - (seen % BlockBits)) % BlockBits

Sampled(samples, unit, seen, base) ==
  IF Cardinality(unit) > DueIn(seen) THEN Append(samples, base + SelectBit(DueIn(seen), unit)) ELSE samples

(* One unit of build_index.                                                *)
IndexUnit(s, v, u) ==
  LET unit == At(v.units, u)
      base == u * UnitBits
      inUse == {b \in UnitPlaces : base + b < v.size}
      r == u \div BlockUnits
      k == u % BlockUnits
  IN [ ranks |-> [s.ranks EXCEPT ![r + 1] =
                    IF k = 0 THEN [@ EXCEPT !.abs = s.ones] ELSE SetRel(@, k, s.ones - @.abs)],
       select0s |-> Sampled(s.select0s, Complement(unit) \cap inUse, s.zeros, base),
       select1s |-> Sampled(s.select1s, unit, s.ones, base),
       zeros |-> s.zeros + Cardinality(inUse) - Cardinality(unit),
       ones |-> s.ones + Cardinality(unit) ]

(* The counts of a partial block behind its last unit.                     *)
RestFilled(ranks, v, ones) ==
  IF v.size % BlockBits = 0 THEN ranks
  ELSE LET last == v.size - 1
           rank == ranks[last \div BlockBits + 1]
           counts == [k \in 1 .. BlockUnits - 1 |->
             IF k > (last \div UnitBits) % BlockUnits
             THEN (ones - rank.abs) % TwoTo[FieldSize(k)] ELSE rank.rel[k]]
       IN [ranks EXCEPT ![last \div BlockBits + 1] = [rank EXCEPT !.rel = counts]]

(* build and build_index.                                                  *)
BuildIndex(v, select0, select1) ==
  LET blocks == (v.size \div BlockBits) + (IF v.size % BlockBits # 0 THEN 1 ELSE 0) + 1
      start == [ranks |-> [r \in 1 .. blocks |-> EmptyRank],
                select0s |-> << >>, select1s |-> << >>, zeros |-> 0, ones |-> 0]
      upTo[n \in 0 .. Len(v.units)] == IF n = 0 THEN start ELSE IndexUnit(upTo[n - 1], v, n - 1)
      done == upTo[Len(v.units)]
      filled == RestFilled(done.ranks, v, done.ones)
  IN [v EXCEPT !.ranks = [filled EXCEPT ![blocks].abs = done.ones],
               !.select0s = IF select0 THEN Append(done.select0s, v.size) ELSE << >>,
               !.select1s = IF select1 THEN Append(done.select1s, v.size) ELSE << >>]

-----------------------------------------------------------------------------
(* rank1; at the end of the last unit the mask is empty, whatever unit is  *)
(* read.                                                                   *)
IndexedRank1(v, i) ==
  LET rank == At(v.ranks, i \div BlockBits)
      unit == IF i % UnitBits = 0 THEN {} ELSE At(v.units, i \div UnitBits)
  IN rank.abs + Rel(rank, (i \div UnitBits) % BlockUnits) + LowOnes(unit, i % UnitBits)

Blocks(v) == 0 .. Len(v.ranks) - 1

(* The block of the i-th bit: before[b] such bits come before block b, and *)
(* two samples bracket the position.  Both loops by what they have after n *)
(* turns; a turn more changes nothing.                                     *)
Bracketed(i, samples, before) ==
  LET begin == At(samples, i \div BlockBits) \div BlockBits
      end == (At(samples, i \div BlockBits + 1) + BlockBits - 1) \div BlockBits
      step[n \in 0 .. end] ==
        IF n = 0 THEN begin
        ELSE LET b == step[n - 1]
             IN IF i < before[b + 1] THEN b ELSE b + 1
      bisect[n \in 0 .. end] ==
        IF n = 0 THEN <<begin, end>>
        ELSE LET range == bisect[n - 1]
                 middle == (range[1] + range[2]) \div 2
             IN IF range[1] + 1 >= range[2] THEN range
                ELSE IF i < before[middle] THEN <<range[1], middle>> ELSE <<middle, range[2]>>
  IN IF begin + LinearBlocks >= end THEN step[end] ELSE bisect[end][1]

(* The unit of the i-th bit within a block, by a tree of comparisons.      *)
UnitOf(i, before) ==
  IF i < before[4]
  THEN IF i < before[2] THEN IF i >= before[1] THEN 1 ELSE 0
       ELSE IF i < before[3] THEN 2 ELSE 3
  ELSE IF i < before[6] THEN IF i < before[5] THEN 4 ELSE 5
       ELSE IF i < before[7] THEN 6 ELSE 7

IndexedSelect1(v, i) ==
  IF i % BlockBits = 0 THEN At(v.select1s, i \div BlockBits)
  ELSE LET r == Bracketed(i, v.select1s, [b \in Blocks(v) |-> At(v.ranks, b).abs])
           rank == At(v.ranks, r)
           rest == i - rank.abs
           k == UnitOf(rest, [n \in 1 .. BlockUnits - 1 |-> Rel(rank, n)])
           u == r * BlockUnits + k
       IN u * UnitBits + SelectBit(rest - Rel(rank, k), At(v.units, u))

IndexedSelect0(v, i) ==
  IF i % BlockBits = 0 THEN At(v.select0s, i \div BlockBits)
  ELSE LET r == Bracketed(i, v.select0s, [b \in Blocks(v) |-> b * BlockBits - At(v.ranks, b).abs])
           rank == At(v.ranks, r)
           rest == i - (r * BlockBits - rank.abs)
           k == UnitOf(rest, [n \in 1 .. BlockUnits - 1 |-> n * UnitBits - Rel(rank, n)])
           u == r * BlockUnits + k
       IN u * UnitBits + SelectBit(rest - (k * UnitBits - Rel(rank, k)), Complement(At(v.units, u)))

(* warp_find_next_unset: the lanes of a warp look at a unit each, also past*)
(* the end of the vector, where they find what memory holds (beyond).      *)
WarpFindNextUnset(v, i, beyond) ==
  LET first == i \div UnitBits
      Unit(u) == IF u < Len(v.units) THEN At(v.units, u) ELSE beyond
      here == {b \in Complement(Unit(first)) : b >= i % UnitBits}
      Stops(u) == Complement(Unit(u)) # {}
      warp[u \in Nat] ==
        LET stops == {w \in u .. u + Lanes - 1 : Stops(w)}
        IN IF stops = {} THEN warp[u + Lanes] ELSE CHOOSE w \in stops : \A x \in stops : w <= x
      found == warp[first + 1]
  IN IF here # {} THEN first * UnitBits + (CHOOSE b \in here : \A c \in here : b <= c)
     ELSE found * UnitBits + SelectBit(0, Complement(Unit(found)))

-----------------------------------------------------------------------------
BitsOf(v) == [i \in 1 .. v.size |-> BitAt(v, i - 1)]

(* What an index has to answer, and does: the number of 1s before each     *)
(* position, the position of each 0 and each 1 from the number of those    *)
(* before it, and for the search of a warp the next 0, if there is one.    *)
AnswersTrue(v) ==
  LET bits == BitsOf(v)
  IN /\ \A i \in 0 .. v.size : IndexedRank1(v, i) = Rank1(bits, i)
     /\ \A p \in 0 .. v.size - 1 :
          /\ v.select0s # << >> /\ ~BitAt(v, p) => IndexedSelect0(v, Rank(bits, FALSE, p)) = p
          /\ v.select1s # << >> /\ BitAt(v, p) => IndexedSelect1(v, Rank1(bits, p)) = p
     /\ \A i \in 0 .. v.size - 1, beyond \in {{}, UnitPlaces} :
          LET next == {z \in i .. v.size - 1 : ~BitAt(v, z)}
              found == WarpFindNextUnset(v, i, beyond)
          IN next # {} => found \in next /\ \A z \in next : found <= z
=============================================================================
