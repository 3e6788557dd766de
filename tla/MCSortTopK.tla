----------------------------- MODULE MCSortTopK -----------------------------
(***************************************************************************)
(* SortTopK on sort blocks of four entries: every array of five entries    *)
(* with two different scores (two sort blocks, then one, with many ties),  *)
(* some arrays of nine entries (three sort blocks, two, one), and an array *)
(* of a single entry, which is not sorted at all.                          *)
(***************************************************************************)
EXTENDS SortTopK

TwoScores == [0 .. 4 -> {1, 2}]

(* The best scores in the last, in the first and in the middle block, and  *)
(* an array with ties across blocks.                                       *)
Rising  == [i \in 0 .. 8 |-> i]
Falling == [i \in 0 .. 8 |-> 8 - i]
Folded  == [i \in 0 .. 8 |-> (4 * i + 3) % 9]
Tied    == [i \in 0 .. 8 |-> i \div 2]
Single  == [i \in 0 .. 0 |-> 3]

MCInputs == {Rising, Falling, Folded, Tied, Single} \cup TwoScores
MCMinScore == -1
=============================================================================
