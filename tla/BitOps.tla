------------------------------- MODULE BitOps -------------------------------
(***************************************************************************)
(* What a bit vector answers: the meaning of rank and select, by which the *)
(* trie is read.  BitVector is the module that computes them with an index,*)
(* as the code does.  Arrays are counted from 0 as in the code.            *)
(***************************************************************************)
EXTENDS Integers, FiniteSets, SequencesExt

At(s, i) == s[i + 1]

(* The number of bits of value b before position i.                        *)
Rank(bits, b, i) == Cardinality({p \in 0 .. i - 1 : At(bits, p) = b})

Rank1(bits, i) == Rank(bits, TRUE, i)

(* The positions of the bits of value b, in order.                         *)
Positions(bits, b) == SelectSeq([i \in 1 .. Len(bits) |-> i - 1], LAMBDA i : At(bits, i) = b)

Select0(bits, k) == At(Positions(bits, FALSE), k)

Select1(bits, k) == At(Positions(bits, TRUE), k)
=============================================================================
