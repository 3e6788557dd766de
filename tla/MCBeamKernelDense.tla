-------------------------- MODULE MCBeamKernelDense --------------------------
(***************************************************************************)
(* BeamKernel on a trie in which every node ends a key, so that selected_  *)
(* fills as fast as it can: where its proactive trim comes into play.      *)
(***************************************************************************)
EXTENDS BeamKernel, BeamExtend

MCRoot == << >>

MCToken == {1, 2}

(* Every sequence of tokens is a key.                                      *)
MCKeys == UNION {[1 .. n -> MCToken] : n \in 1 .. NumOutpos}

MCToNext == MCKeys
MCToSelected == MCKeys

MCPath == {Root} \cup MCToSelected

(* No two scores are equal, and the two best keys are <<2>> and <<2, 2>>:  *)
(* one of the first and one of the later pushes to selected_.              *)
MCScore ==
  [p \in MCPath |->
     CASE Len(p) = 0 -> 0
       [] Len(p) = 1 -> 6 * p[1] - 20
       [] OTHER      -> 2 * p[1] + p[2] - 15]

MCWidth == [n \in 0 .. NumOutpos - 1 |-> 2]

(* As MCWidth, with an answer of a single key.                             *)
MCWidthOne == [n \in 0 .. NumOutpos - 1 |-> IF n = NumOutpos - 1 THEN 1 ELSE 2]

(* Keys of one token only.                                                 *)
MCKeysShort == [1 .. 1 -> MCToken]

MCToNextShort == MCKeysShort
MCToSelectedShort == MCKeysShort

(* No token is skipped by a link: the search finds every key, and goes on  *)
(* from it.                                                                *)
ASSUME MCTrieAssumption ==
  \A keys \in {MCKeys, MCKeysShort} : PathsToNext(keys) = keys /\ PathsToSelected(keys) = keys
=============================================================================
