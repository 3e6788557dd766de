-------------------------- MODULE MCCpuBeamSearch ---------------------------
(***************************************************************************)
(* CpuBeamSearch on a trie with links of two and three tokens, keys within *)
(* keys, equal scores, a proposal under either limit, and beam widths below*)
(* the number of prefixes.                                                 *)
(***************************************************************************)
EXTENDS CpuBeamSearch, TLC

MCKeys == { <<2>>, <<1, 2>>, <<2, 2>>, <<1, 1, 1>>, <<1, 2, 1>>, <<2, 1, 2>>, <<3, 1, 1, 2>>, <<3, 2, 1>>, <<3, 2, 3>> }

P(token, logp) == [token |-> token, logp |-> logp]

MCProposals ==
  0 :> {P(1, -3), P(2, -4), P(3, -3)} @@
  1 :> {P(2, -3), P(1, -2), P(3, -1)} @@
  2 :> {P(3, -2), P(1, -1), P(2, -9)} @@
  3 :> {P(2, -1), P(1, -1), P(3, -1)}

MCOrders ==
  { 0 :> o @@ 1 :> p @@ 2 :> SetToSeq(MCProposals[2]) @@ 3 :> q :
      o \in SetToSeqs(MCProposals[0]), p \in SetToSeqs(MCProposals[1]), q \in SetToSeqs(MCProposals[3]) }

MCBeamWidth == 0 :> 3 @@ 1 :> 4 @@ 2 :> 3 @@ 3 :> 2

MCLengthWeight == 0 :> 6 @@ 1 :> 6 @@ 2 :> 5 @@ 3 :> 4 @@ 4 :> 4

MCTokenLimit == -9
MCSentLimit == -8

(* The paths of the trie that the proposals and limits leave, with the     *)
(* score of the abstract search.                                           *)
PathLogp(p) ==
  FoldLeft(LAMBDA sum, i : sum + (CHOOSE x \in MCProposals[i - 1] : x.token = p[i]).logp,
           0, [i \in DOMAIN p |-> i])

Proposed(p) ==
  \A i \in DOMAIN p : \E x \in MCProposals[i - 1] :
     x.token = p[i] /\ x.logp > MCTokenLimit /\ PathLogp(SubSeq(p, 1, i)) > MCSentLimit

MCToken == {1, 2, 3}

MCToNext ==
  { <<1>>, <<2>>, <<3>>, <<1, 1>>, <<1, 2>>, <<2, 1>>, <<2, 2>>, <<3, 1>>, <<3, 2>>,
    <<1, 2, 1>>, <<3, 1, 1>>, <<3, 2, 1>> }

MCToSelected ==
  { <<2>>, <<1, 2>>, <<2, 2>>, <<1, 1, 1>>, <<1, 2, 1>>, <<3, 2, 1>>, <<3, 1, 1, 2>> }

MCPath == {<< >>} \cup MCToNext \cup MCToSelected

MCScore ==
  << >> :> 0 @@ <<1>> :> -18 @@ <<2>> :> -24 @@ <<3>> :> -18 @@ <<1, 1>> :> -25 @@
  <<1, 2>> :> -30 @@ <<2, 1>> :> -30 @@ <<2, 2>> :> -35 @@ <<3, 1>> :> -25 @@ <<3, 2>> :> -30 @@
  <<1, 1, 1>> :> -24 @@ <<1, 2, 1>> :> -28 @@ <<3, 1, 1>> :> -24 @@ <<3, 2, 1>> :> -28 @@
  <<3, 1, 1, 2>> :> -28

ASSUME MCTrieAssumption ==
  /\ MCToNext = {p \in PathsToNext(MCKeys) : Proposed(p)}
  /\ MCToSelected = {p \in PathsToSelected(MCKeys) : Proposed(p)}
  /\ MCScore = [p \in MCPath |-> PathLogp(p) * MCLengthWeight[Len(p)]]

(* The instance meets the conditions of the theorems: the agents that the  *)
(* CPU search makes stand for the paths that the GPU search would push.    *)
MCAgent[p \in {<< >>} \cup MCToNext] ==
  IF p = << >> THEN Root
  ELSE CHOOSE kid \in UNION {OnOf(MCAgent[Front(p)], x) : x \in MCProposals[Len(p) - 1]} : kid.query = p

MCFinal ==
  [p \in MCToSelected |->
     CHOOSE kid \in UNION {CompleteOf(MCAgent[Front(p)], x) : x \in MCProposals[Len(p) - 1]} : kid.query = p]

ASSUME MCChartAssumption == OneEach /\ Charted(MCAgent, MCFinal)
=============================================================================
