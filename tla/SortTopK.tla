------------------------------ MODULE SortTopK ------------------------------
(***************************************************************************)
(* sort_topk_executor (candidates-gpu.h): the comparison sort with which a *)
(* container keeps its best beams, when it spans many sort blocks.         *)
(*                                                                         *)
(* The array sort_state_ is cut into sort blocks of twice Half entries.    *)
(* In each round the thread blocks of the grid share out the sort blocks,  *)
(* sort each of them, meet, overwrite the lower halves of the first ones   *)
(* with the upper halves of the last ones, meet again and go on with half  *)
(* as many; the last round moves the winners to the front of cand_.        *)
(***************************************************************************)
EXTENDS Integers, FiniteSets, FiniteSetsExt

CONSTANTS
  NumCtas,    (* the thread blocks of the grid                               *)
  Half,       (* the template parameter: an upper bound of capacity_         *)
  Capacity,   (* capacity_                                                   *)
  Inputs,     (* the arrays of scores to sort, as functions from 0 .. size - 1*)
  MinScore    (* BeamState::min_score, the padding of the last sort block    *)

ASSUME SortAssumption ==
  /\ NumCtas \in Nat \ {0}
  /\ Half \in Nat \ {0}
  /\ Capacity \in 0 .. Half
  /\ MinScore \in Int
  /\ \A f \in Inputs :
       /\ IsFiniteSet(DOMAIN f)
       /\ DOMAIN f = 0 .. Cardinality(DOMAIN f) - 1
       /\ \A i \in DOMAIN f : f[i] \in Int /\ f[i] > MinScore

VARIABLES
  score,    (* the score of each beam, by the slot it was pushed to          *)
  meta,     (* sort_state_, as the slots whose beams it names                *)
  cand,     (* cand_, as the slots its beams were pushed to                  *)
  topk,     (* topk_cand_                                                    *)
  pc,       (* where each thread block is                                    *)
  rem,      (* remaining_blocks of each thread block                         *)
  blk,      (* the sort block each thread block works on                     *)
  reg       (* the entries each thread block holds in registers              *)

vars == <<score, meta, cand, topk, pc, rem, blk, reg>>

Cta == 0 .. NumCtas - 1
Elems == 2 * Half
Size == Cardinality(DOMAIN score)
Slot == DOMAIN score

(* The beams that the trim keeps.                                          *)
Kept == IF Size < Capacity THEN Size ELSE Capacity

(* The slots of a sort block that hold entries.                            *)
SlotsOf(b) == {s \in Slot : s \div Elems = b}

(* A slip: the last round never comes.                                     *)
HalvedOn(r) == (r - 1) \div 2 + 1

(* The number of sort blocks that are left after a round.                  *)
Halved(r) == IF r = 1 THEN 0 ELSE (r - 1) \div 2 + 1

-----------------------------------------------------------------------------
Init ==
  /\ score \in Inputs
  /\ meta = [s \in Slot |-> s]
  /\ cand = [s \in Slot |-> s]
  /\ topk = << >>
  /\ pc = [u \in Cta |-> IF Size <= 1 THEN "done" ELSE "sort"]
  /\ rem = [u \in Cta |-> (Size - 1) \div Elems + 1]
  /\ blk = [u \in Cta |-> u]
  /\ reg = [u \in Cta |-> << >>]

(* A slip: the comparer the wrong way round.                               *)
SortedAscending(S) ==
  LET first == Min(S)
      live  == first .. first + Cardinality(S) - 1
  IN  { f \in [live -> {meta[s] : s \in S}] :
          /\ {f[i] : i \in live} = {meta[s] : s \in S}
          /\ \A i, j \in live : i < j => score[f[i]] <= score[f[j]] }

(* What the sort of one block may leave in its slots: best first, equal    *)
(* scores in any order.  The padding ends up behind every entry.           *)
SortedBlock(S) ==
  LET first == Min(S)
      live  == first .. first + Cardinality(S) - 1
  IN  { f \in [live -> {meta[s] : s \in S}] :
          /\ {f[i] : i \in live} = {meta[s] : s \in S}
          /\ \A i, j \in live : i < j => score[f[i]] >= score[f[j]] }

(* Load a sort block to registers and sort it there.                       *)
LoadBlock(u) ==
  /\ pc[u] = "sort"
  /\ blk[u] < rem[u]
  /\ \E f \in SortedBlock(SlotsOf(blk[u])) : reg' = [reg EXCEPT ![u] = f]
  /\ pc' = [pc EXCEPT ![u] = "store"]
  /\ UNCHANGED <<score, meta, cand, topk, rem, blk>>

(* ... store it, and take the next one.                                    *)
StoreBlock(u) ==
  /\ pc[u] = "store"
  /\ meta' = [s \in Slot |-> IF s \in DOMAIN reg[u] THEN reg[u][s] ELSE meta[s]]
  /\ reg' = [reg EXCEPT ![u] = << >>]
  /\ blk' = [blk EXCEPT ![u] = @ + NumCtas]
  /\ pc' = [pc EXCEPT ![u] = "sort"]
  /\ UNCHANGED <<score, cand, topk, rem>>

SortDone(u) ==
  /\ pc[u] = "sort"
  /\ blk[u] >= rem[u]
  /\ blk' = [blk EXCEPT ![u] = u]
  /\ pc' = [pc EXCEPT ![u] = IF rem[u] > 1 THEN "sortSync" ELSE "collect"]
  /\ UNCHANGED <<score, meta, cand, topk, rem, reg>>

(* A slip: the upper half goes over the upper half of the earlier block.   *)
MovedOver(b, d) ==
  [s \in Slot |-> LET t == (s - d * Elems) + b * Elems
                  IN  IF s \div Elems = d /\ s % Elems < Half /\ t \in Slot
                      THEN meta[t] ELSE meta[s]]

(* The upper half of sort block b over the lower half of sort block d, as  *)
(* far as block b reaches.                                                 *)
Moved(b, d) ==
  [s \in Slot |-> LET t == (s - d * Elems - Half) + b * Elems
                  IN  IF s \div Elems = d /\ s % Elems >= Half /\ t \in Slot
                      THEN meta[t] ELSE meta[s]]

CopyBlock(u) ==
  /\ pc[u] = "copy"
  /\ blk[u] < rem[u]
  /\ LET d == rem[u] - 1 - blk[u]
     IN  meta' = IF d < blk[u] THEN Moved(blk[u], d) ELSE meta
  /\ blk' = [blk EXCEPT ![u] = @ + NumCtas]
  /\ UNCHANGED <<score, cand, topk, pc, rem, reg>>

CopyDone(u) ==
  /\ pc[u] = "copy"
  /\ blk[u] >= rem[u]
  /\ pc' = [pc EXCEPT ![u] = "roundSync"]
  /\ UNCHANGED <<score, meta, cand, topk, rem, blk, reg>>

(* The last round: thread block 0 collects the winners and then, behind a  *)
(* barrier of its own, moves them to the front of cand_.                   *)
Collect(u) ==
  /\ pc[u] = "collect"
  /\ IF u = 0
     THEN /\ topk' = [i \in 0 .. Kept - 1 |-> cand[meta[i]]]
          /\ pc' = [pc EXCEPT ![u] = "front"]
     ELSE /\ pc' = [pc EXCEPT ![u] = "roundSync"]
          /\ UNCHANGED topk
  /\ UNCHANGED <<score, meta, cand, rem, blk, reg>>

Front(u) ==
  /\ pc[u] = "front"
  /\ cand' = [s \in Slot |-> IF s < Kept THEN topk[s] ELSE cand[s]]
  /\ pc' = [pc EXCEPT ![u] = "roundSync"]
  /\ UNCHANGED <<score, meta, topk, rem, blk, reg>>

-----------------------------------------------------------------------------
(* Where a thread block goes on from the two barriers of a round.          *)
Onward(u) ==
  IF pc[u] = "sortSync" THEN "copy"
  ELSE IF Halved(rem[u]) = 0 THEN "done" ELSE "sort"

Waiting(u) == pc[u] \in {"sortSync", "roundSync"}

Passed(W) ==
  /\ pc' = [u \in Cta |-> IF u \in W THEN Onward(u) ELSE pc[u]]
  /\ rem' = [u \in Cta |-> IF u \in W /\ pc[u] = "roundSync" THEN Halved(rem[u]) ELSE rem[u]]
  /\ blk' = [u \in Cta |-> IF u \in W THEN u ELSE blk[u]]
  /\ UNCHANGED <<score, meta, cand, topk, reg>>

(* A slip: a barrier of the thread block in place of that of the grid.     *)
ReleaseAlone == \E u \in Cta : Waiting(u) /\ Passed({u})

Release == (\A u \in Cta : Waiting(u)) /\ Passed(Cta)

Step(u) ==
  \/ LoadBlock(u) \/ StoreBlock(u) \/ SortDone(u)
  \/ CopyBlock(u) \/ CopyDone(u) \/ Collect(u) \/ Front(u)

Next == (\E u \in Cta : Step(u)) \/ Release

Spec == Init /\ [][Next]_vars

(* Cooperative launch: all thread blocks are resident.                     *)
FairSpec == Spec /\ (\A u \in Cta : WF_vars(Step(u))) /\ WF_vars(Release)

-----------------------------------------------------------------------------
(* How many of the slots in S name a beam with a score of at least x.      *)
AtLeast(S, x) == Cardinality({s \in S : score[s] >= x})

(* The loop invariant of the sort: when a round begins, the sort blocks    *)
(* that are left name every beam at most once, and no beam that belongs to *)
(* the best Capacity has been overwritten (up to equal scores).            *)
BestStayInFront ==
  (\A u \in Cta : pc[u] = "sort" /\ blk[u] = u) =>
    LET front == {s \in Slot : s \div Elems < rem[0]}
        named == {meta[s] : s \in front}
    IN  /\ Cardinality(named) = Cardinality(front)
        /\ \A t \in Slot :
             AtLeast(named, score[t]) >= Min({AtLeast(Slot, score[t]), Kept})

(* What the trim is for: in the end the front of cand_ holds the best      *)
(* beams, each once, in descending order.                                  *)
TopKInFront ==
  (\A u \in Cta : pc[u] = "done") /\ Size > 1 =>
    LET front == 0 .. Kept - 1
        kept  == {cand[s] : s \in front}
    IN  /\ Cardinality(kept) = Kept
        /\ \A i, j \in front : i < j => score[cand[i]] >= score[cand[j]]
        /\ \A b \in Slot \ kept, k \in kept : score[b] <= score[k]

(* While a thread block holds a sort block in registers, nobody else writes*)
(* to it: what is stored is a permutation of what is there.                *)
NoLostEntry ==
  \A u \in Cta :
    pc[u] = "store" => {meta[s] : s \in DOMAIN reg[u]} = {reg[u][s] : s \in DOMAIN reg[u]}

(* The sort ends.                                                          *)
SortEnds == <>(\A u \in Cta : pc[u] = "done")
=============================================================================
