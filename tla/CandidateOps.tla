---------------------------- MODULE CandidateOps ----------------------------
(***************************************************************************)
(* The container of beams that the GPU beam search pushes to and trims     *)
(* (class CandidatesGPU, candidates-gpu.h), as operators on its value.     *)
(*                                                                         *)
(* A container is a record                                                 *)
(*   cand   the array cand_: one beam per slot;                            *)
(*   meta   the array sort_state_: per slot a score and a position of cand;*)
(*   size   size_, the number of beams pushed and not yet dropped;         *)
(*   cap    capacity_, the number of beams a trim keeps.                   *)
(* The arrays outlive a clear and a trim: only size changes, and what was  *)
(* in the slots above it stays there until the next push overwrites it.    *)
(*                                                                         *)
(* A beam is any record with a field "path", the tokens on the way from    *)
(* the root; Score gives the normalised log probability of each path as    *)
(* the float that push() keeps for sorting.                                *)
(***************************************************************************)
EXTENDS Integers, FiniteSets, Functions, TLC

CONSTANTS
  Buffer,          (* buffer_size_: slots of cand_ and of sort_state_        *)
  RadixThreshold,  (* radix_topk_threshold_: larger capacities are not sorted*)
  Path,            (* the token sequences the search may reach               *)
  Score            (* the normalised log probability of each path            *)

ASSUME ContainerAssumption ==
  /\ Buffer \in Nat \ {0}
  /\ RadixThreshold \in Nat
  /\ Score \in [Path -> Int]

Slots == 0 .. Buffer - 1

(* What an entry of sort_state_ holds.                                     *)
SortState == [score : Int, pos : Slots]

(* A container right after its construction with the given beam in every   *)
(* slot (the arrays come from cudaMalloc and hold anything).               *)
NewContainer(garbage) ==
  [ cand |-> [i \in Slots |-> garbage],
    meta |-> [i \in Slots |-> [score |-> 0, pos |-> 0]],
    size |-> 0,
    cap  |-> 0 ]

(* push: the slot is claimed with atomicAdd, then both arrays are written. *)
HasRoom(c) == c.size < Buffer

Pushed(c, b) ==
  [ c EXCEPT !.cand[c.size] = b,
             !.meta[c.size] = [score |-> Score[b.path], pos |-> c.size],
             !.size = c.size + 1 ]

(* A slip: a clear that forgets to reset the size.                         *)
ClearedNot(c) == c

Cleared(c) == [c EXCEPT !.size = 0]

WithCapacity(c, k) == [c EXCEPT !.cap = k]

(* What at() gives for the positions below size, as a set.                 *)
Contents(c) == {c.cand[i] : i \in 0 .. c.size - 1}

-----------------------------------------------------------------------------
(* trim(force).  Every path through it ends in size_ = min(size_, capacity_)*)
(* and the comparison sort and the radix selection hold a grid barrier,    *)
(* except that the sort of at most one beam returns at once.               *)
Least(a, b) == IF a <= b THEN a ELSE b

(* A slip: the trim forgets to cut the size to the capacity.               *)
ShrunkNot(c) == c

Shrunk(c) == [c EXCEPT !.size = Least(c.size, c.cap)]

Sorts(c, force) ==
  /\ c.size > c.cap \/ force
  /\ c.cap <= RadixThreshold
  /\ c.size > 1

Selects(c) ==
  /\ c.size > c.cap
  /\ c.cap > RadixThreshold

TrimSyncs(c, force) == Sorts(c, force) \/ Selects(c)

(* A slip: the comparer of the sort turned round.                          *)
OrdersAscending(c) ==
  LET live == 0 .. c.size - 1
  IN  { f \in Permutations(live) :
          /\ f \in Bijection(live, live)
          /\ \A i, j \in live : i < j => c.meta[f[i]].score <= c.meta[f[j]].score }

(* The orders a descending sort of the live part of sort_state_ may give:  *)
(* equal scores may come out either way.                                   *)
Orders(c) ==
  LET live == 0 .. c.size - 1
  IN  { f \in Permutations(live) :
          /\ f \in Bijection(live, live)
          /\ \A i, j \in live : i < j => c.meta[f[i]].score >= c.meta[f[j]].score }

(* The sort permutes sort_state_ and moves the best beams to the front of  *)
(* cand_ through topk_cand_; the positions in sort_state_ keep naming the  *)
(* slots the beams had BEFORE the move.                                    *)
Sorted(c, f) ==
  LET meta == [i \in Slots |-> IF i < c.size THEN c.meta[f[i]] ELSE c.meta[i]]
      kept == Least(c.size, c.cap)
  IN  [ c EXCEPT !.meta = meta,
                 !.cand = [i \in Slots |-> IF i < kept THEN c.cand[meta[i].pos]
                                                       ELSE c.cand[i]] ]

(* What the grid has done to the arrays when a trim reaches its barrier.   *)
(* The radix selection collects its winners in topk_cand_ and leaves cand_ *)
(* as it was, so the beams that stay are the first ones pushed.            *)
Collected(c, force) ==
  IF Sorts(c, force) THEN {Sorted(c, f) : f \in Orders(c)} ELSE {c}

=============================================================================
