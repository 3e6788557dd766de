----------------------------- MODULE BeamSearch -----------------------------
(***************************************************************************)
(* What one constrained beam search promises, free of threads, buffers and *)
(* beam numbers: a level-synchronous search that keeps, after every output *)
(* position, the best prefixes up to that position's beam width, gathers   *)
(* every complete key it meets and answers with the best of them.  The     *)
(* kernel (BeamKernel) is shown to implement it.                           *)
(***************************************************************************)
EXTENDS Integers, FiniteSets, Sequences

CONSTANTS
  Path,        (* the token sequences the search may reach, << >> the root   *)
  Token,       (* the labels the model proposes                              *)
  ToNext,      (* the paths that are pushed as prefixes to expand further    *)
  ToSelected,  (* the paths that are pushed as complete keys                 *)
  Score,       (* the normalised log probability of each path                *)
  NumOutpos,   (* the number of output positions                             *)
  BeamWidth,   (* the beam width at each output position                     *)
  EarlyExit    (* whether the search may stop once it has enough keys        *)

VARIABLES
  level,       (* the output positions searched                              *)
  frontier,    (* the prefixes that survived the last of them                *)
  selected,    (* the complete keys met                                      *)
  answers      (* empty until the answer is given, then that one answer      *)

vars == <<level, frontier, selected, answers>>

FinalBeam == BeamWidth[NumOutpos - 1]

Children(p) == {Append(p, k) : k \in Token}

(* The selections of k best members of S, all of them when there are fewer.*)
BestOf(S, k) ==
  { T \in SUBSET S :
      /\ Cardinality(T) = IF Cardinality(S) < k THEN Cardinality(S) ELSE k
      /\ \A t \in T, s \in S \ T : Score[t] >= Score[s] }

Over ==
  \/ level = NumOutpos
  \/ frontier = {}
  \/ EarlyExit /\ Cardinality(selected) >= FinalBeam

-----------------------------------------------------------------------------
Init ==
  /\ level = 0
  /\ frontier = {<< >>}
  /\ selected = {}
  /\ answers = {}

(* One output position: every prefix of the frontier is expanded.          *)
Step ==
  /\ answers = {}
  /\ ~Over
  /\ LET kids == UNION {Children(p) : p \in frontier}
     IN  /\ frontier' \in BestOf(kids \cap ToNext, BeamWidth[level])
         /\ selected' = selected \cup (kids \cap ToSelected)
  /\ level' = level + 1
  /\ UNCHANGED answers

Finish ==
  /\ answers = {}
  /\ Over
  /\ \E best \in BestOf(selected, FinalBeam) : answers' = {best}
  /\ UNCHANGED <<level, frontier, selected>>

Next == Step \/ Finish

Spec == Init /\ [][Next]_vars

FairSpec == Spec /\ WF_vars(Next)
=============================================================================
