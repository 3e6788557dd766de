---------------------------- MODULE VectorBuild -----------------------------
(***************************************************************************)
(* How the trie makes its vectors: bits are pushed one by one and then     *)
(* indexed (bit-vector.h), values are collected and then packed            *)
(* (flat-vector.h).  Both are read only afterwards.                        *)
(***************************************************************************)
EXTENDS BitVector, FlatVector

CONSTANTS
  Runs,      (* lengths of the runs of equal bits that are pushed          *)
  MaxRuns,   (* bound: runs of a bit vector                                *)
  Values,    (* the values of a flat vector                                *)
  MaxValues, (* bound: its length                                          *)
  Memories   (* what fresh memory may hold                                 *)

ASSUME VectorsAssumption ==
  /\ Runs \subseteq Nat
  /\ Values \subseteq Nat /\ \A v \in Values : Width(v) <= UnitBits
  /\ Memories \subseteq SUBSET UnitPlaces

VARIABLES
  vector,    (* the bit vector                                             *)
  runs,      (* how many runs it has had                                   *)
  indexed,   (* its index is built                                         *)
  values,    (* the values to pack                                         *)
  flat,      (* the flat vector                                            *)
  packed     (* it is built                                                *)

vectorVars == <<vector, runs, indexed, values, flat, packed>>

VectorsInit ==
  /\ vector = EmptyBits /\ runs = 0 /\ indexed = FALSE
  /\ values = << >> /\ flat = EmptyFlat /\ packed = FALSE

(* n times push_back.                                                      *)
Pushed(v, bit, n) ==
  LET upTo[k \in 0 .. n] == IF k = 0 THEN v ELSE PushBack(upTo[k - 1], bit)
  IN  upTo[n]

PushRun ==
  /\ ~indexed /\ runs < MaxRuns
  /\ \E bit \in BOOLEAN, n \in Runs :
       vector' = Pushed(vector, bit, n)
  /\ runs' = runs + 1
  /\ UNCHANGED <<indexed, values, flat, packed>>

Build ==
  /\ ~indexed
  /\ \E select0, select1 \in BOOLEAN : vector' = BuildIndex(vector, select0, select1)
  /\ indexed' = TRUE
  /\ UNCHANGED <<runs, values, flat, packed>>

(* disable_select0, disable_select1.                                       *)
DisableSelect ==
  /\ indexed
  /\ vector' \in {[vector EXCEPT !.select0s = << >>], [vector EXCEPT !.select1s = << >>]}
  /\ UNCHANGED <<runs, indexed, values, flat, packed>>

PushValue ==
  /\ ~packed /\ Len(values) < MaxValues
  /\ \E v \in Values : values' = Append(values, v)
  /\ UNCHANGED <<vector, runs, indexed, flat, packed>>

Pack ==
  /\ ~packed
  /\ \E memory \in Memories : flat' = FlatBuild(values, memory)
  /\ packed' = TRUE
  /\ UNCHANGED <<vector, runs, indexed, values>>

BitsNext == PushRun \/ Build \/ DisableSelect

ValuesNext == PushValue \/ Pack

VectorsSpec == VectorsInit /\ [][BitsNext \/ ValuesNext]_vectorVars

-----------------------------------------------------------------------------
(* BitVector::rank1, select0, select1 and warp_find_next_unset answer what *)
(* counting bit by bit would, for every length and every mixture of dense  *)
(* and sparse blocks: the counts fit their fields, the counts behind the   *)
(* last unit are there, and each sample is in the block of the bit it is   *)
(* for.                                                                    *)
IndexAnswers == indexed => AnswersTrue(vector)

(* A value of a flat vector reads back as it was set, also when its field  *)
(* lies across two units and memory was not clean before.                  *)
ValuesKept == packed => ValuesReadBack(flat, values)
=============================================================================
