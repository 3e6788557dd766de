---------------------------- MODULE MCBeamKernel ----------------------------
(***************************************************************************)
(* Values of the constants of BeamKernel for the model checker: a small    *)
(* trie over two tokens, three output positions deep, in which             *)
(*   - the second position meets more prefixes than its beam width, so     *)
(*     next_ is sorted and cut, and the beam that is dropped has a complete*)
(*     key below it that the search must then miss;                        *)
(*   - most complete keys are also pushed as prefixes of longer ones;       *)
(*   - more complete keys are met than the answer may hold;                *)
(*   - two prefixes and two keys have equal scores.                        *)
(***************************************************************************)
EXTENDS BeamKernel, BeamExtend

MCRoot == << >>

MCToken == {1, 2}

(* The trie of these keys: <<1, 1, 1>> and <<2, 1, 2>> end in a link.      *)
MCKeys ==
  { <<2>>, <<1, 2>>, <<2, 2>>, <<1, 1, 1>>, <<1, 2, 1>>, <<2, 1, 2>>, <<2, 2, 1>> }

MCToNext ==
  { <<1>>, <<2>>, <<1, 1>>, <<1, 2>>, <<2, 1>>, <<2, 2>>, <<1, 2, 1>>, <<2, 2, 1>> }

MCToSelected == MCKeys

(* ... and what the search finds in it.                                    *)
ASSUME MCTrieAssumption ==
  /\ MCToNext = PathsToNext(MCKeys)
  /\ MCToSelected = PathsToSelected(MCKeys)

MCPath == {Root} \cup MCToNext \cup MCToSelected

MCScore ==
  [p \in MCPath |-> CASE p = << >>       -> 0
                      [] p = <<1>>       -> -3
                      [] p = <<2>>       -> -4
                      [] p = <<1, 1>>    -> -5
                      [] p = <<1, 2>>    -> -6
                      [] p = <<2, 1>>    -> -6
                      [] p = <<2, 2>>    -> -8
                      [] p = <<1, 1, 1>> -> -7
                      [] p = <<1, 2, 1>> -> -9
                      [] p = <<2, 1, 2>> -> -8
                      [] p = <<2, 2, 1>> -> -7]

MCBeamWidth == 0 :> 2 @@ 1 :> 2 @@ 2 :> 3

(* As MCBeamWidth, with an answer of two keys: the second output position  *)
(* may bring selected_ to that size while it is still being expanded.      *)
MCBeamWidthTwo == 0 :> 2 @@ 1 :> 2 @@ 2 :> 2

(* Without early exit these values meet the conditions of the theorems     *)
(* about the kernel, and with no room to spare.                            *)
ASSUME MCRoomAssumption ==
  ~EarlyExit =>
    /\ \E room \in [0 .. NumOutpos -> 0 .. Buffer \div 4] : Rooms(room)
    /\ \E saves \in [0 .. NumOutpos -> 1 .. MaxBeamId - 1] : Saves(saves)
    /\ Sortable
=============================================================================
