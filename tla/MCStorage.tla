----------------------------- MODULE MCStorage ------------------------------
(***************************************************************************)
(* What a trie rests on, checked in one run: the four containers and the   *)
(* sort of the keys.  A behaviour is about one of them, and the others stay*)
(* as they are.                                                            *)
(***************************************************************************)
EXTENDS VectorBuild, KeysetArena, TrieFile, KeySort

VARIABLE about  (* the one this behaviour is about *)

Init ==
  /\ about \in {"bits", "values", "keys", "file", "sort"}
  /\ VectorsInit /\ KeysetInit /\ FileInit /\ KeySortInit
  /\ about # "file" => file = << >>
  /\ about # "sort" => unsorted = << >>

Bits == about = "bits" /\ BitsNext /\ UNCHANGED <<about, keysetVars, fileVars, sortVars>>

Flat == about = "values" /\ ValuesNext /\ UNCHANGED <<about, keysetVars, fileVars, sortVars>>

Keys == about = "keys" /\ KeysetNext /\ UNCHANGED <<about, vectorVars, fileVars, sortVars>>

File == about = "file" /\ FileNext /\ UNCHANGED <<about, vectorVars, keysetVars, sortVars>>

Sort == about = "sort" /\ SortStep /\ UNCHANGED <<about, vectorVars, keysetVars, fileVars>>

Next == Bits \/ Flat \/ Keys \/ File \/ Sort

Spec == Init /\ [][Next]_<<about, vectorVars, keysetVars, fileVars, sortVars>>

MCMemories == {{}, {0, 1, 2, 3}, {1, 2}}

MCTries == {TrieOf(<<1>>, "none"), TrieOf(<<2, 3>>, "text"), TrieOf(<<4, 5, 6>>, "binary")}

MCStrings == {<< >>, <<1>>, <<2>>, <<1, 1>>, <<1, 2>>, <<2, 1>>}
=============================================================================
