------------------------------ MODULE MCLouds -------------------------------
(***************************************************************************)
(* LoudsQuery on a few keysets whose strings share prefixes, suffixes and  *)
(* links, with a string given twice, the empty string, a label that is the *)
(* terminator of the tail, and weights that turn the label order around.   *)
(***************************************************************************)
EXTENDS LoudsQuery

Weighted(seq) == [i \in DOMAIN seq |-> [str |-> seq[i], weight |-> i]]

MCKeysets ==
  { Weighted(<< <<1, 2, 1, 1, 2>>, <<2, 1, 1, 2>>, <<1>> >>),
    Weighted(<< <<1, 2>>, <<5, 1, 2>>, << >> >>),
    Weighted(<< <<2, 1, 1, 2>>, <<1, 2>>, <<2, 1, 1, 2>> >>),
    Weighted(<< <<2, 1, 1, 2>>, <<2, 1, 5>>, <<1, 5, 1, 2>>, <<2>> >>),
    Weighted(<< <<1, -1, 2>>, <<2, 1, -1>> >>) }

MCConfigs ==
  { [numTries |-> 1, text |-> TRUE,  labelOrder |-> TRUE],
    [numTries |-> 2, text |-> FALSE, labelOrder |-> FALSE],
    [numTries |-> 3, text |-> TRUE,  labelOrder |-> FALSE] }

MCQueries == { << >>, <<2, 1>>, <<1, 2, 1, 1, 2>>, <<5, 1, 2, 5>> }

MCIds == {0, 1, 3}
=============================================================================
