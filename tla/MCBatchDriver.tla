--------------------------- MODULE MCBatchDriver ----------------------------
(***************************************************************************)
(* BatchDriver with two tries, three requests - one that asks for nothing, *)
(* one with one beam and one with three, more than a block of threads holds*)
(* - and answers that are empty, short and full.                           *)
(***************************************************************************)
EXTENDS BatchDriver, TLC

S(tokens, logp) == [tokens |-> tokens, logp |-> logp]

MCRequest == {"none", "one", "three"}
MCFinalBeam == "none" :> 0 @@ "one" :> 1 @@ "three" :> 3
MCNumOutpos == "none" :> 1 @@ "one" :> 2 @@ "three" :> 2

MCAnswer ==
  "none" :> << << >>, << >> >> @@
  "one" :> << << S(<<5, 6>>, 9) >>, << >> >> @@
  "three" :> << << S(<<5, 7>>, 8), S(<<8>>, 7) >>,
                << S(<<7, 5>>, 9), S(<<6, 8>>, 8), S(<<8>>, 6) >> >>
=============================================================================
