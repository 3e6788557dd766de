----------------------------- MODULE MCTrieWalk -----------------------------
(***************************************************************************)
(* TrieWalk on all sets of up to MaxKeys keys of up to MaxLength tokens.   *)
(***************************************************************************)
EXTENDS TrieWalk

CONSTANTS MaxKeys, MaxLength

Keys == SeqOf(Label, MaxLength) \ {<< >>}

MCKeySets == UNION {kSubset(n, Keys) : n \in 1 .. MaxKeys}
=============================================================================
