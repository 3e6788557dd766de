---------------------------- MODULE PatriciaTrie ----------------------------
(***************************************************************************)
(* The shape of the trie that LoudsTrie::build_current_trie opens for a set*)
(* of keys, free of its encoding in bit vectors.  A node is the sequence of*)
(* tokens on the way to it.  A node has one child per token with which a   *)
(* key goes on from it; the child lies where the keys below it part or     *)
(* where the first of them ends.  When that is more than one token away the*)
(* child is a link, whose tokens are kept elsewhere (in the tail, for a    *)
(* trie of a single level).                                                *)
(***************************************************************************)
EXTENDS Integers, SequencesExt

(* The keys that begin with p: a range of the sorted keys.                 *)
Below(keys, p) == {key \in keys : IsPrefix(p, key)}

(* The node that is opened for the keys that begin with p.                 *)
Opened(keys, p) == LongestCommonPrefix(Below(keys, p))

Labels(keys, n) == {key[Len(n) + 1] : key \in Below(keys, n) \ {n}}

ChildNodes(keys, n) == {Opened(keys, Append(n, k)) : k \in Labels(keys, n)}

(* terminal_flags_: a key ends here.                                       *)
IsTerminal(keys, n) == n \in keys

(* link_flags_ of a child of n.                                            *)
IsLink(n, child) == Len(child) > Len(n) + 1

(* The tokens of a link that come after its first one.                     *)
LinkRest(n, child) == SubSeq(child, Len(n) + 2, Len(child))
=============================================================================
