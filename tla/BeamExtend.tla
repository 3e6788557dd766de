----------------------------- MODULE BeamExtend -----------------------------
(***************************************************************************)
(* One step of a beam down the trie, as the GPU search takes it            *)
(* (extend_beam_binary_child_search and extend_beam_in_link) and as the CPU*)
(* search takes it (tbs_lookup_ and predictive_find_child).  Given a parent*)
(* and a proposed token each yields at most one child, which may be pushed *)
(* to next, to selected, to both or to neither.  Both searches drop        *)
(* proposals with a low score before they come here.                       *)
(***************************************************************************)
EXTENDS PatriciaTrie

(* A GPU beam: the tokens decoded, the node, and the part of a link that is*)
(* still to be consumed when it is inside one.                             *)
GpuRoot == [path |-> << >>, node |-> << >>, inLink |-> FALSE, rest |-> << >>]

(* Children are found by their first token; a link is entered.             *)
GpuChildSearch(keys, b, k) ==
  { [ path   |-> Append(b.path, k),
      node   |-> c,
      inLink |-> IsLink(b.node, c),
      rest   |-> LinkRest(b.node, c) ] :
    c \in {d \in ChildNodes(keys, b.node) : d[Len(b.node) + 1] = k} }

(* Slips: the link is not moved on; whatever is proposed is taken.         *)
GpuInLinkStays(b, k) ==
  IF k = Head(b.rest)
  THEN {[b EXCEPT !.path = Append(@, k)]}
  ELSE {}

GpuInLinkAny(b, k) == {[b EXCEPT !.path = Append(@, k), !.rest = Tail(@)]}

(* Inside a link the next token is the only one that matches.              *)
GpuInLink(b, k) ==
  IF k = Head(b.rest)
  THEN {[b EXCEPT !.path = Append(@, k), !.rest = Tail(@)]}
  ELSE {}

GpuKids(keys, b, k) ==
  IF b.inLink THEN GpuInLink(b, k) ELSE GpuChildSearch(keys, b, k)

EndLink(b) == b.inLink /\ b.rest = << >>

(* A slip: the end of a link is not tested for a key.                      *)
GpuSelectsOutside(keys, b) == ~b.inLink /\ IsTerminal(keys, b.node)

(* What is pushed to selected_, and what is pushed to next_.               *)
GpuSelects(keys, b) == (b.inLink => EndLink(b)) /\ IsTerminal(keys, b.node)

(* A slip: a beam inside a link is dropped with the links that end.        *)
GpuGoesOnOutside(b) == ~b.inLink

GpuGoesOn(b) == ~EndLink(b)

-----------------------------------------------------------------------------
(* A CPU agent: its query, how much of it has been looked up, the node, and*)
(* key_buf, the tokens up to that node.  The whole of a link goes to       *)
(* key_buf as soon as its first token is met.                              *)
CpuRoot == [query |-> << >>, pos |-> 0, node |-> << >>, keyBuf |-> << >>]

(* What tbs takes for a parent inside a link.                              *)
CpuLinkParent(keys, a) ==
  IsTerminal(keys, a.node) /\ Len(a.keyBuf) > Len(a.query)

CpuInLink(a, k) ==
  IF k = a.keyBuf[Len(a.query) + 1]
  THEN {[a EXCEPT !.query = Append(@, k)]}
  ELSE {}

(* predictive_find_child: one token of the query is looked up among the    *)
(* children; prefix_match then puts all of a link to key_buf.              *)
CpuFindChild(keys, a, k) ==
  { [ query  |-> Append(a.query, k),
      pos    |-> a.pos + 1,
      node   |-> c,
      keyBuf |-> a.keyBuf \o SubSeq(c, Len(a.node) + 1, Len(c)) ] :
    c \in {d \in ChildNodes(keys, a.node) :
             d[Len(a.node) + 1] = Append(a.query, k)[a.pos + 1]} }

CpuKids(keys, a, k) ==
  IF CpuLinkParent(keys, a) THEN CpuInLink(a, k) ELSE CpuFindChild(keys, a, k)

(* A slip: key_buf is not compared with the query.                         *)
CpuSelectsTerminal(keys, parent, child) ==
  CpuLinkParent(keys, parent) \/ IsTerminal(keys, child.node)

(* Of the child of a parent: is it selected, does it go on?                *)
CpuSelects(keys, parent, child) ==
  /\ Len(child.keyBuf) = Len(child.query)
  /\ CpuLinkParent(keys, parent) \/ IsTerminal(keys, child.node)

CpuGoesOn(keys, parent, child) ==
  CpuLinkParent(keys, parent) => Len(child.keyBuf) # Len(child.query)

-----------------------------------------------------------------------------
(* The two relations by which BeamKernel knows the trie: the paths that a  *)
(* GPU search with every proposal and unlimited width would push.          *)
GpuReach(keys, p) ==
  FoldLeft(LAMBDA found, k : UNION {GpuKids(keys, b, k) : b \in {c \in found : GpuGoesOn(c)}},
           {GpuRoot}, p)

PathsOf(keys) == UNION {Prefixes(key) : key \in keys} \ {<< >>}

PathsToNext(keys) == {p \in PathsOf(keys) : \E b \in GpuReach(keys, p) : GpuGoesOn(b)}

PathsToSelected(keys) == {p \in PathsOf(keys) : \E b \in GpuReach(keys, p) : GpuSelects(keys, b)}
=============================================================================
