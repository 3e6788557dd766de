----------------------------- MODULE LoudsQuery -----------------------------
(***************************************************************************)
(* LoudsTrie, built, and the four searches on it through an Agent.  The    *)
(* State of an Agent outlives a call: common_prefix_search and             *)
(* predictive_search return one key per call and resume where they left.   *)
(***************************************************************************)
EXTENDS LoudsBuild

CONSTANTS
  Queries,     (* the strings asked for                                      *)
  QueryIds     (* the ids asked for, valid or not                            *)

VARIABLES
  query,       (* query_ of the agent: [str, id]                             *)
  state,       (* its State                                                  *)
  answer,      (* key_ of the agent: [str, id]                               *)
  found,       (* what the last call returned                                *)
  given        (* history: what the search in progress has answered          *)

agentVars == <<query, state, answer, found, given>>

NoLink == -1
NoKey  == -1

-----------------------------------------------------------------------------
(* get_link, get_label; the parent of a node; where its children begin.    *)
Label(t, node) == At(t.bases, node) + At(t.extras, node) * BaseSize

Link(t, node, linkId) == At(t.bases, node) + At(t.linkExtras, linkId) * BaseSize

LinkOf(t, node) == Link(t, node, Rank1(t.links, node))

UpdateLinkId(t, linkId, node) == IF linkId = NoLink THEN Rank1(t.links, node) ELSE linkId + 1

Parent(t, node) == Select1(t.louds, node) - node - 1

ChildPos(t, node) == Select0(t.louds, node) + 1

(* restore: the string that ends at a link, going up the next level.       *)
RECURSIVE RestoreUp(_, _)

Restore(level, link) ==
  IF level < Len(tries) THEN RestoreUp(level + 1, link) ELSE TailRestore(tail, link)

RestoreUp(level, node) ==
  LET t    == tries[level]
      here == IF At(t.links, node) THEN Restore(level, LinkOf(t, node)) ELSE <<Label(t, node)>>
  IN  here \o (IF node <= t.numL1 THEN << >> ELSE RestoreUp(level, Parent(t, node)))

(* match: all of the string must be in the query at pos.                   *)
RECURSIVE MatchUp(_, _, _, _)

Match(level, link, str, pos) ==
  IF level < Len(tries) THEN MatchUp(level + 1, link, str, pos) ELSE TailMatch(tail, str, pos, link)

MatchUp(level, node, str, pos) ==
  LET t == tries[level]
      m == IF At(t.links, node) THEN Match(level, LinkOf(t, node), str, pos)
           ELSE IF Label(t, node) = At(str, pos) THEN [ok |-> TRUE, pos |-> pos + 1]
           ELSE [ok |-> FALSE, pos |-> pos]
  IN  IF ~ m.ok \/ node <= t.numL1 THEN m
      ELSE IF m.pos >= Len(str) THEN [ok |-> FALSE, pos |-> m.pos]
      ELSE MatchUp(level, Parent(t, node), str, m.pos)

(* prefix_match: the query may end inside the string, whose rest is then   *)
(* restored.                                                               *)
RECURSIVE PrefixMatchUp(_, _, _, _)

PrefixMatch(level, link, str, pos) ==
  IF level < Len(tries) THEN PrefixMatchUp(level + 1, link, str, pos)
  ELSE TailPrefixMatch(tail, str, pos, link)

PrefixMatchUp(level, node, str, pos) ==
  LET t == tries[level]
      m == IF At(t.links, node) THEN PrefixMatch(level, LinkOf(t, node), str, pos)
           ELSE IF Label(t, node) = At(str, pos)
                THEN [ok |-> TRUE, pos |-> pos + 1, buf |-> <<Label(t, node)>>]
           ELSE [ok |-> FALSE, pos |-> pos, buf |-> << >>]
  IN  IF ~ m.ok \/ node <= t.numL1 THEN m
      ELSE LET up   == Parent(t, node)
               rest == IF m.pos >= Len(str)
                       THEN [ok |-> TRUE, pos |-> m.pos, buf |-> RestoreUp(level, up)]
                       ELSE PrefixMatchUp(level, up, str, m.pos)
           IN  [rest EXCEPT !.buf = m.buf \o @]

-----------------------------------------------------------------------------
(* The children of a node, tried one after the other.  A label is consumed *)
(* when it is the next of the query; a link whose first label is not leaves*)
(* the position alone and the next child is tried; a link that fails later *)
(* ends the search.  A predictive search lets the query end inside a link   *)
(* and gathers the labels in key_buf.                                      *)
MatchLink(predictive, link, str, pos) ==
  IF predictive THEN PrefixMatch(1, link, str, pos)
  ELSE Match(1, link, str, pos) @@ [buf |-> << >>]

RECURSIVE TryChild(_, _, _, _, _, _)

TryChild(predictive, s, str, node, linkId, loudsPos) ==
  LET t   == tries[1]
      id  == IF At(t.links, node) THEN UpdateLinkId(t, linkId, node) ELSE linkId
      m   == IF At(t.links, node) THEN MatchLink(predictive, Link(t, node, id), str, s.pos)
             ELSE IF Label(t, node) = At(str, s.pos)
                  THEN [ok |-> TRUE, pos |-> s.pos + 1,
                        buf |-> IF predictive THEN <<Label(t, node)>> ELSE << >>]
             ELSE [ok |-> FALSE, pos |-> s.pos, buf |-> << >>]
      moved == [s EXCEPT !.node = node, !.pos = m.pos, !.keyBuf = @ \o m.buf]
  IN  IF m.ok \/ m.pos # s.pos THEN [ok |-> m.ok, s |-> moved]
      ELSE IF At(t.louds, loudsPos + 1)
           THEN TryChild(predictive, s, str, node + 1, id, loudsPos + 1)
      ELSE [ok |-> FALSE, s |-> [s EXCEPT !.node = node + 1]]

(* find_child, and predictive_find_child.                                  *)
FindChild(predictive, s, str) ==
  LET pos == ChildPos(tries[1], s.node)
  IN  IF ~ At(tries[1].louds, pos) THEN [ok |-> FALSE, s |-> s]
      ELSE TryChild(predictive, s, str, pos - s.node - 1, NoLink, pos)

-----------------------------------------------------------------------------
Fresh == [node |-> 0, pos |-> 0, keyBuf |-> << >>, history |-> << >>, historyPos |-> 0, status |-> "all"]

KeyOf(node) == Rank1(termFlags, node)

(* Child after child, c the outcome of the last, until the query is used up*)
RECURSIVE Descend(_, _, _)

Descend(predictive, c, str) ==
  IF ~ c.ok \/ c.s.pos >= Len(str) THEN c
  ELSE Descend(predictive, FindChild(predictive, c.s, str), str)

AtStart(s) == [ok |-> TRUE, s |-> s]

(* set_query: the search in progress is over.                              *)
SetQuery ==
  /\ phase = "built"
  /\ query' \in {[query EXCEPT !.str = q] : q \in Queries}
                  \cup {[query EXCEPT !.id = i] : i \in QueryIds}
  /\ state' = [state EXCEPT !.status = "all"]
  /\ given' = {}
  /\ UNCHANGED <<answer, found>>

(* What a call gives back, and what the search in progress has answered.   *)
Return(s, ok, str, id) ==
  /\ state' = s
  /\ found' = ok
  /\ answer' = IF ok THEN [str |-> str, id |-> id] ELSE answer
  /\ given' = IF ~ ok \/ s.status = "all" THEN {}
              ELSE (IF state.status = s.status THEN given ELSE {}) \cup {str}
  /\ UNCHANGED query

Lookup ==
  /\ phase = "built"
  /\ LET r == Descend(FALSE, AtStart([state EXCEPT !.node = 0, !.pos = 0, !.status = "all"]), query.str)
     IN  Return(r.s, r.ok /\ At(termFlags, r.s.node), query.str, KeyOf(r.s.node))

(* The labels from a node up to the root.                                  *)
RECURSIVE LabelsUp(_)
LabelsUp(node) ==
  LET t    == tries[1]
      here == IF At(t.links, node) THEN Reverse(Restore(1, LinkOf(t, node))) ELSE <<Label(t, node)>>
  IN  IF node <= t.numL1 THEN [labels |-> here, top |-> node]
      ELSE LET up == LabelsUp(Parent(t, node)) IN [up EXCEPT !.labels = here \o @]

ReverseLookup ==
  /\ phase = "built"
  /\ IF query.id >= Rank1(termFlags, Len(termFlags))
     THEN found' = FALSE /\ UNCHANGED <<query, state, answer, given>>
     ELSE LET node == Select1(termFlags, query.id)
              up   == IF node = 0 THEN [labels |-> << >>, top |-> 0] ELSE LabelsUp(node)
              key  == Reverse(up.labels)
          IN  Return([state EXCEPT !.node = up.top, !.keyBuf = key, !.status = "all"], TRUE, key, query.id)

(* Child after child, c the outcome of the last, until one is a key.       *)
RECURSIVE NextPrefix(_, _)

NextPrefix(c, str) ==
  IF ~ c.ok \/ At(termFlags, c.s.node) THEN c
  ELSE IF c.s.pos >= Len(str) THEN [c EXCEPT !.ok = FALSE]
  ELSE NextPrefix(FindChild(FALSE, c.s, str), str)

(* Of the search resumed: the key it stands at has been answered.          *)
NextPrefixAfter(s, str) ==
  IF s.pos >= Len(str) THEN [ok |-> FALSE, s |-> s]
  ELSE NextPrefix(FindChild(FALSE, s, str), str)

ReturnPrefix(r) ==
  Return([r.s EXCEPT !.status = IF r.ok THEN "cps" ELSE "cps_end"],
         r.ok, SubSeq(query.str, 1, r.s.pos), KeyOf(r.s.node))

CommonPrefixSearch ==
  /\ phase = "built"
  /\ IF state.status = "cps_end" THEN Return(state, FALSE, << >>, 0)
     ELSE ReturnPrefix(IF state.status = "cps" THEN NextPrefixAfter(state, query.str)
                       ELSE NextPrefix(AtStart([state EXCEPT !.node = 0, !.pos = 0]), query.str))

-----------------------------------------------------------------------------
(* History: how far the children of the nodes on the path have been tried. *)
(* Nodes of one depth lie in one order, so that an entry serves one parent *)
(* after the other and only ever moves on.                                 *)
History(node, loudsPos, keyPos) ==
  [node |-> node, loudsPos |-> loudsPos, keyPos |-> keyPos, linkId |-> NoLink, keyId |-> NoKey]

Visited(s) == s.history[s.historyPos + 1]

(* A slip: the parent's place in the order is not moved on.                *)
BackUpStaying(s) ==
  LET n == s.historyPos
  IN  [s EXCEPT !.keyBuf = SubSeq(@, 1, s.history[n - 1].keyPos), !.historyPos = n - 1]

BackUp(s) ==
  LET n == s.historyPos
  IN  [s EXCEPT !.history[n].node = @ + 1,
                !.keyBuf = SubSeq(@, 1, s.history[n - 1].keyPos), !.historyPos = n - 1]

(* A child is entered: its labels go to key_buf, and if it is a key it is  *)
(* the next one in the numbering of its depth.                             *)
Enter(s) ==
  LET t      == tries[1]
      h      == Visited(s)
      isLink == At(t.links, h.node)
      id     == IF isLink THEN UpdateLinkId(t, h.linkId, h.node) ELSE h.linkId
      buf    == s.keyBuf \o (IF isLink THEN Restore(1, Link(t, h.node, id)) ELSE <<Label(t, h.node)>>)
      keyId  == IF ~ At(termFlags, h.node) THEN h.keyId
                ELSE IF h.keyId = NoKey THEN KeyOf(h.node) ELSE h.keyId + 1
  IN  [s EXCEPT !.history[s.historyPos + 1] =
                  [h EXCEPT !.linkId = id, !.keyId = keyId, !.keyPos = Len(buf)],
                !.keyBuf = buf, !.historyPos = @ + 1]

Opened(s) ==
  LET node == Last(s.history).node
      pos  == ChildPos(tries[1], node)
  IN  IF s.historyPos < Len(s.history) THEN s
      ELSE [s EXCEPT !.history = Append(@, History(pos - node - 1, pos, 0))]

RECURSIVE Advance(_)
Advance(s0) ==
  LET s       == Opened(s0)
      isChild == At(tries[1].louds, Visited(s).loudsPos)
      tried   == [s EXCEPT !.history[s.historyPos + 1].loudsPos = @ + 1]
      entered == Enter(tried)
  IN  IF isChild
      THEN IF At(termFlags, Visited(tried).node) THEN [ok |-> TRUE, s |-> entered] ELSE Advance(entered)
      ELSE IF s.historyPos # 1 THEN Advance(BackUp(tried))
      ELSE [ok |-> FALSE, s |-> tried]

(* The node that the query ends at, or in the link of, is the first to be  *)
(* looked at; d is the descent to it.                                      *)
BeginAt(d) ==
  LET s == [d.s EXCEPT !.history = <<History(d.s.node, 0, Len(d.s.keyBuf))>>, !.historyPos = 1]
  IN  IF ~ d.ok THEN d
      ELSE IF At(termFlags, s.node) THEN AtStart(s)
      ELSE Advance(s)

ReturnPredicted(r) ==
  LET h  == r.s.history[r.s.historyPos]
      id == IF r.s.historyPos = 1 THEN KeyOf(r.s.node) ELSE h.keyId
  IN  Return([r.s EXCEPT !.status = IF r.ok THEN "ps" ELSE "ps_end"], r.ok, r.s.keyBuf, id)

PredictiveSearch ==
  /\ phase = "built"
  /\ IF state.status = "ps_end" THEN Return(state, FALSE, << >>, 0)
     ELSE ReturnPredicted(IF state.status = "ps" THEN Advance(state)
                          ELSE BeginAt(Descend(TRUE, AtStart([Fresh EXCEPT !.status = "ps"]), query.str)))

NextQuery == SetQuery \/ Lookup \/ ReverseLookup \/ CommonPrefixSearch \/ PredictiveSearch

-----------------------------------------------------------------------------
InitAgent ==
  /\ query = [str |-> << >>, id |-> 0]
  /\ state = Fresh
  /\ answer = [str |-> << >>, id |-> 0]
  /\ found = FALSE
  /\ given = {}

Init == InitBuild /\ InitAgent

Next ==
  \/ NextBuild /\ UNCHANGED agentVars
  \/ NextQuery /\ UNCHANGED buildVars

Spec == Init /\ [][Next]_<<buildVars, agentVars>>

-----------------------------------------------------------------------------
Nodes(t) == 0 .. Len(t.bases) - 1

(* The encoding: a level has as many 1s as nodes and one 0 for each and for*)
(* the super-root, its flags and arrays cover its nodes, links lead into   *)
(* the next level or the tail, and a state stays inside level 1.           *)
TypeOK ==
  phase = "built" =>
    /\ \A n \in DOMAIN tries :
         LET t == tries[n]
         IN  /\ Rank1(t.louds, Len(t.louds)) = Len(t.bases)
             /\ Len(t.louds) = 2 * Len(t.bases) + 2
             /\ Len(t.links) = Len(t.bases) /\ Len(t.extras) = Len(t.bases)
             /\ \A node \in Nodes(t) : At(t.links, node) =>
                  IF n < Len(tries) THEN LinkOf(t, node) \in Nodes(tries[n + 1]) \ {0}
                  ELSE LinkOf(t, node) < Len(tail.buf)
    /\ state.node \in 0 .. Len(tries[1].bases)
    /\ state.historyPos <= Len(state.history)
    /\ \A i \in DOMAIN state.history : state.history[i].loudsPos < Len(tries[1].louds)

(* Through all levels and the tail the id of every string offered leads    *)
(* back to that string: links lead to where their strings end.             *)
IdsAgree ==
  phase = "built" =>
    \A i \in DOMAIN keyset :
      LET node == terminals[1][i]
      IN  /\ KeyOf(node) = ids[i] /\ Select1(termFlags, ids[i]) = node
          /\ (IF node = 0 THEN << >> ELSE Reverse(LabelsUp(node).labels)) = keyset[i].str

(* The cache holds nothing but edges of its level, with the label or link  *)
(* that the child stands for, also where a heavier edge took an entry over.*)
CacheTrue ==
  phase = "built" =>
    \A n \in DOMAIN tries : \A i \in DOMAIN tries[n].cache :
      LET t == tries[n]
          c == t.cache[i]
      IN  c.child # -1 =>
            /\ Parent(t, c.child) = c.parent
            /\ c.isLink = At(t.links, c.child)
            /\ c.base + c.extra * BaseSize = IF c.isLink THEN LinkOf(t, c.child) ELSE Label(t, c.child)

(* base.h:138: with label order a predictive search answers in label order.*)
AnswersInLabelOrder ==
  [][ /\ conf.labelOrder /\ state.status = "ps" /\ state'.status = "ps" /\ given # given'
      => Before(answer.str, answer'.str) ]_<<state, answer, given>>

Offered == {keyset[i].str : i \in DOMAIN keyset}

(* Built, saved in levels and searched by rank and select, the trie is the *)
(* dictionary of the strings offered; whatever calls came before on the    *)
(* Agent, each search answers its own keys, each once.                     *)
TheDictionary == INSTANCE Dictionary WITH
  offered <- Offered,
  dict    <- IF phase = "built"
             THEN [k \in Offered |-> ids[CHOOSE i \in DOMAIN keyset : keyset[i].str = k]] ELSE << >>,
  mode    <- state.status

ImplementsDictionary == TheDictionary!Spec
=============================================================================
