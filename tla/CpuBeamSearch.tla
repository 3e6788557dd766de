--------------------------- MODULE CpuBeamSearch ----------------------------
(***************************************************************************)
(* LoudsTrie::tbs: the constrained beam search on the CPU.  Position after *)
(* position the agents of cur are popped, the worst first, and each is     *)
(* tried with every proposal; what survives is pushed to one of two bounded*)
(* priority queues.  With early exit the size of selected is asked before  *)
(* every proposal, so that a search may stop within a parent.              *)
(***************************************************************************)
EXTENDS BeamExtend, FiniteSets

CONSTANTS
  Keys,        (* the keys of the trie                                       *)
  Proposals,   (* per position the proposals, records [token, logp]          *)
  Orders,      (* the orders in which they may be given: topk_id, topk_logp  *)
  NumOutpos,   (* the number of output positions                             *)
  BeamWidth,   (* input.beams                                                *)
  LengthWeight,(* (6 / (5 + length)) ^ length_norm, scaled to an integer     *)
  TokenLimit,  (* token_logp_threshold                                       *)
  SentLimit,   (* sent_logp_threshold                                        *)
  Token, Path, ToNext, ToSelected, Score   (* of the abstract search         *)

ASSUME CpuAssumption ==
  /\ Token \subseteq Int
  /\ Keys \in SUBSET Seq(Token)
  /\ NumOutpos \in Nat \ {0}
  /\ BeamWidth \in [0 .. NumOutpos - 1 -> Nat \ {0}]
  /\ LengthWeight \in [0 .. NumOutpos -> Nat]
  /\ \A i \in 0 .. NumOutpos - 1 : Proposals[i] \subseteq [token : Token, logp : Int]
  /\ \A order \in Orders : \A i \in 0 .. NumOutpos - 1 :
       /\ order[i] \in Seq(Proposals[i]) /\ ToSet(order[i]) = Proposals[i]
       /\ Len(order[i]) = Cardinality(Proposals[0])

VARIABLES
  topk,        (* the proposals in the order given                           *)
  earlyExit,   (* input.early_exit                                           *)
  pc,          (* head of the loop, expand, or done                          *)
  outpos,
  cur, next, selected,   (* the queues: sets of agents                       *)
  parent,      (* the agent being tried, if any                              *)
  index,       (* the next proposal for it                                   *)
  sentences,   (* out_sent                                                   *)
  met          (* history: the frontier of this position, what was pushed to *)
               (* either queue, and what to selected before this position    *)

vars == <<topk, earlyExit, pc, outpos, cur, next, selected, parent, index, sentences, met>>

(* A slip: the width of the first position in place of the last.           *)
FirstBeam == BeamWidth[0]

FinalBeam == BeamWidth[NumOutpos - 1]

-----------------------------------------------------------------------------
(* The numbering of the nodes, breadth first in label order.               *)
NodeDepth(n) == Cardinality({p \in Prefixes(n) : p # << >> /\ Opened(Keys, p) = p})

LabelsBefore(n, m) ==
  \E i \in 1 .. Len(n) : i <= Len(m) /\ n[i] < m[i] /\ SubSeq(n, 1, i - 1) = SubSeq(m, 1, i - 1)

NodeBefore(n, m) ==
  \/ NodeDepth(n) < NodeDepth(m)
  \/ NodeDepth(n) = NodeDepth(m) /\ LabelsBefore(n, m)

LogpNorm(a) == a.logp * LengthWeight[Len(a.query)]

(* A slip: the comparison the other way round.                             *)
IsTopBest(queue, a) ==
  \A b \in queue \ {a} : \/ LogpNorm(a) > LogpNorm(b)
                         \/ LogpNorm(a) = LogpNorm(b) /\ ~ NodeBefore(b.node, a.node)

(* AgentComparer: the top of a queue is the worst of it.                   *)
IsTop(queue, a) ==
  \A b \in queue \ {a} : \/ LogpNorm(a) < LogpNorm(b)
                         \/ LogpNorm(a) = LogpNorm(b) /\ ~ NodeBefore(b.node, a.node)

Top(queue) == CHOOSE a \in queue : IsTop(queue, a)

(* A slip: a full queue takes nothing more.                                *)
PushedFirst(queue, max, a) == IF Cardinality(queue) < max THEN queue \cup {a} ELSE queue

(* Candidates::push: an equal score does not displace what is there.       *)
Pushed(queue, max, a) ==
  LET taken == IF Cardinality(queue) < max \/ LogpNorm(a) > LogpNorm(Top(queue))
               THEN queue \cup {a} ELSE queue
  IN  IF Cardinality(taken) > max THEN taken \ {Top(taken)} ELSE taken

-----------------------------------------------------------------------------
(* An agent with its score.                                                *)
Scored(a, logp) ==
  [query |-> a.query, pos |-> a.pos, node |-> a.node, keyBuf |-> a.keyBuf, logp |-> logp]

Root == Scored(CpuRoot, 0)

Init ==
  /\ topk \in Orders
  /\ earlyExit \in BOOLEAN
  /\ pc = "head" /\ outpos = 0
  /\ cur = {Root} /\ next = {} /\ selected = {}
  /\ parent = {} /\ index = 1
  /\ sentences = << >>
  /\ met = [frontier |-> {<< >>}, next |-> {}, selected |-> {}, before |-> {}]

(* A slip: it is asked at the head of the loop only, as the kernel does.   *)
EnoughAtHead == earlyExit /\ pc = "head" /\ Cardinality(selected) >= FinalBeam

Enough == earlyExit /\ Cardinality(selected) >= FinalBeam

(* The orders in which a queue may be emptied, always the top of it.       *)
Emptyings(queue) ==
  { order \in [1 .. Cardinality(queue) -> queue] :
      /\ IsInjective(order)
      /\ \A i \in DOMAIN order : IsTop({order[j] : j \in i .. Len(order)}, order[i]) }

(* The head of the loop; behind it selected is emptied, the worst first.   *)
LoopHead ==
  /\ pc = "head"
  /\ IF outpos = NumOutpos \/ cur = {} \/ Enough
     THEN /\ pc' = "done"
          /\ \E order \in Emptyings(selected) : sentences' = [i \in DOMAIN order |-> order[i].query]
          /\ selected' = {}
     ELSE pc' = "expand" /\ UNCHANGED <<sentences, selected>>
  /\ UNCHANGED <<topk, earlyExit, outpos, cur, next, parent, index, met>>

PopParent ==
  /\ pc = "expand" /\ parent = {}
  /\ \E a \in cur : /\ IsTop(cur, a)
                    /\ parent' = {a}
                    /\ cur' = cur \ {a}
  /\ index' = 1
  /\ UNCHANGED <<topk, earlyExit, pc, outpos, next, selected, sentences, met>>

Dropped(a, proposal) == proposal.logp <= TokenLimit \/ a.logp + proposal.logp <= SentLimit

(* What a proposal makes of an agent; the child is a copy of the parent.   *)
KidsOf(a, proposal) ==
  IF Dropped(a, proposal) THEN {}
  ELSE {Scored(kid, a.logp + proposal.logp) : kid \in CpuKids(Keys, a, proposal.token)}

OnOf(a, proposal) == {kid \in KidsOf(a, proposal) : CpuGoesOn(Keys, a, kid)}

CompleteOf(a, proposal) == {kid \in KidsOf(a, proposal) : CpuSelects(Keys, a, kid)}

(* One turn of the loop of tbs_lookup_.                                    *)
Propose ==
  /\ parent # {} /\ ~ Enough /\ index <= Len(topk[outpos])
  /\ \E a \in parent :
       LET on       == OnOf(a, topk[outpos][index])
           complete == CompleteOf(a, topk[outpos][index])
           PushAll(queue, max, S) == IF S = {} THEN queue ELSE Pushed(queue, max, CHOOSE k \in S : TRUE)
       IN  /\ selected' = PushAll(selected, FinalBeam, complete)
           /\ next' = PushAll(next, BeamWidth[outpos], on)
           /\ met' = [met EXCEPT !.next = @ \cup on, !.selected = @ \cup complete]
  /\ index' = index + 1
  /\ UNCHANGED <<topk, earlyExit, pc, outpos, cur, parent, sentences>>

(* The thread returns and is joined.                                       *)
EndParent ==
  /\ parent # {} /\ (Enough \/ index > Len(topk[outpos]))
  /\ parent' = {}
  /\ UNCHANGED <<topk, earlyExit, pc, outpos, cur, next, selected, index, sentences, met>>

EndPosition ==
  /\ pc = "expand" /\ parent = {} /\ cur = {}
  /\ cur' = next /\ next' = {}
  /\ outpos' = outpos + 1
  /\ pc' = "head"
  /\ met' = [met EXCEPT !.frontier = {a.query : a \in next}, !.before = met.selected, !.next = {}]
  /\ UNCHANGED <<topk, earlyExit, selected, parent, index, sentences>>

Next == LoopHead \/ PopParent \/ Propose \/ EndParent \/ EndPosition

Spec == Init /\ [][Next]_vars

-----------------------------------------------------------------------------
Queries(queue) == {a.query : a \in queue}

(* After every proposal each queue holds the best of what it was offered,  *)
(* as many as it may: an agent that was turned away or displaced would not *)
(* have been in the answer, whatever came later.                           *)
Best(queue, offered, max) ==
  /\ queue \subseteq offered
  /\ Cardinality(queue) = IF Cardinality(offered) < max THEN Cardinality(offered) ELSE max
  /\ \A a \in queue, b \in offered \ queue : LogpNorm(a) >= LogpNorm(b)

QueuesKeepBest ==
  pc = "expand" => /\ Best(selected, met.selected, FinalBeam)
                   /\ Best(next, met.next, BeamWidth[outpos])

(* Early exit ends the search with the keys met until then: no key is met  *)
(* once there are enough, so that none is displaced.                       *)
NoneDisplaced == earlyExit => Cardinality(met.selected) <= FinalBeam

(* The answer comes in the order in which the kernel gives it, ascending.  *)
Ascending ==
  pc = "done" =>
    LET norm(q) == LogpNorm(CHOOSE a \in met.selected : a.query = q)
    IN  \A i \in 1 .. Len(sentences) - 1 : norm(sentences[i]) <= norm(sentences[i + 1])

-----------------------------------------------------------------------------
(* examples/README.md:131: the CPU and the GPU search are the same.  The   *)
(* CPU search implements the abstract search that the kernel implements,   *)
(* on the paths that GPU beams would reach by proposals above the limits.  *)
Search == INSTANCE BeamSearch WITH
  EarlyExit  <- FALSE,
  level      <- IF earlyExit THEN 0 ELSE outpos,
  frontier   <- IF earlyExit THEN {<< >>} ELSE met.frontier,
  selected   <- IF earlyExit THEN {} ELSE Queries(met.before),
  answers    <- IF earlyExit \/ pc # "done" THEN {} ELSE {ToSet(sentences)}

ImplementsSearch == Search!Spec

-----------------------------------------------------------------------------
(* Conditions on the constants.  No list of proposals has a token twice.   *)
OneEach ==
  \A order \in Orders : \A n \in 0 .. NumOutpos - 1 : \A i, j \in 1 .. Len(order[n]) :
    order[n][i].token = order[n][j].token => i = j

(* The paths and scores of the abstract search are those that the agents   *)
(* have which this trie and these proposals lead to: agent[p] is the one   *)
(* that goes on from path p, final[p] the one that is selected there.      *)
Charted(agent, final) ==
  LET Open == {<< >>} \cup ToNext
  IN  /\ agent[<< >>] = Root
      /\ \A p \in Open : agent[p].query = p
      /\ \A p \in ToNext : Score[p] = LogpNorm(agent[p])
      /\ \A p \in ToSelected : final[p].query = p /\ Score[p] = LogpNorm(final[p])
      /\ \A p \in Open : Len(p) < NumOutpos =>
           /\ UNION {OnOf(agent[p], x) : x \in Proposals[Len(p)]}
                = {agent[q] : q \in Search!Children(p) \cap ToNext}
           /\ UNION {CompleteOf(agent[p], x) : x \in Proposals[Len(p)]}
                = {final[q] : q \in Search!Children(p) \cap ToSelected}
=============================================================================
