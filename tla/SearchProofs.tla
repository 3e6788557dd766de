---------------------------- MODULE SearchProofs -----------------------------
(***************************************************************************)
(* Theorems about the two searches.  CpuBeamSearch, for any trie,          *)
(* proposals, limits and beam widths: its queues keep the best of what they*)
(* were offered, it answers in ascending order, and it implements the      *)
(* abstract search.  TrieWalk, for any sets of keys: the GPU search finds  *)
(* keys only, and where links end in leaves both searches find all of them.*)
(***************************************************************************)
EXTENDS TrieWalk, CpuBeamSearch, TrieProofs, FiniteSetTheorems

-----------------------------------------------------------------------------
(* The order of the queues.  NodeBefore is a strict order on sequences of  *)
(* tokens, so that every queue has a top, with the least score of all.     *)
LEMMA DepthType ==
  ASSUME NEW n \in Seq(Token)
  PROVE  NodeDepth(n) \in Nat
<1> DEFINE f == [l \in 0 .. Len(n) |-> SubSeq(n, 1, l)]
           inner == {p \in Prefixes(n) : p # << >> /\ Opened(Keys, p) = p}
<1>1. IsFiniteSet(0 .. Len(n))
  BY FS_Interval
<1>2. f \in Surjection(0 .. Len(n), Prefixes(n))
  BY DEF Surjection, Prefixes
<1>3. IsFiniteSet(Prefixes(n))
  BY <1>1, <1>2, FS_Surjection
<1>4. IsFiniteSet(inner) /\ Cardinality(inner) \in Nat
  BY <1>3, FS_Subset, FS_CardinalityType
<1> QED BY <1>4 DEF NodeDepth

LEMMA TokensAreInts ==
  ASSUME NEW s \in Seq(Token)
  PROVE  \A l \in 1 .. Len(s) : s[l] \in Int
<1>1. Token \subseteq Int
  BY CpuAssumption
<1>2. \A l \in 1 .. Len(s) : s[l] \in Token
  OBVIOUS
<1> QED BY <1>1, <1>2

LEMMA SameStart ==
  ASSUME NEW n \in Seq(Token), NEW m \in Seq(Token), NEW i \in Nat, i <= Len(n), i <= Len(m)
  PROVE  SubSeq(n, 1, i) = SubSeq(m, 1, i) <=> \A l \in 1 .. i : n[l] = m[l]
<1>1. /\ SubSeq(n, 1, i) \in Seq(Token) /\ Len(SubSeq(n, 1, i)) = i
      /\ \A l \in 1 .. i : SubSeq(n, 1, i)[l] = n[l]
  OBVIOUS
<1>2. /\ SubSeq(m, 1, i) \in Seq(Token) /\ Len(SubSeq(m, 1, i)) = i
      /\ \A l \in 1 .. i : SubSeq(m, 1, i)[l] = m[l]
  OBVIOUS
<1> QED BY <1>1, <1>2, SeqEqual

LEMMA LabelsTransitive ==
  ASSUME NEW n \in Seq(Token), NEW m \in Seq(Token), NEW o \in Seq(Token),
         LabelsBefore(n, m), LabelsBefore(m, o)
  PROVE  LabelsBefore(n, o)
<1>1. PICK i \in 1 .. Len(n) : i <= Len(m) /\ n[i] < m[i] /\ \A l \in 1 .. i - 1 : n[l] = m[l]
  <2>1. PICK i \in 1 .. Len(n) : i <= Len(m) /\ n[i] < m[i] /\ SubSeq(n, 1, i - 1) = SubSeq(m, 1, i - 1)
    BY DEF LabelsBefore
  <2>2. \A l \in 1 .. i - 1 : n[l] = m[l]
    BY <2>1, SameStart
  <2> QED BY <2>1, <2>2
<1>2. PICK j \in 1 .. Len(m) : j <= Len(o) /\ m[j] < o[j] /\ \A l \in 1 .. j - 1 : m[l] = o[l]
  <2>1. PICK j \in 1 .. Len(m) : j <= Len(o) /\ m[j] < o[j] /\ SubSeq(m, 1, j - 1) = SubSeq(o, 1, j - 1)
    BY DEF LabelsBefore
  <2>2. \A l \in 1 .. j - 1 : m[l] = o[l]
    BY <2>1, SameStart
  <2> QED BY <2>1, <2>2
<1> DEFINE k == IF i <= j THEN i ELSE j
<1>3. k \in 1 .. Len(n) /\ k <= Len(o) /\ \A l \in 1 .. k - 1 : n[l] = o[l]
  BY <1>1, <1>2
<1>4. n[k] < o[k]
  <2>1. /\ \A l \in 1 .. Len(n) : n[l] \in Int
        /\ \A l \in 1 .. Len(m) : m[l] \in Int
        /\ \A l \in 1 .. Len(o) : o[l] \in Int
    BY TokensAreInts
  <2> QED BY <1>1, <1>2, <2>1
<1>5. SubSeq(n, 1, k - 1) = SubSeq(o, 1, k - 1)
  BY <1>3, SameStart
<1> QED BY <1>3, <1>4, <1>5 DEF LabelsBefore

LEMMA NodeOrder ==
  ASSUME NEW n \in Seq(Token), NEW m \in Seq(Token), NEW o \in Seq(Token)
  PROVE  ~ NodeBefore(n, n) /\ (NodeBefore(n, m) /\ NodeBefore(m, o) => NodeBefore(n, o))
<1>1. NodeDepth(n) \in Nat /\ NodeDepth(m) \in Nat /\ NodeDepth(o) \in Nat
  BY DepthType
<1>2. \A l \in 1 .. Len(n) : n[l] \in Int
  BY TokensAreInts
<1>3. ~ LabelsBefore(n, n)
  BY <1>2 DEF LabelsBefore
<1>4. LabelsBefore(n, m) /\ LabelsBefore(m, o) => LabelsBefore(n, o)
  BY LabelsTransitive
<1> QED BY <1>1, <1>3, <1>4 DEF NodeBefore

Comparable(a) == LogpNorm(a) \in Int /\ a.node \in Seq(Token)

LEMMA TopIsLeast ==
  ASSUME NEW queue, IsFiniteSet(queue), queue # {}, \A a \in queue : Comparable(a)
  PROVE  Top(queue) \in queue /\ \A b \in queue : LogpNorm(Top(queue)) <= LogpNorm(b)
<1> DEFINE Worse(b, a) == \/ LogpNorm(b) < LogpNorm(a)
                          \/ LogpNorm(b) = LogpNorm(a) /\ NodeBefore(b.node, a.node)
           below(a) == {b \in queue : Worse(b, a)}
           T == {Cardinality(below(a)) : a \in queue}
<1>1. \A a \in queue : IsFiniteSet(below(a)) /\ Cardinality(below(a)) \in Nat
  BY FS_Subset, FS_CardinalityType
<1>2. PICK a \in queue : \A b \in queue : Cardinality(below(a)) <= Cardinality(below(b))
  <2>1. T \subseteq Nat /\ T # {}
    BY <1>1
  <2>2. PICK x \in T : \A y \in T : x <= y
    BY <2>1, LeastNatural
  <2> QED BY <2>2
<1>3. \A b \in queue : ~ Worse(b, a)
  <2>1. SUFFICES ASSUME NEW b \in queue, Worse(b, a) PROVE FALSE
    OBVIOUS
  <2>2. below(b) \subseteq below(a) \ {b}
    <3>1. SUFFICES ASSUME NEW c \in queue, Worse(c, b) PROVE Worse(c, a) /\ c # b
      OBVIOUS
    <3>2. /\ LogpNorm(a) \in Int /\ LogpNorm(b) \in Int /\ LogpNorm(c) \in Int
          /\ a.node \in Seq(Token) /\ b.node \in Seq(Token) /\ c.node \in Seq(Token)
      BY DEF Comparable
    <3>3. /\ ~ NodeBefore(b.node, b.node)
          /\ NodeBefore(c.node, b.node) /\ NodeBefore(b.node, a.node) => NodeBefore(c.node, a.node)
      BY <3>2, NodeOrder
    <3> QED BY <2>1, <3>1, <3>2, <3>3
  <2>3. Cardinality(below(a) \ {b}) = Cardinality(below(a)) - 1
    BY <1>1, <2>1, FS_RemoveElement
  <2>4. Cardinality(below(b)) <= Cardinality(below(a) \ {b})
    <3>1. IsFiniteSet(below(a) \ {b})
      BY <1>1, FS_RemoveElement
    <3> HIDE DEF below
    <3> QED BY <2>2, <3>1, FS_Subset
  <2> HIDE DEF below
  <2> QED BY <1>1, <1>2, <2>3, <2>4
<1>4. IsTop(queue, a)
  BY <1>3 DEF IsTop, Comparable
<1>5. Top(queue) \in queue /\ IsTop(queue, Top(queue))
  BY <1>4 DEF Top
<1> QED BY <1>5 DEF IsTop, Comparable

(* A push to a queue that holds the best of what it was offered.           *)
LEMMA BestPushed ==
  ASSUME NEW queue, NEW offered, IsFiniteSet(offered), NEW max \in Nat \ {0},
         Best(queue, offered, max), NEW a, \A b \in offered \cup {a} : Comparable(b)
  PROVE  Best(Pushed(queue, max, a), offered \cup {a}, max)
<1> DEFINE taken == queue \cup {a}
<1>1. /\ queue \subseteq offered /\ IsFiniteSet(queue)
      /\ Cardinality(queue) \in Nat /\ Cardinality(offered) \in Nat
      /\ Cardinality(queue) = IF Cardinality(offered) < max THEN Cardinality(offered) ELSE max
  BY FS_Subset, FS_CardinalityType DEF Best
<1>2. \A x \in queue, b \in offered \ queue : LogpNorm(x) >= LogpNorm(b)
  BY DEF Best
<1>3. queue # {} => Top(queue) \in queue /\ \A b \in queue : LogpNorm(Top(queue)) <= LogpNorm(b)
  BY <1>1, TopIsLeast
<1>4. IsFiniteSet(taken) /\ Cardinality(taken) = IF a \in queue THEN Cardinality(queue) ELSE Cardinality(queue) + 1
  BY <1>1, FS_AddElement
<1>5. /\ IsFiniteSet(offered \cup {a})
      /\ Cardinality(offered \cup {a}) = IF a \in offered THEN Cardinality(offered) ELSE Cardinality(offered) + 1
  BY FS_AddElement
<1>6. Cardinality(offered) < max => queue = offered
  BY <1>1, FS_Subset
<1>7. Cardinality(offered) >= max => queue # {}
  BY <1>1, FS_EmptySet
<1>8. \A b \in offered \cup {a} : LogpNorm(b) \in Int
  BY DEF Comparable
<1>9. CASE Cardinality(queue) < max
  <2>1. queue = offered
    BY <1>1, <1>6, <1>9
  <2>2. Pushed(queue, max, a) = taken
    BY <1>1, <1>4, <1>9 DEF Pushed
  <2> QED BY <1>1, <1>5, <1>9, <2>1, <2>2 DEF Best
<1>10. CASE ~ (Cardinality(queue) < max) /\ ~ (LogpNorm(a) > LogpNorm(Top(queue)))
  <2>1. Pushed(queue, max, a) = queue
    BY <1>1, <1>10 DEF Pushed
  <2>2. Cardinality(queue) = max /\ ~ (Cardinality(offered \cup {a}) < max)
    BY <1>1, <1>5, <1>10
  <2>3. \A x \in queue : LogpNorm(x) >= LogpNorm(a)
    BY <1>1, <1>3, <1>8, <1>10
  <2>4. \A x \in queue, b \in (offered \cup {a}) \ queue : LogpNorm(x) >= LogpNorm(b)
    BY <1>2, <2>3
  <2> QED BY <1>1, <2>1, <2>2, <2>4 DEF Best
<1>11. CASE a \in queue
  <2>1. offered \cup {a} = offered /\ Cardinality(queue \cup {a}) = Cardinality(queue)
    BY <1>1, <1>4, <1>11
  <2>2. ~ (Cardinality(queue) > max)
    BY <1>1
  <2>3. Pushed(queue, max, a) = queue
    BY <1>11, <2>2 DEF Pushed
  <2> QED BY <2>1, <2>3
<1>12. CASE /\ ~ (Cardinality(queue) < max) /\ LogpNorm(a) > LogpNorm(Top(queue))
            /\ a \notin queue
  <2> DEFINE t == Top(taken)
  <2>1. Cardinality(queue) = max /\ ~ (Cardinality(offered) < max) /\ queue # {}
    BY <1>1, <1>7, <1>12
  <2>2. a \notin queue
    BY <1>12
  <2>3. t \in taken /\ \A b \in taken : LogpNorm(t) <= LogpNorm(b)
    BY <1>1, <1>4, TopIsLeast
  <2>4. Cardinality(taken) = max + 1 /\ Pushed(queue, max, a) = taken \ {t}
    BY <1>4, <1>12, <2>1, <2>2 DEF Pushed
  <2>5. Cardinality(taken \ {t}) = max
    <3> HIDE DEF t, taken
    <3>1. Cardinality(taken \ {t}) = Cardinality(taken) - 1
      BY <1>4, <2>3, FS_RemoveElement
    <3> QED BY <2>4, <3>1
  <2>6. \A x \in taken, b \in offered \ queue : LogpNorm(x) >= LogpNorm(b)
    <3>1. SUFFICES ASSUME NEW b \in offered \ queue PROVE LogpNorm(a) >= LogpNorm(b)
      BY <1>2
    <3>2. LogpNorm(Top(queue)) >= LogpNorm(b) /\ LogpNorm(Top(queue)) \in Int
      BY <1>1, <1>2, <1>3, <1>8, <2>1
    <3> QED BY <1>8, <1>12, <3>2
  <2>7. \A x \in taken \ {t}, b \in (offered \cup {a}) \ (taken \ {t}) : LogpNorm(x) >= LogpNorm(b)
    <3>1. SUFFICES ASSUME NEW x \in taken \ {t}, NEW b \in (offered \cup {a}) \ (taken \ {t})
                   PROVE  LogpNorm(x) >= LogpNorm(b)
      OBVIOUS
    <3>2. CASE b = t
      BY <1>1, <1>8, <2>3, <3>2
    <3>3. CASE b # t
      BY <2>6, <3>3
    <3> QED BY <3>2, <3>3
  <2>8. ~ (Cardinality(offered \cup {a}) < max) /\ taken \ {t} \subseteq offered \cup {a}
    BY <1>1, <1>5, <2>1
  <2> HIDE DEF t, taken
  <2> QED BY <2>4, <2>5, <2>7, <2>8 DEF Best
<1> QED BY <1>9, <1>10, <1>11, <1>12

-----------------------------------------------------------------------------
IsAgent(a) == a = Scored(a, a.logp) /\ a.node \in Seq(Token)

IsMet(r) == r = [frontier |-> r.frontier, next |-> r.next, selected |-> r.selected, before |-> r.before]

(* With early exit everything met is in selected until the search has      *)
(* ended, and is no more than fits into it; a parent is tried only before. *)
CpuInv ==
  /\ \A a \in cur \cup next \cup parent : IsAgent(a)
  /\ parent # {} => pc = "expand"
  /\ IsMet(met)
  /\ earlyExit => /\ IsFiniteSet(met.selected)
                  /\ Cardinality(met.selected) <= FinalBeam
                  /\ pc # "done" => selected = met.selected

LEMMA FinalBeamType == FinalBeam \in Nat \ {0}
BY CpuAssumption DEF FinalBeam

(* What a token makes of an agent is an agent again.                       *)
LEMMA KidIsAgent ==
  ASSUME NEW a, IsAgent(a), NEW k, NEW kid \in CpuKids(Keys, a, k), NEW logp
  PROVE  IsAgent(Scored(kid, logp))
<1>1. kid.node \in Seq(Token)
  <2>1. CASE CpuLinkParent(Keys, a)
    <3>1. kid = [a EXCEPT !.query = Append(@, k)]
      BY <2>1 DEF CpuKids, CpuInLink
    <3>2. a = [query |-> a.query, pos |-> a.pos, node |-> a.node, keyBuf |-> a.keyBuf, logp |-> a.logp]
      BY DEF IsAgent, Scored
    <3>3. kid.node = a.node
      BY <3>1, <3>2
    <3> QED BY <3>3 DEF IsAgent
  <2>2. CASE ~CpuLinkParent(Keys, a)
    <3> DEFINE token == Append(a.query, k)[a.pos + 1]
               found(c) == [query |-> Append(a.query, k), pos |-> a.pos + 1, node |-> c,
                            keyBuf |-> a.keyBuf \o SubSeq(c, Len(a.node) + 1, Len(c))]
    <3>3. kid \in CpuFindChild(Keys, a, k)
      BY <2>2 DEF CpuKids
    <3>4. PICK c \in ChildNodes(Keys, a.node) : c[Len(a.node) + 1] = token /\ kid = found(c)
      BY <3>3 DEF CpuFindChild
    <3>1. kid.node = c
      BY <3>4
    <3>2. c \in Seq(Token)
      BY ChildBelow, CpuAssumption DEF IsAgent
    <3> QED BY <3>1, <3>2
  <2> QED BY <2>1, <2>2
<1> QED BY <1>1 DEF IsAgent, Scored

(* A push adds the agent pushed or nothing, and one that finds room adds   *)
(* it.                                                                     *)
LEMMA PushedSubset ==
  ASSUME NEW queue, NEW max, NEW a
  PROVE  Pushed(queue, max, a) \subseteq queue \cup {a}
BY DEF Pushed

LEMMA PushedWithRoom ==
  ASSUME NEW queue, NEW max \in Nat, NEW a,
         IsFiniteSet(queue), Cardinality(queue) < max
  PROVE  Pushed(queue, max, a) = queue \cup {a}
<1>1. Cardinality(queue) \in Nat
  BY FS_CardinalityType
<1>2. ~(Cardinality(queue \cup {a}) > max)
  <2>1. Cardinality(queue \cup {a}) = Cardinality(queue)
        \/ Cardinality(queue \cup {a}) = Cardinality(queue) + 1
    BY FS_AddElement
  <2> QED BY <1>1, <2>1
<1> QED BY <1>2 DEF Pushed

-----------------------------------------------------------------------------
LEMMA CpuInit ==
  ASSUME Init
  PROVE  CpuInv
<1>1. IsAgent(Root)
  BY DEF Root, CpuRoot, IsAgent, Scored
<1>2. IsFiniteSet({}) /\ Cardinality({}) = 0
  BY FS_EmptySet
<1> QED BY <1>1, <1>2, FinalBeamType DEF Init, CpuInv, IsMet

LEMMA ProposeStep ==
  ASSUME CpuInv, Propose
  PROVE  CpuInv'
<1>1. PICK a \in parent :
       LET on       == OnOf(a, topk[outpos][index])
           complete == CompleteOf(a, topk[outpos][index])
           PushAll(queue, max, S) == IF S = {} THEN queue ELSE Pushed(queue, max, CHOOSE k \in S : TRUE)
       IN  /\ selected' = PushAll(selected, FinalBeam, complete)
           /\ next' = PushAll(next, BeamWidth[outpos], on)
           /\ met' = [met EXCEPT !.next = @ \cup on, !.selected = @ \cup complete]
  BY DEF Propose
<1> DEFINE proposal == topk[outpos][index]
           found    == CpuKids(Keys, a, proposal.token)
           kids     == KidsOf(a, proposal)
           on       == OnOf(a, proposal)
           complete == CompleteOf(a, proposal)
<1>2. /\ selected' = IF complete = {} THEN selected
                     ELSE Pushed(selected, FinalBeam, CHOOSE k \in complete : TRUE)
      /\ next' = IF on = {} THEN next
                 ELSE Pushed(next, BeamWidth[outpos], CHOOSE k \in on : TRUE)
      /\ met' = [met EXCEPT !.next = @ \cup on, !.selected = @ \cup complete]
  BY <1>1
<1>3. ~Enough /\ UNCHANGED <<earlyExit, pc, cur, parent>>
  BY DEF Propose
<1>4. IsAgent(a)
  BY DEF CpuInv
<1>5. \A x \in kids : IsAgent(x)
  BY <1>4, KidIsAgent DEF KidsOf
<1>6. \A x, y \in kids : x = y
  <2>1. a.node \in Seq(Token) /\ Keys \in SUBSET Seq(Token)
    BY <1>4, CpuAssumption DEF IsAgent
  <2>2. \A x, y \in found : x = y
    BY <2>1, OneCpuKid
  <2> QED BY <2>2 DEF KidsOf
<1> HIDE DEF found, kids
<1>7. \A x \in next' : IsAgent(x)
  <2>1. CASE on = {}
    BY <1>2, <2>1 DEF CpuInv
  <2>2. CASE on # {}
    <3>1. (CHOOSE k \in on : TRUE) \in kids
      BY <2>2 DEF OnOf, kids
    <3>2. next' \subseteq next \cup {CHOOSE k \in on : TRUE}
      BY <1>2, <2>2, PushedSubset
    <3> QED BY <1>5, <3>1, <3>2 DEF CpuInv
  <2> QED BY <2>1, <2>2
<1>8. IsMet(met') /\ met'.selected = met.selected \cup complete
  BY <1>2 DEF CpuInv, IsMet
<1>9. ASSUME earlyExit
      PROVE  /\ IsFiniteSet(met'.selected)
             /\ Cardinality(met'.selected) <= FinalBeam
             /\ selected' = met'.selected
  <2>1. selected = met.selected /\ IsFiniteSet(selected)
    BY <1>9 DEF CpuInv, Propose
  <2>2. Cardinality(selected) \in Nat /\ Cardinality(selected) < FinalBeam
    BY <1>3, <1>9, <2>1, FS_CardinalityType, FinalBeamType DEF Enough
  <2>3. CASE complete = {}
    BY SMTT(30), <1>2, <1>8, <2>1, <2>2, <2>3, FinalBeamType
  <2>4. CASE complete # {}
    <3> DEFINE kid == CHOOSE k \in complete : TRUE
    <3>1. kid \in complete /\ complete \subseteq kids
      BY <2>4 DEF CompleteOf, kids
    <3>2. complete = {kid}
      BY <1>6, <3>1
    <3> HIDE DEF kid, complete
    <3>3. selected' = Pushed(selected, FinalBeam, kid)
      BY <1>2, <2>4 DEF kid
    <3>4. selected' = selected \cup {kid}
      BY <2>1, <2>2, <3>3, PushedWithRoom, FinalBeamType
    <3>5. IsFiniteSet(selected \cup {kid}) /\ Cardinality(selected \cup {kid}) <= FinalBeam
      BY <2>1, <2>2, FS_AddElement, FinalBeamType
    <3> QED BY <1>8, <2>1, <3>2, <3>4, <3>5
  <2> QED BY <2>3, <2>4
<1> QED BY <1>3, <1>7, <1>8, <1>9 DEF CpuInv

LEMMA CpuStep ==
  ASSUME CpuInv, [Next]_vars
  PROVE  CpuInv'
<1>1. CASE LoopHead
  BY <1>1 DEF LoopHead, CpuInv
<1>2. CASE PopParent
  BY <1>2 DEF PopParent, CpuInv
<1>3. CASE Propose
  BY <1>3, ProposeStep
<1>4. CASE EndParent
  BY <1>4 DEF EndParent, CpuInv
<1>5. CASE EndPosition
  <2>1. IsMet(met') /\ met'.selected = met.selected
    BY <1>5 DEF EndPosition, CpuInv, IsMet
  <2> QED BY <1>5, <2>1 DEF EndPosition, CpuInv
<1>6. CASE UNCHANGED vars
  BY <1>6 DEF vars, CpuInv
<1> QED BY <1>1, <1>2, <1>3, <1>4, <1>5, <1>6 DEF Next

(* Whatever the trie, the proposals and their order, a search with early   *)
(* exit (tbs_lookup_ asks before every proposal) displaces no key that it  *)
(* has met: its answer is all of them.                                     *)
THEOREM EarlyExitKeepsAll == Spec => []NoneDisplaced
<1>1. Init => CpuInv
  BY CpuInit
<1>2. CpuInv /\ [Next]_vars => CpuInv'
  BY CpuStep
<1>3. CpuInv => NoneDisplaced
  BY DEF CpuInv, NoneDisplaced
<1> QED BY <1>1, <1>2, <1>3, PTL DEF Spec

-----------------------------------------------------------------------------
(* An agent that has been given n tokens.                                  *)
Reached(a, n) == a.query \in Seq(Token) /\ Len(a.query) = n /\ a.logp \in Int

(* Each queue is the best of what it was offered; the scores of the agents *)
(* at hand are numbers because their queries are no longer than the search.*)
QueueInv ==
  /\ topk \in Orders
  /\ outpos \in 0 .. NumOutpos
  /\ index \in Nat \ {0}
  /\ pc = "expand" => outpos < NumOutpos
  /\ pc = "head" => next = {} /\ met.next = {}
  /\ \A a \in cur \cup parent : Reached(a, outpos)
  /\ \A a \in next : Reached(a, outpos + 1)
  /\ \A b \in met.selected \cup met.next : Comparable(b)
  /\ IsFiniteSet(met.selected) /\ IsFiniteSet(met.next)
  /\ pc # "done" => Best(selected, met.selected, FinalBeam)
  /\ pc = "expand" => Best(next, met.next, BeamWidth[outpos])

LEMMA BestOfNothing ==
  ASSUME NEW max \in Nat \ {0}
  PROVE  Best({}, {}, max)
BY FS_EmptySet DEF Best

LEMMA ReachedComparable ==
  ASSUME NEW a, NEW n \in 0 .. NumOutpos, IsAgent(a), Reached(a, n)
  PROVE  Comparable(a)
<1>1. LengthWeight \in [0 .. NumOutpos -> Nat]
  BY CpuAssumption
<1>2. LengthWeight[Len(a.query)] \in Int
  BY <1>1 DEF Reached
<1> QED BY <1>2 DEF Reached, Comparable, LogpNorm, IsAgent

LEMMA KidQuery ==
  ASSUME NEW a, IsAgent(a), NEW k, NEW kid \in CpuKids(Keys, a, k)
  PROVE  kid.query = Append(a.query, k)
<1>1. CASE CpuLinkParent(Keys, a)
  <2>1. kid = [a EXCEPT !.query = Append(@, k)]
    BY <1>1 DEF CpuKids, CpuInLink
  <2>2. a = [query |-> a.query, pos |-> a.pos, node |-> a.node, keyBuf |-> a.keyBuf, logp |-> a.logp]
    BY DEF IsAgent, Scored
  <2> QED BY <2>1, <2>2
<1>2. CASE ~CpuLinkParent(Keys, a)
  <2> DEFINE found(c) == [query |-> Append(a.query, k), pos |-> a.pos + 1, node |-> c,
                          keyBuf |-> a.keyBuf \o SubSeq(c, Len(a.node) + 1, Len(c))]
  <2>1. kid \in CpuFindChild(Keys, a, k)
    BY <1>2 DEF CpuKids
  <2>2. PICK c \in ChildNodes(Keys, a.node) : kid = found(c)
    BY <2>1 DEF CpuFindChild
  <2> QED BY <2>2
<1> QED BY <1>1, <1>2

LEMMA KidReached ==
  ASSUME NEW a, IsAgent(a), NEW n \in Nat, Reached(a, n), NEW k \in Token,
         NEW kid \in CpuKids(Keys, a, k), NEW logp \in Int
  PROVE  Reached(Scored(kid, logp), n + 1)
<1>1. kid.query = Append(a.query, k)
  BY KidQuery
<1> QED BY <1>1 DEF Reached, Scored

LEMMA QueueInit ==
  ASSUME Init
  PROVE  QueueInv
<1>1. NumOutpos \in Nat \ {0}
  BY CpuAssumption
<1>2. Reached(Root, 0)
  BY DEF Reached, Root, CpuRoot, Scored
<1>3. IsFiniteSet({})
  BY FS_EmptySet
<1>4. Best({}, {}, FinalBeam)
  BY BestOfNothing, FinalBeamType
<1> QED BY <1>1, <1>2, <1>3, <1>4 DEF Init, QueueInv

(* A push of one kid or of none.                                           *)
LEMMA BestPushedAll ==
  ASSUME NEW queue, NEW offered, NEW S, NEW max \in Nat \ {0}, NEW pushed,
         IsFiniteSet(offered), Best(queue, offered, max),
         \A b \in offered \cup S : Comparable(b), \A x, y \in S : x = y,
         pushed = IF S = {} THEN queue ELSE Pushed(queue, max, CHOOSE k \in S : TRUE)
  PROVE  /\ IsFiniteSet(offered \cup S) /\ Best(pushed, offered \cup S, max)
         /\ pushed \subseteq queue \cup S
<1>1. CASE S = {}
  <2>1. offered \cup S = offered /\ pushed = queue
    BY <1>1
  <2> QED BY <2>1
<1>2. CASE S # {}
  <2> DEFINE kid == CHOOSE k \in S : TRUE
  <2>1. kid \in S /\ S = {kid}
    BY <1>2
  <2>2. pushed = Pushed(queue, max, kid)
    BY <1>2
  <2> HIDE DEF kid
  <2>3. IsFiniteSet(offered \cup {kid})
    BY FS_AddElement
  <2>4. Best(Pushed(queue, max, kid), offered \cup {kid}, max)
    BY <2>1, BestPushed
  <2>5. Pushed(queue, max, kid) \subseteq queue \cup {kid}
    BY PushedSubset
  <2> QED BY <2>1, <2>2, <2>3, <2>4, <2>5
<1> QED BY <1>1, <1>2

LEMMA QueuePropose ==
  ASSUME CpuInv, QueueInv, Propose
  PROVE  QueueInv'
<1>1. PICK a \in parent :
       LET on       == OnOf(a, topk[outpos][index])
           complete == CompleteOf(a, topk[outpos][index])
           PushAll(queue, max, S) == IF S = {} THEN queue ELSE Pushed(queue, max, CHOOSE k \in S : TRUE)
       IN  /\ selected' = PushAll(selected, FinalBeam, complete)
           /\ next' = PushAll(next, BeamWidth[outpos], on)
           /\ met' = [met EXCEPT !.next = @ \cup on, !.selected = @ \cup complete]
  BY DEF Propose
<1> DEFINE proposal == topk[outpos][index]
           found    == CpuKids(Keys, a, proposal.token)
           kids     == KidsOf(a, proposal)
           on       == OnOf(a, proposal)
           complete == CompleteOf(a, proposal)
<1>2. /\ selected' = IF complete = {} THEN selected
                     ELSE Pushed(selected, FinalBeam, CHOOSE k \in complete : TRUE)
      /\ next' = IF on = {} THEN next
                 ELSE Pushed(next, BeamWidth[outpos], CHOOSE k \in on : TRUE)
      /\ met' = [met EXCEPT !.next = @ \cup on, !.selected = @ \cup complete]
  BY <1>1
<1>3. /\ pc = "expand" /\ outpos \in 0 .. NumOutpos - 1 /\ index \in 1 .. Len(topk[outpos])
      /\ UNCHANGED <<topk, pc, outpos, cur, parent>> /\ index' = index + 1
  <2>1. pc = "expand" /\ outpos \in 0 .. NumOutpos /\ outpos < NumOutpos
    BY DEF QueueInv, CpuInv, Propose
  <2>2. index \in Nat \ {0} /\ index <= Len(topk[outpos])
    BY DEF QueueInv, Propose
  <2>3. NumOutpos \in Nat \ {0} /\ Len(topk[outpos]) \in Nat
    <3>1. NumOutpos \in Nat \ {0}
      BY CpuAssumption
    <3>2. topk[outpos] \in Seq(Proposals[outpos])
      BY <2>1, <3>1, CpuAssumption DEF QueueInv
    <3> QED BY <3>1, <3>2
  <2> QED BY <2>1, <2>2, <2>3 DEF Propose
<1>4. proposal.token \in Token /\ proposal.logp \in Int
  <2>1. topk[outpos] \in Seq(Proposals[outpos]) /\ Proposals[outpos] \subseteq [token : Token, logp : Int]
    BY <1>3, CpuAssumption DEF QueueInv
  <2> QED BY <1>3, <2>1
<1>5. IsAgent(a) /\ Reached(a, outpos)
  BY DEF CpuInv, QueueInv
<1>6. NumOutpos \in Nat \ {0} /\ BeamWidth[outpos] \in Nat \ {0}
  BY <1>3, CpuAssumption
<1>7. \A x \in kids : Reached(x, outpos + 1) /\ Comparable(x)
  <2>1. SUFFICES ASSUME NEW kid \in found
                 PROVE  /\ Reached(Scored(kid, a.logp + proposal.logp), outpos + 1)
                        /\ Comparable(Scored(kid, a.logp + proposal.logp))
    BY DEF KidsOf
  <2> DEFINE logp == a.logp + proposal.logp
  <2>2. logp \in Int
    BY <1>4, <1>5 DEF Reached
  <2>3. outpos \in Nat /\ outpos + 1 \in 0 .. NumOutpos
    BY <1>3, <1>6
  <2>4. IsAgent(Scored(kid, logp))
    BY <1>5, <2>1, KidIsAgent
  <2> HIDE DEF logp
  <2>5. Reached(Scored(kid, logp), outpos + 1)
    BY <1>4, <1>5, <2>1, <2>2, <2>3, KidReached
  <2>6. Comparable(Scored(kid, logp))
    BY <2>3, <2>4, <2>5, ReachedComparable
  <2> QED BY <2>5, <2>6 DEF logp
<1>8. \A x, y \in kids : x = y
  <2>1. a.node \in Seq(Token) /\ Keys \in SUBSET Seq(Token)
    BY <1>5, CpuAssumption DEF IsAgent
  <2>2. \A x, y \in found : x = y
    BY <2>1, OneCpuKid
  <2> QED BY <2>2 DEF KidsOf
<1>9. /\ IsMet(met) /\ met'.next = met.next \cup on /\ met'.selected = met.selected \cup complete
  BY <1>2 DEF CpuInv, IsMet
<1> HIDE DEF found, kids
<1>10. on \subseteq kids /\ complete \subseteq kids
  BY DEF OnOf, CompleteOf, kids
<1> HIDE DEF on, complete
<1>11. /\ IsFiniteSet(met'.next) /\ Best(next', met'.next, BeamWidth[outpos])
       /\ \A b \in met'.next : Comparable(b)
       /\ next' \subseteq next \cup on
  <2>1. IsFiniteSet(met.next) /\ Best(next, met.next, BeamWidth[outpos])
    BY <1>3 DEF QueueInv
  <2>2. \A b \in met.next \cup on : Comparable(b)
    BY <1>7, <1>10 DEF QueueInv
  <2>3. \A x, y \in on : x = y
    BY <1>8, <1>10
  <2> DEFINE width == BeamWidth[outpos]
  <2>4. next' = IF on = {} THEN next ELSE Pushed(next, width, CHOOSE k \in on : TRUE)
    BY <1>2
  <2>5. width \in Nat \ {0} /\ Best(next, met.next, width)
    BY <1>6, <2>1
  <2> HIDE DEF width
  <2>6. /\ IsFiniteSet(met.next \cup on) /\ Best(next', met.next \cup on, width)
        /\ next' \subseteq next \cup on
    BY <2>1, <2>2, <2>3, <2>4, <2>5, BestPushedAll
  <2> QED BY <1>9, <2>2, <2>6 DEF width
<1>12. /\ IsFiniteSet(met'.selected) /\ Best(selected', met'.selected, FinalBeam)
       /\ \A b \in met'.selected : Comparable(b)
  <2>1. IsFiniteSet(met.selected) /\ Best(selected, met.selected, FinalBeam)
    BY <1>3 DEF QueueInv
  <2>2. \A b \in met.selected \cup complete : Comparable(b)
    BY <1>7, <1>10 DEF QueueInv
  <2>3. \A x, y \in complete : x = y
    BY <1>8, <1>10
  <2>4. selected' = IF complete = {} THEN selected
                    ELSE Pushed(selected, FinalBeam, CHOOSE k \in complete : TRUE)
    BY <1>2
  <2>5. FinalBeam \in Nat \ {0}
    BY FinalBeamType
  <2>6. IsFiniteSet(met.selected \cup complete) /\ Best(selected', met.selected \cup complete, FinalBeam)
    BY <2>1, <2>2, <2>3, <2>4, <2>5, BestPushedAll
  <2> QED BY <1>9, <2>2, <2>6
<1>13. \A x \in next' : Reached(x, outpos + 1)
  BY <1>7, <1>10, <1>11 DEF QueueInv
<1>14. index' \in Nat \ {0}
  BY <1>3
<1> QED BY <1>3, <1>11, <1>12, <1>13, <1>14 DEF QueueInv

LEMMA QueueStep ==
  ASSUME CpuInv, QueueInv, [Next]_vars
  PROVE  QueueInv'
<1>1. CASE LoopHead
  <2>1. CASE pc' = "done"
    BY <1>1, <2>1 DEF LoopHead, QueueInv
  <2>2. CASE pc' # "done"
    <3>1. /\ pc = "head" /\ outpos # NumOutpos /\ pc' = "expand"
          /\ UNCHANGED <<topk, outpos, cur, next, selected, parent, index, met>>
      BY <1>1, <2>2 DEF LoopHead
    <3>2. outpos \in 0 .. NumOutpos - 1 /\ outpos < NumOutpos
      BY <3>1, CpuAssumption DEF QueueInv
    <3>3. Best(next, met.next, BeamWidth[outpos])
      BY <3>1, <3>2, BestOfNothing, CpuAssumption DEF QueueInv
    <3> QED BY <3>1, <3>2, <3>3 DEF QueueInv
  <2> QED BY <2>1, <2>2
<1>2. CASE PopParent
  BY <1>2 DEF PopParent, QueueInv
<1>3. CASE Propose
  BY <1>3, QueuePropose
<1>4. CASE EndParent
  BY <1>4 DEF EndParent, QueueInv
<1>5. CASE EndPosition
  <2>1. met'.selected = met.selected /\ met'.next = {} /\ IsFiniteSet(met'.next)
    BY <1>5, FS_EmptySet DEF EndPosition, CpuInv, IsMet
  <2>2. outpos' = outpos + 1 /\ outpos' \in 0 .. NumOutpos
    BY <1>5, CpuAssumption DEF EndPosition, QueueInv
  <2> QED BY <1>5, <2>1, <2>2 DEF EndPosition, QueueInv
<1>6. CASE UNCHANGED vars
  BY <1>6 DEF vars, QueueInv
<1> QED BY <1>1, <1>2, <1>3, <1>4, <1>5, <1>6 DEF Next

(* Whatever the trie, the proposals, their order and the limits, after     *)
(* every proposal Candidates::push has left in either queue the best of    *)
(* what it was offered, as many as it may hold.                            *)
THEOREM QueuesBest == Spec => []QueuesKeepBest
<1>1. Init => CpuInv /\ QueueInv
  BY CpuInit, QueueInit
<1>2. CpuInv /\ QueueInv /\ [Next]_vars => CpuInv' /\ QueueInv'
  BY CpuStep, QueueStep
<1>3. QueueInv => QueuesKeepBest
  BY DEF QueueInv, QueuesKeepBest
<1> QED BY <1>1, <1>2, <1>3, PTL DEF Spec

-----------------------------------------------------------------------------
(* What a proposal makes of an agent that has been given n tokens.         *)
LEMMA KidFacts ==
  ASSUME NEW n \in 0 .. NumOutpos - 1, NEW a, IsAgent(a), Reached(a, n), NEW x \in Proposals[n]
  PROVE  /\ x.token \in Token
         /\ \A kid \in KidsOf(a, x) : Reached(kid, n + 1) /\ Comparable(kid)
                                      /\ kid.query = Append(a.query, x.token)
         /\ \A kid, other \in KidsOf(a, x) : kid = other
<1>1. NumOutpos \in Nat \ {0} /\ n \in Nat /\ n + 1 \in 0 .. NumOutpos
  BY CpuAssumption
<1>2. x.token \in Token /\ x.logp \in Int
  BY CpuAssumption
<1> DEFINE logp == a.logp + x.logp
           found == CpuKids(Keys, a, x.token)
<1>3. logp \in Int
  BY <1>2 DEF Reached
<1> HIDE DEF logp
<1>4. ASSUME NEW kid \in found
      PROVE  LET k == Scored(kid, logp)
             IN  Reached(k, n + 1) /\ Comparable(k) /\ k.query = Append(a.query, x.token)
  <2>1. IsAgent(Scored(kid, logp))
    BY <1>4, KidIsAgent
  <2>2. Reached(Scored(kid, logp), n + 1)
    BY <1>1, <1>2, <1>3, <1>4, KidReached
  <2>3. Comparable(Scored(kid, logp))
    BY <1>1, <2>1, <2>2, ReachedComparable
  <2>4. kid.query = Append(a.query, x.token)
    BY <1>4, KidQuery
  <2> QED BY <2>2, <2>3, <2>4 DEF Scored
<1>5. \A k, l \in found : k = l
  <2>1. a.node \in Seq(Token) /\ Keys \in SUBSET Seq(Token)
    BY CpuAssumption DEF IsAgent
  <2> QED BY <2>1, OneCpuKid
<1> HIDE DEF found
<1>6. KidsOf(a, x) = {} \/ KidsOf(a, x) = {Scored(kid, logp) : kid \in found}
  BY DEF KidsOf, found, logp
<1> QED BY <1>2, <1>4, <1>5, <1>6

(* The proposals that are still to be tried with an agent.                 *)
Rest(n, i) == {topk[n][j] : j \in i .. Len(topk[n])}

LEMMA RestIs ==
  ASSUME topk \in Orders, NEW n \in 0 .. NumOutpos - 1
  PROVE  /\ topk[n] \in Seq(Proposals[n])
         /\ Rest(n, 1) = Proposals[n]
         /\ \A i \in Nat \ {0} :
              /\ Rest(n, i) \subseteq Proposals[n]
              /\ i <= Len(topk[n]) => Rest(n, i) = Rest(n, i + 1) \cup {topk[n][i]}
              /\ i > Len(topk[n]) => Rest(n, i) = {}
<1>1. topk[n] \in Seq(Proposals[n]) /\ ToSet(topk[n]) = Proposals[n]
  BY CpuAssumption
<1>2. Rest(n, 1) = Proposals[n]
  BY <1>1 DEF Rest, ToSet
<1>3. ASSUME NEW i \in Nat \ {0}
      PROVE  /\ Rest(n, i) \subseteq Proposals[n]
             /\ i <= Len(topk[n]) => Rest(n, i) = Rest(n, i + 1) \cup {topk[n][i]}
             /\ i > Len(topk[n]) => Rest(n, i) = {}
  <2>1. Len(topk[n]) \in Nat /\ DOMAIN topk[n] = 1 .. Len(topk[n])
    BY <1>1
  <2>2. i .. Len(topk[n]) \subseteq DOMAIN topk[n]
    BY <2>1
  <2>3. i <= Len(topk[n]) => i .. Len(topk[n]) = ((i + 1) .. Len(topk[n])) \cup {i}
    BY <2>1
  <2>4. i > Len(topk[n]) => i .. Len(topk[n]) = {}
    BY <2>1
  <2>5. Rest(n, i) \subseteq Proposals[n]
    BY <1>1, <2>1, <2>2 DEF Rest
  <2>6. i <= Len(topk[n]) => Rest(n, i) = Rest(n, i + 1) \cup {topk[n][i]}
    BY <2>3 DEF Rest
  <2>7. i > Len(topk[n]) => Rest(n, i) = {}
    BY <2>4 DEF Rest
  <2> QED BY <2>5, <2>6, <2>7
<1> QED BY <1>1, <1>2, <1>3

LEMMA OneAppend ==
  ASSUME NEW S, NEW s \in Seq(S), NEW t \in Seq(S), NEW k \in S, NEW l \in S, Append(s, k) = Append(t, l)
  PROVE  s = t /\ k = l
<1>1. Len(s) = Len(t) /\ k = l
  BY Len(Append(s, k)) = Len(s) + 1, Len(Append(t, l)) = Len(t) + 1,
     Append(s, k)[Len(s) + 1] = k, Append(t, l)[Len(t) + 1] = l
<1>2. \A i \in 1 .. Len(s) : s[i] = t[i]
  BY <1>1, \A i \in 1 .. Len(s) : Append(s, k)[i] = s[i], \A i \in 1 .. Len(t) : Append(t, l)[i] = t[i]
<1> QED BY <1>1, <1>2, SeqEqual

-----------------------------------------------------------------------------
(* Agents of one queue have decoded different tokens.                      *)
Apart(S) == \A a, b \in S : a.query = b.query => a = b

(* What the search has met, and what is still to come, has queries of its  *)
(* own: a child never has the query of one that was there.                 *)
AscInv ==
  /\ \A a, b \in parent : a = b
  /\ Apart(cur \cup parent) /\ cur \cap parent = {}
  /\ Apart(met.selected)
  /\ pc # "done" =>
       /\ Apart(met.next)
       /\ \A x \in met.selected :
            x.query \in Seq(Token) /\ Len(x.query) <= IF pc = "head" THEN outpos ELSE outpos + 1
  /\ pc = "expand" =>
       \A x \in met.next \cup met.selected, k \in Token :
         /\ \A a \in cur : x.query # Append(a.query, k)
         /\ \A a \in parent :
              x.query = Append(a.query, k) => \E j \in 1 .. index - 1 : k = topk[outpos][j].token
  /\ pc = "done" =>
       \E n \in Nat : \E order \in [1 .. n -> met.selected] :
         /\ sentences = [i \in 1 .. n |-> order[i].query]
         /\ \A i \in 1 .. n - 1 : LogpNorm(order[i]) <= LogpNorm(order[i + 1])

LEMMA AscInit ==
  ASSUME Init
  PROVE  AscInv
BY DEF Init, AscInv, Apart

LEMMA AscPropose ==
  ASSUME OneEach, CpuInv, QueueInv, AscInv, Propose
  PROVE  AscInv'
<1> DEFINE x == topk[outpos][index]
<1>1. PICK a \in parent :
        /\ met' = [met EXCEPT !.next = @ \cup OnOf(a, x), !.selected = @ \cup CompleteOf(a, x)]
  BY DEF Propose
<1>2. /\ pc = "expand" /\ outpos \in 0 .. NumOutpos - 1 /\ outpos \in Nat /\ index \in Nat \ {0}
      /\ index <= Len(topk[outpos]) /\ topk \in Orders
      /\ UNCHANGED <<topk, pc, outpos, cur, parent>> /\ index' = index + 1
  BY CpuAssumption DEF CpuInv, QueueInv, Propose
<1>3. topk[outpos] \in Seq(Proposals[outpos]) /\ x \in Proposals[outpos]
      /\ index \in 1 .. Len(topk[outpos])
  BY <1>2, RestIs
<1>4. IsAgent(a) /\ Reached(a, outpos) /\ a.query \in Seq(Token)
  BY DEF CpuInv, QueueInv, Reached
<1> HIDE DEF x
<1> DEFINE q == Append(a.query, x.token)
<1>5. /\ x.token \in Token
      /\ \A kid \in KidsOf(a, x) : kid.query = q /\ Reached(kid, outpos + 1)
      /\ \A kid, other \in KidsOf(a, x) : kid = other
  BY <1>2, <1>3, <1>4, KidFacts
<1> DEFINE old == met.next \cup met.selected
<1>6. \A y \in old : y.query # q
  <2>1. SUFFICES ASSUME NEW y \in old, y.query = q PROVE FALSE
    OBVIOUS
  <2>2. PICK j \in 1 .. index - 1 : x.token = topk[outpos][j].token
    BY <1>2, <1>5, <2>1 DEF AscInv
  <2>3. j \in 1 .. Len(topk[outpos]) /\ j # index
    BY <1>2, <1>3
  <2> QED BY <1>2, <1>3, <2>2, <2>3 DEF OneEach, x
<1>7. /\ IsMet(met) /\ met'.next = met.next \cup OnOf(a, x)
      /\ met'.selected = met.selected \cup CompleteOf(a, x)
      /\ OnOf(a, x) \subseteq KidsOf(a, x) /\ CompleteOf(a, x) \subseteq KidsOf(a, x)
  BY <1>1 DEF CpuInv, IsMet, OnOf, CompleteOf
<1>8. Apart(met'.next) /\ Apart(met'.selected)
  BY <1>2, <1>5, <1>6, <1>7 DEF AscInv, Apart
<1>9. \A y \in met'.selected : y.query \in Seq(Token) /\ Len(y.query) <= outpos + 1
  <2>1. ASSUME NEW y \in CompleteOf(a, x) PROVE y.query \in Seq(Token) /\ Len(y.query) <= outpos + 1
    BY <1>2, <1>5, <1>7 DEF Reached
  <2> QED BY <1>2, <1>7, <2>1 DEF AscInv
<1>10. ASSUME NEW y \in met'.next \cup met'.selected, NEW k \in Token
       PROVE  /\ \A b \in cur : y.query # Append(b.query, k)
              /\ \A b \in parent :
                   y.query = Append(b.query, k) => \E j \in 1 .. index : k = topk[outpos][j].token
  <2>1. CASE y \in old
    <3>1. \A b \in cur : y.query # Append(b.query, k)
      BY <1>2, <2>1 DEF AscInv
    <3>2. ASSUME NEW b \in parent, y.query = Append(b.query, k)
          PROVE  \E j \in 1 .. index : k = topk[outpos][j].token
      <4>1. PICK j \in 1 .. index - 1 : k = topk[outpos][j].token
        BY <1>2, <2>1, <3>2 DEF AscInv
      <4>2. j \in 1 .. index
        BY <1>2
      <4> QED BY <4>1, <4>2
    <3> QED BY <3>1, <3>2
  <2>2. CASE y \in KidsOf(a, x)
    <3>1. y.query = q
      BY <1>5, <2>2
    <3>2. ASSUME NEW b \in cur \cup parent, y.query = Append(b.query, k)
          PROVE  b.query = a.query /\ k = x.token
      <4>1. b.query \in Seq(Token)
        BY <3>2 DEF QueueInv, Reached
      <4>2. Append(b.query, k) = Append(a.query, x.token)
        BY <3>1, <3>2
      <4>3. a.query \in Seq(Token) /\ x.token \in Token
        BY <1>4, <1>5
      <4> HIDE DEF q
      <4> QED BY <4>1, <4>2, <4>3, OneAppend
    <3>3. \A b \in cur : b.query # a.query
      BY DEF AscInv, Apart
    <3>4. index \in 1 .. index
      BY <1>2
    <3> QED BY <3>2, <3>3, <3>4 DEF x
  <2> QED BY <1>7, <2>1, <2>2
<1>11. index' - 1 = index
  BY <1>2
<1>12. \A y \in met'.next \cup met'.selected, k \in Token :
         /\ \A b \in cur' : y.query # Append(b.query, k)
         /\ \A b \in parent' :
              y.query = Append(b.query, k) => \E j \in 1 .. index' - 1 : k = topk'[outpos'][j].token
  BY <1>2, <1>10, <1>11
<1>13. (\A b, c \in parent : b = c)' /\ Apart(cur \cup parent)' /\ (cur \cap parent = {})'
  BY <1>2 DEF AscInv, Apart
<1>14. pc' = "expand" /\ outpos' + 1 = outpos + 1
  BY <1>2
<1> QED BY <1>8, <1>9, <1>12, <1>13, <1>14 DEF AscInv

LEMMA EmptyingsAscend ==
  ASSUME CpuInv, QueueInv, pc = "head", NEW order \in Emptyings(selected)
  PROVE  \E n \in Nat :
           /\ order \in [1 .. n -> met.selected]
           /\ \A i \in 1 .. n - 1 : LogpNorm(order[i]) <= LogpNorm(order[i + 1])
<1>1. selected \subseteq met.selected /\ IsFiniteSet(selected)
  BY FS_Subset DEF QueueInv, Best
<1> DEFINE n == Cardinality(selected)
<1>2. n \in Nat
  BY <1>1, FS_CardinalityType
<1> HIDE DEF n
<1>3. /\ order \in [1 .. n -> selected] /\ IsInjective(order)
      /\ \A i \in DOMAIN order : IsTop({order[j] : j \in i .. Len(order)}, order[i])
  BY DEF Emptyings, n
<1>4. DOMAIN order = 1 .. n /\ Len(order) = n
  BY <1>2, <1>3
<1>5. order \in [1 .. n -> met.selected]
  BY <1>1, <1>3
<1>6. ASSUME NEW i \in 1 .. n - 1 PROVE LogpNorm(order[i]) <= LogpNorm(order[i + 1])
  <2>1. i \in 1 .. n /\ i + 1 \in 1 .. n /\ i + 1 \in i .. n /\ i # i + 1
    BY <1>2
  <2>2. order[i + 1] # order[i]
    BY <1>3, <1>4, <2>1 DEF IsInjective
  <2>3. order[i + 1] \in {order[j] : j \in i .. Len(order)} \ {order[i]}
    BY <1>4, <2>1, <2>2
  <2>4. \/ LogpNorm(order[i]) < LogpNorm(order[i + 1])
        \/ LogpNorm(order[i]) = LogpNorm(order[i + 1])
    BY <1>3, <1>4, <2>1, <2>3 DEF IsTop
  <2>5. LogpNorm(order[i]) \in Int /\ LogpNorm(order[i + 1]) \in Int
    BY <1>4, <1>5, <2>1 DEF QueueInv, Comparable
  <2> QED BY <2>4, <2>5
<1> QED BY <1>2, <1>5, <1>6

LEMMA AscStep ==
  ASSUME OneEach, CpuInv, QueueInv, AscInv, [Next]_vars
  PROVE  AscInv'
<1>1. CASE LoopHead /\ pc' = "done"
  <2>1. /\ pc = "head" /\ UNCHANGED <<cur, parent, met>>
        /\ \E order \in Emptyings(selected) : sentences' = [i \in DOMAIN order |-> order[i].query]
    BY <1>1 DEF LoopHead
  <2>2. PICK order \in Emptyings(selected) : sentences' = [i \in DOMAIN order |-> order[i].query]
    BY <2>1
  <2>3. PICK n \in Nat :
          /\ order \in [1 .. n -> met.selected]
          /\ \A i \in 1 .. n - 1 : LogpNorm(order[i]) <= LogpNorm(order[i + 1])
    BY <2>1, <2>2, EmptyingsAscend
  <2>4. /\ n \in Nat /\ order \in [1 .. n -> met'.selected]
        /\ sentences' = [i \in 1 .. n |-> order[i].query]
        /\ \A i \in 1 .. n - 1 : LogpNorm(order[i])' <= LogpNorm(order[i + 1])'
    BY <2>1, <2>2, <2>3 DEF LogpNorm
  <2>5. Apart(cur \cup parent)' /\ (cur \cap parent = {})' /\ Apart(met.selected)'
        /\ (\A a, b \in parent : a = b)'
    BY <2>1 DEF AscInv, Apart
  <2> QED BY <1>1, <2>4, <2>5 DEF AscInv
<1>2. CASE LoopHead /\ pc' # "done"
  <2>1. /\ pc = "head" /\ pc' = "expand" /\ UNCHANGED <<topk, outpos, cur, parent, index, met, sentences>>
    BY <1>2 DEF LoopHead
  <2>2. outpos \in Nat /\ met.next = {} /\ parent = {}
    BY <2>1, CpuAssumption DEF QueueInv, CpuInv
  <2>3. ASSUME NEW y \in met.selected, NEW k \in Token, NEW a \in cur PROVE y.query # Append(a.query, k)
    <3>1. a.query \in Seq(Token) /\ Len(a.query) = outpos /\ Len(y.query) <= outpos
      BY <2>1 DEF QueueInv, Reached, AscInv
    <3>2. Len(Append(a.query, k)) = outpos + 1
      BY <3>1
    <3> QED BY <2>2, <3>1, <3>2
  <2>4. \A y \in met.selected : y.query \in Seq(Token) /\ Len(y.query) <= outpos + 1
    <3>1. SUFFICES ASSUME NEW y \in met.selected PROVE y.query \in Seq(Token) /\ Len(y.query) <= outpos + 1
      OBVIOUS
    <3>2. y.query \in Seq(Token) /\ Len(y.query) <= outpos /\ Len(y.query) \in Nat
      BY <2>1 DEF AscInv
    <3> QED BY <2>2, <3>2
  <2>5. Apart(cur \cup parent)' /\ (cur \cap parent = {})' /\ Apart(met.selected)' /\ Apart(met.next)'
        /\ (\A a, b \in parent : a = b)'
    BY <2>1, <2>2 DEF AscInv, Apart
  <2> QED BY <2>1, <2>2, <2>3, <2>4, <2>5 DEF AscInv
<1>3. CASE PopParent
  <2>1. PICK a \in cur : parent' = {a} /\ cur' = cur \ {a}
    BY <1>3 DEF PopParent
  <2>2. /\ pc = "expand" /\ parent = {} /\ UNCHANGED <<topk, pc, outpos, met, sentences>>
    BY <1>3 DEF PopParent
  <2>3. \A y \in met.next \cup met.selected, k \in Token : \A b \in cur : y.query # Append(b.query, k)
    BY <2>2 DEF AscInv
  <2> QED BY <2>1, <2>2, <2>3 DEF AscInv, Apart
<1>4. CASE Propose
  BY <1>4, AscPropose
<1>5. CASE EndParent
  <2>1. /\ parent' = {} /\ UNCHANGED <<topk, pc, outpos, cur, met, index, sentences>> /\ pc # "done"
    BY <1>5 DEF EndParent, CpuInv
  <2> QED BY <2>1 DEF AscInv, Apart
<1>6. CASE EndPosition
  <2>1. /\ pc = "expand" /\ parent' = {} /\ parent = {} /\ cur' = next /\ outpos' = outpos + 1 /\ pc' = "head"
        /\ met'.selected = met.selected /\ met'.next = {} /\ outpos \in Nat
    BY <1>6, CpuAssumption DEF EndPosition, CpuInv, IsMet, QueueInv
  <2>2. next \subseteq met.next
    BY <2>1 DEF QueueInv, Best
  <2> QED BY <2>1, <2>2 DEF AscInv, Apart
<1>7. CASE UNCHANGED vars
  <2>1. UNCHANGED <<topk, pc, outpos, cur, parent, index, sentences, met>>
    BY <1>7 DEF vars
  <2>2. /\ Apart(cur \cup parent)' /\ Apart(met.selected)' /\ (pc # "done" => Apart(met.next))'
        /\ (\A a, b \in parent : a = b)' /\ (cur \cap parent = {})'
    BY <2>1 DEF AscInv, Apart
  <2>3. (pc = "done" =>
           \E n \in Nat : \E order \in [1 .. n -> met.selected] :
             /\ sentences = [i \in 1 .. n |-> order[i].query]
             /\ \A i \in 1 .. n - 1 : LogpNorm(order[i]) <= LogpNorm(order[i + 1]))'
    BY <2>1 DEF AscInv, LogpNorm
  <2> QED BY <2>1, <2>2, <2>3 DEF AscInv
<1>8. LoopHead \/ PopParent \/ Propose \/ EndParent \/ EndPosition \/ UNCHANGED vars
  BY DEF Next
<1> QED BY <1>1, <1>2, <1>3, <1>4, <1>5, <1>6, <1>7, <1>8

(* As long as no list of proposals has a token twice, the search answers in*)
(* ascending order of score, whatever the trie, the limits and the widths: *)
(* the order in which copy_output_to_cpu returns what the kernel found.    *)
THEOREM AnswerAscends ==
  ASSUME OneEach
  PROVE  Spec => []Ascending
<1>1. Init => CpuInv /\ QueueInv /\ AscInv
  BY CpuInit, QueueInit, AscInit
<1>2. CpuInv /\ QueueInv /\ AscInv /\ [Next]_vars => CpuInv' /\ QueueInv' /\ AscInv'
  BY CpuStep, QueueStep, AscStep
<1>3. AscInv => Ascending
  <2> DEFINE norm(q) == LogpNorm(CHOOSE a \in met.selected : a.query = q)
  <2>1. SUFFICES ASSUME AscInv, pc = "done", NEW i \in 1 .. Len(sentences) - 1
                 PROVE  norm(sentences[i]) <= norm(sentences[i + 1])
    BY DEF Ascending
  <2>2. PICK n \in Nat : \E order \in [1 .. n -> met.selected] :
          /\ sentences = [j \in 1 .. n |-> order[j].query]
          /\ \A j \in 1 .. n - 1 : LogpNorm(order[j]) <= LogpNorm(order[j + 1])
    BY <2>1 DEF AscInv
  <2>3. PICK order \in [1 .. n -> met.selected] :
          /\ sentences = [j \in 1 .. n |-> order[j].query]
          /\ \A j \in 1 .. n - 1 : LogpNorm(order[j]) <= LogpNorm(order[j + 1])
    BY <2>2
  <2>4. ASSUME NEW a \in met.selected PROVE norm(a.query) = LogpNorm(a)
    <3>1. a = CHOOSE b \in met.selected : b.query = a.query
      BY <2>1 DEF AscInv, Apart
    <3> QED BY <3>1
  <2>5. /\ i \in 1 .. n - 1 /\ i \in 1 .. n /\ i + 1 \in 1 .. n
        /\ sentences[i] = order[i].query /\ sentences[i + 1] = order[i + 1].query
    <3>1. Len(sentences) = n
      BY <2>3
    <3> QED BY <2>1, <2>3, <3>1
  <2>6. norm(sentences[i]) = LogpNorm(order[i]) /\ norm(sentences[i + 1]) = LogpNorm(order[i + 1])
    BY <2>3, <2>4, <2>5
  <2> HIDE DEF norm
  <2> QED BY <2>3, <2>5, <2>6
<1> QED BY <1>1, <1>2, <1>3, PTL DEF Spec

-----------------------------------------------------------------------------
(* The abstract search.                                                    *)
Open == {<< >>} \cup ToNext
KidPaths(F) == UNION {Search!Children(p) : p \in F}

(* The children that some proposals make of an agent, and those that the   *)
(* agents of this position have still to yield.                            *)
OnFrom(a, S) == UNION {OnOf(a, x) : x \in S}
CompleteFrom(a, S) == UNION {CompleteOf(a, x) : x \in S}

AllOn(S, n) == UNION {OnFrom(a, Proposals[n]) : a \in S}
AllComplete(S, n) == UNION {CompleteFrom(a, Proposals[n]) : a \in S}

(* The agents that some paths stand for.                                   *)
AgentsOf(f, K) == {f[q] : q \in K}

StillOn ==
  UNION ({OnFrom(a, Proposals[outpos]) : a \in cur} \cup {OnFrom(a, Rest(outpos, index)) : a \in parent})

StillComplete ==
  UNION (  {CompleteFrom(a, Proposals[outpos]) : a \in cur}
    \cup {CompleteFrom(a, Rest(outpos, index)) : a \in parent})

(* What was met and what is still to come are the children of the frontier.*)
SimInv(agent, final) ==
  ~earlyExit /\ pc # "done" =>
    /\ \A a, b \in parent : a = b
    /\ \A p \in met.frontier : p \in Open /\ Len(p) = outpos
    /\ \A a \in met.selected : a.query \in ToSelected /\ a = final[a.query]
    /\ pc = "head" => /\ cur = {agent[p] : p \in met.frontier}
                      /\ parent = {} /\ met.before = met.selected
    /\ pc = "expand" =>
         /\ met.frontier # {} /\ met.before \subseteq met.selected
         /\ cur \cup parent \subseteq {agent[p] : p \in met.frontier}
         /\ met.next \cup StillOn = {agent[q] : q \in KidPaths(met.frontier) \cap ToNext}
         /\ met.selected \cup StillComplete
              = met.before \cup {final[q] : q \in KidPaths(met.frontier) \cap ToSelected}

(* The children of the frontier in the trie are those of its paths.        *)
LEMMA KidsCharted ==
  ASSUME NEW agent, NEW final, Charted(agent, final), NEW n \in 0 .. NumOutpos - 1,
         NEW F, \A p \in F : p \in Open /\ Len(p) = n
  PROVE  /\ AllOn(AgentsOf(agent, F), n) = AgentsOf(agent, KidPaths(F) \cap ToNext)
         /\ AllComplete(AgentsOf(agent, F), n) = AgentsOf(final, KidPaths(F) \cap ToSelected)
<1>1. n < NumOutpos
  BY CpuAssumption
<1>2. ASSUME NEW p \in F
      PROVE  /\ OnFrom(agent[p], Proposals[n]) = {agent[q] : q \in Search!Children(p) \cap ToNext}
             /\ CompleteFrom(agent[p], Proposals[n])
                  = {final[q] : q \in Search!Children(p) \cap ToSelected}
  BY <1>1, <1>2 DEF Charted, Open, OnFrom, CompleteFrom
<1>3. AllOn(AgentsOf(agent, F), n) = AgentsOf(agent, KidPaths(F) \cap ToNext)
  <2> DEFINE found(p) == {agent[q] : q \in Search!Children(p) \cap ToNext}
  <2>1. \A p \in F : OnFrom(agent[p], Proposals[n]) = found(p)
    BY <1>2
  <2>2. UNION {found(p) : p \in F} = AgentsOf(agent, KidPaths(F) \cap ToNext)
    BY DEF KidPaths, AgentsOf
  <2> HIDE DEF found
  <2>3. AllOn(AgentsOf(agent, F), n) = UNION {found(p) : p \in F}
    BY <2>1 DEF AllOn, AgentsOf
  <2> QED BY <2>2, <2>3
<1>4. AllComplete(AgentsOf(agent, F), n) = AgentsOf(final, KidPaths(F) \cap ToSelected)
  <2> DEFINE found(p) == {final[q] : q \in Search!Children(p) \cap ToSelected}
  <2>1. \A p \in F : CompleteFrom(agent[p], Proposals[n]) = found(p)
    BY <1>2
  <2>2. UNION {found(p) : p \in F} = AgentsOf(final, KidPaths(F) \cap ToSelected)
    BY DEF KidPaths, AgentsOf
  <2> HIDE DEF found
  <2>3. AllComplete(AgentsOf(agent, F), n) = UNION {found(p) : p \in F}
    BY <2>1 DEF AllComplete, AgentsOf
  <2> QED BY <2>2, <2>3
<1> QED BY <1>3, <1>4

(* The queue that is the best of the agents of some paths holds agents of  *)
(* best paths among them.                                                  *)
LEMMA BestPaths ==
  ASSUME NEW queue, NEW offered, NEW max \in Nat, IsFiniteSet(offered), Best(queue, offered, max),
         NEW K, NEW f, offered = {f[q] : q \in K},
         \A q \in K : f[q].query = q /\ Score[q] = LogpNorm(f[q])
  PROVE  Queries(queue) \in Search!BestOf(K, max)
<1>1. /\ queue \subseteq offered /\ IsFiniteSet(queue)
      /\ Cardinality(queue) = IF Cardinality(offered) < max THEN Cardinality(offered) ELSE max
      /\ \A a \in queue, b \in offered \ queue : LogpNorm(a) >= LogpNorm(b)
  BY FS_Subset DEF Best
<1>2. \A a \in offered : a.query \in K /\ f[a.query] = a
  OBVIOUS
<1>3. ASSUME NEW S \in SUBSET offered, IsFiniteSet(S)
      PROVE  IsFiniteSet(Queries(S)) /\ Cardinality(Queries(S)) = Cardinality(S)
  <2> DEFINE g == [a \in S |-> a.query]
  <2>1. g \in Bijection(S, Queries(S))
    <3>1. g \in [S -> Queries(S)]
      BY DEF Queries
    <3>2. \A a, b \in S : g[a] = g[b] => a = b
      BY <1>2
    <3>3. \A q \in Queries(S) : \E a \in S : g[a] = q
      BY DEF Queries
    <3> QED BY <3>1, <3>2, <3>3 DEF Bijection, Injection, Surjection, IsInjective
  <2>2. ExistsBijection(S, Queries(S))
    BY <2>1 DEF ExistsBijection
  <2> QED BY <1>3, <2>2, FS_Bijection
<1>4. Queries(offered) = K
  BY <1>2 DEF Queries
<1>5. Cardinality(K) = Cardinality(offered) /\ Cardinality(Queries(queue)) = Cardinality(queue)
  BY <1>1, <1>3, <1>4
<1>6. Queries(queue) \subseteq K
  BY <1>1, <1>2 DEF Queries
<1>7. ASSUME NEW t \in Queries(queue), NEW s \in K \ Queries(queue)
      PROVE  Score[t] >= Score[s]
  <2>1. PICK a \in queue : t = a.query
    BY DEF Queries
  <2>2. f[s] \in offered \ queue
    BY <1>7 DEF Queries
  <2>3. Score[t] = LogpNorm(a) /\ Score[s] = LogpNorm(f[s])
    BY <1>1, <1>2, <1>7, <2>1
  <2> QED BY <1>1, <2>1, <2>2, <2>3
<1> QED BY <1>1, <1>5, <1>6, <1>7 DEF Search!BestOf, Search!Cardinality, Cardinality

LEMMA SimInit ==
  ASSUME NEW agent, NEW final, Charted(agent, final), Init
  PROVE  SimInv(agent, final)
<1>1. /\ pc = "head" /\ outpos = 0 /\ cur = {Root} /\ parent = {} /\ met.frontier = {<< >>}
      /\ met.selected = {} /\ met.before = {}
  BY DEF Init
<1>2. << >> \in Open /\ Len(<< >>) = 0 /\ agent[<< >>] = Root
  BY DEF Open, Charted
<1> QED BY <1>1, <1>2 DEF SimInv

LEMMA SimPropose ==
  ASSUME NEW agent, NEW final, Charted(agent, final), CpuInv, QueueInv, SimInv(agent, final), Propose
  PROVE  SimInv(agent, final)'
<1> DEFINE x == topk[outpos][index]
<1>1. PICK a \in parent :
        met' = [met EXCEPT !.next = @ \cup OnOf(a, x), !.selected = @ \cup CompleteOf(a, x)]
  BY DEF Propose
<1>2. /\ pc = "expand" /\ outpos \in 0 .. NumOutpos - 1 /\ index \in Nat \ {0}
      /\ index <= Len(topk[outpos]) /\ topk \in Orders
      /\ UNCHANGED <<topk, earlyExit, pc, outpos, cur, parent>> /\ index' = index + 1
  BY CpuAssumption DEF CpuInv, QueueInv, Propose
<1>3. Rest(outpos, index) = Rest(outpos, index') \cup {x}
  BY <1>2, RestIs
<1> HIDE DEF x
<1>4. SUFFICES ASSUME ~earlyExit PROVE SimInv(agent, final)'
  BY <1>2 DEF SimInv
<1>5. parent = {a}
  BY <1>2, <1>4 DEF SimInv
<1>6. /\ met'.next = met.next \cup OnOf(a, x) /\ met'.selected = met.selected \cup CompleteOf(a, x)
      /\ met'.frontier = met.frontier /\ met'.before = met.before
  BY <1>1 DEF CpuInv, IsMet
<1>7. \A i : Rest(outpos, i)' = Rest(outpos, i)
  BY <1>2 DEF Rest
<1> DEFINE rest == Rest(outpos, index)
           left == Rest(outpos, index + 1)
<1>8. rest = left \cup {x} /\ Rest(outpos, index)' = left
  BY <1>2, <1>3 DEF Rest
<1>9. /\ OnFrom(a, rest) = OnOf(a, x) \cup OnFrom(a, left)
      /\ CompleteFrom(a, rest) = CompleteOf(a, x) \cup CompleteFrom(a, left)
  BY <1>8 DEF OnFrom, CompleteFrom
<1> HIDE DEF rest, left
<1>10. /\ StillOn = UNION ({OnFrom(b, Proposals[outpos]) : b \in cur} \cup {OnFrom(a, rest)})
       /\ StillComplete = UNION ({CompleteFrom(b, Proposals[outpos]) : b \in cur} \cup {CompleteFrom(a, rest)})
       /\ StillOn' = UNION ({OnFrom(b, Proposals[outpos]) : b \in cur} \cup {OnFrom(a, left)})
       /\ StillComplete' = UNION ({CompleteFrom(b, Proposals[outpos]) : b \in cur} \cup {CompleteFrom(a, left)})
  BY <1>2, <1>5, <1>8 DEF StillOn, StillComplete, rest
<1>11. StillOn = OnOf(a, x) \cup StillOn' /\ StillComplete = CompleteOf(a, x) \cup StillComplete'
  BY <1>9, <1>10
<1> DEFINE F == met.frontier
<1>12. /\ met.next \cup StillOn = {agent[q] : q \in KidPaths(F) \cap ToNext}
       /\ met.selected \cup StillComplete = met.before \cup {final[q] : q \in KidPaths(F) \cap ToSelected}
       /\ \A p \in F : p \in Open /\ Len(p) = outpos
       /\ \A b \in met.selected : b.query \in ToSelected /\ b = final[b.query]
       /\ F # {} /\ cur \cup parent \subseteq {agent[p] : p \in F} /\ met.before \subseteq met.selected
  BY <1>2, <1>4 DEF SimInv
<1>13. /\ met'.next \cup StillOn' = {agent[q] : q \in KidPaths(F) \cap ToNext}
       /\ met'.selected \cup StillComplete' = met.before \cup {final[q] : q \in KidPaths(F) \cap ToSelected}
  BY <1>6, <1>11, <1>12
<1>14. ASSUME NEW b \in CompleteOf(a, x) PROVE b.query \in ToSelected /\ b = final[b.query]
  <2>1. b \in met.before \cup {final[q] : q \in KidPaths(F) \cap ToSelected}
    BY <1>11, <1>12
  <2>2. CASE b \in {final[q] : q \in KidPaths(F) \cap ToSelected}
    BY <2>2 DEF Charted
  <2>3. CASE b \in met.before
    BY <1>12, <2>3
  <2> QED BY <2>1, <2>2, <2>3
<1>15. \A b \in met'.selected : b.query \in ToSelected /\ b = final[b.query]
  BY <1>6, <1>12, <1>14
<1> HIDE DEF F
<1>16. KidPaths(met.frontier)' = KidPaths(F) /\ met'.frontier = F /\ met'.before \subseteq met'.selected
  BY <1>6, <1>12 DEF KidPaths, F
<1> QED BY <1>2, <1>6, <1>12, <1>13, <1>15, <1>16 DEF SimInv

(* Every agent of a queue is given out when it is emptied.                 *)
LEMMA EmptyingsGiveAll ==
  ASSUME NEW queue, IsFiniteSet(queue), NEW order \in Emptyings(queue)
  PROVE  {order[i] : i \in DOMAIN order} = queue
<1> DEFINE n == Cardinality(queue)
<1>1. n \in Nat
  BY FS_CardinalityType
<1>2. order \in [1 .. n -> queue] /\ IsInjective(order)
  BY DEF Emptyings
<1> HIDE DEF n
<1>3. order \in Injection(1 .. n, queue)
  BY <1>2 DEF Injection, IsInjective
<1>4. Cardinality(1 .. n) = n
  BY <1>1, FS_Interval
<1>5. order \in Surjection(1 .. n, queue)
  BY <1>3, <1>4, FS_Injection DEF n
<1> QED BY <1>2, <1>5 DEF Surjection

(* A step in which none of the variables of the abstract search changes.   *)
LEMMA SimStutter ==
  ASSUME earlyExit' = earlyExit,
         earlyExit \/ /\ outpos' = outpos /\ met'.frontier = met.frontier /\ met'.before = met.before
                      /\ pc # "done" /\ pc' # "done"
  PROVE  UNCHANGED Search!vars
BY DEF Search!vars, Queries

LEMMA SimLoopHead ==
  ASSUME NEW agent, NEW final, Charted(agent, final), CpuInv, QueueInv, SimInv(agent, final),
         LoopHead, ~earlyExit
  PROVE  SimInv(agent, final)' /\ (Search!Finish \/ UNCHANGED Search!vars)
<1>1. /\ pc = "head" /\ UNCHANGED <<topk, earlyExit, outpos, cur, next, parent, index, met>>
      /\ parent = {} /\ met.before = met.selected /\ cur = {agent[p] : p \in met.frontier}
      /\ \A p \in met.frontier : p \in Open /\ Len(p) = outpos
      /\ \A a \in met.selected : a.query \in ToSelected /\ a = final[a.query]
  BY DEF LoopHead, SimInv
<1>2. CASE pc' = "done"
  <2>1. outpos = NumOutpos \/ cur = {}
    BY <1>2 DEF LoopHead, Enough
  <2>2. PICK order \in Emptyings(selected) : sentences' = [i \in DOMAIN order |-> order[i].query]
    BY <1>2 DEF LoopHead
  <2>3. /\ IsFiniteSet(met.selected) /\ Best(selected, met.selected, FinalBeam)
        /\ selected \subseteq met.selected /\ IsFiniteSet(selected)
    BY <1>1, FS_Subset DEF QueueInv, Best
  <2>4. ToSet(sentences') = Queries(selected)
    <3>1. {order[i] : i \in DOMAIN order} = selected
      BY <2>2, <2>3, EmptyingsGiveAll
    <3> QED BY <2>2, <3>1 DEF ToSet, Queries
  <2> DEFINE K == Queries(met.selected)
  <2>5. met.selected = {final[q] : q \in K}
    BY <1>1 DEF Queries
  <2>6. \A q \in K : final[q].query = q /\ Score[q] = LogpNorm(final[q])
    BY <1>1 DEF Queries, Charted
  <2>7. Queries(selected) \in Search!BestOf(K, FinalBeam)
    <3> HIDE DEF K
    <3>1. FinalBeam \in Nat
      BY FinalBeamType
    <3> QED BY <2>3, <2>5, <2>6, <3>1, BestPaths
  <2>8. outpos = NumOutpos \/ met.frontier = {}
    BY <1>1, <2>1
  <2>9. Search!Over
    BY <2>8 DEF Search!Over
  <2>10. \E best \in Search!BestOf(Queries(met.before), Search!FinalBeam) : {ToSet(sentences')} = {best}
    BY <1>1, <2>4, <2>7 DEF Search!FinalBeam, FinalBeam
  <2>11. Search!Finish
    BY <1>1, <1>2, <2>9, <2>10 DEF Search!Finish, Queries
  <2> QED BY <1>2, <2>11 DEF SimInv
<1>3. CASE pc' # "done"
  <2>1. pc' = "expand" /\ outpos # NumOutpos /\ cur # {}
    BY <1>3 DEF LoopHead
  <2>2. outpos \in 0 .. NumOutpos - 1 /\ met.next = {}
    BY <1>1, <2>1, CpuAssumption DEF QueueInv
  <2>3. /\ StillOn' = UNION {OnFrom(a, Proposals[outpos]) : a \in cur}
        /\ StillComplete' = UNION {CompleteFrom(a, Proposals[outpos]) : a \in cur}
    BY <1>1 DEF StillOn, StillComplete
  <2> DEFINE F == met.frontier
  <2>4. \A p \in F : p \in Open /\ Len(p) = outpos
    BY <1>1
  <2>5. /\ StillOn' = {agent[q] : q \in KidPaths(F) \cap ToNext}
        /\ StillComplete' = {final[q] : q \in KidPaths(F) \cap ToSelected}
    <3>1. cur = AgentsOf(agent, F)
      BY <1>1 DEF AgentsOf
    <3> HIDE DEF F
    <3>2. /\ AllOn(AgentsOf(agent, F), outpos) = AgentsOf(agent, KidPaths(F) \cap ToNext)
          /\ AllComplete(AgentsOf(agent, F), outpos) = AgentsOf(final, KidPaths(F) \cap ToSelected)
      BY <2>2, <2>4, KidsCharted
    <3>3. StillOn' = AllOn(cur, outpos) /\ StillComplete' = AllComplete(cur, outpos)
      BY <2>3 DEF AllOn, AllComplete
    <3> QED BY <3>1, <3>2, <3>3 DEF AgentsOf
  <2>6. F # {} /\ KidPaths(met.frontier)' = KidPaths(F) /\ met'.frontier = F
    BY <1>1, <2>1 DEF KidPaths
  <2>7. UNCHANGED Search!vars
    BY <1>1, <2>1, SimStutter
  <2> QED BY <1>1, <2>1, <2>2, <2>4, <2>5, <2>6, <2>7 DEF SimInv
<1> QED BY <1>2, <1>3

LEMMA SimPopParent ==
  ASSUME NEW agent, NEW final, Charted(agent, final), CpuInv, QueueInv, SimInv(agent, final),
         PopParent, ~earlyExit
  PROVE  SimInv(agent, final)' /\ UNCHANGED Search!vars
<1>1. PICK a \in cur : parent' = {a} /\ cur' = cur \ {a}
  BY DEF PopParent
<1>2. /\ pc = "expand" /\ parent = {} /\ index' = 1
      /\ UNCHANGED <<topk, earlyExit, pc, outpos, next, selected, sentences, met>>
  BY DEF PopParent
<1>3. outpos \in 0 .. NumOutpos - 1 /\ topk \in Orders
  BY <1>2, CpuAssumption DEF QueueInv
<1>4. Rest(outpos, index)' = Proposals[outpos]
  <2>1. Rest(outpos, index)' = Rest(outpos, 1)
    BY <1>2 DEF Rest
  <2> QED BY <1>3, <2>1, RestIs
<1>5. StillOn' = StillOn /\ StillComplete' = StillComplete
  <2>1. /\ StillOn = UNION {OnFrom(b, Proposals[outpos]) : b \in cur}
        /\ StillComplete = UNION {CompleteFrom(b, Proposals[outpos]) : b \in cur}
    BY <1>2 DEF StillOn, StillComplete
  <2>2. /\ StillOn' = UNION ({OnFrom(b, Proposals[outpos]) : b \in cur'} \cup {OnFrom(a, Proposals[outpos])})
        /\ StillComplete' = UNION ({CompleteFrom(b, Proposals[outpos]) : b \in cur'}
                                      \cup {CompleteFrom(a, Proposals[outpos])})
    BY <1>1, <1>2, <1>4 DEF StillOn, StillComplete
  <2>3. cur = cur' \cup {a}
    BY <1>1
  <2> QED BY <2>1, <2>2, <2>3
<1>6. UNCHANGED Search!vars
  BY <1>2, SimStutter
<1>7. KidPaths(met.frontier)' = KidPaths(met.frontier)
  BY <1>2 DEF KidPaths
<1> QED BY <1>1, <1>2, <1>5, <1>6, <1>7 DEF SimInv

LEMMA SimEndParent ==
  ASSUME NEW agent, NEW final, Charted(agent, final), CpuInv, QueueInv, SimInv(agent, final),
         EndParent, ~earlyExit
  PROVE  SimInv(agent, final)' /\ UNCHANGED Search!vars
<1>1. /\ pc = "expand" /\ parent # {} /\ parent' = {} /\ index > Len(topk[outpos])
      /\ UNCHANGED <<topk, earlyExit, pc, outpos, cur, next, selected, index, sentences, met>>
  BY DEF EndParent, Enough, CpuInv
<1>2. outpos \in 0 .. NumOutpos - 1 /\ topk \in Orders /\ index \in Nat \ {0}
  BY <1>1, CpuAssumption DEF QueueInv
<1>3. Rest(outpos, index) = {}
  BY <1>1, <1>2, RestIs
<1>4. \A a : OnFrom(a, Rest(outpos, index)) = {} /\ CompleteFrom(a, Rest(outpos, index)) = {}
  BY <1>3 DEF OnFrom, CompleteFrom
<1>5. StillOn' = StillOn /\ StillComplete' = StillComplete
  BY <1>1, <1>4 DEF StillOn, StillComplete
<1>6. UNCHANGED Search!vars
  BY <1>1, SimStutter
<1>7. KidPaths(met.frontier)' = KidPaths(met.frontier)
  BY <1>1 DEF KidPaths
<1> QED BY <1>1, <1>5, <1>6, <1>7 DEF SimInv

LEMMA SimEndPosition ==
  ASSUME NEW agent, NEW final, Charted(agent, final), CpuInv, QueueInv, SimInv(agent, final),
         EndPosition, ~earlyExit
  PROVE  SimInv(agent, final)' /\ Search!Step
<1> DEFINE F == met.frontier
           On == KidPaths(F) \cap ToNext
           Complete == KidPaths(F) \cap ToSelected
<1>1. /\ pc = "expand" /\ parent = {} /\ cur = {} /\ pc' = "head" /\ cur' = next /\ outpos' = outpos + 1
      /\ UNCHANGED <<earlyExit, parent>>
      /\ IsMet(met) /\ met' = [met EXCEPT !.frontier = {a.query : a \in next}, !.before = met.selected, !.next = {}]
  BY DEF EndPosition, CpuInv
<1>2. /\ outpos \in 0 .. NumOutpos - 1 /\ outpos # NumOutpos
      /\ IsFiniteSet(met.next) /\ Best(next, met.next, BeamWidth[outpos])
      /\ \A a \in next : Reached(a, outpos + 1)
  BY <1>1, CpuAssumption DEF QueueInv
<1>3. /\ met'.frontier = Queries(next) /\ met'.before = met.selected /\ met'.selected = met.selected
  BY <1>1 DEF IsMet, Queries
<1>4. StillOn = {} /\ StillComplete = {}
  BY <1>1 DEF StillOn, StillComplete
<1>5. /\ met.next = AgentsOf(agent, On) /\ met.selected = met.before \cup AgentsOf(final, Complete)
      /\ F # {} /\ \A a \in met.selected : a.query \in ToSelected /\ a = final[a.query]
  BY <1>1, <1>4 DEF SimInv, AgentsOf
<1>6. /\ \A q \in On : agent[q].query = q /\ Score[q] = LogpNorm(agent[q])
      /\ \A q \in Complete : final[q].query = q
  BY DEF Charted
<1>7. UNION {Search!Children(p) : p \in F} = KidPaths(F)
  BY DEF KidPaths
<1> HIDE DEF On, Complete, F
<1>8. Queries(next) \in Search!BestOf(On, BeamWidth[outpos])
  <2>1. met.next = {agent[q] : q \in On} /\ BeamWidth[outpos] \in Nat
    BY <1>2, <1>5, CpuAssumption DEF AgentsOf
  <2> DEFINE width == BeamWidth[outpos]
  <2>2. width \in Nat /\ Best(next, met.next, width)
    BY <1>2, <2>1
  <2> HIDE DEF width
  <2>3. Queries(next) \in Search!BestOf(On, width)
    BY <1>2, <1>6, <2>1, <2>2, BestPaths
  <2> QED BY <2>3 DEF width
<1>9. Queries(met.selected) = Queries(met.before) \cup Complete
  <2>1. Queries(AgentsOf(final, Complete)) = Complete
    BY <1>6 DEF Queries, AgentsOf
  <2> QED BY <1>5, <2>1 DEF Queries
<1>10. Search!Step
  <2>1. ~Search!Over
    BY <1>2, <1>5 DEF Search!Over, F
  <2> QED BY <1>1, <1>3, <1>7, <1>8, <1>9, <2>1 DEF Search!Step, F, On, Complete
<1>11. \A p \in met'.frontier : p \in Open /\ Len(p) = outpos'
  <2>1. \A a \in next : a.query \in ToNext
    BY <1>2, <1>5, <1>6 DEF Best, AgentsOf, On
  <2> QED BY <1>1, <1>2, <1>3, <2>1 DEF Reached, Open, Queries
<1>12. cur' = {agent[p] : p \in met'.frontier}
  <2>1. \A a \in next : a = agent[a.query]
    BY <1>2, <1>5, <1>6 DEF Best, AgentsOf
  <2> QED BY <1>1, <1>3, <2>1 DEF Queries
<1> QED BY <1>1, <1>3, <1>5, <1>10, <1>11, <1>12 DEF SimInv

LEMMA SimStep ==
  ASSUME NEW agent, NEW final, Charted(agent, final), CpuInv, QueueInv, SimInv(agent, final), [Next]_vars
  PROVE  SimInv(agent, final)' /\ [Search!Next]_Search!vars
<1>1. CASE earlyExit
  <2>1. earlyExit' = earlyExit
    BY DEF Next, LoopHead, PopParent, Propose, EndParent, EndPosition, vars
  <2>2. UNCHANGED Search!vars
    BY <1>1, <2>1, SimStutter
  <2> QED BY <1>1, <2>1, <2>2 DEF SimInv
<1>2. CASE LoopHead /\ ~earlyExit
  BY <1>2, SimLoopHead DEF Search!Next
<1>3. CASE PopParent /\ ~earlyExit
  BY <1>3, SimPopParent
<1>4. CASE Propose /\ ~earlyExit
  <2>1. /\ pc = "expand" /\ pc' = "expand" /\ outpos' = outpos /\ earlyExit' = earlyExit
        /\ met'.frontier = met.frontier /\ met'.before = met.before
    BY <1>4 DEF Propose, CpuInv, IsMet
  <2>2. UNCHANGED Search!vars
    BY <2>1, SimStutter
  <2> QED BY <1>4, <2>2, SimPropose
<1>5. CASE EndParent /\ ~earlyExit
  BY <1>5, SimEndParent
<1>6. CASE EndPosition /\ ~earlyExit
  BY <1>6, SimEndPosition DEF Search!Next
<1>7. CASE UNCHANGED vars
  <2>1. /\ UNCHANGED <<topk, earlyExit, pc, outpos, cur, next, selected, parent, index, sentences, met>>
    BY <1>7 DEF vars
  <2>2. UNCHANGED Search!vars
    BY <2>1 DEF Search!vars, Queries
  <2>3. /\ Rest(outpos, index)' = Rest(outpos, index)
        /\ KidPaths(met.frontier)' = KidPaths(met.frontier)
    BY <2>1 DEF Rest, KidPaths
  <2>4. StillOn' = StillOn /\ StillComplete' = StillComplete
    BY <2>1, <2>3 DEF StillOn, StillComplete
  <2> QED BY <2>1, <2>2, <2>3, <2>4 DEF SimInv
<1> QED BY <1>1, <1>2, <1>3, <1>4, <1>5, <1>6, <1>7 DEF Next

(* The search on the CPU implements the abstract search that the kernel    *)
(* implements, for any trie, proposals in any order, limits and widths, if *)
(* the paths and scores of that search are those of the agents that this   *)
(* trie and these proposals lead to.                                       *)
THEOREM CpuRefines ==
  ASSUME \E agent, final : Charted(agent, final)
  PROVE  Spec => ImplementsSearch
<1>1. PICK agent, final : Charted(agent, final)
  OBVIOUS
<1>2. Init => CpuInv /\ QueueInv /\ SimInv(agent, final) /\ Search!Init
  <2>1. Init => Search!Init
    BY DEF Init, Search!Init, Queries
  <2> QED BY <1>1, <2>1, CpuInit, QueueInit, SimInit
<1>3. CpuInv /\ QueueInv /\ SimInv(agent, final) /\ [Next]_vars
        => CpuInv' /\ QueueInv' /\ SimInv(agent, final)' /\ [Search!Next]_Search!vars
  BY <1>1, CpuStep, QueueStep, SimStep
<1> QED BY <1>2, <1>3, PTL DEF Spec, ImplementsSearch, Search!Spec

-----------------------------------------------------------------------------
(* A beam that is alive has decoded a path, and what is left of its link   *)
(* leads on from there to its node, which is a node of the trie: there are *)
(* keys below it.  Outside links there is nothing left, inside there is.   *)
Beam == [path : Seq(Label), node : Seq(Label), inLink : BOOLEAN, rest : Seq(Label)]

OnTheWay(b) ==
  /\ b \in Beam
  /\ b.path = path
  /\ b.node = path \o b.rest
  /\ b.inLink <=> b.rest # << >>
  /\ Below(keys, b.node) # {}

WalkInv ==
  /\ keys \in KeySets
  /\ path \in Seq(Label)
  /\ \A b \in gpu : OnTheWay(b)
  /\ gpuFound => path \in keys

-----------------------------------------------------------------------------
LEMMA KeysType ==
  ASSUME NEW K \in KeySets
  PROVE  K \in SUBSET Seq(Label) /\ K # {}
BY WalkAssumption

(* What a token makes of a beam on its way: a beam whose path and rest lead*)
(* to its node, inside a link or at its end or at a node of its own.       *)
Kid(c, k) ==
  /\ c \in Beam
  /\ c.path = Append(path, k)
  /\ c.node = Append(path, k) \o c.rest
  /\ c.rest # << >> => c.inLink
  /\ Below(keys, c.node) # {}

LEMMA KidInLink ==
  ASSUME WalkInv, NEW k \in Label, NEW b \in gpu, b.inLink, NEW c \in GpuKids(keys, b, k)
  PROVE  Kid(c, k)
<1>1. OnTheWay(b)
  BY DEF WalkInv
<1>2. b.rest \in Seq(Label) /\ b.rest # << >> /\ path \in Seq(Label)
  BY <1>1 DEF OnTheWay, Beam, WalkInv
<1>3. k = Head(b.rest) /\ c = [b EXCEPT !.path = Append(@, k), !.rest = Tail(@)]
  BY DEF GpuKids, GpuInLink
<1>4. c = [path |-> Append(b.path, k), node |-> b.node, inLink |-> TRUE, rest |-> Tail(b.rest)]
  BY <1>1, <1>3 DEF OnTheWay, Beam
<1>5. Append(path, k) \in Seq(Label) /\ Tail(b.rest) \in Seq(Label)
  BY <1>2
<1>6. path \o b.rest = Append(path, k) \o Tail(b.rest)
  BY <1>2, <1>3, MoveOver
<1> QED BY <1>1, <1>4, <1>5, <1>6 DEF OnTheWay, Kid, Beam

LEMMA KidByChild ==
  ASSUME WalkInv, NEW k \in Label, NEW b \in gpu, ~b.inLink, NEW c \in GpuKids(keys, b, k)
  PROVE  Kid(c, k)
<1>1. b \in Beam /\ b.path = path /\ b.node = path /\ path \in Seq(Label)
  <2>1. OnTheWay(b)
    BY DEF WalkInv
  <2>2. b.rest = << >> /\ path \in Seq(Label)
    BY <2>1 DEF OnTheWay, WalkInv
  <2>3. path \o << >> = path
    BY <2>2
  <2> QED BY <2>1, <2>2, <2>3 DEF OnTheWay
<1>2. PICK d \in ChildNodes(keys, path) :
        /\ d[Len(path) + 1] = k
        /\ c = [path |-> Append(path, k), node |-> d, inLink |-> IsLink(path, d),
                rest |-> LinkRest(path, d)]
  BY <1>1 DEF GpuKids, GpuChildSearch
<1>3. d \in Seq(Label) /\ IsPrefix(path, d) /\ Len(path) < Len(d) /\ Below(keys, d) # {}
  BY <1>1, ChildBelow, KeysType DEF WalkInv
<1>4. LinkRest(path, d) \in Seq(Label)
  BY <1>1, <1>3 DEF LinkRest
<1>5. d = Append(path, k) \o LinkRest(path, d)
  BY <1>1, <1>2, <1>3, SplitAtPrefix DEF LinkRest
<1>6. IsLink(path, d) \in BOOLEAN /\ (LinkRest(path, d) # << >> => IsLink(path, d))
  BY <1>1, <1>3 DEF LinkRest, IsLink
<1>7. Append(path, k) \in Seq(Label)
  BY <1>1
<1> QED BY <1>2, <1>3, <1>4, <1>5, <1>6, <1>7 DEF Kid, Beam

(* What goes on is on its way again, and what is selected is a key.        *)
LEMMA KidGoesOn ==
  ASSUME NEW k \in Label, path' = Append(path, k), UNCHANGED keys,
         NEW c, Kid(c, k), GpuGoesOn(c)
  PROVE  OnTheWay(c)'
BY DEF Kid, GpuGoesOn, EndLink, OnTheWay

LEMMA KidSelected ==
  ASSUME path \in Seq(Label), NEW k \in Label, NEW c, Kid(c, k), GpuSelects(keys, c)
  PROVE  Append(path, k) \in keys
<1>1. c.rest = << >> /\ c.node \in keys
  BY DEF Kid, GpuSelects, EndLink, IsTerminal
<1>2. Append(path, k) \o << >> = Append(path, k)
  OBVIOUS
<1> QED BY <1>1, <1>2 DEF Kid

-----------------------------------------------------------------------------
LEMMA WalkStarts ==
  ASSUME WalkInit
  PROVE  WalkInv
<1>1. keys \in KeySets /\ path = << >> /\ path \in Seq(Label) /\ gpu = {GpuRoot} /\ gpuFound = FALSE
  BY DEF WalkInit
<1>2. Below(keys, << >>) # {}
  <2>1. PICK key \in keys : key \in Seq(Label)
    BY <1>1, KeysType
  <2>2. IsPrefix(<< >>, key)
    BY <2>1 DEF IsPrefix
  <2> QED BY <2>1, <2>2 DEF Below
<1>3. GpuRoot \in Beam
  BY DEF GpuRoot, Beam
<1>4. OnTheWay(GpuRoot)
  <2>1. << >> \o << >> = << >>
    OBVIOUS
  <2> QED BY <1>1, <1>2, <1>3, <2>1 DEF OnTheWay, GpuRoot
<1> QED BY <1>1, <1>4 DEF WalkInv

LEMMA WalkStep ==
  ASSUME WalkInv, [WalkNext]_walkVars
  PROVE  WalkInv'
<1>1. ASSUME NEW k \in Label, Decode(k) PROVE WalkInv'
  <2> DEFINE kids == UNION {GpuKids(keys, b, k) : b \in gpu}
  <2>1. /\ path' = Append(path, k)
        /\ gpu' = {b \in kids : GpuGoesOn(b)}
        /\ gpuFound' = (\E b \in kids : GpuSelects(keys, b))
        /\ UNCHANGED keys
    BY <1>1 DEF Decode
  <2>2. ASSUME NEW c \in kids PROVE Kid(c, k)
    <3>1. PICK b \in gpu : c \in GpuKids(keys, b, k)
      OBVIOUS
    <3>2. CASE b.inLink
      BY <3>1, <3>2, KidInLink
    <3>3. CASE ~b.inLink
      BY <3>1, <3>3, KidByChild
    <3> QED BY <3>2, <3>3
  <2> HIDE DEF kids
  <2>3. keys' \in KeySets /\ path' \in Seq(Label)
    BY <2>1 DEF WalkInv
  <2>4. ASSUME NEW b \in gpu' PROVE OnTheWay(b)'
    BY <2>1, <2>2, KidGoesOn
  <2>5. ASSUME gpuFound' PROVE path' \in keys'
    <3>1. PICK b \in kids : GpuSelects(keys, b)
      BY <2>1, <2>5
    <3>2. Append(path, k) \in keys
      BY <2>2, <3>1, KidSelected DEF WalkInv
    <3> QED BY <2>1, <3>2
  <2> QED BY <2>3, <2>4, <2>5 DEF WalkInv
<1>2. CASE UNCHANGED walkVars
  BY <1>2 DEF walkVars, WalkInv, OnTheWay
<1> QED BY <1>1, <1>2 DEF WalkNext

(* The path of a beam on its way is a prefix of the keys below its node.   *)
LEMMA WalkOnKeys ==
  ASSUME WalkInv
  PROVE  GpuStaysOnKeys
<1>1. ASSUME NEW b \in gpu PROVE Below(keys, path) # {}
  <2>1. OnTheWay(b) /\ path \in Seq(Label) /\ keys \in SUBSET Seq(Label)
    BY KeysType DEF WalkInv
  <2>2. PICK key \in keys : IsPrefix(b.node, key)
    BY <2>1 DEF OnTheWay, Below
  <2>3. b.rest \in Seq(Label) /\ b.node = path \o b.rest /\ b.node \in Seq(Label)
    BY <2>1 DEF OnTheWay, Beam
  <2>4. IsPrefix(path, b.node)
    BY <2>1, <2>3, ConcatHasPrefix
  <2>5. IsPrefix(path, key)
    BY <2>1, <2>2, <2>3, <2>4, PrefixTransitive
  <2> QED BY <2>2, <2>5 DEF Below
<1> QED BY <1>1 DEF WalkInv, GpuStaysOnKeys

(* Whatever the trie, the GPU search (extend_beam_binary_child_search and  *)
(* extend_beam_in_link) keeps a beam only while its path is a prefix of a  *)
(* key, and selects nothing but keys: for all sets of keys over any tokens.*)
THEOREM GpuPrefixes == WalkSpec => []GpuStaysOnKeys
<1>1. WalkInit => WalkInv
  BY WalkStarts
<1>2. WalkInv /\ [WalkNext]_walkVars => WalkInv'
  BY WalkStep
<1>3. WalkInv => GpuStaysOnKeys
  BY WalkOnKeys
<1> QED BY <1>1, <1>2, <1>3, PTL DEF WalkSpec

-----------------------------------------------------------------------------
(* The two searches side by side.                                          *)

(* The node of a beam inside a link is the end of that link: all keys on   *)
(* which it still is go through it.                                        *)
ToLinkEnd(b) ==
  b.inLink => /\ Opened(keys, b.node) = b.node
              /\ Below(keys, path) \subseteq Below(keys, b.node)

(* An agent that is alive has the path for its query and the whole of its  *)
(* node in key_buf, and has looked up all of its query unless it is inside *)
(* what it takes for a link.                                               *)
Agent == [query : Seq(Label), pos : Nat, node : Seq(Label), keyBuf : Seq(Label)]

AgentOnTheWay(a) ==
  /\ a \in Agent
  /\ a.query = path
  /\ a.keyBuf = a.node
  /\ CpuLinkParent(keys, a) \/ a.pos = Len(path)

(* As long as links end in leaves: beam and agent are at the same node,    *)
(* they are alive while there are longer keys, and both have found the key *)
(* that ends here.                                                         *)
Together ==
  /\ \A b \in gpu : \E a \in cpu : a.node = b.node
  /\ \A a \in cpu : \E b \in gpu : a.node = b.node
  /\ cpuFound <=> gpuFound

Complete ==
  /\ (\E key \in keys : IsStrictPrefix(path, key)) => gpu # {}
  /\ path \in keys => gpuFound

PairInv ==
  /\ WalkInv
  /\ \A b, c \in gpu : b = c
  /\ \A a, e \in cpu : a = e
  /\ \A b \in gpu : ToLinkEnd(b)
  /\ \A a \in cpu : AgentOnTheWay(a)
  /\ gpuFound \in BOOLEAN /\ cpuFound \in BOOLEAN
  /\ ~ OnInnerLink => Together /\ Complete

-----------------------------------------------------------------------------
(* Prefixes and the keys below them.                                       *)

(* A longer prefix has fewer keys below it.                                *)
LEMMA BelowShrinks ==
  ASSUME NEW S, NEW K \in SUBSET Seq(S), NEW p \in Seq(S), NEW q \in Seq(S), IsPrefix(p, q)
  PROVE  Below(K, q) \subseteq Below(K, p)
<1>1. SUFFICES ASSUME NEW key \in K, IsPrefix(q, key) PROVE IsPrefix(p, key)
  BY DEF Below
<1> QED BY <1>1, PrefixTransitive

(* Opening a node where it lies yields that node.                          *)
LEMMA OpenedAgain ==
  ASSUME NEW S, NEW K \in SUBSET Seq(S), NEW p \in Seq(S), Below(K, p) # {}
  PROVE  LET n == Opened(K, p)
         IN  Below(K, n) = Below(K, p) /\ Opened(K, n) = n
<1> DEFINE n == Opened(K, p)
<1>1. n \in Seq(S) /\ IsPrefix(p, n) /\ \A key \in Below(K, p) : IsPrefix(n, key)
  BY OpenedOnKeys
<1>2. Below(K, n) \subseteq Below(K, p)
  BY <1>1, BelowShrinks
<1>3. Below(K, p) \subseteq Below(K, n)
  BY <1>1 DEF Below
<1>4. Below(K, n) = Below(K, p)
  BY <1>2, <1>3
<1>5. Opened(K, n) = LongestCommonPrefix(Below(K, n)) /\ n = LongestCommonPrefix(Below(K, p))
  BY DEF Opened
<1> QED BY <1>4, <1>5

(* A sequence is a prefix of itself, and the prefixes stay when it grows.  *)
LEMMA PrefixesGrow ==
  ASSUME NEW S, NEW s \in Seq(S), NEW k \in S
  PROVE  s \in Prefixes(s) /\ Prefixes(s) \subseteq Prefixes(Append(s, k))
<1>1. s = SubSeq(s, 1, Len(s)) /\ Len(s) \in 0 .. Len(s)
  OBVIOUS
<1>2. ASSUME NEW l \in 0 .. Len(s)
      PROVE  SubSeq(s, 1, l) = SubSeq(Append(s, k), 1, l) /\ l \in 0 .. Len(Append(s, k))
  OBVIOUS
<1> QED BY <1>1, <1>2 DEF Prefixes

(* All but the last token, seen from a shorter prefix.                     *)
LEMMA FrontPrefix ==
  ASSUME NEW S, NEW s \in Seq(S), NEW n \in Seq(S), IsPrefix(s, n), Len(s) < Len(n)
  PROVE  Front(n) \in Seq(S) /\ IsPrefix(s, Front(n)) /\ IsPrefix(Front(n), n)
<1>0. Len(n) \in Nat /\ Len(n) >= 1 /\ Len(s) <= Len(n) - 1
  OBVIOUS
<1>1. Front(n) \in Seq(S) /\ Len(Front(n)) = Len(n) - 1
  <2> DEFINE m == Len(n) - 1
  <2>1. m \in Nat /\ m <= Len(n) /\ Front(n) = SubSeq(n, 1, m)
    BY <1>0 DEF Front
  <2> HIDE DEF m
  <2>2. SubSeq(n, 1, m) \in Seq(S) /\ Len(SubSeq(n, 1, m)) = m
    BY <2>1
  <2> QED BY <2>1, <2>2 DEF m
<1>2. IsPrefix(Front(n), n)
  BY <1>0, <1>1 DEF IsPrefix, Front
<1>3. IsPrefix(s, Front(n))
  BY <1>0, <1>1, <1>2, ShorterPrefix
<1> QED BY <1>1, <1>2, <1>3

(* A prefix and what comes behind it.                                      *)
LEMMA PrefixAndRest ==
  ASSUME NEW S, NEW s \in Seq(S), NEW d \in Seq(S), IsPrefix(s, d)
  PROVE  s \o SubSeq(d, Len(s) + 1, Len(d)) = d
<1> DEFINE r == SubSeq(d, Len(s) + 1, Len(d))
           w == s \o r
<1>1. Len(s) <= Len(d) /\ \A i \in 1 .. Len(s) : s[i] = d[i]
  <2>1. Len(s) <= Len(d) /\ SubSeq(s, 1, Len(s)) = SubSeq(d, 1, Len(s))
    BY DEF IsPrefix
  <2>2. \A i \in 1 .. Len(s) : SubSeq(s, 1, Len(s))[i] = s[i] /\ SubSeq(d, 1, Len(s))[i] = d[i]
    BY <2>1
  <2> QED BY <2>1, <2>2
<1>2. r \in Seq(S) /\ Len(r) = Len(d) - Len(s)
      /\ \A i \in 1 .. Len(d) - Len(s) : r[i] = d[Len(s) + i]
  BY <1>1
<1> HIDE DEF r
<1>3. w \in Seq(S) /\ Len(w) = Len(d)
  BY <1>1, <1>2
<1>4. ASSUME NEW i \in 1 .. Len(d) PROVE w[i] = d[i]
  <2>0. Len(s) \in Nat /\ i \in Nat
    OBVIOUS
  <2>1. i <= Len(s) => w[i] = d[i]
    BY <1>1, <1>2
  <2>2. ASSUME ~ (i <= Len(s)) PROVE w[i] = d[i]
    <3>1. w[i] = r[i - Len(s)]
      BY <1>1, <1>2, <2>2
    <3>2. i - Len(s) \in 1 .. Len(d) - Len(s) /\ Len(s) + (i - Len(s)) = i
      BY <1>1, <2>2
    <3> QED BY <1>2, <3>1, <3>2
  <2> QED BY <2>1, <2>2
<1>5. w = d
  <2> HIDE DEF w
  <2> QED BY <1>3, <1>4, SeqEqual
<1> QED BY <1>5 DEF r

(* Two of a kind make a set of one.                                        *)
LEMMA AtMostOne ==
  ASSUME NEW T, \A x, y \in T : x = y
  PROVE  Cardinality(T) <= 1
<1>1. CASE T = {}
  BY <1>1, FS_EmptySet
<1>2. CASE T # {}
  <2>1. PICK x \in T : TRUE
    BY <1>2
  <2>2. T = {x}
    BY <2>1
  <2>3. Cardinality({x}) = 1
    BY FS_Singleton
  <2> QED BY <2>2, <2>3
<1> QED BY <1>1, <1>2

-----------------------------------------------------------------------------
(* Where links end in leaves.                                              *)

(* Once on such a link, always.                                            *)
LEMMA InnerStays ==
  ASSUME path \in Seq(Label), NEW k \in Label, path' = Append(path, k), UNCHANGED keys,
         OnInnerLink
  PROVE  OnInnerLink'
<1>1. Prefixes(path) \subseteq Prefixes(path')
  BY PrefixesGrow
<1> QED BY <1>1 DEF OnInnerLink

(* The link in which a beam is ends in a leaf: one key lies below it, and  *)
(* it ends there.                                                          *)
LEMMA InLinkLeaf ==
  ASSUME WalkInv, NEW b \in gpu, b.inLink, ToLinkEnd(b), ~ OnInnerLink
  PROVE  Below(keys, b.node) = {b.node} /\ b.node \in keys /\ Len(path) < Len(b.node)
<1> DEFINE n == b.node
<1>1. /\ keys \in SUBSET Seq(Label) /\ path \in Seq(Label)
      /\ b.rest \in Seq(Label) /\ b.rest # << >> /\ n \in Seq(Label) /\ n = path \o b.rest
      /\ Below(keys, n) # {}
  BY KeysType DEF WalkInv, OnTheWay, Beam
<1>2. /\ Opened(keys, n) = n /\ Below(keys, path) \subseteq Below(keys, n)
  BY DEF ToLinkEnd
<1> HIDE DEF n
<1>3. IsPrefix(path, n) /\ Len(path) < Len(n)
  <2>1. Len(b.rest) > 0
    BY <1>1, EmptySeq
  <2>2. Len(path \o b.rest) = Len(path) + Len(b.rest)
    BY <1>1
  <2> QED BY <1>1, <2>1, <2>2, ConcatHasPrefix
<1>4. Front(n) \in Seq(Label) /\ IsPrefix(path, Front(n)) /\ IsPrefix(Front(n), n)
  BY <1>1, <1>3, FrontPrefix
<1>5. Below(keys, Front(n)) = Below(keys, n) /\ Below(keys, path) = Below(keys, n)
  <2>1. Below(keys, Front(n)) \subseteq Below(keys, path)
    BY <1>1, <1>4, BelowShrinks
  <2>2. Below(keys, n) \subseteq Below(keys, Front(n))
    BY <1>1, <1>4, BelowShrinks
  <2> QED BY <1>2, <2>1, <2>2
<1>6. Opened(keys, path) = n /\ Opened(keys, Front(n)) = n
  BY <1>2, <1>5 DEF Opened
<1>7. path \in Prefixes(path)
  <2>1. path = SubSeq(path, 1, Len(path)) /\ Len(path) \in 0 .. Len(path)
    BY <1>1
  <2> QED BY <2>1 DEF Prefixes
<1>8. n # << >>
  BY <1>1, <1>3
<1>9. Below(keys, n) = {n}
  BY <1>1, <1>5, <1>6, <1>7, <1>8 DEF OnInnerLink
<1>10. n \in keys
  BY <1>9 DEF Below
<1> QED BY <1>3, <1>9, <1>10 DEF n

(* What a token makes of a beam is on the way to the end of a link, too.   *)
LEMMA KidToLinkEnd ==
  ASSUME WalkInv, NEW k \in Label, NEW b \in gpu, ToLinkEnd(b), NEW c \in GpuKids(keys, b, k)
  PROVE  /\ Opened(keys, c.node) = c.node
         /\ Below(keys, Append(path, k)) \subseteq Below(keys, c.node)
<1>1. /\ keys \in SUBSET Seq(Label) /\ path \in Seq(Label) /\ OnTheWay(b)
      /\ Append(path, k) \in Seq(Label)
  BY KeysType DEF WalkInv
<1>2. IsPrefix(path, Append(path, k))
  <2>1. <<k>> \in Seq(Label) /\ Append(path, k) = path \o <<k>>
    BY <1>1
  <2> QED BY <1>1, <2>1, ConcatHasPrefix
<1>3. Below(keys, Append(path, k)) \subseteq Below(keys, path)
  BY <1>1, <1>2, BelowShrinks
<1>4. CASE b.inLink
  <2>1. c.node = b.node
    BY <1>1, <1>4 DEF GpuKids, GpuInLink, OnTheWay, Beam
  <2> QED BY <1>3, <1>4, <2>1 DEF ToLinkEnd
<1>5. CASE ~ b.inLink
  <2>1. b.node = path /\ b.path = path
    <3>1. b.rest = << >> /\ path \o << >> = path
      BY <1>1, <1>5 DEF OnTheWay
    <3> QED BY <1>1, <3>1 DEF OnTheWay
  <2>2. PICK d \in ChildNodes(keys, path) : d[Len(path) + 1] = k /\ c.node = d
    BY <1>5, <2>1 DEF GpuKids, GpuChildSearch
  <2>3. PICK l \in Labels(keys, path) : d = Opened(keys, Append(path, l))
    BY DEF ChildNodes
  <2>4. d[Len(path) + 1] = l
    BY <1>1, <2>3, OpenedByLabel
  <2>5. d = Opened(keys, Append(path, k))
    BY <2>2, <2>3, <2>4
  <2>6. Below(keys, Append(path, k)) # {}
    <3>1. PICK key \in keys : IsPrefix(path, key) /\ key # path /\ l = key[Len(path) + 1]
      BY DEF Labels, Below
    <3>2. IsPrefix(Append(path, l), key)
      BY <1>1, <3>1, AppendIsPrefix
    <3> QED BY <2>2, <2>4, <3>2 DEF Below
  <2> QED BY <1>1, <2>2, <2>5, <2>6, OpenedAgain
<1> QED BY <1>4, <1>5

(* A token with which a key goes on makes something of a beam.             *)
LEMMA KidExists ==
  ASSUME WalkInv, NEW k \in Label, NEW b \in gpu, ToLinkEnd(b),
         Below(keys, Append(path, k)) # {}
  PROVE  GpuKids(keys, b, k) # {}
<1>1. /\ keys \in SUBSET Seq(Label) /\ path \in Seq(Label) /\ OnTheWay(b)
      /\ Append(path, k) \in Seq(Label)
  BY KeysType DEF WalkInv
<1>2. PICK key \in keys : IsPrefix(Append(path, k), key)
  BY DEF Below
<1>3. key \in Seq(Label) /\ Len(path) < Len(key) /\ key[Len(path) + 1] = k /\ IsPrefix(path, key)
  BY <1>1, <1>2, PrefixOfAppend
<1>4. CASE b.inLink
  <2>1. IsPrefix(b.node, key)
    BY <1>3, <1>4 DEF ToLinkEnd, Below
  <2>2. /\ b.rest \in Seq(Label) /\ b.rest # << >>
        /\ b.node = path \o b.rest /\ b.node \in Seq(Label)
    BY <1>1, <1>4 DEF OnTheWay, Beam
  <2>3. Len(b.rest) >= 1 /\ Len(b.node) = Len(path) + Len(b.rest)
        /\ b.node[Len(path) + 1] = b.rest[1]
    BY <1>1, <2>2, EmptySeq
  <2>4. b.node[Len(path) + 1] = key[Len(path) + 1]
    <3>1. Len(b.node) <= Len(key) /\ SubSeq(b.node, 1, Len(b.node)) = SubSeq(key, 1, Len(b.node))
      BY <2>1 DEF IsPrefix
    <3>2. Len(path) + 1 \in 1 .. Len(b.node)
      BY <1>1, <2>2, <2>3
    <3>3. /\ SubSeq(b.node, 1, Len(b.node))[Len(path) + 1] = b.node[Len(path) + 1]
          /\ SubSeq(key, 1, Len(b.node))[Len(path) + 1] = key[Len(path) + 1]
      BY <1>3, <2>2, <3>1, <3>2
    <3> QED BY <3>1, <3>3
  <2>5. Head(b.rest) = k
    BY <1>3, <2>2, <2>3, <2>4
  <2> QED BY <1>4, <2>5 DEF GpuKids, GpuInLink
<1>5. CASE ~ b.inLink
  <2>1. b.node = path
    <3>1. b.rest = << >> /\ path \o << >> = path
      BY <1>1, <1>5 DEF OnTheWay
    <3> QED BY <1>1, <3>1 DEF OnTheWay
  <2>2. k \in Labels(keys, path)
    BY <1>3 DEF Labels, Below
  <2>3. Opened(keys, Append(path, k)) \in ChildNodes(keys, path)
        /\ Opened(keys, Append(path, k))[Len(path) + 1] = k
    BY <1>1, <2>2, OpenedByLabel DEF ChildNodes
  <2> QED BY <1>5, <2>1, <2>3 DEF GpuKids, GpuChildSearch
<1> QED BY <1>4, <1>5

(* A beam whose path is a key is selected; one whose path goes on to a key *)
(* goes on, too, where links end in leaves.                                *)
LEMMA KidComplete ==
  ASSUME WalkInv, NEW k \in Label, NEW b \in gpu, ToLinkEnd(b), NEW c \in GpuKids(keys, b, k),
         Kid(c, k), ~ OnInnerLink
  PROVE  /\ Append(path, k) \in keys => GpuSelects(keys, c)
         /\ (\E key \in keys : IsStrictPrefix(Append(path, k), key)) => GpuGoesOn(c)
<1> DEFINE p == Append(path, k)
<1>1. /\ keys \in SUBSET Seq(Label) /\ path \in Seq(Label) /\ OnTheWay(b)
      /\ p \in Seq(Label) /\ c.rest \in Seq(Label) /\ c.node = p \o c.rest
  BY KeysType DEF WalkInv, Kid, Beam
<1>2. Below(keys, p) \subseteq Below(keys, c.node)
  BY KidToLinkEnd
<1> HIDE DEF p
<1>3. ASSUME p \in keys PROVE GpuSelects(keys, c)
  <2>1. p \in Below(keys, p)
    BY <1>1, <1>3 DEF Below, IsPrefix
  <2>2. IsPrefix(c.node, p)
    BY <1>2, <2>1 DEF Below
  <2>3. Len(c.node) = Len(p) + Len(c.rest) /\ Len(c.node) <= Len(p)
    BY <1>1, <2>2 DEF IsPrefix
  <2>4. c.rest = << >>
    BY <1>1, <2>3, EmptySeq
  <2>5. c.node = p
    BY <1>1, <2>4
  <2> QED BY <1>3, <2>4, <2>5 DEF GpuSelects, EndLink, IsTerminal
<1>4. ASSUME NEW key \in keys, IsStrictPrefix(p, key) PROVE GpuGoesOn(c)
  <2>1. SUFFICES ASSUME c.inLink, c.rest = << >> PROVE FALSE
    BY DEF GpuGoesOn, EndLink
  <2>2. c.node = p
    BY <1>1, <2>1
  <2>3. CASE b.inLink
    <3>1. c.node = b.node
      BY <1>1, <2>3 DEF GpuKids, GpuInLink, OnTheWay, Beam
    <3>2. Below(keys, p) = {p}
      BY <2>2, <2>3, <3>1, InLinkLeaf
    <3> QED BY <1>4, <3>2 DEF IsStrictPrefix, Below
  <2>4. CASE ~ b.inLink
    <3>1. PICK d \in ChildNodes(keys, b.node) :
            c.inLink = IsLink(b.node, d) /\ c.rest = LinkRest(b.node, d)
      BY <2>4 DEF GpuKids, GpuChildSearch
    <3>2. b.node \in Seq(Label)
      BY <1>1 DEF OnTheWay, Beam
    <3>3. d \in Seq(Label)
      BY <1>1, <3>2, ChildBelow
    <3> DEFINE f == Len(b.node) + 2
    <3>4. SubSeq(d, f, Len(d)) = << >>
      BY <2>1, <3>1 DEF LinkRest
    <3>5. f \in Nat /\ f >= 1 /\ f <= Len(d) /\ Len(d) \in Nat
      <4>1. Len(d) > Len(b.node) + 1
        BY <2>1, <3>1, Zenon DEF IsLink
      <4> QED BY <3>2, <3>3, <4>1
    <3> HIDE DEF f
    <3>6. Len(SubSeq(d, f, Len(d))) = Len(d) - f + 1
      BY <3>3, <3>5
    <3> QED BY <3>4, <3>5, <3>6
  <2> QED BY <2>3, <2>4
<1> QED BY <1>3, <1>4 DEF p

-----------------------------------------------------------------------------
(* The agent.                                                              *)

(* What goes on of the child of an agent is an agent on its way.           *)
LEMMA AgentKid ==
  ASSUME keys \in SUBSET Seq(Label), path \in Seq(Label), NEW k \in Label,
         path' = Append(path, k), UNCHANGED keys,
         NEW a, AgentOnTheWay(a), NEW e \in CpuKids(keys, a, k), CpuGoesOn(keys, a, e)
  PROVE  AgentOnTheWay(e)'
<1>1. /\ a.query = path /\ a.keyBuf = a.node /\ a.node \in Seq(Label) /\ a \in Agent
      /\ Append(path, k) \in Seq(Label) /\ Len(Append(path, k)) = Len(path) + 1
  BY DEF AgentOnTheWay, Agent
<1>2. CASE CpuLinkParent(keys, a)
  <2>1. e = [a EXCEPT !.query = Append(@, k)]
    BY <1>2 DEF CpuKids, CpuInLink
  <2>2. /\ e \in Agent /\ e.query = Append(path, k) /\ e.keyBuf = e.node /\ e.node = a.node
    BY <1>1, <2>1 DEF Agent
  <2>3. IsTerminal(keys, e.node) /\ Len(a.node) > Len(path) /\ Len(e.keyBuf) # Len(e.query)
    BY <1>1, <1>2, <2>2 DEF CpuLinkParent, CpuGoesOn
  <2>4. Len(e.keyBuf) > Len(e.query)
    BY <1>1, <2>2, <2>3
  <2> QED BY <2>2, <2>3, <2>4 DEF AgentOnTheWay, CpuLinkParent
<1>3. CASE ~ CpuLinkParent(keys, a)
  <2>1. a.pos = Len(path)
    BY <1>3 DEF AgentOnTheWay
  <2>2. PICK d \in ChildNodes(keys, a.node) :
          e = [query |-> Append(a.query, k), pos |-> a.pos + 1, node |-> d,
               keyBuf |-> a.keyBuf \o SubSeq(d, Len(a.node) + 1, Len(d))]
    BY <1>3 DEF CpuKids, CpuFindChild
  <2>3. d \in Seq(Label) /\ IsPrefix(a.node, d)
    BY <1>1, ChildBelow
  <2>4. a.keyBuf \o SubSeq(d, Len(a.node) + 1, Len(d)) = d
    BY <1>1, <2>3, PrefixAndRest
  <2>5. /\ e.query = Append(path, k) /\ e.keyBuf = d /\ e.node = d
        /\ e.pos = Len(Append(path, k)) /\ e \in Agent
    BY <1>1, <2>1, <2>2, <2>3, <2>4 DEF Agent
  <2> QED BY <2>5 DEF AgentOnTheWay
<1> QED BY <1>2, <1>3

(* A beam and an agent at one node are inside a link together ...          *)
LEMMA InLinkTogether ==
  ASSUME WalkInv, NEW b \in gpu, ToLinkEnd(b), ~ OnInnerLink,
         NEW a, AgentOnTheWay(a), a.node = b.node
  PROVE  b.inLink <=> CpuLinkParent(keys, a)
<1>1. OnTheWay(b) /\ path \in Seq(Label) /\ a.query = path /\ a.keyBuf = b.node
  BY DEF WalkInv, AgentOnTheWay
<1>2. ASSUME b.inLink PROVE CpuLinkParent(keys, a)
  <2>1. b.node \in keys /\ Len(path) < Len(b.node)
    BY <1>2, InLinkLeaf
  <2>2. Len(b.node) > Len(path)
    BY <1>1, <2>1 DEF OnTheWay, Beam
  <2> QED BY <1>1, <2>1, <2>2 DEF CpuLinkParent, IsTerminal
<1>3. ASSUME ~ b.inLink PROVE ~ CpuLinkParent(keys, a)
  <2>1. b.node = path
    <3>1. b.rest = << >> /\ path \o << >> = path
      BY <1>1, <1>3 DEF OnTheWay
    <3> QED BY <1>1, <3>1 DEF OnTheWay
  <2>2. ~ (Len(a.keyBuf) > Len(a.query))
    BY <1>1, <2>1
  <2> QED BY <2>2 DEF CpuLinkParent
<1> QED BY <1>2, <1>3

(* ... and a token makes the same of them: a child at the same node, that  *)
(* goes on in both searches or in none, and is selected in both or in none.*)
SameKid(a, c, e) ==
  /\ e.node = c.node
  /\ GpuGoesOn(c) <=> CpuGoesOn(keys, a, e)
  /\ GpuSelects(keys, c) <=> CpuSelects(keys, a, e)

LEMMA KidsTogether ==
  ASSUME WalkInv, NEW k \in Label, NEW b \in gpu, ToLinkEnd(b), ~ OnInnerLink,
         NEW a, AgentOnTheWay(a), a.node = b.node
  PROVE  /\ \A c \in GpuKids(keys, b, k) : \E e \in CpuKids(keys, a, k) : SameKid(a, c, e)
         /\ \A e \in CpuKids(keys, a, k) : \E c \in GpuKids(keys, b, k) : SameKid(a, c, e)
<1>1. /\ keys \in SUBSET Seq(Label) /\ OnTheWay(b) /\ path \in Seq(Label)
      /\ a.query = path /\ a.keyBuf = b.node /\ a.node = b.node /\ a \in Agent
      /\ b \in Beam /\ b.path = path /\ b.node = path \o b.rest
      /\ b.node \in Seq(Label) /\ b.rest \in Seq(Label)
  BY KeysType DEF WalkInv, AgentOnTheWay, OnTheWay, Beam
<1>2. b.inLink <=> CpuLinkParent(keys, a)
  BY InLinkTogether
<1>3. CASE b.inLink
  <2> DEFINE c == [b EXCEPT !.path = Append(@, k), !.rest = Tail(@)]
             e == [a EXCEPT !.query = Append(@, k)]
  <2>1. Len(b.rest) >= 1 /\ Len(b.node) = Len(path) + Len(b.rest)
        /\ b.node[Len(path) + 1] = Head(b.rest)
    <3>1. b.rest # << >>
      BY <1>1, <1>3 DEF OnTheWay
    <3> QED BY <1>1, <3>1, EmptySeq
  <2>2. /\ GpuKids(keys, b, k) = IF k = Head(b.rest) THEN {c} ELSE {}
        /\ CpuKids(keys, a, k) = IF k = Head(b.rest) THEN {e} ELSE {}
    <3>1. GpuKids(keys, b, k) = IF k = Head(b.rest) THEN {c} ELSE {}
      BY <1>3 DEF GpuKids, GpuInLink
    <3>2. CpuKids(keys, a, k) = CpuInLink(a, k)
      BY <1>2, <1>3 DEF CpuKids
    <3>3. a.keyBuf[Len(a.query) + 1] = Head(b.rest)
      BY <1>1, <2>1
    <3> QED BY <3>1, <3>2, <3>3 DEF CpuInLink
  <2>3. c.node = b.node /\ c.rest = Tail(b.rest) /\ (c.inLink <=> TRUE) /\ e.node = b.node
        /\ e.keyBuf = b.node /\ e.query = Append(path, k)
    BY <1>1, <1>3 DEF Beam, Agent
  <2> HIDE DEF c, e
  <2>4. c.rest = << >> <=> Len(e.keyBuf) = Len(e.query)
    <3>1. Len(Tail(b.rest)) = Len(b.rest) - 1 /\ Tail(b.rest) \in Seq(Label)
      BY <1>1, <2>1
    <3>2. Tail(b.rest) = << >> <=> Len(b.rest) = 1
      <4> DEFINE t == Tail(b.rest)
      <4>1. t \in Seq(Label) /\ Len(t) = Len(b.rest) - 1 /\ Len(b.rest) \in Nat
        BY <1>1, <3>1
      <4> HIDE DEF t
      <4>2. t = << >> <=> Len(t) = 0
        BY <4>1, EmptySeq
      <4>3. Len(t) = 0 <=> Len(b.rest) = 1
        BY <4>1
      <4> QED BY <4>2, <4>3 DEF t
    <3>3. Len(e.query) = Len(path) + 1
      BY <1>1, <2>3
    <3>4. Len(b.rest) = 1 <=> Len(e.keyBuf) = Len(e.query)
      <4>1. Len(e.keyBuf) = Len(b.node) /\ Len(b.rest) \in Nat /\ Len(path) \in Nat
        BY <1>1, <2>3
      <4>2. Len(b.node) = Len(path) + Len(b.rest)
        BY <2>1
      <4>3. Len(e.query) = Len(path) + 1
        BY <3>3
      <4> DEFINE x == Len(e.keyBuf)
                 y == Len(e.query)
                 p == Len(path)
                 r == Len(b.rest)
      <4>4. x = p + r /\ y = p + 1 /\ p \in Nat /\ r \in Nat
        BY <4>1, <4>2, <4>3
      <4> HIDE DEF x, y, p, r
      <4>5. r = 1 <=> x = y
        BY <4>4
      <4> QED BY <4>5 DEF x, y, r
    <3> QED BY <2>3, <3>2, <3>4
  <2>5. b.node \in keys
    BY <1>3, InLinkLeaf
  <2>6. SameKid(a, c, e)
    <3>1. GpuGoesOn(c) <=> c.rest # << >>
      BY <2>3 DEF GpuGoesOn, EndLink
    <3>2. CpuGoesOn(keys, a, e) <=> Len(e.keyBuf) # Len(e.query)
      BY <1>2, <1>3 DEF CpuGoesOn
    <3>3. GpuSelects(keys, c) <=> c.rest = << >>
      BY <2>3, <2>5 DEF GpuSelects, EndLink, IsTerminal
    <3>4. CpuSelects(keys, a, e) <=> Len(e.keyBuf) = Len(e.query)
      BY <1>2, <1>3 DEF CpuSelects
    <3> QED BY <2>3, <2>4, <3>1, <3>2, <3>3, <3>4 DEF SameKid
  <2> QED BY <2>2, <2>6
<1>4. CASE ~ b.inLink
  <2>1. b.node = path
    <3>1. b.rest = << >> /\ path \o << >> = path
      BY <1>1, <1>4 DEF OnTheWay
    <3> QED BY <1>1, <3>1 DEF OnTheWay
  <2>2. a.pos = Len(path) /\ ~ CpuLinkParent(keys, a)
    BY <1>2, <1>4 DEF AgentOnTheWay
  <2>3. Append(path, k)[Len(path) + 1] = k
    BY <1>1
  <2> DEFINE found == {d \in ChildNodes(keys, path) : d[Len(path) + 1] = k}
             kidG(d) == [path |-> Append(path, k), node |-> d, inLink |-> IsLink(path, d),
                         rest |-> LinkRest(path, d)]
             kidC(d) == [query |-> Append(path, k), pos |-> a.pos + 1, node |-> d,
                         keyBuf |-> path \o SubSeq(d, Len(path) + 1, Len(d))]
  <2>4. GpuKids(keys, b, k) = {kidG(d) : d \in found}
    BY <1>1, <1>4, <2>1 DEF GpuKids, GpuChildSearch
  <2>5. CpuKids(keys, a, k) = {kidC(d) : d \in found}
    <3>1. CpuKids(keys, a, k) = CpuFindChild(keys, a, k)
      BY <2>2 DEF CpuKids
    <3>2. a.query = path /\ a.keyBuf = path /\ a.node = path
      BY <1>1, <2>1
    <3> QED BY <2>2, <2>3, <3>1, <3>2 DEF CpuFindChild
  <2>6. ASSUME NEW d \in found PROVE SameKid(a, kidG(d), kidC(d))
    <3> DEFINE c == kidG(d)
               e == kidC(d)
    <3>1. d \in Seq(Label) /\ IsPrefix(path, d) /\ Len(path) < Len(d)
      BY <1>1, ChildBelow
    <3>2. e.keyBuf = d /\ e.node = d /\ e.query = Append(path, k)
      BY <1>1, <3>1, PrefixAndRest
    <3>3. c.node = d /\ (c.inLink <=> Len(d) > Len(path) + 1) /\ c.rest = LinkRest(path, d)
      BY DEF IsLink
    <3>4. c.inLink => c.rest # << >>
      <4>1. SUFFICES ASSUME Len(d) > Len(path) + 1 PROVE LinkRest(path, d) # << >>
        BY <3>3
      <4> DEFINE f == Len(path) + 2
      <4>2. f \in Nat /\ f >= 1 /\ f <= Len(d) /\ Len(d) \in Nat
        BY <1>1, <3>1, <4>1
      <4> HIDE DEF f
      <4>3. Len(SubSeq(d, f, Len(d))) = Len(d) - f + 1
        BY <3>1, <4>2
      <4>4. SubSeq(d, f, Len(d)) # << >>
        <5>1. SUFFICES ASSUME SubSeq(d, f, Len(d)) = << >> PROVE FALSE
          OBVIOUS
        <5>2. Len(SubSeq(d, f, Len(d))) = 0
          BY <5>1
        <5> QED BY <4>2, <4>3, <5>2
      <4> QED BY <4>4 DEF LinkRest, f
    <3>5. Len(e.keyBuf) = Len(e.query) <=> ~ c.inLink
      <4>1. Len(e.query) = Len(path) + 1
        BY <1>1, <3>2
      <4>2. Len(d) = Len(path) + 1 <=> ~ (Len(d) > Len(path) + 1)
        BY <1>1, <3>1
      <4> QED BY <3>2, <3>3, <4>1, <4>2
    <3> HIDE DEF c, e
    <3>6. GpuGoesOn(c) /\ CpuGoesOn(keys, a, e)
      BY <2>2, <3>4 DEF GpuGoesOn, EndLink, CpuGoesOn
    <3>7. GpuSelects(keys, c) <=> ~ c.inLink /\ d \in keys
      BY <3>3, <3>4 DEF GpuSelects, EndLink, IsTerminal
    <3>8. CpuSelects(keys, a, e) <=> Len(e.keyBuf) = Len(e.query) /\ d \in keys
      BY <2>2, <3>2 DEF CpuSelects, IsTerminal
    <3> QED BY <3>2, <3>3, <3>5, <3>6, <3>7, <3>8 DEF SameKid, c, e
  <2> HIDE DEF found, kidG, kidC
  <2> QED BY <2>4, <2>5, <2>6
<1> QED BY <1>3, <1>4

-----------------------------------------------------------------------------
LEMMA PairInit ==
  ASSUME WalkInit
  PROVE  PairInv
<1>1. /\ keys \in KeySets /\ path = << >> /\ gpu = {GpuRoot} /\ cpu = {CpuRoot}
      /\ gpuFound = FALSE /\ cpuFound = FALSE /\ WalkInv
  BY WalkStarts DEF WalkInit
<1>2. ToLinkEnd(GpuRoot)
  BY DEF ToLinkEnd, GpuRoot
<1>3. AgentOnTheWay(CpuRoot)
  <2>1. CpuRoot \in Agent /\ CpuRoot.pos = 0 /\ Len(path) = 0
    BY <1>1 DEF CpuRoot, Agent
  <2> QED BY <1>1, <2>1 DEF AgentOnTheWay, CpuRoot
<1>4. Together
  <2>1. CpuRoot.node = GpuRoot.node
    BY DEF CpuRoot, GpuRoot
  <2> QED BY <1>1, <2>1 DEF Together
<1>5. Complete
  <2>1. path \notin keys
    BY <1>1, WalkAssumption
  <2> QED BY <1>1, <2>1 DEF Complete
<1> QED BY <1>1, <1>2, <1>3, <1>4, <1>5 DEF PairInv

(* One token more, for both searches.                                      *)
LEMMA PairDecode ==
  ASSUME PairInv, NEW k \in Label, Decode(k)
  PROVE  PairInv'
<1> DEFINE kids == UNION {GpuKids(keys, b, k) : b \in gpu}
           pairs == UNION {{a} \X CpuKids(keys, a, k) : a \in cpu}
<1>1. /\ path' = Append(path, k) /\ keys' = keys
      /\ gpu' = {c \in kids : GpuGoesOn(c)}
      /\ gpuFound' = (\E c \in kids : GpuSelects(keys, c))
      /\ cpu' = {ae[2] : ae \in {pair \in pairs : CpuGoesOn(keys, pair[1], pair[2])}}
      /\ cpuFound' = (\E pair \in pairs : CpuSelects(keys, pair[1], pair[2]))
  BY DEF Decode
<1>2. WalkInv /\ WalkInv' /\ keys \in SUBSET Seq(Label) /\ path \in Seq(Label)
  BY WalkStep, KeysType DEF PairInv, WalkNext, WalkInv
<1>3. \A pair : pair \in pairs <=>
        \E a \in cpu : \E e \in CpuKids(keys, a, k) : pair = <<a, e>>
  OBVIOUS
<1>4. \A c : c \in kids <=> \E b \in gpu : c \in GpuKids(keys, b, k)
  OBVIOUS
<1>5. \A e : e \in cpu' <=>
        \E a \in cpu : e \in CpuKids(keys, a, k) /\ CpuGoesOn(keys, a, e)
  <2>1. \A e : e \in cpu' <=> \E pair \in pairs : CpuGoesOn(keys, pair[1], pair[2]) /\ e = pair[2]
    BY <1>1
  <2> HIDE DEF pairs
  <2>2. ASSUME NEW e \in cpu'
        PROVE  \E a \in cpu : e \in CpuKids(keys, a, k) /\ CpuGoesOn(keys, a, e)
    <3>1. PICK pair \in pairs : CpuGoesOn(keys, pair[1], pair[2]) /\ e = pair[2]
      BY <2>1
    <3>2. PICK a \in cpu : \E x \in CpuKids(keys, a, k) : pair = <<a, x>>
      BY <1>3
    <3>3. PICK x \in CpuKids(keys, a, k) : pair = <<a, x>>
      BY <3>2
    <3>4. pair[1] = a /\ pair[2] = x
      BY <3>3
    <3> QED BY <3>1, <3>4
  <2>3. ASSUME NEW a \in cpu, NEW e \in CpuKids(keys, a, k), CpuGoesOn(keys, a, e)
        PROVE  e \in cpu'
    <3>1. <<a, e>> \in pairs
      BY <1>3
    <3>2. <<a, e>>[1] = a /\ <<a, e>>[2] = e
      OBVIOUS
    <3> QED BY <2>1, <2>3, <3>1, <3>2
  <2> QED BY <2>2, <2>3
<1>6. cpuFound' <=> \E a \in cpu : \E e \in CpuKids(keys, a, k) : CpuSelects(keys, a, e)
  <2>1. cpuFound' <=> \E pair \in pairs : CpuSelects(keys, pair[1], pair[2])
    BY <1>1
  <2> HIDE DEF pairs
  <2>2. ASSUME NEW pair \in pairs, CpuSelects(keys, pair[1], pair[2])
        PROVE  \E a \in cpu : \E e \in CpuKids(keys, a, k) : CpuSelects(keys, a, e)
    <3>1. PICK a \in cpu : \E x \in CpuKids(keys, a, k) : pair = <<a, x>>
      BY <1>3
    <3>2. PICK x \in CpuKids(keys, a, k) : pair = <<a, x>>
      BY <3>1
    <3>3. pair[1] = a /\ pair[2] = x
      BY <3>2
    <3> QED BY <2>2, <3>3
  <2>3. ASSUME NEW a \in cpu, NEW e \in CpuKids(keys, a, k), CpuSelects(keys, a, e)
        PROVE  \E pair \in pairs : CpuSelects(keys, pair[1], pair[2])
    <3>1. <<a, e>> \in pairs
      BY <1>3
    <3>2. <<a, e>>[1] = a /\ <<a, e>>[2] = e
      OBVIOUS
    <3> QED BY <2>3, <3>1, <3>2
  <2> QED BY <2>1, <2>2, <2>3
<1>7. gpuFound' <=> \E b \in gpu : \E c \in GpuKids(keys, b, k) : GpuSelects(keys, c)
  <2>1. gpuFound' <=> \E c \in kids : GpuSelects(keys, c)
    BY <1>1
  <2> HIDE DEF kids
  <2> QED BY <1>4, <2>1
<1>8. \A c : c \in gpu' <=> \E b \in gpu : c \in GpuKids(keys, b, k) /\ GpuGoesOn(c)
  BY <1>1
<1> HIDE DEF kids, pairs
<1>9. \A b, c \in gpu' : b = c
  <2>1. SUFFICES ASSUME NEW x \in gpu', NEW y \in gpu' PROVE x = y
    OBVIOUS
  <2>2. PICK b \in gpu : x \in GpuKids(keys, b, k)
    BY <1>8
  <2>3. PICK c \in gpu : y \in GpuKids(keys, c, k)
    BY <1>8
  <2>4. b = c /\ b.node \in Seq(Label)
    BY <1>2 DEF PairInv, WalkInv, OnTheWay, Beam
  <2> QED BY <1>2, <2>2, <2>3, <2>4, OneGpuKid
<1>10. \A a, e \in cpu' : a = e
  <2>1. SUFFICES ASSUME NEW x \in cpu', NEW y \in cpu' PROVE x = y
    OBVIOUS
  <2>2. PICK a \in cpu : x \in CpuKids(keys, a, k)
    BY <1>5
  <2>3. PICK e \in cpu : y \in CpuKids(keys, e, k)
    BY <1>5
  <2>4. a = e /\ a.node \in Seq(Label)
    BY DEF PairInv, AgentOnTheWay, Agent
  <2> QED BY <1>2, <2>2, <2>3, <2>4, OneCpuKid
<1>11. \A c \in gpu' : ToLinkEnd(c)'
  <2>1. SUFFICES ASSUME NEW c \in gpu' PROVE ToLinkEnd(c)'
    OBVIOUS
  <2>2. PICK b \in gpu : c \in GpuKids(keys, b, k)
    BY <1>8
  <2>3. /\ Opened(keys, c.node) = c.node
        /\ Below(keys, Append(path, k)) \subseteq Below(keys, c.node)
    BY <1>2, <2>2, KidToLinkEnd DEF PairInv
  <2> QED BY <1>1, <2>3 DEF ToLinkEnd
<1>12. \A e \in cpu' : AgentOnTheWay(e)'
  <2>1. SUFFICES ASSUME NEW e \in cpu' PROVE AgentOnTheWay(e)'
    OBVIOUS
  <2>2. PICK a \in cpu : e \in CpuKids(keys, a, k) /\ CpuGoesOn(keys, a, e)
    BY <1>5
  <2> QED BY <1>1, <1>2, <2>2, AgentKid DEF PairInv
<1>13. ASSUME ~ OnInnerLink' PROVE Together' /\ Complete'
  <2>1. ~ OnInnerLink /\ Together /\ Complete
    BY <1>1, <1>2, <1>13, InnerStays DEF PairInv
  <2>2. ASSUME NEW b \in gpu, NEW a \in cpu, a.node = b.node
        PROVE  /\ \A c \in GpuKids(keys, b, k) : \E e \in CpuKids(keys, a, k) : SameKid(a, c, e)
               /\ \A e \in CpuKids(keys, a, k) : \E c \in GpuKids(keys, b, k) : SameKid(a, c, e)
    BY <1>2, <2>1, <2>2, KidsTogether DEF PairInv
  <2>3. ASSUME NEW c \in gpu' PROVE \E e \in cpu' : e.node = c.node
    <3>1. PICK b \in gpu : c \in GpuKids(keys, b, k) /\ GpuGoesOn(c)
      BY <1>8
    <3>2. PICK a \in cpu : a.node = b.node
      BY <2>1 DEF Together
    <3>3. PICK e \in CpuKids(keys, a, k) : SameKid(a, c, e)
      BY <2>2, <3>1, <3>2
    <3> QED BY <1>5, <3>1, <3>3 DEF SameKid
  <2>4. ASSUME NEW e \in cpu' PROVE \E c \in gpu' : e.node = c.node
    <3>1. PICK a \in cpu : e \in CpuKids(keys, a, k) /\ CpuGoesOn(keys, a, e)
      BY <1>5
    <3>2. PICK b \in gpu : a.node = b.node
      BY <2>1 DEF Together
    <3>3. PICK c \in GpuKids(keys, b, k) : SameKid(a, c, e)
      BY <2>2, <3>1, <3>2
    <3> QED BY <1>8, <3>1, <3>3 DEF SameKid
  <2>5. cpuFound' <=> gpuFound'
    <3>1. ASSUME NEW a \in cpu, NEW e \in CpuKids(keys, a, k), CpuSelects(keys, a, e)
          PROVE  gpuFound'
      <4>1. PICK b \in gpu : a.node = b.node
        BY <2>1 DEF Together
      <4>2. PICK c \in GpuKids(keys, b, k) : SameKid(a, c, e)
        BY <2>2, <4>1
      <4> QED BY <1>7, <3>1, <4>2 DEF SameKid
    <3>2. ASSUME NEW b \in gpu, NEW c \in GpuKids(keys, b, k), GpuSelects(keys, c)
          PROVE  cpuFound'
      <4>1. PICK a \in cpu : a.node = b.node
        BY <2>1 DEF Together
      <4>2. PICK e \in CpuKids(keys, a, k) : SameKid(a, c, e)
        BY <2>2, <4>1
      <4> QED BY <1>6, <3>2, <4>2 DEF SameKid
    <3> QED BY <1>6, <1>7, <3>1, <3>2
  <2>6. Together'
    BY <2>3, <2>4, <2>5 DEF Together
  <2>7. ASSUME NEW key \in keys, IsPrefix(Append(path, k), key)
        PROVE  \E b \in gpu : \E c \in GpuKids(keys, b, k) :
                 /\ Append(path, k) \in keys => GpuSelects(keys, c)
                 /\ (\E q \in keys : IsStrictPrefix(Append(path, k), q)) => GpuGoesOn(c)
    <3>1. key \in Seq(Label) /\ Len(path) < Len(key) /\ IsPrefix(path, key)
      BY <1>2, <2>7, PrefixOfAppend
    <3>2. IsStrictPrefix(path, key)
      <4>1. path # key
        BY <1>2, <3>1
      <4> QED BY <3>1, <4>1 DEF IsStrictPrefix
    <3>3. PICK b \in gpu : TRUE
      BY <2>1, <3>2 DEF Complete
    <3>4. ToLinkEnd(b)
      BY DEF PairInv
    <3>5. Below(keys, Append(path, k)) # {}
      BY <2>7 DEF Below
    <3>6. PICK c \in GpuKids(keys, b, k) : TRUE
      BY <1>2, <3>4, <3>5, KidExists
    <3>7. Kid(c, k)
      BY <1>2, <3>6, KidInLink, KidByChild
    <3> QED BY <1>2, <2>1, <3>4, <3>6, <3>7, KidComplete
  <2>8. path' \in keys' => gpuFound'
    <3>1. SUFFICES ASSUME Append(path, k) \in keys PROVE gpuFound'
      BY <1>1
    <3>2. IsPrefix(Append(path, k), Append(path, k))
      <4>1. Append(path, k) \in Seq(Label)
        BY <1>2
      <4> QED BY <4>1 DEF IsPrefix
    <3> QED BY <1>7, <2>7, <3>1, <3>2
  <2>9. ASSUME NEW key \in keys', IsStrictPrefix(path', key) PROVE gpu' # {}
    <3>1. key \in keys /\ IsPrefix(Append(path, k), key) /\ IsStrictPrefix(Append(path, k), key)
      BY <1>1, <2>9 DEF IsStrictPrefix
    <3>2. PICK b \in gpu : \E c \in GpuKids(keys, b, k) : GpuGoesOn(c)
      BY <2>7, <3>1
    <3> QED BY <1>8, <3>2
  <2> QED BY <2>6, <2>8, <2>9 DEF Complete
<1>14. gpuFound' \in BOOLEAN /\ cpuFound' \in BOOLEAN
  BY <1>1
<1> QED BY <1>2, <1>9, <1>10, <1>11, <1>12, <1>13, <1>14 DEF PairInv

LEMMA PairStep ==
  ASSUME PairInv, [WalkNext]_walkVars
  PROVE  PairInv'
<1>1. CASE UNCHANGED walkVars
  <2>1. /\ keys' = keys /\ path' = path /\ gpu' = gpu /\ cpu' = cpu
        /\ gpuFound' = gpuFound /\ cpuFound' = cpuFound
    BY <1>1 DEF walkVars
  <2>2. WalkInv'
    BY WalkStep DEF PairInv
  <2>3. OnInnerLink' <=> OnInnerLink
    BY <2>1 DEF OnInnerLink
  <2>4. (Together' <=> Together) /\ (Complete' <=> Complete)
    BY <2>1 DEF Together, Complete
  <2>5. /\ \A b \in gpu : ToLinkEnd(b)' <=> ToLinkEnd(b)
        /\ \A a \in cpu : AgentOnTheWay(a)' <=> AgentOnTheWay(a)
    BY <2>1 DEF ToLinkEnd, AgentOnTheWay
  <2> QED BY <2>1, <2>2, <2>3, <2>4, <2>5 DEF PairInv
<1>2. CASE WalkNext
  BY <1>2, PairDecode DEF WalkNext
<1> QED BY <1>1, <1>2

(* Beam and agent side by side, for all sets of keys.                      *)
THEOREM SideBySide == WalkSpec => []PairInv
BY PairInit, PairStep, PTL DEF WalkSpec

(* A token finds one child at most, the beam stands as far before its node *)
(* as there is link left, and the agent looks up the token just proposed.  *)
THEOREM WalkTypes == WalkSpec => []TypeOK
<1>1. ASSUME PairInv PROVE TypeOK
  <2>1. path \in Seq(Label)
    BY <1>1 DEF PairInv, WalkInv
  <2>2. Cardinality(gpu) <= 1 /\ Cardinality(cpu) <= 1
    BY <1>1, AtMostOne DEF PairInv
  <2>3. \A b \in gpu : b.path = path /\ b.path \o b.rest = b.node
    BY <1>1 DEF PairInv, WalkInv, OnTheWay
  <2>4. \A a \in cpu : a.query = path /\ (CpuLinkParent(keys, a) \/ a.pos = Len(path))
    BY <1>1 DEF PairInv, AgentOnTheWay
  <2> QED BY <2>1, <2>2, <2>3, <2>4 DEF TypeOK
<1> QED BY <1>1, SideBySide, PTL

(* As long as links end in leaves, the GPU search selects every key that   *)
(* its proposals spell.                                                    *)
THEOREM GpuFindsKeys == WalkSpec => []KeysFound
<1>1. PairInv => KeysFound
  BY DEF PairInv, Complete, KeysFound
<1> QED BY <1>1, SideBySide, PTL

(* ... and neither search gives up a path below which there are keys ...   *)
THEOREM PathsStayOpen == WalkSpec => []PrefixesKept
<1>1. ASSUME PairInv PROVE PrefixesKept
  <2>1. SUFFICES ASSUME \E key \in keys : IsStrictPrefix(path, key), ~ OnInnerLink
                 PROVE  gpu # {} /\ cpu # {}
    BY DEF PrefixesKept
  <2>2. Together /\ gpu # {}
    BY <1>1, <2>1 DEF PairInv, Complete
  <2> QED BY <2>2 DEF Together
<1> QED BY <1>1, SideBySide, PTL

(* ... and the CPU search selects what the GPU search selects.             *)
THEOREM SameKeys == WalkSpec => []SearchesAgree
<1>1. ASSUME PairInv PROVE SearchesAgree
  <2>1. SUFFICES ASSUME ~ OnInnerLink PROVE cpuFound = gpuFound
    BY DEF SearchesAgree
  <2>2. gpuFound \in {TRUE, FALSE} /\ cpuFound \in {TRUE, FALSE}
    BY <1>1 DEF PairInv
  <2>3. cpuFound <=> gpuFound
    BY <1>1, <2>1 DEF PairInv, Together
  <2> QED BY <2>2, <2>3, Zenon
<1> QED BY <1>1, SideBySide, PTL
=============================================================================
