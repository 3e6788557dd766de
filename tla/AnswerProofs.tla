---------------------------- MODULE AnswerProofs -----------------------------
(***************************************************************************)
(* What the beam search kernel answers, for any grid, trie, proposals,     *)
(* scores and widths that leave room: every surviving set of beams is one  *)
(* that the abstract search of BeamSearch may keep, and the answer is one  *)
(* that it may give.  The proof follows the set of children that were      *)
(* pushed and are still to be pushed through every output position.        *)
(***************************************************************************)
EXTENDS BeamKernelProofs, TrieProofs, FunctionTheorems

USE ContainerAssumption, KernelAssumption DEF Least

-----------------------------------------------------------------------------
(* The paths in a container; that none is in it twice; and the paths of    *)
(* the beams that a cut to the capacity leaves.                            *)
Paths(c) == {b.path : b \in Contents(c)}

Distinct(c) == \A i, j \in 0 .. c.size - 1 : c.cand[i].path = c.cand[j].path => i = j

Kept(c) == 0 .. Least(c.size, c.cap) - 1

FrontPaths(c) == {c.cand[i].path : i \in Kept(c)}

(* A trim has brought the best of a set of paths to the front, each once.  *)
Winners(c, S) ==
  /\ IsFiniteSet(S)
  /\ FrontPaths(c) \subseteq S
  /\ Least(c.size, c.cap) = Least(Cardinality(S), c.cap)
  /\ \A i, j \in Kept(c) : c.cand[i].path = c.cand[j].path => i = j
  /\ \A p \in S \ FrontPaths(c), i \in Kept(c) : Score[p] <= Score[c.cand[i].path]

InOrder(c) ==
  \A i, j \in Kept(c) : i < j => Score[c.cand[i].path] >= Score[c.cand[j].path]

(* The children of the beams of cur_, and those that are still to come.    *)
KidsOf(c) == {Append(p, k) : p \in Paths(c), k \in Token}

Kids(n) == KidsOf(cont[Now(n)])

Coming(D) == {x[2].path : x \in D}

(* What was pushed and what is still to come, each path once, is a set S.  *)
Gathers(D, In, S) ==
  /\ In \cup Coming(D) = S
  /\ In \cap Coming(D) = {}
  /\ \A x, y \in D : x[2].path = y[2].path => x = y

(* The leader on its way out of the loop.                                  *)
Final == {"finalTrim", "finalSync", "finalCut", "outSync", "generate", "done"}

PushedAt(n) == {p \in pushed : Len(p) = n}

NextGathers(n) ==
  pc[Leader] \in StartAt /\ n < NumOutpos =>
    Distinct(cont[Later(n)]) /\ Gathers(Debts("next"), Paths(cont[Later(n)]), Kids(n) \cap ToNext)

(* Without a barrier in the trim others may have cut next_ already.        *)
NextGathered(n) ==
  pc[Leader] = "trim" /\ n < NumOutpos =>
    IF SortsNext(n) THEN Distinct(cont[Later(n)]) /\ Paths(cont[Later(n)]) = Kids(n) \cap ToNext
                    ELSE Winners(cont[Later(n)], Kids(n) \cap ToNext)

SelectedGathers(n) ==
  pc[Leader] \in BeforeSave \cup Final /\ n < NumOutpos =>
    Gathers(Debts("selected"), PushedAt(n + 1), Kids(n) \cap ToSelected)

NextWinners(n) ==
  pc[Leader] \in {"trimSync", "shrink", "save"} /\ n < NumOutpos =>
    Winners(cont[Later(n)], Kids(n) \cap ToNext)

(* Beams of one output position have as many tokens.                       *)
LevelPaths(c, n) == Distinct(c) /\ \A p \in Paths(c) : Len(p) = n

CurPaths(n) ==
  /\ pc[Leader] \in BeforeSave \cup Final => LevelPaths(cont[Now(n)], n)
  /\ pc[Leader] = "saveSync" => /\ LevelPaths(cont[Later(n)], n + 1)
                                /\ cont[Later(n)].size <= cont[Later(n)].cap

PushedLengths(n) ==
  \A p \in pushed : Len(p) <= n \/ (n < NumOutpos /\ Len(p) = n + 1)

SelectedWon == Winners(cont["selected"], pushed) /\ InOrder(cont["selected"])

SelectedPaths ==
  /\ cont["selected"].cap = FinalBeam
  /\ pc[Leader] \in BeforeFinal =>
       \/ Distinct(cont["selected"]) /\ Paths(cont["selected"]) = pushed
       \/ /\ pc[Leader] \in {"check", "swap", "top", "finalTrim"}
          /\ Ends(LevelOf(Leader)) /\ ~SortsLast /\ SelectedWon
  /\ pc[Leader] \in {"finalSync", "finalCut", "outSync", "generate"} => SelectedWon
  /\ pc[Leader] \in {"outSync", "generate"} => cont["selected"].size <= FinalBeam

(* Every saved beam but the root can be traced back by one token more.     *)
Chain == \A i \in DOMAIN beams : ParentSaved(beams[i])

SearchInv ==
  /\ pc[Leader] = "init" => pushed = {}
  /\ pc[Leader] # "init" =>
       /\ NextGathers(LevelOf(Leader))
       /\ NextGathered(LevelOf(Leader))
       /\ SelectedGathers(LevelOf(Leader))
       /\ NextWinners(LevelOf(Leader))
       /\ CurPaths(LevelOf(Leader))
       /\ PushedLengths(LevelOf(Leader))
       /\ SelectedPaths
       /\ Chain
       /\ pc[Leader] \in Final => Ends(LevelOf(Leader))
       /\ BestAnswer
-----------------------------------------------------------------------------
(* Paths, and what a set of scores and beams is after the operations.      *)
LEMMA AppendOne ==
  ASSUME NEW p \in Seq(Token), NEW q \in Seq(Token), NEW k \in Token, NEW j \in Token
  PROVE  /\ Append(p, k) = Append(q, j) => p = q /\ k = j
         /\ Len(Append(p, k)) = Len(p) + 1
         /\ Append(p, k) # << >>
<1>1. /\ Append(p, k) \in Seq(Token) /\ Append(q, j) \in Seq(Token)
      /\ Len(Append(p, k)) = Len(p) + 1 /\ Len(Append(q, j)) = Len(q) + 1
      /\ Append(p, k)[Len(p) + 1] = k /\ Append(q, j)[Len(q) + 1] = j
      /\ \A i \in 1 .. Len(p) : Append(p, k)[i] = p[i]
      /\ \A i \in 1 .. Len(q) : Append(q, j)[i] = q[i]
  OBVIOUS
<1>2. ASSUME Append(p, k) = Append(q, j) PROVE p = q /\ k = j
  <2>1. Len(p) = Len(q) /\ Len(p) \in Nat
    BY <1>1, <1>2, LenProperties
  <2>2. \A i \in 1 .. Len(p) : p[i] = q[i]
    BY <1>1, <1>2, <2>1
  <2>3. p = q
    BY <2>1, <2>2, SeqEqual
  <2> QED BY <1>1, <1>2, <2>3
<1>3. Append(p, k) # << >>
  <2>1. SUFFICES ASSUME Append(p, k) = << >> PROVE FALSE
    OBVIOUS
  <2>2. Len(p) \in Nat /\ Len(<< >>) = 0 /\ Len(Append(p, k)) = 0
    BY <2>1, LenProperties, EmptySeq
  <2>3. Len(p) + 1 = 0
    BY <1>1, <2>2
  <2> QED BY <2>2, <2>3
<1> QED BY <1>1, <1>2, <1>3

LEMMA PathsAt ==
  ASSUME NEW c
  PROVE  Paths(c) = {c.cand[i].path : i \in 0 .. c.size - 1}
BY DEF Paths, Contents

LEMMA PathsType ==
  ASSUME NEW c \in Container
  PROVE  Paths(c) \subseteq Path
<1> SUFFICES ASSUME NEW i \in 0 .. c.size - 1 PROVE c.cand[i].path \in Path
  BY PathsAt
<1>1. i \in Slots
  BY ContainerFields DEF Slots
<1>2. c.cand[i] \in Beam
  BY <1>1, ContainerFields
<1> QED BY <1>2 DEF Beam

(* As many paths as beams when none is there twice.                        *)
LEMMA DistinctCount ==
  ASSUME NEW c \in Container, Distinct(c)
  PROVE  IsFiniteSet(Paths(c)) /\ Cardinality(Paths(c)) = c.size
<1> DEFINE f == [i \in 0 .. c.size - 1 |-> c.cand[i].path]
           S == 0 .. c.size - 1
<1>1. c.size \in Nat
  BY ContainerFields
<1>2. IsFiniteSet(S) /\ Cardinality(S) = c.size
  <2>1. 0 \in Int /\ c.size - 1 \in Int
    BY <1>1
  <2>2. IsFiniteSet(S) /\ Cardinality(S) = IF 0 > c.size - 1 THEN 0 ELSE c.size - 1 - 0 + 1
    BY <2>1, FS_Interval
  <2> HIDE DEF S
  <2> QED BY <1>1, <2>2
<1>3. f \in Surjection(S, Paths(c)) /\ f \in Injection(S, Paths(c))
  <2>1. \A i \in S : f[i] = c.cand[i].path
    OBVIOUS
  <2>2. f \in [S -> Paths(c)]
    BY PathsAt
  <2>3. \A i, j \in S : f[i] = f[j] => i = j
    BY <2>1 DEF Distinct
  <2>4. \A p \in Paths(c) : \E i \in S : f[i] = p
    BY <2>1, PathsAt
  <2> HIDE DEF f, S
  <2> QED BY <2>2, <2>3, <2>4, Fun_IsInj, Fun_IsSurj
<1> HIDE DEF f, S
<1> QED BY <1>2, <1>3, FS_Surjection

(* A push of a path that is not there yet.                                 *)
LEMMA PushedPaths ==
  ASSUME NEW c \in Container, NEW b \in Beam, HasRoom(c)
  PROVE  /\ Paths(Pushed(c, b)) = Paths(c) \cup {b.path}
         /\ Distinct(c) /\ b.path \notin Paths(c) => Distinct(Pushed(c, b))
         /\ Pushed(c, b).cap = c.cap
<1> DEFINE d == Pushed(c, b)
<1>1. c.size \in Slots /\ c.cand \in [Slots -> Beam] /\ c.size \in Nat
  BY ContainerFields DEF HasRoom, Slots
<1>2. d.size = c.size + 1 /\ d.cand = [c.cand EXCEPT ![c.size] = b] /\ d.cap = c.cap
  BY DEF Pushed, Container
<1>3. 0 .. d.size - 1 = (0 .. c.size - 1) \cup {c.size} /\ 0 .. c.size \subseteq Slots
  BY <1>1, <1>2 DEF Slots
<1> HIDE DEF d
<1>4. d.cand[c.size] = b /\ \A i \in 0 .. c.size - 1 : d.cand[i] = c.cand[i]
  BY <1>1, <1>2, <1>3
<1>5. Paths(d) = Paths(c) \cup {b.path}
  <2>1. Paths(d) = {d.cand[i].path : i \in (0 .. c.size - 1) \cup {c.size}}
    BY <1>3, PathsAt
  <2>2. Paths(c) = {c.cand[i].path : i \in 0 .. c.size - 1}
    BY PathsAt
  <2>3. ASSUME NEW p \in Paths(d) PROVE p \in Paths(c) \cup {b.path}
    <3>1. PICK i \in (0 .. c.size - 1) \cup {c.size} : p = d.cand[i].path
      BY <2>1
    <3> QED BY <1>4, <2>2, <3>1
  <2>4. ASSUME NEW p \in Paths(c) PROVE p \in Paths(d)
    <3>1. PICK i \in 0 .. c.size - 1 : p = c.cand[i].path
      BY <2>2
    <3> QED BY <1>4, <2>1, <3>1
  <2>5. b.path \in Paths(d)
    <3>1. c.size \in (0 .. c.size - 1) \cup {c.size} /\ b.path = d.cand[c.size].path
      BY <1>4
    <3> HIDE DEF Paths
    <3> QED BY <2>1, <3>1
  <2> QED BY <2>3, <2>4, <2>5
<1>6. ASSUME Distinct(c), b.path \notin Paths(c) PROVE Distinct(d)
  <2> SUFFICES ASSUME NEW i \in 0 .. d.size - 1, NEW j \in 0 .. d.size - 1,
                      d.cand[i].path = d.cand[j].path
               PROVE  i = j
    BY DEF Distinct
  <2>1. \A m \in 0 .. c.size - 1 : d.cand[m].path # b.path
    BY <1>4, <1>6, PathsAt
  <2>2. CASE i = c.size \/ j = c.size
    BY <1>3, <1>4, <2>1, <2>2
  <2>3. CASE i # c.size /\ j # c.size
    BY <1>3, <1>4, <1>6, <2>3 DEF Distinct
  <2> QED BY <2>2, <2>3
<1> QED BY <1>2, <1>5, <1>6 DEF d

LEMMA ClearedPaths ==
  ASSUME NEW c \in Container, NEW k
  PROVE  /\ Paths(WithCapacity(Cleared(c), k)) = {}
         /\ Distinct(WithCapacity(Cleared(c), k))
<1> DEFINE d == WithCapacity(Cleared(c), k)
<1>1. Contents(d) = {} /\ d.size = 0
  BY ClearedParts
<1> HIDE DEF d
<1> QED BY <1>1 DEF Paths, Distinct, d

LEMMA NumberedPaths ==
  ASSUME NEW c \in Container, NEW base \in Nat
  PROVE  /\ Paths(Numbered(c, base)) = Paths(c)
         /\ Distinct(c) => Distinct(Numbered(c, base))
<1> DEFINE d == Numbered(c, base)
<1>1. d.size = c.size /\ \A i \in 0 .. c.size - 1 : d.cand[i].path = c.cand[i].path
  BY NumberedParts
<1> HIDE DEF d
<1>2. Paths(d) = {d.cand[i].path : i \in 0 .. c.size - 1}
  BY <1>1, PathsAt
<1>3. Paths(d) = Paths(c)
  BY <1>1, <1>2, PathsAt
<1>4. Distinct(c) => Distinct(d)
  BY <1>1 DEF Distinct
<1> QED BY <1>3, <1>4 DEF d

(* What the sort leaves in front are the best, each once, in order.        *)
LEMMA SortedWinners ==
  ASSUME NEW c \in Container, Fresh(c), Distinct(c), NEW f \in Orders(c)
  PROVE  Winners(Sorted(c, f), Paths(c)) /\ InOrder(Sorted(c, f))
<1> DEFINE live == 0 .. c.size - 1
           kept == Least(c.size, c.cap)
           meta == [i \in Slots |-> IF i < c.size THEN c.meta[f[i]] ELSE c.meta[i]]
           cand == [i \in Slots |-> IF i < kept THEN c.cand[meta[i].pos] ELSE c.cand[i]]
           d    == Sorted(c, f)
<1>1. c.size \in 0 .. Buffer /\ c.cap \in Nat /\ live \subseteq Slots
  BY ContainerFields DEF Slots
<1>2. /\ f \in [live -> live]
      /\ \A w \in live : \E v \in live : f[v] = w
      /\ \A i, j \in live : f[i] = f[j] => i = j
      /\ \A i, j \in live : i < j => c.meta[f[i]].score >= c.meta[f[j]].score
  <2>1. /\ f \in Bijection(live, live)
        /\ \A i, j \in live : i < j => c.meta[f[i]].score >= c.meta[f[j]].score
    BY DEF Orders
  <2> HIDE DEF live
  <2>2. f \in [live -> live] /\ IsInjective(f) /\ \A w \in live : \E v \in live : f[v] = w
    BY <2>1 DEF Bijection, Injection, Surjection
  <2> QED BY <2>1, <2>2 DEF IsInjective
<1>3. d = [c EXCEPT !.meta = meta, !.cand = cand]
  BY DEF Sorted
<1>4. \A i \in live : i < c.size /\ i \in Slots /\ meta[i] = c.meta[f[i]]
  <2> TAKE i \in live
  <2>1. i < c.size /\ i \in Slots
    BY <1>1
  <2> QED BY <2>1
<1>5. kept \in 0 .. c.size /\ \A i \in 0 .. kept - 1 : i \in live /\ i < kept
  BY SMTT(30), <1>1
<1>6. \A i \in 0 .. kept - 1 : cand[i] = c.cand[f[i]]
  <2> TAKE i \in 0 .. kept - 1
  <2>1. i \in Slots /\ i < kept /\ i \in live
    <3> HIDE DEF live, kept, meta
    <3> QED BY <1>4, <1>5
  <2>2. meta[i].pos = f[i]
    <3>1. f[i] \in live
      BY <1>2, <2>1
    <3> QED BY <1>4, <2>1, <3>1 DEF Fresh
  <2> HIDE DEF meta, kept
  <2> QED BY <2>1, <2>2
<1> HIDE DEF cand, meta
<1>7. d.size = c.size /\ d.cap = c.cap /\ d.cand = cand
  BY <1>3 DEF Container
<1> DEFINE score(i) == c.meta[f[i]].score
<1>8. \A i \in live : f[i] \in live /\ score(i) = Score[c.cand[f[i]].path] /\ score(i) \in Int
  <2> TAKE i \in live
  <2>1. f[i] \in live
    BY <1>2
  <2>2. c.meta[f[i]] \in SortState
    BY <1>1, <2>1, ContainerFields
  <2> QED BY <2>1, <2>2 DEF Fresh, SortState
<1>10. \A i, j \in live : i < j => score(i) >= score(j)
  BY <1>2
<1>11. Kept(d) = 0 .. kept - 1 /\ \A i \in Kept(d) : i \in live /\ d.cand[i] = c.cand[f[i]]
  BY <1>5, <1>6, <1>7 DEF Kept
<1>12. FrontPaths(d) \subseteq Paths(c)
  BY SMTT(30), <1>8, <1>11, PathsAt DEF FrontPaths
<1>13. IsFiniteSet(Paths(c)) /\ Cardinality(Paths(c)) = c.size
  BY DistinctCount
<1>14. \A i, j \in Kept(d) : d.cand[i].path = d.cand[j].path => i = j
  <2> TAKE i, j \in Kept(d)
  <2>1. f[i] \in live /\ f[j] \in live /\ i \in live /\ j \in live
    BY <1>8, <1>11
  <2>2. c.cand[f[i]].path = c.cand[f[j]].path => f[i] = f[j]
    BY <2>1 DEF Distinct
  <2> HIDE DEF live
  <2> QED BY <1>2, <1>11, <2>1, <2>2
<1>15. ASSUME NEW p \in Paths(c) \ FrontPaths(d), NEW i \in Kept(d)
       PROVE  Score[p] <= Score[d.cand[i].path]
  <2>1. PICK w \in live : p = c.cand[w].path
    BY PathsAt
  <2>2. PICK v \in live : f[v] = w
    BY <1>2
  <2>3. v \notin Kept(d)
    BY <1>11, <1>15, <2>1, <2>2 DEF FrontPaths
  <2>4. i < v /\ i \in live
    <3>1. kept \in Int /\ v \in Int /\ v >= 0 /\ i \in 0 .. kept - 1
      BY <1>1, <1>5, <1>11
    <3> HIDE DEF kept, live
    <3> QED BY <1>11, <2>3, <3>1
  <2>5. score(i) >= score(v)
    BY <1>10, <2>4
  <2> HIDE DEF score, live
  <2>6. score(i) = Score[d.cand[i].path] /\ score(v) = Score[p] /\ score(i) \in Int /\ score(v) \in Int
    BY SMTT(30), <1>8, <1>11, <2>1, <2>2, <2>4
  <2> QED BY <2>5, <2>6
<1>16. ASSUME NEW i \in Kept(d), NEW j \in Kept(d), i < j
       PROVE  Score[d.cand[i].path] >= Score[d.cand[j].path]
  <2>1. i \in live /\ j \in live
    BY <1>11
  <2>2. score(i) >= score(j)
    BY <1>10, <1>16, <2>1
  <2>3. score(i) = Score[d.cand[i].path] /\ score(j) = Score[d.cand[j].path]
    <3> HIDE DEF score, d
    <3>1. d.cand[i] = c.cand[f[i]] /\ d.cand[j] = c.cand[f[j]]
      BY <1>11
    <3>2. score(i) = Score[c.cand[f[i]].path] /\ score(j) = Score[c.cand[f[j]].path]
      BY <1>8, <2>1
    <3> QED BY <3>1, <3>2
  <2> HIDE DEF score
  <2> QED BY <2>2, <2>3
<1> HIDE DEF live, kept, score, d
<1>17. Winners(d, Paths(c))
  BY <1>7, <1>12, <1>13, <1>14, <1>15 DEF Winners
<1>18. InOrder(d)
  BY <1>16 DEF InOrder
<1> QED BY <1>17, <1>18 DEF d

(* A trim without a sort has nothing to choose.                            *)
LEMMA UnsortedWinners ==
  ASSUME NEW c \in Container, Distinct(c), c.size <= c.cap \/ c.size <= 1
  PROVE  /\ Winners(c, Paths(c))
         /\ c.size <= 1 => InOrder(c)
<1>1. c.size \in Nat /\ c.cap \in Nat
  BY ContainerFields
<1>2. IsFiniteSet(Paths(c)) /\ Cardinality(Paths(c)) = c.size
  BY DistinctCount
<1>3. \A i \in Kept(c) : i \in 0 .. c.size - 1
  BY <1>1 DEF Kept
<1>4. FrontPaths(c) \subseteq Paths(c)
  BY <1>3, PathsAt DEF FrontPaths
<1>5. \A i, j \in Kept(c) : c.cand[i].path = c.cand[j].path => i = j
  BY <1>3 DEF Distinct
<1>6. Kept(c) = {} \/ FrontPaths(c) = Paths(c)
  <2>1. CASE c.size <= c.cap
    <3>1. Kept(c) = 0 .. c.size - 1
      BY <1>1, <2>1 DEF Kept
    <3> QED BY <3>1, PathsAt DEF FrontPaths
  <2>2. CASE ~ (c.size <= c.cap)
    <3>1. c.cap = 0
      BY <1>1, <2>2
    <3> QED BY <1>1, <3>1 DEF Kept
  <2> QED BY <2>1, <2>2
<1>7. \A p \in Paths(c) \ FrontPaths(c), i \in Kept(c) : Score[p] <= Score[c.cand[i].path]
  BY <1>6
<1>8. Winners(c, Paths(c))
  BY <1>2, <1>4, <1>5, <1>7 DEF Winners
<1>9. c.size <= 1 => InOrder(c)
  <2> SUFFICES ASSUME c.size <= 1, NEW i \in Kept(c), NEW j \in Kept(c), i < j PROVE FALSE
    BY DEF InOrder
  <2>1. i \in 0 .. c.size - 1 /\ j \in 0 .. c.size - 1
    BY <1>3
  <2> QED BY <1>1, <2>1
<1> QED BY <1>8, <1>9

LEMMA CollectedWinners ==
  ASSUME NEW c \in Container, Fresh(c), Distinct(c), c.cap <= RadixThreshold,
         NEW force \in BOOLEAN, NEW d \in Collected(c, force)
  PROVE  /\ Winners(d, Paths(c))
         /\ force => InOrder(d)
<1>1. c.size \in Nat /\ c.cap \in Nat
  BY ContainerFields
<1>2. CASE Sorts(c, force)
  <2>1. PICK f \in Orders(c) : d = Sorted(c, f)
    BY <1>2 DEF Collected
  <2> QED BY <2>1, SortedWinners
<1>3. CASE ~Sorts(c, force)
  <2>1. d = c
    BY <1>3 DEF Collected
  <2>2. c.size <= c.cap \/ c.size <= 1
    BY <1>1, <1>3 DEF Sorts
  <2>3. force => c.size <= 1
    BY <1>1, <1>3 DEF Sorts
  <2> QED BY <2>1, <2>2, <2>3, UnsortedWinners
<1> QED BY <1>2, <1>3

(* The cut leaves the winners, and nothing but the winners.                *)
LEMMA ShrunkWinners ==
  ASSUME NEW c \in Container, NEW S, Winners(c, S)
  PROVE  /\ Winners(Shrunk(c), S)
         /\ InOrder(c) => InOrder(Shrunk(c))
<1> DEFINE d == Shrunk(c)
<1>1. c.size \in Nat /\ c.cap \in Nat
  BY ContainerFields
<1>2. d.size = Least(c.size, c.cap) /\ d.cap = c.cap /\ d.cand = c.cand
  BY DEF Shrunk, Container
<1> HIDE DEF d
<1>3. Least(d.size, d.cap) = Least(c.size, c.cap) /\ Kept(d) = Kept(c)
  BY <1>1, <1>2 DEF Kept
<1>4. FrontPaths(d) = FrontPaths(c)
  BY <1>2, <1>3 DEF FrontPaths
<1>5. Winners(d, S)
  BY <1>2, <1>3, <1>4 DEF Winners
<1>6. InOrder(c) => InOrder(d)
  BY <1>2, <1>3 DEF InOrder
<1> QED BY <1>5, <1>6 DEF d

LEMMA CutWinners ==
  ASSUME NEW c \in Container, NEW S, Winners(c, S), c.size <= c.cap
  PROVE  Distinct(c) /\ Paths(c) = FrontPaths(c) /\ Kept(c) = 0 .. c.size - 1
<1>1. c.size \in Nat /\ c.cap \in Nat
  BY ContainerFields
<1>2. Kept(c) = 0 .. c.size - 1
  BY <1>1 DEF Kept
<1> QED BY <1>2, PathsAt DEF Winners, Distinct, FrontPaths

-----------------------------------------------------------------------------
(* The backtrace.  From a beam whose ancestors were all saved it gives the *)
(* tokens of the beam's own path.                                          *)
LEMMA CutLast ==
  ASSUME NEW p \in Seq(Token), NEW n \in 1 .. Len(p), NEW q \in Seq(Token), NEW k \in Token,
         SubSeq(p, 1, n) = Append(q, k)
  PROVE  q = SubSeq(p, 1, n - 1)
<1> DEFINE s == SubSeq(p, 1, n)
           r == SubSeq(p, 1, n - 1)
<1>1. n \in Nat /\ Len(p) \in Nat /\ n >= 1 /\ n <= Len(p)
  OBVIOUS
<1>2. s \in Seq(Token) /\ Len(s) = n /\ \A i \in 1 .. n : s[i] = p[i]
  BY <1>1, SubSeqProperties
<1>3. r \in Seq(Token) /\ Len(r) = n - 1 /\ \A i \in 1 .. n - 1 : r[i] = p[i]
  BY <1>1, SubSeqProperties
<1>4. Len(Append(q, k)) = Len(q) + 1 /\ \A i \in 1 .. Len(q) : Append(q, k)[i] = q[i]
  OBVIOUS
<1>5. Len(q) = n - 1
  BY <1>1, <1>2, <1>4, LenProperties
<1> HIDE DEF r
<1>6. \A i \in 1 .. Len(q) : q[i] = r[i]
  <2> TAKE i \in 1 .. Len(q)
  <2>1. i \in 1 .. n - 1 /\ i \in 1 .. n
    BY <1>1, <1>5
  <2>2. r[i] = p[i] /\ s[i] = p[i]
    BY <1>2, <1>3, <2>1
  <2> HIDE DEF s
  <2> QED BY <1>4, <2>2 DEF s
<1>7. q = r
  BY <1>3, <1>5, <1>6, SeqEqual
<1> QED BY <1>7 DEF r

LEMMA SentenceIsPath ==
  ASSUME Root = << >>, beams \in Seq(Beam), Chain, NEW b \in Beam, ParentSaved(b)
  PROVE  Sentence(b) = b.path
<1> DEFINE p == b.path
           D == Len(b.path) - Len(Root)
           up(c) == beams[c.parent + 1]
           Ancestors(m, g) == /\ g \in [0 .. m -> Beam]
                              /\ g[0] = b
                              /\ \A n \in 1 .. m : g[n] = up(g[n - 1])
                              /\ \A n \in 0 .. m : g[n].path = SubSeq(p, 1, D - n) /\ ParentSaved(g[n])
<1>1. p \in Seq(Token) /\ D \in Nat /\ D = Len(p) /\ SubSeq(p, 1, D) = p
  <2>1. p \in Seq(Token) /\ Len(p) \in Nat /\ Len(Root) = 0
    BY LenProperties, EmptySeq DEF Beam
  <2>2. D = Len(p)
    BY <2>1
  <2> HIDE DEF D, p
  <2> QED BY <2>1, <2>2, SubSeqFull
<1>2. ASSUME NEW m \in 1 .. D, NEW c \in Beam, c.path = SubSeq(p, 1, D - (m - 1)), ParentSaved(c)
      PROVE  up(c) \in Beam /\ up(c).path = SubSeq(p, 1, D - m) /\ ParentSaved(up(c))
  <2> DEFINE n == D - (m - 1)
  <2>1. n \in 1 .. D /\ n - 1 = D - m
    BY <1>1
  <2>2. c.path # << >>
    <3>1. Len(SubSeq(p, 1, n)) = n
      BY <1>1, <2>1, SubSeqProperties
    <3> HIDE DEF n
    <3>2. n # 0
      BY <2>1
    <3> QED BY <1>2, <3>1, <3>2, EmptySeq DEF n
  <2>3. c.parent + 1 \in DOMAIN beams /\ \E k \in Token : c.path = Append(up(c).path, k)
    BY <1>2, <2>2 DEF ParentSaved
  <2>4. up(c) \in Beam /\ ParentSaved(up(c))
    BY <2>3, LenProperties DEF Chain
  <2> HIDE DEF up
  <2>5. PICK k \in Token : SubSeq(p, 1, n) = Append(up(c).path, k)
    BY <1>2, <2>3
  <2>6. up(c).path \in Seq(Token)
    BY <2>4 DEF Beam
  <2> HIDE DEF n, p, D
  <2>7. n \in 1 .. Len(p)
    BY <1>1, <2>1
  <2> DEFINE q == up(c).path
  <2>8. q = SubSeq(p, 1, n - 1)
    <3>1. q \in Seq(Token) /\ SubSeq(p, 1, n) = Append(q, k) /\ k \in Token
      BY <2>5, <2>6
    <3> HIDE DEF q
    <3> QED BY ZenonT(30), <1>1, <2>7, <3>1, CutLast
  <2> QED BY <2>1, <2>4, <2>8
<1> HIDE DEF up, p, D
<1>3. \A m \in 0 .. D : \E g : Ancestors(m, g)
  <2> DEFINE T == {m \in 0 .. D : ~ \E g : Ancestors(m, g)}
  <2> SUFFICES ASSUME T # {} PROVE FALSE
    OBVIOUS
  <2>1. T \subseteq Nat
    BY <1>1
  <2> HIDE DEF T
  <2>2. PICK m \in T : \A y \in T : m <= y
    BY <2>1, LeastNatural
  <2>3. m \in 0 .. D /\ ~ \E g : Ancestors(m, g)
    BY <2>2 DEF T
  <2>4. CASE m = 0
    <3> DEFINE g == [n \in 0 .. 0 |-> b]
    <3>1. g \in [0 .. 0 -> Beam] /\ g[0] = b /\ \A n \in 0 .. 0 : g[n] = b /\ n = 0
      OBVIOUS
    <3>2. b.path = SubSeq(p, 1, D - 0)
      BY <1>1 DEF p
    <3> HIDE DEF g
    <3>3. Ancestors(0, g)
      BY <3>1, <3>2
    <3> QED BY <2>3, <2>4, <3>3
  <2>5. CASE m # 0
    <3>1. m - 1 \in 0 .. D /\ m - 1 \notin T /\ m \in 1 .. D /\ m \in Nat
      BY <1>1, <2>1, <2>2, <2>3, <2>5
    <3>2. PICK g : Ancestors(m - 1, g)
      BY <3>1 DEF T
    <3> DEFINE h == [n \in 0 .. m |-> IF n < m THEN g[n] ELSE up(g[m - 1])]
    <3>3. /\ g[m - 1] \in Beam /\ g[m - 1].path = SubSeq(p, 1, D - (m - 1)) /\ ParentSaved(g[m - 1])
          /\ \A n \in 0 .. m - 1 : g[n] \in Beam /\ g[n].path = SubSeq(p, 1, D - n) /\ ParentSaved(g[n])
      <4>1. m - 1 \in 0 .. m - 1
        BY <3>1
      <4> QED BY <3>2, <4>1
    <3>4. up(g[m - 1]) \in Beam /\ up(g[m - 1]).path = SubSeq(p, 1, D - m) /\ ParentSaved(up(g[m - 1]))
      BY <1>2, <3>1, <3>3
    <3>5. /\ \A n \in 0 .. m - 1 : h[n] = g[n]
          /\ h[m] = up(g[m - 1]) /\ DOMAIN h = 0 .. m
          /\ \A n \in 0 .. m : n = m \/ n \in 0 .. m - 1
          /\ h = [n \in 0 .. m |-> h[n]]
      BY <3>1
    <3> HIDE DEF h
    <3>6. \A n \in 0 .. m : h[n] \in Beam /\ h[n].path = SubSeq(p, 1, D - n) /\ ParentSaved(h[n])
      BY <3>3, <3>4, <3>5
    <3>7. h \in [0 .. m -> Beam]
      BY <3>5, <3>6
    <3>8. h[0] = b
      <4>1. 0 \in 0 .. m - 1
        BY <3>1
      <4> QED BY <3>2, <3>5, <4>1
    <3>9. ASSUME NEW n \in 1 .. m PROVE h[n] = up(h[n - 1])
      <4>0. n - 1 \in 0 .. m - 1
        BY <3>1
      <4>1. h[n - 1] = g[n - 1]
        BY <3>5, <4>0
      <4>2. CASE n = m
        BY <3>5, <4>1, <4>2
      <4>3. CASE n # m
        <5>1. n \in 1 .. m - 1 /\ n \in 0 .. m - 1
          BY <3>1, <4>3
        <5> QED BY <3>2, <3>5, <4>1, <5>1
      <4> QED BY <4>2, <4>3
    <3>10. Ancestors(m, h)
      BY <3>6, <3>7, <3>8, <3>9
    <3> QED BY <2>3, <3>10
  <2> QED BY <2>4, <2>5
<1>4. D \in 0 .. D
  BY <1>1
<1>5. PICK g : Ancestors(D, g)
  BY <1>3, <1>4
<1> DEFINE back == CHOOSE f : f = [n \in 0 .. D |-> IF n = 0 THEN b ELSE up(f[n - 1])]
<1>6. g = [n \in 0 .. D |-> IF n = 0 THEN b ELSE up(g[n - 1])]
  <2>1. \A n \in 0 .. D : g[n] = IF n = 0 THEN b ELSE up(g[n - 1])
    <3> TAKE n \in 0 .. D
    <3>1. n = 0 \/ n \in 1 .. D
      BY <1>1
    <3> QED BY <1>5, <3>1
  <2>2. g = [n \in 0 .. D |-> g[n]]
    BY <1>5
  <2> QED BY <2>1, <2>2
<1>7. back = [n \in 0 .. D |-> IF n = 0 THEN b ELSE up(back[n - 1])]
  BY <1>6
<1> HIDE DEF back
<1>8. \A n \in 0 .. D : back[n] = g[n]
  <2> DEFINE T == {n \in 0 .. D : back[n] # g[n]}
  <2> SUFFICES ASSUME T # {} PROVE FALSE
    OBVIOUS
  <2>1. T \subseteq Nat
    BY <1>1
  <2> HIDE DEF T
  <2>2. PICK m \in T : \A y \in T : m <= y
    BY <2>1, LeastNatural
  <2>3. m \in 0 .. D /\ back[m] # g[m]
    BY <2>2 DEF T
  <2>4. CASE m = 0
    BY <1>5, <1>7, <2>3, <2>4
  <2>5. CASE m # 0
    <3>1. m - 1 \in 0 .. D /\ m - 1 \notin T /\ m \in 1 .. D
      BY <1>1, <2>1, <2>2, <2>3, <2>5
    <3>2. back[m - 1] = g[m - 1]
      BY <3>1 DEF T
    <3>3. back[m] = up(back[m - 1])
      BY <1>7, <2>3, <2>5
    <3>4. g[m] = up(g[m - 1])
      BY <1>5, <3>1
    <3> QED BY <2>3, <3>2, <3>3, <3>4
  <2> QED BY <2>4, <2>5
<1>9. \A n \in 1 .. D : back[D - n].path[Len(back[D - n].path)] = p[n]
  <2> TAKE n \in 1 .. D
  <2>1. D - n \in 0 .. D /\ D - (D - n) = n /\ n \in Nat /\ n >= 1 /\ n <= D
    BY <1>1
  <2>2. back[D - n].path = SubSeq(p, 1, n)
    BY <1>5, <1>8, <2>1
  <2>3. \A i \in 1 .. n : i \in 1 .. Len(p)
    BY <1>1, <2>1
  <2>4. \A i \in 1 .. n : p[i] \in Token
    BY <1>1, <2>3, ElementOfSeq
  <2>5. Len(SubSeq(p, 1, n)) = n /\ SubSeq(p, 1, n)[n] = p[n]
    BY <2>1, <2>4, SubSeqProperties
  <2> QED BY <2>2, <2>5
<1>10. Sentence(b) = [n \in 1 .. D |-> back[D - n].path[Len(back[D - n].path)]]
  BY DEF Sentence, back, up, D
<1>11. p = [n \in 1 .. D |-> p[n]]
  BY <1>1, LenProperties
<1> QED BY <1>9, <1>10, <1>11 DEF p

-----------------------------------------------------------------------------
(* The parents are dealt out to the blocks: every child that belongs into  *)
(* a container falls to one block, once.                                   *)
Target(t) == IF t = "next" THEN ToNext ELSE ToSelected

Portions(t, c) == {x \in Block \X Beam : <<t, x[2]>> \in Share(x[1], c)}

LEMMA ShareIs ==
  ASSUME NEW c \in Container, NEW u \in Block, NEW t \in {"next", "selected"}, NEW b
  PROVE  <<t, b>> \in Share(u, c) <=>
           /\ b.path \in Target(t)
           /\ \E i \in 0 .. c.size - 1, k \in Token : i % NumCtas = u /\ b = Child(c.cand[i], k)
<1> DEFINE mine == {c.cand[i] : i \in {j \in 0 .. c.size - 1 : j % NumCtas = u}}
           kids == {Child(y, k) : y \in mine, k \in Token}
<1>1. Share(u, c) = ({"next"} \X {x \in kids : x.path \in ToNext})
                      \cup ({"selected"} \X {x \in kids : x.path \in ToSelected})
  BY DEF Share
<1>2. b \in kids <=> \E i \in 0 .. c.size - 1, k \in Token : i % NumCtas = u /\ b = Child(c.cand[i], k)
  <2>1. b \in kids <=> \E y \in mine, k \in Token : b = Child(y, k)
    OBVIOUS
  <2>2. \A y : y \in mine <=> \E i \in 0 .. c.size - 1 : i % NumCtas = u /\ y = c.cand[i]
    OBVIOUS
  <2> HIDE DEF mine, kids
  <2> QED BY <2>1, <2>2
<1> HIDE DEF kids
<1>3. <<t, b>> \in Share(u, c) <=> b \in kids /\ b.path \in Target(t)
  BY <1>1 DEF Target
<1> QED BY <1>2, <1>3

LEMMA KidsAt ==
  ASSUME NEW c, NEW q
  PROVE  q \in KidsOf(c) <=> \E i \in 0 .. c.size - 1, k \in Token : q = Append(c.cand[i].path, k)
<1>1. q \in KidsOf(c) <=> \E p \in Paths(c), k \in Token : q = Append(p, k)
  BY DEF KidsOf
<1>2. \A p : p \in Paths(c) <=> \E i \in 0 .. c.size - 1 : p = c.cand[i].path
  BY PathsAt
<1> HIDE DEF Paths
<1> QED BY <1>1, <1>2

LEMMA Dealt ==
  ASSUME NEW c \in Container, Distinct(c), NEW t \in {"next", "selected"}
  PROVE  /\ {x[2].path : x \in Portions(t, c)} = KidsOf(c) \cap Target(t)
         /\ \A x, y \in Portions(t, c) : x[2].path = y[2].path => x = y
<1> DEFINE S == 0 .. c.size - 1
           D == Portions(t, c)
<1>0. c \in Container /\ t \in {"next", "selected"}
  OBVIOUS
<1>1. \A i \in S : c.cand[i] \in Beam /\ c.cand[i].path \in Seq(Token)
  <2> TAKE i \in S
  <2>1. i \in Slots
    BY ContainerFields DEF Slots
  <2> QED BY <2>1, ContainerFields DEF Beam
<1>2. \A x \in D : /\ x[1] \in Block /\ x[2].path \in Target(t) /\ x = <<x[1], x[2]>>
                   /\ \E i \in S, k \in Token : i % NumCtas = x[1] /\ x[2] = Child(c.cand[i], k)
  <2> TAKE x \in D
  <2> DEFINE b == x[2]
             u == x[1]
  <2>1. u \in Block /\ x = <<u, b>> /\ <<t, b>> \in Share(u, c)
    BY DEF Portions
  <2> HIDE DEF b, u, D
  <2>2. b.path \in Target(t) /\ \E i \in 0 .. c.size - 1, k \in Token : i % NumCtas = u /\ b = Child(c.cand[i], k)
    <3> HIDE DEF S
    <3>1. u \in Block
      BY <2>1
    <3>2. <<t, b>> \in Share(u, c) <=>
           /\ b.path \in Target(t)
           /\ \E i \in 0 .. c.size - 1, k \in Token : i % NumCtas = u /\ b = Child(c.cand[i], k)
      BY ONLY <1>0, <3>1, ShareIs
    <3> QED BY <2>1, <3>2
  <2> QED BY <2>1, <2>2 DEF b, u
<1>3. \A i \in S, k \in Token : Child(c.cand[i], k).path = Append(c.cand[i].path, k)
  BY DEF Child
<1>4. ASSUME NEW x \in D PROVE x[2].path \in KidsOf(c) \cap Target(t)
  <2>1. PICK i \in S, k \in Token : i % NumCtas = x[1] /\ x[2] = Child(c.cand[i], k)
    BY <1>2
  <2>2. x[2].path = Append(c.cand[i].path, k)
    BY <1>3, <2>1
  <2>3. x[2].path \in Target(t) /\ x[2].path \in KidsOf(c)
    BY <1>2, <2>2, KidsAt
  <2> QED BY <2>3
<1>5. ASSUME NEW q \in KidsOf(c) \cap Target(t) PROVE \E x \in D : x[2].path = q
  <2>1. PICK i \in S, k \in Token : q = Append(c.cand[i].path, k)
    BY <1>5, KidsAt
  <2> DEFINE b == Child(c.cand[i], k)
             u == i % NumCtas
  <2>2. b.path = q /\ u \in Block
    <3>1. i \in Nat /\ NumCtas \in Nat \ {0}
      BY ContainerFields
    <3>2. u \in 0 .. NumCtas - 1
      BY <3>1
    <3> QED BY <1>3, <2>1, <3>2 DEF Block
  <2>3. b \in Beam
    <3>1. b.path \in Path
      BY <1>5, <2>2 DEF Target
    <3>2. c.cand[i].id \in Nat \cup {NoId}
      BY <1>1 DEF Beam
    <3> QED BY <2>2, <3>1, <3>2 DEF Child, Beam
  <2>4. <<t, b>> \in Share(u, c)
    <3>1. b.path \in Target(t)
      BY <1>5, <2>2
    <3> QED BY <1>0, <2>2, <3>1, ShareIs
  <2> HIDE DEF b, u
  <2>5. <<u, b>> \in D
    BY <2>2, <2>3, <2>4 DEF Portions
  <2> QED BY <2>2, <2>5
<1>6. ASSUME NEW x \in D, NEW y \in D, x[2].path = y[2].path PROVE x = y
  <2>1. PICK i \in S, k \in Token : i % NumCtas = x[1] /\ x[2] = Child(c.cand[i], k)
    BY <1>2
  <2>2. PICK j \in S, l \in Token : j % NumCtas = y[1] /\ y[2] = Child(c.cand[j], l)
    BY <1>2
  <2>3. Append(c.cand[i].path, k) = Append(c.cand[j].path, l)
    BY ZenonT(30), <1>3, <1>6, <2>1, <2>2
  <2>4. c.cand[i].path = c.cand[j].path /\ k = l
    <3>1. c.cand[i].path \in Seq(Token) /\ c.cand[j].path \in Seq(Token)
      BY <1>1
    <3> DEFINE p == c.cand[i].path
               q == c.cand[j].path
    <3> HIDE DEF p, q
    <3>2. p \in Seq(Token) /\ q \in Seq(Token) /\ Append(p, k) = Append(q, l)
      BY <2>3, <3>1 DEF p, q
    <3>3. p = q /\ k = l
      BY <3>2, AppendOne
    <3> QED BY <3>3 DEF p, q
  <2>5. i = j
    BY <2>4 DEF Distinct
  <2> QED BY <1>2, <2>1, <2>2, <2>4, <2>5
<1>7. {x[2].path : x \in D} = KidsOf(c) \cap Target(t)
  <2> HIDE DEF S
  <2> DEFINE R == KidsOf(c) \cap Target(t)
  <2>1. \A x \in D : x[2].path \in R
    BY <1>4
  <2>2. \A q \in R : \E x \in D : x[2].path = q
    BY <1>5
  <2> HIDE DEF R
  <2> DEFINE P == {x[2].path : x \in D}
  <2>3. P \subseteq R /\ R \subseteq P
    <3>1. ASSUME NEW q \in P PROVE q \in R
      <4>1. PICK x \in D : q = x[2].path
        OBVIOUS
      <4> QED BY <2>1, <4>1
    <3>2. ASSUME NEW q \in R PROVE q \in P
      BY <2>2
    <3> QED BY <3>1, <3>2
  <2> QED BY <2>3 DEF R, P
<1> QED BY <1>6, <1>7

(* An output position opens: all children are still to come.               *)
LEMMA KidsToCome ==
  ASSUME NEW c \in Container, Distinct(c), NEW t \in {"next", "selected"},
         \A v \in Block : Due(v)' = Share(v, c)
  PROVE  Gathers(Debts(t)', {}, KidsOf(c) \cap Target(t))
<1>1. Debts(t)' = Portions(t, c)
  BY DEF Debts, Portions
<1>2. Gathers(Portions(t, c), {}, KidsOf(c) \cap Target(t))
  <2> DEFINE D == Portions(t, c)
             P == {x[2].path : x \in D}
             R == KidsOf(c) \cap Target(t)
  <2>1. P = R /\ \A x, y \in D : x[2].path = y[2].path => x = y
    BY Dealt
  <2>2. Coming(D) = P
    BY DEF Coming
  <2> HIDE DEF D, P, R
  <2>3. Gathers(D, {}, R)
    BY <2>1, <2>2 DEF Gathers
  <2> QED BY <2>3 DEF D, R
<1> QED BY <1>1, <1>2

LEMMA SameDebts ==
  ASSUME \A v \in Block : Due(v)' = Due(v), NEW t
  PROVE  Debts(t)' = Debts(t)
BY DEF Debts

-----------------------------------------------------------------------------
(* What a step keeps that neither opens an output position nor pushes nor  *)
(* saves: no beam is lost on the way from a container to the next trim.    *)
LEMMA KeepsSearch ==
  ASSUME SearchInv, NEW n \in 0 .. NumOutpos, LevelOf(Leader) = n, LevelOf(Leader)' = n,
         pc[Leader] # "init", pc'[Leader] # "init", UNCHANGED <<beams, pushed>>,
         cont'[Now(n)] = cont[Now(n)],
         n < NumOutpos => \A v \in Block : Due(v)' = Due(v),
         pc'[Leader] \in StartAt => pc[Leader] \in StartAt /\ cont'[Later(n)] = cont[Later(n)],
         NextGathered(n)', NextWinners(n)', SelectedPaths',
         pc'[Leader] \in BeforeSave \cup Final => pc[Leader] \in BeforeSave \cup Final,
         pc'[Leader] = "saveSync" =>
           /\ pc[Leader] = "saveSync"
           /\ LevelPaths(cont'[Later(n)], n + 1)
           /\ cont'[Later(n)].size <= cont'[Later(n)].cap,
         pc'[Leader] \in Final => Ends(n),
         BestAnswer' \/ (pc'[Leader] = "done" => pc[Leader] = "done" /\ UNCHANGED out)
  PROVE  SearchInv'
<1>1. /\ NextGathers(n) /\ SelectedGathers(n) /\ CurPaths(n) /\ PushedLengths(n)
      /\ Chain /\ BestAnswer
  BY DEF SearchInv
<1>2. NextGathers(n)'
  <2> SUFFICES ASSUME pc'[Leader] \in StartAt, n < NumOutpos
               PROVE  /\ Distinct(cont'[Later(n)])
                      /\ Gathers(Debts("next")', Paths(cont'[Later(n)]), KidsOf(cont'[Now(n)]) \cap ToNext)
    BY DEF NextGathers, Kids
  <2>1. Debts("next")' = Debts("next")
    BY SameDebts
  <2>2. Distinct(cont[Later(n)]) /\ Gathers(Debts("next"), Paths(cont[Later(n)]), KidsOf(cont[Now(n)]) \cap ToNext)
    BY <1>1 DEF NextGathers, Kids
  <2> QED BY <2>1, <2>2
<1>3. SelectedGathers(n)'
  <2> SUFFICES ASSUME pc'[Leader] \in BeforeSave \cup Final, n < NumOutpos
               PROVE  Gathers(Debts("selected")', {p \in pushed' : Len(p) = n + 1}, KidsOf(cont'[Now(n)]) \cap ToSelected)
    BY DEF SelectedGathers, Kids, PushedAt
  <2>1. Debts("selected")' = Debts("selected")
    BY SameDebts
  <2>2. Gathers(Debts("selected"), {p \in pushed : Len(p) = n + 1}, KidsOf(cont[Now(n)]) \cap ToSelected)
    BY <1>1 DEF SelectedGathers, Kids, PushedAt
  <2> QED BY <2>1, <2>2
<1>4. CurPaths(n)'
  BY <1>1 DEF CurPaths
<1>5. PushedLengths(n)'
  BY <1>1 DEF PushedLengths
<1>6. Chain'
  BY <1>1 DEF Chain, ParentSaved
<1>7. Ends(n)' <=> Ends(n)
  BY DEF Ends
<1>8. BestAnswer'
  <2> SUFFICES ASSUME pc'[Leader] = "done", pc[Leader] = "done" /\ UNCHANGED out PROVE BestAnswer'
    BY DEF BestAnswer
  <2> QED BY <1>1 DEF BestAnswer
<1> QED BY <1>2, <1>3, <1>4, <1>5, <1>6, <1>7, <1>8 DEF SearchInv

(* Where every beam width is sorted, a trim that holds no barrier finds no *)
(* beam to drop: what is in the container are the winners as they are.     *)
LEMMA PassedWinners ==
  ASSUME NEW c \in Container, Distinct(c), c.cap <= RadixThreshold, NEW force \in BOOLEAN,
         ~TrimSyncs(c, force)
  PROVE  /\ Winners(c, Paths(c))
         /\ force => InOrder(c)
<1>1. c.size \in Nat /\ c.cap \in Nat
  BY ContainerFields
<1>2. c.size <= c.cap \/ c.size <= 1
  BY <1>1 DEF TrimSyncs, Sorts, Selects
<1>3. force => c.size <= 1
  BY <1>1 DEF TrimSyncs, Sorts, Selects
<1> QED BY <1>2, <1>3, UnsortedWinners

LEMMA WidthsSort ==
  ASSUME Sortable
  PROVE  /\ FinalBeam \in Nat /\ FinalBeam <= RadixThreshold
         /\ \A n \in 0 .. NumOutpos : n < NumOutpos => BeamWidth[n] \in Nat /\ BeamWidth[n] <= RadixThreshold
BY DEF Sortable, FinalBeam

LEMMA ContsType ==
  ASSUME TypeInv, NEW n
  PROVE  /\ cont[Now(n)] \in Container /\ cont[Later(n)] \in Container /\ cont["selected"] \in Container
         /\ Now(n) \in {"A", "B"} /\ Later(n) \in {"A", "B"} /\ Now(n) # Later(n)
BY DEF TypeInv, TypeOK, Now, Later

(* The selected keys of a leader that passes the last sort by.             *)
LEMMA PassedSelected ==
  ASSUME TypeInv, Sortable, SelectedPaths, pc[Leader] \in BeforeFinal, ~SortsLast
  PROVE  SelectedWon
<1>1. CASE Distinct(cont["selected"]) /\ Paths(cont["selected"]) = pushed
  <2>1. cont["selected"] \in Container /\ cont["selected"].cap <= RadixThreshold
    BY ContsType, WidthsSort DEF SelectedPaths
  <2>2. ~TrimSyncs(cont["selected"], TRUE)
    BY DEF SortsLast
  <2>3. Winners(cont["selected"], Paths(cont["selected"])) /\ InOrder(cont["selected"])
    BY <1>1, <2>1, <2>2, PassedWinners
  <2> QED BY <1>1, <2>3 DEF SelectedWon
<1> QED BY <1>1 DEF SelectedPaths

(* A step that leaves the containers alone.                                *)
LEMMA PlaceSearch ==
  ASSUME TypeInv, SearchInv, Sortable, NEW n \in 0 .. NumOutpos, NextRoom(n),
         LevelOf(Leader) = n, LevelOf(Leader)' = n,
         pc[Leader] # "init", pc'[Leader] # "init", UNCHANGED <<cont, beams, pushed>>,
         n < NumOutpos => \A v \in Block : Due(v)' = Due(v),
         pc'[Leader] \in StartAt => pc[Leader] \in StartAt,
         pc'[Leader] = "trim" /\ n < NumOutpos =>
           pc[Leader] = "trim" \/ (pc[Leader] = "expandSync" /\ Debts("next") = {}),
         pc'[Leader] \in {"trimSync", "shrink", "save"} =>
           pc[Leader] \in {"trimSync", "shrink", "save"} \/ (pc[Leader] = "trim" /\ ~SortsNext(n)),
         pc'[Leader] \in BeforeSave \cup Final => pc[Leader] \in BeforeSave \cup Final,
         pc'[Leader] = "saveSync" => pc[Leader] = "saveSync",
         pc'[Leader] \in BeforeFinal =>
           /\ pc[Leader] \in BeforeFinal
           /\ Ends(n) /\ pc[Leader] \in {"check", "swap", "top", "finalTrim"}
                => pc'[Leader] \in {"check", "swap", "top", "finalTrim"},
         pc'[Leader] \in {"finalSync", "finalCut", "outSync", "generate"} =>
           \/ pc[Leader] \in {"finalSync", "finalCut", "outSync", "generate"}
           \/ pc[Leader] = "finalTrim" /\ ~SortsLast,
         pc'[Leader] \in {"outSync", "generate"} => pc[Leader] \in {"outSync", "generate"},
         pc'[Leader] \in Final => Ends(n),
         pc'[Leader] = "done" => pc[Leader] = "done" /\ UNCHANGED out
  PROVE  SearchInv'
<1>1. /\ NextGathers(n) /\ NextGathered(n) /\ NextWinners(n) /\ SelectedPaths /\ CurPaths(n)
  BY DEF SearchInv
<1>2. /\ cont[Later(n)] \in Container
      /\ pc[Leader] \in BeforeSave /\ n < NumOutpos => cont[Later(n)].cap <= RadixThreshold
  BY ContsType, WidthsSort DEF NextRoom
<1>3. NextGathered(n)'
  <2>1. SortsNext(n)' <=> SortsNext(n)
    BY DEF SortsNext
  <2>2. Kids(n)' = Kids(n)
    BY DEF Kids
  <2>3. CASE pc[Leader] = "trim"
    BY <1>1, <2>1, <2>2, <2>3 DEF NextGathered
  <2>4. CASE pc'[Leader] = "trim" /\ n < NumOutpos /\ pc[Leader] = "expandSync" /\ Debts("next") = {}
    <3>1. Distinct(cont[Later(n)]) /\ Paths(cont[Later(n)]) = Kids(n) \cap ToNext
      <4>1. Coming({}) = {}
        BY DEF Coming
      <4> QED BY <1>1, <2>4, <4>1 DEF NextGathers, StartAt, Gathers
    <3>2. ~SortsNext(n) => Winners(cont[Later(n)], Kids(n) \cap ToNext)
      BY <1>2, <2>4, <3>1, PassedWinners DEF SortsNext, BeforeSave, StartAt
    <3> QED BY <2>1, <2>2, <3>1, <3>2 DEF NextGathered
  <2> QED BY <2>3, <2>4 DEF NextGathered
<1>4. NextWinners(n)'
  <2>1. Kids(n)' = Kids(n)
    BY DEF Kids
  <2>2. CASE pc[Leader] = "trim" /\ ~SortsNext(n)
    BY <1>1, <2>1, <2>2 DEF NextGathered, NextWinners
  <2>3. CASE pc[Leader] \in {"trimSync", "shrink", "save"}
    BY <1>1, <2>1, <2>3 DEF NextWinners
  <2> QED BY <2>2, <2>3 DEF NextWinners
<1>5. SelectedPaths'
  <2>1. (SortsLast' <=> SortsLast) /\ (Ends(n)' <=> Ends(n)) /\ (SelectedWon' <=> SelectedWon)
    BY DEF SortsLast, Ends, SelectedWon
  <2>2. pc'[Leader] \in {"finalSync", "finalCut", "outSync", "generate"} => SelectedWon
    <3>1. CASE pc[Leader] = "finalTrim" /\ ~SortsLast
      BY <1>1, <3>1, PassedSelected DEF BeforeFinal
    <3> QED BY <1>1, <3>1 DEF SelectedPaths
  <2> QED BY <1>1, <2>1, <2>2 DEF SelectedPaths
<1>6. pc'[Leader] = "saveSync" => LevelPaths(cont[Later(n)], n + 1) /\ cont[Later(n)].size <= cont[Later(n)].cap
  BY <1>1 DEF CurPaths
<1> QED BY <1>3, <1>4, <1>5, <1>6, KeepsSearch

-----------------------------------------------------------------------------
(* The steps of one block that leave the containers alone: where it goes   *)
(* on, and what it decides.                                                *)
Hop(u, l, n) ==
  \/ pc[u] = "init" /\ l = "initSync" /\ u # Leader
  \/ pc[u] = "check" /\ l = "swap"
  \/ pc[u] = "swap" /\ l = "top"
  \/ pc[u] = "top" /\ l = "finalTrim" /\ Ends(n)
  \/ pc[u] = "top" /\ l = "expand" /\ ~Ends(n)
  \/ pc[u] = "expand" /\ l = "expandSync" /\ todo[u] = {}
  \/ pc[u] = "trim" /\ l = "trimSync" /\ u # Leader
  \/ pc[u] = "trim" /\ l = "shrink" /\ ~SortsNext(n)
  \/ pc[u] = "save" /\ l = "saveSync" /\ u # Leader
  \/ pc[u] = "finalTrim" /\ l = "finalSync" /\ u # Leader
  \/ pc[u] = "finalTrim" /\ l = "finalCut" /\ ~SortsLast
  \/ pc[u] = "generate" /\ l = "done" /\ u # Leader

LEMMA ShareOfNone ==
  ASSUME NEW c \in Container, c.size = 0, NEW u \in Block
  PROVE  Share(u, c) = {}
<1>1. SUFFICES ASSUME NEW o \in Share(u, c) PROVE FALSE
  OBVIOUS
<1>2. \E i \in 0 .. c.size - 1, k \in Token : i % NumCtas = u /\ o[2] = Child(c.cand[i], k)
  BY ShareOf
<1> QED BY <1>2

LEMMA Hops ==
  ASSUME BarrierInv, Undisturbed, NEW n \in 0 .. NumOutpos, \A v \in Block : LevelOf(v) = n,
         NEW u \in Block,
         \/ Prepare(u) /\ u # Leader
         \/ Top(u)
         \/ Expanded(u)
         \/ Save(u) /\ u # Leader
         \/ CheckSelected(u)
         \/ Swap(u)
         \/ TrimNext(u) /\ (u # Leader \/ ~SortsNext(n))
         \/ TrimFinal(u) /\ (u # Leader \/ ~SortsLast)
         \/ GenerateResult(u) /\ u # Leader
  PROVE  /\ UNCHANGED <<cont, beams, pushed, out>>
         /\ \E l \in Location :
              /\ pc' = [pc EXCEPT ![u] = l]
              /\ Hop(u, l, n)
              /\ outpos' = IF l = "top" THEN [outpos EXCEPT ![u] = @ + 1] ELSE outpos
              /\ todo' = IF l = "expand" THEN [todo EXCEPT ![u] = Owed(u)] ELSE todo
<1> DEFINE Goes(l) ==
             /\ UNCHANGED <<cont, beams, pushed, out>>
             /\ pc' = [pc EXCEPT ![u] = l]
             /\ Hop(u, l, n)
             /\ outpos' = IF l = "top" THEN [outpos EXCEPT ![u] = @ + 1] ELSE outpos
             /\ todo' = IF l = "expand" THEN [todo EXCEPT ![u] = Owed(u)] ELSE todo
<1> SUFFICES \E l \in Location : Goes(l)
  OBVIOUS
<1>1. CASE Prepare(u) /\ u # Leader
  <2>1. Goes("initSync")
    BY <1>1 DEF Prepare, Goto, Hop
  <2>2. "initSync" \in Location
    BY ResumeAt DEF Location
  <2> HIDE DEF Goes
  <2> QED BY <2>1, <2>2
<1>2. CASE Top(u)
  <2>1. pc[u] = "top" /\ outpos[u] = n
    BY <1>2 DEF Top, LevelOf
  <2>2. Leaves(u) <=> Ends(n)
    BY <2>1 DEF Leaves, Ends, Undisturbed, Cur, Now
  <2>3. CASE Ends(n)
    <3>1. Goes("finalTrim")
      BY <1>2, <2>1, <2>2, <2>3 DEF Top, Goto, Hop
    <3>2. "finalTrim" \in Location
      BY ResumeAt DEF Location
    <3> HIDE DEF Goes
    <3> QED BY <3>1, <3>2
  <2>4. CASE ~Ends(n)
    <3>1. Goes("expand")
      BY <1>2, <2>1, <2>2, <2>4 DEF Top, Goto, Hop
    <3>2. "expand" \in Location
      BY ResumeAt DEF Location
    <3> HIDE DEF Goes
    <3> QED BY <3>1, <3>2
  <2> QED BY <2>3, <2>4
<1>3. CASE Expanded(u)
  <2>1. Goes("expandSync")
    BY <1>3 DEF Expanded, Goto, Hop
  <2>2. "expandSync" \in Location
    BY ResumeAt DEF Location
  <2> HIDE DEF Goes
  <2> QED BY <2>1, <2>2
<1>4. CASE Save(u) /\ u # Leader
  <2>1. Goes("saveSync")
    BY <1>4 DEF Save, Goto, Hop
  <2>2. "saveSync" \in Location
    BY ResumeAt DEF Location
  <2> HIDE DEF Goes
  <2> QED BY <2>1, <2>2
<1>5. CASE CheckSelected(u)
  <2>0. ~Crowded
    BY <1>5 DEF Undisturbed, CheckSelected
  <2>1. Goes("swap")
    BY <1>5, <2>0 DEF CheckSelected, Goto, Hop
  <2>2. "swap" \in Location
    BY ResumeAt DEF Location
  <2> HIDE DEF Goes
  <2> QED BY <2>1, <2>2
<1>6. CASE Swap(u)
  <2>1. Goes("top")
    BY <1>6 DEF Swap, Goto, Hop
  <2>2. "top" \in Location
    BY ResumeAt DEF Location
  <2> HIDE DEF Goes
  <2> QED BY <2>1, <2>2
<1>7. CASE TrimNext(u) /\ (u # Leader \/ ~SortsNext(n))
  <2>1. pc[u] = "trim" /\ outpos[u] = n
    BY <1>7 DEF TrimNext, LevelOf
  <2>2. Nxt(u) = Later(n)
    BY <2>1 DEF Nxt, Later
  <2>3. CASE SortsNext(n)
    <3>1. Goes("trimSync")
      BY <1>7, <2>1, <2>2, <2>3 DEF TrimNext, EnterTrim, SortsNext, Goto, Hop
    <3>2. "trimSync" \in Location
      BY ResumeAt DEF Location
    <3> HIDE DEF Goes
    <3> QED BY <3>1, <3>2
  <2>4. CASE ~SortsNext(n)
    <3>1. Goes("shrink")
      BY <1>7, <2>1, <2>2, <2>4 DEF TrimNext, EnterTrim, SortsNext, Goto, Hop
    <3>2. "shrink" \in Location
      BY ResumeAt DEF Location
    <3> HIDE DEF Goes
    <3> QED BY <3>1, <3>2
  <2> QED BY <2>3, <2>4
<1>8. CASE TrimFinal(u) /\ (u # Leader \/ ~SortsLast)
  <2>3. CASE SortsLast
    <3>1. Goes("finalSync")
      BY <1>8, <2>3 DEF TrimFinal, EnterTrim, SortsLast, Goto, Hop
    <3>2. "finalSync" \in Location
      BY ResumeAt DEF Location
    <3> HIDE DEF Goes
    <3> QED BY <3>1, <3>2
  <2>4. CASE ~SortsLast
    <3>1. Goes("finalCut")
      BY <1>8, <2>4 DEF TrimFinal, EnterTrim, SortsLast, Goto, Hop
    <3>2. "finalCut" \in Location
      BY ResumeAt DEF Location
    <3> HIDE DEF Goes
    <3> QED BY <3>1, <3>2
  <2> QED BY <2>3, <2>4
<1>9. CASE GenerateResult(u) /\ u # Leader
  <2>1. Goes("done")
    BY <1>9 DEF GenerateResult, Goto, Hop
  <2>2. "done" \in Location
    BY ResumeAt DEF Location
  <2> HIDE DEF Goes
  <2> QED BY <2>1, <2>2
<1> QED BY <1>1, <1>2, <1>3, <1>4, <1>5, <1>6, <1>7, <1>8, <1>9

(* What a block will still push stays the same.                            *)
LEMMA HopDue ==
  ASSUME BarrierInv, NEW n \in 0 .. NumOutpos, n < NumOutpos, \A v \in Block : LevelOf(v) = n,
         NEW u \in Block, NEW l \in Location, pc' = [pc EXCEPT ![u] = l], Hop(u, l, n),
         outpos' = IF l = "top" THEN [outpos EXCEPT ![u] = @ + 1] ELSE outpos,
         todo' = IF l = "expand" THEN [todo EXCEPT ![u] = Owed(u)] ELSE todo,
         UNCHANGED cont, NEW v \in Block
  PROVE  Due(v)' = Due(v) /\ LevelOf(v)' = LevelOf(v)
<1>1. /\ pc \in [Block -> Location] /\ outpos \in [Block -> 0 .. NumOutpos]
      /\ todo \in [Block -> SUBSET ({"next", "selected"} \X Beam)]
  BY DEF BarrierInv, TypeInv, TypeOK
<1>2. v # u => pc'[v] = pc[v] /\ outpos'[v] = outpos[v] /\ todo'[v] = todo[v]
  BY <1>1
<1>3. /\ pc'[u] = l
      /\ l = "top" => pc[u] = "swap" /\ outpos'[u] = outpos[u] + 1
      /\ l # "top" => outpos'[u] = outpos[u] /\ (l = "swap" <=> pc[u] = "check")
                      /\ pc[u] # "swap" /\ l # "check"
      /\ l = "expand" => todo'[u] = Owed(u)
      /\ l # "expand" => todo'[u] = todo[u]
  BY <1>1 DEF Hop
<1>4. LevelOf(v)' = LevelOf(v)
  BY <1>2, <1>3 DEF LevelOf
<1>5. Due(v)' = Due(v)
  <2>1. CASE v # u
    <3>1. Due(v)' = IF pc'[v] = "expand" THEN todo'[v]
                    ELSE IF pc'[v] \in Heads THEN Share(v, cont'[Now(LevelOf(v)')]) ELSE {}
      BY DEF Due, Share, Now
    <3> QED BY <1>2, <1>4, <2>1, <3>1 DEF Due
  <2>2. CASE v = u /\ l = "expand"
    <3>1. pc[u] = "top"
      BY <2>2 DEF Hop
    <3>2. Due(u)' = Owed(u)
      BY <1>3, <2>2 DEF Due
    <3> QED BY <2>2, <3>1, <3>2, OwedDue
  <2>3. CASE v = u /\ l \in Heads
    <3>1. pc[u] \in Heads /\ pc[u] # "expand" /\ l # "expand"
      BY <2>3 DEF Hop, Heads
    <3>2. Due(u)' = Share(u, cont'[Now(LevelOf(u)')])
      <4>1. Due(u)' = IF pc'[u] = "expand" THEN todo'[u]
                      ELSE IF pc'[u] \in Heads THEN Share(u, cont'[Now(LevelOf(u)')]) ELSE {}
        BY DEF Due, Share, Now
      <4> QED BY <1>3, <2>3, <3>1, <4>1
    <3>3. Due(u) = Share(u, cont[Now(LevelOf(u))])
      BY <3>1 DEF Due
    <3> QED BY <1>4, <2>3, <3>2, <3>3
  <2>4. CASE v = u /\ l \notin Heads /\ l # "expand"
    <3>1. Due(u)' = {}
      BY <1>3, <2>4 DEF Due
    <3>2. Due(u) = {}
      <4>1. CASE pc[u] = "top"
        <5>1. Ends(n) /\ cont[Now(n)].size = 0
          BY <2>4, <4>1 DEF Hop, Heads, Ends
        <5>2. Due(u) = Share(u, cont[Now(n)])
          BY <4>1 DEF Due, Heads
        <5> QED BY <5>1, <5>2, ShareOfNone, ContsType DEF BarrierInv
      <4>2. CASE pc[u] = "expand"
        BY <2>4, <4>2 DEF Hop, Due
      <4>3. CASE pc[u] \notin {"top", "expand"}
        <5>1. pc[u] \notin Heads
          BY <2>4, <4>3 DEF Hop, Heads
        <5> QED BY <4>3, <5>1 DEF Due
      <4> QED BY <4>1, <4>2, <4>3
    <3> QED BY <2>4, <3>1, <3>2
  <2> QED BY <2>1, <2>2, <2>3, <2>4
<1> QED BY <1>4, <1>5

LEMMA HopSearch ==
  ASSUME BarrierInv, SearchInv, Sortable, NEW n \in 0 .. NumOutpos, NextRoom(n),
         \A v \in Block : LevelOf(v) = n, pc[Leader] # "init",
         NEW u \in Block, NEW l \in Location, pc' = [pc EXCEPT ![u] = l], Hop(u, l, n),
         outpos' = IF l = "top" THEN [outpos EXCEPT ![u] = @ + 1] ELSE outpos,
         todo' = IF l = "expand" THEN [todo EXCEPT ![u] = Owed(u)] ELSE todo,
         UNCHANGED <<cont, beams, pushed, out>>
  PROVE  SearchInv'
<1> USE LeaderIn
<1>1. pc \in [Block -> Location] /\ outpos \in [Block -> 0 .. NumOutpos] /\ TypeInv
  BY DEF BarrierInv, TypeInv, TypeOK
<1>2. n < NumOutpos => \A v \in Block : Due(v)' = Due(v)
  BY HopDue
<1>3. /\ u # Leader => pc'[Leader] = pc[Leader] /\ outpos'[Leader] = outpos[Leader]
      /\ u = Leader => pc'[Leader] = l /\ outpos'[Leader] = IF l = "top" THEN outpos[Leader] + 1 ELSE outpos[Leader]
  BY <1>1
<1>4. LevelOf(Leader)' = n /\ LevelOf(Leader) = n
  <2>1. CASE u # Leader
    BY <1>3, <2>1 DEF LevelOf
  <2>2. CASE u = Leader
    BY <1>3, <2>2 DEF LevelOf, Hop
  <2> QED BY <2>1, <2>2
<1>5. pc[Leader] \in Final => Ends(n)
  BY <1>4 DEF SearchInv
<1>6. CASE u # Leader
  <2>1. pc'[Leader] = pc[Leader]
    BY <1>3, <1>6
  <2> QED BY <1>1, <1>2, <1>4, <1>5, <2>1, PlaceSearch DEF BeforeFinal, StartAt
<1>7. CASE u = Leader
  <2>1. pc'[Leader] = l /\ l # "init" /\ Hop(Leader, l, n)
    BY <1>3, <1>7 DEF Hop
  <2>2. /\ l \in StartAt => pc[Leader] \in StartAt
        /\ l \notin {"trim", "trimSync", "save", "saveSync", "outSync", "generate", "done", "finalSync"}
        /\ l = "shrink" => pc[Leader] = "trim" /\ ~SortsNext(n)
        /\ l \in BeforeSave \cup Final => pc[Leader] \in BeforeSave \cup Final
        /\ l = "finalCut" => pc[Leader] = "finalTrim" /\ ~SortsLast
        /\ l \in Final => Ends(n)
    BY <1>5, <1>7, <2>1 DEF Hop, StartAt, BeforeSave, Final
  <2>3. l \in BeforeFinal =>
           /\ pc[Leader] \in BeforeFinal
           /\ Ends(n) /\ pc[Leader] \in {"check", "swap", "top", "finalTrim"}
                => l \in {"check", "swap", "top", "finalTrim"}
    BY <2>1 DEF Hop, StartAt, BeforeFinal
  <2> HIDE DEF Hop
  <2> QED BY <1>1, <1>2, <1>4, <2>1, <2>2, <2>3, PlaceSearch
<1> QED BY <1>6, <1>7

(* A barrier opens: nobody has anything left to push, and all go on alike. *)
LEMMA ReleaseSearch ==
  ASSUME BarrierInv, SearchInv, Sortable, NEW n \in 0 .. NumOutpos, Phase(n), NextRoom(n),
         Release, pc[Leader] # "saveSync"
  PROVE  SearchInv'
<1> USE LeaderIn
<1>1. pc \in [Block -> Location] /\ TypeInv
  BY DEF BarrierInv, TypeInv, TypeOK
<1>2. /\ \A v \in Block : pc[v] \in SyncPoint /\ pc'[v] = Resume[pc[v]]
      /\ UNCHANGED <<outpos, todo, cont, beams, out, fault, pushed>>
  BY DEF Release
<1>3. \A v \in Block : pc[v] = pc[Leader]
  BY <1>2, AlignedAgree DEF BarriersAgree
<1>4. \A v \in Block : LevelOf(v) = n
  BY PhaseOf
<1>5. pc[Leader] \in {"initSync", "expandSync", "trimSync", "finalSync", "outSync"}
  <2>1. pc[Leader] \in SyncPoint
    BY <1>2
  <2>2. pc[Leader] \notin {"selectedSync", "proactiveSync"}
    BY DEF Phase, At, Starting, Expanding, Sorting, Passing, Saving, Ordering, Leaving, Cutting, Writing
  <2> QED BY <2>1, <2>2, ResumeAt
<1>6. /\ pc[Leader] = "initSync" => pc'[Leader] = "top"
      /\ pc[Leader] = "expandSync" => pc'[Leader] = "trim"
      /\ pc[Leader] = "trimSync" => pc'[Leader] = "shrink"
      /\ pc[Leader] = "finalSync" => pc'[Leader] = "finalCut"
      /\ pc[Leader] = "outSync" => pc'[Leader] = "generate"
      /\ \A v \in Block : pc'[v] = pc'[Leader]
  <2>1. \A v \in Block : pc'[v] = Resume[pc[Leader]]
    BY <1>2, <1>3
  <2>2. pc'[Leader] = Resume[pc[Leader]]
    BY <2>1
  <2> QED BY <2>1, <2>2, ResumeAt
<1>7. \A v \in Block : LevelOf(v)' = n
  <2> TAKE v \in Block
  <2>1. pc[v] \notin {"check", "swap"} /\ pc'[v] \notin {"check", "swap"}
    BY <1>3, <1>5, <1>6
  <2> QED BY <1>2, <1>4, <2>1 DEF LevelOf
<1>8. ASSUME NEW v \in Block PROVE Due(v)' = Due(v)
  <2>1. Due(v)' = IF pc'[v] = "expand" THEN todo'[v]
                  ELSE IF pc'[v] \in Heads THEN Share(v, cont'[Now(LevelOf(v)')]) ELSE {}
    BY DEF Due, Share, Now
  <2>2. CASE pc[v] = "initSync"
    <3>1. pc'[v] = "top" /\ pc[v] \in Heads /\ pc'[v] \in Heads
      BY <1>3, <1>6, <2>2 DEF Heads
    <3> QED BY <1>2, <1>4, <1>7, <2>1, <2>2, <3>1 DEF Due
  <2>3. CASE pc[v] # "initSync"
    <3>1. pc'[v] \notin Heads \cup {"expand"} /\ pc[v] \notin Heads \cup {"expand"}
      BY <1>3, <1>5, <1>6, <2>3 DEF Heads
    <3> QED BY <2>1, <3>1 DEF Due
  <2> QED BY <2>2, <2>3
<1>9. pc[Leader] = "expandSync" => Debts("next") = {}
  <2> SUFFICES ASSUME pc[Leader] = "expandSync" PROVE Debts("next") = {}
    OBVIOUS
  <2>1. \A v \in Block : Due(v) = {}
    BY <1>3 DEF Due, Heads
  <2> QED BY <2>1 DEF Debts
<1>10. pc[Leader] \in Final => Ends(n)
  BY <1>4, <1>5 DEF SearchInv
<1>11. /\ pc'[Leader] \in StartAt => pc[Leader] \in StartAt
       /\ pc'[Leader] = "trim" => pc[Leader] = "expandSync" /\ Debts("next") = {}
       /\ pc'[Leader] \in {"trimSync", "shrink", "save"} => pc[Leader] \in {"trimSync", "shrink", "save"}
       /\ pc'[Leader] \in BeforeSave \cup Final => pc[Leader] \in BeforeSave \cup Final
       /\ pc'[Leader] \notin {"saveSync", "done", "init"} /\ pc[Leader] # "init"
       /\ pc'[Leader] \in BeforeFinal =>
            /\ pc[Leader] \in BeforeFinal
            /\ pc[Leader] \notin {"check", "swap", "top", "finalTrim"}
       /\ pc'[Leader] \in {"finalSync", "finalCut", "outSync", "generate"} =>
            pc[Leader] \in {"finalSync", "finalCut", "outSync", "generate"}
       /\ pc'[Leader] \in {"outSync", "generate"} => pc[Leader] \in {"outSync", "generate"}
       /\ pc'[Leader] \in Final => Ends(n)
  BY <1>5, <1>6, <1>9, <1>10 DEF StartAt, BeforeSave, Final, BeforeFinal
<1> QED BY <1>1, <1>2, <1>4, <1>7, <1>8, <1>11, PlaceSearch

-----------------------------------------------------------------------------
(* The trims: the best beams come to the front, the cut drops the others.  *)
LEMMA TrimDue ==
  ASSUME TypeInv, NEW n, \A v \in Block : LevelOf(v) = n, NEW u \in Block, NEW l,
         pc' = [pc EXCEPT ![u] = l], UNCHANGED <<outpos, todo>>, cont'[Now(n)] = cont[Now(n)],
         pc[u] \notin Heads \cup {"expand"}, l \notin Heads \cup {"expand"}
  PROVE  \A v \in Block : Due(v)' = Due(v) /\ LevelOf(v)' = n
<1> TAKE v \in Block
<1>1. pc \in [Block -> Location]
  BY DEF TypeInv, TypeOK
<1>2. (v # u => pc'[v] = pc[v]) /\ pc'[u] = l /\ LevelOf(v) = n
  BY <1>1
<1>3. LevelOf(v)' = n
  BY <1>2 DEF LevelOf, Heads
<1>4. Due(v)' = IF pc'[v] = "expand" THEN todo'[v]
                ELSE IF pc'[v] \in Heads THEN Share(v, cont'[Now(LevelOf(v)')]) ELSE {}
  BY DEF Due, Share, Now
<1>5. Due(v)' = Due(v)
  <2>1. CASE v # u
    BY <1>2, <1>3, <1>4, <2>1 DEF Due
  <2>2. CASE v = u
    BY <1>2, <1>4, <2>2 DEF Due
  <2> QED BY <2>1, <2>2
<1> QED BY <1>3, <1>5

LEMMA ShrunkLevel ==
  ASSUME NEW c \in Container, NEW m, LevelPaths(c, m)
  PROVE  /\ LevelPaths(Shrunk(c), m)
         /\ Shrunk(c).size <= Shrunk(c).cap
<1>1. Shrunk(c).size <= c.size /\ Shrunk(c).size \in Nat /\ c.size \in Nat /\ Shrunk(c).size <= Shrunk(c).cap
  BY ShrunkSize, ContainerFields
<1>2. Shrunk(c).cand = c.cand
  BY DEF Shrunk, Container
<1>3. Distinct(Shrunk(c))
  <2> DEFINE m1 == Shrunk(c).size - 1
             m2 == c.size - 1
  <2>1. 0 .. m1 \subseteq 0 .. m2
    BY <1>1
  <2>2. \A i, j \in 0 .. m2 : c.cand[i].path = c.cand[j].path => i = j
    BY DEF LevelPaths, Distinct
  <2> HIDE DEF m1, m2
  <2>3. \A i, j \in 0 .. m1 : c.cand[i].path = c.cand[j].path => i = j
    BY <2>1, <2>2
  <2> QED BY <1>2, <2>3 DEF Distinct, m1
<1>4. Paths(Shrunk(c)) \subseteq Paths(c)
  BY ShrunkParts DEF Paths
<1> QED BY <1>1, <1>3, <1>4 DEF LevelPaths

LEMMA SortNextSearch ==
  ASSUME BarrierInv, ParentInv, SearchInv, Sortable, NEW n \in 0 .. NumOutpos, NextRoom(n),
         \A v \in Block : LevelOf(v) = n, TrimNext(Leader), SortsNext(n)
  PROVE  SearchInv'
<1> USE LeaderIn
<1>0. pc \in [Block -> Location] /\ TypeInv /\ cont \in [Names -> Container]
  BY DEF BarrierInv, TypeInv, TypeOK, Names
<1>1. pc[Leader] = "trim" /\ outpos[Leader] = n /\ n < NumOutpos /\ LevelOf(Leader) = n
  <2>1. pc[Leader] = "trim" /\ outpos[Leader] = n /\ LevelOf(Leader) = n
    BY DEF TrimNext, LevelOf
  <2> QED BY <1>0, <2>1 DEF TypeInv, LoopRange, InLoop
<1>2. Nxt(Leader) = Later(n)
  BY <1>1 DEF Nxt, Later
<1>3. PICK d \in Collected(cont[Later(n)], FALSE) :
        /\ cont' = [cont EXCEPT ![Later(n)] = d]
        /\ pc' = [pc EXCEPT ![Leader] = "trimSync"]
        /\ UNCHANGED <<outpos, todo, beams, out, fault, pushed>>
  BY <1>2 DEF TrimNext, EnterTrim, SortsNext, Goto
<1>4. /\ cont'[Later(n)] = d /\ cont'[Now(n)] = cont[Now(n)] /\ cont'["selected"] = cont["selected"]
      /\ pc'[Leader] = "trimSync" /\ cont[Later(n)] \in Container
  BY <1>0, <1>3, ContsType DEF Names
<1>5. \A v \in Block : Due(v)' = Due(v) /\ LevelOf(v)' = n
  BY <1>0, <1>1, <1>3, <1>4, TrimDue DEF Heads
<1>6. /\ NextGathered(n) /\ SelectedPaths
  BY <1>1 DEF SearchInv
<1>7. Winners(d, Kids(n) \cap ToNext)
  <2>1. Distinct(cont[Later(n)]) /\ Paths(cont[Later(n)]) = Kids(n) \cap ToNext
    BY <1>1, <1>6 DEF NextGathered
  <2>2. Fresh(cont[Later(n)])
    BY <1>1 DEF ParentInv, NextFresh, BeforeTrim
  <2>3. cont[Later(n)].cap <= RadixThreshold
    BY <1>1, WidthsSort DEF NextRoom, BeforeSave
  <2> QED BY <1>4, <2>1, <2>2, <2>3, CollectedWinners
<1>8. NextWinners(n)'
  <2>1. Kids(n)' = Kids(n)
    BY <1>4 DEF Kids
  <2> QED BY <1>4, <1>7, <2>1 DEF NextWinners
<1>9. NextGathered(n)'
  BY <1>4 DEF NextGathered
<1>10. SelectedPaths'
  <2>1. Distinct(cont["selected"]) /\ Paths(cont["selected"]) = pushed /\ cont["selected"].cap = FinalBeam
    BY <1>1, <1>6 DEF SelectedPaths, BeforeFinal
  <2> QED BY <1>3, <1>4, <2>1 DEF SelectedPaths
<1>11. /\ pc'[Leader] \notin StartAt \cup Final \cup {"init", "saveSync", "done"}
       /\ pc[Leader] \in BeforeSave /\ pc[Leader] # "init"
  BY <1>1, <1>4 DEF StartAt, Final, BeforeSave
<1> QED BY <1>1, <1>3, <1>4, <1>5, <1>8, <1>9, <1>10, <1>11, KeepsSearch

LEMMA CutNextSearch ==
  ASSUME BarrierInv, SearchInv, NEW n \in 0 .. NumOutpos, NextRoom(n),
         \A v \in Block : LevelOf(v) = n, Phase(n), NEW u \in Block, CutNext(u)
  PROVE  SearchInv'
<1> USE LeaderIn
<1>0. pc \in [Block -> Location] /\ TypeInv /\ cont \in [Names -> Container]
  BY DEF BarrierInv, TypeInv, TypeOK, Names
<1>1. pc[u] = "shrink" /\ outpos[u] = n /\ LevelOf(Leader) = n
  BY DEF CutNext, LevelOf
<1>2. Nxt(u) = Later(n)
  BY <1>1 DEF Nxt, Later
<1>3. /\ cont' = [cont EXCEPT ![Later(n)] = Shrunk(cont[Later(n)])]
      /\ pc' = [pc EXCEPT ![u] = "save"]
      /\ UNCHANGED <<outpos, todo, beams, out, fault, pushed>>
  BY <1>2 DEF CutNext, CutTo, Goto
<1> DEFINE c == cont[Later(n)]
<1>4. /\ cont'[Later(n)] = Shrunk(c) /\ cont'[Now(n)] = cont[Now(n)]
      /\ cont'["selected"] = cont["selected"] /\ c \in Container
  BY <1>0, <1>3, ContsType DEF Names
<1>5. \A v \in Block : Due(v)' = Due(v) /\ LevelOf(v)' = n
  BY <1>0, <1>1, <1>3, <1>4, TrimDue DEF Heads
<1>6. /\ pc[Leader] \in {"trim", "shrink", "save", "saveSync"}
      /\ pc[Leader] = "trim" => ~SortsNext(n)
      /\ pc'[Leader] = IF u = Leader THEN "save" ELSE pc[Leader]
  BY <1>0, <1>1, <1>3, PhaseOf DEF Passing, Saving, At
<1>7. NextGathered(n) /\ NextWinners(n) /\ SelectedPaths /\ CurPaths(n)
  BY <1>1, <1>6 DEF SearchInv
<1>8. Kids(n)' = Kids(n)
  BY <1>4 DEF Kids
<1> HIDE DEF c
<1>9. NextGathered(n)'
  <2> SUFFICES ASSUME pc'[Leader] = "trim", n < NumOutpos
               PROVE  ~SortsNext(n)' /\ Winners(Shrunk(c), Kids(n) \cap ToNext)
    BY <1>4, <1>8 DEF NextGathered
  <2>1. ~SortsNext(n) /\ Winners(c, Kids(n) \cap ToNext)
    BY <1>6, <1>7 DEF NextGathered, c
  <2>2. ~TrimSyncs(Shrunk(c), FALSE)
    BY <1>4, <2>1, ShrunkStaysUnsynced DEF SortsNext, c
  <2> QED BY <1>4, <2>1, <2>2, ShrunkWinners DEF SortsNext
<1>10. NextWinners(n)'
  <2> SUFFICES ASSUME pc'[Leader] \in {"trimSync", "shrink", "save"}, n < NumOutpos
               PROVE  Winners(Shrunk(c), Kids(n) \cap ToNext)
    BY <1>4, <1>8 DEF NextWinners
  <2>1. Winners(c, Kids(n) \cap ToNext)
    BY <1>1, <1>6, <1>7 DEF NextWinners, c
  <2> QED BY <1>4, <2>1, ShrunkWinners
<1>11. SelectedPaths'
  <2>1. Distinct(cont["selected"]) /\ Paths(cont["selected"]) = pushed /\ cont["selected"].cap = FinalBeam
    BY <1>6, <1>7 DEF SelectedPaths, BeforeFinal
  <2>2. pc'[Leader] \in {"trim", "shrink", "save", "saveSync"}
    BY <1>6
  <2> QED BY <1>3, <1>4, <2>1, <2>2 DEF SelectedPaths
<1>12. pc'[Leader] = "saveSync" =>
         pc[Leader] = "saveSync" /\ LevelPaths(cont'[Later(n)], n + 1)
           /\ cont'[Later(n)].size <= cont'[Later(n)].cap
  <2> SUFFICES ASSUME pc'[Leader] = "saveSync"
               PROVE  /\ pc[Leader] = "saveSync" /\ LevelPaths(Shrunk(c), n + 1)
                      /\ Shrunk(c).size <= Shrunk(c).cap
    BY <1>4
  <2>1. pc[Leader] = "saveSync" /\ LevelPaths(c, n + 1)
    BY <1>6, <1>7 DEF CurPaths, c
  <2> QED BY <1>4, <2>1, ShrunkLevel
<1>13. /\ pc'[Leader] \notin StartAt \cup Final \cup {"init", "done"}
       /\ pc'[Leader] \in BeforeSave => pc[Leader] \in BeforeSave
       /\ pc[Leader] # "init"
  BY <1>1, <1>6 DEF StartAt, Final, BeforeSave
<1> QED BY <1>1, <1>3, <1>4, <1>5, <1>9, <1>10, <1>11, <1>12, <1>13, KeepsSearch

LEMMA SortLastSearch ==
  ASSUME BarrierInv, ParentInv, SearchInv, Sortable, NEW n \in 0 .. NumOutpos,
         \A v \in Block : LevelOf(v) = n, TrimFinal(Leader), SortsLast
  PROVE  SearchInv'
<1> USE LeaderIn
<1>0. pc \in [Block -> Location] /\ TypeInv /\ cont \in [Names -> Container]
  BY DEF BarrierInv, TypeInv, TypeOK, Names
<1>1. pc[Leader] = "finalTrim" /\ LevelOf(Leader) = n
  BY DEF TrimFinal
<1>2. PICK d \in Collected(cont["selected"], TRUE) :
        /\ cont' = [cont EXCEPT !["selected"] = d]
        /\ pc' = [pc EXCEPT ![Leader] = "finalSync"]
        /\ UNCHANGED <<outpos, todo, beams, out, fault, pushed>>
  BY DEF TrimFinal, EnterTrim, SortsLast, Goto
<1>3. /\ cont'["selected"] = d /\ \A x \in {"A", "B"} : cont'[x] = cont[x]
      /\ pc'[Leader] = "finalSync" /\ cont["selected"] \in Container
      /\ Now(n) \in {"A", "B"} /\ Later(n) \in {"A", "B"}
  BY <1>0, <1>2, ContsType DEF Names
<1>4. \A v \in Block : Due(v)' = Due(v) /\ LevelOf(v)' = n
  BY <1>0, <1>1, <1>2, <1>3, TrimDue DEF Heads
<1>5. SelectedPaths /\ Ends(n)
  BY <1>1 DEF SearchInv, Final
<1>6. SelectedPaths'
  <2>1. Distinct(cont["selected"]) /\ Paths(cont["selected"]) = pushed /\ cont["selected"].cap = FinalBeam
    BY <1>1, <1>5 DEF SelectedPaths, BeforeFinal
  <2>2. Fresh(cont["selected"])
    BY <1>1 DEF ParentInv, SelectedFresh, BeforeFinal
  <2>3. Winners(d, pushed) /\ InOrder(d) /\ d.cap = FinalBeam
    BY <1>3, <2>1, <2>2, CollectedWinners, CollectedType, WidthsSort
  <2> QED BY <1>2, <1>3, <2>3 DEF SelectedPaths, SelectedWon, BeforeFinal, StartAt
<1>7. NextGathered(n)' /\ NextWinners(n)'
  BY <1>3 DEF NextGathered, NextWinners
<1>8. /\ pc'[Leader] \notin StartAt \cup BeforeSave \cup {"init", "saveSync", "done"}
      /\ pc[Leader] \in Final /\ pc[Leader] # "init"
  BY <1>1, <1>3 DEF StartAt, Final, BeforeSave
<1> QED BY <1>1, <1>2, <1>3, <1>4, <1>5, <1>6, <1>7, <1>8, KeepsSearch

LEMMA CutLastSearch ==
  ASSUME BarrierInv, SearchInv, Sortable, NEW n \in 0 .. NumOutpos,
         \A v \in Block : LevelOf(v) = n, Phase(n), NEW u \in Block, CutFinal(u)
  PROVE  SearchInv'
<1> USE LeaderIn
<1>0. pc \in [Block -> Location] /\ TypeInv /\ cont \in [Names -> Container]
  BY DEF BarrierInv, TypeInv, TypeOK, Names
<1>1. pc[u] = "finalCut" /\ LevelOf(Leader) = n
  BY DEF CutFinal
<1> DEFINE c == cont["selected"]
<1>2. /\ cont' = [cont EXCEPT !["selected"] = Shrunk(c)]
      /\ pc' = [pc EXCEPT ![u] = "outSync"]
      /\ UNCHANGED <<outpos, todo, beams, out, fault, pushed>>
  BY DEF CutFinal, CutTo, Goto
<1>3. /\ cont'["selected"] = Shrunk(c) /\ \A x \in {"A", "B"} : cont'[x] = cont[x]
      /\ c \in Container /\ Now(n) \in {"A", "B"} /\ Later(n) \in {"A", "B"}
  BY <1>0, <1>2, ContsType DEF Names
<1>4. \A v \in Block : Due(v)' = Due(v) /\ LevelOf(v)' = n
  BY <1>0, <1>1, <1>2, <1>3, TrimDue DEF Heads
<1>5. /\ pc[Leader] \in {"check", "swap", "top", "finalTrim", "finalCut", "outSync"}
      /\ pc[Leader] \in {"check", "swap", "top", "finalTrim"} => Ends(n) /\ ~SortsLast
      /\ pc'[Leader] = IF u = Leader THEN "outSync" ELSE pc[Leader]
  BY <1>0, <1>1, <1>2, PhaseOf DEF Leaving, Cutting, At
<1>6. SelectedPaths /\ (pc[Leader] \in Final => Ends(n)) /\ NextGathers(n)
  BY <1>1, <1>5 DEF SearchInv
<1>7. SelectedWon
  <2>1. CASE pc[Leader] \in {"check", "swap", "top", "finalTrim"}
    BY <1>0, <1>5, <1>6, <2>1, PassedSelected DEF BeforeFinal, StartAt
  <2>2. CASE pc[Leader] \in {"finalCut", "outSync"}
    BY <1>6, <2>2 DEF SelectedPaths
  <2> QED BY <1>5, <2>1, <2>2
<1>8. /\ c.cap = FinalBeam
      /\ Winners(c, pushed) /\ InOrder(c)
  BY <1>6, <1>7 DEF SelectedPaths, SelectedWon
<1> HIDE DEF c
<1>9. /\ Winners(Shrunk(c), pushed) /\ InOrder(Shrunk(c))
      /\ Shrunk(c).cap = FinalBeam /\ Shrunk(c).size <= FinalBeam
  BY <1>3, <1>8, ShrunkWinners, ShrunkSize
<1>10. SelectedPaths'
  <2>1. SelectedWon'
    BY <1>2, <1>3, <1>9 DEF SelectedWon
  <2>2. pc'[Leader] \in BeforeFinal =>
          /\ pc'[Leader] \in {"check", "swap", "top", "finalTrim"}
          /\ Ends(LevelOf(Leader))' /\ ~SortsLast'
    <3> SUFFICES ASSUME pc'[Leader] \in BeforeFinal
                 PROVE  /\ pc'[Leader] \in {"check", "swap", "top", "finalTrim"}
                        /\ Ends(LevelOf(Leader))' /\ ~SortsLast'
      OBVIOUS
    <3>1. pc'[Leader] = pc[Leader] /\ pc[Leader] \in {"check", "swap", "top", "finalTrim"}
      BY <1>5 DEF BeforeFinal, StartAt
    <3>2. Ends(n) /\ ~TrimSyncs(c, TRUE)
      BY <1>5, <3>1 DEF SortsLast, c
    <3>3. ~TrimSyncs(Shrunk(c), TRUE)
      BY <1>3, <3>2, ShrunkStaysUnsynced
    <3>4. LevelOf(Leader)' = n
      BY <1>4
    <3>5. Ends(LevelOf(Leader))' <=> Ends(n)
      BY <1>3, <3>4 DEF Ends, Now
    <3> QED BY <1>3, <3>1, <3>2, <3>3, <3>5 DEF SortsLast
  <2> QED BY <1>2, <1>3, <1>9, <2>1, <2>2 DEF SelectedPaths
<1>11. NextGathered(n)' /\ NextWinners(n)'
  BY <1>5 DEF NextGathered, NextWinners
<1>12. /\ pc'[Leader] \notin {"init", "saveSync", "done"}
       /\ pc'[Leader] \in StartAt => pc[Leader] \in StartAt
       /\ pc'[Leader] \in BeforeSave \cup Final => pc[Leader] \in BeforeSave \cup Final
       /\ pc'[Leader] \in Final => Ends(n)
       /\ pc[Leader] # "init"
  BY <1>5, <1>6 DEF StartAt, Final, BeforeSave
<1> QED BY <1>1, <1>2, <1>3, <1>4, <1>10, <1>11, <1>12, KeepsSearch

-----------------------------------------------------------------------------
(* A push moves one child from those to come to those that came.           *)
LEMMA GathersOne ==
  ASSUME NEW D, NEW In, NEW S, Gathers(D, In, S), NEW x \in D
  PROVE  /\ x[2].path \notin In /\ x[2].path \in S
         /\ Gathers(D \ {x}, In \cup {x[2].path}, S)
<1> DEFINE E == D \ {x}
           p == x[2].path
<1>1. /\ In \cup Coming(D) = S /\ In \cap Coming(D) = {}
      /\ \A y, z \in D : y[2].path = z[2].path => y = z
  BY DEF Gathers
<1>2. p \in Coming(D)
  BY DEF Coming
<1>3. Coming(E) = Coming(D) \ {p}
  <2>1. ASSUME NEW q \in Coming(E) PROVE q \in Coming(D) \ {p}
    <3>1. PICK y \in E : q = y[2].path
      BY DEF Coming
    <3>2. y \in D /\ y # x
      BY <3>1
    <3>3. q # p
      BY <1>1, <3>1, <3>2
    <3> QED BY <3>1, <3>2, <3>3 DEF Coming
  <2>2. ASSUME NEW q \in Coming(D) \ {p} PROVE q \in Coming(E)
    <3>1. PICK y \in D : q = y[2].path
      BY DEF Coming
    <3>2. y \in E
      BY <2>2, <3>1
    <3> QED BY <3>1, <3>2 DEF Coming
  <2> QED BY <2>1, <2>2
<1> HIDE DEF p
<1>4. p \notin In /\ p \in S /\ (In \cup {p}) \cup Coming(E) = S /\ (In \cup {p}) \cap Coming(E) = {}
  BY <1>1, <1>2, <1>3
<1>5. \A y, z \in E : y[2].path = z[2].path => y = z
  BY <1>1
<1> HIDE DEF E
<1>6. Gathers(E, In \cup {p}, S)
  BY <1>4, <1>5 DEF Gathers
<1> QED BY <1>4, <1>6 DEF E, p

(* A child has one token more than its parents.                            *)
LEMMA KidsLonger ==
  ASSUME NEW c \in Container, NEW m \in Nat, LevelPaths(c, m), NEW q \in KidsOf(c)
  PROVE  q \in Seq(Token) /\ Len(q) = m + 1 /\ q # << >>
<1>1. PICK i \in 0 .. c.size - 1, k \in Token : q = Append(c.cand[i].path, k)
  BY KidsAt
<1>2. c.cand[i].path \in Paths(c)
  BY PathsAt
<1>3. c.cand[i].path \in Seq(Token) /\ Len(c.cand[i].path) = m
  BY <1>2, PathsType DEF LevelPaths
<1>4. Append(c.cand[i].path, k) \in Seq(Token)
  BY <1>3
<1> QED BY <1>1, <1>3, <1>4, AppendOne

LEMMA PushSearch ==
  ASSUME BarrierInv, SearchInv, NEW n \in 0 .. NumOutpos, Phase(n),
         NEW u \in Block, Push(u), ~fault, ~fault'
  PROVE  SearchInv'
<1> USE LeaderIn
<1>1. /\ Expanding(n) /\ n < NumOutpos /\ cont'[Now(n)] = cont[Now(n)]
      /\ pc[Leader] \in StartAt /\ UNCHANGED <<pc, outpos, beams, out>>
      /\ LevelOf(Leader) = n /\ LevelOf(Leader)' = n
  BY PushStep
<1>2. PICK t \in {"next", "selected"}, child \in Beam :
        LET c == IF t = "next" THEN Later(n) ELSE "selected"
            s == IF t = "next" THEN "selected" ELSE "next"
        IN  /\ <<u, child>> \in Debts(t)
            /\ Debts(t)' = Debts(t) \ {<<u, child>>} /\ Debts(s)' = Debts(s)
            /\ HasRoom(cont[c]) /\ cont' = [cont EXCEPT ![c] = Pushed(cont[c], child)]
            /\ pushed' = IF t = "selected" THEN pushed \cup {child.path} ELSE pushed
  <2> USE PushStep
  <2> QED BY PushStep
<1>3. /\ NextGathers(n) /\ SelectedGathers(n) /\ CurPaths(n) /\ PushedLengths(n)
      /\ SelectedPaths /\ Chain
  BY <1>1 DEF SearchInv, StartAt
<1>4. cont \in [Names -> Container] /\ TypeInv
  BY DEF BarrierInv, TypeInv, TypeOK, Names
<1>5. /\ pc[Leader] \in BeforeSave /\ pc[Leader] \in BeforeFinal
      /\ pc'[Leader] = pc[Leader] /\ pc[Leader] \notin Final
      /\ pc[Leader] \notin {"init", "trim", "trimSync", "shrink", "save", "saveSync"}
      /\ ~Ends(n)
  BY <1>1 DEF StartAt, BeforeSave, BeforeFinal, Final, Expanding
<1>6. /\ Distinct(cont[Later(n)]) /\ Gathers(Debts("next"), Paths(cont[Later(n)]), Kids(n) \cap ToNext)
      /\ Gathers(Debts("selected"), PushedAt(n + 1), Kids(n) \cap ToSelected)
      /\ Distinct(cont["selected"]) /\ Paths(cont["selected"]) = pushed
      /\ LevelPaths(cont[Now(n)], n)
  BY <1>1, <1>3, <1>5 DEF NextGathers, SelectedGathers, SelectedPaths, CurPaths
<1>7. Kids(n)' = Kids(n) /\ (Ends(n)' <=> Ends(n))
  BY <1>1 DEF Kids, Ends
<1> DEFINE x == <<u, child>>
<1>8. x[2].path = child.path
  OBVIOUS
<1> HIDE DEF x
<1>9. CASE t = "next"
  <2>1. /\ x \in Debts("next") /\ Debts("next")' = Debts("next") \ {x}
        /\ Debts("selected")' = Debts("selected") /\ pushed' = pushed
        /\ HasRoom(cont[Later(n)]) /\ cont' = [cont EXCEPT ![Later(n)] = Pushed(cont[Later(n)], child)]
    BY <1>2, <1>9 DEF x
  <2>2. /\ cont'[Later(n)] = Pushed(cont[Later(n)], child) /\ cont'["selected"] = cont["selected"]
        /\ cont[Later(n)] \in Container
    BY <1>4, <2>1, ContsType DEF Names
  <2>3. /\ child.path \notin Paths(cont[Later(n)])
        /\ Gathers(Debts("next") \ {x}, Paths(cont[Later(n)]) \cup {child.path}, Kids(n) \cap ToNext)
    <3> DEFINE S == Kids(n) \cap ToNext
               In == Paths(cont[Later(n)])
    <3>1. Gathers(Debts("next"), In, S)
      BY <1>6
    <3> HIDE DEF S, In
    <3>2. x[2].path \notin In /\ Gathers(Debts("next") \ {x}, In \cup {x[2].path}, S)
      <4> DEFINE D == Debts("next")
      <4>1. x \in D /\ Gathers(D, In, S)
        BY <2>1, <3>1
      <4> HIDE DEF D
      <4>2. x[2].path \notin In /\ Gathers(D \ {x}, In \cup {x[2].path}, S)
        BY ONLY <4>1, GathersOne
      <4> QED BY <4>2 DEF D
    <3> QED BY <1>8, <3>2 DEF S, In
  <2>4. /\ Paths(cont'[Later(n)]) = Paths(cont[Later(n)]) \cup {child.path}
        /\ Distinct(cont'[Later(n)])
    BY <1>6, <2>1, <2>2, <2>3, PushedPaths
  <2>5. Gathers(Debts("next")', Paths(cont'[Later(n)]), Kids(n)' \cap ToNext)
    BY <1>7, <2>1, <2>3, <2>4
  <2>6. NextGathers(n)'
    BY <2>4, <2>5 DEF NextGathers
  <2>7. SelectedGathers(n)' /\ PushedLengths(n)'
    BY <1>3, <1>5, <1>7, <2>1 DEF SelectedGathers, PushedAt, PushedLengths
  <2>8. SelectedPaths'
    BY <1>3, <1>5, <1>6, <2>1, <2>2 DEF SelectedPaths, BeforeFinal, StartAt
  <2>9. /\ NextGathered(n)' /\ NextWinners(n)' /\ CurPaths(n)' /\ BestAnswer'
    BY <1>1, <1>3, <1>5 DEF NextGathered, NextWinners, CurPaths, BestAnswer, Final
  <2>10. Chain'
    BY <1>1, <1>3 DEF Chain, ParentSaved
  <2> QED BY <1>1, <1>5, <2>6, <2>7, <2>8, <2>9, <2>10 DEF SearchInv
<1>10. CASE t = "selected"
  <2>1. /\ x \in Debts("selected") /\ Debts("selected")' = Debts("selected") \ {x}
        /\ Debts("next")' = Debts("next") /\ pushed' = pushed \cup {child.path}
        /\ HasRoom(cont["selected"]) /\ cont' = [cont EXCEPT !["selected"] = Pushed(cont["selected"], child)]
    BY <1>2, <1>10 DEF x
  <2>2. /\ cont'["selected"] = Pushed(cont["selected"], child) /\ cont'[Later(n)] = cont[Later(n)]
        /\ cont["selected"] \in Container
    BY <1>4, <2>1, ContsType DEF Names
  <2>3. /\ child.path \notin PushedAt(n + 1) /\ child.path \in Kids(n)
        /\ Gathers(Debts("selected") \ {x}, PushedAt(n + 1) \cup {child.path}, Kids(n) \cap ToSelected)
    <3> DEFINE S == Kids(n) \cap ToSelected
               In == PushedAt(n + 1)
    <3>1. Gathers(Debts("selected"), In, S)
      BY <1>6
    <3> HIDE DEF In
    <3>2. x[2].path \notin In /\ x[2].path \in S /\ Gathers(Debts("selected") \ {x}, In \cup {x[2].path}, S)
      <4> DEFINE D == Debts("selected")
      <4>1. x \in D /\ Gathers(D, In, S)
        BY <2>1, <3>1
      <4> HIDE DEF D, S
      <4>2. x[2].path \notin In /\ x[2].path \in S /\ Gathers(D \ {x}, In \cup {x[2].path}, S)
        BY ONLY <4>1, GathersOne
      <4> QED BY <4>2 DEF D
    <3> QED BY <1>8, <3>2 DEF In
  <2>4. Len(child.path) = n + 1 /\ child.path \notin pushed
    <3>1. Len(child.path) = n + 1
      BY <1>4, <1>6, <2>3, ContsType, KidsLonger DEF Kids
    <3> QED BY <2>3, <3>1 DEF PushedAt
  <2>5. /\ Paths(cont'["selected"]) = pushed' /\ Distinct(cont'["selected"])
        /\ cont'["selected"].cap = cont["selected"].cap
    BY <1>6, <2>1, <2>2, <2>4, PushedPaths
  <2>6. PushedAt(n + 1)' = PushedAt(n + 1) \cup {child.path}
    <3>1. {p \in pushed \cup {child.path} : Len(p) = n + 1}
            = {p \in pushed : Len(p) = n + 1} \cup {child.path}
      BY <2>4
    <3> QED BY <2>1, <3>1 DEF PushedAt
  <2>7. Gathers(Debts("selected")', PushedAt(n + 1)', Kids(n)' \cap ToSelected)
    BY <1>7, <2>1, <2>3, <2>6
  <2>8. SelectedGathers(n)'
    BY <2>7 DEF SelectedGathers, PushedAt
  <2>9. PushedLengths(n)'
    BY <1>1, <1>3, <2>1, <2>4 DEF PushedLengths
  <2>10. SelectedPaths'
    BY <1>3, <1>5, <2>5 DEF SelectedPaths, BeforeFinal, StartAt
  <2>11. NextGathers(n)'
    BY <1>3, <1>5, <1>7, <2>1, <2>2 DEF NextGathers
  <2>12. /\ NextGathered(n)' /\ NextWinners(n)' /\ CurPaths(n)' /\ BestAnswer'
    BY <1>1, <1>3, <1>5 DEF NextGathered, NextWinners, CurPaths, BestAnswer, Final
  <2>13. Chain'
    BY <1>1, <1>3 DEF Chain, ParentSaved
  <2> QED BY <1>1, <1>5, <2>8, <2>9, <2>10, <2>11, <2>12, <2>13 DEF SearchInv
<1> QED BY <1>9, <1>10

-----------------------------------------------------------------------------
(* The launch, the save, the next output position and the result.          *)
LEMMA InitSearch ==
  ASSUME Init
  PROVE  SearchInv
BY LeaderIn DEF Init, SearchInv

LEMMA PrepareSearch ==
  ASSUME Root = << >>, BarrierInv, ParentInv, SearchInv, Prepare(Leader)
  PROVE  SearchInv'
<1> USE LeaderIn
<1>1. PICK n \in 0 .. NumOutpos : Phase(n)
  BY DEF BarrierInv, Aligned
<1>2. /\ pc[Leader] = "init" /\ pc' = [pc EXCEPT ![Leader] = "initSync"]
      /\ cont' = [ A |-> Pushed(WithCapacity(Cleared(cont["A"]), 1), RootBeam),
                   B |-> WithCapacity(Cleared(cont["B"]), BeamWidth[0]),
                   selected |-> WithCapacity(Cleared(cont["selected"]), FinalBeam) ]
      /\ beams' = <<RootBeam>> /\ UNCHANGED <<outpos, todo, pushed>>
  BY DEF Prepare, Goto
<1>3. pc \in [Block -> Location] /\ outpos[Leader] = 0
  BY <1>2 DEF BarrierInv, TypeInv, TypeOK, ParentInv, AtZero
<1>4. pc'[Leader] = "initSync" /\ LevelOf(Leader)' = 0 /\ 0 < NumOutpos
  BY <1>2, <1>3 DEF LevelOf
<1>5. \A v \in Block : pc'[v] \in {"init", "initSync"} /\ outpos'[v] = 0 /\ LevelOf(v)' = 0
  <2> TAKE v \in Block
  <2>1. pc[v] \in {"init", "initSync"}
    BY <1>1, <1>2, PhaseOf DEF Starting, At
  <2>2. outpos[v] = 0
    BY <2>1 DEF ParentInv, AtZero
  <2> QED BY <1>2, <1>3, <2>1, <2>2 DEF LevelOf
<1>6. cont["A"] \in Container /\ cont["B"] \in Container /\ cont["selected"] \in Container
  BY DEF BarrierInv, TypeInv, TypeOK
<1>7. Now(0) = "A" /\ Later(0) = "B"
  BY DEF Now, Later
<1> DEFINE a == WithCapacity(Cleared(cont["A"]), 1)
           c == Pushed(a, RootBeam)
<1>8. c \in Container /\ Distinct(c) /\ Paths(c) = {<< >>}
  <2>1. a \in Container /\ Paths(a) = {} /\ Distinct(a)
    BY <1>6, ClearedPaths, ClearedType, WithCapacityType
  <2>2. a.size = 0
    BY <1>6, ClearedParts
  <2>3. RootBeam \in Beam /\ RootBeam.path = << >>
    BY DEF RootBeam, Beam, NoId
  <2>4. HasRoom(a)
    BY <2>2 DEF HasRoom
  <2> HIDE DEF a
  <2> QED BY <2>1, <2>3, <2>4, PushedPaths, PushedType
<1>9. cont'["A"] = c
  BY <1>2
<1> HIDE DEF a, c
<1>10. /\ Paths(cont'["B"]) = {} /\ Distinct(cont'["B"])
       /\ Paths(cont'["selected"]) = {} /\ Distinct(cont'["selected"])
       /\ cont'["selected"].cap = FinalBeam
  <2>1. Paths(cont'["B"]) = {} /\ Distinct(cont'["B"])
    BY <1>2, <1>6, ClearedPaths
  <2>2. Paths(cont'["selected"]) = {} /\ Distinct(cont'["selected"])
    BY <1>2, <1>6, ClearedPaths
  <2>3. cont'["selected"].cap = FinalBeam
    BY <1>2, <1>6 DEF WithCapacity, Cleared, Container
  <2> QED BY <2>1, <2>2, <2>3
<1>11. \A v \in Block : Due(v)' = Share(v, c)
  <2> TAKE v \in Block
  <2>1. Due(v)' = IF pc'[v] = "expand" THEN todo'[v]
                  ELSE IF pc'[v] \in Heads THEN Share(v, cont'[Now(LevelOf(v)')]) ELSE {}
    BY DEF Due, Share, Now
  <2>2. LevelOf(v)' = 0 /\ pc'[v] \in Heads /\ pc'[v] # "expand"
    BY <1>5 DEF Heads
  <2> QED BY <1>7, <1>9, <2>1, <2>2
<1>12. \A t \in {"next", "selected"} : Gathers(Debts(t)', {}, KidsOf(c) \cap Target(t))
  BY <1>8, <1>11, KidsToCome
<1>13. /\ Gathers(Debts("next")', {}, KidsOf(c) \cap ToNext)
       /\ Gathers(Debts("selected")', {}, KidsOf(c) \cap ToSelected)
  BY <1>12 DEF Target
<1>14. pushed' = {}
  BY <1>2 DEF SearchInv
<1>15. NextGathers(0)'
  <2>1. KidsOf(cont'[Now(0)]) = KidsOf(c)
    BY <1>7, <1>9
  <2> QED BY <1>7, <1>10, <1>13, <2>1 DEF NextGathers, Kids, Now, Later
<1>16. SelectedGathers(0)'
  <2>1. PushedAt(0 + 1)' = {}
    BY <1>14 DEF PushedAt
  <2>2. Kids(0)' = KidsOf(c)
    BY <1>7, <1>9 DEF Kids, Now
  <2> QED BY <1>13, <2>1, <2>2 DEF SelectedGathers
<1>17. CurPaths(0)'
  <2>1. LevelPaths(c, 0)
    BY <1>8, EmptySeq DEF LevelPaths
  <2>2. cont'[Now(0)] = c
    BY <1>7, <1>9
  <2> QED BY <1>4, <2>1, <2>2 DEF CurPaths, Now
<1>18. PushedLengths(0)' /\ NextGathered(0)' /\ NextWinners(0)' /\ BestAnswer'
  BY <1>4, <1>14 DEF PushedLengths, NextGathered, NextWinners, BestAnswer
<1>19. SelectedPaths'
  BY <1>4, <1>10, <1>14 DEF SelectedPaths
<1>20. Chain'
  BY <1>2 DEF Chain, ParentSaved, RootBeam
<1>21. pc'[Leader] \notin Final
  BY <1>4 DEF Final
<1> QED BY <1>4, <1>15, <1>16, <1>17, <1>18, <1>19, <1>20, <1>21 DEF SearchInv

(* The same with the array of beams as a parameter.                        *)
SavedIn(b, bs) ==
  b.path # Root => /\ b.parent + 1 \in DOMAIN bs
                   /\ \E k \in Token : b.path = Append(bs[b.parent + 1].path, k)

LEMMA SavedInBeams ==
  ASSUME NEW b
  PROVE  /\ ParentSaved(b) <=> SavedIn(b, beams)
         /\ ParentSaved(b)' <=> SavedIn(b, beams')
BY DEF ParentSaved, SavedIn

LEMMA ChainIs ==
  /\ Chain <=> \A i \in DOMAIN beams : SavedIn(beams[i], beams)
  /\ Chain' <=> \A i \in DOMAIN beams' : SavedIn(beams'[i], beams')
BY DEF Chain, ParentSaved, SavedIn

(* Behind a save the array of beams still leads back to the root.          *)
LEMMA ChainGrows ==
  ASSUME Chain, beams \in Seq(Beam), NEW s \in Seq(Beam), beams' = beams \o s,
         \A i \in 1 .. Len(s) : SavedIn(s[i], beams')
  PROVE  Chain'
<1>1. /\ Len(beams) \in Nat /\ Len(s) \in Nat /\ DOMAIN beams = 1 .. Len(beams)
      /\ DOMAIN beams' = 1 .. Len(beams) + Len(s)
      /\ \A i \in 1 .. Len(beams) + Len(s) :
           beams'[i] = IF i <= Len(beams) THEN beams[i] ELSE s[i - Len(beams)]
  BY ConcatProperties, LenProperties
<1> SUFFICES ASSUME NEW i \in 1 .. Len(beams) + Len(s) PROVE SavedIn(beams'[i], beams')
  BY <1>1, ChainIs
<1>2. CASE i <= Len(beams)
  <2>1. i \in DOMAIN beams /\ beams'[i] = beams[i]
    BY <1>1, <1>2
  <2>2. PICK b : b = beams[i]
    OBVIOUS
  <2>3. ParentSaved(b)
    BY <2>1, <2>2, ChainIs, SavedInBeams
  <2>4. ParentSaved(b)'
    BY <2>3, GrownBeams
  <2> QED BY <2>1, <2>2, <2>4, SavedInBeams
<1>3. CASE ~(i <= Len(beams))
  <2>1. i - Len(beams) \in 1 .. Len(s) /\ beams'[i] = s[i - Len(beams)]
    BY <1>1, <1>3
  <2> QED BY <2>1
<1> QED BY <1>2, <1>3

LEMMA ParentsIn ==
  ASSUME ParentsSaved', pc'[Leader] # "init", NEW x \in {"A", "B", "selected"}
  PROVE  \A b \in Contents(cont'[x]) : SavedIn(b, beams')
BY DEF ParentsSaved, ParentSaved, SavedIn

LEMMA SaveSearch ==
  ASSUME BarrierInv, ParentInv, ParentInv', SearchInv, NEW n \in 0 .. NumOutpos, Phase(n), NextRoom(n),
         Save(Leader)
  PROVE  SearchInv'
<1> USE LeaderIn
<1>1. /\ pc[Leader] = "save" /\ pc' = [pc EXCEPT ![Leader] = "saveSync"]
      /\ UNCHANGED <<outpos, todo, out, pushed>>
  BY DEF Save, Goto
<1>2. LevelOf(Leader) = n /\ outpos[Leader] = n
  BY <1>1, PhaseOf DEF LevelOf
<1>3. pc \in [Block -> Location] /\ cont \in [Names -> Container] /\ beams \in Seq(Beam) /\ TypeInv
  BY DEF BarrierInv, TypeInv, TypeOK, Names
<1>4. n < NumOutpos
  BY <1>1, <1>2 DEF BarrierInv, TypeInv, LoopRange, InLoop
<1>5. /\ Nxt(Leader) = Later(n) /\ Cur(Leader) = Now(n)
      /\ Now(n) \in {"A", "B"} /\ Later(n) \in {"A", "B"} /\ Now(n) # Later(n)
  BY <1>2 DEF Nxt, Later, Cur, Now
<1> DEFINE old   == cont[Later(n)]
           base  == Len(beams)
           saved == Numbered(old, base)
           tail  == [i \in 1 .. saved.size |-> saved.cand[i - 1]]
<1>6. /\ beams' = beams \o tail
      /\ cont'[Later(n)] = saved /\ cont'["selected"] = cont["selected"]
  <2> HIDE DEF saved, tail
  <2> QED BY <1>2, <1>3, <1>5 DEF Save, saved, tail, Names
<1>7. old \in Container /\ base \in Nat /\ cont[Now(n)] \in Container
  BY <1>3, <1>5 DEF Names
<1>8. saved \in Container /\ saved.size = old.size /\ saved.cap = old.cap
  <2> HIDE DEF old, base
  <2> QED BY <1>7, NumberedType
<1>9. /\ NextWinners(n) /\ CurPaths(n) /\ PushedLengths(n) /\ SelectedPaths /\ Chain
  BY <1>1, <1>2 DEF SearchInv
<1>10. /\ Winners(old, Kids(n) \cap ToNext) /\ LevelPaths(cont[Now(n)], n)
       /\ old.size <= old.cap
  <2>1. old.cap = BeamWidth[n] /\ old.size <= BeamWidth[n]
    BY <1>1, <1>4 DEF NextRoom, BeforeSave
  <2> QED BY <1>1, <1>4, <1>9, <2>1 DEF NextWinners, CurPaths, BeforeSave
<1>11. LevelPaths(saved, n + 1)
  <2>1. Distinct(old) /\ Paths(old) = FrontPaths(old) /\ FrontPaths(old) \subseteq Kids(n)
    <3> HIDE DEF old
    <3>1. Distinct(old) /\ Paths(old) = FrontPaths(old)
      BY <1>7, <1>10, CutWinners
    <3> QED BY <1>10, <3>1 DEF Winners
  <2>2. Paths(saved) = Paths(old) /\ Distinct(saved)
    <3> HIDE DEF old, base
    <3> QED BY <1>7, <2>1, NumberedPaths
  <2>3. \A q \in Kids(n) : Len(q) = n + 1
    BY <1>7, <1>10, KidsLonger DEF Kids
  <2> HIDE DEF saved, old
  <2> QED BY <2>1, <2>2, <2>3 DEF LevelPaths
<1>12. pc'[Leader] = "saveSync" /\ LevelOf(Leader)' = n
  BY <1>1, <1>2, <1>3 DEF LevelOf
<1>13. Chain'
  <2>1. saved.size \in Nat /\ \A i \in 1 .. saved.size : saved.cand[i - 1] \in Contents(saved) /\ saved.cand[i - 1] \in Beam
    <3> HIDE DEF saved
    <3>1. saved.size \in Nat /\ saved.cand \in [Slots -> Beam]
          /\ \A i \in 1 .. saved.size : i - 1 \in 0 .. saved.size - 1 /\ i - 1 \in Slots
      BY <1>8, ContainerFields DEF Slots
    <3> QED BY <3>1 DEF Contents
  <2>2. tail \in Seq(Beam) /\ Len(tail) = saved.size
    <3> HIDE DEF saved
    <3>1. tail \in [1 .. saved.size -> Beam]
      BY <2>1
    <3> HIDE DEF tail
    <3> QED BY <2>1, <3>1, ArrayIsSeq
  <2>3. \A b \in Contents(saved) : SavedIn(b, beams')
    <3>1. \A b \in Contents(cont'[Later(n)]) : SavedIn(b, beams')
      <4>1. pc'[Leader] # "init"
        BY <1>12
      <4>2. ParentsSaved'
        BY DEF ParentInv
      <4>3. \A x \in {"A", "B", "selected"} : \A b \in Contents(cont'[x]) : SavedIn(b, beams')
        BY ONLY <4>1, <4>2, ParentsIn
      <4> QED BY <1>5, <4>3
    <3> HIDE DEF saved, tail
    <3> QED BY <1>6, <3>1
  <2>4. \A i \in 1 .. Len(tail) : tail[i] \in Contents(saved)
    BY <2>1, <2>2
  <2> HIDE DEF tail, saved
  <2>5. \A i \in 1 .. Len(tail) : SavedIn(tail[i], beams')
    BY <2>3, <2>4
  <2> QED BY <1>3, <1>6, <1>9, <2>2, <2>5, ChainGrows
<1> HIDE DEF saved, old, base, tail
<1>14. CurPaths(n)'
  <2>1. cont'[Later(n)].size <= cont'[Later(n)].cap
    BY <1>6, <1>8, <1>10
  <2> QED BY <1>6, <1>11, <1>12, <2>1 DEF CurPaths, BeforeSave, StartAt, Final
<1>15. PushedLengths(n)'
  BY <1>1, <1>9 DEF PushedLengths
<1>16. SelectedPaths'
  BY <1>1, <1>6, <1>9, <1>12 DEF SelectedPaths, BeforeFinal
<1>17. NextGathers(n)' /\ NextGathered(n)' /\ SelectedGathers(n)' /\ NextWinners(n)' /\ BestAnswer'
  BY <1>12 DEF NextGathers, NextGathered, SelectedGathers, NextWinners, BestAnswer, StartAt, BeforeSave, Final
<1> QED BY <1>12, <1>13, <1>14, <1>15, <1>16, <1>17 DEF SearchInv, Final

(* Behind the save the next output position opens: all the children of the *)
(* beams that were saved are still to come.                                *)
LEMMA OpenSearch ==
  ASSUME BarrierInv, SearchInv, NEW n \in 0 .. NumOutpos, Phase(n), NextRoom(n),
         Release, pc[Leader] = "saveSync"
  PROVE  SearchInv'
<1> USE LeaderIn
<1>1. /\ UNCHANGED <<outpos, todo, cont, beams, out, pushed>>
      /\ \A v \in Block : pc[v] \in SyncPoint /\ pc'[v] = Resume[pc[v]]
  BY DEF Release
<1>2. \A v \in Block : pc[v] = "saveSync" /\ outpos[v] = n
  <2>1. \A v \in Block : pc[v] = "saveSync"
    BY <1>1, AlignedAgree DEF BarriersAgree
  <2> QED BY <2>1, PhaseOf DEF LevelOf
<1>3. n < NumOutpos /\ LevelOf(Leader) = n
  BY <1>2 DEF BarrierInv, TypeInv, LoopRange, InLoop, LevelOf
<1>4. \A v \in Block : pc'[v] = "check" /\ LevelOf(v)' = n + 1
  BY <1>1, <1>2, ResumeAt DEF LevelOf
<1>5. Now(n + 1) = Later(n) /\ Later(n + 1) = Now(n)
  <2>1. (n + 1) % 2 = 0 <=> ~ (n % 2 = 0)
    BY Parity
  <2> QED BY <2>1 DEF Now, Later
<1>6. /\ CurPaths(n) /\ PushedLengths(n) /\ SelectedPaths /\ Chain
  BY <1>2, <1>3 DEF SearchInv
<1> DEFINE m == n + 1
           c == cont[Later(n)]
<1>7. c \in Container /\ LevelPaths(c, m) /\ Distinct(c)
  BY <1>2, <1>6, ContsType DEF BarrierInv, CurPaths, LevelPaths
<1>8. \A v \in Block : Due(v)' = Share(v, c)
  <2> TAKE v \in Block
  <2>1. pc'[v] \in Heads /\ pc'[v] # "expand" /\ LevelOf(v)' = n + 1
    BY <1>4 DEF Heads
  <2>2. Due(v)' = Share(v, cont'[Now(n + 1)])
    BY <2>1 DEF Due, Share, Now
  <2> QED BY <1>1, <1>5, <2>2
<1> HIDE DEF c
<1>9. \A t \in {"next", "selected"} : Gathers(Debts(t)', {}, KidsOf(c) \cap Target(t))
  BY <1>7, <1>8, KidsToCome
<1>10. /\ Gathers(Debts("next")', {}, KidsOf(c) \cap ToNext)
       /\ Gathers(Debts("selected")', {}, KidsOf(c) \cap ToSelected)
  BY <1>9 DEF Target
<1>11. /\ m \in 1 .. NumOutpos /\ m = n + 1 /\ Now(m) = Later(n) /\ Later(m) = Now(n)
       /\ pc'[Leader] = "check" /\ LevelOf(Leader)' = m
       /\ m < NumOutpos => cont[Now(n)].size = 0
  BY <1>2, <1>3, <1>4, <1>5 DEF NextRoom
<1> HIDE DEF m
<1>12. \A p \in pushed : Len(p) \in Nat /\ Len(p) <= m
  <2> TAKE p \in pushed
  <2>1. Len(p) \in Nat
    BY LenProperties DEF BarrierInv, TypeInv, TypeOK
  <2>2. Len(p) <= n \/ Len(p) = n + 1
    BY <1>6 DEF PushedLengths
  <2> QED BY <1>11, <2>1, <2>2
<1>13. NextGathers(m)'
  <2> SUFFICES ASSUME m < NumOutpos
               PROVE  /\ Distinct(cont'[Later(m)])
                      /\ Gathers(Debts("next")', Paths(cont'[Later(m)]), KidsOf(cont'[Now(m)]) \cap ToNext)
    BY DEF NextGathers, Kids
  <2> DEFINE d == cont'[Later(m)]
  <2>1. d.size = 0
    BY <1>1, <1>11
  <2>2. Distinct(d) /\ Paths(d) = {}
    <3> HIDE DEF d
    <3> QED BY <2>1 DEF Distinct, Paths, Contents
  <2>3. cont'[Now(m)] = c
    BY <1>1, <1>11 DEF c
  <2> QED BY <1>10, <2>2, <2>3
<1>14. SelectedGathers(m)'
  <2> SUFFICES ASSUME m < NumOutpos
               PROVE  Gathers(Debts("selected")', {p \in pushed' : Len(p) = m + 1}, KidsOf(cont'[Now(m)]) \cap ToSelected)
    BY DEF SelectedGathers, Kids, PushedAt
  <2>1. {p \in pushed' : Len(p) = m + 1} = {}
    BY <1>1, <1>11, <1>12
  <2>2. cont'[Now(m)] = c
    BY <1>1, <1>11 DEF c
  <2> QED BY <1>10, <2>1, <2>2
<1>15. CurPaths(m)'
  <2>1. cont'[Now(m)] = c
    BY <1>1, <1>11 DEF c
  <2> QED BY <1>7, <1>11, <2>1 DEF CurPaths
<1>16. PushedLengths(m)'
  BY <1>1, <1>12 DEF PushedLengths
<1>17. SelectedPaths'
  <2>1. /\ cont["selected"].cap = FinalBeam
        /\ Distinct(cont["selected"]) /\ Paths(cont["selected"]) = pushed
    BY <1>2, <1>6 DEF SelectedPaths, BeforeFinal
  <2> QED BY <1>1, <1>11, <2>1 DEF SelectedPaths
<1>18. NextGathered(m)' /\ NextWinners(m)' /\ BestAnswer'
  BY <1>11 DEF NextGathered, NextWinners, BestAnswer
<1>19. Chain'
  BY <1>1, <1>6 DEF Chain, ParentSaved
<1> QED BY <1>11, <1>13, <1>14, <1>15, <1>16, <1>17, <1>18, <1>19 DEF SearchInv, Final

(* The result: sentences are paths, and the best of all comes last.        *)
LEMMA ResultPaths ==
  ASSUME Root = << >>, BarrierInv, ParentInv, SearchInv, NEW n \in 0 .. NumOutpos,
         \A v \in Block : LevelOf(v) = n, GenerateResult(Leader)
  PROVE  LET c == cont["selected"]
         IN  /\ c \in Container /\ c.size <= c.cap /\ c.cap = FinalBeam
             /\ Winners(c, pushed) /\ InOrder(c)
             /\ Distinct(c) /\ Paths(c) = FrontPaths(c) /\ Kept(c) = 0 .. c.size - 1
             /\ \A j \in 0 .. c.size - 1 : c.cand[j].path \in Path
             /\ DOMAIN out' = 1 .. c.size /\ out' \in [1 .. c.size -> Path]
             /\ \A i \in 1 .. c.size : /\ out'[i] = c.cand[c.size - i].path
                                      /\ c.size - i \in 0 .. c.size - 1
             /\ {out'[i] : i \in DOMAIN out'} = FrontPaths(c)
<1> USE LeaderIn
<1> DEFINE c == cont["selected"]
<1>1. /\ pc[Leader] = "generate" /\ pc' = [pc EXCEPT ![Leader] = "done"]
      /\ UNCHANGED <<outpos, todo, cont, beams, pushed>>
      /\ out' = [i \in 1 .. c.size |-> Sentence(c.cand[c.size - i])]
  BY DEF GenerateResult, Goto
<1>2. pc \in [Block -> Location] /\ TypeInv /\ beams \in Seq(Beam) /\ c \in Container
  BY DEF BarrierInv, TypeInv, TypeOK
<1>3. SelectedWon /\ c.size <= c.cap /\ c.cap = FinalBeam /\ Chain /\ Ends(n) /\ SelectedPaths
  BY <1>1 DEF SearchInv, SelectedPaths, Final
<1>4. c.size \in Nat /\ c.cap \in Nat
  BY <1>2, ContainerFields
<1>5. /\ Winners(c, pushed) /\ InOrder(c)
      /\ Distinct(c) /\ Paths(c) = FrontPaths(c) /\ Kept(c) = 0 .. c.size - 1
  <2>1. Winners(c, pushed) /\ InOrder(c)
    BY <1>3 DEF SelectedWon
  <2> HIDE DEF c
  <2> QED BY <1>2, <1>3, <2>1, CutWinners
<1>6. \A j \in 0 .. c.size - 1 : Sentence(c.cand[j]) = c.cand[j].path /\ c.cand[j].path \in Path
  <2> TAKE j \in 0 .. c.size - 1
  <2>1. c.cand[j] \in Contents(c)
    BY DEF Contents
  <2>2. ParentSaved(c.cand[j])
    BY <1>1, <2>1 DEF ParentInv, ParentsSaved
  <2>3. c.cand[j] \in Beam
    <3> HIDE DEF c
    <3>1. j \in Slots
      BY SMTT(30), <1>2, ContainerFields DEF Slots
    <3> QED BY <1>2, <3>1, ContainerFields
  <2> QED BY <1>2, <1>3, <2>2, <2>3, SentenceIsPath DEF Beam
<1> HIDE DEF c
<1> DEFINE s == c.size
           at(i) == c.cand[s - i].path
<1>7. /\ DOMAIN out' = 1 .. s
      /\ \A i \in 1 .. s : out'[i] = at(i) /\ s - i \in 0 .. s - 1
      /\ out' \in [1 .. s -> Path]
  <2>1. \A i \in 1 .. s : s - i \in 0 .. s - 1
    BY SMTT(30), <1>4
  <2> QED BY <1>1, <1>6, <2>1
<1>8. {out'[i] : i \in DOMAIN out'} = FrontPaths(c)
  <2> DEFINE O == {out'[i] : i \in DOMAIN out'}
             F == FrontPaths(c)
  <2>1. ASSUME NEW p \in O PROVE p \in F
    <3>1. PICK i \in 1 .. s : p = out'[i]
      BY <1>7
    <3> QED BY <1>5, <1>7, <3>1 DEF FrontPaths
  <2>2. ASSUME NEW p \in F PROVE p \in O
    <3>1. PICK j \in 0 .. s - 1 : p = c.cand[j].path
      BY <1>5 DEF FrontPaths
    <3>2. s \in Nat
      BY <1>4
    <3>3. s - j \in 1 .. s /\ s - (s - j) = j
      <4> HIDE DEF s, O, F
      <4> QED BY <3>1, <3>2
    <3> QED BY <1>7, <3>1, <3>3
  <2> QED BY <2>1, <2>2
<1>9. \A j \in 0 .. c.size - 1 : c.cand[j].path \in Path
  BY <1>6
<1> QED BY <1>2, <1>3, <1>5, <1>7, <1>8, <1>9 DEF c

LEMMA ResultSearch ==
  ASSUME Root = << >>, BarrierInv, ParentInv, SearchInv, NEW n \in 0 .. NumOutpos,
         \A v \in Block : LevelOf(v) = n, GenerateResult(Leader)
  PROVE  SearchInv'
<1> USE LeaderIn
<1> DEFINE c == cont["selected"]
<1>1. /\ pc[Leader] = "generate" /\ pc' = [pc EXCEPT ![Leader] = "done"]
      /\ UNCHANGED <<outpos, todo, cont, beams, pushed>>
  BY DEF GenerateResult, Goto
<1>2. pc \in [Block -> Location] /\ TypeInv
  BY DEF BarrierInv, TypeInv, TypeOK
<1>3. SelectedWon /\ Chain /\ Ends(n) /\ SelectedPaths
  BY <1>1 DEF SearchInv, SelectedPaths, Final
<1>4. /\ c \in Container /\ c.size <= c.cap /\ c.cap = FinalBeam
      /\ Winners(c, pushed) /\ InOrder(c)
      /\ Distinct(c) /\ Paths(c) = FrontPaths(c) /\ Kept(c) = 0 .. c.size - 1
      /\ \A j \in 0 .. c.size - 1 : c.cand[j].path \in Path
  BY ResultPaths
<1>5. /\ DOMAIN out' = 1 .. c.size /\ out' \in [1 .. c.size -> Path]
      /\ \A i \in 1 .. c.size : out'[i] = c.cand[c.size - i].path /\ c.size - i \in 0 .. c.size - 1
      /\ {out'[i] : i \in DOMAIN out'} = FrontPaths(c)
  BY ResultPaths
<1> HIDE DEF c
<1> DEFINE s == c.size
           at(i) == c.cand[s - i].path
<1>6. s \in Nat /\ c.cap \in Nat
  BY <1>4, ContainerFields
<1>7. /\ DOMAIN out' = 1 .. s /\ out' \in [1 .. s -> Path]
      /\ \A i \in 1 .. s : out'[i] = at(i) /\ s - i \in 0 .. s - 1
  BY <1>5
<1>8. Len(out') = s
  <2>1. out' \in Seq(Path) /\ Len(out') = s
    BY <1>6, <1>7, ArrayIsSeq
  <2> QED BY <2>1
<1>9. {out'[i] : i \in DOMAIN out'} = FrontPaths(c)
  BY <1>5
<1>10. s = Least(Cardinality(pushed), FinalBeam)
  <2>1. Least(s, c.cap) = Least(Cardinality(pushed), c.cap) /\ Least(s, c.cap) = s
    BY <1>4, <1>6 DEF Winners
  <2> QED BY <1>4, <2>1
<1>11. \A i, j \in 1 .. s : i < j => at(i) # at(j) /\ Score[at(i)] <= Score[at(j)]
  <2> SUFFICES ASSUME NEW i \in 1 .. s, NEW j \in 1 .. s, i < j
               PROVE  at(i) # at(j) /\ Score[at(i)] <= Score[at(j)]
    OBVIOUS
  <2>1. s - i \in 0 .. s - 1 /\ s - j \in 0 .. s - 1 /\ s - j < s - i /\ s - i # s - j
    <3>1. s \in Nat
      BY <1>6
    <3> HIDE DEF s
    <3> QED BY <3>1
  <2>2. at(i) # at(j)
    BY <1>4, <2>1 DEF Distinct
  <2>3. Score[at(j)] >= Score[at(i)]
    BY <1>4, <2>1 DEF InOrder
  <2>4. Score[at(i)] \in Int /\ Score[at(j)] \in Int
    <3>1. at(i) \in Path /\ at(j) \in Path
      BY <1>4, <2>1
    <3> HIDE DEF at
    <3> QED BY <3>1
  <2> HIDE DEF at
  <2> QED BY <2>2, <2>3, <2>4
<1>12. \A p \in pushed \ FrontPaths(c), i \in 1 .. s : Score[p] <= Score[at(i)]
  BY <1>4, <1>7 DEF Winners
<1>13. BestAnswer'
  <2>1. {out'[i] : i \in DOMAIN out'} \subseteq pushed'
    BY <1>1, <1>4, <1>9 DEF Winners
  <2>2. Len(out') = Least(Cardinality(pushed'), FinalBeam)
    BY <1>1, <1>8, <1>10
  <2>3. \A i, j \in DOMAIN out' : i < j => out'[i] # out'[j] /\ Score[out'[i]] <= Score[out'[j]]
    <3> HIDE DEF at
    <3> QED BY <1>7, <1>11
  <2>4. \A p \in pushed' \ {out'[i] : i \in DOMAIN out'} : \A i \in DOMAIN out' : Score[p] <= Score[out'[i]]
    <3> HIDE DEF at
    <3> QED BY <1>1, <1>7, <1>9, <1>12
  <2> QED BY <2>1, <2>2, <2>3, <2>4 DEF BestAnswer
<1>14. pc'[Leader] = "done" /\ LevelOf(Leader) = n
  BY <1>1, <1>2
<1>15. \A v \in Block : Due(v)' = Due(v) /\ LevelOf(v)' = n
  BY <1>1, <1>2, TrimDue DEF Heads
<1>16. SelectedPaths'
  BY <1>1, <1>3, <1>4, <1>14 DEF SelectedPaths, BeforeFinal, StartAt
<1>17. NextGathered(n)' /\ NextWinners(n)'
  BY <1>14 DEF NextGathered, NextWinners
<1> HIDE DEF s, at
<1> QED BY <1>1, <1>3, <1>13, <1>14, <1>15, <1>16, <1>17, KeepsSearch DEF StartAt, BeforeSave, Final

(* The leader's first step, and what the others do before it.              *)
LEMMA EarlyMoves ==
  ASSUME BarrierInv, pc[Leader] = "init", Next
  PROVE  \/ Prepare(Leader)
         \/ pc'[Leader] = "init" /\ UNCHANGED <<outpos, cont, beams, pushed, out>>
<1> USE LeaderIn
<1>1. PICK n \in 0 .. NumOutpos : Phase(n)
  BY DEF BarrierInv, Aligned
<1>2. \A v \in Block : pc[v] \in {"init", "initSync"}
  BY <1>1, PhaseOf DEF Starting, At
<1>3. pc \in [Block -> Location]
  BY DEF BarrierInv, TypeInv, TypeOK
<1>4. ~Release
  BY ResumeAt DEF Release
<1>5. PICK u \in Block : Step(u)
  BY <1>4 DEF Next
<1>6. Prepare(u)
  <2>1. pc[u] \in {"init", "initSync"}
    BY <1>2
  <2> QED BY <1>5, <2>1 DEF Step, Top, Push, Expanded, TrimNext, CutNext, Save, CheckSelected,
                           CutSelected, Swap, TrimFinal, CutFinal, GenerateResult
<1>7. CASE u # Leader
  BY <1>3, <1>6, <1>7 DEF Prepare, Goto
<1> QED BY <1>6, <1>7

(* Before the leader has prepared the containers nothing is pushed.        *)
LEMMA EarlySearch ==
  ASSUME Root = << >>, BarrierInv, ParentInv, SearchInv, pc[Leader] = "init", [Next]_vars
  PROVE  SearchInv'
<1>1. CASE UNCHANGED vars
  BY <1>1 DEF vars, SearchInv
<1>2. CASE Prepare(Leader)
  BY <1>2, PrepareSearch
<1>3. CASE pc'[Leader] = "init" /\ UNCHANGED <<outpos, cont, beams, pushed, out>>
  BY <1>3 DEF SearchInv
<1> QED BY <1>1, <1>2, <1>3, EarlyMoves

LEMMA StutterSearch ==
  ASSUME SearchInv, UNCHANGED vars
  PROVE  SearchInv'
<1>1. UNCHANGED <<pc, outpos, todo, cont, beams, out, pushed>>
  BY DEF vars
<1>2. \A n, v : LevelOf(v)' = LevelOf(v) /\ Due(v)' = Due(v)
  BY <1>1 DEF LevelOf, Due, Share, Now
<1>3. \A t : Debts(t)' = Debts(t)
  BY <1>2 DEF Debts
<1>4. LevelOf(Leader)' = LevelOf(Leader)
  BY <1>2
<1> DEFINE n == LevelOf(Leader)
<1>5. PICK m : m = n
  OBVIOUS
<1>6. \A k : /\ NextGathers(k)' <=> NextGathers(k)
             /\ NextGathered(k)' <=> NextGathered(k)
             /\ SelectedGathers(k)' <=> SelectedGathers(k)
             /\ NextWinners(k)' <=> NextWinners(k)
             /\ CurPaths(k)' <=> CurPaths(k)
             /\ PushedLengths(k)' <=> PushedLengths(k)
             /\ Ends(k)' <=> Ends(k)
  <2> TAKE k
  <2>1. Kids(k)' = Kids(k) /\ PushedAt(k + 1)' = PushedAt(k + 1)
    BY <1>1 DEF Kids, PushedAt
  <2>2. (NextGathers(k)' <=> NextGathers(k)) /\ (SelectedGathers(k)' <=> SelectedGathers(k))
    BY <1>1, <1>3, <2>1 DEF NextGathers, SelectedGathers
  <2>3. (NextGathered(k)' <=> NextGathered(k)) /\ (NextWinners(k)' <=> NextWinners(k))
    BY <1>1, <2>1 DEF NextGathered, NextWinners, SortsNext
  <2> QED BY <1>1, <2>2, <2>3 DEF CurPaths, PushedLengths, Ends
<1>7. (SelectedPaths' <=> SelectedPaths) /\ (Chain' <=> Chain) /\ (BestAnswer' <=> BestAnswer)
  <2>1. SelectedPaths' <=> SelectedPaths
    BY <1>1, <1>4, <1>6 DEF SelectedPaths, SelectedWon, SortsLast, Ends
  <2>2. Chain' <=> Chain
    BY <1>1 DEF Chain, ParentSaved
  <2>3. BestAnswer' <=> BestAnswer
    BY <1>1 DEF BestAnswer
  <2> QED BY <2>1, <2>2, <2>3
<1>8. CASE pc[Leader] = "init"
  BY <1>1, <1>8 DEF SearchInv
<1>9. CASE pc[Leader] # "init"
  <2>1. LevelOf(Leader) = m /\ LevelOf(Leader)' = m
    BY <1>4, <1>5
  <2> QED BY <1>1, <1>6, <1>7, <1>9, <2>1 DEF SearchInv
<1> QED BY <1>8, <1>9

LEMMA StepSearch ==
  ASSUME NEW room, NEW saves, Root = << >>, Sortable,
         BarrierInv, Undisturbed, RoomInv(room, saves), ~fault', ParentInv, ParentInv', SearchInv,
         pc[Leader] # "init", NEW u \in Block, Step(u)
  PROVE  SearchInv'
<1> USE LeaderIn
<1>1. PICK n \in 0 .. NumOutpos : Phase(n)
  BY DEF BarrierInv, Aligned
<1>2. \A v \in Block : LevelOf(v) = n
  BY <1>1, PhaseOf
<1>3. NextRoom(n) /\ ~fault
  BY <1>2 DEF RoomInv
<1>4. ASSUME \/ Prepare(u) /\ u # Leader
             \/ Top(u)
             \/ Expanded(u)
             \/ Save(u) /\ u # Leader
             \/ CheckSelected(u)
             \/ Swap(u)
             \/ TrimNext(u) /\ (u # Leader \/ ~SortsNext(n))
             \/ TrimFinal(u) /\ (u # Leader \/ ~SortsLast)
             \/ GenerateResult(u) /\ u # Leader
      PROVE  SearchInv'
  <2>1. /\ UNCHANGED <<cont, beams, pushed, out>>
        /\ \E l \in Location :
             /\ pc' = [pc EXCEPT ![u] = l]
             /\ Hop(u, l, n)
             /\ outpos' = IF l = "top" THEN [outpos EXCEPT ![u] = @ + 1] ELSE outpos
             /\ todo' = IF l = "expand" THEN [todo EXCEPT ![u] = Owed(u)] ELSE todo
    BY <1>2, <1>4, Hops
  <2> QED BY <1>2, <1>3, <2>1, HopSearch
<1>5. CASE Prepare(u)
  <2>1. u # Leader
    BY <1>5 DEF Prepare
  <2> QED BY <1>4, <1>5, <2>1
<1>6. CASE Top(u) \/ Expanded(u) \/ CheckSelected(u) \/ Swap(u)
  BY <1>4, <1>6
<1>7. CASE Push(u)
  BY <1>1, <1>3, <1>7, PushSearch
<1>8. CASE TrimNext(u)
  <2>1. CASE u = Leader /\ SortsNext(n)
    BY <1>2, <1>3, <1>8, <2>1, SortNextSearch
  <2> QED BY <1>4, <1>8, <2>1
<1>9. CASE CutNext(u)
  BY <1>1, <1>2, <1>3, <1>9, CutNextSearch
<1>10. CASE Save(u)
  <2>1. CASE u = Leader
    BY <1>1, <1>3, <1>10, <2>1, SaveSearch
  <2> QED BY <1>4, <1>10, <2>1
<1>11. CASE CutSelected(u)
  <2>1. pc[u] = "selectedCut"
    BY <1>11 DEF CutSelected
  <2> QED BY <1>1, <2>1, PhaseOf
<1>12. CASE TrimFinal(u)
  <2>1. CASE u = Leader /\ SortsLast
    BY <1>2, <1>12, <2>1, SortLastSearch
  <2> QED BY <1>4, <1>12, <2>1
<1>13. CASE CutFinal(u)
  BY <1>1, <1>2, <1>13, CutLastSearch
<1>14. CASE GenerateResult(u)
  <2>1. CASE u = Leader
    BY <1>2, <1>14, <2>1, ResultSearch
  <2> QED BY <1>4, <1>14, <2>1
<1> QED BY <1>5, <1>6, <1>7, <1>8, <1>9, <1>10, <1>11, <1>12, <1>13, <1>14 DEF Step

LEMMA NextSearch ==
  ASSUME NEW room, NEW saves, Root = << >>, Sortable,
         BarrierInv, Undisturbed, RoomInv(room, saves), RoomInv(room, saves)',
         ParentInv, ParentInv', SearchInv, [Next]_vars
  PROVE  SearchInv'
<1>1. CASE pc[Leader] = "init"
  BY <1>1, EarlySearch
<1>2. CASE pc[Leader] # "init" /\ UNCHANGED vars
  BY <1>2, StutterSearch
<1>3. CASE pc[Leader] # "init" /\ Next
  <2>1. CASE Release
    <3>1. PICK n \in 0 .. NumOutpos : Phase(n)
      BY DEF BarrierInv, Aligned
    <3>2. NextRoom(n)
      BY <1>3, <3>1, PhaseOf, LeaderIn DEF RoomInv
    <3> QED BY <2>1, <3>1, <3>2, ReleaseSearch, OpenSearch
  <2>2. ASSUME NEW u \in Block, Step(u) PROVE SearchInv'
    <3>1. ~fault'
      BY DEF RoomInv
    <3> QED BY <1>3, <2>2, <3>1, StepSearch
  <2> QED BY <1>3, <2>1, <2>2 DEF Next
<1> QED BY <1>1, <1>2, <1>3

(* Where there is room, no beam width is above the threshold of the radix  *)
(* path, and beams_[0] holds the root of the trie: for any grid and any    *)
(* order of the blocks' threads, the answer is the sentences of the best   *)
(* complete keys that were met, each once, the best one last.              *)
THEOREM AnswerIsBest ==
  ASSUME Roomy, Sortable, Root = << >>
  PROVE  Spec => []BestAnswer
<1>1. PICK room : Rooms(room)
  BY DEF Roomy
<1>2. PICK saves : Saves(saves)
  BY DEF Roomy
<1>3. IsFiniteSet(Token) /\ ~EarlyExit
  BY DEF Roomy
<1> DEFINE Inv == BarrierInv /\ RoomInv(room, saves) /\ ParentInv /\ SearchInv
<1>4. Init => Inv
  <2>1. Init => RoomInv(room, saves)
    BY LeaderIn DEF Init, RoomInv
  <2> QED BY <2>1, InitAligned, InitParent, InitSearch
<1>5. Inv /\ [Next]_vars => Inv'
  <2> SUFFICES ASSUME Inv, [Next]_vars PROVE Inv'
    OBVIOUS
  <2>1. Undisturbed
    BY <1>1, <1>3, RoomUndisturbed
  <2>2. RoomInv(room, saves)'
    BY <1>1, <1>2, <1>3, <2>1, StepRoom
  <2>3. BarrierInv' /\ ParentInv'
    BY <2>1, NextAligned, NextParent
  <2>4. SearchInv'
    BY <2>1, <2>2, <2>3, NextSearch
  <2> QED BY <2>2, <2>3, <2>4
<1>6. Inv => BestAnswer
  <2>1. "init" # "done"
    OBVIOUS
  <2> QED BY <2>1 DEF SearchInv, BestAnswer
<1> HIDE DEF Inv
<1> QED BY <1>4, <1>5, <1>6, PTL DEF Spec

-----------------------------------------------------------------------------
(* The kernel implements the abstract search.  What the steps are that do  *)
(* not show there: the leader's level, its beams, the keys met and the     *)
(* answer stay as they are.                                                *)
Busy == {"expand", "expandSync", "trim", "trimSync", "shrink", "save"}

Moves(n) ==
  /\ UNCHANGED <<pushed, out, beams>>
  /\ LevelOf(Leader)' = n
  /\ cont'[Now(n)] = cont[Now(n)]
  /\ pc'[Leader] # "init"
  /\ pc'[Leader] = "saveSync" <=> pc[Leader] = "saveSync"
  /\ pc'[Leader] = "done" <=> pc[Leader] = "done"
  /\ pc'[Leader] \in Busy => pc[Leader] \in Busy \/ ~Ends(n)
  /\ pc'[Leader] \in Final => pc[Leader] \in Final \cup BeforeSave
  /\ cont'[Later(n)] \in {cont[Later(n)], Shrunk(cont[Later(n)])} \/ pc[Leader] # "saveSync"

LEMMA HopMoves ==
  ASSUME BarrierInv, NEW n \in 0 .. NumOutpos, LevelOf(Leader) = n, pc[Leader] # "init",
         NEW u \in Block, NEW l \in Location, pc' = [pc EXCEPT ![u] = l], Hop(u, l, n),
         outpos' = IF l = "top" THEN [outpos EXCEPT ![u] = @ + 1] ELSE outpos,
         UNCHANGED <<cont, beams, pushed, out>>
  PROVE  Moves(n)
<1> USE LeaderIn
<1>1. pc \in [Block -> Location] /\ outpos \in [Block -> 0 .. NumOutpos]
  BY DEF BarrierInv, TypeInv, TypeOK
<1>2. /\ u # Leader => pc'[Leader] = pc[Leader] /\ outpos'[Leader] = outpos[Leader]
      /\ u = Leader => pc'[Leader] = l /\ outpos'[Leader] = IF l = "top" THEN outpos[Leader] + 1 ELSE outpos[Leader]
  BY <1>1
<1>3. CASE u # Leader
  BY <1>2, <1>3 DEF Moves, LevelOf, Final
<1>4. CASE u = Leader
  BY <1>2, <1>4 DEF Moves, LevelOf, Hop, Busy, Final, BeforeSave, StartAt
<1> QED BY <1>3, <1>4

LEMMA StepMoves ==
  ASSUME BarrierInv, Undisturbed, NEW n \in 0 .. NumOutpos, Phase(n), pc[Leader] # "init",
         NEW u \in Block, Step(u)
  PROVE  \/ Push(u)
         \/ u = Leader /\ (Save(u) \/ GenerateResult(u))
         \/ Moves(n)
<1> USE LeaderIn
<1>1. \A v \in Block : LevelOf(v) = n
  BY PhaseOf
<1>2. pc \in [Block -> Location] /\ TypeInv /\ cont \in [Names -> Container]
  BY DEF BarrierInv, TypeInv, TypeOK, Names
<1>3. /\ Now(n) \in Names /\ Later(n) \in Names /\ "selected" \in Names
      /\ Now(n) # Later(n) /\ Now(n) # "selected" /\ Later(n) # "selected"
  BY DEF Now, Later, Names
<1>4. ASSUME \/ Prepare(u) /\ u # Leader
             \/ Top(u)
             \/ Expanded(u)
             \/ Save(u) /\ u # Leader
             \/ CheckSelected(u)
             \/ Swap(u)
             \/ TrimNext(u) /\ (u # Leader \/ ~SortsNext(n))
             \/ TrimFinal(u) /\ (u # Leader \/ ~SortsLast)
             \/ GenerateResult(u) /\ u # Leader
      PROVE  Moves(n)
  <2>1. /\ UNCHANGED <<cont, beams, pushed, out>>
        /\ \E l \in Location :
             /\ pc' = [pc EXCEPT ![u] = l]
             /\ Hop(u, l, n)
             /\ outpos' = IF l = "top" THEN [outpos EXCEPT ![u] = @ + 1] ELSE outpos
             /\ todo' = IF l = "expand" THEN [todo EXCEPT ![u] = Owed(u)] ELSE todo
    BY <1>1, <1>4, Hops
  <2> QED BY <1>1, <2>1, HopMoves
<1>5. ASSUME NEW x \in {Later(n), "selected"}, NEW d, NEW l,
             cont' = [cont EXCEPT ![x] = d], pc' = [pc EXCEPT ![u] = l],
             UNCHANGED <<outpos, beams, out, pushed>>,
             pc[u] \in {"trim", "shrink", "finalTrim", "finalCut"},
             l \in {"trimSync", "save", "finalSync", "outSync"},
             pc[u] \in {"trim", "shrink"} <=> l \in {"trimSync", "save"},
             x = Later(n) /\ pc[Leader] = "saveSync" => d = Shrunk(cont[Later(n)])
      PROVE  Moves(n)
  <2>1. cont'[Now(n)] = cont[Now(n)]
    BY <1>2, <1>3, <1>5
  <2>2. cont'[Later(n)] \in {cont[Later(n)], Shrunk(cont[Later(n)])} \/ pc[Leader] # "saveSync"
    BY <1>2, <1>3, <1>5
  <2>3. CASE u = Leader
    <3>1. pc'[Leader] = l /\ outpos'[Leader] = outpos[Leader]
      BY <1>2, <1>5, <2>3
    <3> QED BY <1>1, <1>5, <2>1, <2>2, <2>3, <3>1 DEF Moves, LevelOf, Busy, Final, BeforeSave, StartAt
  <2>4. CASE u # Leader
    <3>1. pc'[Leader] = pc[Leader] /\ outpos'[Leader] = outpos[Leader]
      BY <1>2, <1>5, <2>4
    <3> QED BY <1>1, <1>5, <2>1, <2>2, <3>1 DEF Moves, LevelOf
  <2> QED BY <2>3, <2>4
<1>6. CASE TrimNext(u)
  <2>1. CASE u = Leader /\ SortsNext(n)
    <3>1. pc[u] = "trim" /\ Nxt(u) = Later(n)
      BY <1>1, <1>6 DEF TrimNext, LevelOf, Nxt, Later
    <3>2. PICK d : /\ cont' = [cont EXCEPT ![Later(n)] = d] /\ pc' = [pc EXCEPT ![u] = "trimSync"]
                   /\ UNCHANGED <<outpos, beams, out, pushed>>
      BY <1>6, <2>1, <3>1 DEF TrimNext, EnterTrim, SortsNext, Goto
    <3> QED BY <1>5, <2>1, <3>1, <3>2
  <2> QED BY <1>4, <1>6, <2>1
<1>7. CASE CutNext(u)
  <2>1. pc[u] = "shrink" /\ Nxt(u) = Later(n)
    BY <1>1, <1>7 DEF CutNext, LevelOf, Nxt, Later
  <2>2. /\ cont' = [cont EXCEPT ![Later(n)] = Shrunk(cont[Later(n)])] /\ pc' = [pc EXCEPT ![u] = "save"]
        /\ UNCHANGED <<outpos, beams, out, pushed>>
    BY <1>7, <2>1 DEF CutNext, CutTo, Goto
  <2> QED BY <1>5, <2>1, <2>2
<1>8. CASE TrimFinal(u)
  <2>1. CASE u = Leader /\ SortsLast
    <3>1. pc[u] = "finalTrim"
      BY <1>8 DEF TrimFinal
    <3>2. PICK d : /\ cont' = [cont EXCEPT !["selected"] = d] /\ pc' = [pc EXCEPT ![u] = "finalSync"]
                   /\ UNCHANGED <<outpos, beams, out, pushed>>
      BY <1>8, <2>1, <3>1 DEF TrimFinal, EnterTrim, SortsLast, Goto
    <3> QED BY <1>3, <1>5, <2>1, <3>1, <3>2
  <2> QED BY <1>4, <1>8, <2>1
<1>9. CASE CutFinal(u)
  <2>1. pc[u] = "finalCut"
    BY <1>9 DEF CutFinal
  <2>2. /\ cont' = [cont EXCEPT !["selected"] = Shrunk(cont["selected"])] /\ pc' = [pc EXCEPT ![u] = "outSync"]
        /\ UNCHANGED <<outpos, beams, out, pushed>>
    BY <1>9, <2>1 DEF CutFinal, CutTo, Goto
  <2> QED BY <1>3, <1>5, <2>1, <2>2
<1>10. ~CutSelected(u)
  BY PhaseOf DEF CutSelected
<1>11. CASE Prepare(u)
  <2>1. u # Leader
    BY <1>11 DEF Prepare
  <2> QED BY <1>4, <1>11, <2>1
<1> QED BY <1>4, <1>6, <1>7, <1>8, <1>9, <1>10, <1>11 DEF Step

LEMMA ReleaseMoves ==
  ASSUME BarrierInv, NEW n \in 0 .. NumOutpos, Phase(n), Release
  PROVE  /\ pc[Leader] # "saveSync" => Moves(n)
         /\ pc[Leader] = "saveSync" =>
              /\ pc'[Leader] = "check" /\ LevelOf(Leader)' = n + 1
              /\ UNCHANGED <<outpos, cont, beams, pushed, out>>
<1> USE LeaderIn
<1>1. /\ pc[Leader] \in SyncPoint /\ pc'[Leader] = Resume[pc[Leader]] /\ LevelOf(Leader) = n
      /\ UNCHANGED <<outpos, todo, cont, beams, out, pushed>>
  BY PhaseOf DEF Release
<1>2. pc[Leader] \in {"initSync", "expandSync", "trimSync", "saveSync", "finalSync", "outSync"}
  <2>1. pc[Leader] \notin {"selectedSync", "proactiveSync"}
    BY DEF Phase, At, Starting, Expanding, Sorting, Passing, Saving, Ordering, Leaving, Cutting, Writing
  <2> QED BY <1>1, <2>1, ResumeAt
<1>3. CASE pc[Leader] = "saveSync"
  BY <1>1, <1>3, ResumeAt DEF LevelOf
<1>4. CASE pc[Leader] # "saveSync"
  BY <1>1, <1>2, <1>4, ResumeAt DEF Moves, LevelOf, Busy, Final, BeforeSave, StartAt
<1> QED BY <1>3, <1>4

-----------------------------------------------------------------------------
(* What the leader's steps say of the array of beams, and of the beams it  *)
(* still expands.                                                          *)
SpanInv(saves) ==
  /\ pc[Leader] = "init" => beams = << >>
  /\ pc[Leader] \in Final => Len(beams) <= saves[LevelOf(Leader)]
  /\ pc[Leader] \in Busy => cont[Now(LevelOf(Leader))].size # 0

LEMMA InitSpan ==
  ASSUME Init, NEW saves
  PROVE  SpanInv(saves)
BY LeaderIn DEF Init, SpanInv, Final, Busy

LEMMA NextSpan ==
  ASSUME NEW room, NEW saves, BarrierInv, Undisturbed, RoomInv(room, saves), SpanInv(saves), [Next]_vars
  PROVE  SpanInv(saves)'
<1> USE LeaderIn
<1>1. PICK n \in 0 .. NumOutpos : Phase(n)
  BY DEF BarrierInv, Aligned
<1>2. LevelOf(Leader) = n /\ pc \in [Block -> Location]
  BY <1>1, PhaseOf DEF BarrierInv, TypeInv, TypeOK
<1>3. ASSUME pc[Leader] # "init", Moves(n) PROVE SpanInv(saves)'
  <2>1. LevelOf(Leader)' = n /\ beams' = beams /\ cont'[Now(n)] = cont[Now(n)] /\ pc'[Leader] # "init"
    BY <1>3 DEF Moves
  <2>2. pc'[Leader] \in Final => Len(beams') <= saves[n]
    BY <1>2, <1>3, <2>1 DEF Moves, SpanInv, RoomInv, BeamsRoom
  <2>3. pc'[Leader] \in Busy => cont'[Now(n)].size # 0
    BY <1>2, <1>3, <2>1 DEF Moves, SpanInv, Ends
  <2>4. (cont[Now(LevelOf(Leader))])' = cont'[Now(n)]
    BY <2>1 DEF Now
  <2> QED BY <2>1, <2>2, <2>3, <2>4 DEF SpanInv
<1>4. CASE UNCHANGED vars
  <2>1. UNCHANGED <<pc, outpos, cont, beams>>
    BY <1>4 DEF vars
  <2> QED BY <2>1 DEF SpanInv, LevelOf, Now
<1>5. CASE pc[Leader] = "init" /\ Next
  <2>1. CASE Prepare(Leader)
    <3>1. pc'[Leader] = "initSync"
      BY <1>2, <2>1 DEF Prepare, Goto
    <3> QED BY <3>1 DEF SpanInv, Final, Busy
  <2>2. CASE pc'[Leader] = "init" /\ UNCHANGED <<cont, beams, pushed, out>>
    BY <1>5, <2>2 DEF SpanInv, Final, Busy
  <2> QED BY <1>5, <2>1, <2>2, EarlyMoves
<1>6. CASE pc[Leader] # "init" /\ Release
  <2>1. CASE pc[Leader] = "saveSync"
    <3>1. pc'[Leader] = "check"
      BY <1>1, <1>6, <2>1, ReleaseMoves
    <3> QED BY <3>1 DEF SpanInv, Final, Busy
  <2> QED BY <1>1, <1>3, <1>6, <2>1, ReleaseMoves
<1>7. ASSUME pc[Leader] # "init", NEW u \in Block, Step(u) PROVE SpanInv(saves)'
  <2>1. CASE Push(u)
    <3>1. /\ UNCHANGED <<pc, outpos, beams>> /\ cont'[Now(n)] = cont[Now(n)]
          /\ LevelOf(Leader)' = n
      BY <1>1, <2>1, PushStep
    <3>2. (cont[Now(LevelOf(Leader))])' = cont'[Now(n)]
      BY <3>1 DEF Now
    <3> QED BY <1>2, <3>1, <3>2 DEF SpanInv
  <2>2. CASE u = Leader /\ Save(u)
    <3>1. pc'[Leader] = "saveSync"
      BY <1>2, <2>2 DEF Save, Goto
    <3> QED BY <3>1 DEF SpanInv, Final, Busy
  <2>3. CASE u = Leader /\ GenerateResult(u)
    <3>1. pc[Leader] = "generate" /\ pc'[Leader] = "done" /\ UNCHANGED <<outpos, beams>>
      BY <1>2, <2>3 DEF GenerateResult, Goto
    <3>2. LevelOf(Leader)' = LevelOf(Leader)
      BY <3>1 DEF LevelOf
    <3> QED BY <3>1, <3>2 DEF SpanInv, Final, Busy
  <2> QED BY <1>1, <1>3, <1>7, <2>1, <2>2, <2>3, StepMoves
<1> QED BY <1>4, <1>5, <1>6, <1>7 DEF Next

(* The recursive function of the beams saved before an output position.    *)
LEMMA SavedByIs ==
  /\ SavedBy \in [0 .. NumOutpos -> Nat \ {0}]
  /\ SavedBy[0] = 1
  /\ \A n \in 0 .. NumOutpos - 1 : SavedBy[n + 1] = SavedBy[n] + BeamWidth[n]
<1> DEFINE N == NumOutpos
           Sums(m, g) == /\ g \in [0 .. m -> Nat \ {0}]
                         /\ g[0] = 1
                         /\ \A n \in 1 .. m : g[n] = g[n - 1] + BeamWidth[n - 1]
<1>1. \A m \in 0 .. N : \E g : Sums(m, g)
  <2> DEFINE T == {m \in 0 .. N : ~ \E g : Sums(m, g)}
  <2> SUFFICES ASSUME T # {} PROVE FALSE
    OBVIOUS
  <2>1. T \subseteq Nat
    OBVIOUS
  <2> HIDE DEF T
  <2>2. PICK m \in T : \A y \in T : m <= y
    BY <2>1, LeastNatural
  <2>3. m \in 0 .. N /\ ~ \E g : Sums(m, g)
    BY <2>2 DEF T
  <2>4. CASE m = 0
    <3> DEFINE g == [n \in 0 .. 0 |-> 1]
    <3>1. g \in [0 .. 0 -> Nat \ {0}] /\ g[0] = 1 /\ \A n \in 1 .. 0 : FALSE
      OBVIOUS
    <3> HIDE DEF g
    <3>2. Sums(0, g)
      BY <3>1
    <3> QED BY <2>3, <2>4, <3>2
  <2>5. CASE m # 0
    <3>1. m - 1 \in 0 .. N /\ m - 1 \notin T /\ m \in 1 .. N /\ m \in Nat
      BY <2>1, <2>2, <2>3, <2>5
    <3>2. PICK g : Sums(m - 1, g)
      BY <3>1 DEF T
    <3> DEFINE last == g[m - 1] + BeamWidth[m - 1]
               h == [n \in 0 .. m |-> IF n < m THEN g[n] ELSE last]
    <3>3. g[m - 1] \in Nat \ {0} /\ BeamWidth[m - 1] \in Nat
      <4>1. m - 1 \in 0 .. m - 1 /\ m - 1 \in 0 .. NumOutpos - 1
        BY <3>1
      <4> QED BY <3>2, <4>1
    <3>4. last \in Nat \ {0}
      BY <3>3
    <3>5. /\ \A n \in 0 .. m - 1 : h[n] = g[n]
          /\ h[m] = last
          /\ \A n \in 0 .. m : n = m \/ n \in 0 .. m - 1
          /\ h = [n \in 0 .. m |-> h[n]]
      <4> HIDE DEF last
      <4> QED BY <3>1
    <3> HIDE DEF h
    <3>6. h \in [0 .. m -> Nat \ {0}]
      <4>1. \A n \in 0 .. m : h[n] \in Nat \ {0}
        <5> HIDE DEF last
        <5> QED BY <3>2, <3>4, <3>5
      <4> QED BY <3>5, <4>1
    <3>7. h[0] = 1
      <4>1. 0 \in 0 .. m - 1
        BY <3>1
      <4> QED BY <3>2, <3>5, <4>1
    <3>8. ASSUME NEW n \in 1 .. m PROVE h[n] = h[n - 1] + BeamWidth[n - 1]
      <4>0. n - 1 \in 0 .. m - 1
        BY <3>1
      <4>1. h[n - 1] = g[n - 1]
        BY <3>5, <4>0
      <4>2. CASE n = m
        BY <3>5, <4>1, <4>2
      <4>3. CASE n # m
        <5>1. n \in 1 .. m - 1 /\ n \in 0 .. m - 1
          BY <3>1, <4>3
        <5> QED BY <3>2, <3>5, <4>1, <5>1
      <4> QED BY <4>2, <4>3
    <3>9. Sums(m, h)
      BY <3>6, <3>7, <3>8
    <3> QED BY <2>3, <3>9
  <2> QED BY <2>4, <2>5
<1>2. PICK g : Sums(N, g)
  <2>1. N \in 0 .. N
    OBVIOUS
  <2> QED BY <1>1, <2>1
<1>3. g = [n \in 0 .. N |-> IF n = 0 THEN 1 ELSE g[n - 1] + BeamWidth[n - 1]]
  <2>1. \A n \in 0 .. N : g[n] = IF n = 0 THEN 1 ELSE g[n - 1] + BeamWidth[n - 1]
    <3> TAKE n \in 0 .. N
    <3>1. n = 0 \/ n \in 1 .. N
      OBVIOUS
    <3> QED BY <1>2, <3>1
  <2>2. g = [n \in 0 .. N |-> g[n]]
    BY <1>2
  <2> QED BY <2>1, <2>2
<1>4. SavedBy = [n \in 0 .. N |-> IF n = 0 THEN 1 ELSE SavedBy[n - 1] + BeamWidth[n - 1]]
  BY <1>3 DEF SavedBy
<1>5. \A n \in 0 .. N : SavedBy[n] = g[n]
  <2> DEFINE T == {n \in 0 .. N : SavedBy[n] # g[n]}
  <2> SUFFICES ASSUME T # {} PROVE FALSE
    OBVIOUS
  <2>1. T \subseteq Nat
    OBVIOUS
  <2> HIDE DEF T
  <2>2. PICK m \in T : \A y \in T : m <= y
    BY <2>1, LeastNatural
  <2>3. m \in 0 .. N /\ SavedBy[m] # g[m]
    BY <2>2 DEF T
  <2>4. CASE m = 0
    BY <1>2, <1>4, <2>3, <2>4
  <2>5. CASE m # 0
    <3>1. m - 1 \in 0 .. N /\ m - 1 \notin T /\ m \in 1 .. N
      BY <2>1, <2>2, <2>3, <2>5
    <3>2. SavedBy[m - 1] = g[m - 1]
      BY <3>1 DEF T
    <3>3. SavedBy[m] = SavedBy[m - 1] + BeamWidth[m - 1]
      BY <1>4, <2>3, <2>5
    <3>4. g[m] = g[m - 1] + BeamWidth[m - 1]
      BY <1>2, <3>1
    <3> QED BY <2>3, <3>2, <3>3, <3>4
  <2> QED BY <2>4, <2>5
<1>6. SavedBy = g
  <2>1. SavedBy = [n \in 0 .. N |-> SavedBy[n]] /\ g = [n \in 0 .. N |-> g[n]]
    BY <1>2, <1>4
  <2> QED BY <1>5, <2>1
<1>7. \A n \in 0 .. N - 1 : n + 1 \in 1 .. N /\ (n + 1) - 1 = n
  OBVIOUS
<1> QED BY <1>2, <1>6, <1>7

(* Where some numbers of saved beams leave room, these do: they are least. *)
LEMMA SavedByLeast ==
  ASSUME NEW saves, Saves(saves)
  PROVE  Saves(SavedBy)
<1> DEFINE T == {n \in 0 .. NumOutpos : ~ (SavedBy[n] <= saves[n])}
<1>1. T = {}
  <2> SUFFICES ASSUME T # {} PROVE FALSE
    OBVIOUS
  <2>1. T \subseteq Nat
    OBVIOUS
  <2> HIDE DEF T
  <2>2. PICK m \in T : \A y \in T : m <= y
    BY <2>1, LeastNatural
  <2>3. m \in 0 .. NumOutpos /\ ~ (SavedBy[m] <= saves[m])
    BY <2>2 DEF T
  <2>4. CASE m = 0
    BY <2>3, <2>4, SavedByIs DEF Saves
  <2>5. CASE m # 0
    <3> DEFINE k == m - 1
    <3>1. k \in 0 .. NumOutpos - 1 /\ k \in 0 .. NumOutpos /\ k \notin T /\ m = k + 1
      BY <2>1, <2>2, <2>3, <2>5
    <3> HIDE DEF k
    <3>2. SavedBy[k] <= saves[k]
      BY <3>1 DEF T
    <3>3. SavedBy[m] = SavedBy[k] + BeamWidth[k] /\ saves[k] + BeamWidth[k] <= saves[m]
      BY <3>1, SavedByIs DEF Saves
    <3>4. /\ SavedBy[k] \in Nat /\ BeamWidth[k] \in Nat /\ saves[k] \in Nat /\ saves[m] \in Nat
          /\ SavedBy[m] \in Nat
      <4>1. SavedBy[k] \in Nat /\ SavedBy[m] \in Nat
        BY <2>3, <3>1, SavedByIs
      <4>2. saves[k] \in Nat /\ saves[m] \in Nat
        <5>1. saves[k] \in 1 .. MaxBeamId - 1 /\ saves[m] \in 1 .. MaxBeamId - 1
          BY <2>3, <3>1 DEF Saves
        <5> QED BY <5>1
      <4> QED BY <3>1, <4>1, <4>2
    <3> QED BY <2>3, <3>2, <3>3, <3>4
  <2> QED BY <2>4, <2>5
<1>2. \A n \in 0 .. NumOutpos : SavedBy[n] <= saves[n]
  BY <1>1
<1> HIDE DEF T
<1>3. \A n \in 0 .. NumOutpos : SavedBy[n] \in 1 .. MaxBeamId - 1
  <2> TAKE n \in 0 .. NumOutpos
  <2>1. SavedBy[n] \in Nat \ {0} /\ saves[n] \in 1 .. MaxBeamId - 1 /\ SavedBy[n] <= saves[n]
    BY <1>2, SavedByIs DEF Saves
  <2> QED BY <2>1
<1>4. SavedBy \in [0 .. NumOutpos -> 1 .. MaxBeamId - 1]
  BY <1>3, SavedByIs
<1>5. \A n \in 0 .. NumOutpos - 1 : SavedBy[n] + BeamWidth[n] <= SavedBy[n + 1]
  <2> TAKE n \in 0 .. NumOutpos - 1
  <2>1. n + 1 \in 0 .. NumOutpos /\ SavedBy[n + 1] \in Nat /\ SavedBy[n + 1] = SavedBy[n] + BeamWidth[n]
    BY SavedByIs
  <2> QED BY <2>1
<1> QED BY <1>4, <1>5 DEF Saves

(* Where there is room, the array of beams holds at most the root and one  *)
(* beam width for each output position searched so far, at all times.      *)
THEOREM BeamsWithinWidths ==
  ASSUME Roomy
  PROVE  Spec => []BeamsBounded
<1>1. PICK room : Rooms(room)
  BY DEF Roomy
<1>2. PICK saves : Saves(saves)
  BY DEF Roomy
<1>3. IsFiniteSet(Token) /\ ~EarlyExit /\ Saves(SavedBy)
  BY <1>2, SavedByLeast DEF Roomy
<1> DEFINE Inv == BarrierInv /\ RoomInv(room, SavedBy) /\ SpanInv(SavedBy)
<1>4. Init => Inv
  <2>1. Init => RoomInv(room, SavedBy)
    BY LeaderIn DEF Init, RoomInv
  <2> QED BY <2>1, InitAligned, InitSpan
<1>5. Inv /\ [Next]_vars => Inv'
  <2> SUFFICES ASSUME Inv, [Next]_vars PROVE Inv'
    OBVIOUS
  <2>1. Undisturbed
    BY <1>1, <1>3, RoomUndisturbed
  <2>2. RoomInv(room, SavedBy)'
    BY <1>1, <1>3, <2>1, StepRoom
  <2>3. BarrierInv' /\ SpanInv(SavedBy)'
    BY <2>1, NextAligned, NextSpan
  <2> QED BY <2>2, <2>3
<1>6. Inv => BeamsBounded
  <2> SUFFICES ASSUME Inv PROVE BeamsBounded
    OBVIOUS
  <2> DEFINE m == outpos[Leader]
             k == Least(m + 1, NumOutpos)
             L == Len(beams)
  <2>1. m \in 0 .. NumOutpos /\ L \in Nat /\ k \in 0 .. NumOutpos
    BY LeaderIn, LenProperties DEF BarrierInv, TypeInv, TypeOK
  <2>2. SavedBy[k] \in Nat \ {0} /\ SavedBy[m] \in Nat
    BY <2>1, SavedByIs
  <2>3. SavedBy[m] <= SavedBy[k]
    <3>1. CASE m = NumOutpos
      BY <2>2, <3>1
    <3>2. CASE m # NumOutpos
      <4>1. m \in 0 .. NumOutpos - 1 /\ k = m + 1
        BY <2>1, <3>2
      <4>2. SavedBy[m + 1] = SavedBy[m] + BeamWidth[m] /\ BeamWidth[m] \in Nat
        BY <4>1, SavedByIs
      <4> HIDE DEF m, k
      <4> QED BY <2>2, <4>1, <4>2
    <3> QED BY <3>1, <3>2
  <2>4. PICK n \in 0 .. NumOutpos : Phase(n)
    BY DEF BarrierInv, Aligned
  <2>5. LevelOf(Leader) = n
    BY <2>4, LeaderIn, PhaseOf
  <2>6. pc[Leader] \in InLoop => m < NumOutpos
    BY LeaderIn DEF BarrierInv, TypeInv, LoopRange
  <2>7. CASE pc[Leader] = "init"
    <3>1. L = 0
      BY <2>7, EmptySeq DEF SpanInv
    <3> HIDE DEF L, k, m
    <3>2. L <= SavedBy[k]
      BY <2>2, <3>1
    <3> QED BY <3>2 DEF L, k, m, BeamsBounded
  <2>8. CASE pc[Leader] \in {"check", "swap", "saveSync"}
    <3>1. k = m + 1 /\ (IF pc[Leader] = "saveSync" THEN n = m ELSE n = m + 1)
      BY <2>1, <2>5, <2>6, <2>8 DEF LevelOf, InLoop
    <3>2. L <= SavedBy[k]
      BY SMTT(30), <2>1, <2>5, <2>8, <3>1 DEF RoomInv, BeamsRoom, BeforeSave, StartAt
    <3> QED BY <3>2 DEF BeamsBounded
  <2>9. CASE pc[Leader] \notin {"init", "check", "swap", "saveSync"}
    <3>1. n = m /\ pc[Leader] \in BeforeSave \cup Final
      <4>1. pc[Leader] \in Location
        BY LeaderIn DEF BarrierInv, TypeInv, TypeOK
      <4>2. pc[Leader] \notin {"selectedSync", "selectedCut", "proactiveSync"}
        BY <2>4, LeaderIn DEF Phase, At, Starting, Expanding, Sorting, Passing, Saving, Ordering, Leaving, Cutting, Writing
      <4> QED BY <2>5, <2>9, <4>1, <4>2, ResumeAt DEF LevelOf, Location, BeforeSave, StartAt, Final
    <3>2. L <= SavedBy[m]
      BY <2>5, <2>9, <3>1 DEF RoomInv, BeamsRoom, SpanInv
    <3> HIDE DEF L, k, m
    <3>3. L <= SavedBy[k]
      BY <2>1, <2>2, <2>3, <3>2
    <3> QED BY <3>3 DEF L, k, m, BeamsBounded
  <2> QED BY <2>7, <2>8, <2>9
<1> HIDE DEF Inv
<1> QED BY <1>4, <1>5, <1>6, PTL DEF Spec

-----------------------------------------------------------------------------
(* What the kernel shows of the abstract search.                           *)
LEMMA ShownAt ==
  ASSUME NEW n \in 0 .. NumOutpos
  PROVE  /\ outpos[Leader] \in Nat /\ LevelOf(Leader) = n
            /\ pc[Leader] \notin {"init", "selectedSync", "selectedCut", "proactiveSync"} =>
              IF pc[Leader] = "saveSync" THEN Level = n + 1 /\ Frontier = Paths(cont[Later(n)])
                                         ELSE Level = n /\ Frontier = Paths(cont[Now(n)])
         /\ outpos'[Leader] \in Nat /\ LevelOf(Leader)' = n
            /\ pc'[Leader] \notin {"init", "selectedSync", "selectedCut", "proactiveSync"} =>
              IF pc'[Leader] = "saveSync" THEN Level' = n + 1 /\ Frontier' = Paths(cont'[Later(n)])
                                          ELSE Level' = n /\ Frontier' = Paths(cont'[Now(n)])
<1>1. \A m \in Nat : m + 1 = n => (m % 2 = 0 <=> ~(n % 2 = 0))
  BY Parity
<1>2. ASSUME outpos[Leader] \in Nat, LevelOf(Leader) = n,
             pc[Leader] \notin {"init", "selectedSync", "selectedCut", "proactiveSync"}
      PROVE  IF pc[Leader] = "saveSync" THEN Level = n + 1 /\ Frontier = Paths(cont[Later(n)])
                                        ELSE Level = n /\ Frontier = Paths(cont[Now(n)])
  <2>1. CASE pc[Leader] \in {"check", "swap"}
    <3>1. outpos[Leader] + 1 = n
      BY <1>2, <2>1 DEF LevelOf
    <3>2. Nxt(Leader) = Now(n)
      BY <1>1, <1>2, <3>1 DEF Nxt, Now
    <3> QED BY <2>1, <3>1, <3>2 DEF Level, Frontier, PastSave, Paths
  <2>2. CASE pc[Leader] = "saveSync"
    <3>1. outpos[Leader] = n /\ Nxt(Leader) = Later(n)
      BY <1>2, <2>2 DEF LevelOf, Nxt, Later
    <3> QED BY <2>2, <3>1 DEF Level, Frontier, PastSave, Paths
  <2>3. CASE pc[Leader] \notin {"check", "swap", "saveSync"}
    <3>1. outpos[Leader] = n /\ Cur(Leader) = Now(n)
      BY <1>2, <2>3 DEF LevelOf, Cur, Now
    <3> QED BY <1>2, <2>3, <3>1 DEF Level, Frontier, PastSave, Paths
  <2> QED BY <2>1, <2>2, <2>3
<1>3. ASSUME outpos'[Leader] \in Nat, LevelOf(Leader)' = n,
             pc'[Leader] \notin {"init", "selectedSync", "selectedCut", "proactiveSync"}
      PROVE  IF pc'[Leader] = "saveSync" THEN Level' = n + 1 /\ Frontier' = Paths(cont'[Later(n)])
                                         ELSE Level' = n /\ Frontier' = Paths(cont'[Now(n)])
  <2>1. CASE pc'[Leader] \in {"check", "swap"}
    <3>1. outpos'[Leader] + 1 = n
      BY <1>3, <2>1 DEF LevelOf
    <3>2. Nxt(Leader)' = Now(n)
      BY <1>1, <1>3, <3>1 DEF Nxt, Now
    <3> QED BY <2>1, <3>1, <3>2 DEF Level, Frontier, PastSave, Paths, Contents
  <2>2. CASE pc'[Leader] = "saveSync"
    <3>1. outpos'[Leader] = n /\ Nxt(Leader)' = Later(n)
      BY <1>3, <2>2 DEF LevelOf, Nxt, Later
    <3> QED BY <2>2, <3>1 DEF Level, Frontier, PastSave, Paths, Contents
  <2>3. CASE pc'[Leader] \notin {"check", "swap", "saveSync"}
    <3>1. outpos'[Leader] = n /\ Cur(Leader)' = Now(n)
      BY <1>3, <2>3 DEF LevelOf, Cur, Now
    <3> QED BY <1>3, <2>3, <3>1 DEF Level, Frontier, PastSave, Paths, Contents
  <2> QED BY <2>1, <2>2, <2>3
<1> QED BY <1>2, <1>3

(* The places where an aligned leader may be.                              *)
LEMMA LeaderAt ==
  ASSUME BarrierInv
  PROVE  /\ outpos[Leader] \in Nat
         /\ pc[Leader] \notin {"selectedSync", "selectedCut", "proactiveSync"}
<1>1. PICK n \in 0 .. NumOutpos : Phase(n)
  BY DEF BarrierInv, Aligned
<1>2. outpos[Leader] \in 0 .. NumOutpos
  BY LeaderIn DEF BarrierInv, TypeInv, TypeOK
<1>3. pc[Leader] \notin {"selectedSync", "selectedCut", "proactiveSync"}
  BY <1>1, LeaderIn DEF Phase, At, Starting, Expanding, Sorting, Passing, Saving, Ordering,
                        Leaving, Cutting, Writing
<1> QED BY <1>2, <1>3

(* The same of the state that a step leads to.                             *)
LEMMA LeaderAtNext ==
  ASSUME BarrierInv'
  PROVE  /\ outpos'[Leader] \in Nat
         /\ pc'[Leader] \notin {"selectedSync", "selectedCut", "proactiveSync"}
<1>1. PICK n \in 0 .. NumOutpos : Phase(n)'
  BY DEF BarrierInv, Aligned
<1>2. outpos'[Leader] \in 0 .. NumOutpos
  BY LeaderIn DEF BarrierInv, TypeInv, TypeOK
<1>3. pc'[Leader] \notin {"selectedSync", "selectedCut", "proactiveSync"}
  BY <1>1, LeaderIn DEF Phase, At, Starting, Expanding, Sorting, Passing, Saving, Ordering,
                        Leaving, Cutting, Writing
<1> QED BY <1>2, <1>3

LEMMA SameShown ==
  ASSUME Level' = Level, Frontier' = Frontier, UNCHANGED <<pushed, out>>,
         pc'[Leader] = "done" <=> pc[Leader] = "done"
  PROVE  UNCHANGED Search!vars
BY DEF Search!vars

LEMMA ShrunkSame ==
  ASSUME NEW c \in Container, c.size <= c.cap
  PROVE  Paths(Shrunk(c)) = Paths(c)
<1>1. Shrunk(c).size = c.size /\ Shrunk(c).cand = c.cand
  BY ContainerFields DEF Shrunk, Container
<1> QED BY <1>1 DEF Paths, Contents

LEMMA MovesShown ==
  ASSUME BarrierInv, BarrierInv', SearchInv, NEW n \in 0 .. NumOutpos, LevelOf(Leader) = n,
         pc[Leader] # "init", Moves(n)
  PROVE  UNCHANGED Search!vars
<1>1. /\ LevelOf(Leader)' = n /\ UNCHANGED <<pushed, out>> /\ pc'[Leader] # "init"
      /\ pc'[Leader] = "saveSync" <=> pc[Leader] = "saveSync"
      /\ pc'[Leader] = "done" <=> pc[Leader] = "done"
      /\ cont'[Now(n)] = cont[Now(n)]
  BY DEF Moves
<1>2. /\ IF pc[Leader] = "saveSync" THEN Level = n + 1 /\ Frontier = Paths(cont[Later(n)])
                                    ELSE Level = n /\ Frontier = Paths(cont[Now(n)])
      /\ IF pc'[Leader] = "saveSync" THEN Level' = n + 1 /\ Frontier' = Paths(cont'[Later(n)])
                                     ELSE Level' = n /\ Frontier' = Paths(cont'[Now(n)])
  BY <1>1, ShownAt, LeaderAt, LeaderAtNext
<1>3. pc[Leader] = "saveSync" => Paths(cont'[Later(n)]) = Paths(cont[Later(n)])
  <2> SUFFICES ASSUME pc[Leader] = "saveSync" PROVE Paths(cont'[Later(n)]) = Paths(cont[Later(n)])
    OBVIOUS
  <2>1. cont'[Later(n)] \in {cont[Later(n)], Shrunk(cont[Later(n)])}
    BY DEF Moves
  <2>2. cont[Later(n)] \in Container /\ cont[Later(n)].size <= cont[Later(n)].cap
    BY ContsType DEF BarrierInv, SearchInv, CurPaths
  <2> QED BY <2>1, <2>2, ShrunkSame
<1>4. Level' = Level /\ Frontier' = Frontier
  BY <1>1, <1>2, <1>3
<1> QED BY <1>1, <1>4, SameShown

LEMMA OpenShown ==
  ASSUME BarrierInv, BarrierInv', NEW n \in 0 .. NumOutpos, LevelOf(Leader) = n,
         pc[Leader] = "saveSync", pc'[Leader] = "check", LevelOf(Leader)' = n + 1, n + 1 \in 0 .. NumOutpos,
         UNCHANGED <<cont, pushed, out>>
  PROVE  UNCHANGED Search!vars
<1>1. Now(n + 1) = Later(n)
  <2>1. (n + 1) % 2 = 0 <=> ~ (n % 2 = 0)
    BY Parity
  <2> QED BY <2>1 DEF Now, Later
<1>2. Level = n + 1 /\ Frontier = Paths(cont[Later(n)])
  BY ShownAt, LeaderAt
<1> DEFINE m == n + 1
<1>3. m \in 0 .. NumOutpos /\ LevelOf(Leader)' = m
  OBVIOUS
<1> HIDE DEF m
<1>4. Level' = m /\ Frontier' = Paths(cont'[Now(m)])
  BY <1>3, ShownAt, LeaderAtNext
<1>5. Level' = Level /\ Frontier' = Frontier
  BY <1>1, <1>2, <1>4 DEF m
<1> QED BY <1>5, SameShown

(* A push to selected_ does not show before the leader has saved next_.    *)
LEMMA PushShown ==
  ASSUME BarrierInv, BarrierInv', SearchInv, NEW n \in 0 .. NumOutpos, Phase(n),
         NEW u \in Block, Push(u)
  PROVE  UNCHANGED Search!vars
<1> USE LeaderIn
<1>1. /\ n < NumOutpos /\ cont'[Now(n)] = cont[Now(n)]
      /\ pc[Leader] \in StartAt /\ UNCHANGED <<pc, outpos, beams, out>>
      /\ LevelOf(Leader) = n /\ LevelOf(Leader)' = n
  BY PushStep
<1>2. PICK t \in {"next", "selected"}, child \in Beam :
        /\ <<u, child>> \in Debts(t)
        /\ pushed' = IF t = "selected" THEN pushed \cup {child.path} ELSE pushed
  <2> USE PushStep
  <2> QED BY PushStep
<1>3. pc[Leader] \notin {"init", "saveSync", "done"}
  BY <1>1 DEF StartAt
<1>4. Level = n /\ Frontier = Paths(cont[Now(n)]) /\ Level' = n /\ Frontier' = Paths(cont'[Now(n)])
  BY <1>1, <1>3, ShownAt, LeaderAt, LeaderAtNext
<1>5. {p \in pushed' : Len(p) <= n} = {p \in pushed : Len(p) <= n}
  <2>1. CASE t = "next"
    BY <1>2, <2>1
  <2>2. CASE t = "selected"
    <3>1. Gathers(Debts("selected"), PushedAt(n + 1), Kids(n) \cap ToSelected)
      BY <1>1, <1>3 DEF SearchInv, SelectedGathers, BeforeSave
    <3>2. child.path \in Coming(Debts("selected"))
      <4>1. <<u, child>>[2] = child
        OBVIOUS
      <4> QED BY <1>2, <2>2, <4>1 DEF Coming
    <3>3. child.path \in Kids(n)
      BY <3>1, <3>2 DEF Gathers
    <3>4. cont[Now(n)] \in Container /\ LevelPaths(cont[Now(n)], n)
      <4>1. CurPaths(n)
        BY <1>1, <1>3 DEF SearchInv
      <4>2. pc[Leader] \in BeforeSave
        BY <1>1 DEF BeforeSave
      <4>3. LevelPaths(cont[Now(n)], n)
        BY <4>1, <4>2 DEF CurPaths
      <4>4. cont[Now(n)] \in Container
        BY ContsType DEF BarrierInv
      <4> QED BY <4>3, <4>4
    <3>5. Len(child.path) = n + 1
      BY <3>3, <3>4, KidsLonger DEF Kids
    <3>6. ~ (n + 1 <= n)
      OBVIOUS
    <3> QED BY <1>2, <2>2, <3>5, <3>6
  <2> QED BY <2>1, <2>2
<1> QED BY <1>1, <1>3, <1>4, <1>5 DEF Search!vars

LEMMA CountsAlike ==
  ASSUME NEW S
  PROVE  Search!Cardinality(S) = Cardinality(S)
BY DEF Search!Cardinality, Cardinality

(* The winners of a set are a selection of its best members.               *)
LEMMA WinnersBest ==
  ASSUME NEW c \in Container, NEW S, S \subseteq Path, Winners(c, S), c.size <= c.cap
  PROVE  Paths(c) \in Search!BestOf(S, c.cap)
<1> DEFINE T == Paths(c)
<1>1. c.size \in Nat /\ c.cap \in Nat
  BY ContainerFields
<1>2. Distinct(c) /\ T = FrontPaths(c) /\ Kept(c) = 0 .. c.size - 1
  BY CutWinners
<1>3. T \subseteq S
  BY <1>2 DEF Winners
<1>4. Cardinality(T) = IF Cardinality(S) < c.cap THEN Cardinality(S) ELSE c.cap
  <2>1. Cardinality(T) = c.size
    BY <1>2, DistinctCount
  <2>2. Least(c.size, c.cap) = Least(Cardinality(S), c.cap)
    BY DEF Winners
  <2> DEFINE x == Cardinality(S)
  <2>3. x \in Nat
    BY FS_CardinalityType DEF Winners
  <2> HIDE DEF x
  <2>4. c.size = IF x < c.cap THEN x ELSE c.cap
    <3>1. c.size = IF x <= c.cap THEN x ELSE c.cap
      <4>1. Least(c.size, c.cap) = c.size
        BY <1>1
      <4> QED BY <2>2, <4>1 DEF x
    <3> QED BY <1>1, <2>3, <3>1
  <2> QED BY <2>1, <2>4 DEF x
<1>5. \A t \in T, s \in S \ T : Score[t] >= Score[s]
  <2> TAKE t \in T, s \in S \ T
  <2>1. PICK i \in Kept(c) : t = c.cand[i].path
    BY <1>2 DEF FrontPaths
  <2>2. Score[s] <= Score[t]
    BY <1>2, <2>1 DEF Winners
  <2>3. Score[s] \in Int /\ Score[t] \in Int
    BY <1>3
  <2> QED BY <2>2, <2>3
<1> HIDE DEF T
<1>6. T \in Search!BestOf(S, c.cap)
  BY <1>3, <1>4, <1>5, CountsAlike DEF Search!BestOf
<1> QED BY <1>6 DEF T

(* The abstract step is the leader's save: the beams of next_ that are left*)
(* are a best selection of the children, and every complete key among the  *)
(* children has been pushed.                                               *)
LEMMA NothingComes ==
  ASSUME NEW n \in 0 .. NumOutpos, Phase(n), pc[Leader] = "save"
  PROVE  \A t : Debts(t) = {}
<1>1. \A v \in Block : pc[v] \in {"trim", "shrink", "save", "saveSync"}
  BY PhaseOf, LeaderIn DEF Passing, Saving, At
<1>2. \A v \in Block : Due(v) = {}
  BY <1>1 DEF Due, Heads
<1> QED BY <1>2 DEF Debts

LEMMA SaveShown ==
  ASSUME Sortable, ~EarlyExit, BarrierInv, BarrierInv', SearchInv,
         NEW n \in 0 .. NumOutpos, Phase(n), NextRoom(n), cont[Now(n)].size # 0, Save(Leader)
  PROVE  Search!Step
<1> USE LeaderIn
<1>1. /\ pc[Leader] = "save" /\ pc' = [pc EXCEPT ![Leader] = "saveSync"]
      /\ UNCHANGED <<outpos, todo, out, pushed>>
  BY DEF Save, Goto
<1>2. LevelOf(Leader) = n /\ outpos[Leader] = n
  BY <1>1, PhaseOf DEF LevelOf
<1>3. pc \in [Block -> Location] /\ cont \in [Names -> Container] /\ beams \in Seq(Beam) /\ TypeInv
  BY DEF BarrierInv, TypeInv, TypeOK, Names
<1>4. n < NumOutpos
  BY <1>1, <1>2 DEF BarrierInv, TypeInv, LoopRange, InLoop
<1>5. /\ Nxt(Leader) = Later(n) /\ Cur(Leader) = Now(n)
      /\ Now(n) \in {"A", "B"} /\ Later(n) \in {"A", "B"} /\ Now(n) # Later(n)
  BY <1>2 DEF Nxt, Later, Cur, Now
<1> DEFINE old   == cont[Later(n)]
           now   == cont[Now(n)]
           saved == Numbered(old, Len(beams))
           kids  == KidsOf(now)
<1>6. cont'[Later(n)] = saved
  <2> HIDE DEF saved
  <2> QED BY <1>2, <1>3, <1>5 DEF Save, saved, Names
<1>7. old \in Container /\ now \in Container /\ Len(beams) \in Nat
  BY <1>3, <1>5 DEF Names
<1>8. /\ Winners(old, kids \cap ToNext) /\ LevelPaths(now, n) /\ old.cap = BeamWidth[n]
      /\ old.size <= old.cap
  <2>1. old.cap = BeamWidth[n] /\ old.size <= BeamWidth[n]
    BY <1>1, <1>4 DEF NextRoom, BeforeSave
  <2>2. NextWinners(n) /\ CurPaths(n)
    BY <1>1, <1>2 DEF SearchInv
  <2> QED BY <1>1, <1>4, <2>1, <2>2 DEF NextWinners, CurPaths, BeforeSave, Kids
<1>9. pc'[Leader] = "saveSync" /\ LevelOf(Leader)' = n
  BY <1>1, <1>2, <1>3 DEF LevelOf
<1>10. /\ Level = n /\ Frontier = Paths(now)
       /\ Level' = n + 1 /\ Frontier' = Paths(cont'[Later(n)])
  BY <1>1, <1>2, <1>9, ShownAt, LeaderAt, LeaderAtNext
<1> HIDE DEF old, now
<1>11. Frontier' = Paths(old)
  <2>1. Paths(saved) = Paths(old)
    BY <1>7, NumberedPaths
  <2> QED BY <1>6, <1>10, <2>1
<1> HIDE DEF saved
<1>12. UNION {Search!Children(p) : p \in Frontier} = kids
  <2>1. ASSUME NEW x \in UNION {Search!Children(p) : p \in Frontier} PROVE x \in kids
    <3>1. PICK p \in Frontier : x \in Search!Children(p)
      OBVIOUS
    <3> QED BY <1>10, <3>1 DEF Search!Children, KidsOf
  <2>2. ASSUME NEW x \in kids PROVE x \in UNION {Search!Children(p) : p \in Frontier}
    <3>1. PICK p \in Frontier, k \in Token : x = Append(p, k)
      BY <1>10 DEF KidsOf
    <3>2. x \in Search!Children(p)
      BY <3>1 DEF Search!Children
    <3> QED BY <3>1, <3>2
  <2> QED BY <2>1, <2>2
<1>13. kids \subseteq Seq(Token) /\ \A q \in kids : Len(q) = n + 1
  BY <1>7, <1>8, KidsLonger
<1>14. PushedAt(n + 1) = kids \cap ToSelected
  <2>1. Gathers(Debts("selected"), PushedAt(n + 1), kids \cap ToSelected)
    BY <1>1, <1>2, <1>4 DEF SearchInv, SelectedGathers, BeforeSave, Kids, now
  <2>2. Debts("selected") = {}
    BY <1>1, NothingComes
  <2>3. Coming({}) = {}
    BY DEF Coming
  <2> QED BY <2>1, <2>2, <2>3 DEF Gathers
<1> HIDE DEF kids
<1>15. Frontier' \in Search!BestOf(kids \cap ToNext, BeamWidth[n])
  <2> DEFINE S == kids \cap ToNext
  <2>1. S \subseteq Path
    OBVIOUS
  <2>2. Winners(old, S)
    BY <1>8
  <2> HIDE DEF S
  <2>3. Paths(old) \in Search!BestOf(S, old.cap)
    BY <1>7, <1>8, <2>1, <2>2, WinnersBest
  <2> QED BY <1>8, <1>11, <2>3 DEF S
<1>16. {p \in pushed' : Len(p) <= Level'} = {p \in pushed : Len(p) <= Level} \cup (kids \cap ToSelected)
  <2>1. \A p \in pushed : Len(p) \in Nat
    BY LenProperties DEF BarrierInv, TypeInv, TypeOK
  <2>2. \A p \in pushed : Len(p) <= n + 1 <=> Len(p) <= n \/ Len(p) = n + 1
    BY <2>1
  <2> QED BY <1>1, <1>10, <1>14, <2>2 DEF PushedAt
<1>17. ~Search!Over
  <2>1. Frontier # {}
    <3>1. now.size \in Nat /\ now.size # 0
      BY <1>7, ContainerFields DEF now
    <3>2. 0 \in 0 .. now.size - 1
      BY <3>1
    <3>3. now.cand[0].path \in Paths(now)
      BY <3>2, PathsAt
    <3> QED BY <1>10, <3>3
  <2> QED BY <1>4, <1>10, <2>1 DEF Search!Over
<1> QED BY <1>1, <1>9, <1>10, <1>12, <1>15, <1>16, <1>17 DEF Search!Step

(* The abstract search ends when the leader writes the result.             *)
LEMMA ResultShown ==
  ASSUME Root = << >>, BarrierInv, BarrierInv', ParentInv, SearchInv,
         NEW n \in 0 .. NumOutpos, Phase(n), GenerateResult(Leader)
  PROVE  Search!Finish
<1> USE LeaderIn
<1>1. /\ pc[Leader] = "generate" /\ pc' = [pc EXCEPT ![Leader] = "done"]
      /\ UNCHANGED <<outpos, todo, cont, beams, pushed>>
  BY DEF GenerateResult, Goto
<1>2. \A v \in Block : LevelOf(v) = n
  BY PhaseOf
<1>3. pc \in [Block -> Location] /\ TypeInv
  BY DEF BarrierInv, TypeInv, TypeOK
<1>4. pc'[Leader] = "done" /\ LevelOf(Leader)' = n
  BY <1>1, <1>2, <1>3 DEF LevelOf
<1>5. Level = n /\ Frontier = Paths(cont[Now(n)]) /\ Level' = n /\ Frontier' = Paths(cont'[Now(n)])
  BY <1>1, <1>2, <1>4, ShownAt, LeaderAt, LeaderAtNext
<1>6. Ends(n) /\ PushedLengths(n) /\ SelectedGathers(n)
  BY <1>1, <1>2 DEF SearchInv, Final
<1>7. Search!Over
  <2>1. CASE n = NumOutpos
    BY <1>5, <2>1 DEF Search!Over
  <2>2. CASE cont[Now(n)].size = 0
    <3>1. Paths(cont[Now(n)]) = {}
      BY <2>2, PathsAt
    <3> QED BY <1>5, <3>1 DEF Search!Over
  <2> QED BY <1>6, <2>1, <2>2 DEF Ends
<1>8. {p \in pushed : Len(p) <= Level} = pushed
  <2> SUFFICES ASSUME NEW q \in pushed, n < NumOutpos, Len(q) = n + 1 PROVE FALSE
    BY <1>5, <1>6 DEF PushedLengths
  <2>1. cont[Now(n)].size = 0
    BY <1>6 DEF Ends
  <2>2. Kids(n) = {}
    BY <2>1 DEF Kids, KidsOf, Paths, Contents
  <2>3. PushedAt(n + 1) = {}
    BY <1>1, <1>6, <2>2 DEF SelectedGathers, Final, Gathers
  <2> QED BY <2>3 DEF PushedAt
<1> DEFINE c == cont["selected"]
           best == {out'[i] : i \in DOMAIN out'}
<1>9. /\ c \in Container /\ c.size <= c.cap /\ c.cap = FinalBeam /\ Winners(c, pushed)
      /\ Paths(c) = FrontPaths(c) /\ best = FrontPaths(c)
  BY <1>2, ResultPaths
<1> HIDE DEF c
<1>10. best \in Search!BestOf(pushed, FinalBeam)
  <2>1. pushed \subseteq Path
    BY <1>3 DEF TypeInv, TypeOK
  <2>2. Paths(c) \in Search!BestOf(pushed, c.cap)
    BY <1>9, <2>1, WinnersBest
  <2> QED BY <1>9, <2>2
<1>11. Search!FinalBeam = FinalBeam
  BY DEF Search!FinalBeam, FinalBeam
<1>12. pc[Leader] # "done"
  BY <1>1
<1> QED BY <1>1, <1>4, <1>5, <1>7, <1>8, <1>10, <1>11, <1>12 DEF Search!Finish

(* The first steps: the leader fills cur_ with the root.                   *)
LEMMA EarlyShown ==
  ASSUME Root = << >>, BarrierInv, ParentInv, SearchInv, pc[Leader] = "init", Next
  PROVE  UNCHANGED Search!vars
<1> USE LeaderIn
<1>1. CASE pc'[Leader] = "init" /\ UNCHANGED <<outpos, cont, beams, pushed, out>>
  BY <1>1 DEF Search!vars, Level, Frontier, PastSave
<1>2. CASE Prepare(Leader)
  <2>1. /\ pc' = [pc EXCEPT ![Leader] = "initSync"] /\ UNCHANGED <<outpos, pushed, out>>
        /\ cont' = [ A |-> Pushed(WithCapacity(Cleared(cont["A"]), 1), RootBeam),
                     B |-> WithCapacity(Cleared(cont["B"]), BeamWidth[0]),
                     selected |-> WithCapacity(Cleared(cont["selected"]), FinalBeam) ]
    BY <1>2 DEF Prepare, Goto
  <2>2. /\ pc \in [Block -> Location] /\ outpos[Leader] = 0 /\ pushed = {}
        /\ cont["A"] \in Container
    BY DEF BarrierInv, TypeInv, TypeOK, ParentInv, AtZero, SearchInv
  <2>3. pc'[Leader] = "initSync"
    BY <2>1, <2>2
  <2> DEFINE a == WithCapacity(Cleared(cont["A"]), 1)
  <2>4. Paths(Pushed(a, RootBeam)) = {<< >>}
    <3>1. a \in Container /\ Paths(a) = {} /\ Distinct(a)
      BY <2>2, ClearedPaths, ClearedType, WithCapacityType
    <3>2. a.size = 0
      BY <2>2, ClearedParts
    <3>3. RootBeam \in Beam /\ RootBeam.path = << >>
      BY DEF RootBeam, Beam, NoId
    <3>4. HasRoom(a)
      BY <3>2 DEF HasRoom
    <3> HIDE DEF a
    <3> QED BY <3>1, <3>3, <3>4, PushedPaths
  <2>5. cont'["A"] = Pushed(a, RootBeam)
    BY <2>1
  <2> HIDE DEF a
  <2>6. Level = 0 /\ Frontier = {<< >>} /\ Level' = 0
    BY <2>1, <2>2, <2>3 DEF Level, Frontier, PastSave
  <2>7. Frontier' = Paths(cont'["A"])
    BY <2>1, <2>2, <2>3 DEF Frontier, PastSave, Cur, Paths, Contents
  <2> QED BY <2>1, <2>2, <2>3, <2>4, <2>5, <2>6, <2>7 DEF Search!vars
<1> QED BY <1>1, <1>2, EarlyMoves

LEMMA InitShown ==
  ASSUME Init
  PROVE  Search!Init
<1>1. pc[Leader] = "init" /\ outpos[Leader] = 0 /\ pushed = {}
  BY LeaderIn DEF Init
<1> QED BY <1>1 DEF Search!Init, Level, Frontier, PastSave

LEMMA StepShown ==
  ASSUME NEW saves, Root = << >>, Sortable, ~EarlyExit, BarrierInv, BarrierInv', Undisturbed,
         ParentInv, SearchInv, SpanInv(saves), NEW n \in 0 .. NumOutpos, Phase(n), NextRoom(n),
         pc[Leader] # "init", NEW u \in Block, Step(u)
  PROVE  [Search!Next]_(Search!vars)
<1>1. LevelOf(Leader) = n
  BY PhaseOf, LeaderIn
<1>2. CASE Push(u)
  BY <1>2, PushShown
<1>3. CASE u = Leader /\ Save(u)
  <2>1. pc[Leader] = "save"
    BY <1>3 DEF Save
  <2>2. cont[Now(n)].size # 0
    BY <1>1, <2>1 DEF SpanInv, Busy
  <2> QED BY <1>3, <2>2, SaveShown DEF Search!Next
<1>4. CASE u = Leader /\ GenerateResult(u)
  BY <1>4, ResultShown DEF Search!Next
<1>5. CASE Moves(n)
  BY <1>1, <1>5, MovesShown
<1> QED BY <1>2, <1>3, <1>4, <1>5, StepMoves

LEMMA NextShown ==
  ASSUME NEW room, NEW saves, Root = << >>, Sortable, ~EarlyExit, BarrierInv, BarrierInv', Undisturbed,
         RoomInv(room, saves), ParentInv, SearchInv, SpanInv(saves), [Next]_vars
  PROVE  [Search!Next]_(Search!vars)
<1> USE LeaderIn
<1>1. PICK n \in 0 .. NumOutpos : Phase(n)
  BY DEF BarrierInv, Aligned
<1>2. LevelOf(Leader) = n
  BY <1>1, PhaseOf
<1>3. CASE UNCHANGED vars
  BY <1>3 DEF vars, Search!vars, Level, Frontier, Cur, Nxt
<1>4. CASE Next /\ pc[Leader] = "init"
  BY <1>4, EarlyShown
<1>5. CASE Release /\ pc[Leader] # "init"
  <2>1. CASE pc[Leader] # "saveSync"
    BY <1>1, <1>2, <1>5, <2>1, ReleaseMoves, MovesShown
  <2>2. CASE pc[Leader] = "saveSync"
    <3>1. /\ pc'[Leader] = "check" /\ LevelOf(Leader)' = n + 1
          /\ UNCHANGED <<cont, pushed, out>>
      BY <1>1, <1>5, <2>2, ReleaseMoves
    <3>2. n + 1 \in 0 .. NumOutpos
      <4>1. outpos[Leader] = n
        BY <1>2, <2>2 DEF LevelOf
      <4>2. n \in 0 .. NumOutpos - 1
        BY <2>2, <4>1 DEF BarrierInv, TypeInv, LoopRange, InLoop
      <4> QED BY <4>2
    <3> QED BY <1>2, <2>2, <3>1, <3>2, OpenShown
  <2> QED BY <2>1, <2>2
<1>6. ASSUME NEW u \in Block, Step(u), pc[Leader] # "init" PROVE [Search!Next]_(Search!vars)
  <2>1. NextRoom(n)
    BY <1>2, <1>6 DEF RoomInv
  <2> QED BY <1>1, <1>6, <2>1, StepShown
<1> QED BY <1>3, <1>4, <1>5, <1>6 DEF Next

(* Under the same conditions the kernel implements the abstract search of  *)
(* BeamSearch, for any grid and any order of the blocks' threads: the beams*)
(* it saves at an output position are a best selection of all the children *)
(* of those it saved at the last one, the keys it has pushed by then are   *)
(* all the complete keys among them, and the answer is a best selection of *)
(* the keys.  Everything else that the blocks do does not show.            *)
THEOREM KernelRefines ==
  ASSUME Roomy, Sortable, Root = << >>
  PROVE  Spec => ImplementsSearch
<1>1. PICK room : Rooms(room)
  BY DEF Roomy
<1>2. PICK saves : Saves(saves)
  BY DEF Roomy
<1>3. IsFiniteSet(Token) /\ ~EarlyExit
  BY DEF Roomy
<1> DEFINE Inv == /\ BarrierInv /\ RoomInv(room, saves) /\ ParentInv
                  /\ SearchInv /\ SpanInv(saves)
<1>4. Init => Inv /\ Search!Init
  <2>1. Init => RoomInv(room, saves)
    BY LeaderIn DEF Init, RoomInv
  <2> QED BY <2>1, InitAligned, InitParent, InitSearch, InitSpan, InitShown
<1>5. Inv /\ [Next]_vars => Inv' /\ [Search!Next]_(Search!vars)
  <2> SUFFICES ASSUME Inv, [Next]_vars PROVE Inv' /\ [Search!Next]_(Search!vars)
    OBVIOUS
  <2>1. Undisturbed
    BY <1>1, <1>3, RoomUndisturbed
  <2>2. RoomInv(room, saves)'
    BY <1>1, <1>2, <1>3, <2>1, StepRoom
  <2>3. BarrierInv' /\ ParentInv'
    BY <2>1, NextAligned, NextParent
  <2>4. SearchInv'
    BY <2>1, <2>2, <2>3, NextSearch
  <2>5. SpanInv(saves)'
    BY <2>1, NextSpan
  <2>6. [Search!Next]_(Search!vars)
    BY <1>3, <2>1, <2>3, NextShown
  <2> QED BY <2>2, <2>3, <2>4, <2>5, <2>6
<1> HIDE DEF Inv
<1> QED BY <1>4, <1>5, PTL DEF Spec, ImplementsSearch, Search!Spec

=============================================================================
