----------------------------- MODULE TrieProofs -----------------------------
(***************************************************************************)
(* Lemmas about the shape of the trie: the node that is opened for the keys*)
(* below a path exists, lies on all of them, and is told from its siblings *)
(* by its first token.  S is any set of tokens.                            *)
(***************************************************************************)
EXTENDS BeamExtend, SequenceTheorems, WellFoundedInduction, TLAPS

-----------------------------------------------------------------------------
(* Least and greatest elements of sets of naturals.                        *)

LEMMA LeastNatural ==
  ASSUME NEW T, T \subseteq Nat, T # {}
  PROVE  \E x \in T : \A y \in T : x <= y
<1> DEFINE R == {ss \in Nat \X Nat : ss[1] < ss[2]}
<1>1. IsWellFoundedOn(R, Nat)
  BY NatLessThanWellFounded, Zenon DEF OpToRel
<1>2. PICK x \in T : \A y \in T : ~ (<<y, x>> \in R)
  <2> HIDE DEF R
  <2> QED BY <1>1, WFMin
<1>3. ASSUME NEW y \in T PROVE x <= y
  <2>1. x \in Nat /\ y \in Nat
    OBVIOUS
  <2>2. y < x => <<y, x>> \in R
    BY <2>1
  <2>3. ~ (y < x)
    <3> HIDE DEF R
    <3> QED BY <1>2, <2>2
  <2> QED BY <2>1, <2>3
<1> QED BY <1>3

LEMMA GreatestNatural ==
  ASSUME NEW T, T \subseteq Nat, T # {}, NEW n \in Nat, \A x \in T : x <= n
  PROVE  \E x \in T : \A y \in T : y <= x
<1> DEFINE U == {u \in Nat : \A x \in T : x <= u}
<1>1. PICK u \in U : \A v \in U : u <= v
  BY LeastNatural
<1>2. u \in T
  <2>1. SUFFICES ASSUME u \notin T PROVE FALSE
    OBVIOUS
  <2>2. PICK t \in T : TRUE
    OBVIOUS
  <2>3. \A x \in T : x < u
    BY <2>1
  <2>4. u - 1 \in U
    BY <2>2, <2>3
  <2> QED BY <2>4, <1>1
<1> QED BY <1>2

-----------------------------------------------------------------------------
(* Prefixes.                                                               *)

LEMMA PrefixOfAppend ==
  ASSUME NEW S, NEW s \in Seq(S), NEW t \in Seq(S), NEW k \in S, IsPrefix(Append(s, k), t)
  PROVE  Len(s) < Len(t) /\ t[Len(s) + 1] = k /\ IsPrefix(s, t)
BY DEF IsPrefix

LEMMA AppendIsPrefix ==
  ASSUME NEW S, NEW s \in Seq(S), NEW t \in Seq(S), IsPrefix(s, t), s # t
  PROVE  /\ Len(s) < Len(t) /\ t[Len(s) + 1] \in S
         /\ IsPrefix(Append(s, t[Len(s) + 1]), t)
<1>1. Len(s) < Len(t)
  BY DEF IsPrefix
<1> QED BY <1>1 DEF IsPrefix

LEMMA ShorterPrefix ==
  ASSUME NEW S, NEW s \in Seq(S), NEW t \in Seq(S), NEW u \in Seq(S),
         IsPrefix(s, u), IsPrefix(t, u), Len(s) <= Len(t)
  PROVE  IsPrefix(s, t)
BY DEF IsPrefix

LEMMA PrefixTransitive ==
  ASSUME NEW S, NEW s \in Seq(S), NEW t \in Seq(S), NEW u \in Seq(S),
         IsPrefix(s, t), IsPrefix(t, u)
  PROVE  IsPrefix(s, u)
BY DEF IsPrefix

LEMMA ConcatHasPrefix ==
  ASSUME NEW S, NEW s \in Seq(S), NEW r \in Seq(S)
  PROVE  IsPrefix(s, s \o r)
<1> DEFINE w == s \o r
<1>1. /\ w \in Seq(S) /\ Len(s) <= Len(w)
      /\ SubSeq(w, 1, Len(s)) \in Seq(S) /\ Len(SubSeq(w, 1, Len(s))) = Len(s)
      /\ \A i \in 1 .. Len(s) : SubSeq(w, 1, Len(s))[i] = s[i]
  OBVIOUS
<1> HIDE DEF w
<1>2. s = SubSeq(w, 1, Len(s))
  BY <1>1, SeqEqual
<1>3. IsPrefix(s, w)
  BY <1>1, <1>2 DEF IsPrefix
<1> QED BY <1>3 DEF w

(* A sequence and a rest, with the first of the rest moved over.           *)
LEMMA MoveOver ==
  ASSUME NEW S, NEW s \in Seq(S), NEW r \in Seq(S), r # << >>
  PROVE  s \o r = Append(s, Head(r)) \o Tail(r)
<1>1. Len(r) > 0
  BY EmptySeq
<1> DEFINE lhs == s \o r
           rhs == Append(s, Head(r)) \o Tail(r)
<1>2. lhs \in Seq(S) /\ rhs \in Seq(S) /\ Len(lhs) = Len(s) + Len(r) /\ Len(rhs) = Len(lhs)
  BY <1>1
<1>3. ASSUME NEW i \in 1 .. Len(lhs) PROVE lhs[i] = rhs[i]
  <2>1. CASE i <= Len(s)
    BY <1>1, <1>2, <2>1
  <2>2. CASE i = Len(s) + 1
    BY <1>1, <1>2, <2>2
  <2>3. CASE i > Len(s) + 1
    <3>1. lhs[i] = r[i - Len(s)]
      BY <1>2, <2>3
    <3>2. rhs[i] = Tail(r)[i - (Len(s) + 1)]
      BY <1>1, <1>2, <2>3
    <3>3. i - (Len(s) + 1) \in 1 .. Len(Tail(r))
      BY <1>1, <1>2, <2>3
    <3> QED BY <1>1, <3>1, <3>2, <3>3
  <2> QED BY <1>2, <2>1, <2>2, <2>3
<1> HIDE DEF lhs, rhs
<1>4. lhs = rhs
  BY <1>2, <1>3, SeqEqual
<1> QED BY <1>4 DEF lhs, rhs

LEMMA SplitAtPrefix ==
  ASSUME NEW S, NEW s \in Seq(S), NEW d \in Seq(S), IsPrefix(s, d), Len(s) < Len(d)
  PROVE  d = Append(s, d[Len(s) + 1]) \o SubSeq(d, Len(s) + 2, Len(d))
<1> DEFINE r == SubSeq(d, Len(s) + 2, Len(d))
           rhs == Append(s, d[Len(s) + 1]) \o r
<1>1. r \in Seq(S) /\ Len(r) = Len(d) - (Len(s) + 1)
      /\ \A i \in 1 .. Len(r) : r[i] = d[Len(s) + 1 + i]
  OBVIOUS
<1>2. d[Len(s) + 1] \in S
  OBVIOUS
<1>3. rhs \in Seq(S) /\ Len(rhs) = Len(d)
  <2> HIDE DEF r
  <2> QED BY <1>1, <1>2
<1>4. ASSUME NEW i \in 1 .. Len(d) PROVE d[i] = rhs[i]
  <2> HIDE DEF r
  <2>1. CASE i <= Len(s)
    BY <1>1, <1>2, <2>1 DEF IsPrefix
  <2>2. CASE i = Len(s) + 1
    BY <1>1, <1>2, <2>2
  <2>3. CASE i > Len(s) + 1
    BY <1>1, <1>2, <2>3
  <2>4. i \in Nat /\ Len(s) \in Nat
    OBVIOUS
  <2> HIDE DEF rhs
  <2> QED BY <2>1, <2>2, <2>3, <2>4
<1> HIDE DEF rhs
<1>5. d = rhs
  BY <1>3, <1>4, SeqEqual
<1> QED BY <1>5 DEF rhs

-----------------------------------------------------------------------------
(* Some common prefix of keys is the longest.                              *)

LEMMA CommonPrefixType ==
  ASSUME NEW S, NEW keys \in SUBSET Seq(S)
  PROVE  CommonPrefixes(keys) \subseteq Seq(S)
<1>1. SUFFICES ASSUME NEW key \in keys, NEW l \in 0 .. Len(key) PROVE SubSeq(key, 1, l) \in Seq(S)
  BY DEF CommonPrefixes, Prefixes
<1> QED OBVIOUS

LEMMA LongestExists ==
  ASSUME NEW S, NEW keys \in SUBSET Seq(S), keys # {}
  PROVE  LET longest == LongestCommonPrefix(keys)
         IN  /\ longest \in CommonPrefixes(keys)
             /\ \A other \in CommonPrefixes(keys) : Len(other) <= Len(longest)
<1> DEFINE T == {Len(p) : p \in CommonPrefixes(keys)}
<1>1. PICK key \in keys : TRUE
  OBVIOUS
<1>2. << >> \in CommonPrefixes(keys)
  <2>1. << >> = SubSeq(key, 1, 0) /\ 0 \in 0 .. Len(key)
    OBVIOUS
  <2>2. \A t \in keys : IsPrefix(<< >>, t)
    BY DEF IsPrefix
  <2> QED BY <2>1, <2>2 DEF CommonPrefixes, Prefixes
<1>3. \A p \in CommonPrefixes(keys) : p \in Seq(S) /\ Len(p) <= Len(key)
  BY CommonPrefixType DEF CommonPrefixes, IsPrefix
<1>4. \E x \in T : \A y \in T : y <= x
  <2>1. ASSUME NEW p \in CommonPrefixes(keys) PROVE Len(p) \in Nat /\ Len(p) <= Len(key)
    <3>1. p \in Seq(S) /\ Len(p) <= Len(key)
      BY <1>3
    <3> QED BY <3>1
  <2>3. T \subseteq Nat /\ T # {} /\ \A x \in T : x <= Len(key)
    BY <1>2, <2>1
  <2>2. Len(key) \in Nat
    OBVIOUS
  <2> HIDE DEF T
  <2> QED BY <2>2, <2>3, GreatestNatural
<1>5. \E m \in CommonPrefixes(keys) : \A other \in CommonPrefixes(keys) : Len(other) <= Len(m)
  BY <1>4
<1> QED BY <1>5 DEF LongestCommonPrefix

(* The node opened for a path lies on every key below the path, and not    *)
(* before the end of the path.                                             *)
LEMMA OpenedOnKeys ==
  ASSUME NEW S, NEW keys \in SUBSET Seq(S), NEW p \in Seq(S), Below(keys, p) # {}
  PROVE  LET n == Opened(keys, p)
         IN  /\ n \in Seq(S) /\ IsPrefix(p, n)
             /\ \A key \in Below(keys, p) : IsPrefix(n, key)
<1> DEFINE n == Opened(keys, p)
<1>1. Below(keys, p) \in SUBSET Seq(S)
  BY DEF Below
<1>2. n \in CommonPrefixes(Below(keys, p))
      /\ \A other \in CommonPrefixes(Below(keys, p)) : Len(other) <= Len(n)
  BY <1>1, LongestExists DEF Opened
<1>3. PICK key \in Below(keys, p) : TRUE
  OBVIOUS
<1>4. n \in Seq(S)
  BY <1>1, <1>2, CommonPrefixType
<1>5. \A k \in Below(keys, p) : IsPrefix(n, k)
  BY <1>2 DEF CommonPrefixes
<1>6. p \in CommonPrefixes(Below(keys, p))
  <2>1. key \in Seq(S) /\ IsPrefix(p, key)
    BY <1>3 DEF Below
  <2>2. p = SubSeq(key, 1, Len(p)) /\ Len(p) \in 0 .. Len(key)
    BY <2>1 DEF IsPrefix
  <2>3. p \in Prefixes(key)
    BY <2>2 DEF Prefixes
  <2>4. p \in UNION {Prefixes(seq) : seq \in Below(keys, p)}
    BY <1>3, <2>3
  <2>5. \A t \in Below(keys, p) : IsPrefix(p, t)
    BY DEF Below
  <2> QED BY <2>4, <2>5 DEF CommonPrefixes
<1>7. IsPrefix(p, n)
  <2>1. key \in Seq(S) /\ IsPrefix(p, key) /\ IsPrefix(n, key) /\ Len(p) <= Len(n)
    BY <1>2, <1>3, <1>5, <1>6 DEF Below
  <2> HIDE DEF n
  <2> QED BY <2>1, <1>4, ShorterPrefix
<1> QED BY <1>4, <1>5, <1>7

(* The child for a label lies below its parent, on a key.                  *)
LEMMA OpenedByLabel ==
  ASSUME NEW S, NEW keys \in SUBSET Seq(S), NEW n \in Seq(S), NEW k \in Labels(keys, n)
  PROVE  LET c == Opened(keys, Append(n, k))
         IN  /\ c \in Seq(S) /\ IsPrefix(n, c) /\ Len(n) < Len(c)
             /\ k \in S /\ c[Len(n) + 1] = k
             /\ Below(keys, c) # {}
<1> DEFINE c == Opened(keys, Append(n, k))
<1>1. PICK key \in keys : IsPrefix(n, key) /\ key # n /\ k = key[Len(n) + 1]
  BY DEF Labels, Below
<1>2. key \in Seq(S)
  OBVIOUS
<1>3. k \in S /\ IsPrefix(Append(n, k), key)
  BY <1>1, <1>2, AppendIsPrefix
<1>4. Append(n, k) \in Seq(S) /\ key \in Below(keys, Append(n, k))
  BY <1>3 DEF Below
<1>5. c \in Seq(S) /\ IsPrefix(Append(n, k), c) /\ IsPrefix(c, key)
  BY <1>4, OpenedOnKeys
<1> HIDE DEF c
<1>6. Len(n) < Len(c) /\ c[Len(n) + 1] = k /\ IsPrefix(n, c)
  BY <1>3, <1>5, PrefixOfAppend
<1>7. Below(keys, c) # {}
  BY <1>5 DEF Below
<1> QED BY <1>3, <1>5, <1>6, <1>7 DEF c

LEMMA ChildBelow ==
  ASSUME NEW S, NEW keys \in SUBSET Seq(S), NEW n \in Seq(S), NEW c \in ChildNodes(keys, n)
  PROVE  /\ c \in Seq(S) /\ IsPrefix(n, c) /\ Len(n) < Len(c)
         /\ Below(keys, c) # {}
BY OpenedByLabel DEF ChildNodes

LEMMA SiblingsDiffer ==
  ASSUME NEW S, NEW keys \in SUBSET Seq(S), NEW n \in Seq(S),
         NEW c \in ChildNodes(keys, n), NEW d \in ChildNodes(keys, n),
         c[Len(n) + 1] = d[Len(n) + 1]
  PROVE  c = d
<1>1. PICK k \in Labels(keys, n) : c = Opened(keys, Append(n, k))
  BY DEF ChildNodes
<1>2. PICK l \in Labels(keys, n) : d = Opened(keys, Append(n, l))
  BY DEF ChildNodes
<1>3. k = l
  BY <1>1, <1>2, OpenedByLabel
<1> QED BY <1>1, <1>2, <1>3

-----------------------------------------------------------------------------
(* Each search finds one child at most for a token.                        *)

LEMMA OneGpuKid ==
  ASSUME NEW S, NEW keys \in SUBSET Seq(S), NEW b, b.node \in Seq(S), NEW k,
         NEW x \in GpuKids(keys, b, k), NEW y \in GpuKids(keys, b, k)
  PROVE  x = y
<1>1. CASE b.inLink
  BY <1>1 DEF GpuKids, GpuInLink
<1>2. CASE ~b.inLink
  <2>1. x \in GpuChildSearch(keys, b, k) /\ y \in GpuChildSearch(keys, b, k)
    BY <1>2 DEF GpuKids
  <2>2. PICK c \in ChildNodes(keys, b.node) :
          /\ c[Len(b.node) + 1] = k
          /\ x = [path |-> Append(b.path, k), node |-> c, inLink |-> IsLink(b.node, c),
                  rest |-> LinkRest(b.node, c)]
    BY <2>1 DEF GpuChildSearch
  <2>3. PICK d \in ChildNodes(keys, b.node) :
          /\ d[Len(b.node) + 1] = k
          /\ y = [path |-> Append(b.path, k), node |-> d, inLink |-> IsLink(b.node, d),
                  rest |-> LinkRest(b.node, d)]
    BY <2>1 DEF GpuChildSearch
  <2>4. c = d
    <3>1. c[Len(b.node) + 1] = d[Len(b.node) + 1]
      BY <2>2, <2>3
    <3> QED BY <3>1, SiblingsDiffer
  <2> QED BY <2>2, <2>3, <2>4
<1> QED BY <1>1, <1>2

LEMMA OneCpuKid ==
  ASSUME NEW S, NEW keys \in SUBSET Seq(S), NEW a, a.node \in Seq(S), NEW k,
         NEW x \in CpuKids(keys, a, k), NEW y \in CpuKids(keys, a, k)
  PROVE  x = y
<1>1. CASE CpuLinkParent(keys, a)
  BY <1>1 DEF CpuKids, CpuInLink
<1>2. CASE ~CpuLinkParent(keys, a)
  <2> DEFINE token == Append(a.query, k)[a.pos + 1]
             kid(c) == [query |-> Append(a.query, k), pos |-> a.pos + 1, node |-> c,
                        keyBuf |-> a.keyBuf \o SubSeq(c, Len(a.node) + 1, Len(c))]
  <2>1. x \in CpuFindChild(keys, a, k) /\ y \in CpuFindChild(keys, a, k)
    BY <1>2 DEF CpuKids
  <2>2. PICK c \in ChildNodes(keys, a.node) : c[Len(a.node) + 1] = token /\ x = kid(c)
    BY <2>1 DEF CpuFindChild
  <2>3. PICK d \in ChildNodes(keys, a.node) : d[Len(a.node) + 1] = token /\ y = kid(d)
    BY <2>1 DEF CpuFindChild
  <2>4. c = d
    <3>1. c[Len(a.node) + 1] = d[Len(a.node) + 1]
      BY <2>2, <2>3
    <3> QED BY <3>1, SiblingsDiffer
  <2> QED BY <2>2, <2>3, <2>4
<1> QED BY <1>1, <1>2
=============================================================================
