----------------------------- MODULE SortProofs -----------------------------
(***************************************************************************)
(* Theorems about the two sorts: that of the candidate beams (SortTopK),   *)
(* for every grid, sort block, capacity and array, and that of the keys    *)
(* (KeySort), for any strings and threshold.                               *)
(*                                                                         *)
(* The argument of the first is the loop invariant a programmer of the     *)
(* executor would give, made to hold between the steps of single thread    *)
(* blocks: while the thread blocks sort (Sorting), the sort blocks of the  *)
(* round name each beam at most once and miss none that belongs to the     *)
(* best; while they copy (Copying), the same holds of the sort blocks that *)
(* have not been copied yet, and those that wait for their copy are still  *)
(* sorted.  The argument of the second is by what lies between the calls   *)
(* that are still to be made: it is in its order, and counted.             *)
(***************************************************************************)
EXTENDS SortTopK, KeySort, FiniteSetTheorems, WellFoundedInduction, TLAPS

-----------------------------------------------------------------------------
(* Quotients and remainders.                                               *)

(* What a division by a positive number yields.                            *)
LEMMA Division ==
  ASSUME NEW e \in Nat \ {0}, NEW s \in Nat
  PROVE  /\ s \div e \in Nat
         /\ s % e \in 0 .. e - 1
         /\ (s \div e) * e <= s
         /\ s < (s \div e) * e + e
         /\ s % e = s - (s \div e) * e
OBVIOUS

(* There is one quotient.                                                  *)
LEMMA DivisionUnique ==
  ASSUME NEW e \in Nat \ {0}, NEW s \in Nat, NEW b \in Nat, b * e <= s, s < b * e + e
  PROVE  s \div e = b
<1> DEFINE q == s \div e
<1>1. q \in Nat /\ q * e <= s /\ s < q * e + e
  BY Division
<1> HIDE DEF q
<1>2. CASE b < q
  <2>1. PICK k \in Nat : q = b + 1 + k
    <3>1. q - b - 1 \in Nat /\ q = b + 1 + (q - b - 1)
      BY <1>1, <1>2
    <3> QED BY <3>1
  <2>2. q * e = b * e + e + k * e /\ k * e \in Nat /\ b * e \in Nat
    BY <2>1
  <2> QED BY <1>1, <2>2
<1>3. CASE q < b
  <2>1. PICK k \in Nat : b = q + 1 + k
    <3>1. b - q - 1 \in Nat /\ b = q + 1 + (b - q - 1)
      BY <1>1, <1>3
    <3> QED BY <3>1
  <2>2. b * e = q * e + e + k * e /\ k * e \in Nat /\ q * e \in Nat
    BY <1>1, <2>1
  <2> QED BY <1>1, <2>2
<1> QED BY <1>1, <1>2, <1>3 DEF q

(* A thread block that goes on by the number of thread blocks meets its own*)
(* sort blocks, one after the other, and no other.                         *)
LEMMA Stride ==
  ASSUME NEW n \in Nat \ {0}, NEW b \in Nat
  PROVE  /\ (b + n) % n = b % n
         /\ b < n => b % n = b
         /\ \A c \in Nat : b < c /\ b % n = c % n => b + n <= c
<1>1. (b + n) % n = b % n
  <2> DEFINE q == b \div n
  <2>1. q \in Nat /\ q * n <= b /\ b < q * n + n /\ b % n = b - q * n
    BY Division
  <2>2. (b + n) \div n = q + 1
    <3>1. (q + 1) * n = q * n + n /\ b + n \in Nat /\ q + 1 \in Nat /\ q * n \in Nat
      BY <2>1
    <3> HIDE DEF q
    <3>2. (q + 1) * n <= b + n /\ b + n < (q + 1) * n + n
      BY <2>1, <3>1
    <3> QED BY <3>1, <3>2, DivisionUnique
  <2>3. (b + n) % n = (b + n) - ((b + n) \div n) * n
    BY Division, b + n \in Nat
  <2> HIDE DEF q
  <2> QED BY <2>1, <2>2, <2>3
<1>2. b < n => b % n = b
  <2>1. SUFFICES ASSUME b < n PROVE b % n = b
    OBVIOUS
  <2>2. b \div n = 0
    BY <2>1, DivisionUnique, 0 \in Nat, 0 * n = 0
  <2> QED BY <2>2, Division
<1>3. ASSUME NEW c \in Nat, b < c, b % n = c % n PROVE b + n <= c
  <2> DEFINE q == b \div n
             p == c \div n
  <2>1. q \in Nat /\ p \in Nat /\ b % n = b - q * n /\ c % n = c - p * n
    BY Division
  <2> HIDE DEF p, q
  <2>2. q < p
    <3>1. SUFFICES ASSUME p <= q PROVE FALSE
      BY <2>1
    <3>2. PICK k \in Nat : q = p + k
      BY <2>1, <3>1, q - p \in Nat, q = p + (q - p)
    <3>3. q * n = p * n + k * n /\ k * n \in Nat /\ p * n \in Nat
      BY <2>1, <3>2
    <3> QED BY <1>3, <2>1, <3>3
  <2>3. PICK k \in Nat : p = q + 1 + k
    BY <2>1, <2>2, p - q - 1 \in Nat, p = q + 1 + (p - q - 1)
  <2>4. p * n = q * n + n + k * n /\ k * n \in Nat /\ q * n \in Nat
    BY <2>1, <2>3
  <2> QED BY <1>3, <2>1, <2>4
<1> QED BY <1>1, <1>2, <1>3

-----------------------------------------------------------------------------
(* The invariant.                                                          *)

Blocks == (Size - 1) \div Elems + 1
Identity == [s \in Slot |-> s]

(* A sort block of m is in descending order.                               *)
BlockSorted(m, b) ==
  \A i, j \in SlotsOf(b) : i < j => score[m[i]] >= score[m[j]]

(* What the slots in S name, and the beams of S that score at least x.     *)
Named(m, S) == {m[s] : s \in S}
Over(S, x) == {s \in S : score[s] >= x}

(* The slots in S name every beam at most once, and either all that score  *)
(* as much as t or as many of them as the trim keeps.                      *)
Distinct(m, S) == \A s, t \in S : m[s] = m[t] => s = t
KeepsBest(m, S) ==
  \A t \in Slot :
    \/ Over(Slot, score[t]) \subseteq Named(m, S)
    \/ Cardinality(Over(Named(m, S), score[t])) >= Kept
Good(m, S) == Distinct(m, S) /\ KeepsBest(m, S)

(* The thread block that works on sort block b, and whether it is through  *)
(* with it.                                                                *)
Owner(b) == b % NumCtas
Through(b) == pc[Owner(b)] \in {"sort", "store"} => b < blk[Owner(b)]

(* Sort block b has been copied to an earlier one.                         *)
Gone(r, b) == r - 1 - b < b /\ (pc[Owner(b)] = "roundSync" \/ b < blk[Owner(b)])

FrontSlots(r) == {s \in Slot : s \div Elems < r}
Live(r) == {s \in Slot : s \div Elems < r /\ ~ Gone(r, s \div Elems)}

Places == {"sort", "store", "sortSync", "copy", "roundSync", "collect", "front", "done"}

Types ==
  /\ score \in Inputs
  /\ meta \in [Slot -> Slot]
  /\ pc \in [Cta -> Places]
  /\ rem \in [Cta -> Nat]
  /\ blk \in [Cta -> Nat]
  /\ reg = [u \in Cta |-> reg[u]]

(* All thread blocks are in the round that starts with r sort blocks, and  *)
(* each works on sort blocks of its own.                                   *)
Round(r) ==
  /\ Size > 1
  /\ r \in 1 .. Blocks
  /\ \A u \in Cta : rem[u] = r
  /\ \A u \in Cta : pc[u] \in {"sort", "store", "copy"} => Owner(blk[u]) = u

(* A thread block holds a sorted copy of its sort block.                   *)
Holding(r) ==
  \A u \in Cta :
    pc[u] = "store" => blk[u] < r /\ reg[u] \in SortedBlock(SlotsOf(blk[u]))

SortPlaces(r) ==
  IF r > 1 THEN {"sort", "store", "sortSync"}
  ELSE {"sort", "store", "collect", "front", "roundSync"}

(* Only the last round moves the winners to the front of cand_.            *)
Moving ==
  /\ \A u \in Cta :
       pc[u] = "front" => u = 0 /\ topk = [i \in 0 .. Kept - 1 |-> meta[i]]
  /\ IF pc[0] = "roundSync" THEN \A s \in 0 .. Kept - 1 : cand[s] = meta[s]
     ELSE cand = Identity

Sorting(r) ==
  /\ Round(r)
  /\ \A u \in Cta : pc[u] \in SortPlaces(r)
  /\ Holding(r)
  /\ \A b \in 0 .. r - 1 : Through(b) => BlockSorted(meta, b)
  /\ Good(meta, FrontSlots(r))
  /\ Moving

Copying(r) ==
  /\ Round(r)
  /\ r > 1
  /\ \A u \in Cta : pc[u] \in {"copy", "roundSync"}
  /\ \A b \in 0 .. r - 1 : ~ Gone(r, b) /\ ~ Gone(r, r - 1 - b) => BlockSorted(meta, b)
  /\ Good(meta, Live(r))
  /\ cand = Identity

Finished ==
  /\ \A u \in Cta : pc[u] = "done"
  /\ Size > 1 => /\ BlockSorted(meta, 0)
                 /\ Good(meta, FrontSlots(1))
                 /\ \A s \in 0 .. Kept - 1 : cand[s] = meta[s]

SortInv == Types /\ (Finished \/ \E r \in Nat : Sorting(r) \/ Copying(r))

-----------------------------------------------------------------------------
(* Slots and sort blocks.                                                  *)

(* An array has finitely many slots, numbered from 0, and the trim keeps   *)
(* at most half a sort block of them.                                      *)
LEMMA Slots ==
  ASSUME score \in Inputs
  PROVE  /\ Size \in Nat /\ Slot = 0 .. Size - 1 /\ IsFiniteSet(Slot)
         /\ \A s \in Slot : score[s] \in Int
         /\ Half \in Nat \ {0} /\ Elems = Half + Half /\ Elems \in Nat \ {0}
         /\ Kept \in 0 .. Half /\ Kept <= Size
         /\ NumCtas \in Nat \ {0}
<1>1. IsFiniteSet(Slot) /\ Slot = 0 .. Size - 1
  BY SortAssumption DEF Slot, Size
<1>2. Size \in Nat
  BY <1>1, FS_CardinalityType DEF Size, Slot
<1>3. Half \in Nat \ {0} /\ NumCtas \in Nat \ {0} /\ Capacity \in 0 .. Half
  BY SortAssumption
<1>4. \A s \in Slot : score[s] \in Int
  BY SortAssumption DEF Slot
<1> QED BY <1>1, <1>2, <1>3, <1>4 DEF Kept, Elems

(* The slots of a sort block are an interval, cut off at the end.          *)
LEMMA BlockSlots ==
  ASSUME score \in Inputs, NEW b \in Nat
  PROVE  /\ b * Elems \in Nat
         /\ \A s \in Slot : s \in SlotsOf(b) <=> b * Elems <= s /\ s < b * Elems + Elems
<1>1. Slot \subseteq Nat /\ Elems \in Nat \ {0}
  BY Slots
<1>2. b * Elems \in Nat
  BY <1>1
<1>3. ASSUME NEW s \in Slot
      PROVE  s \in SlotsOf(b) <=> b * Elems <= s /\ s < b * Elems + Elems
  <2>1. s \in Nat
    BY <1>1
  <2>2. s \div Elems = b => b * Elems <= s /\ s < b * Elems + Elems
    BY <1>1, <2>1, Division
  <2>3. b * Elems <= s /\ s < b * Elems + Elems => s \div Elems = b
    BY <1>1, <2>1, DivisionUnique
  <2> QED BY <2>2, <2>3 DEF SlotsOf
<1> QED BY <1>2, <1>3

(* The sort blocks of a later number begin behind an earlier one.          *)
LEMMA BlockOrder ==
  ASSUME score \in Inputs, NEW b \in Nat, NEW d \in Nat, d < b
  PROVE  d * Elems + Elems <= b * Elems
<1>1. Elems \in Nat
  BY Slots
<1>2. PICK k \in Nat : b = d + 1 + k
  BY b - d - 1 \in Nat, b = d + 1 + (b - d - 1)
<1>3. b * Elems = d * Elems + Elems + k * Elems /\ k * Elems \in Nat /\ d * Elems \in Nat
  BY <1>1, <1>2
<1> QED BY <1>1, <1>3

(* The sort blocks of the first round hold all slots, and none is empty.   *)
LEMMA BlockCount ==
  ASSUME score \in Inputs, Size > 1
  PROVE  /\ Blocks \in Nat \ {0}
         /\ \A s \in Slot : s \div Elems \in 0 .. Blocks - 1
         /\ \A b \in 0 .. Blocks - 1 : b * Elems \in Slot
<1>1. Size \in Nat /\ Slot = 0 .. Size - 1 /\ Elems \in Nat \ {0}
  BY Slots
<1> DEFINE last == (Size - 1) \div Elems
<1>2. last \in Nat /\ last * Elems <= Size - 1 /\ Size - 1 < last * Elems + Elems
  BY <1>1, Division, Size - 1 \in Nat
<1>3. Blocks = last + 1
  BY DEF Blocks
<1> HIDE DEF last
<1>4. ASSUME NEW s \in Slot PROVE s \div Elems \in 0 .. Blocks - 1
  <2> DEFINE q == s \div Elems
  <2>1. s \in Nat /\ s <= Size - 1
    BY <1>1
  <2>2. q \in Nat /\ q * Elems <= s
    BY <1>1, <2>1, Division
  <2> HIDE DEF q
  <2>3. CASE last < q
    <3>1. last * Elems + Elems <= q * Elems
      BY <1>2, <2>2, <2>3, BlockOrder
    <3>2. last * Elems \in Nat /\ q * Elems \in Nat
      BY <1>1, <1>2, <2>2
    <3> QED BY <1>1, <1>2, <2>1, <2>2, <3>1, <3>2
  <2>4. CASE q <= last
    BY <1>2, <1>3, <2>2, <2>4 DEF q
  <2> QED BY <1>2, <2>2, <2>3, <2>4
<1>5. ASSUME NEW b \in 0 .. Blocks - 1 PROVE b * Elems \in Slot
  <2>1. b \in Nat /\ b <= last
    BY <1>2, <1>3
  <2>2. b * Elems \in Nat /\ last * Elems \in Nat
    BY <1>1, <1>2, <2>1
  <2>3. b * Elems <= last * Elems
    <3>1. CASE b = last
      BY <2>2, <3>1
    <3>2. CASE b < last
      <4>1. b * Elems + Elems <= last * Elems
        BY <1>2, <2>1, <3>2, BlockOrder
      <4> QED BY <1>1, <2>2, <4>1
    <3> QED BY <1>2, <2>1, <3>1, <3>2
  <2> QED BY <1>1, <1>2, <2>2, <2>3
<1> QED BY <1>2, <1>3, <1>4, <1>5

(* Distinct names are as many as the slots.                                *)
LEMMA NamedCount ==
  ASSUME NEW m, NEW S, IsFiniteSet(S), Distinct(m, S)
  PROVE  IsFiniteSet(Named(m, S)) /\ Cardinality(Named(m, S)) = Cardinality(S)
<1> DEFINE g == [s \in S |-> m[s]]
<1>1. g \in [S -> Named(m, S)]
  BY DEF Named
<1>2. \A s, t \in S : g[s] = g[t] => s = t
  BY DEF Distinct
<1>3. \A y \in Named(m, S) : \E s \in S : g[s] = y
  BY DEF Named
<1> HIDE DEF g
<1>4. g \in Bijection(S, Named(m, S))
  BY <1>1, <1>2, <1>3 DEF Bijection, Injection, IsInjective, Surjection
<1> QED BY <1>4, FS_Bijection DEF ExistsBijection

(* What may be left of a sort block covers exactly its slots, names what   *)
(* the block named, best first, and names it once if the block did.        *)
LEMMA BlockPermuted ==
  ASSUME score \in Inputs, Size > 1, meta \in [Slot -> Slot],
         NEW b \in 0 .. Blocks - 1, NEW f \in SortedBlock(SlotsOf(b))
  PROVE  /\ DOMAIN f = SlotsOf(b)
         /\ \A s \in SlotsOf(b) : f[s] \in Slot
         /\ Named(f, SlotsOf(b)) = Named(meta, SlotsOf(b))
         /\ BlockSorted(f, b)
         /\ Distinct(meta, SlotsOf(b)) => Distinct(f, SlotsOf(b))
<1> DEFINE B == SlotsOf(b)
           start == b * Elems
           live == Min(B) .. Min(B) + Cardinality(B) - 1
<1>1. Size \in Nat /\ Slot = 0 .. Size - 1 /\ Elems \in Nat \ {0} /\ b \in Nat
  BY Slots, BlockCount
<1>2. start \in Slot /\ \A s \in Slot : s \in B <=> start <= s /\ s < start + Elems
  BY <1>1, BlockSlots, BlockCount
<1>3. B \subseteq Slot
  BY DEF SlotsOf
<1> HIDE DEF B, start
<1>4. PICK end \in Slot : B = start .. end
  <2>1. CASE start + Elems <= Size
    <3>1. start + Elems - 1 \in Slot
      BY <1>1, <1>2, <2>1
    <3>2. \A s \in Slot : s \in B <=> s \in start .. start + Elems - 1
      BY <1>1, <1>2
    <3>3. start .. start + Elems - 1 \subseteq Slot
      BY <1>1, <1>2, <2>1
    <3> QED BY <1>3, <3>1, <3>2, <3>3
  <2>2. CASE start + Elems > Size
    <3>1. Size - 1 \in Slot
      BY <1>1, <1>2
    <3>2. \A s \in Slot : s \in B <=> s \in start .. Size - 1
      BY <1>1, <1>2, <2>2
    <3>3. start .. Size - 1 \subseteq Slot
      BY <1>1, <1>2
    <3> QED BY <1>3, <3>1, <3>2, <3>3
  <2> QED BY <1>1, <1>2, <2>1, <2>2
<1>5. start <= end /\ start \in Int /\ end \in Int
  BY SMTT(30), <1>1, <1>2, <1>4
<1>6. IsFiniteSet(B) /\ Cardinality(B) = end - start + 1
  BY <1>4, <1>5, FS_Interval
<1>7. Min(B) = start
  <2>1. start \in B /\ \A y \in B : start <= y
    BY <1>4, <1>5
  <2>2. \A x \in B : (\A y \in B : x <= y) => x = start
    BY <1>4, <1>5
  <2> QED BY <2>1, <2>2 DEF Min
<1>8. live = B
  BY <1>4, <1>5, <1>6, <1>7
<1>9. /\ f \in [B -> {meta[s] : s \in B}]
      /\ {f[i] : i \in B} = {meta[s] : s \in B}
      /\ \A i, j \in B : i < j => score[f[i]] >= score[f[j]]
  BY <1>8 DEF SortedBlock, B
<1>10. Named(f, B) = Named(meta, B)
  BY <1>9 DEF Named
<1>11. ASSUME Distinct(meta, B) PROVE Distinct(f, B)
  <2>1. Cardinality(Named(meta, B)) = Cardinality(B)
    BY <1>6, <1>11, NamedCount
  <2>2. f \in Surjection(B, Named(meta, B))
    BY <1>9 DEF Surjection, Named
  <2>3. f \in Injection(B, Named(meta, B))
    BY <1>6, <2>1, <2>2, FS_SurjSameCardinalityImpliesInj
  <2> QED BY <2>3 DEF Distinct, Injection, IsInjective
<1>12. BlockSorted(f, b)
  BY <1>9 DEF BlockSorted, B
<1>13. \A s \in B : f[s] \in Slot
  BY <1>3, <1>9
<1> QED BY <1>9, <1>10, <1>11, <1>12, <1>13 DEF B

-----------------------------------------------------------------------------
(* What the steps do to the beams that are named.                          *)

(* A store puts a permutation back, so it names the same beams as before.  *)
LEMMA StoreKeeps ==
  ASSUME NEW m, NEW n, NEW S, NEW B \in SUBSET S, Good(m, S),
         \A s \in S \ B : n[s] = m[s],
         Named(n, B) = Named(m, B), Distinct(n, B)
  PROVE  Good(n, S)
<1>1. \A s \in B : n[s] \in Named(m, B) /\ m[s] \in Named(n, B)
  BY DEF Named
<1>2. Named(n, S) = Named(m, S)
  <2>1. ASSUME NEW s \in S PROVE n[s] \in Named(m, S)
    BY <1>1 DEF Named
  <2>2. ASSUME NEW s \in S PROVE m[s] \in Named(n, S)
    BY <1>1 DEF Named
  <2> QED BY <2>1, <2>2 DEF Named
<1>3. Distinct(n, S)
  <2>1. SUFFICES ASSUME NEW s \in S, NEW t \in S, n[s] = n[t] PROVE s = t
    BY DEF Distinct
  <2>2. \A i, j \in S : m[i] = m[j] => i = j
    BY DEF Good, Distinct
  <2>3. \A i, j \in B : n[i] = n[j] => i = j
    BY DEF Distinct
  <2>4. CASE s \in B /\ t \in B
    BY <2>1, <2>3, <2>4
  <2>5. CASE s \notin B /\ t \notin B
    BY <2>1, <2>2, <2>5
  <2>6. ASSUME NEW i \in B, NEW j \in S \ B PROVE n[i] # n[j]
    <3>1. PICK k \in B : n[i] = m[k]
      BY <1>1 DEF Named
    <3> QED BY <2>2, <3>1
  <2> QED BY <2>1, <2>4, <2>5, <2>6
<1> QED BY <1>2, <1>3 DEF Good, KeepsBest

(* A set of slots with half a sort block among them that name good beams.  *)
LEMMA Enough ==
  ASSUME score \in Inputs, NEW n \in [Slot -> Slot], NEW S \in SUBSET Slot,
         NEW i \in Int, i .. i + Half - 1 \subseteq S,
         Distinct(n, S), NEW x \in Int,
         \A s \in i .. i + Half - 1 : score[n[s]] >= x
  PROVE  Cardinality(Over(Named(n, S), x)) >= Kept
<1> DEFINE I == i .. i + Half - 1
           T == Named(n, I)
<1>1. Half \in Nat \ {0} /\ Kept \in 0 .. Half /\ IsFiniteSet(Slot)
  BY Slots
<1>2. IsFiniteSet(I) /\ Cardinality(I) = Half
  <2>1. IsFiniteSet(I) /\ Cardinality(I) = IF i > i + Half - 1 THEN 0 ELSE (i + Half - 1) - i + 1
    BY <1>1, FS_Interval, i + Half - 1 \in Int
  <2> QED BY <1>1, <2>1
<1>3. Distinct(n, I)
  BY DEF Distinct
<1>4. Cardinality(T) = Half
  BY <1>2, <1>3, NamedCount
<1>5. T \subseteq Over(Named(n, S), x)
  BY DEF Over, Named
<1>6. IsFiniteSet(Over(Named(n, S), x))
  <2>1. Over(Named(n, S), x) \in SUBSET Slot
    BY DEF Over, Named
  <2> QED BY <1>1, <2>1, FS_Subset
<1> HIDE DEF T
<1>7. Cardinality(T) <= Cardinality(Over(Named(n, S), x))
  BY <1>5, <1>6, FS_Subset
<1>8. Cardinality(Over(Named(n, S), x)) \in Nat
  BY <1>6, FS_CardinalityType
<1> QED BY <1>1, <1>4, <1>7, <1>8

(* Where the entries of a slot come from when sort block b is copied to    *)
(* sort block d: a slot in the lower half of d takes the one at the same   *)
(* distance in the upper half of b, if b reaches so far.                   *)
LEMMA MovedSlots ==
  ASSUME score \in Inputs, Size > 1, meta \in [Slot -> Slot],
         NEW b \in 0 .. Blocks - 1, NEW d \in Nat, d < b,
         NEW s \in Slot
  PROVE  LET bs == b * Elems
             ds == d * Elems
         IN  /\ ds + Half <= s /\ s < ds + Elems /\ s - ds - Half + bs < Size =>
                  Moved(b, d)[s] = meta[s - ds - Half + bs]
             /\ ~ (ds + Half <= s /\ s < ds + Elems /\ s - ds - Half + bs < Size) =>
                  Moved(b, d)[s] = meta[s]
<1> DEFINE bs == b * Elems
           ds == d * Elems
           t == (s - ds - Half) + bs
<1>1. /\ Size \in Nat /\ Slot = 0 .. Size - 1 /\ Half \in Nat \ {0}
      /\ Elems = Half + Half /\ Elems \in Nat \ {0} /\ b \in Nat
  BY Slots, BlockCount
<1>2. bs \in Nat /\ ds \in Nat
  BY <1>1
<1>3. s \div Elems = d <=> ds <= s /\ s < ds + Elems
  BY BlockSlots DEF SlotsOf
<1>4. s \div Elems = d => s % Elems = s - ds
  <2>1. s \in Nat
    BY <1>1
  <2>2. s % Elems = s - (s \div Elems) * Elems
    BY <1>1, <2>1, Division
  <2> QED BY <2>2
<1>5. Moved(b, d)[s] = IF s \div Elems = d /\ s % Elems >= Half /\ t \in Slot
                      THEN meta[t] ELSE meta[s]
  BY DEF Moved
<1>6. s \in Nat
  BY <1>1
<1> SUFFICES /\ ds + Half <= s /\ s < ds + Elems /\ t < Size => Moved(b, d)[s] = meta[t]
             /\ ~ (ds + Half <= s /\ s < ds + Elems /\ t < Size) => Moved(b, d)[s] = meta[s]
  OBVIOUS
<1> HIDE DEF bs, ds
<1>7. CASE s \div Elems = d /\ s % Elems >= Half /\ t \in Slot
  <2>1. ds + Half <= s /\ s < ds + Elems /\ t < Size
    BY <1>1, <1>2, <1>3, <1>4, <1>6, <1>7
  <2> QED BY <1>5, <1>7, <2>1
<1>8. CASE ~ (s \div Elems = d /\ s % Elems >= Half /\ t \in Slot)
  <2>1. ~ (ds + Half <= s /\ s < ds + Elems /\ t < Size)
    BY <1>1, <1>2, <1>3, <1>4, <1>6, <1>8
  <2> QED BY <1>5, <1>8, <2>1
<1> QED BY <1>7, <1>8

(* Copying the upper half of a sorted block over the lower half of another *)
(* sorted block gives up nothing: the slots that are left name every beam  *)
(* at most once, and where a beam was dropped, half a sort block of beams  *)
(* that are no worse stand before it.                                      *)
LEMMA CopyKeeps ==
  ASSUME score \in Inputs, Size > 1, meta \in [Slot -> Slot],
         NEW b \in 0 .. Blocks - 1, NEW d \in Nat, d < b,
         NEW S \in SUBSET Slot, SlotsOf(b) \subseteq S, SlotsOf(d) \subseteq S,
         BlockSorted(meta, b), BlockSorted(meta, d), Good(meta, S)
  PROVE  Good(Moved(b, d), S \ SlotsOf(b))
<1> DEFINE bs == b * Elems
           ds == d * Elems
           n == Moved(b, d)
           R == S \ SlotsOf(b)
           over(s) == ds + Half <= s /\ s < ds + Elems /\ s - ds - Half + bs < Size
<1>1. /\ Size \in Nat /\ Slot = 0 .. Size - 1 /\ Half \in Nat \ {0} /\ IsFiniteSet(Slot)
      /\ Elems = Half + Half /\ Elems \in Nat \ {0} /\ b \in Nat
      /\ \A s \in Slot : score[s] \in Int
  BY Slots, BlockCount
<1>2. bs \in Nat /\ ds \in Nat /\ bs < Size /\ ds + Elems <= bs
  BY <1>1, BlockCount, BlockOrder
<1>3. \A s \in Slot : /\ s \in SlotsOf(b) <=> bs <= s /\ s < bs + Elems
                      /\ s \in SlotsOf(d) <=> ds <= s /\ s < ds + Elems
  BY <1>1, BlockSlots
<1>4. \A s \in Slot : /\ over(s) => n[s] = meta[s - ds - Half + bs]
                      /\ ~ over(s) => n[s] = meta[s]
  BY MovedSlots
<1>5. n \in [Slot -> Slot]
  BY DEF Moved
<1> HIDE DEF bs, ds, n
<1>6. \A s \in Slot : over(s) => s - ds - Half + bs \in SlotsOf(b) /\ s \in SlotsOf(d)
  BY SMTT(30), <1>1, <1>2, <1>3
<1>7. Distinct(n, R)
  <2>1. SUFFICES ASSUME NEW s \in R, NEW t \in R, n[s] = n[t] PROVE s = t
    BY DEF Distinct
  <2>2. \A i, j \in S : meta[i] = meta[j] => i = j
    BY DEF Good, Distinct
  <2>3. s \in Slot /\ t \in Slot /\ s \in S /\ t \in S /\ s \in Int /\ t \in Int
    BY <1>1
  <2>4. CASE over(s) /\ over(t)
    <3>1. s - ds - Half + bs = t - ds - Half + bs
      <4>1. PICK i, j : i = s - ds - Half + bs /\ j = t - ds - Half + bs
        OBVIOUS
      <4>2. i \in S /\ j \in S
        BY Zenon, <1>6, <2>3, <2>4, <4>1
      <4>3. meta[i] = meta[j]
        BY Zenon, <1>4, <2>1, <2>3, <2>4, <4>1
      <4> QED BY <2>2, <4>1, <4>2, <4>3
    <3> QED BY <1>1, <1>2, <2>3, <3>1
  <2>5. CASE ~ over(s) /\ ~ over(t)
    BY <1>4, <2>1, <2>2, <2>3, <2>5
  <2>6. ASSUME NEW i \in R, NEW j \in R, over(i), ~ over(j) PROVE n[i] # n[j]
    <3>1. i - ds - Half + bs \in SlotsOf(b) /\ j \notin SlotsOf(b) /\ i \in Slot /\ j \in Slot
      BY <1>6, <2>6
    <3>2. n[i] = meta[i - ds - Half + bs] /\ n[j] = meta[j]
      BY <1>4, <2>6, <3>1
    <3> QED BY <2>2, <3>1, <3>2
  <2>7. CASE over(s) /\ ~ over(t)
    BY <2>1, <2>6, <2>7
  <2>8. CASE ~ over(s) /\ over(t)
    BY <2>1, <2>6, <2>8
  <2> QED BY <2>4, <2>5, <2>7, <2>8
<1>8. ASSUME NEW t \in Slot
      PROVE  \/ Over(Slot, score[t]) \subseteq Named(n, R)
             \/ Cardinality(Over(Named(n, R), score[t])) >= Kept
  <2> DEFINE x == score[t]
             lost(s) == (s \in SlotsOf(b) /\ bs + Half <= s) \/ over(s)
  <2>1. x \in Int /\ R \subseteq Slot
    BY <1>1
  <2>2. \A s \in Slot : score[meta[s]] \in Int
    BY <1>1
  <2> HIDE DEF x
  <2>3. CASE \E s \in S : over(s) /\ score[meta[s]] >= x
    <3>1. PICK s \in S : over(s) /\ score[meta[s]] >= x
      BY <2>3
    <3>2. ASSUME NEW i \in ds .. ds + Half - 1 PROVE i \in R /\ score[n[i]] >= x
      <4>1. i \in Slot /\ s \in Slot /\ ~ over(i)
        BY <1>1, <1>2, <3>1
      <4>2. i \in SlotsOf(d) /\ s \in SlotsOf(d) /\ i < s /\ i \notin SlotsOf(b)
        <5>1. /\ i \in SlotsOf(b) <=> bs <= i /\ i < bs + Elems
              /\ i \in SlotsOf(d) <=> ds <= i /\ i < ds + Elems
              /\ s \in SlotsOf(d)
          BY <1>3, <1>6, <3>1, <4>1
        <5>2. i \in Int /\ s \in Int /\ ds <= i /\ i <= ds + Half - 1 /\ ds + Half <= s
          BY <1>1, <3>1, <4>1
        <5> QED BY <1>1, <1>2, <5>1, <5>2
      <4>3. score[meta[i]] >= score[meta[s]]
        BY <4>2 DEF BlockSorted
      <4>4. score[meta[i]] \in Int /\ score[meta[s]] \in Int
        BY <2>2, <4>1
      <4> QED BY <1>4, <2>1, <3>1, <4>1, <4>2, <4>3, <4>4
    <3>3. Cardinality(Over(Named(n, R), x)) >= Kept
      BY <1>2, <1>5, <1>7, <2>1, <3>2, Enough
    <3> QED BY <3>3 DEF x
  <2>4. CASE \E s \in SlotsOf(b) : bs + Half <= s /\ score[meta[s]] >= x
    <3>1. PICK s \in SlotsOf(b) : bs + Half <= s /\ score[meta[s]] >= x
      BY <2>4
    <3>2. ASSUME NEW i \in ds + Half .. ds + Half + Half - 1
          PROVE  i \in R /\ score[n[i]] >= x
      <4> DEFINE j == i - ds - Half + bs
      <4>0. s \in Slot /\ s \in Int /\ s < Size /\ bs + Half <= s /\ i \in Int
            /\ ds + Half <= i /\ i <= ds + Half + Half - 1
        BY <1>1, <3>1 DEF SlotsOf
      <4>1. i \in Slot /\ j \in Slot /\ j < s /\ over(i)
        BY <1>1, <1>2, <4>0
      <4>2. i \in SlotsOf(d) /\ i \notin SlotsOf(b) /\ j \in SlotsOf(b)
        <5>1. i \in SlotsOf(b) <=> bs <= i /\ i < bs + Elems
          BY <1>3, <4>1
        <5>2. i \in SlotsOf(d) /\ j \in SlotsOf(b)
          BY <1>6, <4>1
        <5> QED BY <1>1, <1>2, <4>0, <5>1, <5>2
      <4>3. n[i] = meta[j]
        BY <1>4, <4>1
      <4> HIDE DEF j
      <4>4. score[meta[j]] >= score[meta[s]]
        BY <3>1, <4>1, <4>2 DEF BlockSorted
      <4>5. score[meta[j]] \in Int /\ score[meta[s]] \in Int
        BY <2>2, <4>0, <4>1
      <4> QED BY <2>1, <3>1, <4>2, <4>3, <4>4, <4>5
    <3>3. Cardinality(Over(Named(n, R), x)) >= Kept
      <4>1. ds + Half \in Int
        BY <1>1, <1>2
      <4> QED BY <1>5, <1>7, <2>1, <3>2, <4>1, Enough
    <3> QED BY <3>3 DEF x
  <2>5. CASE \A s \in S : lost(s) => ~ (score[meta[s]] >= x)
    <3>1. Over(Named(meta, S), x) \subseteq Named(n, R)
      <4>1. SUFFICES ASSUME NEW s \in S, score[meta[s]] >= x PROVE meta[s] \in Named(n, R)
        BY DEF Over, Named
      <4>2. s \in Slot /\ s \in Int /\ ~ lost(s)
        BY <1>1, <2>5, <4>1
      <4>3. CASE s \notin SlotsOf(b)
        <5>1. s \in R /\ n[s] = meta[s]
          BY <1>4, <4>2, <4>3
        <5> QED BY <5>1 DEF Named
      <4>4. CASE s \in SlotsOf(b)
        <5> DEFINE i == s - bs + ds + Half
        <5>1. bs <= s /\ s < bs + Half
          BY <1>1, <1>2, <1>3, <4>2, <4>4
        <5>2. i \in Slot /\ over(i) /\ i - ds - Half + bs = s
          BY <1>1, <1>2, <4>2, <5>1
        <5>3. i \in SlotsOf(d) /\ i \notin SlotsOf(b)
          <6>1. i \in SlotsOf(b) <=> bs <= i /\ i < bs + Elems
            BY <1>3, <5>2
          <6>2. i \in SlotsOf(d)
            BY <1>6, <5>2
          <6>3. i < bs
            BY <1>1, <1>2, <4>2, <5>1
          <6> QED BY <1>1, <1>2, <4>2, <6>1, <6>2, <6>3
        <5>4. i \in R /\ n[i] = meta[s]
          BY <1>4, <5>2, <5>3
        <5> QED BY <5>4 DEF Named
      <4> QED BY <4>3, <4>4
    <3>2. Over(Named(meta, S), x) \subseteq Over(Named(n, R), x)
      BY <3>1 DEF Over
    <3>3. IsFiniteSet(Over(Named(n, R), x))
      <4>1. Over(Named(n, R), x) \in SUBSET Slot
        BY <1>5, <2>1 DEF Over, Named
      <4> QED BY <1>1, <4>1, FS_Subset
    <3>4. IsFiniteSet(Over(Named(meta, S), x))
          /\ Cardinality(Over(Named(meta, S), x)) <= Cardinality(Over(Named(n, R), x))
      BY <3>2, <3>3, FS_Subset
    <3>5. /\ Cardinality(Over(Named(meta, S), x)) \in Int
          /\ Cardinality(Over(Named(n, R), x)) \in Int
      BY <3>3, <3>4, FS_CardinalityType
    <3>6. CASE Over(Slot, x) \subseteq Named(meta, S)
      <4>1. Over(Slot, x) \subseteq Over(Named(meta, S), x)
        BY <3>6 DEF Over
      <4> QED BY <3>1, <4>1 DEF x
    <3>7. CASE Cardinality(Over(Named(meta, S), x)) >= Kept
      <4>1. Kept \in Int
        BY Slots
      <4>2. Cardinality(Over(Named(n, R), x)) >= Kept
        BY <3>4, <3>5, <3>7, <4>1
      <4> QED BY <4>2 DEF x
    <3> QED BY <3>6, <3>7 DEF Good, KeepsBest, x
  <2> QED BY <2>3, <2>4, <2>5
<1> QED BY <1>7, <1>8 DEF Good, KeepsBest, n

-----------------------------------------------------------------------------
(* The steps.                                                              *)

(* While the array stays, what is said of its slots stays.                 *)
LEMMA SameArray ==
  ASSUME score' = score
  PROVE  /\ Size' = Size /\ Slot' = Slot /\ Blocks' = Blocks /\ Kept' = Kept
         /\ Identity' = Identity
         /\ \A b : SlotsOf(b)' = SlotsOf(b)
         /\ \A r : FrontSlots(r)' = FrontSlots(r)
         /\ \A b : BlockSorted(meta, b)' <=> BlockSorted(meta', b)
         /\ \A r : Good(meta, FrontSlots(r))' <=> Good(meta', FrontSlots(r))
<1>1. Size' = Size /\ Slot' = Slot
  BY DEF Size, Slot
<1>2. Blocks' = Blocks /\ Kept' = Kept /\ Identity' = Identity
  BY <1>1 DEF Blocks, Kept, Identity, Elems
<1>3. \A b : SlotsOf(b)' = SlotsOf(b)
  BY <1>1 DEF SlotsOf, Elems
<1>4. \A r : FrontSlots(r)' = FrontSlots(r)
  BY <1>1 DEF FrontSlots, Elems
<1>5. \A b : BlockSorted(meta, b)' <=> BlockSorted(meta', b)
  BY <1>3 DEF BlockSorted
<1>6. \A r : Good(meta, FrontSlots(r))' <=> Good(meta', FrontSlots(r))
  BY <1>1, <1>2, <1>4 DEF Good, Distinct, KeepsBest, Named, Over
<1> QED BY <1>1, <1>2, <1>3, <1>4, <1>5, <1>6

(* The thread blocks and the owners of sort blocks.                        *)
LEMMA Owners ==
  ASSUME score \in Inputs
  PROVE  /\ 0 \in Cta /\ Cta \subseteq Nat
         /\ \A b \in Nat : Owner(b) \in Cta /\ Owner(b) <= b
         /\ \A u \in Cta : Owner(u) = u
         /\ \A b \in Nat : Owner(b + NumCtas) = Owner(b)
         /\ \A b, c \in Nat : Owner(b) = Owner(c) /\ b < c => b + NumCtas <= c
<1>1. NumCtas \in Nat \ {0}
  BY Slots
<1>2. 0 \in Cta /\ Cta \subseteq Nat /\ \A u \in Cta : u < NumCtas
  BY <1>1 DEF Cta
<1>3. ASSUME NEW b \in Nat PROVE Owner(b) \in Cta /\ Owner(b) <= b
  <2> DEFINE p == (b \div NumCtas) * NumCtas
  <2>1. b % NumCtas \in 0 .. NumCtas - 1 /\ b % NumCtas = b - p /\ b \div NumCtas \in Nat
    BY <1>1, Division
  <2>2. p \in Nat
    BY <1>1, <2>1
  <2> HIDE DEF p
  <2> QED BY <2>1, <2>2 DEF Owner, Cta
<1> QED BY <1>1, <1>2, <1>3, Stride DEF Owner

(* A slot lies in one sort block, and the slots at the front in those with *)
(* the smallest numbers.                                                   *)
LEMMA BlocksApart ==
  /\ \A b, c : b # c => SlotsOf(b) \cap SlotsOf(c) = {}
  /\ \A r \in Nat : \A b \in 0 .. r - 1 : SlotsOf(b) \subseteq FrontSlots(r)
  /\ \A b : SlotsOf(b) \subseteq Slot
BY DEF SlotsOf, FrontSlots

(* A thread block loads a sort block of its own.                           *)
LEMMA LoadStep ==
  ASSUME Types, NEW r \in Nat, Sorting(r), NEW u \in Cta, LoadBlock(u)
  PROVE  Types' /\ Sorting(r)'
<1>1. /\ score' = score /\ meta' = meta /\ cand' = cand /\ topk' = topk
      /\ rem' = rem /\ blk' = blk /\ pc[u] = "sort" /\ blk[u] < r
      /\ pc' = [pc EXCEPT ![u] = "store"]
      /\ reg' = [reg EXCEPT ![u] = reg'[u]] /\ reg'[u] \in SortedBlock(SlotsOf(blk[u]))
  BY DEF LoadBlock, Types, Sorting, Round
<1>2. Types'
  BY <1>1, SameArray DEF Types, Places
<1>3. \A v \in Cta : /\ v # u => pc'[v] = pc[v] /\ reg'[v] = reg[v]
                     /\ pc'[u] = "store"
  BY <1>1 DEF Types
<1>4. Round(r)'
  BY <1>1, <1>3, SameArray DEF Sorting, Round
<1>5. \A v \in Cta : pc'[v] \in SortPlaces(r)
  BY <1>3 DEF Sorting, SortPlaces
<1>6. Holding(r)'
  <2>1. \A S : SortedBlock(S)' = SortedBlock(S)
    BY <1>1 DEF SortedBlock
  <2>2. ASSUME NEW v \in Cta, pc'[v] = "store"
        PROVE  blk[v] < r /\ reg'[v] \in SortedBlock(SlotsOf(blk[v]))
    BY <1>1, <1>3, <2>2 DEF Sorting, Holding
  <2> QED BY <1>1, <2>1, <2>2, SameArray DEF Holding
<1>7. \A b \in 0 .. r - 1 : Through(b)' => BlockSorted(meta, b)'
  <2>1. ASSUME NEW b \in 0 .. r - 1, Through(b)' PROVE Through(b)
    BY <1>1, <1>3, <2>1, Owners DEF Through, Owner, Types
  <2> QED BY <1>1, <2>1, SameArray DEF Sorting
<1>8. Good(meta, FrontSlots(r))'
  BY <1>1, SameArray DEF Sorting
<1>9. Moving'
  <2>1. \A v \in Cta : pc'[v] = "front" => pc[v] = "front"
    BY <1>3
  <2>2. pc'[0] = "roundSync" <=> pc[0] = "roundSync"
    BY <1>1, <1>3, Owners DEF Types
  <2> QED BY <1>1, <2>1, <2>2, SameArray DEF Sorting, Moving
<1> QED BY <1>2, <1>4, <1>5, <1>6, <1>7, <1>8, <1>9 DEF Sorting, SortPlaces

(* A thread block stores the sort block it has sorted, and nobody else     *)
(* held that one.                                                          *)
LEMMA StoreStep ==
  ASSUME Types, NEW r \in Nat, Sorting(r), NEW u \in Cta, StoreBlock(u)
  PROVE  Types' /\ Sorting(r)'
<1> DEFINE b == blk[u]
           B == SlotsOf(b)
           f == reg[u]
<1>1. /\ score' = score /\ cand' = cand /\ topk' = topk /\ rem' = rem
      /\ pc[u] = "store" /\ pc' = [pc EXCEPT ![u] = "sort"]
      /\ blk' = [blk EXCEPT ![u] = b + NumCtas]
      /\ reg' = [reg EXCEPT ![u] = << >>]
      /\ meta' = [s \in Slot |-> IF s \in DOMAIN f THEN f[s] ELSE meta[s]]
  BY DEF StoreBlock
<1>2. /\ score \in Inputs /\ Size > 1 /\ meta \in [Slot -> Slot]
      /\ b \in Nat /\ b < r /\ Owner(b) = u /\ f \in SortedBlock(B)
      /\ r \in 1 .. Blocks /\ Good(meta, FrontSlots(r))
  BY <1>1 DEF Types, Sorting, Round, Holding
<1>3. b \in 0 .. Blocks - 1 /\ NumCtas \in Nat
  BY <1>2, BlockCount, Slots
<1>4. B \subseteq FrontSlots(r) /\ B \subseteq Slot
  BY <1>2, BlocksApart
<1>5. Distinct(meta, B)
  BY <1>2, <1>4 DEF Good, Distinct
<1>6. /\ DOMAIN f = B /\ \A s \in B : f[s] \in Slot
      /\ Named(f, B) = Named(meta, B) /\ BlockSorted(f, b) /\ Distinct(f, B)
  BY <1>2, <1>3, <1>5, BlockPermuted
<1>7. /\ \A s \in B : meta'[s] = f[s]
      /\ \A s \in Slot \ B : meta'[s] = meta[s]
      /\ meta' \in [Slot -> Slot]
  BY <1>1, <1>2, <1>4, <1>6
<1>8. \A v \in Cta : /\ v # u => pc'[v] = pc[v] /\ reg'[v] = reg[v] /\ blk'[v] = blk[v]
                     /\ pc'[u] = "sort" /\ blk'[u] = b + NumCtas
  BY <1>1 DEF Types
<1>9. Types'
  <2>1. b + NumCtas \in Nat
    BY <1>2, <1>3
  <2> QED BY <1>1, <1>7, <2>1, SameArray DEF Types, Places
<1> HIDE DEF f, B, b
<1>10. Round(r)'
  <2>1. Owner(b + NumCtas) = u
    BY <1>2, Owners
  <2>2. \A v \in Cta : pc'[v] \in {"sort", "store", "copy"} => Owner(blk'[v]) = v
    BY <1>8, <2>1 DEF Sorting, Round
  <2> QED BY <1>1, <2>2, SameArray DEF Sorting, Round, Owner
<1>11. \A v \in Cta : pc'[v] \in SortPlaces(r)
  BY <1>8 DEF Sorting, SortPlaces
<1>12. Holding(r)'
  <2>1. SUFFICES ASSUME NEW v \in Cta, pc'[v] = "store"
                 PROVE  blk'[v] < r /\ reg'[v] \in SortedBlock(SlotsOf(blk[v]))'
    BY DEF Holding
  <2>2. v # u /\ pc[v] = "store" /\ blk'[v] = blk[v] /\ reg'[v] = reg[v]
    BY <1>8, <2>1
  <2>3. blk[v] < r /\ reg[v] \in SortedBlock(SlotsOf(blk[v])) /\ Owner(blk[v]) = v
    BY <2>2 DEF Sorting, Holding, Round
  <2> DEFINE V == SlotsOf(blk[v])
  <2>4. V \cap B = {} /\ V \subseteq Slot
    BY <1>2, <2>2, <2>3, BlocksApart DEF B
  <2>5. SlotsOf(blk[v])' = V
    BY <1>1, <2>2, SameArray DEF SlotsOf, Elems
  <2> HIDE DEF V
  <2>6. {meta'[s] : s \in V} = {meta[s] : s \in V}
    BY <1>7, <2>4
  <2>7. SortedBlock(SlotsOf(blk[v]))' = SortedBlock(V)
    BY <1>1, <2>6, <2>5 DEF SortedBlock
  <2> QED BY <2>2, <2>3, <2>7 DEF V
<1>13. \A c \in 0 .. r - 1 : Through(c)' => BlockSorted(meta, c)'
  <2>1. SUFFICES ASSUME NEW c \in 0 .. r - 1, Through(c)' PROVE BlockSorted(meta', c)
    BY <1>1, SameArray
  <2>2. CASE c = b
    BY <1>6, <1>7, <2>2 DEF BlockSorted, B
  <2>3. CASE c # b
    <3>1. Owner(c) \in Cta /\ c \in Nat
      BY <1>2, Owners
    <3>2. Through(c)
      <4>1. CASE Owner(c) = u
        <5>1. c < b + NumCtas
          BY <1>8, <2>1, <4>1 DEF Through, Owner
        <5>2. ~ (b < c)
          BY <1>2, <1>3, <3>1, <4>1, <5>1, Owners
        <5>3. c < b
          BY <1>2, <2>3, <3>1, <5>2
        <5> QED BY <4>1, <5>3 DEF Through, b
      <4>2. CASE Owner(c) # u
        BY <1>8, <2>1, <3>1, <4>2 DEF Through, Owner
      <4> QED BY <4>1, <4>2
    <3>3. BlockSorted(meta, c)
      BY <3>2 DEF Sorting
    <3>4. \A s \in SlotsOf(c) : meta'[s] = meta[s]
      BY <1>7, <2>3, BlocksApart DEF B
    <3> QED BY <3>3, <3>4 DEF BlockSorted
  <2> QED BY <2>2, <2>3
<1>14. Good(meta, FrontSlots(r))'
  <2>1. Named(meta', B) = Named(f, B) /\ Distinct(meta', B)
    BY <1>6, <1>7 DEF Named, Distinct
  <2>2. \A s \in FrontSlots(r) \ B : meta'[s] = meta[s]
    BY <1>7 DEF FrontSlots
  <2>3. Good(meta', FrontSlots(r))
    BY <1>2, <1>4, <1>6, <2>1, <2>2, StoreKeeps
  <2> QED BY <1>1, <2>3, SameArray
<1>15. Moving'
  <2>1. pc[0] \notin {"front", "roundSync"}
    <3>1. SUFFICES ASSUME pc[0] \in {"front", "roundSync"} PROVE FALSE
      OBVIOUS
    <3>2. r = 1
      BY <1>2, <3>1, Owners, BlockCount DEF Sorting, SortPlaces
    <3>3. b = 0 /\ Owner(0) = 0
      BY <1>2, <3>2, Owners
    <3> QED BY <1>1, <1>2, <3>1, <3>3
  <2>2. \A v \in Cta : pc'[v] # "front"
    BY <1>8, <2>1 DEF Sorting, Moving
  <2>3. pc'[0] # "roundSync"
    BY <1>2, <1>8, <2>1, Owners
  <2>4. cand' = Identity'
    BY <1>1, <2>1, SameArray DEF Sorting, Moving
  <2> QED BY <2>2, <2>3, <2>4 DEF Moving
<1> QED BY <1>9, <1>10, <1>11, <1>12, <1>13, <1>14, <1>15 DEF Sorting, SortPlaces

(* A thread block that has sorted its sort blocks goes to the barrier, or  *)
(* in the last round to the collection of the winners.                     *)
LEMMA SortDoneStep ==
  ASSUME Types, NEW r \in Nat, Sorting(r), NEW u \in Cta, SortDone(u)
  PROVE  Types' /\ Sorting(r)'
<1> DEFINE to == IF rem[u] > 1 THEN "sortSync" ELSE "collect"
<1>1. /\ score' = score /\ meta' = meta /\ cand' = cand /\ topk' = topk
      /\ rem' = rem /\ reg' = reg /\ pc[u] = "sort" /\ blk[u] >= rem[u]
      /\ pc' = [pc EXCEPT ![u] = to] /\ blk' = [blk EXCEPT ![u] = u]
  BY DEF SortDone
<1>2. /\ score \in Inputs /\ Size > 1 /\ r \in 1 .. Blocks /\ rem[u] = r
      /\ blk[u] \in Nat /\ to \in SortPlaces(r) /\ to \in {"sortSync", "collect"}
  BY DEF Types, Sorting, Round, SortPlaces
<1> HIDE DEF to
<1>3. \A v \in Cta : /\ v # u => pc'[v] = pc[v] /\ blk'[v] = blk[v]
                     /\ pc'[u] = to /\ blk'[u] = u
  BY <1>1 DEF Types
<1>4. Types'
  BY <1>1, <1>2, SameArray, Owners DEF Types, Places
<1>5. Round(r)'
  <2>1. \A v \in Cta : pc'[v] \in {"sort", "store", "copy"} => Owner(blk'[v]) = v
    BY <1>2, <1>3 DEF Sorting, Round
  <2> QED BY <1>1, <2>1, SameArray DEF Sorting, Round, Owner
<1>6. \A v \in Cta : pc'[v] \in SortPlaces(r)
  BY <1>2, <1>3 DEF Sorting
<1>7. Holding(r)'
  <2>1. \A S : SortedBlock(S)' = SortedBlock(S)
    BY <1>1 DEF SortedBlock
  <2>2. ASSUME NEW v \in Cta, pc'[v] = "store"
        PROVE  blk'[v] < r /\ reg[v] \in SortedBlock(SlotsOf(blk'[v]))
    <3>1. v # u /\ pc[v] = "store" /\ blk'[v] = blk[v]
      BY <1>2, <1>3, <2>2
    <3> QED BY <3>1 DEF Sorting, Holding
  <2>3. \A v \in Cta : SlotsOf(blk[v])' = SlotsOf(blk'[v])
    BY <1>1, SameArray DEF SlotsOf, Elems
  <2> QED BY <1>1, <2>1, <2>2, <2>3 DEF Holding
<1>8. \A c \in 0 .. r - 1 : Through(c)' => BlockSorted(meta, c)'
  <2>1. ASSUME NEW c \in 0 .. r - 1, Through(c)' PROVE Through(c)
    <3>1. Owner(c) \in Cta /\ c \in Nat
      BY <1>2, Owners
    <3>2. CASE Owner(c) = u
      <4>1. c < blk[u]
        BY <1>1, <1>2, <3>1
      <4> QED BY <3>2, <4>1 DEF Through
    <3>3. CASE Owner(c) # u
      BY <1>3, <2>1, <3>1, <3>3 DEF Through, Owner
    <3> QED BY <3>2, <3>3
  <2> QED BY <1>1, <2>1, SameArray DEF Sorting
<1>9. Good(meta, FrontSlots(r))'
  BY <1>1, SameArray DEF Sorting
<1>10. Moving'
  <2>1. \A v \in Cta : pc'[v] = "front" => pc[v] = "front"
    BY <1>2, <1>3
  <2>2. pc'[0] = "roundSync" <=> pc[0] = "roundSync"
    BY <1>1, <1>2, <1>3, Owners
  <2> QED BY <1>1, <2>1, <2>2, SameArray DEF Sorting, Moving
<1> QED BY <1>4, <1>5, <1>6, <1>7, <1>8, <1>9, <1>10 DEF Sorting, SortPlaces

(* What the two steps of the last round keep, which leave the sort alone.  *)
LEMMA LastRound ==
  ASSUME Types, NEW r \in Nat, Sorting(r), NEW u \in Cta,
         pc[u] \in {"collect", "front"},
         NEW to \in {"front", "roundSync"}, pc' = [pc EXCEPT ![u] = to],
         UNCHANGED <<score, meta, rem, blk, reg>>, Moving'
  PROVE  Types' /\ Sorting(r)' /\ r = 1
<1>1. score' = score /\ meta' = meta /\ rem' = rem /\ blk' = blk /\ reg' = reg
  OBVIOUS
<1>2. r \in 1 .. Blocks /\ score \in Inputs /\ Size > 1 /\ r = 1 /\ to \in SortPlaces(r)
  <2>1. r \in 1 .. Blocks /\ score \in Inputs /\ Size > 1
    BY DEF Types, Sorting, Round
  <2>2. ~ (r > 1)
    BY DEF Sorting, SortPlaces
  <2> QED BY <2>1, <2>2, BlockCount DEF SortPlaces
<1>3. \A v \in Cta : /\ v # u => pc'[v] = pc[v]
                     /\ pc'[u] = to
  BY DEF Types
<1>4. Types'
  BY <1>1, SameArray DEF Types, Places
<1>5. Round(r)'
  <2>1. \A v \in Cta : pc'[v] \in {"sort", "store", "copy"} => Owner(blk[v]) = v
    BY <1>3 DEF Sorting, Round
  <2> QED BY <1>1, <2>1, SameArray DEF Sorting, Round, Owner
<1>6. \A v \in Cta : pc'[v] \in SortPlaces(r)
  BY <1>2, <1>3 DEF Sorting
<1>7. Holding(r)'
  <2>1. \A S : SortedBlock(S)' = SortedBlock(S)
    BY <1>1 DEF SortedBlock
  <2>2. ASSUME NEW v \in Cta, pc'[v] = "store"
        PROVE  blk[v] < r /\ reg[v] \in SortedBlock(SlotsOf(blk[v]))
    BY <1>3, <2>2 DEF Sorting, Holding
  <2> QED BY <1>1, <2>1, <2>2, SameArray DEF Holding
<1>8. \A c \in 0 .. r - 1 : Through(c)' => BlockSorted(meta, c)'
  <2>1. ASSUME NEW c \in 0 .. r - 1, Through(c)' PROVE Through(c)
    BY <1>1, <1>2, <1>3, <2>1, Owners DEF Through, Owner
  <2> QED BY <1>1, <2>1, SameArray DEF Sorting
<1>9. Good(meta, FrontSlots(r))'
  BY <1>1, SameArray DEF Sorting
<1> QED BY <1>2, <1>4, <1>5, <1>6, <1>7, <1>8, <1>9 DEF Sorting, SortPlaces

(* Thread block 0 collects the winners.                                    *)
LEMMA CollectStep ==
  ASSUME Types, NEW r \in Nat, Sorting(r), NEW u \in Cta, Collect(u)
  PROVE  Types' /\ Sorting(r)'
<1>1. /\ score' = score /\ meta' = meta /\ cand' = cand
      /\ UNCHANGED <<score, meta, rem, blk, reg>> /\ pc[u] = "collect"
  BY DEF Collect
<1>2. /\ 0 \in Cta /\ Kept \in Nat /\ Kept <= Size /\ Slot = 0 .. Size - 1 /\ Size \in Nat
      /\ meta \in [Slot -> Slot] /\ pc \in [Cta -> Places]
  <2>1. score \in Inputs /\ meta \in [Slot -> Slot] /\ pc \in [Cta -> Places]
    BY DEF Types
  <2>2. 0 \in Cta
    BY <2>1, Owners
  <2>3. Kept \in Nat /\ Kept <= Size /\ Slot = 0 .. Size - 1 /\ Size \in Nat
    BY <2>1, Slots
  <2> QED BY <2>1, <2>2, <2>3
<1>3. CASE u = 0
  <2>1. topk' = [i \in 0 .. Kept - 1 |-> cand[meta[i]]] /\ pc' = [pc EXCEPT ![u] = "front"]
    BY <1>3 DEF Collect
  <2>2. cand = Identity
    BY <1>1, <1>3 DEF Sorting, Moving
  <2>3. \A i \in 0 .. Kept - 1 : cand[meta[i]] = meta[i]
    BY <1>2, <2>2 DEF Identity
  <2>4. topk' = [i \in 0 .. Kept - 1 |-> meta[i]]
    BY <2>1, <2>3
  <2>5. pc'[0] = "front" /\ \A v \in Cta : pc'[v] = "front" => v = 0
    BY <1>2, <1>3, <2>1 DEF Sorting, Moving
  <2>6. Moving'
    BY <1>1, <2>2, <2>4, <2>5, SameArray DEF Moving
  <2> QED BY <1>1, <2>1, <2>6, LastRound
<1>4. CASE u # 0
  <2>1. topk' = topk /\ pc' = [pc EXCEPT ![u] = "roundSync"]
    BY <1>4 DEF Collect
  <2>2. pc'[0] = pc[0] /\ \A v \in Cta : pc'[v] = "front" => pc[v] = "front"
    BY <1>2, <1>4, <2>1
  <2>3. Moving'
    BY <1>1, <2>1, <2>2, SameArray DEF Sorting, Moving
  <2> QED BY <1>1, <2>1, <2>3, LastRound
<1> QED BY <1>3, <1>4

(* ... and moves them to the front of cand_.                               *)
LEMMA FrontStep ==
  ASSUME Types, NEW r \in Nat, Sorting(r), NEW u \in Cta, Front(u)
  PROVE  Types' /\ Sorting(r)'
<1>1. /\ score' = score /\ meta' = meta /\ topk' = topk
      /\ UNCHANGED <<score, meta, rem, blk, reg>> /\ pc[u] = "front"
      /\ cand' = [s \in Slot |-> IF s < Kept THEN topk[s] ELSE cand[s]]
      /\ pc' = [pc EXCEPT ![u] = "roundSync"]
  BY DEF Front
<1>2. /\ Kept \in Nat /\ Kept <= Size /\ Slot = 0 .. Size - 1 /\ Size \in Nat
      /\ pc \in [Cta -> Places]
  BY Slots DEF Types
<1>3. u = 0 /\ topk = [i \in 0 .. Kept - 1 |-> meta[i]]
  BY <1>1 DEF Sorting, Moving
<1>4. \A s \in 0 .. Kept - 1 : cand'[s] = meta[s]
  BY <1>1, <1>2, <1>3
<1>5. pc'[0] = "roundSync" /\ \A v \in Cta : pc'[v] # "front"
  BY <1>1, <1>2, <1>3 DEF Sorting, Moving
<1>6. Moving'
  BY <1>1, <1>4, <1>5, SameArray DEF Moving
<1> QED BY <1>1, <1>6, LastRound

(* A thread block copies a sort block, if it lies behind its goal.         *)
LEMMA CopyStep ==
  ASSUME Types, NEW r \in Nat, Copying(r), NEW u \in Cta, CopyBlock(u)
  PROVE  Types' /\ Copying(r)'
<1> DEFINE b == blk[u]
           d == r - 1 - b
<1>1. /\ score' = score /\ cand' = cand /\ topk' = topk /\ rem' = rem
      /\ reg' = reg /\ pc' = pc /\ pc[u] = "copy" /\ b < r
      /\ blk' = [blk EXCEPT ![u] = b + NumCtas]
      /\ meta' = IF d < b THEN Moved(b, d) ELSE meta
  BY DEF CopyBlock, Copying, Round
<1>2. /\ score \in Inputs /\ Size > 1 /\ meta \in [Slot -> Slot]
      /\ b \in Nat /\ Owner(b) = u /\ r \in 1 .. Blocks
  <2>1. score \in Inputs /\ Size > 1 /\ meta \in [Slot -> Slot] /\ b \in Nat
    BY DEF Types, Copying, Round
  <2>2. Owner(b) = u /\ r \in 1 .. Blocks
    BY <1>1 DEF Copying, Round
  <2> QED BY <2>1, <2>2
<1>3. /\ b \in 0 .. Blocks - 1 /\ d \in 0 .. Blocks - 1 /\ d \in Nat
      /\ NumCtas \in Nat \ {0} /\ r \in Nat
  <2>1. Blocks \in Nat /\ NumCtas \in Nat \ {0}
    BY <1>2, BlockCount, Slots
  <2> HIDE DEF b
  <2> QED BY <1>1, <1>2, <2>1
<1>4. \A v \in Cta : /\ v # u => blk'[v] = blk[v]
                     /\ blk'[u] = b + NumCtas
  BY <1>1 DEF Types
<1>5. meta' \in [Slot -> Slot]
  BY <1>1, <1>2 DEF Moved
<1>6. Types'
  <2>1. b + NumCtas \in Nat
    BY <1>2, <1>3
  <2> QED BY <1>1, <1>5, <2>1, SameArray DEF Types, Places
<1>7. r - 1 - b = d /\ r - 1 - d = b
  BY <1>2, <1>3
<1> HIDE DEF b, d
<1>8. Round(r)'
  <2>1. Owner(b + NumCtas) = u
    BY <1>2, Owners
  <2>2. \A v \in Cta : pc[v] \in {"sort", "store", "copy"} => Owner(blk'[v]) = v
    BY <1>4, <2>1 DEF Copying, Round
  <2> QED BY <1>1, <2>2, SameArray DEF Copying, Round, Owner
<1>9. ASSUME NEW c \in 0 .. r - 1
      PROVE  Gone(r, c)' <=> Gone(r, c) \/ (d < b /\ c = b)
  <2>1. c \in Nat /\ Owner(c) \in Cta
    BY <1>3, <1>2, Owners
  <2>2. CASE Owner(c) # u
    BY <1>1, <1>2, <1>4, <2>1, <2>2 DEF Gone, Owner
  <2>3. CASE Owner(c) = u
    <3>1. blk'[Owner(c)] = b + NumCtas /\ blk[Owner(c)] = b
      BY <1>4, <2>3 DEF b
    <3>2. c < b + NumCtas <=> c < b \/ c = b
      <4>1. b < c => b + NumCtas <= c
        BY <1>2, <2>1, <2>3, Owners
      <4> QED BY <1>2, <1>3, <2>1, <4>1
    <3>3. c = b => (r - 1 - c < c <=> d < b)
      BY <1>7
    <3> QED BY <1>1, <2>3, <3>1, <3>2, <3>3 DEF Gone, Owner
  <2> QED BY <2>2, <2>3
<1>10. ASSUME NEW s \in Slot, s \div Elems # d \/ ~ (d < b) PROVE meta'[s] = meta[s]
  BY <1>1, <1>10 DEF Moved
<1>11. ASSUME NEW c \in 0 .. r - 1, ~ Gone(r, c)', ~ Gone(r, r - 1 - c)'
       PROVE  BlockSorted(meta, c)'
  <2>1. r - 1 - c \in 0 .. r - 1
    BY <1>3
  <2>2. BlockSorted(meta, c)
    BY <1>9, <1>11, <2>1 DEF Copying
  <2>3. d < b => c # d
    <3>1. c = d => r - 1 - c = b
      BY <1>7
    <3> QED BY <1>9, <1>11, <2>1, <3>1
  <2>4. \A s \in SlotsOf(c) : meta'[s] = meta[s]
    BY <1>10, <2>3 DEF SlotsOf
  <2>5. BlockSorted(meta', c)
    BY <2>2, <2>4 DEF BlockSorted
  <2> QED BY <1>1, <2>5, SameArray
<1>12. Slot' = Slot /\ \A s \in Slot : s \div Elems \in Nat
  BY <1>1, <1>2, SameArray, BlockCount
<1>13. Live(r)' = {s \in Live(r) : ~ (d < b /\ s \div Elems = b)}
  <2>1. ASSUME NEW s \in Slot, s \div Elems < r PROVE s \div Elems \in 0 .. r - 1
    BY <1>3, <1>12, <2>1
  <2>2. Live(r)' = {s \in Slot : s \div Elems < r /\ ~ Gone(r, s \div Elems)'}
    BY <1>12 DEF Live, Elems, Gone, Owner
  <2>3. \A s \in Slot : s \div Elems < r =>
          (Gone(r, s \div Elems)' <=> Gone(r, s \div Elems) \/ (d < b /\ s \div Elems = b))
    BY <1>9, <2>1
  <2> QED BY <2>2, <2>3 DEF Live
<1>14. Good(meta, Live(r))' <=> Good(meta', Live(r)')
  BY <1>1, SameArray DEF Good, Distinct, KeepsBest, Named, Over
<1>15. Good(meta', Live(r)')
  <2>1. CASE d < b
    <3>1. ~ Gone(r, b) /\ ~ Gone(r, d)
      BY <1>1, <1>2, <1>3, <1>7, <2>1 DEF Gone, b
    <3>2. b \in 0 .. r - 1 /\ d \in 0 .. r - 1
      BY <1>1, <1>2, <1>3, <1>7
    <3>3. BlockSorted(meta, b) /\ BlockSorted(meta, d)
      BY <1>7, <3>1, <3>2 DEF Copying
    <3>4. SlotsOf(b) \subseteq Live(r) /\ SlotsOf(d) \subseteq Live(r) /\ Live(r) \in SUBSET Slot
      BY <3>1, <3>2 DEF SlotsOf, Live
    <3>5. Good(meta, Live(r))
      BY DEF Copying
    <3>6. Good(Moved(b, d), Live(r) \ SlotsOf(b))
      BY <1>2, <1>3, <2>1, <3>3, <3>4, <3>5, CopyKeeps
    <3>7. Live(r)' = Live(r) \ SlotsOf(b)
      BY <1>13, <2>1, <3>4 DEF SlotsOf
    <3> QED BY <1>1, <2>1, <3>6, <3>7
  <2>2. CASE ~ (d < b)
    BY <1>1, <1>13, <2>2 DEF Copying
  <2> QED BY <2>1, <2>2
<1>16. /\ r > 1 /\ (\A v \in Cta : pc'[v] \in {"copy", "roundSync"})
       /\ cand' = Identity'
  BY <1>1, SameArray DEF Copying
<1> QED BY <1>6, <1>8, <1>11, <1>14, <1>15, <1>16 DEF Copying

(* A thread block has copied its sort blocks.                              *)
LEMMA CopyDoneStep ==
  ASSUME Types, NEW r \in Nat, Copying(r), NEW u \in Cta, CopyDone(u)
  PROVE  Types' /\ Copying(r)'
<1>1. /\ score' = score /\ meta' = meta /\ cand' = cand /\ rem' = rem /\ blk' = blk
      /\ reg' = reg /\ pc[u] = "copy" /\ blk[u] >= r
      /\ pc' = [pc EXCEPT ![u] = "roundSync"]
  BY DEF CopyDone, Copying, Round
<1>2. score \in Inputs /\ Size > 1 /\ r \in 1 .. Blocks /\ blk[u] \in Nat
  BY DEF Types, Copying, Round
<1>3. \A v \in Cta : /\ v # u => pc'[v] = pc[v]
                     /\ pc'[u] = "roundSync"
  BY <1>1 DEF Types
<1>4. Types'
  BY <1>1, SameArray DEF Types, Places
<1>5. Round(r)'
  <2>1. \A v \in Cta : pc'[v] \in {"sort", "store", "copy"} => Owner(blk[v]) = v
    BY <1>3 DEF Copying, Round
  <2> QED BY <1>1, <2>1, SameArray DEF Copying, Round, Owner
<1>6. ASSUME NEW c \in 0 .. r - 1 PROVE Gone(r, c)' <=> Gone(r, c)
  <2>1. Owner(c) \in Cta /\ c \in Nat
    BY <1>2, Owners
  <2>2. CASE Owner(c) = u
    <3>1. c < blk[u]
      BY <1>1, <1>2, <2>1
    <3> QED BY <1>1, <1>3, <2>2, <3>1 DEF Gone, Owner
  <2>3. CASE Owner(c) # u
    BY <1>1, <1>3, <2>1, <2>3 DEF Gone, Owner
  <2> QED BY <2>2, <2>3
<1>7. ASSUME NEW c \in 0 .. r - 1, ~ Gone(r, c)', ~ Gone(r, r - 1 - c)'
      PROVE  BlockSorted(meta, c)'
  <2>1. r - 1 - c \in 0 .. r - 1
    BY <1>2
  <2> QED BY <1>1, <1>6, <1>7, <2>1, SameArray DEF Copying
<1>8. Slot' = Slot /\ \A s \in Slot : s \div Elems \in Nat
  BY <1>1, <1>2, SameArray, BlockCount
<1>9. Live(r)' = Live(r)
  <2>1. ASSUME NEW s \in Slot, s \div Elems < r PROVE s \div Elems \in 0 .. r - 1
    BY <1>2, <1>8, <2>1
  <2>2. Live(r)' = {s \in Slot : s \div Elems < r /\ ~ Gone(r, s \div Elems)'}
    BY <1>8 DEF Live, Elems, Gone, Owner
  <2>3. \A s \in Slot : s \div Elems < r => (Gone(r, s \div Elems)' <=> Gone(r, s \div Elems))
    BY <1>6, <2>1
  <2> QED BY <2>2, <2>3 DEF Live
<1>10. Good(meta, Live(r))'
  BY <1>1, <1>9, SameArray DEF Copying, Good, Distinct, KeepsBest, Named, Over
<1>11. /\ r > 1 /\ (\A v \in Cta : pc'[v] \in {"copy", "roundSync"})
       /\ cand' = Identity'
  BY <1>1, <1>3, SameArray DEF Copying
<1> QED BY <1>4, <1>5, <1>7, <1>10, <1>11 DEF Copying

(* Every thread block has sorted: the copying begins, with no sort block   *)
(* copied yet and every one in order.                                      *)
LEMMA ToCopying ==
  ASSUME Types, NEW r \in Nat, Sorting(r), r > 1, Release
  PROVE  Types' /\ Copying(r)'
<1>1. \A u \in Cta : pc[u] = "sortSync"
  BY DEF Sorting, SortPlaces, Release, Waiting
<1>2. /\ score' = score /\ meta' = meta /\ cand' = cand /\ reg' = reg
      /\ pc' = [u \in Cta |-> "copy"] /\ rem' = [u \in Cta |-> rem[u]]
      /\ blk' = [u \in Cta |-> u]
  BY <1>1 DEF Release, Passed, Onward
<1>3. score \in Inputs /\ Size > 1 /\ r \in 1 .. Blocks
  BY DEF Types, Sorting, Round
<1>4. Types'
  BY <1>2, <1>3, SameArray, Owners DEF Types, Places
<1>5. Round(r)'
  <2>1. \A u \in Cta : Owner(blk'[u]) = u
    BY <1>2, <1>3, Owners
  <2>2. \A u \in Cta : rem'[u] = r
    BY <1>2 DEF Sorting, Round
  <2> QED BY <1>2, <1>3, <2>1, <2>2, SameArray DEF Round, Owner
<1>6. \A c \in Nat : ~ Gone(r, c)'
  <2>1. SUFFICES ASSUME NEW c \in Nat PROVE ~ Gone(r, c)'
    OBVIOUS
  <2>2. Owner(c) \in Cta /\ Owner(c) <= c /\ Owner(c) \in Nat
    BY <1>3, Owners
  <2>3. pc'[Owner(c)] = "copy" /\ blk'[Owner(c)] = Owner(c)
    BY <1>2, <2>2
  <2> QED BY <2>2, <2>3 DEF Gone, Owner
<1>7. \A c \in 0 .. r - 1 : BlockSorted(meta, c)'
  <2>1. ASSUME NEW c \in 0 .. r - 1 PROVE Through(c)
    BY <1>1, <1>3, Owners DEF Through
  <2> QED BY <1>2, <2>1, SameArray DEF Sorting
<1>8. Live(r)' = FrontSlots(r)
  <2>1. Slot' = Slot /\ \A s \in Slot : s \div Elems \in Nat
    BY <1>2, <1>3, SameArray, BlockCount
  <2>2. \A s \in Slot : ~ Gone(r, s \div Elems)'
    BY <1>6, <2>1
  <2>3. Live(r)' = {s \in Slot : s \div Elems < r /\ ~ Gone(r, s \div Elems)'}
    BY <2>1 DEF Live, Elems, Gone, Owner
  <2> QED BY <2>2, <2>3 DEF FrontSlots
<1>9. Good(meta, Live(r))'
  <2>1. Good(meta, FrontSlots(r))
    BY DEF Sorting
  <2> QED BY <1>2, <1>8, <2>1, SameArray DEF Good, Distinct, KeepsBest, Named, Over
<1>10. /\ r > 1 /\ (\A v \in Cta : pc'[v] \in {"copy", "roundSync"})
       /\ cand' = Identity'
  <2>1. cand = Identity
    BY <1>1, <1>3, Owners DEF Sorting, Moving
  <2> QED BY <1>2, <2>1, SameArray
<1> QED BY <1>4, <1>5, <1>7, <1>9, <1>10 DEF Copying

(* Every thread block has copied: half of the sort blocks are left, and    *)
(* they are those that have not been copied.                               *)
LEMMA ToSorting ==
  ASSUME Types, NEW r \in Nat, Copying(r), Release
  PROVE  Types' /\ \E h \in Nat : Sorting(h)'
<1> DEFINE h == Halved(r)
<1>1. \A u \in Cta : pc[u] = "roundSync"
  BY DEF Copying, Release, Waiting
<1>2. score \in Inputs /\ Size > 1 /\ r \in 1 .. Blocks /\ r > 1
  BY DEF Types, Copying, Round
<1>3. h \in Nat /\ h >= 1 /\ h <= r /\ \A q \in Nat : q < h <=> q < r /\ ~ (r - 1 - q < q)
  BY <1>2, BlockCount DEF Halved
<1>4. \A u \in Cta : rem[u] = r
  BY DEF Copying, Round
<1> HIDE DEF h
<1>5. /\ score' = score /\ meta' = meta /\ cand' = cand /\ reg' = reg
      /\ pc' = [u \in Cta |-> "sort"] /\ rem' = [u \in Cta |-> h]
      /\ blk' = [u \in Cta |-> u]
  <2>1. h # 0
    BY <1>3
  <2>2. \A u \in Cta : Onward(u) = "sort"
    BY <1>1, <1>4, <2>1 DEF Onward, h
  <2> QED BY <1>1, <1>4, <2>2 DEF Release, Passed, h
<1>6. Types'
  BY <1>2, <1>3, <1>5, SameArray, Owners DEF Types, Places
<1>7. Round(h)'
  <2>1. \A u \in Cta : Owner(blk'[u]) = u
    BY <1>2, <1>5, Owners
  <2>2. \A u \in Cta : rem'[u] = h
    BY <1>5
  <2>3. h \in 1 .. Blocks
    BY <1>2, <1>3, BlockCount
  <2> QED BY <1>2, <1>5, <2>1, <2>2, <2>3, SameArray DEF Round, Owner
<1>8. \A u \in Cta : pc'[u] \in SortPlaces(h)
  BY <1>5 DEF SortPlaces
<1>9. Holding(h)'
  BY <1>5 DEF Holding
<1>10. \A c \in 0 .. h - 1 : ~ Through(c)'
  <2>1. SUFFICES ASSUME NEW c \in 0 .. h - 1 PROVE ~ Through(c)'
    OBVIOUS
  <2>2. Owner(c) \in Cta /\ Owner(c) <= c /\ Owner(c) \in Nat /\ c \in Nat
    BY <1>2, <1>3, Owners
  <2>3. pc'[Owner(c)] = "sort" /\ blk'[Owner(c)] = Owner(c)
    BY <1>5, <2>2
  <2> QED BY <2>2, <2>3 DEF Through, Owner
<1>11. Live(r) = FrontSlots(h)
  <2>1. ASSUME NEW s \in Slot
        PROVE  s \div Elems < h <=> s \div Elems < r /\ ~ Gone(r, s \div Elems)
    <3>1. s \div Elems \in Nat
      BY <1>2, BlockCount
    <3>2. pc[Owner(s \div Elems)] = "roundSync"
      BY <1>1, <1>2, <3>1, Owners
    <3> QED BY <1>3, <3>1, <3>2 DEF Gone
  <2> QED BY <2>1 DEF Live, FrontSlots
<1>12. Good(meta, FrontSlots(h))'
  BY <1>5, <1>11, SameArray DEF Copying
<1>13. Moving'
  <2>1. pc'[0] # "roundSync" /\ \A v \in Cta : pc'[v] # "front"
    BY <1>2, <1>5, Owners
  <2> QED BY <1>5, <2>1, SameArray DEF Copying, Moving
<1>14. Sorting(h)'
  BY <1>7, <1>8, <1>9, <1>10, <1>12, <1>13 DEF Sorting, SortPlaces
<1> QED BY <1>3, <1>6, <1>14

(* The last round ends.                                                    *)
LEMMA ToFinished ==
  ASSUME Types, NEW r \in Nat, Sorting(r), ~ (r > 1), Release
  PROVE  Types' /\ Finished'
<1>1. score \in Inputs /\ Size > 1 /\ r = 1
  <2>1. score \in Inputs /\ Size > 1 /\ r \in 1 .. Blocks
    BY DEF Types, Sorting, Round
  <2> QED BY <2>1, BlockCount
<1>2. \A u \in Cta : pc[u] = "roundSync" /\ rem[u] = 1
  BY <1>1 DEF Sorting, SortPlaces, Release, Waiting, Round
<1>3. /\ score' = score /\ meta' = meta /\ cand' = cand /\ reg' = reg
      /\ pc' = [u \in Cta |-> "done"] /\ rem' = [u \in Cta |-> 0]
      /\ blk' = [u \in Cta |-> u]
  BY <1>2 DEF Release, Passed, Onward, Halved
<1>4. Types'
  BY <1>1, <1>3, SameArray, Owners DEF Types, Places
<1>5. Through(0)
  BY <1>1, <1>2, Owners DEF Through
<1>6. BlockSorted(meta, 0)
  BY <1>1, <1>5 DEF Sorting
<1>7. \A s \in 0 .. Kept - 1 : cand[s] = meta[s]
  BY <1>1, <1>2, Owners DEF Sorting, Moving
<1>8. Good(meta, FrontSlots(1))
  BY <1>1 DEF Sorting
<1> QED BY <1>3, <1>4, <1>6, <1>7, <1>8, SameArray DEF Finished

(* The array comes in as it was pushed.                                    *)
LEMMA SortInit == ASSUME Init PROVE SortInv
<1>1. /\ score \in Inputs /\ meta = Identity /\ cand = Identity
      /\ pc = [u \in Cta |-> IF Size <= 1 THEN "done" ELSE "sort"]
      /\ rem = [u \in Cta |-> Blocks] /\ blk = [u \in Cta |-> u]
      /\ reg = [u \in Cta |-> << >>]
  BY DEF Init, Identity, Blocks
<1>2. Size \in Nat /\ Slot = 0 .. Size - 1 /\ Elems \in Nat \ {0}
  BY <1>1, Slots
<1>3. CASE Size <= 1
  <2>1. Blocks \in Nat
    <3>1. Size = 0 \/ Size = 1
      BY <1>2, <1>3
    <3>2. CASE Size = 1
      BY <1>2, <3>2, Division, 0 \in Nat DEF Blocks
    <3>3. CASE Size = 0
      BY <1>2, <3>3 DEF Blocks
    <3> QED BY <3>1, <3>2, <3>3
  <2>2. Types
    BY <1>1, <1>3, <2>1, Owners DEF Types, Places, Identity
  <2>3. Finished
    BY <1>1, <1>2, <1>3 DEF Finished
  <2> QED BY <2>2, <2>3 DEF SortInv
<1>4. CASE Size > 1
  <2>1. /\ Blocks \in Nat \ {0} /\ \A s \in Slot : s \div Elems \in 0 .. Blocks - 1
    BY <1>1, <1>4, BlockCount
  <2>2. pc = [u \in Cta |-> "sort"]
    BY <1>1, <1>2, <1>4
  <2>3. Types
    BY <1>1, <2>1, <2>2, Owners DEF Types, Places, Identity
  <2>4. Round(Blocks)
    BY <1>1, <1>4, <2>1, Owners DEF Round
  <2>5. \A c \in 0 .. Blocks - 1 : ~ Through(c)
    <3>1. SUFFICES ASSUME NEW c \in 0 .. Blocks - 1 PROVE ~ Through(c)
      OBVIOUS
    <3>2. Owner(c) \in Cta /\ Owner(c) <= c /\ Owner(c) \in Nat /\ c \in Nat
      BY <1>1, <2>1, Owners
    <3> QED BY <1>1, <2>2, <3>2 DEF Through
  <2>6. FrontSlots(Blocks) = Slot
    BY <2>1 DEF FrontSlots
  <2>7. Good(meta, FrontSlots(Blocks))
    <3>1. Distinct(meta, Slot)
      BY <1>1 DEF Distinct, Identity
    <3>2. \A x : Over(Slot, x) \subseteq Named(meta, Slot)
      BY <1>1 DEF Over, Named, Identity
    <3> QED BY <2>6, <3>1, <3>2 DEF Good, KeepsBest
  <2>8. Moving
    <3>1. pc[0] = "sort"
      BY <1>1, <2>2, Owners
    <3> QED BY <1>1, <2>2, <3>1 DEF Moving
  <2>9. Sorting(Blocks)
    BY <2>2, <2>4, <2>5, <2>7, <2>8 DEF Sorting, SortPlaces, Holding
  <2> QED BY <2>1, <2>3, <2>9 DEF SortInv
<1> QED BY <1>2, <1>3, <1>4

(* Every step keeps the invariant.                                         *)
LEMMA SortNext == ASSUME SortInv, [Next]_vars PROVE SortInv'
<1>1. Types /\ (Finished \/ \E r \in Nat : Sorting(r) \/ Copying(r))
  BY DEF SortInv
<1>2. CASE UNCHANGED vars
  <2>1. /\ score' = score /\ meta' = meta /\ cand' = cand /\ topk' = topk
        /\ pc' = pc /\ rem' = rem /\ blk' = blk /\ reg' = reg
    BY <1>2 DEF vars
  <2>2. Types'
    BY <1>1, <2>1, SameArray DEF Types
  <2>3. Finished => Finished'
    BY <2>1, SameArray DEF Finished
  <2>4. \A r \in Nat : Sorting(r) => Sorting(r)'
    <3>1. \A r \in Nat : Round(r) => Round(r)'
      BY <2>1, SameArray DEF Round, Owner
    <3>2. \A r \in Nat : Holding(r) => Holding(r)'
      <4>1. \A S : SortedBlock(S)' = SortedBlock(S)
        BY <2>1 DEF SortedBlock
      <4> QED BY <2>1, <4>1, SameArray DEF Holding
    <3>3. \A b : Through(b)' <=> Through(b)
      BY <2>1 DEF Through, Owner
    <3>4. Moving => Moving'
      BY <2>1, SameArray DEF Moving
    <3> QED BY <2>1, <3>1, <3>2, <3>3, <3>4, SameArray DEF Sorting, SortPlaces
  <2>5. \A r \in Nat : Copying(r) => Copying(r)'
    <3>1. \A r \in Nat : Round(r) => Round(r)'
      BY <2>1, SameArray DEF Round, Owner
    <3>2. \A r, b : Gone(r, b)' <=> Gone(r, b)
      BY <2>1 DEF Gone, Owner
    <3>3. \A r : Live(r)' = Live(r)
      BY <2>1, <3>2, SameArray DEF Live, Elems
    <3>4. \A r : Good(meta, Live(r))' <=> Good(meta, Live(r))
      BY <2>1, <3>3, SameArray DEF Good, Distinct, KeepsBest, Named, Over
    <3> QED BY <2>1, <3>1, <3>2, <3>4, SameArray DEF Copying
  <2> QED BY <1>1, <2>2, <2>3, <2>4, <2>5 DEF SortInv
<1>3. ASSUME NEW u \in Cta, Step(u) PROVE SortInv'
  <2>1. pc[u] \in {"sort", "store", "copy", "collect", "front"}
    BY <1>3 DEF Step, LoadBlock, StoreBlock, SortDone, CopyBlock, CopyDone, Collect, Front
  <2>2. PICK r \in Nat : Sorting(r) \/ Copying(r)
    BY <1>1, <2>1 DEF Finished
  <2>3. CASE Sorting(r)
    <3>1. pc[u] # "copy"
      BY <2>3 DEF Sorting, SortPlaces
    <3>2. ~ CopyBlock(u) /\ ~ CopyDone(u)
      BY <3>1 DEF CopyBlock, CopyDone
    <3>3. Types' /\ Sorting(r)'
      BY <1>1, <1>3, <2>3, <3>2, LoadStep, StoreStep, SortDoneStep, CollectStep, FrontStep
      DEF Step
    <3> QED BY <3>3 DEF SortInv
  <2>4. CASE Copying(r)
    <3>1. pc[u] = "copy"
      BY <2>1, <2>4 DEF Copying
    <3>2. CopyBlock(u) \/ CopyDone(u)
      BY <1>3, <3>1 DEF Step, LoadBlock, StoreBlock, SortDone, Collect, Front
    <3>3. Types' /\ Copying(r)'
      BY <1>1, <2>4, <3>2, CopyStep, CopyDoneStep
    <3> QED BY <3>3 DEF SortInv
  <2> QED BY <2>2, <2>3, <2>4
<1>4. CASE Release
  <2>1. ~ Finished
    <3>1. 0 \in Cta
      BY <1>1, Owners DEF Types
    <3> QED BY <1>4, <3>1 DEF Finished, Release, Waiting
  <2>2. PICK r \in Nat : Sorting(r) \/ Copying(r)
    BY <1>1, <2>1
  <2>3. CASE Sorting(r) /\ r > 1
    BY <1>1, <1>4, <2>3, ToCopying DEF SortInv
  <2>4. CASE Sorting(r) /\ ~ (r > 1)
    BY <1>1, <1>4, <2>4, ToFinished DEF SortInv
  <2>5. CASE Copying(r)
    BY <1>1, <1>4, <2>5, ToSorting DEF SortInv
  <2> QED BY <2>2, <2>3, <2>4, <2>5
<1> QED BY <1>2, <1>3, <1>4 DEF Next

(* The invariant of the sort.                                              *)
THEOREM SortInvariant == Spec => []SortInv
BY SortInit, SortNext, PTL DEF Spec

-----------------------------------------------------------------------------
(* What follows from the invariant.                                        *)

(* What a thread block stores is a permutation of what is there.           *)
THEOREM EntriesKept == Spec => []NoLostEntry
<1>1. ASSUME SortInv PROVE NoLostEntry
  <2>1. SUFFICES ASSUME NEW u \in Cta, pc[u] = "store"
                 PROVE  {meta[s] : s \in DOMAIN reg[u]} = {reg[u][s] : s \in DOMAIN reg[u]}
    BY DEF NoLostEntry
  <2>2. PICK r \in Nat : Sorting(r)
    BY <1>1, <2>1 DEF SortInv, Finished, Copying
  <2>3. /\ score \in Inputs /\ Size > 1 /\ meta \in [Slot -> Slot]
        /\ r \in 1 .. Blocks /\ blk[u] \in Nat /\ blk[u] < r
        /\ reg[u] \in SortedBlock(SlotsOf(blk[u]))
    BY <1>1, <2>1, <2>2 DEF SortInv, Types, Sorting, Round, Holding
  <2>4. blk[u] \in 0 .. Blocks - 1
    BY <2>3, BlockCount
  <2>5. /\ DOMAIN reg[u] = SlotsOf(blk[u])
        /\ Named(reg[u], SlotsOf(blk[u])) = Named(meta, SlotsOf(blk[u]))
    BY <2>3, <2>4, BlockPermuted
  <2> QED BY <2>5 DEF Named
<1> QED BY <1>1, SortInvariant, PTL

(* The smaller of two numbers is at most either.                           *)
LEMMA MinOfTwo ==
  ASSUME NEW a \in Int, NEW b \in Int
  PROVE  Min({a, b}) <= a /\ Min({a, b}) <= b /\ Min({a, b}) \in Int
<1>1. \E x \in {a, b} : \A y \in {a, b} : x <= y
  OBVIOUS
<1>2. Min({a, b}) \in {a, b} /\ \A y \in {a, b} : Min({a, b}) <= y
  BY <1>1, Zenon DEF Min
<1> QED BY <1>2

(* When a round begins, the sort blocks that are left hold the best.       *)
THEOREM BestInFront == Spec => []BestStayInFront
<1>1. ASSUME SortInv, \A u \in Cta : pc[u] = "sort" /\ blk[u] = u
      PROVE  LET front == {s \in Slot : s \div Elems < rem[0]}
                 named == {meta[s] : s \in front}
             IN  /\ Cardinality(named) = Cardinality(front)
                 /\ \A t \in Slot :
                      AtLeast(named, score[t]) >= Min({AtLeast(Slot, score[t]), Kept})
  <2>1. score \in Inputs /\ 0 \in Cta /\ meta \in [Slot -> Slot]
    BY <1>1, Owners DEF SortInv, Types
  <2>2. PICK r \in Nat : Sorting(r)
    BY <1>1, <2>1 DEF SortInv, Finished, Copying
  <2> DEFINE F == FrontSlots(r)
             M == Named(meta, F)
  <2>3. F = {s \in Slot : s \div Elems < rem[0]} /\ M = {meta[s] : s \in F}
    BY <2>1, <2>2 DEF Sorting, Round, FrontSlots, Named
  <2>4. Good(meta, F)
    BY <2>2 DEF Sorting
  <2>5. IsFiniteSet(Slot) /\ F \in SUBSET Slot /\ M \in SUBSET Slot
    BY <2>1, Slots DEF FrontSlots, Named
  <2>6. IsFiniteSet(F)
    BY <2>5, FS_Subset
  <2>7. Cardinality(M) = Cardinality(F)
    BY <2>4, <2>6, NamedCount DEF Good
  <2> HIDE DEF F, M
  <2>8. ASSUME NEW t \in Slot
        PROVE  AtLeast(M, score[t]) >= Min({AtLeast(Slot, score[t]), Kept})
    <3> DEFINE x == score[t]
    <3>1. AtLeast(M, x) = Cardinality(Over(M, x)) /\ AtLeast(Slot, x) = Cardinality(Over(Slot, x))
      BY DEF AtLeast, Over
    <3>2. Over(M, x) \in SUBSET Slot /\ Over(Slot, x) \in SUBSET Slot
      BY <2>5 DEF Over
    <3>3. IsFiniteSet(Over(M, x)) /\ IsFiniteSet(Over(Slot, x))
      BY <2>5, <3>2, FS_Subset
    <3>4. AtLeast(M, x) \in Int /\ AtLeast(Slot, x) \in Int /\ Kept \in Int
      BY <2>1, <3>1, <3>3, FS_CardinalityType, Slots
    <3>5. CASE Over(Slot, x) \subseteq M
      <4>1. Over(Slot, x) \subseteq Over(M, x)
        BY <3>5 DEF Over
      <4>2. Cardinality(Over(Slot, x)) <= Cardinality(Over(M, x))
        BY <3>3, <4>1, FS_Subset
      <4>3. Min({AtLeast(Slot, x), Kept}) <= AtLeast(Slot, x) /\ Min({AtLeast(Slot, x), Kept}) \in Int
        BY <3>4, MinOfTwo
      <4> HIDE DEF x
      <4>4. AtLeast(M, x) >= Min({AtLeast(Slot, x), Kept})
        BY <3>1, <3>4, <4>2, <4>3
      <4> QED BY <4>4 DEF x
    <3>6. CASE Cardinality(Over(M, x)) >= Kept
      <4>1. Min({AtLeast(Slot, x), Kept}) <= Kept /\ Min({AtLeast(Slot, x), Kept}) \in Int
        BY <3>4, MinOfTwo
      <4> HIDE DEF x
      <4>2. AtLeast(M, x) >= Min({AtLeast(Slot, x), Kept})
        BY <3>1, <3>4, <3>6, <4>1
      <4> QED BY <4>2 DEF x
    <3> QED BY <2>4, <3>5, <3>6 DEF Good, KeepsBest, M
  <2> QED BY <2>3, <2>7, <2>8
<1>2. SortInv => BestStayInFront
  BY <1>1 DEF BestStayInFront
<1> QED BY <1>2, SortInvariant, PTL

(* In the end the front of cand_ holds the best beams in descending order. *)
THEOREM WinnersInFront == Spec => []TopKInFront
<1>1. ASSUME SortInv, \A u \in Cta : pc[u] = "done", Size > 1
      PROVE  LET front == 0 .. Kept - 1
                 kept  == {cand[s] : s \in front}
             IN  /\ Cardinality(kept) = Kept
                 /\ \A i, j \in front : i < j => score[cand[i]] >= score[cand[j]]
                 /\ \A b \in Slot \ kept, k \in kept : score[b] <= score[k]
  <2>1. score \in Inputs /\ 0 \in Cta /\ meta \in [Slot -> Slot]
    BY <1>1, Owners DEF SortInv, Types
  <2>2. /\ BlockSorted(meta, 0) /\ Good(meta, FrontSlots(1))
        /\ \A s \in 0 .. Kept - 1 : cand[s] = meta[s]
    <3>1. \A r \in Nat : ~ Sorting(r) /\ ~ Copying(r)
      BY <1>1, <2>1 DEF Sorting, SortPlaces, Copying
    <3> QED BY <1>1, <3>1 DEF SortInv, Finished
  <2>3. /\ Size \in Nat /\ Slot = 0 .. Size - 1 /\ IsFiniteSet(Slot) /\ Half \in Nat \ {0}
        /\ Elems = Half + Half /\ Kept \in 0 .. Half /\ Kept <= Size
        /\ \A s \in Slot : score[s] \in Int
    BY <2>1, Slots
  <2> DEFINE front == 0 .. Kept - 1
             kept == {cand[s] : s \in front}
             F == FrontSlots(1)
  <2>4. \A s \in Slot : /\ s \in SlotsOf(0) <=> s < Elems
                        /\ s \in SlotsOf(0) <=> s \in F
    <3>1. ASSUME NEW s \in Slot PROVE s \in SlotsOf(0) <=> s < Elems
      <4>1. 0 * Elems = 0 /\ s >= 0 /\ s \in Int /\ Elems \in Int
        BY <2>3
      <4> QED BY <2>1, <4>1, BlockSlots, 0 \in Nat
    <3>2. \A s \in Slot : s \div Elems \in Nat
      BY <1>1, <2>1, BlockCount
    <3> QED BY <3>1, <3>2 DEF SlotsOf, FrontSlots
  <2>5. front \subseteq SlotsOf(0) /\ front \subseteq F /\ front \subseteq Slot
    BY <2>3, <2>4
  <2>6. kept = Named(meta, front)
    BY <2>2 DEF Named
  <2>7. Distinct(meta, F) /\ KeepsBest(meta, F)
    BY <2>2 DEF Good
  <2>8. Cardinality(kept) = Kept
    <3>1. Distinct(meta, front)
      BY <2>5, <2>7 DEF Distinct
    <3>2. IsFiniteSet(front) /\ Cardinality(front) = Kept
      <4>1. IsFiniteSet(front) /\ Cardinality(front) = IF 0 > Kept - 1 THEN 0 ELSE (Kept - 1) - 0 + 1
        BY <2>3, FS_Interval, 0 \in Int, Kept - 1 \in Int
      <4> QED BY <2>3, <4>1
    <3> QED BY <2>6, <3>1, <3>2, NamedCount
  <2>9. \A i, j \in SlotsOf(0) : i < j => score[meta[i]] >= score[meta[j]]
    BY <2>2 DEF BlockSorted
  <2>10. \A i, j \in front : i < j => score[cand[i]] >= score[cand[j]]
    BY <2>2, <2>5, <2>9
  <2>11. ASSUME NEW b \in Slot \ kept, NEW k \in kept PROVE score[b] <= score[k]
    <3>1. PICK i \in front : k = meta[i]
      BY <2>6 DEF Named
    <3> DEFINE x == score[b]
    <3>2. i \in Slot /\ i \in SlotsOf(0) /\ k \in Slot /\ score[k] \in Int /\ x \in Int
          /\ i \in Int
      BY <2>1, <2>3, <2>5, <3>1
    <3>3. SUFFICES ASSUME score[k] < x PROVE FALSE
      BY <3>2
    <3> HIDE DEF x
    <3>4. ASSUME NEW j \in F, score[meta[j]] >= x PROVE j \in 0 .. i - 1
      <4>1. j \in Slot /\ j \in SlotsOf(0) /\ j \in Int /\ 0 <= j
        BY <2>3, <2>4 DEF FrontSlots
      <4>2. i < j => score[k] >= score[meta[j]]
        BY <2>9, <3>1, <3>2, <4>1
      <4>3. score[meta[j]] \in Int
        BY <2>1, <2>3, <4>1
      <4>4. ~ (i < j)
        BY <3>2, <3>3, <3>4, <4>2, <4>3
      <4>5. i # j
        BY <3>1, <3>2, <3>3, <3>4
      <4> QED BY <3>2, <4>1, <4>4, <4>5
    <3>5. Over(Named(meta, F), x) \subseteq Named(meta, 0 .. i - 1)
      BY <3>4 DEF Over, Named
    <3>6. CASE Over(Slot, x) \subseteq Named(meta, F)
      <4>1. b \in Over(Named(meta, F), x)
        <5>1. b \in Over(Slot, x)
          BY <3>2 DEF Over, x
        <5> QED BY <3>6, <5>1 DEF Over
      <4>2. b \in Named(meta, 0 .. i - 1)
        BY <3>5, <4>1
      <4>3. 0 .. i - 1 \subseteq front
        BY <2>3, <3>2
      <4>4. b \in kept
        BY <2>6, <4>2, <4>3 DEF Named
      <4> QED BY <4>4
    <3>7. CASE Cardinality(Over(Named(meta, F), x)) >= Kept
      <4> DEFINE low == 0 .. i - 1
      <4>1. IsFiniteSet(low) /\ Cardinality(low) = i
        <5>1. IsFiniteSet(low) /\ Cardinality(low) = IF 0 > i - 1 THEN 0 ELSE (i - 1) - 0 + 1
          BY <3>2, FS_Interval, 0 \in Int, i - 1 \in Int
        <5>2. i >= 0
          BY <2>3, <3>1
        <5> QED BY <3>2, <5>1, <5>2
      <4>2. Distinct(meta, low)
        <5>1. low \subseteq front
          BY <2>3, <3>2
        <5> QED BY <2>5, <2>7, <5>1 DEF Distinct
      <4>3. IsFiniteSet(Named(meta, low)) /\ Cardinality(Named(meta, low)) = i
        BY <4>1, <4>2, NamedCount
      <4>4. Cardinality(Over(Named(meta, F), x)) <= i
            /\ IsFiniteSet(Over(Named(meta, F), x))
        BY <3>5, <4>3, FS_Subset
      <4>5. Cardinality(Over(Named(meta, F), x)) \in Nat
        BY <4>4, FS_CardinalityType
      <4>6. i < Kept
        BY <2>3, <3>1
      <4> QED BY <2>3, <3>2, <3>7, <4>4, <4>5, <4>6
    <3> QED BY <2>7, <3>6, <3>7 DEF KeepsBest, x
  <2> QED BY <2>8, <2>10, <2>11
<1>2. SortInv => TopKInFront
  BY <1>1 DEF TopKInFront
<1> QED BY <1>2, SortInvariant, PTL

-----------------------------------------------------------------------------
(* Numbers, and functions on them.                                         *)

(* A set of natural numbers that is not empty has a least one.             *)
LEMMA LeastNumber ==
  ASSUME NEW T \in SUBSET Nat, T # {}
  PROVE  \E k \in T : \A l \in T : k <= l
<1> DEFINE R == OpToRel(<, Nat)
<1>1. \A x, y \in Nat : y < x => <<y, x>> \in R
  BY Zenon DEF OpToRel
<1>2. PICK k \in T : \A l \in T : <<l, k>> \notin R
  <2> HIDE DEF R
  <2> QED BY NatLessThanWellFounded, WFMin DEF R
<1>3. \A l \in T : ~ (l < k)
  BY <1>1, <1>2
<1> QED BY <1>3

(* A function on the numbers may be defined by its value at 0 and, for     *)
(* every other number, a step from its value at a smaller one.             *)
Falls(back) == back \in [Nat -> Nat] /\ \A n \in Nat \ {0} : back[n] < n

Starts(g, n, first, step, back) ==
  /\ g[0] = first
  /\ \A k \in 1 .. n : g[k] = step[<<k, g[back[k]]>>]

Follows(f, S, first, step, back) ==
  f \in [Nat -> S] /\ f[0] = first /\ \A n \in Nat \ {0} : f[n] = step[<<n, f[back[n]]>>]

LEMMA StartsExist ==
  ASSUME NEW S, NEW first \in S, NEW step \in [Nat \X S -> S], NEW back, Falls(back)
  PROVE  \A n \in Nat : \E g \in [0 .. n -> S] : Starts(g, n, first, step, back)
<1> DEFINE T == {n \in Nat : ~ \E g \in [0 .. n -> S] : Starts(g, n, first, step, back)}
<1>1. SUFFICES ASSUME T # {} PROVE FALSE
  OBVIOUS
<1>2. PICK n \in T : \A l \in T : n <= l
  <2> HIDE DEF T
  <2>1. T \in SUBSET Nat
    BY DEF T
  <2> QED BY <1>1, <2>1, LeastNumber
<1>3. n # 0
  <2>1. [k \in 0 .. 0 |-> first] \in [0 .. 0 -> S]
    OBVIOUS
  <2>2. Starts([k \in 0 .. 0 |-> first], 0, first, step, back)
    BY DEF Starts
  <2> QED BY <1>2, <2>1, <2>2
<1>4. n \in Nat /\ n - 1 \in Nat /\ n - 1 \notin T
  <2>1. n \in Nat /\ n - 1 \in Nat /\ ~ (n <= n - 1)
    BY <1>2, <1>3
  <2> HIDE DEF T
  <2> QED BY <1>2, <2>1
<1>5. PICK g \in [0 .. n - 1 -> S] : Starts(g, n - 1, first, step, back)
  BY <1>4
<1>6. back[n] \in 0 .. n - 1
  BY <1>3, <1>4 DEF Falls
<1> DEFINE h == [k \in 0 .. n |-> IF k = n THEN step[<<n, g[back[n]]>>] ELSE g[k]]
<1>7. h \in [0 .. n -> S]
  <2>1. g[back[n]] \in S
    BY <1>5, <1>6
  <2>2. step[<<n, g[back[n]]>>] \in S
    BY <2>1, <1>4
  <2> QED BY <1>4, <1>5, <2>2
<1>8. h[0] = first
  BY <1>3, <1>4, <1>5 DEF Starts
<1>9. ASSUME NEW k \in 1 .. n PROVE h[k] = step[<<k, h[back[k]]>>]
  <2>1. k \in Nat /\ back[k] \in 0 .. n - 1 /\ back[k] # n
    BY <1>4 DEF Falls
  <2>2. h[back[k]] = g[back[k]]
    BY <2>1, <1>4
  <2>3. CASE k = n
    <3>1. h[n] = step[<<n, g[back[n]]>>]
      BY <1>4
    <3> HIDE DEF h
    <3> QED BY <2>2, <2>3, <3>1
  <2>4. CASE k # n
    <3>1. k \in 1 .. n - 1 /\ h[k] = g[k]
      BY <2>4, <1>4
    <3> QED BY <3>1, <2>2, <1>5 DEF Starts
  <2> QED BY <2>3, <2>4
<1>10. Starts(h, n, first, step, back)
  <2> HIDE DEF h
  <2> QED BY <1>8, <1>9 DEF Starts
<1> QED BY <1>2, <1>7, <1>10

LEMMA StartsAgree ==
  ASSUME NEW first, NEW step, NEW back, Falls(back),
         NEW n \in Nat, NEW m \in Nat, NEW g, NEW h,
         Starts(g, n, first, step, back), Starts(h, m, first, step, back),
         NEW k \in Nat, k <= n, k <= m
  PROVE  g[k] = h[k]
<1> DEFINE T == {l \in Nat : l <= n /\ l <= m /\ g[l] # h[l]}
<1>1. SUFFICES ASSUME T # {} PROVE FALSE
  OBVIOUS
<1>2. PICK l \in T : \A i \in T : l <= i
  <2> HIDE DEF T
  <2>1. T \in SUBSET Nat
    BY DEF T
  <2> QED BY <1>1, <2>1, LeastNumber
<1>3. l \in Nat /\ l <= n /\ l <= m /\ g[l] # h[l] /\ l # 0
  BY <1>2 DEF Starts
<1>4. back[l] \in Nat /\ back[l] < l /\ back[l] \notin T
  BY <1>2, <1>3 DEF Falls
<1>5. g[back[l]] = h[back[l]]
  BY <1>3, <1>4
<1>6. l \in 1 .. n /\ l \in 1 .. m
  BY <1>3
<1> QED BY <1>3, <1>5, <1>6 DEF Starts

LEMMA RecursionExists ==
  ASSUME NEW S, NEW first \in S, NEW step, step \in [Nat \X S -> S], NEW back, Falls(back)
  PROVE  \E f : Follows(f, S, first, step, back)
<1> DEFINE start(n) == CHOOSE g \in [0 .. n -> S] : Starts(g, n, first, step, back)
<1>1. ASSUME NEW n \in Nat PROVE start(n) \in [0 .. n -> S] /\ Starts(start(n), n, first, step, back)
  BY StartsExist
<1> DEFINE f == [n \in Nat |-> start(n)[n]]
<1>2. ASSUME NEW n \in Nat PROVE f[n] = start(n)[n] /\ start(n)[n] \in S
  <2> HIDE DEF start
  <2> QED BY <1>1
<1> HIDE DEF start
<1>3. f \in [Nat -> S]
  BY <1>2
<1>4. f[0] = first
  BY <1>1, <1>2 DEF Starts
<1>5. ASSUME NEW n \in Nat \ {0} PROVE f[n] = step[<<n, f[back[n]]>>]
  <2>1. back[n] \in Nat /\ back[n] <= n /\ back[n] <= back[n] /\ n \in 1 .. n
    BY DEF Falls
  <2>2. f[n] = start(n)[n] /\ f[back[n]] = start(back[n])[back[n]]
    BY <1>2, <2>1
  <2>3. start(n)[n] = step[<<n, start(n)[back[n]]>>]
    BY <1>1, <2>1 DEF Starts
  <2>4. Starts(start(n), n, first, step, back) /\ Starts(start(back[n]), back[n], first, step, back)
    BY <1>1, <2>1
  <2>5. start(n)[back[n]] = start(back[n])[back[n]]
    <3>1. PICK g, h, k : g = start(n) /\ h = start(back[n]) /\ k = back[n]
      OBVIOUS
    <3>2. Starts(g, n, first, step, back) /\ Starts(h, k, first, step, back) /\ k \in Nat /\ k <= n /\ k <= k
      BY <2>1, <2>4, <3>1
    <3>3. g[k] = h[k]
      <4> HIDE DEF f
      <4> QED BY <3>2, StartsAgree
    <3> QED BY <3>1, <3>3
  <2> QED BY <2>2, <2>3, <2>5
<1> HIDE DEF f
<1> QED BY <1>3, <1>4, <1>5 DEF Follows

LEMMA SeqOfFunction ==
  ASSUME NEW S, NEW n \in Nat, NEW f \in [1 .. n -> S]
  PROVE  f \in Seq(S) /\ Len(f) = n
OBVIOUS

LEMMA SequenceInLarger ==
  ASSUME NEW S, NEW R, S \subseteq R, NEW s \in Seq(S)
  PROVE  s \in Seq(R) /\ \A i \in 1 .. Len(s) : s[i] \in S
OBVIOUS

-----------------------------------------------------------------------------
(* The sort of keys.                                                       *)
Text == Seq(Nat)

(* The strings s and t are the same up to a depth.                         *)
Alike(s, t, depth) == \A d \in 0 .. depth - 1 : Label(s, d) = Label(t, d)

LEMMA LabelIs ==
  ASSUME NEW s \in Text, NEW d \in Nat
  PROVE  /\ Label(s, d) \in Int /\ Label(s, d) >= -1
         /\ d < Len(s) => Label(s, d) = s[d + 1] /\ Label(s, d) \in Nat
         /\ d >= Len(s) => Label(s, d) = -1
<1>1. Len(s) \in Nat
  BY DEF Text
<1>2. CASE d < Len(s)
  <2>1. d + 1 \in 1 .. Len(s)
    BY <1>1, <1>2
  <2>2. s[d + 1] \in Nat
    BY <2>1 DEF Text
  <2> QED BY <1>1, <1>2, <2>2 DEF Label
<1>3. CASE ~ (d < Len(s))
  BY <1>1, <1>3 DEF Label, EndMark
<1> QED BY <1>2, <1>3

(* In order by the labels from depth on is in order.                       *)
LEMMA LessFrom ==
  ASSUME NEW s \in Text, NEW t \in Text, NEW depth \in Nat,
         Alike(s, t, depth), ~ Less(s, t, depth)
  PROVE  ~ Less(s, t, 0)
<1>1. SUFFICES ASSUME Less(s, t, 0) PROVE FALSE
  OBVIOUS
<1>2. Len(s) \in Nat
  BY DEF Text
<1>3. PICK d \in 0 .. Len(s) :
        (\A e \in 0 .. d - 1 : Label(s, e) = Label(t, e)) /\ Label(s, d) < Label(t, d)
  BY <1>1 DEF Less
<1>4. d \in Nat /\ Label(s, d) \in Int /\ Label(t, d) \in Int
  BY <1>2, <1>3, LabelIs
<1>5. Label(s, d) # Label(t, d)
  BY <1>3, <1>4
<1>6. d \in depth .. Len(s)
  BY <1>2, <1>4, <1>5 DEF Alike
<1>7. \A e \in depth .. d - 1 : Label(s, e) = Label(t, e)
  BY <1>3, <1>4
<1> QED BY <1>3, <1>6, <1>7 DEF Less

LEMMA GreaterAt ==
  ASSUME NEW s \in Text, NEW t \in Text, NEW depth \in Nat,
         Alike(s, t, depth), Label(s, depth) < Label(t, depth)
  PROVE  ~ Less(t, s, 0)
<1>1. SUFFICES ASSUME Less(t, s, 0) PROVE FALSE
  OBVIOUS
<1>2. Len(t) \in Nat
  BY DEF Text
<1>3. PICK d \in 0 .. Len(t) :
        (\A e \in 0 .. d - 1 : Label(t, e) = Label(s, e)) /\ Label(t, d) < Label(s, d)
  BY <1>1 DEF Less
<1>4. d \in Nat /\ Label(s, d) \in Int /\ Label(t, d) \in Int
  BY <1>2, <1>3, LabelIs
<1>5. Label(s, depth) \in Int /\ Label(t, depth) \in Int
  BY LabelIs
<1>6. CASE d < depth
  BY <1>3, <1>4, <1>6 DEF Alike
<1>7. CASE d = depth
  BY <1>3, <1>5, <1>7
<1>8. CASE d > depth
  BY <1>3, <1>4, <1>5, <1>8
<1> QED BY <1>4, <1>6, <1>7, <1>8

(* Strings that are the same up to a depth at which both have ended.       *)
LEMMA EndedTogether ==
  ASSUME NEW s \in Text, NEW t \in Text, NEW depth \in Nat,
         Alike(s, t, depth), Label(s, depth) = EndMark, Label(t, depth) = EndMark
  PROVE  s = t
<1>1. Len(s) \in Nat /\ Len(t) \in Nat
  BY DEF Text
<1>2. Len(s) <= depth /\ Len(t) <= depth
  <2>1. ~ (-1 \in Nat)
    OBVIOUS
  <2>2. ASSUME NEW u \in Text, Label(u, depth) = -1 PROVE ~ (depth < Len(u))
    BY <2>1, <2>2, LabelIs
  <2>3. Label(s, depth) = -1 /\ Label(t, depth) = -1
    BY DEF EndMark
  <2> QED BY <1>1, <2>2, <2>3
<1>3. ~ (Len(s) < Len(t))
  <2>1. SUFFICES ASSUME Len(s) < Len(t) PROVE FALSE
    OBVIOUS
  <2>2. Label(s, Len(s)) = -1 /\ Label(t, Len(s)) \in Nat
    BY <1>1, <2>1, LabelIs
  <2> QED BY <1>1, <1>2, <2>1, <2>2 DEF Alike
<1>4. ~ (Len(t) < Len(s))
  <2>1. SUFFICES ASSUME Len(t) < Len(s) PROVE FALSE
    OBVIOUS
  <2>2. Label(t, Len(t)) = -1 /\ Label(s, Len(t)) \in Nat
    BY <1>1, <2>1, LabelIs
  <2> QED BY <1>1, <1>2, <2>1, <2>2 DEF Alike
<1>5. ASSUME NEW i \in 1 .. Len(s) PROVE s[i] = t[i]
  <2>1. i - 1 \in Nat /\ i - 1 < Len(s) /\ i - 1 < Len(t) /\ i - 1 \in 0 .. depth - 1 /\ (i - 1) + 1 = i
    BY <1>1, <1>2, <1>3, <1>4
  <2>2. Label(s, i - 1) = s[i] /\ Label(t, i - 1) = t[i]
    BY <2>1 DEF Label
  <2> QED BY <2>1, <2>2 DEF Alike
<1> QED BY SMTT(30), <1>1, <1>3, <1>4, <1>5 DEF Text

-----------------------------------------------------------------------------
(* The keys at the positions P have changed places, the others stay.       *)
Rearranged(old, new, P) ==
  /\ new \in Seq(Text) /\ Len(new) = Len(old)
  /\ \A i \in 1 .. Len(old) : i \notin P => new[i] = old[i]
  /\ \A i \in P : \E j \in P : new[i] = old[j]
  /\ \A j \in P : \E i \in P : new[i] = old[j]
  /\ BagOf(new) = BagOf(old)

LEMMA SameKeys ==
  ASSUME NEW old \in Seq(Text), NEW P
  PROVE  Rearranged(old, old, P)
BY DEF Rearranged

LEMMA RearrangedTwice ==
  ASSUME NEW o1, NEW o2, NEW o3, NEW P, Rearranged(o1, o2, P), Rearranged(o2, o3, P)
  PROVE  Rearranged(o1, o3, P)
<1>1. o3 \in Seq(Text) /\ Len(o3) = Len(o1) /\ BagOf(o3) = BagOf(o1)
  BY DEF Rearranged
<1>2. \A i \in 1 .. Len(o1) : i \notin P => o3[i] = o1[i]
  BY DEF Rearranged
<1>3. ASSUME NEW i \in P PROVE \E j \in P : o3[i] = o1[j]
  <2>1. PICK k \in P : o3[i] = o2[k]
    BY DEF Rearranged
  <2>2. PICK j \in P : o2[k] = o1[j]
    BY DEF Rearranged
  <2> QED BY <2>1, <2>2
<1>4. ASSUME NEW j \in P PROVE \E i \in P : o3[i] = o1[j]
  <2>1. PICK k \in P : o2[k] = o1[j]
    BY DEF Rearranged
  <2>2. PICK i \in P : o3[i] = o2[k]
    BY DEF Rearranged
  <2> QED BY <2>1, <2>2
<1> QED BY <1>1, <1>2, <1>3, <1>4 DEF Rearranged

LEMMA Permuted ==
  ASSUME NEW old \in Seq(Text), NEW P \in SUBSET (1 .. Len(old)), NEW p \in Bijection(P, P),
         NEW new, new = [i \in DOMAIN old |-> IF i \in P THEN old[p[i]] ELSE old[i]]
  PROVE  Rearranged(old, new, P)
<1> DEFINE D == 1 .. Len(old)
           q == [i \in D |-> IF i \in P THEN p[i] ELSE i]
<1>1. Len(old) \in Nat /\ DOMAIN old = D
  OBVIOUS
<1>2. p \in [P -> P] /\ (\A a, b \in P : p[a] = p[b] => a = b) /\ \A t \in P : \E s \in P : p[s] = t
  BY DEF Bijection, Injection, Surjection, IsInjective
<1>3. q \in [D -> D] /\ (\A a, b \in D : q[a] = q[b] => a = b)
  <2>1. \A i \in P : p[i] \in P
    BY <1>2
  <2>2. q \in [D -> D]
    BY <2>1
  <2>3. ASSUME NEW a \in D, NEW b \in D, q[a] = q[b] PROVE a = b
    <3>1. CASE a \in P /\ b \in P
      BY <1>2, <2>3, <3>1
    <3>2. CASE ~ (a \in P /\ b \in P)
      BY <2>1, <2>3, <3>2
    <3> QED BY <3>1, <3>2
  <2> HIDE DEF q
  <2> QED BY <2>2, <2>3
<1>4. \A t \in D : \E s \in D : q[s] = t
  <2>1. ASSUME NEW t \in D, t \in P PROVE \E s \in D : q[s] = t
    BY <2>1, <1>2
  <2>2. ASSUME NEW t \in D, t \notin P PROVE \E s \in D : q[s] = t
    BY <2>2
  <2> QED BY <2>1, <2>2
<1>5. new = [i \in D |-> old[q[i]]]
  BY <1>1, <1>3
<1>6. new \in [D -> Text]
  <2> HIDE DEF q
  <2> QED BY <1>1, <1>3, <1>5
<1>7. new \in Seq(Text) /\ Len(new) = Len(old) /\ DOMAIN new = D
  BY <1>1, <1>6
<1> HIDE DEF q
<1>8. Range(new) = Range(old)
  <2>1. ASSUME NEW x \in Range(new) PROVE x \in Range(old)
    BY <1>1, <1>3, <1>5, <1>7 DEF Range
  <2>2. ASSUME NEW x \in Range(old) PROVE x \in Range(new)
    <3>1. PICK t \in D : x = old[t]
      BY <1>1 DEF Range
    <3>2. PICK s \in D : q[s] = t
      BY <1>4
    <3>3. new[s] = x
      BY <1>5, <3>1, <3>2
    <3> QED BY <1>7, <3>3 DEF Range
  <2> QED BY <2>1, <2>2
<1>9. ASSUME NEW x
      PROVE  Cardinality({i \in DOMAIN new : new[i] = x}) = Cardinality({i \in DOMAIN old : old[i] = x})
  <2> DEFINE A == {i \in D : new[i] = x}
             B == {i \in D : old[i] = x}
             m == [i \in A |-> q[i]]
  <2>1. m \in [A -> B]
    BY <1>3, <1>5
  <2>2. \A a, b \in A : m[a] = m[b] => a = b
    BY <1>3
  <2>3. ASSUME NEW t \in B PROVE \E s \in A : m[s] = t
    <3>1. PICK s \in D : q[s] = t
      BY <1>4
    <3>2. s \in A
      BY <1>5, <3>1
    <3> QED BY <3>1, <3>2
  <2>4. m \in Bijection(A, B)
    <3>1. DOMAIN m = A
      OBVIOUS
    <3> HIDE DEF m, A, B
    <3> QED BY <2>1, <2>2, <2>3, <3>1 DEF Bijection, Injection, Surjection, IsInjective
  <2>5. IsFiniteSet(A)
    <3>1. IsFiniteSet(D)
      BY <1>1, FS_Interval
    <3>2. A \in SUBSET D
      OBVIOUS
    <3> HIDE DEF A, D
    <3> QED BY <3>1, <3>2, FS_Subset
  <2>6. Cardinality(B) = Cardinality(A)
    <3> HIDE DEF A, B, m
    <3> QED BY <2>4, <2>5, FS_Bijection DEF ExistsBijection
  <2> QED BY <1>1, <1>7, <2>6
<1>10. BagOf(new) = BagOf(old)
  BY <1>8, <1>9, Zenon DEF BagOf
<1>11. \A i \in D : i \notin P => new[i] = old[i]
  BY <1>1
<1>12. ASSUME NEW i \in P PROVE \E j \in P : new[i] = old[j]
  BY <1>1, <1>2
<1>13. ASSUME NEW j \in P PROVE \E i \in P : new[i] = old[j]
  <2>1. PICK i \in P : p[i] = j
    BY <1>2
  <2>2. new[i] = old[j]
    BY <1>1, <2>1
  <2> QED BY <2>2
<1> QED BY <1>7, <1>10, <1>11, <1>12, <1>13 DEF Rearranged

LEMMA ExchangedAt ==
  ASSUME NEW old \in Seq(Text), NEW i \in Nat, NEW j \in Nat, i + 1 \in 1 .. Len(old), j + 1 \in 1 .. Len(old)
  PROVE  /\ Exchanged(old, i, j)
              = [k \in DOMAIN old |-> IF k = j + 1 THEN old[i + 1] ELSE IF k = i + 1 THEN old[j + 1] ELSE old[k]]
         /\ Exchanged(old, i, j)[i + 1] = old[j + 1] /\ Exchanged(old, i, j)[j + 1] = old[i + 1]
         /\ \A k \in 1 .. Len(old) : k # i + 1 /\ k # j + 1 => Exchanged(old, i, j)[k] = old[k]
<1> DEFINE new == Exchanged(old, i, j)
<1>1. DOMAIN old = 1 .. Len(old) /\ i + 1 \in DOMAIN old /\ j + 1 \in DOMAIN old
  OBVIOUS
<1>2. new = [k \in DOMAIN old |-> IF k = j + 1 THEN old[i + 1] ELSE IF k = i + 1 THEN old[j + 1] ELSE old[k]]
  BY <1>1 DEF Exchanged
<1> HIDE DEF new
<1>3. new[i + 1] = old[j + 1] /\ new[j + 1] = old[i + 1]
  BY <1>1, <1>2
<1>4. \A k \in 1 .. Len(old) : k # i + 1 /\ k # j + 1 => new[k] = old[k]
  BY <1>1, <1>2
<1> QED BY <1>2, <1>3, <1>4 DEF new

LEMMA ExchangedKeys ==
  ASSUME NEW old \in Seq(Text), NEW P \in SUBSET (1 .. Len(old)), NEW i \in Nat, NEW j \in Nat,
         i + 1 \in P, j + 1 \in P
  PROVE  Rearranged(old, Exchanged(old, i, j), P)
<1> DEFINE new == Exchanged(old, i, j)
           p == [k \in P |-> IF k = i + 1 THEN j + 1 ELSE IF k = j + 1 THEN i + 1 ELSE k]
<1>1. p \in Bijection(P, P)
  <2>1. p \in [P -> P] /\ (\A a, b \in P : p[a] = p[b] => a = b)
    OBVIOUS
  <2>2. ASSUME NEW t \in P PROVE \E s \in P : p[s] = t
    <3>1. CASE t = i + 1
      BY <3>1
    <3>2. CASE t = j + 1
      BY <3>2
    <3>3. CASE t # i + 1 /\ t # j + 1
      BY <3>3
    <3> QED BY <3>1, <3>2, <3>3
  <2>3. DOMAIN p = P
    OBVIOUS
  <2> HIDE DEF p
  <2> QED BY <2>1, <2>2, <2>3 DEF Bijection, Injection, Surjection, IsInjective
<1>2. i + 1 \in 1 .. Len(old) /\ j + 1 \in 1 .. Len(old)
  OBVIOUS
<1>3. new = [k \in DOMAIN old |-> IF k = j + 1 THEN old[i + 1] ELSE IF k = i + 1 THEN old[j + 1] ELSE old[k]]
  BY <1>2, ExchangedAt
<1>4. new = [k \in DOMAIN old |-> IF k \in P THEN old[p[k]] ELSE old[k]]
  <2>1. ASSUME NEW k \in DOMAIN old
        PROVE  (IF k = j + 1 THEN old[i + 1] ELSE IF k = i + 1 THEN old[j + 1] ELSE old[k])
                 = (IF k \in P THEN old[p[k]] ELSE old[k])
    OBVIOUS
  <2> HIDE DEF p, new
  <2> QED BY <1>3, <2>1
<1> HIDE DEF p
<1> QED BY <1>1, <1>4, Permuted

-----------------------------------------------------------------------------
(* Calls that are still to come, a set of frames: each has its own stretch *)
(* of keys; within one the keys are the same up to its depth; keys that are*)
(* not of one call differ and are in order; and c is how many distinct keys*)
(* are not of any.                                                         *)
Frames == [l : Nat, r : Nat, depth : Nat]

Spread(f) == Stretch(f.l, f.r)

Together(F, i, j) == \E f \in F : i \in Spread(f) /\ j \in Spread(f)

Free(o, F) == {k \in 1 .. Len(o) : \A f \in F : k \notin Spread(f)}

ValuesAt(o, P) == {o[i] : i \in P}

Settled(o, F, c) ==
  /\ F \subseteq Frames
  /\ \A f \in F : f.l <= f.r /\ f.r <= Len(o)
  /\ \A f, g \in F : f # g => Spread(f) \cap Spread(g) = {}
  /\ \A f \in F : \A i, j \in Spread(f) : Alike(o[i], o[j], f.depth)
  /\ \A f \in F : \A i \in Spread(f), j \in (1 .. Len(o)) \ Spread(f) : o[i] # o[j]
  /\ \A i, j \in 1 .. Len(o) : i < j /\ ~ Together(F, i, j) => ~ Less(o[j], o[i], 0)
  /\ c = Cardinality(ValuesAt(o, Free(o, F)))

LEMMA SpreadIs ==
  ASSUME NEW f \in Frames, NEW n \in Nat, f.r <= n
  PROVE  /\ Spread(f) \in SUBSET (1 .. n) /\ Spread(f) \in SUBSET Nat
         /\ f.l \in Nat /\ f.r \in Nat /\ f.depth \in Nat
         /\ \A i \in Nat : i \in Spread(f) <=> f.l < i /\ i <= f.r
<1>1. f.l \in Nat /\ f.r \in Nat /\ f.depth \in Nat
  BY DEF Frames
<1> QED BY <1>1 DEF Spread, Stretch

LEMMA FiniteValues ==
  ASSUME NEW o, NEW n \in Nat, NEW P \in SUBSET (1 .. n)
  PROVE  IsFiniteSet(ValuesAt(o, P)) /\ Cardinality(ValuesAt(o, P)) \in Nat
<1> DEFINE V == ValuesAt(o, P)
           m == [i \in P |-> o[i]]
<1>1. IsFiniteSet(P)
  <2>1. IsFiniteSet(1 .. n)
    BY FS_Interval
  <2> QED BY <2>1, FS_Subset
<1>2. m \in Surjection(P, V)
  <2>1. m \in [P -> V]
    BY DEF ValuesAt
  <2>2. \A t \in V : \E s \in P : m[s] = t
    BY DEF ValuesAt
  <2> HIDE DEF m, V
  <2> QED BY <2>1, <2>2 DEF Surjection
<1>3. IsFiniteSet(V)
  <2> HIDE DEF m, V
  <2> QED BY <1>1, <1>2, FS_Surjection
<1> HIDE DEF V
<1>4. Cardinality(V) \in Nat
  BY <1>3, FS_CardinalityType
<1> QED BY <1>3, <1>4 DEF V

(* Keys of one call may change places.                                     *)
LEMMA SettledRearranged ==
  ASSUME NEW o \in Seq(Text), NEW o2, NEW F, NEW c, NEW t \in F,
         Settled(o, F, c), Rearranged(o, o2, Spread(t))
  PROVE  Settled(o2, F, c)
<1> DEFINE n == Len(o)
           P == Spread(t)
<1>1. n \in Nat /\ Len(o2) = n /\ o2 \in Seq(Text)
  BY DEF Rearranged
<1>2. F \subseteq Frames /\ (\A f \in F : f.l <= f.r /\ f.r <= n)
      /\ \A f, g \in F : f # g => Spread(f) \cap Spread(g) = {}
  BY DEF Settled
<1>3. \A f \in F : Spread(f) \in SUBSET (1 .. n)
  BY <1>1, <1>2, SpreadIs
<1>4. ASSUME NEW i \in 1 .. n
      PROVE  \E k \in 1 .. n : /\ o2[i] = o[k]
                               /\ i \in P => k \in P
                               /\ i \notin P => k = i
  BY <1>3 DEF Rearranged
<1>5. ASSUME NEW f \in F, NEW i \in 1 .. n, NEW k \in 1 .. n, i \in P => k \in P, i \notin P => k = i
      PROVE  i \in Spread(f) <=> k \in Spread(f)
  <2>1. CASE f = t
    BY <1>5, <2>1
  <2>2. CASE f # t
    BY <1>2, <1>5, <2>2
  <2> QED BY <2>1, <2>2
<1>6. ASSUME NEW f \in F, NEW i \in Spread(f), NEW j \in Spread(f) PROVE Alike(o2[i], o2[j], f.depth)
  <2>1. i \in 1 .. n /\ j \in 1 .. n
    BY <1>3
  <2>2. PICK k \in 1 .. n : o2[i] = o[k] /\ (i \in P => k \in P) /\ (i \notin P => k = i)
    BY <1>4, <2>1
  <2>3. PICK m \in 1 .. n : o2[j] = o[m] /\ (j \in P => m \in P) /\ (j \notin P => m = j)
    BY <1>4, <2>1
  <2>4. k \in Spread(f) /\ m \in Spread(f)
    BY <1>5, <2>1, <2>2, <2>3
  <2> QED BY <2>2, <2>3, <2>4 DEF Settled
<1>7. ASSUME NEW f \in F, NEW i \in Spread(f), NEW j \in (1 .. n) \ Spread(f) PROVE o2[i] # o2[j]
  <2>1. i \in 1 .. n /\ j \in 1 .. n
    BY <1>3
  <2>2. PICK k \in 1 .. n : o2[i] = o[k] /\ (i \in P => k \in P) /\ (i \notin P => k = i)
    BY <1>4, <2>1
  <2>3. PICK m \in 1 .. n : o2[j] = o[m] /\ (j \in P => m \in P) /\ (j \notin P => m = j)
    BY <1>4, <2>1
  <2>4. k \in Spread(f) /\ m \in (1 .. n) \ Spread(f)
    BY <1>5, <2>1, <2>2, <2>3
  <2> QED BY <2>2, <2>3, <2>4 DEF Settled
<1>8. ASSUME NEW i \in 1 .. n, NEW j \in 1 .. n, i < j, ~ Together(F, i, j)
      PROVE  ~ Less(o2[j], o2[i], 0)
  <2>2. PICK k \in 1 .. n : o2[i] = o[k] /\ (i \in P => k \in P) /\ (i \notin P => k = i)
    BY <1>4
  <2>3. PICK m \in 1 .. n : o2[j] = o[m] /\ (j \in P => m \in P) /\ (j \notin P => m = j)
    BY <1>4
  <2>4. ~ Together(F, k, m)
    BY <1>5, <1>8, <2>2, <2>3 DEF Together
  <2>5. k < m
    <3>1. ~ (i \in P /\ j \in P)
      BY <1>8 DEF Together
    <3>2. t \in Frames /\ t.r <= n
      BY <1>2
    <3>3. /\ t.l \in Nat /\ t.r \in Nat
          /\ \A x \in Nat : x \in P <=> t.l < x /\ x <= t.r
      BY <1>1, <3>2, SpreadIs
    <3>4. i \in Nat /\ j \in Nat /\ k \in Nat /\ m \in Nat
      BY <1>1
    <3>5. CASE i \in P
      BY <1>8, <2>2, <2>3, <3>1, <3>3, <3>4, <3>5
    <3>6. CASE j \in P
      BY <1>8, <2>2, <2>3, <3>1, <3>3, <3>4, <3>6
    <3>7. CASE i \notin P /\ j \notin P
      BY <1>8, <2>2, <2>3, <3>7
    <3> QED BY <3>5, <3>6, <3>7
  <2> QED BY <2>2, <2>3, <2>4, <2>5 DEF Settled
<1>9. ValuesAt(o2, Free(o2, F)) = ValuesAt(o, Free(o, F))
  <2>1. Free(o2, F) = Free(o, F)
    BY <1>1 DEF Free
  <2>2. \A i \in Free(o, F) : o2[i] = o[i]
    BY DEF Free, Rearranged
  <2> QED BY <2>1, <2>2 DEF ValuesAt
<1>10. c = Cardinality(ValuesAt(o2, Free(o2, F)))
  BY <1>9 DEF Settled
<1> QED BY <1>1, <1>2, <1>6, <1>7, <1>8, <1>10 DEF Settled

(* A call that is over, of keys in order.                                  *)
LEMMA SettledOver ==
  ASSUME NEW o \in Seq(Text), NEW F, NEW c, NEW t \in F, Settled(o, F, c),
         \A i, j \in Spread(t) : i < j => ~ Less(o[j], o[i], t.depth)
  PROVE  Settled(o, F \ {t}, c + Cardinality(ValuesAt(o, Spread(t))))
<1> DEFINE n == Len(o)
           G == F \ {t}
<1>1. n \in Nat
  OBVIOUS
<1>2. F \subseteq Frames /\ (\A f \in F : f.l <= f.r /\ f.r <= n)
      /\ \A f, g \in F : f # g => Spread(f) \cap Spread(g) = {}
  BY DEF Settled
<1>3. \A f \in F : Spread(f) \in SUBSET (1 .. n) /\ f.depth \in Nat
  BY <1>1, <1>2, SpreadIs
<1>4. ASSUME NEW i \in 1 .. n, NEW j \in 1 .. n, i < j, ~ Together(G, i, j)
      PROVE  ~ Less(o[j], o[i], 0)
  <2>1. CASE i \in Spread(t) /\ j \in Spread(t)
    <3>1. Alike(o[j], o[i], t.depth)
      BY <2>1 DEF Settled
    <3>2. ~ Less(o[j], o[i], t.depth)
      BY <1>4, <2>1
    <3>3. o[i] \in Text /\ o[j] \in Text /\ t.depth \in Nat
      BY <1>3
    <3> QED BY <3>1, <3>2, <3>3, LessFrom
  <2>2. CASE ~ (i \in Spread(t) /\ j \in Spread(t))
    <3>1. ~ Together(F, i, j)
      BY <1>4, <2>2 DEF Together
    <3> QED BY <1>4, <3>1 DEF Settled
  <2> QED BY <2>1, <2>2
<1>5. Free(o, G) = Free(o, F) \cup Spread(t)
  BY <1>2, <1>3 DEF Free
<1> DEFINE A == ValuesAt(o, Free(o, F))
           B == ValuesAt(o, Spread(t))
<1>6. ValuesAt(o, Free(o, G)) = A \cup B
  BY <1>5 DEF ValuesAt
<1>7. A \cap B = {}
  <2>1. ASSUME NEW i \in Free(o, F), NEW j \in Spread(t) PROVE o[i] # o[j]
    <3>1. i \in (1 .. n) \ Spread(t)
      BY DEF Free
    <3> QED BY <3>1 DEF Settled
  <2> QED BY <2>1 DEF ValuesAt
<1>8. IsFiniteSet(A) /\ Cardinality(A) \in Nat /\ IsFiniteSet(B) /\ Cardinality(B) \in Nat
  <2>1. Free(o, F) \in SUBSET (1 .. n) /\ Spread(t) \in SUBSET (1 .. n)
    BY <1>3 DEF Free
  <2> QED BY <1>1, <2>1, FiniteValues
<1>9. Cardinality(A \cup B) = Cardinality(A) + Cardinality(B)
  <2> HIDE DEF A, B
  <2>1. Cardinality(A \cup B) = Cardinality(A) + Cardinality(B) - Cardinality(A \cap B)
    BY <1>8, FS_Union
  <2>2. Cardinality(A \cap B) = 0
    BY <1>7, FS_EmptySet
  <2> QED BY <1>8, <2>1, <2>2
<1>10. c = Cardinality(A)
  BY DEF Settled
<1>11. c + Cardinality(B) = Cardinality(ValuesAt(o, Free(o, G)))
  <2> HIDE DEF A, B, G
  <2> QED BY <1>6, <1>9, <1>10
<1>12. \A f \in G : \A i, j \in Spread(f) : Alike(o[i], o[j], f.depth)
  BY DEF Settled
<1>13. \A f \in G : \A i \in Spread(f), j \in (1 .. n) \ Spread(f) : o[i] # o[j]
  BY DEF Settled
<1> QED BY <1>2, <1>4, <1>11, <1>12, <1>13 DEF Settled

(* A call parted in three by the labels at its depth.                      *)
AllBelow(o, depth, pivot, P) == \A i \in P : Label(o[i], depth) < pivot

AllAt(o, depth, pivot, P) == \A i \in P : Label(o[i], depth) = pivot

AllAbove(o, depth, pivot, P) == \A i \in P : Label(o[i], depth) > pivot

LEMMA SettledParted ==
  ASSUME NEW o \in Seq(Text), NEW F, NEW c, NEW t \in F, Settled(o, F, c),
         NEW pl \in Nat, NEW pr \in Nat, NEW pivot \in Int, t.l <= pl, pl <= pr, pr <= t.r,
         AllBelow(o, t.depth, pivot, Stretch(t.l, pl)), AllAt(o, t.depth, pivot, Stretch(pl, pr)),
         AllAbove(o, t.depth, pivot, Stretch(pr, t.r)), t.l < t.r
  PROVE  Settled(o, (F \ {t}) \cup {Frame(t.l, pl, t.depth), Frame(pl, pr, t.depth + 1),
                                    Frame(pr, t.r, t.depth)}, c)
<1> DEFINE n == Len(o)
           d == t.depth
           less == Frame(t.l, pl, d)
           equal == Frame(pl, pr, d + 1)
           greater == Frame(pr, t.r, d)
           G == (F \ {t}) \cup {less, equal, greater}
<1>1. n \in Nat
  OBVIOUS
<1>2. F \subseteq Frames /\ (\A f \in F : f.l <= f.r /\ f.r <= n)
      /\ \A f, g \in F : f # g => Spread(f) \cap Spread(g) = {}
  BY DEF Settled
<1>3. \A f \in F : Spread(f) \in SUBSET (1 .. n) /\ f.depth \in Nat /\ f.l \in Nat /\ f.r \in Nat
  BY <1>1, <1>2, SpreadIs
<1>4. /\ less \in Frames /\ less.l = t.l /\ less.r = pl /\ less.depth = d
      /\ equal \in Frames /\ equal.l = pl /\ equal.r = pr /\ equal.depth = d + 1
      /\ greater \in Frames /\ greater.l = pr /\ greater.r = t.r /\ greater.depth = d
  BY <1>3 DEF Frames, Frame
<1>5. /\ Spread(less) = Stretch(t.l, pl) /\ Spread(equal) = Stretch(pl, pr)
      /\ Spread(greater) = Stretch(pr, t.r) /\ Spread(t) = Stretch(t.l, t.r)
  BY <1>4 DEF Spread
<1> HIDE DEF less, equal, greater
<1>6. /\ Spread(t) = Spread(less) \cup Spread(equal) \cup Spread(greater)
      /\ Spread(less) \cap Spread(equal) = {} /\ Spread(less) \cap Spread(greater) = {}
      /\ Spread(equal) \cap Spread(greater) = {}
      /\ \A i \in Spread(less), j \in Spread(equal) \cup Spread(greater) : i < j
      /\ \A i \in Spread(equal), j \in Spread(greater) : i < j
  BY SMTT(30), <1>3, <1>5 DEF Stretch
<1>7. G \subseteq Frames /\ \A f \in G : f.l <= f.r /\ f.r <= n
  BY <1>2, <1>3, <1>4
<1>8. ASSUME NEW f \in G, NEW g \in G, f # g PROVE Spread(f) \cap Spread(g) = {}
  <2>1. CASE f \in F \ {t} /\ g \in F \ {t}
    BY <1>2, <1>8, <2>1
  <2>2. CASE f \in F \ {t} /\ g \in {less, equal, greater}
    BY <1>2, <1>6, <2>2
  <2>3. CASE f \in {less, equal, greater} /\ g \in F \ {t}
    BY <1>2, <1>6, <2>3
  <2>4. CASE f \in {less, equal, greater} /\ g \in {less, equal, greater}
    BY <1>6, <1>8, <2>4
  <2> QED BY <2>1, <2>2, <2>3, <2>4
<1>9. \A i, j \in Spread(t) : Alike(o[i], o[j], d)
  BY DEF Settled
<1>10. ASSUME NEW f \in G, NEW i \in Spread(f), NEW j \in Spread(f) PROVE Alike(o[i], o[j], f.depth)
  <2>1. CASE f \in F \ {t}
    BY <2>1 DEF Settled
  <2>2. CASE f = less \/ f = greater
    BY <1>4, <1>6, <1>9, <2>2
  <2>3. CASE f = equal
    <3>1. Alike(o[i], o[j], d) /\ Label(o[i], d) = Label(o[j], d)
      BY <1>5, <1>6, <1>9, <2>3 DEF AllAt
    <3>2. \A e \in 0 .. (d + 1) - 1 : e \in 0 .. d - 1 \/ e = d
      BY <1>3
    <3> QED BY <1>4, <2>3, <3>1, <3>2 DEF Alike
  <2> QED BY <2>1, <2>2, <2>3
<1>11. ASSUME NEW i \in Spread(t) PROVE Label(o[i], d) \in Int
  <2>1. o[i] \in Text /\ d \in Nat
    BY <1>3
  <2> QED BY <2>1, LabelIs
<1>12. /\ \A i \in Spread(less) : Label(o[i], d) < pivot
       /\ \A i \in Spread(equal) : Label(o[i], d) = pivot
       /\ \A i \in Spread(greater) : Label(o[i], d) > pivot
  BY <1>5 DEF AllBelow, AllAt, AllAbove
<1>13. ASSUME NEW f \in G, NEW i \in Spread(f), NEW j \in (1 .. n) \ Spread(f) PROVE o[i] # o[j]
  <2>1. CASE f \in F \ {t}
    BY <2>1 DEF Settled
  <2>2. CASE f \in {less, equal, greater} /\ j \in Spread(t)
    <3>1. Label(o[i], d) # Label(o[j], d)
      BY <1>6, <1>11, <1>12, <1>13, <2>2
    <3> QED BY <3>1
  <2>3. CASE f \in {less, equal, greater} /\ j \notin Spread(t)
    <3>1. i \in Spread(t)
      BY <1>6, <2>3
    <3> QED BY <2>3, <3>1 DEF Settled
  <2> QED BY <2>1, <2>2, <2>3
<1>14. ASSUME NEW i \in 1 .. n, NEW j \in 1 .. n, i < j, ~ Together(G, i, j)
       PROVE  ~ Less(o[j], o[i], 0)
  <2>1. CASE i \in Spread(t) /\ j \in Spread(t)
    <3>1. Label(o[i], d) < Label(o[j], d)
      <4>1. ~ (i \in Spread(less) /\ j \in Spread(less)) /\ ~ (i \in Spread(equal) /\ j \in Spread(equal))
            /\ ~ (i \in Spread(greater) /\ j \in Spread(greater))
        BY <1>14 DEF Together
      <4>2. Label(o[i], d) \in Int /\ Label(o[j], d) \in Int
        BY <1>11, <2>1
      <4>3. CASE i \in Spread(less)
        BY <1>6, <1>12, <2>1, <4>1, <4>2, <4>3
      <4>4. CASE i \in Spread(equal)
        BY <1>1, <1>6, <1>12, <1>14, <2>1, <4>1, <4>2, <4>4
      <4>5. CASE i \in Spread(greater)
        BY <1>1, <1>6, <1>14, <2>1, <4>1, <4>5
      <4> QED BY <1>6, <2>1, <4>3, <4>4, <4>5
    <3>2. o[i] \in Text /\ o[j] \in Text /\ d \in Nat /\ Alike(o[i], o[j], d)
      BY <1>3, <1>9, <2>1
    <3> QED BY <3>1, <3>2, GreaterAt
  <2>2. CASE ~ (i \in Spread(t) /\ j \in Spread(t))
    <3>1. ~ Together(F, i, j)
      BY <1>14, <2>2 DEF Together
    <3> QED BY <1>14, <3>1 DEF Settled
  <2> QED BY <2>1, <2>2
<1>15. Free(o, G) = Free(o, F)
  BY <1>6 DEF Free
<1>16. c = Cardinality(ValuesAt(o, Free(o, G)))
  BY <1>15 DEF Settled
<1> HIDE DEF G
<1>17. Settled(o, G, c)
  BY <1>7, <1>8, <1>10, <1>13, <1>14, <1>16 DEF Settled
<1> QED BY <1>17 DEF G, less, equal, greater

-----------------------------------------------------------------------------
(* The two loops that gather the equal keys of both ends in the middle: w  *)
(* has the keys after every step of the one, u after every step of the     *)
(* other.                                                                  *)
Lowering(w, o, m, p, q) ==
  w = [k \in 0 .. m |-> IF k = 0 THEN o ELSE Exchanged(w[k - 1], p - k, q - k)]

Raising(u, o, m, p, q) ==
  u = [k \in 0 .. m |-> IF k = 0 THEN o ELSE Exchanged(u[k - 1], p + k - 1, q + k - 1)]

LEMMA ExchangedKeeps ==
  ASSUME NEW n \in Nat, NEW o \in [1 .. n -> Text], NEW i \in 0 .. n - 1, NEW j \in 0 .. n - 1
  PROVE  Exchanged(o, i, j) \in [1 .. n -> Text]
<1>1. i + 1 \in 1 .. n /\ j + 1 \in 1 .. n
  OBVIOUS
<1> QED BY <1>1 DEF Exchanged

LEMMA LoweringExists ==
  ASSUME NEW n \in Nat, NEW o \in [1 .. n -> Text], NEW m \in Nat, NEW p \in Nat, NEW q \in Nat,
         m <= p, m <= q, p <= n, q <= n
  PROVE  \E w : Lowering(w, o, m, p, q)
<1> DEFINE S == [1 .. n -> Text]
           step == [x \in Nat \X S |-> IF x[1] \in 1 .. m THEN Exchanged(x[2], p - x[1], q - x[1]) ELSE x[2]]
           back == [k \in Nat |-> IF k = 0 THEN 0 ELSE k - 1]
<1>1. step \in [Nat \X S -> S]
  <2>1. ASSUME NEW k \in 1 .. m, NEW s \in S PROVE Exchanged(s, p - k, q - k) \in S
    <3>1. p - k \in 0 .. n - 1 /\ q - k \in 0 .. n - 1
      OBVIOUS
    <3> QED BY <3>1, ExchangedKeeps
  <2> HIDE DEF S
  <2> QED BY <2>1
<1>2. Falls(back)
  BY DEF Falls
<1>3. PICK f : Follows(f, S, o, step, back)
  <2> HIDE DEF S, step, back
  <2>1. o \in S
    BY DEF S
  <2> QED BY <1>1, <1>2, <2>1, RecursionExists
<1> DEFINE w == [k \in 0 .. m |-> f[k]]
<1>4. ASSUME NEW k \in 0 .. m
      PROVE  f[k] = IF k = 0 THEN o ELSE Exchanged(w[k - 1], p - k, q - k)
  <2>1. CASE k = 0
    BY <1>3, <2>1 DEF Follows
  <2>2. CASE k # 0
    <3>1. k \in Nat \ {0} /\ back[k] = k - 1 /\ k - 1 \in Nat /\ k \in 1 .. m /\ k - 1 \in 0 .. m
      BY <2>2
    <3>2. f[k] = step[<<k, f[k - 1]>>] /\ f[k - 1] \in S
      <4> HIDE DEF S, step
      <4> QED BY <1>3, <3>1 DEF Follows
    <3>3. step[<<k, f[k - 1]>>] = Exchanged(f[k - 1], p - k, q - k)
      <4> HIDE DEF S
      <4> QED BY <3>1, <3>2
    <3> HIDE DEF step, back, S
    <3> QED BY <2>2, <3>1, <3>2, <3>3
  <2> QED BY <2>1, <2>2
<1>5. w = [k \in 0 .. m |-> IF k = 0 THEN o ELSE Exchanged(w[k - 1], p - k, q - k)]
  BY <1>4
<1> HIDE DEF w
<1> QED BY <1>5 DEF Lowering

LEMMA RaisingExists ==
  ASSUME NEW n \in Nat, NEW o \in [1 .. n -> Text], NEW m \in Nat, NEW p \in Nat, NEW q \in Nat,
         p + m <= n, q + m <= n
  PROVE  \E u : Raising(u, o, m, p, q)
<1> DEFINE S == [1 .. n -> Text]
           step == [x \in Nat \X S |->
                      IF x[1] \in 1 .. m THEN Exchanged(x[2], p + x[1] - 1, q + x[1] - 1) ELSE x[2]]
           back == [k \in Nat |-> IF k = 0 THEN 0 ELSE k - 1]
<1>1. step \in [Nat \X S -> S]
  <2>1. ASSUME NEW k \in 1 .. m, NEW s \in S PROVE Exchanged(s, p + k - 1, q + k - 1) \in S
    <3>1. p + k - 1 \in 0 .. n - 1 /\ q + k - 1 \in 0 .. n - 1
      OBVIOUS
    <3> QED BY <3>1, ExchangedKeeps
  <2> HIDE DEF S
  <2> QED BY <2>1
<1>2. Falls(back)
  BY DEF Falls
<1>3. PICK f : Follows(f, S, o, step, back)
  <2> HIDE DEF S, step, back
  <2>1. o \in S
    BY DEF S
  <2> QED BY <1>1, <1>2, <2>1, RecursionExists
<1> DEFINE u == [k \in 0 .. m |-> f[k]]
<1>4. ASSUME NEW k \in 0 .. m
      PROVE  f[k] = IF k = 0 THEN o ELSE Exchanged(u[k - 1], p + k - 1, q + k - 1)
  <2>1. CASE k = 0
    BY <1>3, <2>1 DEF Follows
  <2>2. CASE k # 0
    <3>1. k \in Nat \ {0} /\ back[k] = k - 1 /\ k - 1 \in Nat /\ k \in 1 .. m /\ k - 1 \in 0 .. m
      BY <2>2
    <3>2. f[k] = step[<<k, f[k - 1]>>] /\ f[k - 1] \in S
      <4> HIDE DEF S, step
      <4> QED BY <1>3, <3>1 DEF Follows
    <3>3. step[<<k, f[k - 1]>>] = Exchanged(f[k - 1], p + k - 1, q + k - 1)
      <4> HIDE DEF S
      <4> QED BY <3>1, <3>2
    <3> HIDE DEF step, back, S
    <3> QED BY <2>2, <3>1, <3>2, <3>3
  <2> QED BY <2>1, <2>2
<1>5. u = [k \in 0 .. m |-> IF k = 0 THEN o ELSE Exchanged(u[k - 1], p + k - 1, q + k - 1)]
  BY <1>4
<1> HIDE DEF u
<1> QED BY <1>5 DEF Raising

(* After k steps of the first loop, and after k of the second.             *)
LoweredTo(w, o, d, pivot, P, l, left, pl, k) ==
  /\ Rearranged(o, w[k], P)
  /\ AllAt(w[k], d, pivot, Stretch(l, left - k)) /\ AllBelow(w[k], d, pivot, Stretch(left - k, pl - k))
  /\ AllAt(w[k], d, pivot, Stretch(pl - k, pl))
  /\ \A i \in Stretch(pl, Len(o)) : w[k][i] = o[i]

RaisedTo(u, o, d, pivot, P, r, right, pr, k) ==
  /\ Rearranged(o, u[k], P)
  /\ AllAt(u[k], d, pivot, Stretch(right + k, r)) /\ AllAbove(u[k], d, pivot, Stretch(pr + k, right + k))
  /\ AllAt(u[k], d, pivot, Stretch(pr, pr + k))
  /\ \A i \in Stretch(0, pr) : u[k][i] = o[i]

LEMMA LoweredStep ==
  ASSUME NEW o \in Seq(Text), NEW l \in Nat, NEW left \in Nat, NEW pl \in Nat, NEW r \in Nat,
         l <= left, left <= pl, pl <= r, r <= Len(o), NEW d, NEW pivot, NEW w,
         NEW k \in 1 .. left - l, w[k] = Exchanged(w[k - 1], left - k, pl - k),
         LoweredTo(w, o, d, pivot, Stretch(l, r), l, left, pl, k - 1)
  PROVE  LoweredTo(w, o, d, pivot, Stretch(l, r), l, left, pl, k)
<1> DEFINE P == Stretch(l, r)
<1>1. PICK v : v = w[k - 1]
  OBVIOUS
<1>2. PICK x : x = w[k]
  OBVIOUS
<1>3. v \in Seq(Text) /\ Len(v) = Len(o) /\ Len(o) \in Nat /\ Rearranged(o, v, P)
  <2>1. Rearranged(o, v, P)
    BY <1>1 DEF LoweredTo
  <2> HIDE DEF P
  <2>2. v \in Seq(Text) /\ Len(v) = Len(o)
    BY <2>1 DEF Rearranged
  <2> QED BY <2>1, <2>2
<1>4. PICK i, j : i = left - k /\ j = pl - k
  OBVIOUS
<1>5. /\ i \in Nat /\ j \in Nat /\ i + 1 \in P /\ j + 1 \in P /\ P \in SUBSET (1 .. Len(v))
      /\ x = Exchanged(v, i, j)
  BY SMTT(30), <1>1, <1>2, <1>3, <1>4 DEF Stretch
<1>6. /\ Rearranged(v, x, P) /\ x[i + 1] = v[j + 1] /\ x[j + 1] = v[i + 1]
      /\ \A h \in 1 .. Len(v) : h # i + 1 /\ h # j + 1 => x[h] = v[h]
  <2>1. i + 1 \in 1 .. Len(v) /\ j + 1 \in 1 .. Len(v)
    BY <1>5
  <2> HIDE DEF P
  <2>2. Rearranged(v, x, P)
    BY <1>3, <1>5, ExchangedKeys
  <2> QED BY SMTT(30), <1>3, <1>5, <2>1, <2>2, ExchangedAt
<1>7. Rearranged(o, x, P)
  BY <1>3, <1>6, RearrangedTwice
<1>8. /\ AllAt(v, d, pivot, Stretch(l, i + 1)) /\ AllBelow(v, d, pivot, Stretch(i + 1, j + 1))
      /\ AllAt(v, d, pivot, Stretch(j + 1, pl)) /\ \A h \in Stretch(pl, Len(o)) : v[h] = o[h]
  <2>1. left - (k - 1) = i + 1 /\ pl - (k - 1) = j + 1
    BY <1>4
  <2> QED BY <1>1, <2>1 DEF LoweredTo
<1>9. l <= i /\ i <= j /\ j + 1 <= pl /\ pl <= Len(v)
  BY <1>3, <1>4
<1>10. Label(v[i + 1], d) = pivot
  <2>1. i + 1 \in Stretch(l, i + 1)
    BY <1>5, <1>9 DEF Stretch
  <2> QED BY <1>8, <2>1 DEF AllAt
<1>11. i # j => Label(v[j + 1], d) < pivot
  <2>1. SUFFICES ASSUME i # j PROVE Label(v[j + 1], d) < pivot
    OBVIOUS
  <2>2. j + 1 \in Stretch(i + 1, j + 1)
    BY <1>5, <1>9, <2>1 DEF Stretch
  <2> QED BY <1>8, <2>2 DEF AllBelow
<1>12. AllAt(x, d, pivot, Stretch(l, i))
  <2>1. ASSUME NEW h \in Stretch(l, i) PROVE Label(x[h], d) = pivot
    <3>1. h \in Stretch(l, i + 1) /\ h \in 1 .. Len(v) /\ h # i + 1 /\ h # j + 1
      BY <1>3, <1>5, <1>9 DEF Stretch
    <3> QED BY <1>6, <1>8, <3>1 DEF AllAt
  <2> QED BY <2>1 DEF AllAt
<1>13. ASSUME NEW h \in Stretch(i, j) PROVE Label(x[h], d) < pivot
  <2>1. h \in 1 .. Len(v) /\ i + 1 <= h /\ h <= j
    BY <1>3, <1>5, <1>9 DEF Stretch
  <2>2. CASE h = i + 1
    BY <1>5, <1>6, <1>11, <2>1, <2>2
  <2>3. CASE h # i + 1
    <3>1. h \in Stretch(i + 1, j + 1) /\ h # j + 1
      BY <1>5, <2>1, <2>3 DEF Stretch
    <3> QED BY <1>6, <1>8, <2>1, <2>3, <3>1 DEF AllBelow
  <2> QED BY <2>2, <2>3
<1>14. ASSUME NEW h \in Stretch(j, pl) PROVE Label(x[h], d) = pivot
  <2>1. h \in 1 .. Len(v) /\ j + 1 <= h /\ h <= pl
    BY <1>3, <1>5, <1>9 DEF Stretch
  <2>2. CASE h = j + 1
    BY <1>6, <1>10, <2>2
  <2>3. CASE h # j + 1
    <3>1. h \in Stretch(j + 1, pl) /\ h # i + 1
      BY <1>5, <1>9, <2>1, <2>3 DEF Stretch
    <3> QED BY <1>6, <1>8, <2>1, <2>3, <3>1 DEF AllAt
  <2> QED BY <2>2, <2>3
<1>15. ASSUME NEW h \in Stretch(pl, Len(o)) PROVE x[h] = o[h]
  <2>1. h \in 1 .. Len(v) /\ h # i + 1 /\ h # j + 1
    BY <1>3, <1>5, <1>9 DEF Stretch
  <2> QED BY <1>6, <1>8, <2>1
<1>16. AllAt(x, d, pivot, Stretch(j, pl)) /\ AllBelow(x, d, pivot, Stretch(i, j))
  BY <1>13, <1>14 DEF AllAt, AllBelow
<1> HIDE DEF P
<1> QED BY <1>2, <1>4, <1>7, <1>12, <1>15, <1>16 DEF LoweredTo, P

LEMMA Lowered ==
  ASSUME NEW o \in Seq(Text), NEW l \in Nat, NEW left \in Nat, NEW pl \in Nat, NEW r \in Nat,
         l <= left, left <= pl, pl <= r, r <= Len(o), NEW d, NEW pivot, NEW w,
         AllAt(o, d, pivot, Stretch(l, left)), AllBelow(o, d, pivot, Stretch(left, pl)),
         Lowering(w, o, left - l, left, pl)
  PROVE  LoweredTo(w, o, d, pivot, Stretch(l, r), l, left, pl, left - l)
<1> DEFINE T == {k \in 0 .. left - l : ~ LoweredTo(w, o, d, pivot, Stretch(l, r), l, left, pl, k)}
<1>1. SUFFICES ASSUME T # {} PROVE FALSE
  OBVIOUS
<1>2. PICK k \in T : \A h \in T : k <= h
  <2> HIDE DEF T
  <2>1. T \in SUBSET Nat
    BY DEF T
  <2> QED BY <1>1, <2>1, LeastNumber
<1>3. k \in Nat /\ k <= left - l /\ ~ LoweredTo(w, o, d, pivot, Stretch(l, r), l, left, pl, k)
  OBVIOUS
<1>4. k # 0
  <2>1. SUFFICES ASSUME k = 0 PROVE FALSE
    OBVIOUS
  <2>2. w[0] = o
    BY DEF Lowering
  <2>3. left - 0 = left /\ pl - 0 = pl /\ Rearranged(o, o, Stretch(l, r)) /\ Stretch(pl, pl) = {}
    BY SameKeys DEF Stretch
  <2>4. LoweredTo(w, o, d, pivot, Stretch(l, r), l, left, pl, 0)
    <3>1. AllAt(o, d, pivot, {})
      BY DEF AllAt
    <3> QED BY <2>2, <2>3, <3>1 DEF LoweredTo
  <2> QED BY <1>3, <2>1, <2>4
<1>5. k \in 1 .. left - l /\ k - 1 \in 0 .. left - l /\ k - 1 \notin T
  <2>1. k \in 1 .. left - l /\ k - 1 \in 0 .. left - l /\ ~ (k <= k - 1)
    BY <1>3, <1>4
  <2> HIDE DEF T
  <2> QED BY <1>2, <2>1
<1>6. w[k] = Exchanged(w[k - 1], left - k, pl - k)
  BY <1>5 DEF Lowering
<1>7. LoweredTo(w, o, d, pivot, Stretch(l, r), l, left, pl, k - 1)
  BY <1>5
<1> HIDE DEF T
<1> QED BY <1>3, <1>5, <1>6, <1>7, LoweredStep

LEMMA RaisedStep ==
  ASSUME NEW o \in Seq(Text), NEW l \in Nat, NEW right \in Nat, NEW pr \in Nat, NEW r \in Nat,
         l <= pr, pr <= right, right <= r, r <= Len(o), NEW d, NEW pivot, NEW u,
         NEW k \in 1 .. r - right, u[k] = Exchanged(u[k - 1], right + k - 1, pr + k - 1),
         RaisedTo(u, o, d, pivot, Stretch(l, r), r, right, pr, k - 1)
  PROVE  RaisedTo(u, o, d, pivot, Stretch(l, r), r, right, pr, k)
<1> DEFINE P == Stretch(l, r)
<1>1. PICK v : v = u[k - 1]
  OBVIOUS
<1>2. PICK x : x = u[k]
  OBVIOUS
<1>3. v \in Seq(Text) /\ Len(v) = Len(o) /\ Len(o) \in Nat /\ Rearranged(o, v, P)
  <2>1. Rearranged(o, v, P)
    BY <1>1 DEF RaisedTo
  <2> HIDE DEF P
  <2>2. v \in Seq(Text) /\ Len(v) = Len(o)
    BY <2>1 DEF Rearranged
  <2> QED BY <2>1, <2>2
<1>4. PICK i, j : i = right + k - 1 /\ j = pr + k - 1
  OBVIOUS
<1>5. /\ i \in Nat /\ j \in Nat /\ i + 1 \in P /\ j + 1 \in P /\ P \in SUBSET (1 .. Len(v))
      /\ x = Exchanged(v, i, j)
  BY SMTT(30), <1>1, <1>2, <1>3, <1>4 DEF Stretch
<1>6. /\ Rearranged(v, x, P) /\ x[i + 1] = v[j + 1] /\ x[j + 1] = v[i + 1]
      /\ \A h \in 1 .. Len(v) : h # i + 1 /\ h # j + 1 => x[h] = v[h]
  <2>1. i + 1 \in 1 .. Len(v) /\ j + 1 \in 1 .. Len(v)
    BY <1>5
  <2> HIDE DEF P
  <2>2. Rearranged(v, x, P)
    BY <1>3, <1>5, ExchangedKeys
  <2> QED BY SMTT(30), <1>3, <1>5, <2>1, <2>2, ExchangedAt
<1>7. Rearranged(o, x, P)
  BY <1>3, <1>6, RearrangedTwice
<1>8. /\ AllAt(v, d, pivot, Stretch(i, r)) /\ AllAbove(v, d, pivot, Stretch(j, i))
      /\ AllAt(v, d, pivot, Stretch(pr, j)) /\ \A h \in Stretch(0, pr) : v[h] = o[h]
  <2>1. right + (k - 1) = i /\ pr + (k - 1) = j
    BY <1>4
  <2> QED BY <1>1, <2>1 DEF RaisedTo
<1>9. pr <= j /\ j <= i /\ i + 1 <= r /\ r <= Len(v)
  BY <1>3, <1>4
<1>10. Label(v[i + 1], d) = pivot
  <2>1. i + 1 \in Stretch(i, r)
    BY <1>5, <1>9 DEF Stretch
  <2> QED BY <1>8, <2>1 DEF AllAt
<1>11. i # j => Label(v[j + 1], d) > pivot
  <2>1. SUFFICES ASSUME i # j PROVE Label(v[j + 1], d) > pivot
    OBVIOUS
  <2>2. j + 1 \in Stretch(j, i)
    BY <1>5, <1>9, <2>1 DEF Stretch
  <2> QED BY <1>8, <2>2 DEF AllAbove
<1>12. AllAt(x, d, pivot, Stretch(i + 1, r))
  <2>1. ASSUME NEW h \in Stretch(i + 1, r) PROVE Label(x[h], d) = pivot
    <3>1. h \in Stretch(i, r) /\ h \in 1 .. Len(v) /\ h # i + 1 /\ h # j + 1
      BY <1>3, <1>5, <1>9 DEF Stretch
    <3> QED BY <1>6, <1>8, <3>1 DEF AllAt
  <2> QED BY <2>1 DEF AllAt
<1>13. ASSUME NEW h \in Stretch(j + 1, i + 1) PROVE Label(x[h], d) > pivot
  <2>1. h \in 1 .. Len(v) /\ j + 2 <= h /\ h <= i + 1
    BY <1>3, <1>5, <1>9 DEF Stretch
  <2>2. CASE h = i + 1
    BY <1>5, <1>6, <1>11, <2>1, <2>2
  <2>3. CASE h # i + 1
    <3>1. h \in Stretch(j, i) /\ h # j + 1
      BY <1>5, <2>1, <2>3 DEF Stretch
    <3> QED BY <1>6, <1>8, <2>1, <2>3, <3>1 DEF AllAbove
  <2> QED BY <2>2, <2>3
<1>14. ASSUME NEW h \in Stretch(pr, j + 1) PROVE Label(x[h], d) = pivot
  <2>1. h \in 1 .. Len(v) /\ pr + 1 <= h /\ h <= j + 1
    BY <1>3, <1>5, <1>9 DEF Stretch
  <2>2. CASE h = j + 1
    BY <1>6, <1>10, <2>2
  <2>3. CASE h # j + 1
    <3>1. h \in Stretch(pr, j) /\ h # i + 1
      BY <1>5, <1>9, <2>1, <2>3 DEF Stretch
    <3> QED BY <1>6, <1>8, <2>1, <2>3, <3>1 DEF AllAt
  <2> QED BY <2>2, <2>3
<1>15. ASSUME NEW h \in Stretch(0, pr) PROVE x[h] = o[h]
  <2>1. h \in 1 .. Len(v) /\ h # i + 1 /\ h # j + 1
    BY <1>3, <1>5, <1>9 DEF Stretch
  <2> QED BY <1>6, <1>8, <2>1
<1>16. AllAt(x, d, pivot, Stretch(pr, j + 1)) /\ AllAbove(x, d, pivot, Stretch(j + 1, i + 1))
  BY <1>13, <1>14 DEF AllAt, AllAbove
<1>17. right + k = i + 1 /\ pr + k = j + 1
  BY <1>4
<1> HIDE DEF P
<1> QED BY <1>2, <1>7, <1>12, <1>15, <1>16, <1>17 DEF RaisedTo, P

LEMMA Raised ==
  ASSUME NEW o \in Seq(Text), NEW l \in Nat, NEW right \in Nat, NEW pr \in Nat, NEW r \in Nat,
         l <= pr, pr <= right, right <= r, r <= Len(o), NEW d, NEW pivot, NEW u,
         AllAt(o, d, pivot, Stretch(right, r)), AllAbove(o, d, pivot, Stretch(pr, right)),
         Raising(u, o, r - right, right, pr)
  PROVE  RaisedTo(u, o, d, pivot, Stretch(l, r), r, right, pr, r - right)
<1> DEFINE T == {k \in 0 .. r - right : ~ RaisedTo(u, o, d, pivot, Stretch(l, r), r, right, pr, k)}
<1>1. SUFFICES ASSUME T # {} PROVE FALSE
  OBVIOUS
<1>2. PICK k \in T : \A h \in T : k <= h
  <2> HIDE DEF T
  <2>1. T \in SUBSET Nat
    BY DEF T
  <2> QED BY <1>1, <2>1, LeastNumber
<1>3. k \in Nat /\ k <= r - right /\ ~ RaisedTo(u, o, d, pivot, Stretch(l, r), r, right, pr, k)
  OBVIOUS
<1>4. k # 0
  <2>1. SUFFICES ASSUME k = 0 PROVE FALSE
    OBVIOUS
  <2>2. u[0] = o
    BY DEF Raising
  <2>3. right + 0 = right /\ pr + 0 = pr /\ Rearranged(o, o, Stretch(l, r)) /\ Stretch(pr, pr) = {}
    BY SameKeys DEF Stretch
  <2>4. RaisedTo(u, o, d, pivot, Stretch(l, r), r, right, pr, 0)
    <3>1. AllAt(o, d, pivot, {})
      BY DEF AllAt
    <3> QED BY <2>2, <2>3, <3>1 DEF RaisedTo
  <2> QED BY <1>3, <2>1, <2>4
<1>5. k \in 1 .. r - right /\ k - 1 \in 0 .. r - right /\ k - 1 \notin T
  <2>1. k \in 1 .. r - right /\ k - 1 \in 0 .. r - right /\ ~ (k <= k - 1)
    BY <1>3, <1>4
  <2> HIDE DEF T
  <2> QED BY <1>2, <2>1
<1>6. u[k] = Exchanged(u[k - 1], right + k - 1, pr + k - 1)
  BY <1>5 DEF Raising
<1>7. RaisedTo(u, o, d, pivot, Stretch(l, r), r, right, pr, k - 1)
  BY <1>5
<1> HIDE DEF T
<1> QED BY <1>3, <1>5, <1>6, <1>7, RaisedStep

-----------------------------------------------------------------------------
(* The calls on the stack, each there once.                                *)
CallsOf(s) == {s[i] : i \in 1 .. Len(s)}

OneEach(s) == \A i, j \in 1 .. Len(s) : s[i] = s[j] => i = j

Pended(part, ended) == IF Open(part, ended) THEN {part} ELSE {}

LEMMA ResumedIs ==
  ASSUME NEW calls \in Seq(Frames), NEW part \in Frames, NEW ended
  PROVE  /\ Resumed(part, ended, calls) \in Seq(Frames)
         /\ CallsOf(Resumed(part, ended, calls)) = CallsOf(calls) \cup Pended(part, ended)
         /\ OneEach(calls) /\ part \notin CallsOf(calls) => OneEach(Resumed(part, ended, calls))
<1>1. CASE ~ Open(part, ended)
  BY <1>1 DEF Resumed, Pended
<1>2. CASE Open(part, ended)
  <2>1. PICK s : s = <<part>> \o calls
    OBVIOUS
  <2>2. /\ s \in Seq(Frames) /\ Len(s) = Len(calls) + 1 /\ s[1] = part
        /\ Len(calls) \in Nat /\ \A i \in 1 .. Len(calls) : s[i + 1] = calls[i]
    BY <2>1
  <2>3. \A i \in 2 .. Len(s) : s[i] = calls[i - 1] /\ i - 1 \in 1 .. Len(calls)
    <3>1. ASSUME NEW i \in 2 .. Len(s) PROVE s[i] = calls[i - 1] /\ i - 1 \in 1 .. Len(calls)
      <4>1. i - 1 \in 1 .. Len(calls) /\ (i - 1) + 1 = i
        BY <2>2
      <4> QED BY <2>2, <4>1
    <3> QED BY <3>1
  <2>4. CallsOf(s) = CallsOf(calls) \cup {part}
    <3>1. ASSUME NEW x \in CallsOf(s) PROVE x \in CallsOf(calls) \cup {part}
      <4>1. PICK i \in 1 .. Len(s) : x = s[i]
        BY DEF CallsOf
      <4>2. CASE i = 1
        BY <2>2, <4>1, <4>2
      <4>3. CASE i # 1
        <5>1. i \in 2 .. Len(s)
          BY <2>2, <4>3
        <5> QED BY <2>3, <4>1, <5>1 DEF CallsOf
      <4> QED BY <4>2, <4>3
    <3>2. ASSUME NEW x \in CallsOf(calls) PROVE x \in CallsOf(s)
      <4>1. PICK i \in 1 .. Len(calls) : x = calls[i]
        BY DEF CallsOf
      <4>2. i + 1 \in 1 .. Len(s) /\ s[i + 1] = x
        BY <2>2, <4>1
      <4> QED BY <4>2 DEF CallsOf
    <3>3. part \in CallsOf(s)
      <4>1. 1 \in 1 .. Len(s)
        BY <2>2
      <4> QED BY <2>2, <4>1 DEF CallsOf
    <3> QED BY <3>1, <3>2, <3>3
  <2>5. ASSUME OneEach(calls), part \notin CallsOf(calls),
               NEW i \in 1 .. Len(s), NEW j \in 1 .. Len(s), s[i] = s[j]
        PROVE  i = j
    <3>1. \A k \in 2 .. Len(s) : s[k] # part
      BY <2>3, <2>5 DEF CallsOf
    <3>2. CASE i = 1 \/ j = 1
      <4>1. i \in 2 .. Len(s) \/ i = 1
        BY <2>2
      <4>2. j \in 2 .. Len(s) \/ j = 1
        BY <2>2
      <4> QED BY <2>2, <2>5, <3>1, <3>2, <4>1, <4>2
    <3>3. CASE i # 1 /\ j # 1
      <4>1. i \in 2 .. Len(s) /\ j \in 2 .. Len(s)
        BY <2>2, <3>3
      <4>2. calls[i - 1] = calls[j - 1] /\ i - 1 \in 1 .. Len(calls) /\ j - 1 \in 1 .. Len(calls)
        BY <2>3, <2>5, <4>1
      <4>3. i - 1 = j - 1
        BY <2>5, <4>2 DEF OneEach
      <4> QED BY <4>3
    <3> QED BY <3>2, <3>3
  <2>6. Resumed(part, ended, calls) = s /\ Pended(part, ended) = {part}
    BY <1>2, <2>1 DEF Resumed, Pended
  <2>7. OneEach(calls) /\ part \notin CallsOf(calls) => OneEach(s)
    BY <2>5 DEF OneEach
  <2> QED BY <2>2, <2>4, <2>6, <2>7
<1> QED BY <1>1, <1>2

LEMMA NotLessThanItself ==
  ASSUME NEW s \in Text, NEW d \in Nat
  PROVE  ~ Less(s, s, d)
<1>1. SUFFICES ASSUME Less(s, s, d) PROVE FALSE
  OBVIOUS
<1>2. PICK e \in d .. Len(s) : Label(s, e) < Label(s, e)
  BY <1>1 DEF Less
<1>3. e \in Nat
  <2>1. Len(s) \in Nat
    BY DEF Text
  <2> QED BY <2>1
<1>4. Label(s, e) \in Int
  BY <1>3, LabelIs
<1> QED BY <1>2, <1>4

LEMMA CountIs ==
  ASSUME NEW o \in Seq(Text), NEW F, NEW c, Settled(o, F, c)
  PROVE  c \in Nat
<1>1. Len(o) \in Nat /\ Free(o, F) \in SUBSET (1 .. Len(o))
  BY DEF Free
<1>2. Cardinality(ValuesAt(o, Free(o, F))) \in Nat
  BY <1>1, FiniteValues
<1> QED BY <1>2 DEF Settled

(* A part is sorted in turn, or is over and counted.                       *)
LEMMA PartOver ==
  ASSUME NEW o \in Seq(Text), NEW F, NEW c, NEW t \in F, Settled(o, F, c), NEW ended \in BOOLEAN,
         ended => \A i, j \in Spread(t) : o[i] = o[j]
  PROVE  Settled(o, (F \ {t}) \cup Pended(t, ended), c + Counted(t, ended))
<1>1. c \in Nat
  BY CountIs
<1>2. t \in Frames /\ t.l <= t.r /\ t.r <= Len(o) /\ Len(o) \in Nat
  BY DEF Settled
<1>3. /\ Spread(t) \in SUBSET (1 .. Len(o)) /\ t.l \in Nat /\ t.r \in Nat /\ t.depth \in Nat
      /\ \A i \in Nat : i \in Spread(t) <=> t.l < i /\ i <= t.r
  BY <1>2, SpreadIs
<1>4. CASE Open(t, ended)
  <2>1. (F \ {t}) \cup Pended(t, ended) = F
    BY <1>4 DEF Pended
  <2>2. c + Counted(t, ended) = c
    BY <1>1, <1>4 DEF Counted
  <2> QED BY <2>1, <2>2
<1>5. CASE ~ Open(t, ended)
  <2>1. (F \ {t}) \cup Pended(t, ended) = F \ {t}
    BY <1>5 DEF Pended
  <2>2. \A i, j \in Spread(t) : o[i] = o[j]
    <3>1. CASE ended
      BY <3>1
    <3>2. CASE ~ ended
      <4>1. t.r - t.l <= 1
        BY <1>3, <1>5, <3>2 DEF Open
      <4>2. ASSUME NEW i \in Spread(t) PROVE i = t.r
        BY <1>2, <1>3, <4>1
      <4> QED BY <4>2
    <3> QED BY <3>1, <3>2
  <2>3. \A i, j \in Spread(t) : i < j => ~ Less(o[j], o[i], t.depth)
    <3>1. ASSUME NEW i \in Spread(t), NEW j \in Spread(t) PROVE ~ Less(o[j], o[i], t.depth)
      <4>1. o[j] \in Text /\ o[i] = o[j]
        BY <1>3, <2>2
      <4> QED BY <1>3, <4>1, NotLessThanItself
    <3> QED BY <3>1
  <2>4. Settled(o, F \ {t}, c + Cardinality(ValuesAt(o, Spread(t))))
    BY <2>3, SettledOver
  <2>5. Cardinality(ValuesAt(o, Spread(t))) = Counted(t, ended)
    <3>1. CASE t.r > t.l
      <4>1. t.r \in Spread(t)
        BY <1>3, <3>1
      <4>2. ValuesAt(o, Spread(t)) = {o[t.r]}
        BY <2>2, <4>1 DEF ValuesAt
      <4>3. Counted(t, ended) = 1
        BY <1>5, <3>1 DEF Counted
      <4> QED BY <4>2, <4>3, FS_Singleton
    <3>2. CASE ~ (t.r > t.l)
      <4>1. Spread(t) = {}
        BY <1>3, <3>2
      <4>2. ValuesAt(o, Spread(t)) = {}
        BY <4>1 DEF ValuesAt
      <4>3. Counted(t, ended) = 0
        BY <3>2 DEF Counted
      <4> QED BY <4>2, <4>3, FS_EmptySet
    <3> QED BY <3>1, <3>2
  <2> QED BY <2>1, <2>4, <2>5
<1> QED BY <1>4, <1>5

LEMMA MedianIs ==
  ASSUME NEW x \in Int, NEW y \in Int, NEW z \in Int
  PROVE  Median(x, y, z) \in Int
<1> DEFINE Middle(m) == \E a, b \in {x, y, z} : a <= m /\ m <= b /\ {a, m, b} = {x, y, z}
<1>1. \E m \in {x, y, z} : Middle(m)
  <2>1. CASE (x <= y /\ y <= z) \/ (z <= y /\ y <= x)
    <3>1. {x, y, z} = {z, y, x}
      OBVIOUS
    <3>2. Middle(y)
      BY <2>1, <3>1
    <3> HIDE DEF Middle
    <3> QED BY <3>2
  <2>2. CASE (y <= x /\ x <= z) \/ (z <= x /\ x <= y)
    <3>1. {x, y, z} = {y, x, z} /\ {x, y, z} = {z, x, y}
      OBVIOUS
    <3>2. Middle(x)
      BY <2>2, <3>1
    <3> HIDE DEF Middle
    <3> QED BY <3>2
  <2>3. CASE (x <= z /\ z <= y) \/ (y <= z /\ z <= x)
    <3>1. {x, y, z} = {x, z, y} /\ {x, y, z} = {y, z, x}
      OBVIOUS
    <3>2. Middle(z)
      BY <2>3, <3>1
    <3> HIDE DEF Middle
    <3> QED BY <3>2
  <2> QED BY <2>1, <2>2, <2>3
<1>2. Median(x, y, z) = CHOOSE m \in {x, y, z} : Middle(m)
  BY DEF Median
<1> HIDE DEF Middle
<1>3. Median(x, y, z) \in {x, y, z}
  BY <1>1, <1>2
<1> QED BY <1>3

-----------------------------------------------------------------------------
(* The state of the sort: the calls on the stack, and a pass under way.    *)
Scans == [up : BOOLEAN, pl : Nat, pr : Nat, left : Nat, right : Nat, pivot : Int]

InPass(o, t, left, pl, pr, right, pivot) ==
  /\ t.l <= left /\ left <= pl /\ pl <= pr /\ pr <= right /\ right <= t.r
  /\ AllAt(o, t.depth, pivot, Stretch(t.l, left)) /\ AllBelow(o, t.depth, pivot, Stretch(left, pl))
  /\ AllAbove(o, t.depth, pivot, Stretch(pr, right)) /\ AllAt(o, t.depth, pivot, Stretch(right, t.r))

Pending(o, s, c) ==
  /\ OneEach(s) /\ \A i \in 1 .. Len(s) : s[i].r - s[i].l > 1
  /\ Settled(o, CallsOf(s), c)

InRange(o, s) == s \in Seq(Frames) /\ \A i \in 1 .. Len(s) : s[i].l <= s[i].r /\ s[i].r <= Len(o)

PassSound ==
  /\ stack # << >> /\ scan \in Scans
  /\ InPass(order, Top, scan.left, scan.pl, scan.pr, scan.right, scan.pivot)
  /\ ~ scan.up /\ scan.pl < scan.pr => Label(order[scan.pl + 1], Top.depth) > scan.pivot

SortSound ==
  /\ order \in Seq(Text) /\ BagOf(order) = BagOf(unsorted)
  /\ InRange(order, stack)
  /\ Len(order) > 1 => Pending(order, stack, count)
  /\ scan # NoScan => PassSound

LEMMA TopIs ==
  ASSUME SortSound, stack # << >>
  PROVE  /\ Top \in Frames /\ Top.l \in Nat /\ Top.r \in Nat /\ Top.depth \in Nat
         /\ Top.l <= Top.r /\ Top.r <= Len(order)
         /\ Top \in CallsOf(stack) /\ Spread(Top) \in SUBSET (1 .. Len(order))
         /\ Spread(Top) = Stretch(Top.l, Top.r)
         /\ Tail(stack) \in Seq(Frames) /\ InRange(order, Tail(stack))
         /\ \A i \in 1 .. Len(Tail(stack)) : Tail(stack)[i] \in CallsOf(stack)
         /\ OneEach(stack) => OneEach(Tail(stack)) /\ CallsOf(Tail(stack)) = CallsOf(stack) \ {Top}
<1>1. stack \in Seq(Frames) /\ Len(order) \in Nat /\ Len(stack) \in Nat \ {0}
  BY DEF SortSound, InRange
<1>2. 1 \in 1 .. Len(stack) /\ Top = stack[1]
  BY <1>1 DEF Top
<1>3. Top \in Frames /\ Top.l <= Top.r /\ Top.r <= Len(order) /\ Top \in CallsOf(stack)
  BY <1>1, <1>2 DEF SortSound, InRange, CallsOf
<1>4. Top.l \in Nat /\ Top.r \in Nat /\ Top.depth \in Nat /\ Spread(Top) \in SUBSET (1 .. Len(order))
  BY <1>1, <1>3, SpreadIs
<1>5. PICK s : s = Tail(stack)
  OBVIOUS
<1>6. /\ s \in Seq(Frames) /\ Len(s) = Len(stack) - 1 /\ Len(s) \in Nat
      /\ \A i \in 1 .. Len(s) : s[i] = stack[i + 1] /\ i + 1 \in 1 .. Len(stack)
  BY <1>1, <1>5
<1>7. InRange(order, s) /\ \A i \in 1 .. Len(s) : s[i] \in CallsOf(stack)
  BY <1>6 DEF SortSound, InRange, CallsOf
<1>8. ASSUME OneEach(stack) PROVE OneEach(s) /\ CallsOf(s) = CallsOf(stack) \ {Top}
  <2>1. OneEach(s)
    BY <1>6, <1>8 DEF OneEach
  <2>2. ASSUME NEW x \in CallsOf(s) PROVE x \in CallsOf(stack) \ {Top}
    <3>1. PICK i \in 1 .. Len(s) : x = s[i]
      BY DEF CallsOf
    <3>2. x = stack[i + 1] /\ i + 1 # 1 /\ i + 1 \in 1 .. Len(stack)
      BY <1>6, <3>1
    <3> QED BY <1>2, <1>8, <3>2 DEF OneEach, CallsOf
  <2>3. ASSUME NEW x \in CallsOf(stack) \ {Top} PROVE x \in CallsOf(s)
    <3>1. PICK i \in 1 .. Len(stack) : x = stack[i]
      BY DEF CallsOf
    <3>2. i # 1
      BY <1>2, <3>1
    <3>3. i - 1 \in 1 .. Len(s) /\ (i - 1) + 1 = i
      BY <1>1, <1>6, <3>2
    <3>4. s[i - 1] = x
      BY <1>6, <3>1, <3>3
    <3> QED BY <3>3, <3>4 DEF CallsOf
  <2> QED BY <2>1, <2>2, <2>3
<1> QED BY <1>3, <1>4, <1>5, <1>6, <1>7, <1>8 DEF Spread

(* Keys change places within the innermost call.                           *)
LEMMA KeysMove ==
  ASSUME SortSound, stack # << >>, NEW o, Rearranged(order, o, Spread(Top))
  PROVE  /\ o \in Seq(Text) /\ Len(o) = Len(order) /\ BagOf(o) = BagOf(unsorted) /\ InRange(o, stack)
         /\ Len(order) > 1 => Pending(o, stack, count)
<1>1. order \in Seq(Text) /\ o \in Seq(Text) /\ Len(o) = Len(order) /\ BagOf(o) = BagOf(unsorted)
  BY DEF SortSound, Rearranged
<1>2. InRange(o, stack)
  BY <1>1 DEF SortSound, InRange
<1>3. ASSUME Len(order) > 1 PROVE Pending(o, stack, count)
  <2>1. Pending(order, stack, count)
    BY <1>3 DEF SortSound
  <2>2. Settled(order, CallsOf(stack), count) /\ Top \in CallsOf(stack)
    BY <2>1, TopIs DEF Pending
  <2>3. Settled(o, CallsOf(stack), count)
    BY <1>1, <2>2, SettledRearranged
  <2> QED BY <2>1, <2>3 DEF Pending
<1> QED BY <1>1, <1>2, <1>3

-----------------------------------------------------------------------------
(* The steps of a pass.                                                    *)
LEMMA PlaceInStretch ==
  ASSUME NEW l \in Nat, NEW r \in Nat, NEW n \in Nat, NEW a \in Nat, l <= a, a < r, r <= n
  PROVE  a + 1 \in Stretch(l, r) /\ a + 1 \in 1 .. n /\ Stretch(l, r) \in SUBSET (1 .. n)
BY DEF Stretch

LEMMA UpLess ==
  ASSUME NEW o \in Seq(Text), NEW t \in Frames, t.r <= Len(o), NEW left \in Nat, NEW pl \in Nat, NEW pr \in Nat,
         NEW right \in Nat, NEW pivot \in Int, InPass(o, t, left, pl, pr, right, pivot), pl < pr,
         Label(o[pl + 1], t.depth) < pivot
  PROVE  InPass(o, t, left, pl + 1, pr, right, pivot)
<1>1. \A h \in Stretch(left, pl + 1) : h \in Stretch(left, pl) \/ h = pl + 1
  BY DEF Stretch
<1>2. AllBelow(o, t.depth, pivot, Stretch(left, pl + 1))
  BY <1>1 DEF InPass, AllBelow
<1> QED BY <1>2 DEF InPass

LEMMA UpEqual ==
  ASSUME NEW o \in Seq(Text), NEW t \in Frames, t.r <= Len(o), NEW left \in Nat, NEW pl \in Nat, NEW pr \in Nat,
         NEW right \in Nat, NEW pivot \in Int, InPass(o, t, left, pl, pr, right, pivot), pl < pr,
         Label(o[pl + 1], t.depth) = pivot, NEW x, x = Exchanged(o, pl, left)
  PROVE  Rearranged(o, x, Spread(t)) /\ InPass(x, t, left + 1, pl + 1, pr, right, pivot)
<1>1. t.l \in Nat /\ t.r \in Nat /\ Len(o) \in Nat
  BY DEF Frames
<1>2. t.l <= left /\ left <= pl /\ pl <= pr /\ pr <= right /\ right <= t.r
  BY DEF InPass
<1>3. pl + 1 \in Spread(t) /\ left + 1 \in Spread(t) /\ Spread(t) \in SUBSET (1 .. Len(o))
      /\ pl + 1 \in 1 .. Len(o) /\ left + 1 \in 1 .. Len(o)
  <2>1. PICK l, r, n : l = t.l /\ r = t.r /\ n = Len(o)
    OBVIOUS
  <2>2. /\ l \in Nat /\ r \in Nat /\ n \in Nat /\ r <= n
        /\ l <= pl /\ pl < r /\ l <= left /\ left < r
    BY <1>1, <1>2, <2>1
  <2>3. pl + 1 \in Stretch(l, r) /\ pl + 1 \in 1 .. n /\ Stretch(l, r) \in SUBSET (1 .. n)
    BY <2>2, PlaceInStretch
  <2>4. left + 1 \in Stretch(l, r) /\ left + 1 \in 1 .. n
    BY <2>2, PlaceInStretch
  <2> QED BY <2>1, <2>3, <2>4 DEF Spread
<1>4. Rearranged(o, x, Spread(t))
  BY <1>3, ExchangedKeys
<1>5. /\ x[pl + 1] = o[left + 1] /\ x[left + 1] = o[pl + 1]
      /\ \A k \in 1 .. Len(o) : k # pl + 1 /\ k # left + 1 => x[k] = o[k]
  BY <1>3, ExchangedAt
<1>6. /\ AllAt(o, t.depth, pivot, Stretch(t.l, left)) /\ AllBelow(o, t.depth, pivot, Stretch(left, pl))
      /\ AllAbove(o, t.depth, pivot, Stretch(pr, right)) /\ AllAt(o, t.depth, pivot, Stretch(right, t.r))
  BY DEF InPass
<1>7. ASSUME NEW h \in Stretch(t.l, left + 1) PROVE Label(x[h], t.depth) = pivot
  <2>1. CASE h = left + 1
    BY <1>5, <2>1
  <2>2. CASE h # left + 1
    <3>1. h \in Stretch(t.l, left) /\ h \in 1 .. Len(o) /\ h # pl + 1
      BY <1>1, <1>2, <2>2 DEF Stretch
    <3> QED BY <1>5, <1>6, <2>2, <3>1 DEF AllAt
  <2> QED BY <2>1, <2>2
<1>8. ASSUME NEW h \in Stretch(left + 1, pl + 1) PROVE Label(x[h], t.depth) < pivot
  <2>1. CASE h = pl + 1
    <3>1. left + 1 \in Stretch(left, pl)
      BY <1>2, <2>1 DEF Stretch
    <3> QED BY <1>5, <1>6, <2>1, <3>1 DEF AllBelow
  <2>2. CASE h # pl + 1
    <3>1. h \in Stretch(left, pl) /\ h \in 1 .. Len(o) /\ h # left + 1
      BY <1>1, <1>2, <2>2 DEF Stretch
    <3> QED BY <1>5, <1>6, <2>2, <3>1 DEF AllBelow
  <2> QED BY <2>1, <2>2
<1>9. \A h \in Stretch(pr, t.r) : x[h] = o[h]
  <2>1. \A h \in Stretch(pr, t.r) : h \in 1 .. Len(o) /\ h # left + 1 /\ h # pl + 1
    BY <1>1, <1>2 DEF Stretch
  <2> QED BY <1>5, <2>1
<1>10. /\ \A h \in Stretch(pr, right) : h \in Stretch(pr, t.r)
       /\ \A h \in Stretch(right, t.r) : h \in Stretch(pr, t.r)
  BY <1>1, <1>2 DEF Stretch
<1>11. AllAbove(x, t.depth, pivot, Stretch(pr, right)) /\ AllAt(x, t.depth, pivot, Stretch(right, t.r))
  BY <1>6, <1>9, <1>10 DEF AllAt, AllAbove
<1>12. AllAt(x, t.depth, pivot, Stretch(t.l, left + 1)) /\ AllBelow(x, t.depth, pivot, Stretch(left + 1, pl + 1))
  BY <1>7, <1>8 DEF AllAt, AllBelow
<1>13. t.l <= left + 1 /\ left + 1 <= pl + 1 /\ pl + 1 <= pr
  BY <1>1, <1>2
<1> QED BY <1>2, <1>4, <1>11, <1>12, <1>13 DEF InPass

LEMMA DownGreater ==
  ASSUME NEW o \in Seq(Text), NEW t \in Frames, t.r <= Len(o), NEW left \in Nat, NEW pl \in Nat, NEW pr \in Nat,
         NEW right \in Nat, NEW pivot \in Int, InPass(o, t, left, pl, pr, right, pivot), pl < pr,
         Label(o[(pr - 1) + 1], t.depth) > pivot
  PROVE  InPass(o, t, left, pl, pr - 1, right, pivot)
<1>1. (pr - 1) + 1 = pr
  OBVIOUS
<1>2. \A h \in Stretch(pr - 1, right) : h \in Stretch(pr, right) \/ h = pr
  BY DEF Stretch
<1>3. AllAbove(o, t.depth, pivot, Stretch(pr - 1, right))
  BY <1>1, <1>2 DEF InPass, AllAbove
<1>4. pl <= pr - 1 /\ pr - 1 <= right
  BY DEF InPass
<1> QED BY <1>3, <1>4 DEF InPass

LEMMA DownEqual ==
  ASSUME NEW o \in Seq(Text), NEW t \in Frames, t.r <= Len(o), NEW left \in Nat, NEW pl \in Nat, NEW pr \in Nat,
         NEW right \in Nat, NEW pivot \in Int, InPass(o, t, left, pl, pr, right, pivot), pl < pr,
         Label(o[(pr - 1) + 1], t.depth) = pivot, NEW x, x = Exchanged(o, pr - 1, right - 1)
  PROVE  Rearranged(o, x, Spread(t)) /\ InPass(x, t, left, pl, pr - 1, right - 1, pivot)
<1>1. t.l \in Nat /\ t.r \in Nat /\ Len(o) \in Nat
  BY DEF Frames
<1>2. t.l <= left /\ left <= pl /\ pl <= pr /\ pr <= right /\ right <= t.r
  BY DEF InPass
<1>3. PICK i, j : i = pr - 1 /\ j = right - 1
  OBVIOUS
<1>4. i \in Nat /\ j \in Nat /\ pr = i + 1 /\ right = j + 1 /\ pl <= i /\ i <= j
  BY <1>2, <1>3
<1>5. i + 1 \in Spread(t) /\ j + 1 \in Spread(t) /\ Spread(t) \in SUBSET (1 .. Len(o))
      /\ i + 1 \in 1 .. Len(o) /\ j + 1 \in 1 .. Len(o) /\ x = Exchanged(o, i, j)
  <2>1. PICK l, r, n : l = t.l /\ r = t.r /\ n = Len(o)
    OBVIOUS
  <2>2. /\ l \in Nat /\ r \in Nat /\ n \in Nat /\ r <= n
        /\ l <= i /\ i < r /\ l <= j /\ j < r
    BY <1>1, <1>2, <1>4, <2>1
  <2>3. i + 1 \in Stretch(l, r) /\ i + 1 \in 1 .. n /\ Stretch(l, r) \in SUBSET (1 .. n)
    BY <1>4, <2>2, PlaceInStretch
  <2>4. j + 1 \in Stretch(l, r) /\ j + 1 \in 1 .. n
    BY <1>4, <2>2, PlaceInStretch
  <2> QED BY <1>3, <2>1, <2>3, <2>4 DEF Spread
<1>6. Rearranged(o, x, Spread(t))
  BY <1>4, <1>5, ExchangedKeys
<1>7. /\ x[i + 1] = o[j + 1] /\ x[j + 1] = o[i + 1]
      /\ \A k \in 1 .. Len(o) : k # i + 1 /\ k # j + 1 => x[k] = o[k]
  BY <1>4, <1>5, ExchangedAt
<1>8. /\ AllAt(o, t.depth, pivot, Stretch(t.l, left)) /\ AllBelow(o, t.depth, pivot, Stretch(left, pl))
      /\ AllAbove(o, t.depth, pivot, Stretch(i + 1, j + 1)) /\ AllAt(o, t.depth, pivot, Stretch(j + 1, t.r))
      /\ Label(o[i + 1], t.depth) = pivot
  BY <1>3, <1>4 DEF InPass
<1>9. ASSUME NEW h \in Stretch(j, t.r) PROVE Label(x[h], t.depth) = pivot
  <2>1. CASE h = j + 1
    BY <1>7, <1>8, <2>1
  <2>2. CASE h # j + 1
    <3>1. h \in Stretch(j + 1, t.r) /\ h \in 1 .. Len(o) /\ h # i + 1
      BY <1>1, <1>4, <2>2 DEF Stretch
    <3> QED BY <1>7, <1>8, <2>2, <3>1 DEF AllAt
  <2> QED BY <2>1, <2>2
<1>10. ASSUME NEW h \in Stretch(i, j) PROVE Label(x[h], t.depth) > pivot
  <2>1. CASE h = i + 1
    <3>1. j + 1 \in Stretch(i + 1, j + 1)
      BY <1>4, <2>1 DEF Stretch
    <3> QED BY <1>7, <1>8, <2>1, <3>1 DEF AllAbove
  <2>2. CASE h # i + 1
    <3>1. h \in Stretch(i + 1, j + 1) /\ h \in 1 .. Len(o) /\ h # j + 1
      BY <1>1, <1>2, <1>4, <2>2 DEF Stretch
    <3> QED BY <1>7, <1>8, <2>2, <3>1 DEF AllAbove
  <2> QED BY <2>1, <2>2
<1>11. \A h \in Stretch(t.l, i) : x[h] = o[h]
  <2>1. \A h \in Stretch(t.l, i) : h \in 1 .. Len(o) /\ h # i + 1 /\ h # j + 1
    <3>1. PICK l, n : l = t.l /\ n = Len(o)
      OBVIOUS
    <3>2. l \in Nat /\ n \in Nat /\ i + 1 <= n
      BY <1>1, <1>5, <3>1
    <3>3. \A h \in Stretch(l, i) : h \in 1 .. n /\ h # i + 1 /\ h # j + 1
      BY <1>4, <3>2 DEF Stretch
    <3> QED BY <3>1, <3>3
  <2> QED BY <1>7, <2>1
<1>12. /\ \A h \in Stretch(t.l, left) : h \in Stretch(t.l, i)
       /\ \A h \in Stretch(left, pl) : h \in Stretch(t.l, i)
  BY SMTT(30), <1>1, <1>2, <1>4 DEF Stretch
<1>13. AllAt(x, t.depth, pivot, Stretch(t.l, left)) /\ AllBelow(x, t.depth, pivot, Stretch(left, pl))
  BY <1>8, <1>11, <1>12 DEF AllAt, AllBelow
<1>14. AllAt(x, t.depth, pivot, Stretch(j, t.r)) /\ AllAbove(x, t.depth, pivot, Stretch(i, j))
  BY <1>9, <1>10 DEF AllAt, AllAbove
<1>15. j <= t.r
  BY <1>1, <1>2, <1>4
<1>16. InPass(x, t, left, pl, i, j, pivot)
  BY <1>2, <1>4, <1>13, <1>14, <1>15 DEF InPass
<1> QED BY <1>3, <1>6, <1>16

LEMMA DownLess ==
  ASSUME NEW o \in Seq(Text), NEW t \in Frames, t.r <= Len(o), NEW left \in Nat, NEW pl \in Nat, NEW pr \in Nat,
         NEW right \in Nat, NEW pivot \in Int, InPass(o, t, left, pl, pr, right, pivot), pl < pr,
         Label(o[pl + 1], t.depth) > pivot, Label(o[(pr - 1) + 1], t.depth) < pivot,
         Label(o[pl + 1], t.depth) \in Int, NEW x, x = Exchanged(o, pl, pr - 1)
  PROVE  Rearranged(o, x, Spread(t)) /\ InPass(x, t, left, pl + 1, pr - 1, right, pivot)
<1>1. t.l \in Nat /\ t.r \in Nat /\ Len(o) \in Nat
  BY DEF Frames
<1>2. t.l <= left /\ left <= pl /\ pl <= pr /\ pr <= right /\ right <= t.r
  BY DEF InPass
<1>3. PICK i : i = pr - 1
  OBVIOUS
<1>4. i \in Nat /\ pr = i + 1 /\ pl <= i
  BY <1>2, <1>3
<1>5. pl < i
  <2>1. pl # i
    BY <1>3
  <2> QED BY <1>4, <2>1
<1>6. i + 1 \in Spread(t) /\ pl + 1 \in Spread(t) /\ Spread(t) \in SUBSET (1 .. Len(o))
      /\ i + 1 \in 1 .. Len(o) /\ pl + 1 \in 1 .. Len(o) /\ x = Exchanged(o, pl, i)
  <2>1. PICK l, r, n : l = t.l /\ r = t.r /\ n = Len(o)
    OBVIOUS
  <2>2. /\ l \in Nat /\ r \in Nat /\ n \in Nat /\ r <= n
        /\ l <= i /\ i < r /\ l <= pl /\ pl < r
    BY <1>1, <1>2, <1>4, <2>1
  <2>3. i + 1 \in Stretch(l, r) /\ i + 1 \in 1 .. n /\ Stretch(l, r) \in SUBSET (1 .. n)
    BY <1>4, <2>2, PlaceInStretch
  <2>4. pl + 1 \in Stretch(l, r) /\ pl + 1 \in 1 .. n
    BY <1>4, <2>2, PlaceInStretch
  <2> QED BY <1>3, <2>1, <2>3, <2>4 DEF Spread
<1>7. Rearranged(o, x, Spread(t))
  BY <1>4, <1>6, ExchangedKeys
<1>8. /\ x[i + 1] = o[pl + 1] /\ x[pl + 1] = o[i + 1]
      /\ \A k \in 1 .. Len(o) : k # i + 1 /\ k # pl + 1 => x[k] = o[k]
  BY <1>4, <1>6, ExchangedAt
<1>9. /\ AllAt(o, t.depth, pivot, Stretch(t.l, left)) /\ AllBelow(o, t.depth, pivot, Stretch(left, pl))
      /\ AllAbove(o, t.depth, pivot, Stretch(i + 1, right)) /\ AllAt(o, t.depth, pivot, Stretch(right, t.r))
      /\ Label(o[i + 1], t.depth) < pivot
  BY <1>3, <1>4 DEF InPass
<1>10. ASSUME NEW h \in Stretch(left, pl + 1) PROVE Label(x[h], t.depth) < pivot
  <2>1. CASE h = pl + 1
    BY <1>8, <1>9, <2>1
  <2>2. CASE h # pl + 1
    <3>1. h \in Stretch(left, pl) /\ h \in 1 .. Len(o) /\ h # i + 1
      BY <1>1, <1>2, <1>4, <2>2 DEF Stretch
    <3> QED BY <1>8, <1>9, <2>2, <3>1 DEF AllBelow
  <2> QED BY <2>1, <2>2
<1>11. ASSUME NEW h \in Stretch(i, right) PROVE Label(x[h], t.depth) > pivot
  <2>1. CASE h = i + 1
    BY <1>8, <2>1
  <2>2. CASE h # i + 1
    <3>1. h \in Stretch(i + 1, right) /\ h \in 1 .. Len(o) /\ h # pl + 1
      BY <1>1, <1>2, <1>4, <1>5, <2>2 DEF Stretch
    <3> QED BY <1>8, <1>9, <2>2, <3>1 DEF AllAbove
  <2> QED BY <2>1, <2>2
<1>12. ASSUME NEW h \in Stretch(t.l, left) \cup Stretch(right, t.r) PROVE x[h] = o[h]
  <2>1. PICK l, r, n : l = t.l /\ r = t.r /\ n = Len(o)
    OBVIOUS
  <2>2. l \in Nat /\ r \in Nat /\ n \in Nat /\ r <= n /\ l <= left /\ right <= r
    BY <1>1, <1>2, <2>1
  <2>3. h \in 1 .. n /\ h # pl + 1 /\ h # i + 1
    <3>1. CASE h \in Stretch(l, left)
      BY <1>2, <1>4, <1>5, <2>2, <3>1 DEF Stretch
    <3>2. CASE h \in Stretch(right, r)
      BY <1>2, <1>4, <1>5, <2>2, <3>2 DEF Stretch
    <3> QED BY <1>12, <2>1, <3>1, <3>2
  <2> QED BY <1>8, <2>1, <2>3
<1>13. AllAt(x, t.depth, pivot, Stretch(t.l, left)) /\ AllAt(x, t.depth, pivot, Stretch(right, t.r))
  BY <1>9, <1>12 DEF AllAt
<1>14. AllBelow(x, t.depth, pivot, Stretch(left, pl + 1)) /\ AllAbove(x, t.depth, pivot, Stretch(i, right))
  BY <1>10, <1>11 DEF AllBelow, AllAbove
<1>15. left <= pl + 1 /\ pl + 1 <= i /\ i <= right
  BY <1>2, <1>4, <1>5
<1>16. InPass(x, t, left, pl + 1, i, right, pivot)
  BY <1>2, <1>13, <1>14, <1>15 DEF InPass
<1> QED BY <1>3, <1>7, <1>16

(* What the two loops at the end of a pass leave.                          *)
GatheredAs(z, pl, pr) ==
  /\ pl \in Nat /\ pr \in Nat /\ Top.l <= pl /\ pl <= pr /\ pr <= Top.r
  /\ Rearranged(order, z, Spread(Top)) /\ z \in Seq(Text)
  /\ AllBelow(z, Top.depth, scan.pivot, Stretch(Top.l, pl)) /\ AllAt(z, Top.depth, scan.pivot, Stretch(pl, pr))
  /\ AllAbove(z, Top.depth, scan.pivot, Stretch(pr, Top.r))

LEMMA GatheredIs ==
  ASSUME SortSound, scan # NoScan, scan.pl >= scan.pr
  PROVE  GatheredAs(Gathered, scan.pl - (scan.left - Top.l), scan.pr + (Top.r - scan.right))
<1>1. PassSound /\ stack # << >> /\ order \in Seq(Text)
  BY DEF SortSound, PassSound
<1>2. /\ Top \in Frames /\ Top.l \in Nat /\ Top.r \in Nat /\ Top.depth \in Nat
      /\ Top.l <= Top.r /\ Top.r <= Len(order) /\ Spread(Top) = Stretch(Top.l, Top.r)
  BY <1>1, TopIs
<1>3. PICK l, r, d : l = Top.l /\ r = Top.r /\ d = Top.depth
  OBVIOUS
<1>4. PICK left, right, q, pivot : left = scan.left /\ right = scan.right /\ q = scan.pl /\ pivot = scan.pivot
  OBVIOUS
<1>5. left \in Nat /\ right \in Nat /\ q \in Nat /\ pivot \in Int /\ scan.pr = q
      /\ l <= left /\ left <= q /\ q <= right /\ right <= r
      /\ l \in Nat /\ r \in Nat /\ d \in Nat /\ r <= Len(order) /\ Len(order) \in Nat
  <2>1. scan.pr \in Nat /\ scan.pl \in Nat /\ scan.pl <= scan.pr
    BY <1>1 DEF PassSound, Scans, InPass
  <2> QED BY <1>1, <1>2, <1>3, <1>4, <2>1 DEF PassSound, Scans, InPass
<1>6. /\ AllAt(order, d, pivot, Stretch(l, left)) /\ AllBelow(order, d, pivot, Stretch(left, q))
      /\ AllAbove(order, d, pivot, Stretch(q, right)) /\ AllAt(order, d, pivot, Stretch(right, r))
  BY <1>1, <1>3, <1>4, <1>5 DEF PassSound, InPass
<1> DEFINE w == CHOOSE f : Lowering(f, order, left - l, left, q)
           z == w[left - l]
           u == CHOOSE f : Raising(f, z, r - right, right, q)
           x == u[r - right]
<1>7. Gathered = x
  <2>1. Gathered = (CHOOSE f : Raising(f, (CHOOSE g : Lowering(g, order, scan.left - Top.l, scan.left, scan.pl))
                       [scan.left - Top.l], Top.r - scan.right, scan.right, scan.pr))[Top.r - scan.right]
    BY Zenon DEF Gathered, Raising, Lowering
  <2> QED BY <1>3, <1>4, <1>5, <2>1
<1>8. Lowering(w, order, left - l, left, q)
  <2>1. order \in [1 .. Len(order) -> Text] /\ left - l \in Nat /\ left - l <= left /\ left - l <= q
        /\ left <= Len(order) /\ q <= Len(order)
    BY <1>1, <1>5
  <2>2. \E f : Lowering(f, order, left - l, left, q)
    BY <1>5, <2>1, LoweringExists
  <2> QED BY <2>2
<1> HIDE DEF w
<1>9. LoweredTo(w, order, d, pivot, Stretch(l, r), l, left, q, left - l)
  <2>1. q <= r
    BY <1>5
  <2> QED BY <1>1, <1>5, <1>6, <1>8, <2>1, Lowered
<1>10. PICK pl : pl = q - (left - l)
  OBVIOUS
<1>11. pl \in Nat /\ l <= pl /\ pl <= q /\ left - (left - l) = l
  BY <1>5, <1>10
<1>12. /\ Rearranged(order, z, Stretch(l, r)) /\ AllBelow(z, d, pivot, Stretch(l, pl))
       /\ AllAt(z, d, pivot, Stretch(pl, q)) /\ \A i \in Stretch(q, Len(order)) : z[i] = order[i]
  BY <1>9, <1>10, <1>11 DEF LoweredTo
<1> HIDE DEF z
<1>13. z \in Seq(Text) /\ Len(z) = Len(order)
  BY <1>12 DEF Rearranged
<1>14. AllAbove(z, d, pivot, Stretch(q, right)) /\ AllAt(z, d, pivot, Stretch(right, r))
  <2>1. /\ \A i \in Stretch(q, right) : i \in Stretch(q, Len(order))
        /\ \A i \in Stretch(right, r) : i \in Stretch(q, Len(order))
    BY <1>5 DEF Stretch
  <2> QED BY <1>6, <1>12, <2>1 DEF AllAt, AllAbove
<1>15. Raising(u, z, r - right, right, q)
  <2>1. z \in [1 .. Len(z) -> Text] /\ Len(z) \in Nat /\ r - right \in Nat
        /\ right + (r - right) <= Len(z) /\ q + (r - right) <= Len(z)
    BY <1>5, <1>13
  <2>2. \E f : Raising(f, z, r - right, right, q)
    BY <1>5, <2>1, RaisingExists
  <2> QED BY <2>2
<1> HIDE DEF u
<1>16. RaisedTo(u, z, d, pivot, Stretch(l, r), r, right, q, r - right)
  <2>1. l <= q
    BY <1>5
  <2> QED BY <1>5, <1>13, <1>14, <1>15, <2>1, Raised
<1>17. PICK pr : pr = q + (r - right)
  OBVIOUS
<1>18. pr \in Nat /\ q <= pr /\ pr <= r /\ right + (r - right) = r
  BY <1>5, <1>17
<1>19. /\ Rearranged(z, x, Stretch(l, r)) /\ AllAbove(x, d, pivot, Stretch(pr, r))
       /\ AllAt(x, d, pivot, Stretch(q, pr)) /\ \A i \in Stretch(0, q) : x[i] = z[i]
  BY <1>16, <1>17, <1>18 DEF RaisedTo
<1> HIDE DEF x
<1>20. AllBelow(x, d, pivot, Stretch(l, pl))
  <2>1. \A i \in Stretch(l, pl) : i \in Stretch(0, q)
    BY <1>5, <1>11 DEF Stretch
  <2> QED BY <1>12, <1>19, <2>1 DEF AllBelow
<1>21. AllAt(x, d, pivot, Stretch(pl, pr))
  <2>1. \A i \in Stretch(pl, pr) : i \in Stretch(pl, q) \/ i \in Stretch(q, pr)
    BY <1>5, <1>11, <1>18 DEF Stretch
  <2>2. \A i \in Stretch(pl, q) : i \in Stretch(0, q)
    BY <1>5, <1>11 DEF Stretch
  <2> QED BY <1>12, <1>19, <2>1, <2>2 DEF AllAt
<1>22. Rearranged(order, x, Stretch(l, r)) /\ x \in Seq(Text)
  <2>1. Rearranged(order, x, Stretch(l, r))
    BY <1>12, <1>19, RearrangedTwice
  <2> QED BY <2>1 DEF Rearranged
<1>23. pl <= pr
  BY <1>5, <1>11, <1>18
<1> QED BY <1>2, <1>3, <1>4, <1>5, <1>7, <1>10, <1>11, <1>17, <1>18, <1>19, <1>20, <1>21, <1>22, <1>23
    DEF GatheredAs

-----------------------------------------------------------------------------
LEMMA SortStarts == KeySortInit => SortSound
<1>1. SUFFICES ASSUME KeySortInit PROVE SortSound
  OBVIOUS
<1>2. Strings \subseteq Text /\ MaxSorted \in Nat
  <2>1. Strings \subseteq Seq(Labels) /\ MaxSorted \in Nat
    BY KeySortAssumption
  <2>2. ASSUME NEW n \in Labels PROVE n \in Nat
    BY KeySortAssumption DEF Labels
  <2>3. Seq(Labels) \subseteq Text
    BY <2>2, SequenceInLarger DEF Text
  <2> QED BY <2>1, <2>3
<1>3. PICK m \in 0 .. MaxSorted : unsorted \in [1 .. m -> Strings]
  BY <1>1 DEF KeySortInit
<1>4. m \in Nat
  BY <1>2
<1>5. unsorted \in Seq(Strings) /\ Len(unsorted) = m
  BY <1>3, <1>4, SeqOfFunction
<1>6. order \in Seq(Text) /\ Len(order) = m
  <2>1. unsorted \in Seq(Text)
    BY <1>2, <1>5, SequenceInLarger
  <2> QED BY <1>1, <1>5, <2>1 DEF KeySortInit
<1>7. PICK f : f = Frame(0, m, 0)
  OBVIOUS
<1>8. f \in Frames /\ f.l = 0 /\ f.r = m /\ f.depth = 0
  BY <1>4, <1>7 DEF Frame, Frames
<1>9. stack = <<f>> /\ count = 0 /\ scan = NoScan /\ order = unsorted
  BY <1>1, <1>5, <1>7 DEF KeySortInit
<1>10. stack \in Seq(Frames) /\ Len(stack) = 1 /\ stack[1] = f
  BY <1>8, <1>9
<1>11. InRange(order, stack)
  <2>1. \A i \in 1 .. Len(stack) : stack[i] = f
    BY <1>10
  <2> QED BY <1>4, <1>6, <1>8, <1>10, <2>1 DEF InRange
<1>12. CallsOf(stack) = {f} /\ OneEach(stack)
  BY <1>10 DEF CallsOf, OneEach
<1>13. Spread(f) = 1 .. m
  BY <1>8 DEF Spread, Stretch
<1>14. Settled(order, {f}, 0)
  <2>1. \A i, j \in Spread(f) : Alike(order[i], order[j], 0)
    BY DEF Alike
  <2>2. \A i \in Spread(f), j \in (1 .. m) \ Spread(f) : order[i] # order[j]
    BY <1>13
  <2>3. \A i, j \in 1 .. m : Together({f}, i, j)
    BY <1>13 DEF Together
  <2>4. ValuesAt(order, Free(order, {f})) = {}
    BY <1>6, <1>13 DEF ValuesAt, Free
  <2>5. Cardinality({}) = 0
    BY FS_EmptySet
  <2>6. \A g \in {f} : \A i, j \in Spread(g) : Alike(order[i], order[j], g.depth)
    BY <1>8, <2>1
  <2>7. \A g \in {f} : g \in Frames /\ g.l <= g.r /\ g.r <= m
    BY <1>4, <1>8
  <2> QED BY <1>6, <2>2, <2>3, <2>4, <2>5, <2>6, <2>7 DEF Settled
<1>15. Len(order) > 1 => Pending(order, stack, count)
  <2>1. m > 1 => \A i \in 1 .. Len(stack) : stack[i].r - stack[i].l > 1
    BY <1>4, <1>8, <1>10
  <2> QED BY <1>6, <1>9, <1>12, <1>14, <2>1 DEF Pending
<1> QED BY <1>6, <1>9, <1>11, <1>15 DEF SortSound

LEMMA InsertionSound ==
  ASSUME SortSound, InsertionSort
  PROVE  SortSound'
<1>1. stack # << >> /\ scan = NoScan /\ scan' = NoScan /\ unsorted' = unsorted /\ stack' = Tail(stack)
      /\ order \in Seq(Text)
  BY DEF InsertionSort, Return, SortSound
<1> DEFINE P == Spread(Top)
<1>2. /\ Spread(Top) \in SUBSET (1 .. Len(order)) /\ Spread(Top) = Stretch(Top.l, Top.r)
      /\ Tail(stack) \in Seq(Frames) /\ InRange(order, Tail(stack)) /\ Top \in CallsOf(stack)
      /\ OneEach(stack) => OneEach(Tail(stack)) /\ CallsOf(Tail(stack)) = CallsOf(stack) \ {Top}
      /\ \A i \in 1 .. Len(Tail(stack)) : Tail(stack)[i] \in CallsOf(stack)
      /\ Top.l \in Nat /\ Top.r \in Nat
  BY <1>1, TopIs
<1>3. Rearranged(order, order', P)
  <2>1. PICK p \in Bijection(P, P) : order' = [i \in DOMAIN order |-> IF i \in P THEN order[p[i]] ELSE order[i]]
    BY <1>2 DEF InsertionSort
  <2> QED BY <1>1, <1>2, <2>1, Permuted
<1>4. \A i, j \in P : i < j => ~ Less(order'[j], order'[i], Top.depth)
  BY <1>2 DEF InsertionSort
<1>5. /\ order' \in Seq(Text) /\ Len(order') = Len(order) /\ BagOf(order') = BagOf(unsorted)
      /\ Len(order) > 1 => Pending(order', stack, count)
  BY <1>1, <1>3, KeysMove
<1>6. InRange(order', stack')
  BY <1>1, <1>2, <1>5 DEF InRange
<1>7. ASSUME Len(order) > 1 PROVE Pending(order', stack', count')
  <2>1. Pending(order', stack, count)
    BY <1>5, <1>7
  <2>2. Settled(order', CallsOf(stack) \ {Top}, count + Cardinality(ValuesAt(order', P)))
    <3>1. Settled(order', CallsOf(stack), count)
      BY <2>1 DEF Pending
    <3>2. PICK o, F, c, t : o = order' /\ F = CallsOf(stack) /\ c = count /\ t = Top
      OBVIOUS
    <3>3. Settled(o, F \ {t}, c + Cardinality(ValuesAt(o, Spread(t))))
      BY <1>2, <1>4, <1>5, <3>1, <3>2, SettledOver
    <3> QED BY <3>2, <3>3
  <2>3. ValuesAt(order', P) = ValuesAt(order, P)
    <3>1. /\ \A i \in P : \E j \in P : order'[i] = order[j]
          /\ \A j \in P : \E i \in P : order'[i] = order[j]
      BY <1>3 DEF Rearranged
    <3>2. ValuesAt(order', P) \subseteq ValuesAt(order, P)
      BY <3>1 DEF ValuesAt
    <3>3. ValuesAt(order, P) \subseteq ValuesAt(order', P)
      BY <3>1 DEF ValuesAt
    <3> QED BY <3>2, <3>3
  <2>4. count' = count + Cardinality(ValuesAt(order, P))
    <3>1. \E i \in 1 .. Len(stack) : Top = stack[i]
      BY <1>2 DEF CallsOf
    <3>2. Top.r - Top.l > 1
      BY <2>1, <3>1 DEF Pending
    <3>3. count' = count + Cardinality({order[i] : i \in P})
      BY <1>2, <3>2 DEF InsertionSort
    <3> QED BY <3>3 DEF ValuesAt
  <2>5. OneEach(Tail(stack)) /\ CallsOf(Tail(stack)) = CallsOf(stack) \ {Top}
    BY <1>2, <2>1 DEF Pending
  <2>6. \A i \in 1 .. Len(Tail(stack)) : Tail(stack)[i].r - Tail(stack)[i].l > 1
    BY <1>2, <2>1 DEF Pending, CallsOf
  <2> QED BY <1>1, <2>2, <2>3, <2>4, <2>5, <2>6 DEF Pending
<1> QED BY <1>1, <1>5, <1>6, <1>7 DEF SortSound

LEMMA PassBegins ==
  ASSUME SortSound, BeginPass
  PROVE  SortSound'
<1>1. stack # << >> /\ unsorted' = unsorted /\ stack' = stack /\ order' = order /\ count' = count
      /\ order \in Seq(Text) /\ Top.r - Top.l > Threshold
  BY DEF BeginPass, SortSound
<1>2. Top \in Frames /\ Top.l \in Nat /\ Top.r \in Nat /\ Top.depth \in Nat
      /\ Top.l <= Top.r /\ Top.r <= Len(order) /\ Top' = Top /\ Len(order) \in Nat
  BY <1>1, TopIs DEF Top
<1>3. Top.l < Top.r
  BY <1>1, <1>2, KeySortAssumption
<1>4. ASSUME NEW i \in Nat, Top.l <= i, i < Top.r PROVE Label(order[i + 1], Top.depth) \in Int
  <2>1. i + 1 \in 1 .. Len(order)
    BY <1>2, <1>4
  <2>2. order[i + 1] \in Text
    BY <1>1, <2>1
  <2> QED BY <1>2, <2>2, LabelIs
<1>5. PICK x, y, z : x = Label(order[Top.l + 1], Top.depth)
                     /\ y = Label(order[(Top.l + (Top.r - Top.l) \div 2) + 1], Top.depth)
                     /\ z = Label(order[(Top.r - 1) + 1], Top.depth)
  OBVIOUS
<1>6. x \in Int /\ y \in Int /\ z \in Int
  <2>1. PICK l, r : l = Top.l /\ r = Top.r
    OBVIOUS
  <2>2. r - 1 \in Nat /\ l <= r - 1 /\ r - 1 < r /\ l + (r - l) \div 2 \in Nat
        /\ l <= l + (r - l) \div 2 /\ l + (r - l) \div 2 < r
    BY <1>2, <1>3, <2>1
  <2>3. Label(order[l + 1], Top.depth) \in Int
    BY <1>2, <1>3, <1>4, <2>1
  <2>4. Label(order[(r - 1) + 1], Top.depth) \in Int
    BY <1>4, <2>1, <2>2
  <2>5. Label(order[(l + (r - l) \div 2) + 1], Top.depth) \in Int
    BY <1>4, <2>1, <2>2
  <2> QED BY <1>5, <2>1, <2>3, <2>4, <2>5
<1>7. PICK pivot : pivot = Median(x, y, z)
  OBVIOUS
<1>8. pivot \in Int
  BY <1>6, <1>7, MedianIs
<1>9. scan' = [up |-> TRUE, pl |-> Top.l, pr |-> Top.r, left |-> Top.l, right |-> Top.r, pivot |-> pivot]
  BY <1>5, <1>7 DEF BeginPass
<1>10. scan' \in Scans /\ scan'.up = TRUE /\ scan'.pl = Top.l /\ scan'.pr = Top.r
       /\ scan'.left = Top.l /\ scan'.right = Top.r
  BY <1>2, <1>8, <1>9 DEF Scans
<1>11. InPass(order, Top, Top.l, Top.l, Top.r, Top.r, scan'.pivot)
  <2>1. Stretch(Top.l, Top.l) = {} /\ Stretch(Top.r, Top.r) = {}
    BY <1>2 DEF Stretch
  <2> QED BY <1>2, <2>1 DEF InPass, AllAt, AllAbove, AllBelow
<1>12. PassSound'
  BY <1>1, <1>2, <1>10, <1>11 DEF PassSound
<1>13. InRange(order', stack')
  BY <1>1 DEF SortSound
<1> QED BY <1>1, <1>12, <1>13 DEF SortSound

LEMMA ScanningIs ==
  ASSUME SortSound, NEW up, Scanning(up)
  PROVE  /\ stack # << >> /\ scan # NoScan /\ PassSound /\ scan.up = up /\ order \in Seq(Text)
         /\ Top \in Frames /\ Top.r <= Len(order) /\ Top.depth \in Nat
         /\ scan.left \in Nat /\ scan.pl \in Nat /\ scan.pr \in Nat /\ scan.right \in Nat /\ scan.pivot \in Int
         /\ InPass(order, Top, scan.left, scan.pl, scan.pr, scan.right, scan.pivot) /\ scan.pl < scan.pr
         /\ order[scan.pl + 1] \in Text /\ order[(scan.pr - 1) + 1] \in Text
         /\ Label(order[scan.pl + 1], Top.depth) \in Int /\ Label(order[(scan.pr - 1) + 1], Top.depth) \in Int
         /\ ~ up => Label(order[scan.pl + 1], Top.depth) > scan.pivot
<1>1. stack # << >> /\ scan # NoScan /\ PassSound /\ scan.up = up /\ order \in Seq(Text) /\ scan.pl < scan.pr
  BY DEF SortSound, Scanning
<1>2. /\ Top \in Frames /\ Top.r <= Len(order) /\ Top.depth \in Nat /\ Top.l \in Nat /\ Top.r \in Nat
      /\ Len(order) \in Nat
  BY <1>1, TopIs
<1>3. /\ scan.left \in Nat /\ scan.pl \in Nat /\ scan.pr \in Nat /\ scan.right \in Nat /\ scan.pivot \in Int
      /\ InPass(order, Top, scan.left, scan.pl, scan.pr, scan.right, scan.pivot)
  BY <1>1 DEF PassSound, Scans
<1>4. scan.pl + 1 \in 1 .. Len(order) /\ (scan.pr - 1) + 1 \in 1 .. Len(order)
  <2>1. PICK pl, pr, right, r, n :
          pl = scan.pl /\ pr = scan.pr /\ right = scan.right /\ r = Top.r /\ n = Len(order)
    OBVIOUS
  <2>2. /\ pl \in Nat /\ pr \in Nat /\ right \in Nat /\ r \in Nat /\ n \in Nat
        /\ pl < pr /\ pr <= right /\ right <= r /\ r <= n
    BY <1>1, <1>2, <1>3, <2>1 DEF InPass
  <2>3. pl + 1 \in 1 .. n /\ (pr - 1) + 1 \in 1 .. n
    BY <2>2
  <2> QED BY <2>1, <2>3
<1>5. order[scan.pl + 1] \in Text /\ order[(scan.pr - 1) + 1] \in Text
  BY <1>1, <1>4
<1>6. Label(order[scan.pl + 1], Top.depth) \in Int /\ Label(order[(scan.pr - 1) + 1], Top.depth) \in Int
  BY <1>2, <1>5, LabelIs
<1> QED BY <1>1, <1>2, <1>3, <1>5, <1>6 DEF PassSound

(* A step of a pass, when what it leaves of the pass is sound.             *)
LEMMA PassGoesOn ==
  ASSUME SortSound, stack # << >>, NEW o, order' = o, unsorted' = unsorted, stack' = stack, count' = count,
         Rearranged(order, o, Spread(Top)), scan' \in Scans,
         InPass(o, Top, scan'.left, scan'.pl, scan'.pr, scan'.right, scan'.pivot),
         ~ scan'.up /\ scan'.pl < scan'.pr => Label(o[scan'.pl + 1], Top.depth) > scan'.pivot
  PROVE  SortSound'
<1>1. Top' = Top
  BY DEF Top
<1>2. PassSound'
  BY <1>1 DEF PassSound
<1>3. /\ o \in Seq(Text) /\ Len(o) = Len(order) /\ BagOf(o) = BagOf(unsorted) /\ InRange(o, stack)
      /\ Len(order) > 1 => Pending(o, stack, count)
  BY KeysMove
<1> QED BY <1>2, <1>3 DEF SortSound

LEMMA ScanUpSound ==
  ASSUME SortSound, ScanUp
  PROVE  SortSound'
<1>1. Scanning(TRUE) /\ unsorted' = unsorted /\ stack' = stack /\ count' = count
  BY DEF ScanUp
<1>2. /\ stack # << >> /\ scan # NoScan /\ PassSound /\ scan.up = TRUE /\ order \in Seq(Text)
      /\ Top \in Frames /\ Top.r <= Len(order) /\ Top.depth \in Nat
      /\ scan.left \in Nat /\ scan.pl \in Nat /\ scan.pr \in Nat /\ scan.right \in Nat /\ scan.pivot \in Int
      /\ InPass(order, Top, scan.left, scan.pl, scan.pr, scan.right, scan.pivot) /\ scan.pl < scan.pr
      /\ Label(order[scan.pl + 1], Top.depth) \in Int
  BY <1>1, ScanningIs
<1>3. PICK label : label = Label(order[scan.pl + 1], Top.depth)
  OBVIOUS
<1>4. scan \in Scans
  BY <1>2 DEF PassSound
<1>5. Rearranged(order, order, Spread(Top))
  BY <1>2, SameKeys
<1>6. CASE label > scan.pivot
  <2>1. scan' = [scan EXCEPT !.up = FALSE] /\ order' = order
    BY <1>3, <1>6 DEF ScanUp
  <2>2. scan' \in Scans /\ scan'.left = scan.left /\ scan'.pl = scan.pl /\ scan'.pr = scan.pr
        /\ scan'.right = scan.right /\ scan'.pivot = scan.pivot
    BY <1>4, <2>1 DEF Scans
  <2> QED BY <1>1, <1>2, <1>3, <1>5, <1>6, <2>1, <2>2, PassGoesOn
<1>7. CASE label = scan.pivot
  <2>1. order' = Exchanged(order, scan.pl, scan.left) /\ scan' = [scan EXCEPT !.left = @ + 1, !.pl = @ + 1]
    BY <1>2, <1>3, <1>7 DEF ScanUp
  <2>2. scan' \in Scans /\ scan'.left = scan.left + 1 /\ scan'.pl = scan.pl + 1 /\ scan'.pr = scan.pr
        /\ scan'.right = scan.right /\ scan'.pivot = scan.pivot /\ scan'.up = TRUE
    <3>1. PICK a, b : a = scan.left + 1 /\ b = scan.pl + 1
      OBVIOUS
    <3>2. a \in Nat /\ b \in Nat /\ scan' = [scan EXCEPT !.left = a, !.pl = b]
      BY SMTT(30), <1>2, <2>1, <3>1
    <3>3. /\ scan'.left = a /\ scan'.pl = b /\ scan'.pr = scan.pr /\ scan'.right = scan.right
          /\ scan'.pivot = scan.pivot /\ scan'.up = scan.up
      BY <1>4, <3>2 DEF Scans
    <3>4. scan' \in Scans
      BY <1>4, <3>2 DEF Scans
    <3> QED BY <1>2, <3>1, <3>3, <3>4
  <2>3. PICK x : x = Exchanged(order, scan.pl, scan.left)
    OBVIOUS
  <2>4. Rearranged(order, x, Spread(Top))
        /\ InPass(x, Top, scan.left + 1, scan.pl + 1, scan.pr, scan.right, scan.pivot)
    BY <1>2, <1>3, <1>7, <2>3, UpEqual
  <2> QED BY <1>1, <1>2, <2>1, <2>2, <2>3, <2>4, PassGoesOn
<1>8. CASE label < scan.pivot
  <2>1. order' = order /\ scan' = [scan EXCEPT !.pl = @ + 1]
    BY <1>2, <1>3, <1>8 DEF ScanUp
  <2>2. scan' \in Scans /\ scan'.left = scan.left /\ scan'.pl = scan.pl + 1 /\ scan'.pr = scan.pr
        /\ scan'.right = scan.right /\ scan'.pivot = scan.pivot /\ scan'.up = TRUE
    BY <1>2, <1>4, <2>1 DEF Scans
  <2>3. InPass(order, Top, scan.left, scan.pl + 1, scan.pr, scan.right, scan.pivot)
    BY <1>2, <1>3, <1>8, UpLess
  <2> QED BY <1>1, <1>2, <1>5, <2>1, <2>2, <2>3, PassGoesOn
<1> QED BY <1>2, <1>3, <1>6, <1>7, <1>8

LEMMA ScanDownSound ==
  ASSUME SortSound, ScanDown
  PROVE  SortSound'
<1>1. Scanning(FALSE) /\ unsorted' = unsorted /\ stack' = stack /\ count' = count
  BY DEF ScanDown
<1>2. /\ stack # << >> /\ scan # NoScan /\ PassSound /\ scan.up = FALSE /\ order \in Seq(Text)
      /\ Top \in Frames /\ Top.r <= Len(order) /\ Top.depth \in Nat
      /\ scan.left \in Nat /\ scan.pl \in Nat /\ scan.pr \in Nat /\ scan.right \in Nat /\ scan.pivot \in Int
      /\ InPass(order, Top, scan.left, scan.pl, scan.pr, scan.right, scan.pivot) /\ scan.pl < scan.pr
      /\ Label(order[scan.pl + 1], Top.depth) \in Int /\ Label(order[(scan.pr - 1) + 1], Top.depth) \in Int
      /\ Label(order[scan.pl + 1], Top.depth) > scan.pivot
  BY <1>1, ScanningIs
<1>3. PICK label : label = Label(order[(scan.pr - 1) + 1], Top.depth)
  OBVIOUS
<1>4. scan \in Scans /\ scan.pr - 1 \in Nat
  BY SMTT(30), <1>2 DEF PassSound
<1>5. Rearranged(order, order, Spread(Top))
  BY <1>2, SameKeys
<1>6. CASE label < scan.pivot
  <2>1. order' = Exchanged(order, scan.pl, scan.pr - 1)
        /\ scan' = [scan EXCEPT !.pr = scan.pr - 1, !.pl = @ + 1, !.up = TRUE]
    BY <1>3, <1>6 DEF ScanDown
  <2>2. scan' \in Scans /\ scan'.left = scan.left /\ scan'.pl = scan.pl + 1 /\ scan'.pr = scan.pr - 1
        /\ scan'.right = scan.right /\ scan'.pivot = scan.pivot /\ scan'.up = TRUE
    <3>1. PICK a, b : a = scan.pr - 1 /\ b = scan.pl + 1
      OBVIOUS
    <3>2. a \in Nat /\ b \in Nat /\ scan' = [scan EXCEPT !.pr = a, !.pl = b, !.up = TRUE]
      BY SMTT(30), <1>2, <1>4, <2>1, <3>1
    <3>3. /\ scan'.left = scan.left /\ scan'.pl = b /\ scan'.pr = a /\ scan'.right = scan.right
          /\ scan'.pivot = scan.pivot /\ scan'.up = TRUE
      BY <1>4, <3>2 DEF Scans
    <3>4. scan' \in Scans
      BY <1>4, <3>2 DEF Scans
    <3> QED BY <3>1, <3>3, <3>4
  <2>3. PICK x : x = Exchanged(order, scan.pl, scan.pr - 1)
    OBVIOUS
  <2>4. Rearranged(order, x, Spread(Top))
        /\ InPass(x, Top, scan.left, scan.pl + 1, scan.pr - 1, scan.right, scan.pivot)
    BY <1>2, <1>3, <1>6, <2>3, DownLess
  <2> QED BY <1>1, <1>2, <2>1, <2>2, <2>3, <2>4, PassGoesOn
<1>7. CASE label = scan.pivot
  <2>1. order' = Exchanged(order, scan.pr - 1, scan.right - 1)
        /\ scan' = [scan EXCEPT !.pr = scan.pr - 1, !.right = @ - 1]
    BY <1>2, <1>3, <1>7 DEF ScanDown
  <2>2. scan.right - 1 \in Nat
    BY <1>2 DEF InPass
  <2>3. scan' \in Scans /\ scan'.left = scan.left /\ scan'.pl = scan.pl /\ scan'.pr = scan.pr - 1
        /\ scan'.right = scan.right - 1 /\ scan'.pivot = scan.pivot /\ scan'.up = FALSE
    BY <1>2, <1>4, <2>1, <2>2 DEF Scans
  <2>4. PICK x : x = Exchanged(order, scan.pr - 1, scan.right - 1)
    OBVIOUS
  <2>5. /\ Rearranged(order, x, Spread(Top))
        /\ InPass(x, Top, scan.left, scan.pl, scan.pr - 1, scan.right - 1, scan.pivot)
    BY <1>2, <1>3, <1>7, <2>4, DownEqual
  <2>6. ASSUME scan.pl < scan.pr - 1 PROVE x[scan.pl + 1] = order[scan.pl + 1]
    <3>1. PICK i, j, k, n : i = scan.pr - 1 /\ j = scan.right - 1 /\ k = scan.pl + 1 /\ n = Len(order)
      OBVIOUS
    <3>2. n \in Nat /\ Top.r \in Nat /\ Top.r <= n
      BY <1>2, <3>1, TopIs
    <3>3. scan.pr <= scan.right /\ scan.right <= Top.r
      BY <1>2 DEF InPass
    <3>4. i \in Nat /\ j \in Nat /\ k - 1 < i /\ i <= j /\ j + 1 <= n /\ k \in Nat \ {0}
      <4>1. PICK pl, pr, right, r : pl = scan.pl /\ pr = scan.pr /\ right = scan.right /\ r = Top.r
        OBVIOUS
      <4>2. /\ pl \in Nat /\ pr \in Nat /\ right \in Nat /\ r \in Nat /\ pl < pr - 1 /\ pr <= right
            /\ right <= r /\ r <= n /\ i = pr - 1 /\ j = right - 1 /\ k = pl + 1
        BY <1>2, <2>6, <3>1, <3>2, <3>3, <4>1
      <4> QED BY <3>2, <4>2
    <3>5. /\ i + 1 \in 1 .. Len(order) /\ j + 1 \in 1 .. Len(order)
          /\ k \in 1 .. Len(order) /\ k # i + 1 /\ k # j + 1
      BY SMTT(30), <3>1, <3>2, <3>4
    <3>6. Exchanged(order, i, j)[k] = order[k]
      BY <1>2, <3>4, <3>5, ExchangedAt
    <3> QED BY <2>4, <3>1, <3>6
  <2> QED BY <1>1, <1>2, <2>1, <2>3, <2>4, <2>5, <2>6, PassGoesOn
<1>8. CASE label > scan.pivot
  <2>1. order' = order /\ scan' = [scan EXCEPT !.pr = scan.pr - 1]
    BY <1>2, <1>3, <1>8 DEF ScanDown
  <2>2. scan' \in Scans /\ scan'.left = scan.left /\ scan'.pl = scan.pl /\ scan'.pr = scan.pr - 1
        /\ scan'.right = scan.right /\ scan'.pivot = scan.pivot
    BY <1>2, <1>4, <2>1 DEF Scans
  <2>3. InPass(order, Top, scan.left, scan.pl, scan.pr - 1, scan.right, scan.pivot)
    BY <1>2, <1>3, <1>8, DownGreater
  <2> QED BY <1>1, <1>2, <1>5, <2>1, <2>2, <2>3, PassGoesOn
<1> QED BY <1>2, <1>3, <1>6, <1>7, <1>8

(* What the order of the parts is: a, b and c.                             *)
PartsAs(pl, pr, less, equal, greater, a, b, c) ==
  /\ Parts(pl, pr) = <<a, b, c>> /\ {a, b, c} = {less, equal, greater}
  /\ less # equal /\ equal # greater /\ less # greater => a # b /\ b # c /\ a # c

LEMMA PartsAre ==
  ASSUME NEW pl, NEW pr, NEW less, NEW equal, NEW greater,
         less = Frame(Top.l, pl, Top.depth), equal = Frame(pl, pr, Top.depth + 1),
         greater = Frame(pr, Top.r, Top.depth)
  PROVE  \E a, b, c \in {less, equal, greater} : PartsAs(pl, pr, less, equal, greater, a, b, c)
<1>1. \/ Parts(pl, pr) = <<less, greater, equal>> \/ Parts(pl, pr) = <<equal, less, greater>>
      \/ Parts(pl, pr) = <<equal, greater, less>>
  BY DEF Parts
<1>2. /\ {less, greater, equal} = {less, equal, greater} /\ {equal, less, greater} = {less, equal, greater}
      /\ {equal, greater, less} = {less, equal, greater}
  OBVIOUS
<1>3. CASE Parts(pl, pr) = <<less, greater, equal>>
  <2>1. PartsAs(pl, pr, less, equal, greater, less, greater, equal)
    BY <1>2, <1>3 DEF PartsAs
  <2> QED BY <2>1
<1>4. CASE Parts(pl, pr) = <<equal, less, greater>>
  <2>1. PartsAs(pl, pr, less, equal, greater, equal, less, greater)
    BY <1>2, <1>4 DEF PartsAs
  <2> QED BY <2>1
<1>5. CASE Parts(pl, pr) = <<equal, greater, less>>
  <2>1. PartsAs(pl, pr, less, equal, greater, equal, greater, less)
    BY <1>2, <1>5 DEF PartsAs
  <2> QED BY <2>1
<1> QED BY <1>1, <1>3, <1>4, <1>5

-----------------------------------------------------------------------------
(* The parts of the innermost call, once its keys are gathered, in the     *)
(* order in which they are sorted.                                         *)
PartsOf(z, pl, pr, a, b, c) ==
  LET less    == Frame(Top.l, pl, Top.depth)
      equal   == Frame(pl, pr, Top.depth + 1)
      greater == Frame(pr, Top.r, Top.depth)
  IN  /\ {a, b, c} = {less, equal, greater}
      /\ \A part \in {a, b, c} :
           /\ part \in Frames /\ part.l <= part.r /\ part.r <= Len(z)
           /\ Spread(part) \subseteq Spread(Top)
           /\ part.depth > Top.depth => part = equal

LEMMA PartsFit ==
  ASSUME SortSound, stack # << >>, NEW z, NEW pl, NEW pr, GatheredAs(z, pl, pr),
         NEW a, NEW b, NEW c,
         {a, b, c} = {Frame(Top.l, pl, Top.depth), Frame(pl, pr, Top.depth + 1), Frame(pr, Top.r, Top.depth)}
  PROVE  PartsOf(z, pl, pr, a, b, c)
<1>1. /\ Top \in Frames /\ Top.l \in Nat /\ Top.r \in Nat /\ Top.depth \in Nat
      /\ Top.l <= Top.r /\ Top.r <= Len(order) /\ Spread(Top) = Stretch(Top.l, Top.r)
  BY TopIs
<1>2. /\ pl \in Nat /\ pr \in Nat /\ Top.l <= pl /\ pl <= pr /\ pr <= Top.r
      /\ Len(z) = Len(order) /\ Len(z) \in Nat /\ z \in Seq(Text)
  BY DEF GatheredAs, Rearranged
<1>3. PICK less, equal, greater : /\ less = Frame(Top.l, pl, Top.depth) /\ equal = Frame(pl, pr, Top.depth + 1)
                                  /\ greater = Frame(pr, Top.r, Top.depth)
  OBVIOUS
<1>4. /\ less \in Frames /\ less.l = Top.l /\ less.r = pl /\ less.depth = Top.depth
      /\ equal \in Frames /\ equal.l = pl /\ equal.r = pr
      /\ greater \in Frames /\ greater.l = pr /\ greater.r = Top.r /\ greater.depth = Top.depth
  BY <1>1, <1>2, <1>3 DEF Frames, Frame
<1>5. /\ Spread(less) \subseteq Spread(Top) /\ Spread(equal) \subseteq Spread(Top)
      /\ Spread(greater) \subseteq Spread(Top)
  BY <1>1, <1>2, <1>4 DEF Spread, Stretch
<1>6. {a, b, c} = {less, equal, greater}
  BY <1>3
<1>7. ASSUME NEW part \in {less, equal, greater}
      PROVE  /\ part \in Frames /\ part.l <= part.r /\ part.r <= Len(z)
             /\ Spread(part) \subseteq Spread(Top)
             /\ part.depth > Top.depth => part = equal
  <2>1. part = less \/ part = equal \/ part = greater
    OBVIOUS
  <2>2. CASE part = less
    BY <1>1, <1>2, <1>4, <1>5, <2>2
  <2>3. CASE part = equal
    BY <1>1, <1>2, <1>4, <1>5, <2>3
  <2>4. CASE part = greater
    BY <1>1, <1>2, <1>4, <1>5, <2>4
  <2> QED BY <2>1, <2>2, <2>3, <2>4
<1> QED BY <1>3, <1>6, <1>7 DEF PartsOf

(* The part of keys that are equal at their depth: when they have ended,   *)
(* they are one and the same.                                              *)
LEMMA EndedAreOne ==
  ASSUME SortSound, stack # << >>, Len(order) > 1, NEW z, NEW pl, NEW pr, GatheredAs(z, pl, pr),
         NEW part, part = Frame(pl, pr, Top.depth + 1), scan.pivot = EndMark
  PROVE  \A i, j \in Spread(part) : z[i] = z[j]
<1>1. /\ Top \in Frames /\ Top.l \in Nat /\ Top.r \in Nat /\ Top.depth \in Nat
      /\ Top.l <= Top.r /\ Top.r <= Len(order) /\ Spread(Top) = Stretch(Top.l, Top.r)
      /\ Top \in CallsOf(stack)
  BY TopIs
<1>2. /\ pl \in Nat /\ pr \in Nat /\ Top.l <= pl /\ pl <= pr /\ pr <= Top.r
      /\ Len(z) = Len(order) /\ Len(z) \in Nat /\ z \in Seq(Text) /\ Rearranged(order, z, Spread(Top))
  BY DEF GatheredAs, Rearranged
<1>3. Settled(z, CallsOf(stack), count)
  BY <1>2, KeysMove DEF Pending
<1>4. \A i, j \in Spread(Top) : Alike(z[i], z[j], Top.depth)
  BY <1>1, <1>3 DEF Settled
<1>5. Spread(part) = Stretch(pl, pr)
  BY <1>2 DEF Spread, Frame
<1>6. ASSUME NEW i \in Spread(part), NEW j \in Spread(part) PROVE z[i] = z[j]
  <2>1. i \in Spread(Top) /\ j \in Spread(Top) /\ i \in 1 .. Len(z) /\ j \in 1 .. Len(z)
    BY SMTT(30), <1>1, <1>2, <1>5 DEF Stretch
  <2>2. z[i] \in Text /\ z[j] \in Text
    BY <1>2, <2>1
  <2>3. Label(z[i], Top.depth) = EndMark /\ Label(z[j], Top.depth) = EndMark
    BY <1>5 DEF GatheredAs, AllAt
  <2> QED BY <1>1, <1>4, <2>1, <2>2, <2>3, EndedTogether
<1> QED BY <1>6

(* The three parts, each of them sorted in turn or over.                   *)
LEMMA ThreeOver ==
  ASSUME NEW z \in Seq(Text), NEW G, NEW n, NEW a, NEW b, NEW c, a # b, b # c, a # c,
         a \notin G, b \notin G, c \notin G, Settled(z, G \cup {a, b, c}, n),
         NEW ea \in BOOLEAN, NEW eb \in BOOLEAN, NEW ec \in BOOLEAN,
         ea => \A i, j \in Spread(a) : z[i] = z[j], eb => \A i, j \in Spread(b) : z[i] = z[j],
         ec => \A i, j \in Spread(c) : z[i] = z[j]
  PROVE  Settled(z, ((G \cup Pended(c, ec)) \cup Pended(b, eb)) \cup Pended(a, ea),
                 n + Counted(a, ea) + Counted(b, eb) + Counted(c, ec))
<1>1. PICK F1 : F1 = G \cup {a, b, c}
  OBVIOUS
<1>2. Settled(z, (F1 \ {a}) \cup Pended(a, ea), n + Counted(a, ea))
  BY <1>1, PartOver
<1>3. PICK F2 : F2 = (F1 \ {a}) \cup Pended(a, ea)
  OBVIOUS
<1>4. F2 = G \cup {b, c} \cup Pended(a, ea)
  BY <1>1, <1>3
<1>5. PICK n2 : n2 = n + Counted(a, ea)
  OBVIOUS
<1>6. Settled(z, (F2 \ {b}) \cup Pended(b, eb), n2 + Counted(b, eb))
  BY <1>2, <1>3, <1>4, <1>5, PartOver
<1>7. PICK F3 : F3 = (F2 \ {b}) \cup Pended(b, eb)
  OBVIOUS
<1>8. F3 = G \cup {c} \cup Pended(a, ea) \cup Pended(b, eb)
  BY <1>4, <1>7 DEF Pended
<1>9. PICK n3 : n3 = n2 + Counted(b, eb)
  OBVIOUS
<1>10. Settled(z, (F3 \ {c}) \cup Pended(c, ec), n3 + Counted(c, ec))
  BY <1>6, <1>7, <1>8, <1>9, PartOver
<1>11. (F3 \ {c}) \cup Pended(c, ec) = ((G \cup Pended(c, ec)) \cup Pended(b, eb)) \cup Pended(a, ea)
  BY <1>8 DEF Pended
<1> QED BY <1>5, <1>9, <1>10, <1>11

LEMMA SplitSound ==
  ASSUME SortSound, Split
  PROVE  SortSound'
<1>1. stack # << >> /\ scan # NoScan /\ scan.pl >= scan.pr /\ scan' = NoScan /\ unsorted' = unsorted
      /\ order \in Seq(Text) /\ PassSound
  BY DEF Split, SortSound
<1>2. PICK pl, pr : pl = scan.pl - (scan.left - Top.l) /\ pr = scan.pr + (Top.r - scan.right)
  OBVIOUS
<1>3. PICK z : z = Gathered
  OBVIOUS
<1>4. GatheredAs(z, pl, pr)
  BY <1>1, <1>2, <1>3, GatheredIs
<1>5. /\ pl \in Nat /\ pr \in Nat /\ Top.l <= pl /\ pl <= pr /\ pr <= Top.r
      /\ Len(z) = Len(order) /\ Len(z) \in Nat /\ z \in Seq(Text) /\ Rearranged(order, z, Spread(Top))
  BY <1>4 DEF GatheredAs, Rearranged
<1>6. /\ Top \in Frames /\ Top.l \in Nat /\ Top.r \in Nat /\ Top.depth \in Nat
      /\ Tail(stack) \in Seq(Frames) /\ InRange(order, Tail(stack)) /\ Top \in CallsOf(stack)
      /\ \A i \in 1 .. Len(Tail(stack)) : Tail(stack)[i] \in CallsOf(stack)
      /\ OneEach(stack) => OneEach(Tail(stack)) /\ CallsOf(Tail(stack)) = CallsOf(stack) \ {Top}
  BY <1>1, TopIs
<1>7. PICK less, equal, greater : /\ less = Frame(Top.l, pl, Top.depth) /\ equal = Frame(pl, pr, Top.depth + 1)
                                  /\ greater = Frame(pr, Top.r, Top.depth)
  OBVIOUS
<1>8. PICK a, b, c \in {less, equal, greater} :
        /\ Parts(pl, pr) = <<a, b, c>> /\ {a, b, c} = {less, equal, greater}
        /\ less # equal /\ equal # greater /\ less # greater => a # b /\ b # c /\ a # c
  <2>1. PICK a, b, c \in {less, equal, greater} : PartsAs(pl, pr, less, equal, greater, a, b, c)
    BY <1>7, PartsAre
  <2> QED BY <2>1 DEF PartsAs
<1> DEFINE Ended(f) == f.depth > Top.depth /\ scan.pivot = EndMark
<1>9. PICK ea, eb, ec \in BOOLEAN : ea = Ended(a) /\ eb = Ended(b) /\ ec = Ended(c)
  <2>1. Ended(a) \in BOOLEAN /\ Ended(b) \in BOOLEAN /\ Ended(c) \in BOOLEAN
    OBVIOUS
  <2> HIDE DEF Ended
  <2> QED BY <2>1
<1>10. /\ order' = z
       /\ count' = count + Counted(a, ea) + Counted(b, eb) + Counted(c, ec)
       /\ stack' = Resumed(a, ea, Resumed(b, eb, Resumed(c, ec, Tail(stack))))
  <2>1. PICK parts : parts = Parts(pl, pr)
    OBVIOUS
  <2>2. /\ order' = Gathered
        /\ count' = count + Counted(parts[1], Ended(parts[1])) + Counted(parts[2], Ended(parts[2]))
                          + Counted(parts[3], Ended(parts[3]))
        /\ stack' = Resumed(parts[1], Ended(parts[1]), Resumed(parts[2], Ended(parts[2]),
                      Resumed(parts[3], Ended(parts[3]), Tail(stack))))
    BY <1>2, <2>1, Zenon DEF Split
  <2>3. parts[1] = a /\ parts[2] = b /\ parts[3] = c
    BY <1>8, <2>1
  <2> HIDE DEF Ended
  <2> QED BY <1>3, <1>9, <2>2, <2>3
<1>11. PartsOf(z, pl, pr, a, b, c)
  BY <1>1, <1>4, <1>7, <1>8, PartsFit
<1>12. \A part \in {a, b, c} : /\ part \in Frames /\ part.l <= part.r /\ part.r <= Len(z)
                               /\ Spread(part) \subseteq Spread(Top)
                               /\ part.depth > Top.depth => part = equal
  BY <1>7, <1>11 DEF PartsOf
<1>13. PICK s1 : s1 = Resumed(c, ec, Tail(stack))
  OBVIOUS
<1>14. PICK s2 : s2 = Resumed(b, eb, s1)
  OBVIOUS
<1>15. /\ s1 \in Seq(Frames) /\ CallsOf(s1) = CallsOf(Tail(stack)) \cup Pended(c, ec)
       /\ OneEach(Tail(stack)) /\ c \notin CallsOf(Tail(stack)) => OneEach(s1)
  <2>1. PICK s0 : s0 = Tail(stack)
    OBVIOUS
  <2>2. s0 \in Seq(Frames) /\ c \in Frames /\ s1 = Resumed(c, ec, s0)
    BY <1>6, <1>12, <1>13, <2>1
  <2>3. /\ s1 \in Seq(Frames) /\ CallsOf(s1) = CallsOf(s0) \cup Pended(c, ec)
        /\ OneEach(s0) /\ c \notin CallsOf(s0) => OneEach(s1)
    BY <2>2, ResumedIs
  <2> QED BY <2>1, <2>3
<1>16. /\ s2 \in Seq(Frames) /\ CallsOf(s2) = CallsOf(s1) \cup Pended(b, eb)
       /\ OneEach(s1) /\ b \notin CallsOf(s1) => OneEach(s2)
  BY <1>12, <1>14, <1>15, ResumedIs
<1>17. /\ stack' \in Seq(Frames) /\ CallsOf(stack') = CallsOf(s2) \cup Pended(a, ea)
       /\ OneEach(s2) /\ a \notin CallsOf(s2) => OneEach(stack')
  <2>1. stack' = Resumed(a, ea, s2)
    BY <1>10, <1>13, <1>14
  <2> QED BY <1>12, <1>16, <2>1, ResumedIs
<1>18. CallsOf(stack') = ((CallsOf(Tail(stack)) \cup Pended(c, ec)) \cup Pended(b, eb)) \cup Pended(a, ea)
  BY <1>15, <1>16, <1>17
<1>19. \A i \in 1 .. Len(stack') : stack'[i] \in CallsOf(stack')
  BY DEF CallsOf
<1>20. InRange(order', stack')
  <2>1. \A f \in CallsOf(Tail(stack)) : f.l <= f.r /\ f.r <= Len(z)
    BY <1>5, <1>6 DEF InRange, CallsOf
  <2>2. \A f \in CallsOf(stack') : f.l <= f.r /\ f.r <= Len(z)
    BY <1>12, <1>18, <2>1 DEF Pended
  <2> QED BY <1>10, <1>17, <1>19, <2>2 DEF InRange
<1>21. /\ order' \in Seq(Text) /\ BagOf(order') = BagOf(unsorted')
       /\ Len(order) > 1 => Pending(order', stack, count)
  BY <1>1, <1>5, <1>10, KeysMove
<1>22. ASSUME Len(order) > 1 PROVE Pending(order', stack', count')
  <2>1. Pending(order, stack, count) /\ Pending(z, stack, count)
    BY <1>10, <1>21, <1>22 DEF SortSound
  <2>2. /\ OneEach(stack) /\ Settled(z, CallsOf(stack), count) /\ \A f \in CallsOf(stack) : f.r - f.l > 1
    BY <2>1 DEF Pending, CallsOf
  <2>3. PICK G : G = CallsOf(stack) \ {Top}
    OBVIOUS
  <2>4. CallsOf(Tail(stack)) = G /\ OneEach(Tail(stack)) /\ G \subseteq Frames /\ Top.r - Top.l > 1
    BY <1>6, <2>2, <2>3 DEF Settled
  <2>5. Settled(z, G \cup {less, equal, greater}, count)
    <3>1. PICK F, t, d : F = CallsOf(stack) /\ t = Top /\ d = Top.depth
      OBVIOUS
    <3>2. scan.pivot \in Int
      BY <1>1 DEF PassSound, Scans
    <3>3. t \in F /\ t.l < t.r /\ Settled(z, F, count)
      BY <1>6, <2>2, <2>4, <3>1
    <3>4. /\ AllBelow(z, t.depth, scan.pivot, Stretch(t.l, pl)) /\ AllAt(z, t.depth, scan.pivot, Stretch(pl, pr))
          /\ AllAbove(z, t.depth, scan.pivot, Stretch(pr, t.r)) /\ t.l <= pl /\ pl <= pr /\ pr <= t.r
      BY <1>4, <3>1 DEF GatheredAs
    <3>5. Settled(z, (F \ {t}) \cup {Frame(t.l, pl, t.depth), Frame(pl, pr, t.depth + 1),
                                     Frame(pr, t.r, t.depth)}, count)
      BY <1>5, <3>2, <3>3, <3>4, SettledParted
    <3> QED BY <1>7, <2>3, <3>1, <3>5
  <2>6. ASSUME NEW part \in {a, b, c} PROVE part \notin G
    <3>1. SUFFICES ASSUME part \in G PROVE FALSE
      OBVIOUS
    <3>2. part \in CallsOf(stack) /\ part # Top /\ part.r - part.l > 1
      BY <2>2, <2>3, <3>1
    <3>3. Spread(part) \cap Spread(Top) = {}
      BY <1>6, <2>2, <3>2 DEF Settled
    <3>4. part.l \in Nat /\ part.r \in Nat
      BY <1>12 DEF Frames
    <3>5. part.r \in Spread(part)
      BY <3>2, <3>4 DEF Spread, Stretch
    <3> QED BY <1>12, <3>3, <3>5
  <2>7. less # equal /\ equal # greater /\ less # greater
    <3>1. /\ less.l = Top.l /\ less.r = pl /\ less.depth = Top.depth /\ equal.depth = Top.depth + 1
          /\ greater.l = pr /\ greater.r = Top.r /\ greater.depth = Top.depth
      BY <1>7 DEF Frame
    <3> QED BY <1>5, <1>6, <2>4, <3>1
  <2>8. a # b /\ b # c /\ a # c
    BY <1>8, <2>7
  <2>9. ASSUME NEW part \in {a, b, c}, Ended(part) PROVE \A i, j \in Spread(part) : z[i] = z[j]
    <3>1. part = equal /\ scan.pivot = EndMark
      BY <1>12, <2>9
    <3> QED BY <1>1, <1>4, <1>7, <1>22, <3>1, EndedAreOne
  <2>10. Settled(z, ((G \cup Pended(c, ec)) \cup Pended(b, eb)) \cup Pended(a, ea),
                 count + Counted(a, ea) + Counted(b, eb) + Counted(c, ec))
    <3>1. Settled(z, G \cup {a, b, c}, count)
      BY <1>8, <2>5
    <3>2. /\ ea => \A i, j \in Spread(a) : z[i] = z[j]
          /\ eb => \A i, j \in Spread(b) : z[i] = z[j]
          /\ ec => \A i, j \in Spread(c) : z[i] = z[j]
      <4> HIDE DEF Ended
      <4> QED BY <1>9, <2>9
    <3>3. a \notin G /\ b \notin G /\ c \notin G
      BY <2>6
    <3> QED BY <1>5, <2>8, <3>1, <3>2, <3>3, ThreeOver
  <2>11. Settled(z, CallsOf(stack'), count')
    BY <1>10, <1>18, <2>4, <2>10
  <2>12. OneEach(stack')
    <3>1. c \notin CallsOf(Tail(stack)) /\ b \notin CallsOf(s1) /\ a \notin CallsOf(s2)
      BY <1>15, <1>16, <2>4, <2>6, <2>8 DEF Pended
    <3> QED BY <1>15, <1>16, <1>17, <2>4, <3>1
  <2>13. \A f \in CallsOf(stack') : f.r - f.l > 1
    BY <1>18, <2>2, <2>3, <2>4 DEF Pended, Open
  <2> QED BY <1>10, <1>19, <2>11, <2>12, <2>13 DEF Pending
<1> QED BY <1>1, <1>5, <1>10, <1>20, <1>21, <1>22 DEF SortSound

LEMMA SortStays ==
  ASSUME SortSound, [SortStep]_sortVars
  PROVE  SortSound'
<1>1. CASE UNCHANGED sortVars
  <2>1. /\ unsorted' = unsorted /\ order' = order /\ stack' = stack /\ scan' = scan /\ count' = count
        /\ Top' = Top
    BY <1>1 DEF sortVars, Top
  <2>2. PassSound => PassSound'
    BY <2>1 DEF PassSound
  <2> QED BY <2>1, <2>2 DEF SortSound
<1> QED BY <1>1, InsertionSound, PassBegins, ScanUpSound, ScanDownSound, SplitSound DEF SortStep

(* When no call is left, the keys are in order and their distinct ones are *)
(* counted.                                                                *)
LEMMA SoundSorts ==
  ASSUME SortSound
  PROVE  SortsKeys
<1>1. order \in Seq(Text) /\ Len(order) \in Nat /\ BagOf(order) = BagOf(unsorted)
  BY DEF SortSound
<1>2. ASSUME stack = << >>, Len(order) > 1
      PROVE  /\ \A i \in 1 .. Len(order) - 1 : ~ Less(order[i + 1], order[i], 0)
             /\ count = Cardinality(Range(order))
  <2>1. CallsOf(stack) = {}
    BY <1>2 DEF CallsOf
  <2>2. Settled(order, {}, count)
    BY <1>2, <2>1 DEF SortSound, Pending
  <2>3. ASSUME NEW i \in 1 .. Len(order) - 1 PROVE ~ Less(order[i + 1], order[i], 0)
    <3>1. i \in 1 .. Len(order) /\ i + 1 \in 1 .. Len(order) /\ i < i + 1 /\ ~ Together({}, i, i + 1)
      BY <1>1 DEF Together
    <3> QED BY <2>2, <3>1 DEF Settled
  <2>4. ValuesAt(order, Free(order, {})) = Range(order)
    <3>1. Free(order, {}) = 1 .. Len(order) /\ DOMAIN order = 1 .. Len(order)
      BY <1>1 DEF Free
    <3> QED BY <3>1 DEF ValuesAt, Range
  <2> QED BY <2>2, <2>3, <2>4 DEF Settled
<1>3. ASSUME ~ (Len(order) > 1) PROVE \A i \in 1 .. Len(order) - 1 : ~ Less(order[i + 1], order[i], 0)
  BY <1>1, <1>3
<1> QED BY <1>1, <1>2, <1>3 DEF SortsKeys

(* The sort of keys, whatever the strings, their number and the threshold  *)
(* of the insertion sort: no key is lost or doubled, and in the end they   *)
(* are in order and the distinct ones of two or more are counted.          *)
THEOREM KeysSorted == KeySortSpec => []SortsKeys
<1>1. KeySortInit => SortSound
  BY SortStarts
<1>2. SortSound /\ [SortStep]_sortVars => SortSound'
  BY SortStays
<1>3. SortSound => SortsKeys
  BY SoundSorts
<1> QED BY <1>1, <1>2, <1>3, PTL DEF KeySortSpec
=============================================================================
