---------------------------- MODULE VectorProofs -----------------------------
(***************************************************************************)
(* Theorems about the two vectors, for units of any size.  The flat        *)
(* vector: every value reads back, whatever its size.  The bit vector:     *)
(* its rank and its selects, with the tables and without them, answer what *)
(* counting its bits one by one answers.                                   *)
(***************************************************************************)
EXTENDS VectorBuild, FiniteSetTheorems, WellFoundedInduction, TLAPS

-----------------------------------------------------------------------------
(* What a sequence made of a function is.                                  *)
LEMMA SeqOfFunction ==
  ASSUME NEW S, NEW n \in Nat, NEW f \in [1 .. n -> S]
  PROVE  f \in Seq(S) /\ Len(f) = n
OBVIOUS

LEMMA LenNat ==
  ASSUME NEW S, NEW s \in Seq(S)
  PROVE  Len(s) \in Nat
OBVIOUS

(* A set of natural numbers that is not empty has a least one.             *)
LEMMA LeastNumber ==
  ASSUME NEW T \in SUBSET Nat, T # {}
  PROVE  \E k \in T : \A l \in T : k <= l
<1> DEFINE R == OpToRel(<, Nat)
<1>1. \A x, y \in Nat : y < x => <<y, x>> \in R
  BY Zenon DEF OpToRel
<1>2. PICK k \in T : \A l \in T : <<l, k>> \notin R
  <2> HIDE DEF R
  <2> QED BY NatLessThanWellFounded, WFMin DEF R
<1>3. \A l \in T : ~ (l < k)
  BY <1>1, <1>2
<1> QED BY <1>3

(* A function on the numbers may be defined by its value at 0 and, for     *)
(* every other number, a step from its value at a smaller one.             *)
Falls(back) == back \in [Nat -> Nat] /\ \A n \in Nat \ {0} : back[n] < n

Starts(g, n, first, step, back) ==
  /\ g[0] = first
  /\ \A k \in 1 .. n : g[k] = step[<<k, g[back[k]]>>]

Follows(f, S, first, step, back) ==
  f \in [Nat -> S] /\ f[0] = first /\ \A n \in Nat \ {0} : f[n] = step[<<n, f[back[n]]>>]

LEMMA StartsExist ==
  ASSUME NEW S, NEW first \in S, NEW step \in [Nat \X S -> S], NEW back, Falls(back)
  PROVE  \A n \in Nat : \E g \in [0 .. n -> S] : Starts(g, n, first, step, back)
<1> DEFINE T == {n \in Nat : ~ \E g \in [0 .. n -> S] : Starts(g, n, first, step, back)}
<1>1. SUFFICES ASSUME T # {} PROVE FALSE
  OBVIOUS
<1>2. PICK n \in T : \A l \in T : n <= l
  <2> HIDE DEF T
  <2>1. T \in SUBSET Nat
    BY DEF T
  <2> QED BY <1>1, <2>1, LeastNumber
<1>3. n # 0
  <2>1. [k \in 0 .. 0 |-> first] \in [0 .. 0 -> S]
    OBVIOUS
  <2>2. Starts([k \in 0 .. 0 |-> first], 0, first, step, back)
    BY DEF Starts
  <2> QED BY <1>2, <2>1, <2>2
<1>4. n \in Nat /\ n - 1 \in Nat /\ n - 1 \notin T
  <2>1. n \in Nat /\ n - 1 \in Nat /\ ~ (n <= n - 1)
    BY <1>2, <1>3
  <2> HIDE DEF T
  <2> QED BY <1>2, <2>1
<1>5. PICK g \in [0 .. n - 1 -> S] : Starts(g, n - 1, first, step, back)
  BY <1>4
<1>6. back[n] \in 0 .. n - 1
  BY <1>3, <1>4 DEF Falls
<1> DEFINE h == [k \in 0 .. n |-> IF k = n THEN step[<<n, g[back[n]]>>] ELSE g[k]]
<1>7. h \in [0 .. n -> S]
  <2>1. g[back[n]] \in S
    BY <1>5, <1>6
  <2>2. step[<<n, g[back[n]]>>] \in S
    BY <2>1, <1>4
  <2> QED BY <1>4, <1>5, <2>2
<1>8. h[0] = first
  BY <1>3, <1>4, <1>5 DEF Starts
<1>9. ASSUME NEW k \in 1 .. n PROVE h[k] = step[<<k, h[back[k]]>>]
  <2>1. k \in Nat /\ back[k] \in 0 .. n - 1 /\ back[k] # n
    BY <1>4 DEF Falls
  <2>2. h[back[k]] = g[back[k]]
    BY <2>1, <1>4
  <2>3. CASE k = n
    <3>1. h[n] = step[<<n, g[back[n]]>>]
      BY <1>4
    <3> HIDE DEF h
    <3> QED BY <2>2, <2>3, <3>1
  <2>4. CASE k # n
    <3>1. k \in 1 .. n - 1 /\ h[k] = g[k]
      BY <2>4, <1>4
    <3> QED BY <3>1, <2>2, <1>5 DEF Starts
  <2> QED BY <2>3, <2>4
<1>10. Starts(h, n, first, step, back)
  <2> HIDE DEF h
  <2> QED BY <1>8, <1>9 DEF Starts
<1> QED BY <1>2, <1>7, <1>10

LEMMA StartsAgree ==
  ASSUME NEW first, NEW step, NEW back, Falls(back),
         NEW n \in Nat, NEW m \in Nat, NEW g, NEW h,
         Starts(g, n, first, step, back), Starts(h, m, first, step, back),
         NEW k \in Nat, k <= n, k <= m
  PROVE  g[k] = h[k]
<1> DEFINE T == {l \in Nat : l <= n /\ l <= m /\ g[l] # h[l]}
<1>1. SUFFICES ASSUME T # {} PROVE FALSE
  OBVIOUS
<1>2. PICK l \in T : \A i \in T : l <= i
  <2> HIDE DEF T
  <2>1. T \in SUBSET Nat
    BY DEF T
  <2> QED BY <1>1, <2>1, LeastNumber
<1>3. l \in Nat /\ l <= n /\ l <= m /\ g[l] # h[l] /\ l # 0
  BY <1>2 DEF Starts
<1>4. back[l] \in Nat /\ back[l] < l /\ back[l] \notin T
  BY <1>2, <1>3 DEF Falls
<1>5. g[back[l]] = h[back[l]]
  BY <1>3, <1>4
<1>6. l \in 1 .. n /\ l \in 1 .. m
  BY <1>3
<1> QED BY <1>3, <1>5, <1>6 DEF Starts

LEMMA RecursionExists ==
  ASSUME NEW S, NEW first \in S, NEW step, step \in [Nat \X S -> S], NEW back, Falls(back)
  PROVE  \E f : Follows(f, S, first, step, back)
<1> DEFINE start(n) == CHOOSE g \in [0 .. n -> S] : Starts(g, n, first, step, back)
<1>1. ASSUME NEW n \in Nat PROVE start(n) \in [0 .. n -> S] /\ Starts(start(n), n, first, step, back)
  BY StartsExist
<1> DEFINE f == [n \in Nat |-> start(n)[n]]
<1>2. ASSUME NEW n \in Nat PROVE f[n] = start(n)[n] /\ start(n)[n] \in S
  <2> HIDE DEF start
  <2> QED BY <1>1
<1> HIDE DEF start
<1>3. f \in [Nat -> S]
  BY <1>2
<1>4. f[0] = first
  BY <1>1, <1>2 DEF Starts
<1>5. ASSUME NEW n \in Nat \ {0} PROVE f[n] = step[<<n, f[back[n]]>>]
  <2>1. back[n] \in Nat /\ back[n] <= n /\ back[n] <= back[n] /\ n \in 1 .. n
    BY DEF Falls
  <2>2. f[n] = start(n)[n] /\ f[back[n]] = start(back[n])[back[n]]
    BY <1>2, <2>1
  <2>3. start(n)[n] = step[<<n, start(n)[back[n]]>>]
    BY <1>1, <2>1 DEF Starts
  <2>4. Starts(start(n), n, first, step, back) /\ Starts(start(back[n]), back[n], first, step, back)
    BY <1>1, <2>1
  <2>5. start(n)[back[n]] = start(back[n])[back[n]]
    <3>1. PICK g, h, k : g = start(n) /\ h = start(back[n]) /\ k = back[n]
      OBVIOUS
    <3>2. Starts(g, n, first, step, back) /\ Starts(h, k, first, step, back) /\ k \in Nat /\ k <= n /\ k <= k
      BY <2>1, <2>4, <3>1
    <3>3. g[k] = h[k]
      <4> HIDE DEF f
      <4> QED BY <3>2, StartsAgree
    <3> QED BY <3>1, <3>3
  <2> QED BY <2>2, <2>3, <2>5
<1> HIDE DEF f
<1> QED BY <1>3, <1>4, <1>5 DEF Follows

(* A loop is a function: of k it is the value after k steps.               *)
Loop(f, n, first, turn) == f = [k \in 0 .. n |-> IF k = 0 THEN first ELSE turn[<<k, f[k - 1]>>]]

LEMMA LoopExists ==
  ASSUME NEW S, NEW first \in S, NEW n \in Nat, NEW turn \in [(1 .. n) \X S -> S]
  PROVE  \E f \in [0 .. n -> S] : Loop(f, n, first, turn)
<1> DEFINE step == [x \in Nat \X S |-> IF x[1] \in 1 .. n THEN turn[<<x[1], x[2]>>] ELSE first]
           back == [k \in Nat |-> IF k = 0 THEN 0 ELSE k - 1]
<1>1. step \in [Nat \X S -> S]
  <2>1. ASSUME NEW k \in 1 .. n, NEW s \in S PROVE turn[<<k, s>>] \in S
    OBVIOUS
  <2> QED BY <2>1
<1>2. Falls(back)
  BY DEF Falls
<1>3. PICK f : Follows(f, S, first, step, back)
  <2> HIDE DEF step, back
  <2> QED BY <1>1, <1>2, RecursionExists
<1> DEFINE g == [k \in 0 .. n |-> f[k]]
<1>4. ASSUME NEW k \in 0 .. n
      PROVE  g[k] \in S /\ g[k] = IF k = 0 THEN first ELSE turn[<<k, g[k - 1]>>]
  <2>1. g[k] = f[k] /\ f[k] \in S
    BY <1>3 DEF Follows
  <2>2. CASE k = 0
    BY <1>3, <2>1, <2>2 DEF Follows
  <2>3. CASE k # 0
    <3>1. k \in Nat \ {0} /\ back[k] = k - 1 /\ k - 1 \in Nat /\ k \in 1 .. n /\ k - 1 \in 0 .. n
      BY <2>3
    <3>2. f[k] = step[<<k, f[k - 1]>>] /\ f[k - 1] \in S
      <4> HIDE DEF step
      <4> QED BY <1>3, <3>1 DEF Follows
    <3>3. step[<<k, f[k - 1]>>] = turn[<<k, f[k - 1]>>]
      BY <3>1, <3>2
    <3>4. g[k - 1] = f[k - 1]
      BY <3>1
    <3> HIDE DEF step, back, g
    <3> QED BY <2>1, <2>3, <3>2, <3>3, <3>4
  <2> QED BY <2>2, <2>3
<1>5. g \in [0 .. n -> S] /\ g = [k \in 0 .. n |-> IF k = 0 THEN first ELSE turn[<<k, g[k - 1]>>]]
  <2>1. g = [k \in 0 .. n |-> g[k]]
    OBVIOUS
  <2> HIDE DEF g, step
  <2>2. g = [k \in 0 .. n |-> IF k = 0 THEN first ELSE turn[<<k, g[k - 1]>>]]
    BY <1>4, <2>1
  <2> QED BY <1>4, <2>1
<1> HIDE DEF g
<1> QED BY <1>5 DEF Loop

USE WordsAssumption

-----------------------------------------------------------------------------
(* The flat vector.                                                        *)

-----------------------------------------------------------------------------
(* What Width is.                                                          *)
LEMMA HalvingsAre ==
  /\ Halvings \in [Nat -> Nat] /\ Halvings[0] = 0
  /\ \A n \in Nat \ {0} : Halvings[n] = Halvings[n \div 2] + 1
<1> DEFINE step == [x \in Nat \X Nat |-> x[2] + 1]
           back == [n \in Nat |-> n \div 2]
<1>1. PICK f : Follows(f, Nat, 0, step, back)
  <2>1. step \in [Nat \X Nat -> Nat] /\ Falls(back)
    BY DEF Falls
  <2> HIDE DEF step, back
  <2>2. 0 \in Nat
    OBVIOUS
  <2> QED BY <2>1, <2>2, RecursionExists
<1>2. ASSUME NEW n \in Nat \ {0} PROVE f[n] = f[n \div 2] + 1
  <2>1. back[n] = n \div 2 /\ n \div 2 \in Nat
    OBVIOUS
  <2>2. ASSUME NEW k \in Nat PROVE step[<<n, k>>] = k + 1
    OBVIOUS
  <2> HIDE DEF step, back
  <2> QED BY <1>1, <2>1, <2>2 DEF Follows
<1>3. f = [n \in Nat |-> IF n = 0 THEN 0 ELSE f[n \div 2] + 1]
  BY <1>1, <1>2 DEF Follows
<1>4. Halvings = [n \in Nat |-> IF n = 0 THEN 0 ELSE Halvings[n \div 2] + 1]
  BY <1>3 DEF Halvings
<1>5. \A n \in Nat : Halvings[n] = IF n = 0 THEN 0 ELSE Halvings[n \div 2] + 1
  BY <1>4
<1>6. ASSUME NEW n \in Nat PROVE Halvings[n] \in Nat
  <2> DEFINE T == {k \in Nat : Halvings[k] \notin Nat}
  <2>1. SUFFICES ASSUME T # {} PROVE FALSE
    OBVIOUS
  <2>2. PICK k \in T : \A l \in T : k <= l
    <3> HIDE DEF T
    <3>1. T \in SUBSET Nat
      BY DEF T
    <3> QED BY <2>1, <3>1, LeastNumber
  <2>3. k \in Nat /\ k # 0
    BY <2>2, <1>5
  <2>4. k \div 2 \in Nat /\ k \div 2 < k /\ k \div 2 \notin T
    BY <2>2, <2>3
  <2>5. Halvings[k \div 2] \in Nat
    BY <2>4
  <2>6. Halvings[k] = Halvings[k \div 2] + 1
    BY <2>3, <1>5
  <2> QED BY <2>2, <2>5, <2>6
<1> QED BY <1>4, <1>5, <1>6

LEMMA WidthGrows ==
  ASSUME NEW n \in Nat, NEW m \in Nat, m <= n
  PROVE  Width(m) \in Nat /\ Width(m) <= Width(n)
<1>1. \A k \in Nat : Halvings[k] \in Nat
  BY HalvingsAre
<1> DEFINE T == {k \in Nat : \E l \in Nat : l <= k /\ Halvings[l] > Halvings[k]}
<1>2. SUFFICES ASSUME T # {} PROVE FALSE
  BY <1>1 DEF Width
<1>3. PICK k \in T : \A l \in T : k <= l
  <2> HIDE DEF T
  <2>1. T \in SUBSET Nat
    BY DEF T
  <2> QED BY <1>2, <2>1, LeastNumber
<1>4. PICK l \in Nat : l <= k /\ Halvings[l] > Halvings[k]
  BY <1>3
<1>5. k \in Nat /\ k # 0 /\ l # 0
  BY <1>1, <1>3, <1>4, HalvingsAre
<1>6. k \div 2 \in Nat /\ l \div 2 \in Nat /\ k \div 2 < k /\ l \div 2 <= k \div 2
  BY <1>4, <1>5
<1>7. ~ (Halvings[l \div 2] > Halvings[k \div 2])
  BY <1>3, <1>6
<1> QED BY <1>1, <1>4, <1>5, <1>6, <1>7, HalvingsAre
-----------------------------------------------------------------------------
(* Flat vectors of n fields of w bits.                                     *)
Flats(w, n) ==
  [units : [1 .. NumUnits(w, n) -> SUBSET UnitPlaces], width : {w}, size : {n}]

(* The bit at place p, counted from the first unit on.                     *)
Has(f, p) == p % UnitBits \in f.units[p \div UnitBits + 1]

LEMMA ProductGrows ==
  ASSUME NEW a \in Nat, NEW b \in Nat, NEW w \in Nat
  PROVE  /\ a * w \in Nat /\ b * w \in Nat
         /\ a <= b => a * w <= b * w
         /\ a < b => a * w + w <= b * w
<1>1. a * w \in Nat /\ b * w \in Nat
  OBVIOUS
<1>2. ASSUME a <= b PROVE a * w <= b * w
  <2>1. PICK d \in Nat : b = a + d
    BY <1>2
  <2>2. b * w = a * w + d * w /\ d * w \in Nat
    BY <2>1
  <2> QED BY <1>1, <2>2
<1>3. ASSUME a < b PROVE a * w + w <= b * w
  <2>1. PICK d \in Nat : b = a + 1 + d
    <3>1. b - a - 1 \in Nat /\ b = a + 1 + (b - a - 1)
      BY <1>3
    <3> QED BY <3>1
  <2>2. b * w = a * w + w + d * w /\ d * w \in Nat
    BY <2>1
  <2> QED BY <1>1, <2>2
<1> QED BY <1>1, <1>2, <1>3

LEMMA InUnit ==
  ASSUME NEW u \in Nat, NEW b \in UnitPlaces
  PROVE  /\ u * UnitBits + b \in Nat
         /\ (u * UnitBits + b) \div UnitBits = u /\ (u * UnitBits + b) % UnitBits = b
<1> QED BY DEF UnitPlaces

LEMMA PlaceOf ==
  ASSUME NEW p \in Nat
  PROVE  /\ p \div UnitBits \in Nat /\ p % UnitBits \in UnitPlaces
         /\ p = (p \div UnitBits) * UnitBits + (p % UnitBits)
<1> QED BY DEF UnitPlaces

(* The units are enough for the fields, and the last one is needed.        *)
LEMMA EnoughUnits ==
  ASSUME NEW w \in Nat, NEW n \in Nat
  PROVE  /\ NumUnits(w, n) \in Nat
         /\ w * n \in Nat /\ w * n <= NumUnits(w, n) * UnitBits
         /\ NumUnits(w, n) > 0 => (NumUnits(w, n) - 1) * UnitBits <= w * n
<1>1. w * n \in Nat
  OBVIOUS
<1>2. CASE n = 0
  BY <1>2 DEF NumUnits
<1>3. CASE n # 0 /\ w = 0
  BY <1>3 DEF NumUnits
<1>4. CASE n # 0 /\ w # 0
  <2>1. PICK all \in Nat : all = w * n
    BY <1>1
  <2>2. NumUnits(w, n) = (all + UnitBits - 1) \div UnitBits
    BY <1>4, <2>1 DEF NumUnits
  <2>3. PICK q \in Nat, r \in UnitPlaces :
          q = (all + UnitBits - 1) \div UnitBits /\ all + UnitBits - 1 = q * UnitBits + r
    <3>1. all + UnitBits - 1 \in Nat
      OBVIOUS
    <3> QED BY <3>1, PlaceOf
  <2>4. q * UnitBits \in Nat /\ (q - 1) * UnitBits = q * UnitBits - UnitBits
    OBVIOUS
  <2>5. all <= q * UnitBits /\ q * UnitBits - UnitBits <= all
    BY <2>3, <2>4 DEF UnitPlaces
  <2> QED BY <1>1, <2>1, <2>2, <2>3, <2>4, <2>5
<1> QED BY <1>2, <1>3, <1>4

(* A field begins at its place.                                            *)
LEMMA FieldBegins ==
  ASSUME NEW f, NEW i \in Nat, f.width \in Nat
  PROVE  /\ i * f.width \in Nat /\ UnitId(f, i) \in Nat /\ UnitOffset(f, i) \in UnitPlaces
         /\ i * f.width = UnitId(f, i) * UnitBits + UnitOffset(f, i)
<1>1. i * f.width \in Nat
  OBVIOUS
<1> QED BY <1>1, PlaceOf DEF UnitId, UnitOffset

(* What set writes to a unit is the field at its place.                    *)
LEMMA PartIs ==
  ASSUME NEW w \in 0 .. UnitBits, NEW f, f.width = w, NEW i \in Nat,
         NEW bits, bits \subseteq 0 .. w - 1, NEW u \in Nat, NEW b \in UnitPlaces
  PROVE  b \in Part(f, i, bits, u) <=> u * UnitBits + b - i * w \in bits
<1>1. PICK q \in Nat, r \in UnitPlaces :
        q = UnitId(f, i) /\ r = UnitOffset(f, i) /\ i * w = q * UnitBits + r
  BY FieldBegins
<1>2. /\ u * UnitBits \in Nat /\ q * UnitBits \in Nat
      /\ b \in Nat /\ b < UnitBits /\ r \in Nat /\ r < UnitBits /\ bits \subseteq 0 .. w - 1
  BY <1>1 DEF UnitPlaces
<1>3. CASE u = q
  <2>1. Part(f, i, bits, u) = ShiftLeft(bits, r)
    BY <1>1, <1>3 DEF Part
  <2>2. u * UnitBits + b - i * w = b - r
    BY <1>1, <1>2, <1>3
  <2>3. b \in ShiftLeft(bits, r) <=> b - r \in bits
    <3>1. ASSUME b - r \in bits PROVE b \in ShiftLeft(bits, r)
      <4>1. b - r \in bits /\ (b - r) + r < UnitBits /\ b = (b - r) + r
        BY <1>2, <3>1
      <4> QED BY <4>1 DEF ShiftLeft
    <3>2. ASSUME b \in ShiftLeft(bits, r) PROVE b - r \in bits
      <4>1. PICK c \in bits : b = c + r
        BY <3>2 DEF ShiftLeft
      <4>2. c \in Int /\ c = b - r
        BY <1>2, <4>1
      <4> QED BY <4>2
    <3> QED BY <3>1, <3>2
  <2> QED BY <2>1, <2>2, <2>3
<1>4. CASE u = q + 1 /\ Straddles(f, i)
  <2>1. Part(f, i, bits, u) = ShiftRight(bits, UnitBits - r)
    BY <1>1, <1>4 DEF Part
  <2>2. u * UnitBits + b - i * w = b + (UnitBits - r)
    <3>1. u * UnitBits = q * UnitBits + UnitBits
      BY <1>4
    <3> QED BY <1>1, <1>2, <3>1
  <2>3. b \in ShiftRight(bits, UnitBits - r) <=> b + (UnitBits - r) \in bits
    <3>1. ASSUME b + (UnitBits - r) \in bits PROVE b \in ShiftRight(bits, UnitBits - r)
      <4>1. b + (UnitBits - r) >= UnitBits - r /\ b = (b + (UnitBits - r)) - (UnitBits - r)
        BY <1>2
      <4> QED BY <3>1, <4>1 DEF ShiftRight
    <3>2. ASSUME b \in ShiftRight(bits, UnitBits - r) PROVE b + (UnitBits - r) \in bits
      <4>1. PICK c \in bits : b = c - (UnitBits - r)
        BY <3>2 DEF ShiftRight
      <4>2. c \in Int /\ c = b + (UnitBits - r)
        BY <1>2, <4>1
      <4> QED BY <4>2
    <3> QED BY <3>1, <3>2
  <2> QED BY <2>1, <2>2, <2>3
<1>5. CASE u # q /\ ~ (u = q + 1 /\ Straddles(f, i))
  <2>1. b \notin Part(f, i, bits, u)
    BY <1>1, <1>5 DEF Part
  <2>2. u * UnitBits + b - i * w \notin 0 .. w - 1
    <3>1. CASE u < q
      <4>1. u * UnitBits + UnitBits <= q * UnitBits
        BY <3>1, ProductGrows
      <4> QED BY <1>1, <1>2, <4>1
    <3>2. CASE u = q + 1
      <4>1. u * UnitBits = q * UnitBits + UnitBits
        BY <3>2
      <4>2. r + w <= UnitBits
        BY <1>1, <1>2, <1>5, <3>2 DEF Straddles
      <4> QED BY <1>1, <1>2, <4>1, <4>2
    <3>3. CASE u > q + 1
      <4>1. (q + 1) * UnitBits + UnitBits <= u * UnitBits /\ (q + 1) * UnitBits = q * UnitBits + UnitBits
        BY <3>3, ProductGrows
      <4> QED BY <1>1, <1>2, <4>1
    <3> QED BY <1>5, <3>1, <3>2, <3>3
  <2> QED BY <1>2, <2>1, <2>2
<1> QED BY <1>3, <1>4, <1>5
(* A field of a flat vector, in its units.                                 *)
LEMMA FieldInRoom ==
  ASSUME NEW w \in 0 .. UnitBits, NEW n \in Nat, NEW i \in 0 .. n - 1, NEW x \in 0 .. w - 1
  PROVE  /\ i * w + x \in Nat /\ i * w + x < w * n
         /\ i * w + x < NumUnits(w, n) * UnitBits
<1>1. i \in Nat /\ w \in Nat /\ x \in Nat /\ i < n
  OBVIOUS
<1>2. i * w \in Nat /\ i * w + w <= n * w /\ n * w = w * n
  BY <1>1, ProductGrows
<1>3. w * n <= NumUnits(w, n) * UnitBits
  BY <1>1, EnoughUnits
<1>4. NumUnits(w, n) * UnitBits \in Nat /\ w * n \in Nat
  BY <1>1, EnoughUnits
<1> QED BY <1>1, <1>2, <1>3, <1>4

LEMMA UnitThere ==
  ASSUME NEW N \in Nat, NEW p \in Nat, p < N * UnitBits
  PROVE  p \div UnitBits + 1 \in 1 .. N
<1>1. PICK u \in Nat, b \in UnitPlaces : u = p \div UnitBits /\ p = u * UnitBits + b
  BY PlaceOf
<1>2. u < N
  <2>1. CASE N <= u
    <3>1. N * UnitBits <= u * UnitBits /\ u * UnitBits \in Nat /\ N * UnitBits \in Nat
      BY <2>1, ProductGrows
    <3> QED BY <1>1, <3>1 DEF UnitPlaces
  <2> QED BY <2>1
<1> QED BY <1>1, <1>2

(* set.                                                                    *)
LEMMA FieldSetIs ==
  ASSUME NEW w \in 0 .. UnitBits, NEW n \in Nat, NEW f \in Flats(w, n), NEW i \in Nat,
         NEW bits \in SUBSET (0 .. w - 1)
  PROVE  /\ FieldSet(f, i, bits) \in Flats(w, n)
         /\ \A p \in Nat : p < NumUnits(w, n) * UnitBits =>
              (Has(FieldSet(f, i, bits), p) <=>
                 IF p - i * w \in 0 .. w - 1 THEN p - i * w \in bits ELSE Has(f, p))
<1> DEFINE g == FieldSet(f, i, bits)
<1>1. PICK N \in Nat : N = NumUnits(w, n)
  BY EnoughUnits
<1>2. f.units \in [1 .. N -> SUBSET UnitPlaces] /\ f.width = w /\ f.size = n
  BY <1>1 DEF Flats
<1>3. /\ g.units = [k \in 1 .. N |-> (f.units[k] \ Part(f, i, Mask(f), k - 1)) \cup Part(f, i, bits, k - 1)]
      /\ g = [units |-> g.units, width |-> w, size |-> n]
  <2>1. PICK units : units = f.units /\ f = [units |-> units, width |-> w, size |-> n]
    BY <1>2 DEF Flats
  <2>2. DOMAIN f.units = 1 .. N
    BY <1>2
  <2>3. PICK new : new = [k \in 1 .. N |-> (f.units[k] \ Part(f, i, Mask(f), k - 1))
                                            \cup Part(f, i, bits, k - 1)]
    OBVIOUS
  <2>4. g = [f EXCEPT !.units = new]
    BY Zenon, <2>2, <2>3 DEF FieldSet
  <2>5. [f EXCEPT !.units = new] = [units |-> new, width |-> w, size |-> n]
    <3> HIDE DEF g
    <3> QED BY <2>1
  <2> HIDE DEF g
  <2> QED BY <2>3, <2>4, <2>5
<1>4. ASSUME NEW k \in 1 .. N PROVE Part(f, i, bits, k - 1) \subseteq UnitPlaces
  <2>1. PICK q, r, u : q = UnitId(f, i) /\ r = UnitOffset(f, i) /\ u = k - 1 /\ r \in UnitPlaces
    BY <1>2, FieldBegins
  <2>2. ShiftLeft(bits, r) \subseteq UnitPlaces
    <3>1. \A c \in bits : c \in Nat
      OBVIOUS
    <3>2. r \in Nat
      BY <2>1 DEF UnitPlaces
    <3> QED BY <3>1, <3>2 DEF ShiftLeft, UnitPlaces
  <2>3. ShiftRight(bits, UnitBits - r) \subseteq UnitPlaces
    BY <2>1 DEF ShiftRight, UnitPlaces
  <2> QED BY <2>1, <2>2, <2>3 DEF Part
<1>5. g.units \in [1 .. N -> SUBSET UnitPlaces]
  <2> HIDE DEF g
  <2> QED BY <1>2, <1>3, <1>4
<1>6. g \in Flats(w, n)
  <2> HIDE DEF g
  <2> QED BY <1>1, <1>3, <1>5 DEF Flats
<1>7. ASSUME NEW p \in Nat, p < N * UnitBits
      PROVE  Has(g, p) <=> IF p - i * w \in 0 .. w - 1 THEN p - i * w \in bits ELSE Has(f, p)
  <2>1. PICK u \in Nat, b \in UnitPlaces :
          u = p \div UnitBits /\ b = p % UnitBits /\ p = u * UnitBits + b
    BY PlaceOf
  <2>2. u + 1 \in 1 .. N /\ (u + 1) - 1 = u
    BY <1>7, <2>1, UnitThere
  <2>3. g.units[u + 1] = (f.units[u + 1] \ Part(f, i, Mask(f), u)) \cup Part(f, i, bits, u)
    <3> HIDE DEF g
    <3> QED BY <1>3, <2>2
  <2>4. b \in Part(f, i, bits, u) <=> p - i * w \in bits
    <3>1. b \in Part(f, i, bits, u) <=> u * UnitBits + b - i * w \in bits
      BY <1>2, PartIs
    <3> QED BY <2>1, <3>1
  <2>5. b \in Part(f, i, Mask(f), u) <=> p - i * w \in 0 .. w - 1
    <3>1. PICK mask : mask = Mask(f) /\ mask = 0 .. w - 1
      BY <1>2 DEF Mask
    <3>2. b \in Part(f, i, mask, u) <=> u * UnitBits + b - i * w \in mask
      BY <1>2, <3>1, PartIs
    <3> QED BY <2>1, <3>1, <3>2
  <2>6. Has(g, p) <=> b \in g.units[u + 1]
    BY <2>1 DEF Has
  <2>7. Has(f, p) <=> b \in f.units[u + 1]
    BY <2>1 DEF Has
  <2> HIDE DEF g
  <2> QED BY <2>3, <2>4, <2>5, <2>6, <2>7
<1> QED BY <1>1, <1>6, <1>7

(* operator[].                                                             *)
LEMMA FlatAtIs ==
  ASSUME NEW w \in 0 .. UnitBits, NEW n \in Nat, NEW f \in Flats(w, n), NEW i \in 0 .. n - 1,
         NEW x
  PROVE  x \in FlatAt(f, i) <=> x \in 0 .. w - 1 /\ Has(f, i * w + x)
<1>1. PICK N \in Nat : N = NumUnits(w, n)
  BY EnoughUnits
<1>2. f.units \in [1 .. N -> SUBSET UnitPlaces] /\ f.width = w
  BY <1>1 DEF Flats
<1>3. CASE x \notin 0 .. w - 1
  BY <1>2, <1>3 DEF FlatAt, Mask
<1>4. CASE x \in 0 .. w - 1
  <2>1. PICK q \in Nat, r \in UnitPlaces :
          q = UnitId(f, i) /\ r = UnitOffset(f, i) /\ i * w = q * UnitBits + r
    BY <1>2, FieldBegins
  <2>2. i * w + x \in Nat /\ i * w + x < N * UnitBits
    BY <1>1, <1>4, FieldInRoom
  <2>3. /\ q * UnitBits \in Nat /\ r \in Nat /\ r < UnitBits /\ x \in Nat /\ x < w /\ w <= UnitBits
        /\ w \in Nat
    BY <1>4, <2>1 DEF UnitPlaces
  <2>4. Straddles(f, i) <=> r + w > UnitBits
    BY <1>2, <2>1 DEF Straddles
  <2> DEFINE low == ShiftRight(f.units[q + 1], r)
             high == ShiftLeft(f.units[q + 1 + 1], UnitBits - r)
  <2>5. x \in FlatAt(f, i) <=> x \in low \/ (Straddles(f, i) /\ x \in high)
    BY <1>2, <1>4, <2>1 DEF FlatAt, Mask, At
  <2>6. CASE r + x < UnitBits
    <3>1. (i * w + x) \div UnitBits = q /\ (i * w + x) % UnitBits = r + x
      <4>1. r + x \in UnitPlaces /\ i * w + x = q * UnitBits + (r + x)
        BY <2>1, <2>3, <2>6 DEF UnitPlaces
      <4> QED BY <4>1, InUnit
    <3>2. q + 1 \in 1 .. N
      BY <2>2, <3>1, UnitThere
    <3>3. x \in low <=> r + x \in f.units[q + 1]
      <4>1. ASSUME r + x \in f.units[q + 1] PROVE x \in low
        <5>1. r + x >= r /\ x = (r + x) - r
          BY <2>3
        <5> QED BY <4>1, <5>1 DEF ShiftRight
      <4>2. ASSUME x \in low PROVE r + x \in f.units[q + 1]
        <5>1. PICK c \in f.units[q + 1] : x = c - r
          BY <4>2 DEF ShiftRight
        <5>2. c \in Int
          BY <1>2, <3>2, <5>1 DEF UnitPlaces
        <5>3. c = r + x
          BY <2>3, <5>1, <5>2
        <5> QED BY <5>1, <5>3
      <4> QED BY <4>1, <4>2
    <3>4. Straddles(f, i) => x \notin high
      <4>1. SUFFICES ASSUME Straddles(f, i), x \in high PROVE FALSE
        OBVIOUS
      <4>2. PICK c \in f.units[q + 1 + 1] : x = c + (UnitBits - r)
        BY <4>1 DEF ShiftLeft
      <4>3. q + 1 + 1 \in 1 .. N
        <5>1. PICK y \in 0 .. w - 1 : y = w - 1 /\ UnitBits <= r + y
          BY <2>3, <2>4, <4>1
        <5>2. i * w + y \in Nat /\ i * w + y < N * UnitBits
          BY <1>1, FieldInRoom
        <5>3. PICK u \in Nat, b \in UnitPlaces : u = q + 1 /\ b = r + y - UnitBits
          <6>1. r + y - UnitBits \in UnitPlaces /\ q + 1 \in Nat
            BY <2>3, <5>1 DEF UnitPlaces
          <6> QED BY <6>1
        <5>4. u * UnitBits = q * UnitBits + UnitBits
          BY <5>3
        <5>5. i * w + y = u * UnitBits + b
          <6>1. i * w = q * UnitBits + r
            BY <2>1
          <6>2. u * UnitBits + b = q * UnitBits + r + y
            BY <2>3, <5>3, <5>4
          <6> QED BY <2>3, <6>1, <6>2
        <5>6. (i * w + y) \div UnitBits = u
          BY <5>5, InUnit
        <5> QED BY <5>2, <5>3, <5>6, UnitThere
      <4>4. c \in Nat
        BY <1>2, <4>2, <4>3 DEF UnitPlaces
      <4> QED BY <2>3, <2>6, <4>2, <4>4
    <3>5. Has(f, i * w + x) <=> r + x \in f.units[q + 1]
      BY <3>1 DEF Has
    <3> QED BY <1>4, <2>5, <3>3, <3>4, <3>5
  <2>7. CASE r + x >= UnitBits
    <3>1. (i * w + x) \div UnitBits = q + 1 /\ (i * w + x) % UnitBits = r + x - UnitBits
      <4>1. PICK u \in Nat, b \in UnitPlaces : u = q + 1 /\ b = r + x - UnitBits
        <5>1. r + x - UnitBits \in UnitPlaces /\ q + 1 \in Nat
          BY <2>3, <2>7 DEF UnitPlaces
        <5> QED BY <5>1
      <4>2. u * UnitBits = q * UnitBits + UnitBits
        BY <4>1
      <4>3. i * w + x = u * UnitBits + b
        <5>1. i * w = q * UnitBits + r
          BY <2>1
        <5>2. u * UnitBits + b = q * UnitBits + r + x
          BY <2>3, <4>1, <4>2
        <5> QED BY <2>3, <5>1, <5>2
      <4> QED BY <4>1, <4>3, InUnit
    <3>2. q + 1 + 1 \in 1 .. N
      BY <2>2, <3>1, UnitThere
    <3>3. Straddles(f, i)
      BY <2>3, <2>4, <2>7
    <3>4. x \in high <=> r + x - UnitBits \in f.units[q + 1 + 1]
      <4>1. ASSUME r + x - UnitBits \in f.units[q + 1 + 1] PROVE x \in high
        <5>1. x = (r + x - UnitBits) + (UnitBits - r) /\ x < UnitBits
          BY <2>3
        <5> QED BY <4>1, <5>1 DEF ShiftLeft
      <4>2. ASSUME x \in high PROVE r + x - UnitBits \in f.units[q + 1 + 1]
        <5>1. PICK c \in f.units[q + 1 + 1] : x = c + (UnitBits - r)
          BY <4>2 DEF ShiftLeft
        <5>2. c \in Int
          BY <1>2, <3>2, <5>1 DEF UnitPlaces
        <5>3. c = r + x - UnitBits
          BY <2>3, <5>1, <5>2
        <5> QED BY <5>1, <5>3
      <4> QED BY <4>1, <4>2
    <3>5. x \notin low
      <4>1. SUFFICES ASSUME x \in low PROVE FALSE
        OBVIOUS
      <4>2. PICK c \in f.units[q + 1] : x = c - r
        BY <4>1 DEF ShiftRight
      <4>3. q + 1 \in 1 .. N
        BY <3>2
      <4>4. c \in UnitPlaces
        BY <1>2, <4>2, <4>3
      <4> QED BY <2>3, <2>7, <4>2, <4>4 DEF UnitPlaces
    <3>6. Has(f, i * w + x) <=> r + x - UnitBits \in f.units[q + 1 + 1]
      BY <3>1 DEF Has
    <3> QED BY <1>4, <2>5, <3>3, <3>4, <3>5, <3>6
  <2> QED BY <2>3, <2>6, <2>7
<1> QED BY <1>3, <1>4
-----------------------------------------------------------------------------
(* The first m fields are set, and nothing is behind the last.             *)
FieldsSet(f, w, values_, m) ==
  /\ f \in Flats(w, Len(values_))
  /\ \A i \in 0 .. m - 1, x \in 0 .. w - 1 : Has(f, i * w + x) <=> x \in Ones(values_[i + 1])
  /\ \A p \in Nat : w * Len(values_) <= p /\ p < NumUnits(w, Len(values_)) * UnitBits => ~ Has(f, p)

LEMMA FieldsApart ==
  ASSUME NEW w \in Nat, NEW n \in Nat, NEW i \in 0 .. n - 1, NEW j \in 0 .. n - 1, i # j,
         NEW x \in 0 .. w - 1
  PROVE  i * w + x - j * w \notin 0 .. w - 1
<1>1. i \in Nat /\ j \in Nat
  OBVIOUS
<1>2. CASE i < j
  <2>1. i * w + w <= j * w /\ i * w \in Nat /\ j * w \in Nat
    BY <1>1, <1>2, ProductGrows
  <2> QED BY <2>1
<1>3. CASE j < i
  <2>1. j * w + w <= i * w /\ i * w \in Nat /\ j * w \in Nat
    BY <1>1, <1>3, ProductGrows
  <2> QED BY <2>1
<1> QED BY <1>1, <1>2, <1>3

LEMMA BehindFields ==
  ASSUME NEW w \in Nat, NEW n \in Nat, NEW i \in 0 .. n - 1, NEW p \in Nat, w * n <= p
  PROVE  p - i * w \notin 0 .. w - 1
<1>1. i \in Nat /\ i < n
  OBVIOUS
<1>2. i * w + w <= n * w /\ i * w \in Nat /\ n * w = w * n /\ n * w \in Nat
  BY <1>1, ProductGrows
<1> QED BY <1>2

LEMMA ResizedIs ==
  ASSUME NEW w \in Nat, NEW n \in Nat, NEW memory \in SUBSET UnitPlaces
  PROVE  /\ Resized(w, n, memory) \in Flats(w, n)
         /\ \A p \in Nat : w * n <= p /\ p < NumUnits(w, n) * UnitBits => ~ Has(Resized(w, n, memory), p)
<1> DEFINE f == Resized(w, n, memory)
<1>1. PICK N \in Nat : N = NumUnits(w, n)
  BY EnoughUnits
<1>2. f = [units |-> [k \in 1 .. N |-> IF k = N THEN {} ELSE memory], width |-> w, size |-> n]
  BY <1>1 DEF Resized
<1>3. f.units = [k \in 1 .. N |-> IF k = N THEN {} ELSE memory]
  <2> HIDE DEF f
  <2> QED BY <1>2
<1>4. f \in Flats(w, n)
  <2>1. PICK units : units = [k \in 1 .. N |-> IF k = N THEN {} ELSE memory]
    OBVIOUS
  <2>2. units \in [1 .. N -> SUBSET UnitPlaces]
    BY <2>1
  <2> HIDE DEF f
  <2> QED BY <1>1, <1>2, <2>1, <2>2 DEF Flats
<1>5. ASSUME NEW p \in Nat, w * n <= p, p < N * UnitBits PROVE ~ Has(f, p)
  <2>1. PICK u \in Nat, b \in UnitPlaces : u = p \div UnitBits /\ p = u * UnitBits + b
    BY PlaceOf
  <2>2. u + 1 \in 1 .. N
    BY <1>5, <2>1, UnitThere
  <2>3. (N - 1) * UnitBits <= w * n
    BY SMTT(30), <1>1, <2>2, EnoughUnits
  <2>4. ~ (u + 1 < N)
    <3>1. SUFFICES ASSUME u + 1 < N PROVE FALSE
      OBVIOUS
    <3>2. PICK m \in Nat : m = N - 1
      BY <2>2
    <3>3. u * UnitBits + UnitBits <= m * UnitBits /\ u * UnitBits \in Nat /\ m * UnitBits \in Nat
      BY <3>1, <3>2, ProductGrows
    <3>4. m * UnitBits <= p
      <4>1. w * n \in Nat
        OBVIOUS
      <4> QED BY <1>5, <2>3, <3>2, <3>3, <4>1
    <3> QED BY <2>1, <3>3, <3>4 DEF UnitPlaces
  <2>5. f.units[u + 1] = {}
    <3> HIDE DEF f
    <3> QED BY <1>3, <2>2, <2>4
  <2> HIDE DEF f
  <2> QED BY <2>1, <2>5 DEF Has
<1> QED BY <1>1, <1>4, <1>5

LEMMA NextFieldSet ==
  ASSUME NEW S, NEW list \in Seq(S), NEW w \in 0 .. UnitBits, NEW m \in Nat, m < Len(list),
         Ones(list[m + 1]) \subseteq 0 .. w - 1, NEW f, FieldsSet(f, w, list, m)
  PROVE  FieldsSet(FieldSet(f, m, Ones(list[m + 1])), w, list, m + 1)
<1>0. PICK n \in Nat : n = Len(list)
  OBVIOUS
<1>1. PICK bits, g : n = Len(list) /\ bits = Ones(list[m + 1]) /\ g = FieldSet(f, m, bits)
  BY <1>0
<1>2. w \in Nat /\ bits \in SUBSET (0 .. w - 1) /\ f \in Flats(w, n) /\ m \in 0 .. n - 1
  BY <1>1 DEF FieldsSet
<1>3. /\ g \in Flats(w, n)
      /\ \A p \in Nat : p < NumUnits(w, n) * UnitBits =>
            (Has(g, p) <=> IF p - m * w \in 0 .. w - 1 THEN p - m * w \in bits ELSE Has(f, p))
  BY <1>1, <1>2, FieldSetIs
<1>4. ASSUME NEW i \in 0 .. m, NEW x \in 0 .. w - 1
      PROVE  Has(g, i * w + x) <=> x \in Ones(list[i + 1])
  <2>1. PICK p \in Nat : p = i * w + x /\ p < NumUnits(w, n) * UnitBits
    <3>1. i \in 0 .. n - 1
      BY <1>2
    <3> QED BY <1>2, <3>1, FieldInRoom
  <2>2. CASE i = m
    <3>1. p - m * w = x
      <4>1. m * w \in Nat
        BY <1>2
      <4> QED BY <2>1, <2>2, <4>1
    <3> QED BY <1>1, <1>3, <2>1, <2>2, <3>1
  <2>3. CASE i # m
    <3>1. i \in 0 .. n - 1 /\ i \in 0 .. m - 1
      BY <1>2, <2>3
    <3>2. i * w + x - m * w \notin 0 .. w - 1
      BY <1>2, <2>3, <3>1, FieldsApart
    <3>3. Has(g, p) <=> Has(f, p)
      BY <1>3, <2>1, <3>2
    <3> QED BY <2>1, <3>1, <3>3 DEF FieldsSet
  <2> QED BY <2>2, <2>3
<1>5. ASSUME NEW p \in Nat, w * n <= p, p < NumUnits(w, n) * UnitBits PROVE ~ Has(g, p)
  <2>1. p - m * w \notin 0 .. w - 1
    BY <1>2, <1>5, BehindFields
  <2>2. ~ Has(f, p)
    BY <1>1, <1>5 DEF FieldsSet
  <2> QED BY <1>3, <1>5, <2>1, <2>2
<1>6. (m + 1) - 1 = m
  OBVIOUS
<1> QED BY <1>1, <1>3, <1>4, <1>5, <1>6 DEF FieldsSet

LEMMA SequenceInLarger ==
  ASSUME NEW S, NEW R, S \subseteq R, NEW s \in Seq(S)
  PROVE  s \in Seq(R) /\ \A i \in 1 .. Len(s) : s[i] \in S
OBVIOUS

(* The largest value, and a width that holds every one.                    *)
LEMMA LargestIs ==
  ASSUME NEW list \in Seq(Nat)
  PROVE  /\ Largest(list) \in {0} \cup {list[i] : i \in 1 .. Len(list)}
         /\ \A i \in 1 .. Len(list) : list[i] <= Largest(list)
<1>1. PICK n \in Nat : n = Len(list)
  OBVIOUS
<1>2. \A i \in 1 .. n : list[i] \in Nat
  BY <1>1
<1>3. Range(list) = {list[i] : i \in 1 .. n}
  BY <1>1 DEF Range
<1> DEFINE T == {k \in 0 .. n : ~ \E v \in {0} \cup Range(list) : \A i \in 1 .. k : list[i] <= v}
<1>4. T = {}
  <2>1. SUFFICES ASSUME T # {} PROVE FALSE
    OBVIOUS
  <2>2. PICK k \in T : \A l \in T : k <= l
    <3> HIDE DEF T
    <3>1. T \in SUBSET Nat
      BY DEF T
    <3> QED BY <2>1, <3>1, LeastNumber
  <2>3. k \in 0 .. n /\ k # 0
    BY <2>2
  <2>4. k - 1 \in 0 .. n /\ ~ (k <= k - 1)
    BY <2>3
  <2>5. PICK v \in {0} \cup Range(list) : \A i \in 1 .. k - 1 : list[i] <= v
    <3>1. k - 1 \notin T
      <4> HIDE DEF T
      <4> QED BY <2>2, <2>4
    <3> QED BY <2>4, <3>1
  <2>6. v \in Nat /\ list[k] \in Nat /\ list[k] \in Range(list)
    BY <1>2, <1>3, <2>3, <2>5
  <2>7. CASE list[k] <= v
    <3>1. \A i \in 1 .. k : list[i] <= v
      BY <2>3, <2>5, <2>7
    <3> QED BY <2>2, <3>1
  <2>8. CASE ~ (list[k] <= v)
    <3>1. \A i \in 1 .. k : list[i] <= list[k]
      BY SMTT(30), <1>2, <2>3, <2>5, <2>6, <2>8
    <3> QED BY <2>2, <2>6, <3>1
  <2> QED BY <2>7, <2>8
<1>5. \E v \in {0} \cup Range(list) : \A i \in 1 .. n : list[i] <= v
  <2>1. n \in 0 .. n
    OBVIOUS
  <2> QED BY Zenon, <1>4, <2>1
<1>6. \E v \in {0} \cup Range(list) : \A u \in Range(list) : u <= v
  BY <1>3, <1>5
<1>7. Largest(list) \in {0} \cup Range(list) /\ \A u \in Range(list) : u <= Largest(list)
  BY <1>6 DEF Largest
<1> QED BY <1>1, <1>3, <1>7

LEMMA WideEnough ==
  ASSUME NEW list \in Seq(Values)
  PROVE  /\ Width(Largest(list)) \in 0 .. UnitBits
         /\ \A i \in 1 .. Len(list) : Ones(list[i]) \subseteq 0 .. Width(Largest(list)) - 1
<1>1. Values \subseteq Nat /\ \A v \in Values : Width(v) <= UnitBits
  BY VectorsAssumption
<1>2. list \in Seq(Nat) /\ \A i \in 1 .. Len(list) : list[i] \in Values
  BY <1>1, SequenceInLarger
<1>3. PICK v : v = Largest(list) /\ v \in {0} \cup Values
  BY <1>2, LargestIs
<1>4. v \in Nat /\ \A i \in 1 .. Len(list) : list[i] \in Nat /\ list[i] <= v
  BY <1>1, <1>2, <1>3, LargestIs
<1>5. Width(v) \in Nat /\ \A i \in 1 .. Len(list) : Width(list[i]) \in Nat /\ Width(list[i]) <= Width(v)
  <2>1. v <= v
    BY <1>4
  <2>2. Width(v) \in Nat
    BY <1>4, <2>1, WidthGrows
  <2>3. ASSUME NEW i \in 1 .. Len(list) PROVE Width(list[i]) \in Nat /\ Width(list[i]) <= Width(v)
    <3>1. PICK u \in Nat : u = list[i] /\ u <= v
      BY <1>4
    <3> QED BY <1>4, <3>1, WidthGrows
  <2> QED BY <2>2, <2>3
<1>6. Width(v) <= UnitBits
  <2>1. Width(0) = 0
    BY HalvingsAre DEF Width
  <2> QED BY <1>1, <1>3, <2>1
<1> QED BY <1>3, <1>5, <1>6 DEF Ones

(* build_.                                                                 *)
LEMMA BuiltIs ==
  ASSUME NEW list \in Seq(Values), NEW memory \in SUBSET UnitPlaces
  PROVE  FieldsSet(FlatBuild(list, memory), Width(Largest(list)), list, Len(list))
<1>1. PICK w \in 0 .. UnitBits, n \in Nat : w = Width(Largest(list)) /\ n = Len(list)
  BY WideEnough
<1>2. w \in Nat /\ \A i \in 1 .. n : Ones(list[i]) \subseteq 0 .. w - 1
  BY <1>1, WideEnough
<1> DEFINE first == Resized(w, n, memory)
           value == [k \in Nat |-> IF k \in 1 .. n THEN Ones(list[k]) ELSE {}]
           step == [x \in Nat \X Flats(w, n) |->
                      IF x[1] = 0 THEN x[2] ELSE FieldSet(x[2], x[1] - 1, value[x[1]])]
           back == [k \in Nat |-> IF k = 0 THEN 0 ELSE k - 1]
<1>3. ASSUME NEW k \in Nat, NEW f \in Flats(w, n)
      PROVE  step[<<k, f>>] = IF k = 0 THEN f ELSE FieldSet(f, k - 1, value[k])
  OBVIOUS
<1>4. \A k \in Nat : value[k] \in SUBSET (0 .. w - 1)
  BY <1>2
<1>5. step \in [Nat \X Flats(w, n) -> Flats(w, n)]
  <2>1. ASSUME NEW k \in Nat, NEW f \in Flats(w, n)
        PROVE  (IF k = 0 THEN f ELSE FieldSet(f, k - 1, value[k])) \in Flats(w, n)
    <3> HIDE DEF value, step
    <3>1. CASE k = 0
      BY <3>1
    <3>2. CASE k # 0
      <4>1. k - 1 \in Nat
        BY <3>2
      <4> QED BY <1>4, <3>2, <4>1, FieldSetIs
    <3> QED BY <3>1, <3>2
  <2> HIDE DEF value
  <2> QED BY <2>1
<1>6. first \in Flats(w, n) /\ FieldsSet(first, w, list, 0)
  BY <1>1, <1>2, ResizedIs DEF FieldsSet
<1>7. Falls(back)
  BY DEF Falls
<1>8. PICK f : Follows(f, Flats(w, n), first, step, back)
  <2> HIDE DEF first, step, back
  <2> QED BY <1>5, <1>6, <1>7, RecursionExists
<1>9. f[0] = first /\ \A k \in Nat : f[k] \in Flats(w, n)
  <2> HIDE DEF first, step, back
  <2> QED BY <1>8 DEF Follows
<1>10. ASSUME NEW k \in 1 .. n PROVE f[k] = FieldSet(f[k - 1], k - 1, Ones(list[k]))
  <2>1. k \in Nat \ {0} /\ back[k] = k - 1 /\ k - 1 \in Nat /\ value[k] = Ones(list[k])
    OBVIOUS
  <2>2. f[k] = step[<<k, f[k - 1]>>]
    <3> HIDE DEF first, step, back
    <3> QED BY <1>8, <2>1 DEF Follows
  <2> HIDE DEF first, step, back, value
  <2> QED BY <1>3, <1>9, <2>1, <2>2
<1>11. PICK g : /\ g = [k \in 0 .. n |-> IF k = 0 THEN Resized(w, n, memory)
                                          ELSE FieldSet(g[k - 1], k - 1, Ones(list[k]))]
                /\ FlatBuild(list, memory) = g[n]
  <2> DEFINE Is(g) == g = [k \in 0 .. n |-> IF k = 0 THEN Resized(w, n, memory)
                                            ELSE FieldSet(g[k - 1], k - 1, Ones(list[k]))]
             all == [k \in 0 .. n |-> f[k]]
  <2>1. Is(all)
    <3>1. ASSUME NEW k \in 0 .. n
          PROVE  all[k] = IF k = 0 THEN Resized(w, n, memory) ELSE FieldSet(all[k - 1], k - 1, Ones(list[k]))
      <4>1. CASE k = 0
        BY <1>9, <4>1
      <4>2. CASE k # 0
        <5>1. k \in 1 .. n /\ k - 1 \in 0 .. n
          BY <4>2
        <5>2. all[k] = f[k] /\ all[k - 1] = f[k - 1]
          BY <5>1
        <5> HIDE DEF all
        <5> QED BY <1>10, <4>2, <5>1, <5>2
      <4> QED BY <4>1, <4>2
    <3> QED BY <3>1
  <2>2. Is(CHOOSE g : Is(g))
    <3> HIDE DEF Is, all
    <3> QED BY <2>1
  <2>3. FlatBuild(list, memory) = (CHOOSE g : Is(g))[n]
    BY Zenon, <1>1 DEF FlatBuild
  <2> QED BY <2>2, <2>3
<1> HIDE DEF first, step, back, value
<1>12. g[0] = Resized(w, n, memory) /\ \A k \in 1 .. n : g[k] = FieldSet(g[k - 1], k - 1, Ones(list[k]))
  BY <1>11
<1> DEFINE T == {k \in 0 .. n : ~ FieldsSet(g[k], w, list, k)}
<1>13. T = {}
  <2>1. SUFFICES ASSUME T # {} PROVE FALSE
    OBVIOUS
  <2>2. PICK k \in T : \A l \in T : k <= l
    <3> HIDE DEF T
    <3>1. T \in SUBSET Nat
      BY DEF T
    <3> QED BY <2>1, <3>1, LeastNumber
  <2>3. k \in 1 .. n
    BY <1>6, <1>12, <2>2 DEF first
  <2>4. k - 1 \in 0 .. n /\ ~ (k <= k - 1)
    BY <2>3
  <2>5. FieldsSet(g[k - 1], w, list, k - 1)
    <3>1. k - 1 \notin T
      <4> HIDE DEF T
      <4> QED BY <2>2, <2>4
    <3> QED BY <2>4, <3>1
  <2>6. PICK m \in Nat : m = k - 1 /\ k = m + 1 /\ m < n
    BY <2>3
  <2>7. FieldsSet(FieldSet(g[m], m, Ones(list[m + 1])), w, list, m + 1)
    <3>1. Ones(list[m + 1]) \subseteq 0 .. w - 1
      BY <1>2, <2>3, <2>6
    <3>2. FieldsSet(g[m], w, list, m) /\ m < Len(list)
      BY <1>1, <2>5, <2>6
    <3> QED BY <3>1, <3>2, NextFieldSet
  <2>8. FieldsSet(g[k], w, list, k)
    BY <1>12, <2>3, <2>6, <2>7
  <2> QED BY <2>2, <2>8
<1>14. FieldsSet(g[n], w, list, n)
  BY <1>13
<1> QED BY <1>1, <1>11, <1>14

-----------------------------------------------------------------------------
LEMMA FieldsReadBack ==
  ASSUME NEW list \in Seq(Values), NEW f, FieldsSet(f, Width(Largest(list)), list, Len(list))
  PROVE  ValuesReadBack(f, list)
<1>1. PICK w \in 0 .. UnitBits, n \in Nat : w = Width(Largest(list)) /\ n = Len(list)
  BY WideEnough
<1>2. f \in Flats(w, n) /\ w \in Nat
  BY <1>1 DEF FieldsSet
<1>3. PICK N \in Nat : N = NumUnits(w, n)
  BY <1>2, EnoughUnits
<1>4. f.units \in [1 .. N -> SUBSET UnitPlaces] /\ f.width = w /\ f.size = n /\ Len(f.units) = N
  BY <1>2, <1>3 DEF Flats
<1>5. ASSUME NEW i \in 1 .. n PROVE FlatAt(f, i - 1) = Ones(list[i])
  <2>1. PICK j \in 0 .. n - 1 : j = i - 1 /\ i = j + 1
    OBVIOUS
  <2>2. ASSUME NEW x PROVE x \in FlatAt(f, j) <=> x \in 0 .. w - 1 /\ Has(f, j * w + x)
    BY <1>2, FlatAtIs
  <2>3. \A x \in 0 .. w - 1 : Has(f, j * w + x) <=> x \in Ones(list[i])
    BY <1>1, <2>1 DEF FieldsSet
  <2>4. Ones(list[i]) \subseteq 0 .. w - 1
    BY <1>1, WideEnough
  <2>5. FlatAt(f, j) = Ones(list[i])
    BY <2>2, <2>3, <2>4
  <2> QED BY <2>1, <2>5
<1>6. ASSUME NEW k \in 1 .. N, NEW b \in f.units[k] PROVE (k - 1) * UnitBits + b < w * n
  <2>1. PICK u \in Nat : u = k - 1 /\ k = u + 1 /\ u < N
    OBVIOUS
  <2>2. b \in UnitPlaces
    BY <1>4
  <2>3. PICK p \in Nat : p = u * UnitBits + b /\ p \div UnitBits = u /\ p % UnitBits = b
    BY <2>2, InUnit
  <2>4. Has(f, p)
    BY <2>1, <2>3 DEF Has
  <2>5. p < N * UnitBits
    <3>1. u * UnitBits + UnitBits <= N * UnitBits /\ u * UnitBits \in Nat /\ N * UnitBits \in Nat
      BY <2>1, ProductGrows
    <3> QED BY <2>2, <2>3, <3>1 DEF UnitPlaces
  <2>6. ~ (w * n <= p)
    BY <1>1, <1>3, <2>4, <2>5 DEF FieldsSet
  <2>7. PICK z \in Nat : z = w * n
    BY <1>2
  <2>8. p < z
    BY <2>6, <2>7
  <2>9. (k - 1) * UnitBits + b = p
    BY Zenon, <2>1, <2>3
  <2> QED BY <2>7, <2>8, <2>9
<1> QED BY <1>1, <1>4, <1>5, <1>6 DEF ValuesReadBack

(* What is in the vectors.                                                 *)
VectorsInv ==
  /\ values \in Seq(Values)
  /\ packed => \E memory \in Memories : flat = FlatBuild(values, memory)

(* Every value of a flat vector reads back as it was set, for any values   *)
(* that fit a unit, any number of them and whatever memory held before     *)
(* (flat-vector.h), and no bit is set behind the last one.                 *)
THEOREM ValuesStay == VectorsSpec => []ValuesKept
<1>1. VectorsInit => VectorsInv
  BY DEF VectorsInit, VectorsInv
<1>2. VectorsInv /\ [BitsNext \/ ValuesNext]_vectorVars => VectorsInv'
  <2>1. SUFFICES ASSUME VectorsInv, [BitsNext \/ ValuesNext]_vectorVars PROVE VectorsInv'
    OBVIOUS
  <2>2. CASE PushRun \/ Build \/ DisableSelect \/ UNCHANGED vectorVars
    BY <2>1, <2>2 DEF PushRun, Build, DisableSelect, vectorVars, VectorsInv
  <2>3. CASE PushValue
    BY <2>1, <2>3 DEF PushValue, VectorsInv
  <2>4. CASE Pack
    BY <2>1, <2>4 DEF Pack, VectorsInv
  <2> QED BY <2>1, <2>2, <2>3, <2>4 DEF BitsNext, ValuesNext
<1>3. VectorsInv => ValuesKept
  <2>1. SUFFICES ASSUME VectorsInv, packed PROVE ValuesReadBack(flat, values)
    BY DEF ValuesKept
  <2>2. PICK memory \in Memories : flat = FlatBuild(values, memory)
    BY <2>1 DEF VectorsInv
  <2>3. values \in Seq(Values) /\ memory \in SUBSET UnitPlaces
    BY <2>1, VectorsAssumption DEF VectorsInv
  <2> QED BY <2>2, <2>3, BuiltIs, FieldsReadBack
<1> QED BY <1>1, <1>2, <1>3, PTL DEF VectorsSpec

-----------------------------------------------------------------------------
(* The bit vector.                                                         *)

(* What holds of 0 and of the next number whenever of a number holds of    *)
(* all.                                                                    *)
LEMMA AllNumbers ==
  ASSUME NEW T \in SUBSET Nat, 0 \in T, \A n \in T : n + 1 \in T
  PROVE  T = Nat
<1>1. SUFFICES ASSUME Nat \ T # {} PROVE FALSE
  OBVIOUS
<1>2. PICK k \in Nat \ T : \A l \in Nat \ T : k <= l
  <2>1. Nat \ T \in SUBSET Nat
    OBVIOUS
  <2> QED BY <1>1, <2>1, LeastNumber
<1>3. k # 0 /\ k - 1 \in Nat /\ ~ (k <= k - 1)
  BY <1>2
<1>4. k - 1 \in T
  BY <1>2, <1>3
<1>5. k - 1 + 1 = k
  BY <1>2
<1> QED BY <1>2, <1>4, <1>5

(* The members of X before p.                                              *)
Before(X, p) == {q \in 0 .. p - 1 : q \in X}

Count(X, p) == Cardinality(Before(X, p))

LEMMA CountStep ==
  ASSUME NEW X
  PROVE  /\ Count(X, 0) = 0
         /\ \A p \in Nat : /\ Count(X, p) \in Nat /\ IsFiniteSet(Before(X, p))
                           /\ p \in X => Count(X, p + 1) = Count(X, p) + 1
                           /\ p \notin X => Count(X, p + 1) = Count(X, p)
<1>1. Count(X, 0) = 0
  <2>1. Before(X, 0) = {}
    BY DEF Before
  <2> QED BY <2>1, FS_EmptySet DEF Count
<1>2. ASSUME NEW p \in Nat
      PROVE  /\ Count(X, p) \in Nat /\ IsFiniteSet(Before(X, p))
             /\ p \in X => Count(X, p + 1) = Count(X, p) + 1
             /\ p \notin X => Count(X, p + 1) = Count(X, p)
  <2>1. IsFiniteSet(0 .. p - 1)
    <3>1. 0 \in Int /\ p - 1 \in Int
      OBVIOUS
    <3> QED BY <3>1, FS_Interval
  <2>2. Before(X, p) \subseteq 0 .. p - 1
    BY DEF Before
  <2>3. IsFiniteSet(Before(X, p))
    BY <2>1, <2>2, FS_Subset
  <2>4. Count(X, p) \in Nat
    BY <2>3, FS_CardinalityType DEF Count
  <2>5. ASSUME p \in X PROVE Count(X, p + 1) = Count(X, p) + 1
    <3>1. Before(X, p + 1) = Before(X, p) \cup {p} /\ p \notin Before(X, p)
      BY <2>5 DEF Before
    <3>2. Cardinality(Before(X, p) \cup {p}) = Cardinality(Before(X, p)) + 1
      BY <2>3, <3>1, FS_AddElement
    <3> QED BY <3>1, <3>2 DEF Count
  <2>6. ASSUME p \notin X PROVE Count(X, p + 1) = Count(X, p)
    <3>1. Before(X, p + 1) = Before(X, p)
      BY <2>6 DEF Before
    <3> QED BY <3>1 DEF Count
  <2> QED BY <2>3, <2>4, <2>5, <2>6
<1> QED BY <1>1, <1>2

(* The members before p + n are those before p and those from p on.        *)
From(X, p) == {b \in Nat : p + b \in X}

LEMMA CountParts ==
  ASSUME NEW X, NEW p \in Nat, NEW n \in Nat
  PROVE  Count(X, p + n) = Count(X, p) + Count(From(X, p), n)
<1> DEFINE T == {k \in Nat : Count(X, p + k) = Count(X, p) + Count(From(X, p), k)}
<1>1. 0 \in T
  <2>1. Count(X, p) \in Nat
    <3> HIDE DEF T
    <3> QED BY CountStep
  <2>2. PICK Y : Y = From(X, p)
    OBVIOUS
  <2>3. Count(Y, 0) = 0
    <3> HIDE DEF T
    <3> QED BY CountStep
  <2>4. p + 0 = p
    OBVIOUS
  <2> QED BY <2>1, <2>2, <2>3, <2>4
<1>2. ASSUME NEW k \in T PROVE k + 1 \in T
  <2>1. k \in Nat /\ Count(X, p + k) = Count(X, p) + Count(From(X, p), k)
    OBVIOUS
  <2>2. p + k \in Nat /\ p + (k + 1) = (p + k) + 1 /\ (k \in From(X, p) <=> p + k \in X)
    BY <2>1 DEF From
  <2>3. /\ Count(X, p) \in Nat /\ Count(From(X, p), k) \in Nat
        /\ p + k \in X => Count(X, (p + k) + 1) = Count(X, p + k) + 1
        /\ p + k \notin X => Count(X, (p + k) + 1) = Count(X, p + k)
        /\ k \in From(X, p) => Count(From(X, p), k + 1) = Count(From(X, p), k) + 1
        /\ k \notin From(X, p) => Count(From(X, p), k + 1) = Count(From(X, p), k)
    BY <2>1, <2>2, CountStep
  <2>4. Count(X, p + (k + 1)) = Count(X, p) + Count(From(X, p), k + 1)
    BY <2>1, <2>2, <2>3
  <2> HIDE DEF T
  <2> QED BY <2>1, <2>4 DEF T
<1>3. T = Nat
  <2>1. T \in SUBSET Nat
    OBVIOUS
  <2> HIDE DEF T
  <2> QED BY <1>1, <1>2, <2>1, AllNumbers
<1> QED BY <1>3

(* There are no more of them further back, at most one at each place, and  *)
(* two members have not the same number before them.                       *)
LEMMA CountGrows ==
  ASSUME NEW X, NEW p \in Nat, NEW q \in Nat, p <= q
  PROVE  /\ Count(X, p) \in Nat /\ Count(X, q) \in Nat
         /\ Count(X, p) <= Count(X, q) /\ Count(X, q) <= Count(X, p) + (q - p)
         /\ p \in X /\ p < q => Count(X, p) < Count(X, q)
<1>1. \A n \in Nat : Count(X, n) \in Nat
  BY CountStep
<1> DEFINE T == {k \in Nat : Count(From(X, p), k) <= k}
<1>2. T = Nat
  <2>1. 0 \in T
    BY CountStep
  <2>2. ASSUME NEW k \in T PROVE k + 1 \in T
    <3>1. k \in Nat /\ Count(From(X, p), k) <= k
      OBVIOUS
    <3>2. /\ Count(From(X, p), k) \in Nat
          /\ Count(From(X, p), k + 1) \in {Count(From(X, p), k), Count(From(X, p), k) + 1}
      BY <3>1, CountStep
    <3>3. Count(From(X, p), k + 1) <= k + 1
      BY <3>1, <3>2
    <3> HIDE DEF T
    <3> QED BY <3>1, <3>3 DEF T
  <2>3. T \in SUBSET Nat
    OBVIOUS
  <2> HIDE DEF T
  <2> QED BY <2>1, <2>2, <2>3, AllNumbers
<1>3. PICK d \in Nat : d = q - p /\ q = p + d
  <2>1. q - p \in Nat /\ q = p + (q - p)
    OBVIOUS
  <2> QED BY <2>1
<1>4. Count(X, q) = Count(X, p) + Count(From(X, p), d) /\ Count(From(X, p), d) \in Nat
  BY <1>3, CountParts, CountStep
<1>5. Count(From(X, p), d) <= d
  BY <1>2
<1>6. ASSUME p \in X, p < q PROVE Count(X, p) < Count(X, q)
  <2>1. PICK e \in Nat : e = q - (p + 1) /\ q = (p + 1) + e
    <3>1. q - (p + 1) \in Nat /\ q = (p + 1) + (q - (p + 1))
      BY <1>6
    <3> QED BY <3>1
  <2>2. p + 1 \in Nat /\ Count(X, p + 1) = Count(X, p) + 1
    BY <1>6, CountStep
  <2>3. PICK r, Y : r \in Nat /\ r = p + 1 /\ Y = From(X, r)
    BY <2>2
  <2>4. Count(X, r + e) = Count(X, r) + Count(Y, e) /\ Count(Y, e) \in Nat
    <3> HIDE DEF T
    <3>1. Count(X, r + e) = Count(X, r) + Count(From(X, r), e)
      BY <2>3, CountParts
    <3> QED BY <2>3, <3>1, CountStep
  <2> QED BY <1>1, <2>1, <2>2, <2>3, <2>4
<1> QED BY <1>1, <1>3, <1>4, <1>5, <1>6

LEMMA CountTells ==
  ASSUME NEW X, NEW p \in Nat, NEW q \in Nat, p \in X, q \in X, Count(X, p) = Count(X, q)
  PROVE  p = q
<1>1. CASE p < q
  <2>1. Count(X, p) \in Nat /\ Count(X, p) < Count(X, q)
    BY <1>1, CountGrows
  <2> QED BY <2>1
<1>2. CASE q < p
  <2>1. Count(X, p) \in Nat /\ Count(X, q) < Count(X, p)
    BY <1>2, CountGrows
  <2> QED BY <2>1
<1> QED BY <1>1, <1>2

(* Every number less than the count is that of the members before one.     *)
LEMMA CountReaches ==
  ASSUME NEW X, NEW p \in Nat, NEW m \in Nat, m < Count(X, p)
  PROVE  \E q \in Nat : q < p /\ q \in X /\ Count(X, q) = m
<1> DEFINE T == {k \in Nat : m < Count(X, k)}
<1>1. PICK k \in T : \A l \in T : k <= l
  <2>1. T \in SUBSET Nat /\ p \in T
    OBVIOUS
  <2> HIDE DEF T
  <2>2. T # {}
    BY <2>1
  <2> QED BY <2>1, <2>2, LeastNumber
<1>2. k \in Nat /\ m < Count(X, k) /\ k <= p
  BY <1>1
<1>3. k # 0
  BY <1>2, CountStep
<1>4. PICK q \in Nat : k = q + 1 /\ ~ (k <= q)
  <2>1. k - 1 \in Nat /\ k = (k - 1) + 1 /\ ~ (k <= k - 1)
    BY <1>2, <1>3
  <2> QED BY <2>1
<1>5. q \notin T
  <2> HIDE DEF T
  <2> QED BY <1>1, <1>4
<1>6. ~ (m < Count(X, q)) /\ q < p
  BY <1>2, <1>4, <1>5
<1>7. /\ Count(X, q) \in Nat
      /\ (q \in X => Count(X, q + 1) = Count(X, q) + 1)
      /\ (q \notin X => Count(X, q + 1) = Count(X, q))
  BY CountStep
<1> QED BY <1>2, <1>4, <1>6, <1>7

LEMMA CountAlike ==
  ASSUME NEW X, NEW Y, NEW p \in Nat, \A q \in Nat : q < p => (q \in X <=> q \in Y)
  PROVE  Count(X, p) = Count(Y, p)
<1>1. Before(X, p) = Before(Y, p)
  BY DEF Before
<1> QED BY <1>1 DEF Count

(* Those that are in X and those that are not.                             *)
LEMMA CountOthers ==
  ASSUME NEW X, NEW p \in Nat
  PROVE  Count(X, p) + Count(Nat \ X, p) = p
<1> DEFINE T == {k \in Nat : Count(X, k) + Count(Nat \ X, k) = k}
<1>1. 0 \in T
  BY CountStep
<1>2. ASSUME NEW k \in T PROVE k + 1 \in T
  <2>1. k \in Nat /\ Count(X, k) + Count(Nat \ X, k) = k /\ (k \in Nat \ X <=> k \notin X)
    OBVIOUS
  <2>2. /\ Count(X, k) \in Nat /\ Count(Nat \ X, k) \in Nat
        /\ (k \in X => Count(X, k + 1) = Count(X, k) + 1) /\ (k \notin X => Count(X, k + 1) = Count(X, k))
        /\ k \in Nat \ X => Count(Nat \ X, k + 1) = Count(Nat \ X, k) + 1
        /\ k \notin Nat \ X => Count(Nat \ X, k + 1) = Count(Nat \ X, k)
    BY <2>1, CountStep
  <2>3. Count(X, k + 1) + Count(Nat \ X, k + 1) = k + 1
    BY <2>1, <2>2
  <2> HIDE DEF T
  <2> QED BY <2>1, <2>3 DEF T
<1>3. T = Nat
  <2>1. T \in SUBSET Nat
    OBVIOUS
  <2> HIDE DEF T
  <2> QED BY <1>1, <1>2, <2>1, AllNumbers
<1> QED BY <1>3

(* A unit of bits: the count of its bits, of those below a bit, and the    *)
(* one that SelectBit finds.                                               *)
LEMMA UnitCounts ==
  ASSUME NEW unit \in SUBSET UnitPlaces
  PROVE  /\ Cardinality(unit) = Count(unit, UnitBits) /\ Cardinality(unit) \in Nat
         /\ \A n \in Nat : LowOnes(unit, n) = Count(unit, n)
<1>1. unit = Before(unit, UnitBits)
  BY DEF UnitPlaces, Before
<1>2. ASSUME NEW n \in Nat PROVE LowOnes(unit, n) = Count(unit, n)
  <2>1. \A b \in unit : b \in Nat
    BY DEF UnitPlaces
  <2>2. ASSUME NEW b PROVE (b \in unit /\ b < n) <=> (b \in 0 .. n - 1 /\ b \in unit)
    BY <2>1
  <2>3. {b \in unit : b < n} = Before(unit, n)
    BY <2>2 DEF Before
  <2> QED BY <2>3 DEF LowOnes, Count
<1>3. Count(unit, UnitBits) \in Nat
  BY CountStep
<1> QED BY <1>1, <1>2, <1>3 DEF Count

LEMMA BitSelected ==
  ASSUME NEW unit \in SUBSET UnitPlaces, NEW m \in Nat, m < Cardinality(unit)
  PROVE  /\ SelectBit(m, unit) \in unit /\ SelectBit(m, unit) \in UnitPlaces
         /\ Count(unit, SelectBit(m, unit)) = m
<1>1. \E b \in unit : LowOnes(unit, b) = m
  <2>1. m < Count(unit, UnitBits)
    BY UnitCounts
  <2>2. PICK q \in Nat : q \in unit /\ Count(unit, q) = m
    BY <2>1, CountReaches
  <2> QED BY <2>2, UnitCounts
<1>2. SelectBit(m, unit) \in unit /\ LowOnes(unit, SelectBit(m, unit)) = m
  BY <1>1 DEF SelectBit
<1>3. SelectBit(m, unit) \in UnitPlaces /\ SelectBit(m, unit) \in Nat
  <2>1. \A b \in UnitPlaces : b \in Nat
    BY DEF UnitPlaces
  <2> QED BY <1>2, <2>1
<1> QED BY <1>2, <1>3, UnitCounts

(* The unit that the places from u * UnitBits on make.                     *)
Slice(X, u) == {b \in UnitPlaces : u * UnitBits + b \in X}

LEMMA CountInUnit ==
  ASSUME NEW X, NEW u \in Nat, NEW b \in Nat, b <= UnitBits
  PROVE  /\ Slice(X, u) \in SUBSET UnitPlaces
         /\ u * UnitBits \in Nat
         /\ Count(X, u * UnitBits + b) = Count(X, u * UnitBits) + Count(Slice(X, u), b)
<1>1. u * UnitBits \in Nat
  OBVIOUS
<1>2. Count(X, u * UnitBits + b) = Count(X, u * UnitBits) + Count(From(X, u * UnitBits), b)
  BY <1>1, CountParts
<1>3. ASSUME NEW q \in Nat, q < b PROVE q \in From(X, u * UnitBits) <=> q \in Slice(X, u)
  <2>1. q \in UnitPlaces
    BY <1>3 DEF UnitPlaces
  <2> QED BY <2>1 DEF Slice, From
<1>4. Count(From(X, u * UnitBits), b) = Count(Slice(X, u), b)
  BY <1>3, CountAlike
<1> QED BY <1>1, <1>2, <1>4 DEF Slice

LEMMA CountOfUnit ==
  ASSUME NEW X, NEW u \in Nat
  PROVE  /\ (u + 1) * UnitBits \in Nat /\ (u + 1) * UnitBits = u * UnitBits + UnitBits
         /\ Count(X, (u + 1) * UnitBits) = Count(X, u * UnitBits) + Cardinality(Slice(X, u))
<1>1. (u + 1) * UnitBits \in Nat /\ (u + 1) * UnitBits = u * UnitBits + UnitBits
  OBVIOUS
<1>2. /\ Slice(X, u) \in SUBSET UnitPlaces
      /\ Count(X, u * UnitBits + UnitBits) = Count(X, u * UnitBits) + Count(Slice(X, u), UnitBits)
  BY CountInUnit
<1>3. Cardinality(Slice(X, u)) = Count(Slice(X, u), UnitBits)
  BY <1>2, UnitCounts
<1> QED BY <1>1, <1>2, <1>3

(* What a field for the count of k units holds.                            *)
LEMMA TwoToGrows ==
  /\ TwoTo[0] = 1
  /\ \A n \in Nat : TwoTo[n] \in Nat \ {0} /\ TwoTo[n + 1] = 2 * TwoTo[n]
<1> DEFINE step == [x \in Nat \X Nat |-> 2 * x[2]]
           back == [n \in Nat |-> IF n = 0 THEN 0 ELSE n - 1]
<1>1. PICK f : Follows(f, Nat, 1, step, back)
  <2>1. step \in [Nat \X Nat -> Nat] /\ Falls(back)
    BY DEF Falls
  <2> HIDE DEF step, back
  <2>2. 1 \in Nat
    OBVIOUS
  <2> QED BY <2>1, <2>2, RecursionExists
<1>2. ASSUME NEW n \in Nat \ {0} PROVE f[n] = 2 * f[n - 1]
  <2>1. back[n] = n - 1 /\ n - 1 \in Nat
    OBVIOUS
  <2>2. ASSUME NEW k \in Nat PROVE step[<<n, k>>] = 2 * k
    OBVIOUS
  <2> HIDE DEF step, back
  <2> QED BY <1>1, <2>1, <2>2 DEF Follows
<1>3. f = [n \in Nat |-> IF n = 0 THEN 1 ELSE 2 * f[n - 1]]
  BY <1>1, <1>2 DEF Follows
<1>4. TwoTo = [n \in Nat |-> IF n = 0 THEN 1 ELSE 2 * TwoTo[n - 1]]
  BY <1>3 DEF TwoTo
<1>5. \A n \in Nat : TwoTo[n] = IF n = 0 THEN 1 ELSE 2 * TwoTo[n - 1]
  BY <1>4
<1>6. TwoTo[0] = 1
  BY <1>5
<1>7. ASSUME NEW n \in Nat PROVE TwoTo[n + 1] = 2 * TwoTo[n]
  <2>1. n + 1 \in Nat /\ n + 1 # 0 /\ n + 1 - 1 = n
    OBVIOUS
  <2>2. TwoTo[n + 1] = IF n + 1 = 0 THEN 1 ELSE 2 * TwoTo[n + 1 - 1]
    BY <1>5, <2>1
  <2> QED BY <2>1, <2>2
<1> DEFINE T == {n \in Nat : TwoTo[n] \in Nat \ {0}}
<1>8. T = Nat
  <2>1. 0 \in T
    BY <1>6
  <2>2. ASSUME NEW n \in T PROVE n + 1 \in T
    <3>1. n \in Nat /\ TwoTo[n] \in Nat \ {0}
      OBVIOUS
    <3>2. n + 1 \in Nat /\ TwoTo[n + 1] \in Nat \ {0}
      BY <3>1, <1>7
    <3> HIDE DEF T
    <3> QED BY <3>2 DEF T
  <2>3. T \in SUBSET Nat
    OBVIOUS
  <2> HIDE DEF T
  <2> QED BY <2>1, <2>2, <2>3, AllNumbers
<1> QED BY <1>6, <1>7, <1>8

LEMMA WidthHolds ==
  ASSUME NEW n \in Nat
  PROVE  Width(n) \in Nat /\ n < TwoTo[Width(n)]
<1> DEFINE T == {k \in Nat : ~ (k < TwoTo[Halvings[k]])}
<1>1. \A k \in Nat : Halvings[k] \in Nat
  BY HalvingsAre
<1>2. T = {}
  <2>1. SUFFICES ASSUME T # {} PROVE FALSE
    OBVIOUS
  <2>2. PICK k \in T : \A l \in T : k <= l
    <3> HIDE DEF T
    <3>1. T \in SUBSET Nat
      BY DEF T
    <3> QED BY <2>1, <3>1, LeastNumber
  <2>3. k \in Nat /\ ~ (k < TwoTo[Halvings[k]]) /\ k # 0
    BY <2>2, TwoToGrows, HalvingsAre
  <2>4. PICK h \in Nat : h = k \div 2 /\ h < k /\ k <= 2 * h + 1
    <3>1. k \div 2 \in Nat /\ k \div 2 < k /\ k <= 2 * (k \div 2) + 1
      BY <2>3
    <3> QED BY <3>1
  <2>5. h < TwoTo[Halvings[h]]
    <3>1. h \notin T
      <4> HIDE DEF T
      <4> QED BY <2>2, <2>3, <2>4
    <3> QED BY <3>1
  <2>6. Halvings[k] = Halvings[h] + 1 /\ Halvings[h] \in Nat
    BY <2>3, <2>4, HalvingsAre
  <2>7. TwoTo[Halvings[k]] = 2 * TwoTo[Halvings[h]] /\ TwoTo[Halvings[h]] \in Nat
    BY <2>6, TwoToGrows
  <2> QED BY <2>3, <2>4, <2>5, <2>7
<1> QED BY <1>1, <1>2 DEF Width

(* A count of no more than k units fits the field for k units.             *)
LEMMA FieldHolds ==
  ASSUME NEW k \in Nat, NEW c \in Nat, c <= k * UnitBits
  PROVE  c % TwoTo[FieldSize(k)] = c
<1>1. k * UnitBits \in Nat
  OBVIOUS
<1>2. Width(k * UnitBits) \in Nat /\ k * UnitBits < TwoTo[Width(k * UnitBits)]
  BY <1>1, WidthHolds
<1>3. TwoTo[Width(k * UnitBits)] \in Nat
  BY <1>2, TwoToGrows
<1>4. ASSUME NEW z \in Nat, c < z PROVE c % z = c
  BY <1>4
<1> QED BY <1>1, <1>2, <1>3, <1>4 DEF FieldSize

(* What holds of the first of some numbers, and of each that comes after   *)
(* one it holds of, holds of all.                                          *)
LEMMA AllTurns ==
  ASSUME NEW n \in Nat, NEW T, 0 \in T, \A k \in 1 .. n : k - 1 \in T => k \in T
  PROVE  \A k \in 0 .. n : k \in T
<1> DEFINE R == {k \in Nat : k <= n => k \in T}
<1>1. 0 \in R
  OBVIOUS
<1>2. ASSUME NEW k \in R PROVE k + 1 \in R
  <2>1. CASE k + 1 <= n
    <3>1. k + 1 \in 1 .. n /\ (k + 1) - 1 = k /\ k <= n
      BY <2>1
    <3>2. k \in T
      BY <3>1
    <3>3. k + 1 \in T
      BY <3>1, <3>2
    <3> QED BY <3>3
  <2>2. CASE ~ (k + 1 <= n)
    BY <2>2
  <2> QED BY <2>1, <2>2
<1>3. R = Nat
  <2>1. R \in SUBSET Nat
    OBVIOUS
  <2> HIDE DEF R
  <2> QED BY <1>1, <1>2, <2>1, AllNumbers
<1> QED BY <1>3

-----------------------------------------------------------------------------
(* Units of bits, so many of which are in use: the units are just enough,  *)
(* and the bits behind the last one are 0.                                 *)
OnesOf(units) == {p \in Nat : p \div UnitBits < Len(units) /\ p % UnitBits \in At(units, p \div UnitBits)}

UnitsFit(units, span) ==
  /\ units \in Seq(SUBSET UnitPlaces) /\ span \in Nat
  /\ span <= Len(units) * UnitBits /\ Len(units) * UnitBits < span + UnitBits
  /\ \A p \in OnesOf(units) : p < span

RankEntries == [abs : Int, rel : [1 .. BlockUnits - 1 -> Int]]

BitVectors ==
  [units : Seq(SUBSET UnitPlaces), size : Nat, ones : Nat, ranks : Seq(RankEntries),
   select0s : Seq(Nat), select1s : Seq(Nat)]

(* A vector whose bits are pushed, and what a bit more makes of it.        *)
Pushing == {v \in BitVectors : UnitsFit(v.units, v.size)}

LEMMA UnitOfPlace ==
  ASSUME NEW n \in Nat, NEW p \in Nat, n * UnitBits <= p, p < (n + 1) * UnitBits
  PROVE  p \div UnitBits = n
<1>1. (n + 1) * UnitBits = n * UnitBits + UnitBits /\ n * UnitBits \in Nat
  OBVIOUS
<1>2. PICK b \in UnitPlaces : p = n * UnitBits + b
  <2>1. p - n * UnitBits \in UnitPlaces /\ p = n * UnitBits + (p - n * UnitBits)
    BY <1>1 DEF UnitPlaces
  <2> QED BY <2>1
<1> QED BY <1>2, InUnit

LEMMA PushFits ==
  ASSUME NEW v \in Pushing, NEW bit \in BOOLEAN
  PROVE  PushBack(v, bit) \in Pushing
<1> DEFINE L == Len(v.units)
           grown == IF v.size = UnitBits * L THEN Append(v.units, {}) ELSE v.units
           u == v.size \div UnitBits
           set == [grown EXCEPT ![u + 1] = @ \cup {v.size % UnitBits}]
           w == PushBack(v, bit)
<1>1. /\ v \in BitVectors /\ v.units \in Seq(SUBSET UnitPlaces) /\ v.size \in Nat /\ L \in Nat
      /\ v.size <= L * UnitBits /\ L * UnitBits < v.size + UnitBits
      /\ \A p \in OnesOf(v.units) : p < v.size
  <2>1. v \in BitVectors /\ v.units \in Seq(SUBSET UnitPlaces) /\ v.size \in Nat
    BY DEF Pushing, BitVectors
  <2> QED BY <2>1, LenNat DEF Pushing, UnitsFit
<1>2. PICK n \in Nat : /\ grown \in Seq(SUBSET UnitPlaces) /\ Len(grown) = n + 1
                       /\ n * UnitBits <= v.size /\ v.size < (n + 1) * UnitBits
                       /\ \A k \in 1 .. n + 1 : (k \in 1 .. L /\ grown[k] = v.units[k]) \/ grown[k] = {}
  <2>1. CASE v.size = UnitBits * L
    <3>1. grown = Append(v.units, {}) /\ {} \in SUBSET UnitPlaces
      BY <2>1
    <3>2. grown \in Seq(SUBSET UnitPlaces) /\ Len(grown) = L + 1
      BY <1>1, <3>1
    <3>3. \A k \in 1 .. L + 1 : (k \in 1 .. L /\ grown[k] = v.units[k]) \/ grown[k] = {}
      BY <1>1, <3>1
    <3>4. L * UnitBits <= v.size /\ v.size < (L + 1) * UnitBits
      BY <1>1, <2>1
    <3> HIDE DEF grown, L
    <3> QED BY <1>1, <3>2, <3>3, <3>4
  <2>2. CASE v.size # UnitBits * L
    <3>1. grown = v.units /\ UnitBits * L = L * UnitBits
      BY <1>1, <2>2
    <3>2. L # 0
      BY <1>1, <2>2, <3>1
    <3>3. PICK n \in Nat : L = n + 1
      <4>1. L - 1 \in Nat /\ L = (L - 1) + 1
        BY <1>1, <3>2
      <4> HIDE DEF L
      <4> QED BY <4>1
    <3>4. (n + 1) * UnitBits = n * UnitBits + UnitBits /\ n * UnitBits \in Nat
      OBVIOUS
    <3>5. v.size < L * UnitBits
      BY <1>1, <2>2, <3>1
    <3>6. n * UnitBits <= v.size /\ v.size < (n + 1) * UnitBits
      <4> HIDE DEF L
      <4> QED BY <1>1, <3>3, <3>4, <3>5
    <3>7. Len(grown) = n + 1 /\ \A k \in 1 .. n + 1 : k \in 1 .. L /\ grown[k] = v.units[k]
      BY <3>1, <3>3
    <3> HIDE DEF grown, L
    <3> QED BY <1>1, <3>1, <3>6, <3>7
  <2> QED BY <2>1, <2>2
<1>3. u = n /\ v.size % UnitBits \in UnitPlaces /\ n + 1 \in 1 .. n + 1
  <2>1. v.size \div UnitBits = n
    BY <1>1, <1>2, UnitOfPlace
  <2>2. v.size % UnitBits \in UnitPlaces
    BY <1>1, PlaceOf
  <2> HIDE DEF grown, L, set, w
  <2> QED BY <2>1, <2>2
<1>4. /\ set \in Seq(SUBSET UnitPlaces) /\ Len(set) = n + 1
      /\ \A k \in 1 .. n + 1 : set[k] = IF k = n + 1 THEN grown[k] \cup {v.size % UnitBits} ELSE grown[k]
  <2> HIDE DEF grown, u
  <2>1. grown \in [1 .. n + 1 -> SUBSET UnitPlaces]
    BY <1>2
  <2>2. grown[u + 1] \cup {v.size % UnitBits} \in SUBSET UnitPlaces
    BY <1>3, <2>1
  <2>3. set \in [1 .. n + 1 -> SUBSET UnitPlaces]
    BY <2>1, <2>2
  <2>4. n + 1 \in Nat
    OBVIOUS
  <2>5. \A k \in 1 .. n + 1 : set[k] = IF k = n + 1 THEN grown[k] \cup {v.size % UnitBits} ELSE grown[k]
    BY <1>3, <2>1
  <2> HIDE DEF set
  <2> QED BY <2>3, <2>4, <2>5, SeqOfFunction
<1>5. w \in BitVectors /\ w.size = v.size + 1 /\ w.units = IF bit THEN set ELSE grown
  <2>1. set \in Seq(SUBSET UnitPlaces)
    BY <1>4
  <2>2. w = [v EXCEPT !.units = IF bit THEN set ELSE grown,
                      !.ones = IF bit THEN @ + 1 ELSE @, !.size = @ + 1]
    BY DEF PushBack
  <2>3. v \in [units : Seq(SUBSET UnitPlaces), size : Nat, ones : Nat, ranks : Seq(RankEntries),
               select0s : Seq(Nat), select1s : Seq(Nat)]
    BY <1>1 DEF BitVectors
  <2>4. (IF bit THEN set ELSE grown) \in Seq(SUBSET UnitPlaces)
    BY <1>2, <2>1
  <2>5. PICK a \in Seq(SUBSET UnitPlaces), c \in Nat, z \in Nat :
               /\ w = [v EXCEPT !.units = a, !.ones = c, !.size = z]
               /\ a = (IF bit THEN set ELSE grown) /\ z = v.size + 1
    <3>1. (IF bit THEN v.ones + 1 ELSE v.ones) \in Nat /\ v.size + 1 \in Nat
      BY <2>3
    <3> HIDE DEF w, set, grown
    <3> QED BY <2>2, <2>4, <3>1
  <2> HIDE DEF w, set, grown
  <2>6. w \in [units : Seq(SUBSET UnitPlaces), size : Nat, ones : Nat, ranks : Seq(RankEntries),
               select0s : Seq(Nat), select1s : Seq(Nat)]
    BY <2>3, <2>5
  <2>7. w.size = z /\ w.units = a
    BY <2>3, <2>5
  <2> QED BY <2>5, <2>6, <2>7 DEF BitVectors
<1>6. /\ Len(w.units) = n + 1
      /\ \A k \in 1 .. n + 1 : \A b \in w.units[k] :
           (k \in 1 .. L /\ b \in v.units[k]) \/ (k = n + 1 /\ b = v.size % UnitBits)
  <2>1. CASE bit
    <3>1. w.units = set
      BY <1>5, <2>1
    <3> HIDE DEF w, grown, u, L
    <3> HIDE DEF set
    <3> QED BY <1>2, <1>4, <3>1
  <2>2. CASE ~ bit
    <3>1. w.units = grown
      BY <1>5, <2>2
    <3> HIDE DEF w, grown, u, L
    <3> QED BY <1>2, <3>1
  <2> QED BY <2>1, <2>2
<1>7. ASSUME NEW p \in OnesOf(w.units) PROVE p < w.size
  <2> HIDE DEF w
  <2>1. p \in Nat /\ p \div UnitBits < n + 1 /\ p % UnitBits \in w.units[p \div UnitBits + 1]
    BY <1>6 DEF OnesOf, At
  <2>2. PICK k \in Nat : k = p \div UnitBits /\ k + 1 \in 1 .. n + 1
    <3>1. p \div UnitBits \in Nat
      BY <2>1, PlaceOf
    <3> QED BY <2>1, <3>1
  <2>3. CASE k + 1 \in 1 .. L /\ p % UnitBits \in v.units[k + 1]
    <3>1. k < L
      BY <1>1, <2>3
    <3>2. p \in OnesOf(v.units)
      BY <2>1, <2>2, <2>3, <3>1 DEF OnesOf, At
    <3>3. p < v.size
      BY <1>1, <3>2
    <3>4. p \in Nat /\ v.size \in Nat /\ w.size = v.size + 1
      BY <1>1, <1>5, <2>1
    <3> QED BY <3>3, <3>4
  <2>4. CASE k = n /\ p % UnitBits = v.size % UnitBits
    <3>1. /\ p = (p \div UnitBits) * UnitBits + (p % UnitBits)
          /\ v.size = (v.size \div UnitBits) * UnitBits + (v.size % UnitBits)
      BY <1>1, <2>1, PlaceOf
    <3>2. p = v.size
      BY <1>3, <2>2, <2>4, <3>1
    <3> QED BY <1>1, <1>5, <3>2
  <2> QED BY <1>6, <2>1, <2>2, <2>3, <2>4
<1>8. w.size <= Len(w.units) * UnitBits /\ Len(w.units) * UnitBits < w.size + UnitBits
  <2>1. (n + 1) * UnitBits = n * UnitBits + UnitBits /\ n * UnitBits \in Nat
    OBVIOUS
  <2> HIDE DEF w, grown, u, L
  <2> QED BY <1>1, <1>2, <1>5, <1>6, <2>1
<1>9. UnitsFit(w.units, w.size)
  <2> HIDE DEF w, grown, u, L
  <2>1. w.units \in Seq(SUBSET UnitPlaces) /\ w.size \in Nat
    BY <1>5 DEF BitVectors
  <2> QED BY <1>7, <1>8, <2>1 DEF UnitsFit
<1> QED BY <1>5, <1>9 DEF Pushing

(* And so many bits.                                                       *)
PushLoop(f, v, bit, n) == f = [k \in 0 .. n |-> IF k = 0 THEN v ELSE PushBack(f[k - 1], bit)]

LEMMA RunPushed ==
  ASSUME NEW v \in Pushing, NEW bit \in BOOLEAN, NEW n \in Nat
  PROVE  Pushed(v, bit, n) \in Pushing
<1> DEFINE turn == [x \in (1 .. n) \X Pushing |-> PushBack(x[2], bit)]
           f == CHOOSE g : PushLoop(g, v, bit, n)
<1>1. turn \in [(1 .. n) \X Pushing -> Pushing]
  <2>1. ASSUME NEW k \in 1 .. n, NEW s \in Pushing PROVE PushBack(s, bit) \in Pushing
    BY PushFits
  <2> QED BY <2>1
<1>2. PICK g \in [0 .. n -> Pushing] : Loop(g, n, v, turn)
  <2> HIDE DEF turn
  <2> QED BY <1>1, LoopExists
<1>3. ASSUME NEW k \in 0 .. n, k # 0 PROVE turn[<<k, g[k - 1]>>] = PushBack(g[k - 1], bit)
  <2>1. k \in 1 .. n /\ k - 1 \in 0 .. n
    BY <1>3
  <2> QED BY <2>1
<1>4. PushLoop(g, v, bit, n)
  <2> HIDE DEF turn
  <2> QED BY <1>2, <1>3 DEF Loop, PushLoop
<1>5. PushLoop(f, v, bit, n)
  BY <1>4
<1>6. Pushed(v, bit, n) = f[n]
  BY Zenon DEF Pushed, PushLoop
<1> HIDE DEF f, turn
<1> DEFINE T == {k \in 0 .. n : f[k] \in Pushing}
<1>7. 0 \in T
  BY <1>5 DEF PushLoop
<1>8. ASSUME NEW k \in 1 .. n, k - 1 \in T PROVE k \in T
  <2>1. k \in 0 .. n /\ k # 0 /\ f[k - 1] \in Pushing
    BY <1>8
  <2>2. f[k] = PushBack(f[k - 1], bit)
    BY <1>5, <2>1 DEF PushLoop
  <2>3. f[k] \in Pushing
    BY <2>1, <2>2, PushFits
  <2> QED BY <2>1, <2>3
<1>9. \A k \in 0 .. n : k \in T
  <2> HIDE DEF T
  <2> QED BY <1>7, <1>8, AllTurns
<1> QED BY <1>6, <1>9

-----------------------------------------------------------------------------
(* The 0s that are in use, and those that are not 1s.                      *)
ZerosOf(units, span) == {p \in Nat : p < span /\ p \notin OnesOf(units)}

Unset(units) == Nat \ OnesOf(units)

(* The bits of a unit.                                                     *)
LEMMA UnitsAre ==
  ASSUME NEW units, NEW span, UnitsFit(units, span), NEW u \in Nat, u < Len(units)
  PROVE  /\ At(units, u) \in SUBSET UnitPlaces
         /\ Slice(OnesOf(units), u) = At(units, u)
         /\ Slice(Unset(units), u) = Complement(At(units, u))
         /\ Slice(ZerosOf(units, span), u)
              = Complement(At(units, u)) \cap {b \in UnitPlaces : u * UnitBits + b < span}
         /\ At(units, u) \subseteq {b \in UnitPlaces : u * UnitBits + b < span}
<1>1. At(units, u) \in SUBSET UnitPlaces
  <2>1. units \in Seq(SUBSET UnitPlaces) /\ u + 1 \in 1 .. Len(units)
    <3>1. units \in Seq(SUBSET UnitPlaces)
      BY DEF UnitsFit
    <3> QED BY <3>1, LenNat
  <2> QED BY <2>1 DEF At
<1>2. ASSUME NEW b \in UnitPlaces
      PROVE  /\ u * UnitBits + b \in Nat
             /\ u * UnitBits + b \in OnesOf(units) <=> b \in At(units, u)
  <2>1. PICK p \in Nat : p = u * UnitBits + b /\ p \div UnitBits = u /\ p % UnitBits = b
    BY InUnit
  <2>2. p \in OnesOf(units) <=> b \in At(units, u)
    BY <2>1 DEF OnesOf
  <2> QED BY <2>1, <2>2
<1>3. Slice(OnesOf(units), u) = At(units, u)
  BY <1>1, <1>2 DEF Slice
<1>4. Slice(Unset(units), u) = Complement(At(units, u))
  BY <1>1, <1>2 DEF Slice, Unset, Complement
<1>5. Slice(ZerosOf(units, span), u)
        = Complement(At(units, u)) \cap {b \in UnitPlaces : u * UnitBits + b < span}
  BY <1>1, <1>2 DEF Slice, ZerosOf, Complement
<1>6. At(units, u) \subseteq {b \in UnitPlaces : u * UnitBits + b < span}
  BY <1>1, <1>2 DEF UnitsFit
<1> QED BY <1>1, <1>3, <1>4, <1>5, <1>6

(* The counts of 0s and of 1s, to the end and behind it.                   *)
LEMMA CountsAre ==
  ASSUME NEW units, NEW span, UnitsFit(units, span), NEW p \in Nat
  PROVE  /\ Count(OnesOf(units), p) \in Nat
         /\ Count(Unset(units), p) = p - Count(OnesOf(units), p)
         /\ p <= span => Count(ZerosOf(units, span), p) = Count(Unset(units), p)
         /\ span <= p => Count(OnesOf(units), p) = Count(OnesOf(units), span)
         /\ span <= p => Count(ZerosOf(units, span), p) = Count(ZerosOf(units, span), span)
<1>1. Count(OnesOf(units), p) \in Nat /\ Count(Unset(units), p) = p - Count(OnesOf(units), p)
  <2>1. Count(OnesOf(units), p) \in Nat /\ Count(Nat \ OnesOf(units), p) \in Nat
    BY CountStep
  <2>2. Count(OnesOf(units), p) + Count(Nat \ OnesOf(units), p) = p
    BY CountOthers
  <2> QED BY <2>1, <2>2 DEF Unset
<1>2. ASSUME p <= span PROVE Count(ZerosOf(units, span), p) = Count(Unset(units), p)
  <2>1. span \in Nat
    BY DEF UnitsFit
  <2>2. ASSUME NEW q \in Nat, q < p PROVE q \in ZerosOf(units, span) <=> q \in Unset(units)
    <3>1. q < span
      BY <1>2, <2>1, <2>2
    <3> QED BY <3>1 DEF ZerosOf, Unset
  <2> QED BY <2>2, CountAlike
<1>3. ASSUME NEW X \in SUBSET Nat, \A q \in X : q < span, span <= p PROVE Count(X, p) = Count(X, span)
  <2>1. span \in Nat
    BY DEF UnitsFit
  <2>2. Before(X, p) = Before(X, span)
    BY <1>3, <2>1 DEF Before
  <2> QED BY <2>2 DEF Count
<1>4. /\ OnesOf(units) \in SUBSET Nat /\ \A q \in OnesOf(units) : q < span
      /\ ZerosOf(units, span) \in SUBSET Nat /\ \A q \in ZerosOf(units, span) : q < span
  BY DEF OnesOf, ZerosOf, UnitsFit
<1> QED BY <1>1, <1>2, <1>3, <1>4

LEMMA QuotientIs ==
  ASSUME NEW d \in Nat \ {0}, NEW n \in Nat, NEW b \in Nat, b < d
  PROVE  n * d + b \in Nat /\ (n * d + b) \div d = n /\ (n * d + b) % d = b
OBVIOUS

LEMMA QuotientParts ==
  ASSUME NEW d \in Nat \ {0}, NEW p \in Nat
  PROVE  p \div d \in Nat /\ p % d \in Nat /\ p % d < d /\ p = (p \div d) * d + (p % d)
OBVIOUS

LEMMA QuotientOf ==
  ASSUME NEW d \in Nat \ {0}, NEW n \in Nat, NEW p \in Nat, n * d <= p, p < (n + 1) * d
  PROVE  p \div d = n /\ p % d = p - n * d
<1>1. (n + 1) * d = n * d + d /\ n * d \in Nat
  OBVIOUS
<1>2. PICK b \in Nat : p = n * d + b /\ b < d
  <2>1. p - n * d \in Nat /\ p = n * d + (p - n * d) /\ p - n * d < d
    BY <1>1
  <2> QED BY <2>1
<1> QED BY <1>1, <1>2, QuotientIs

(* Blocks of units.                                                        *)
LEMMA BlocksAre ==
  /\ BlockBits \in Nat \ {0} /\ BlockBits = 8 * UnitBits /\ UnitBits <= BlockBits
  /\ \A r \in Nat : /\ r * BlockBits \in Nat /\ r * 8 \in Nat
                    /\ r * BlockBits = (r * 8) * UnitBits
                    /\ (r + 1) * BlockBits = r * BlockBits + BlockBits
  /\ \A u \in Nat : /\ u \div 8 \in Nat /\ u % 8 \in 0 .. 7 /\ u = (u \div 8) * 8 + (u % 8)
                    /\ u * UnitBits \in Nat
                    /\ u * UnitBits = (u \div 8) * BlockBits + (u % 8) * UnitBits
                    /\ (u % 8) * UnitBits \in Nat
                    /\ (u + 1) * UnitBits = u * UnitBits + UnitBits
                    /\ (u \div 8) * BlockBits <= u * UnitBits
                    /\ u * UnitBits + UnitBits <= (u \div 8) * BlockBits + BlockBits
<1>1. BlockBits \in Nat \ {0} /\ BlockBits = 8 * UnitBits /\ UnitBits <= BlockBits
  BY DEF BlockBits, BlockUnits
<1>2. ASSUME NEW r \in Nat
      PROVE  /\ r * BlockBits \in Nat /\ r * 8 \in Nat /\ r * BlockBits = (r * 8) * UnitBits
             /\ (r + 1) * BlockBits = r * BlockBits + BlockBits
  <2>1. r * (8 * UnitBits) = (r * 8) * UnitBits /\ r * (8 * UnitBits) \in Nat
    OBVIOUS
  <2>2. (r + 1) * BlockBits = r * BlockBits + BlockBits
    BY <1>1
  <2> QED BY <1>1, <2>1, <2>2
<1>3. ASSUME NEW u \in Nat
      PROVE  /\ u \div 8 \in Nat /\ u % 8 \in 0 .. 7 /\ u = (u \div 8) * 8 + (u % 8)
             /\ u * UnitBits \in Nat
             /\ u * UnitBits = (u \div 8) * BlockBits + (u % 8) * UnitBits
             /\ (u % 8) * UnitBits \in Nat
             /\ (u + 1) * UnitBits = u * UnitBits + UnitBits
             /\ (u \div 8) * BlockBits <= u * UnitBits
             /\ u * UnitBits + UnitBits <= (u \div 8) * BlockBits + BlockBits
  <2>1. PICK r \in Nat, k \in 0 .. 7 : r = u \div 8 /\ k = u % 8 /\ u = r * 8 + k
    <3>1. u \div 8 \in Nat /\ u % 8 \in 0 .. 7 /\ u = (u \div 8) * 8 + (u % 8)
      OBVIOUS
    <3> QED BY <3>1
  <2>2. r * BlockBits = (r * 8) * UnitBits
    BY <1>2
  <2>3. (r * 8 + k) * UnitBits = (r * 8) * UnitBits + k * UnitBits
    OBVIOUS
  <2>4. k * UnitBits \in Nat /\ k * UnitBits + UnitBits <= 8 * UnitBits
    <3>1. k + 1 \in Nat /\ 8 \in Nat /\ k \in Nat /\ k < 8
      OBVIOUS
    <3> QED BY <3>1, ProductGrows
  <2>5. u * UnitBits \in Nat /\ (u + 1) * UnitBits = u * UnitBits + UnitBits
    OBVIOUS
  <2>6. u * UnitBits = r * BlockBits + k * UnitBits
    BY <2>1, <2>2, <2>3
  <2>7. r * BlockBits \in Nat
    BY <1>2
  <2> QED BY <1>1, <2>1, <2>4, <2>5, <2>6, <2>7
<1> QED BY <1>1, <1>2, <1>3

(* The samples of the members of X before p: the first of every so many.   *)
SampledUpTo(samples, X, p) ==
  /\ samples \in Seq(Nat)
  /\ \A j \in 1 .. Len(samples) :
       /\ samples[j] \in Nat /\ samples[j] \in X /\ samples[j] < p
       /\ Count(X, samples[j]) = (j - 1) * BlockBits
  /\ Count(X, p) <= Len(samples) * BlockBits

LEMMA DueIs ==
  ASSUME NEW X, NEW p \in Nat, NEW samples, SampledUpTo(samples, X, p)
  PROVE  /\ Len(samples) \in Nat /\ Count(X, p) \in Nat
         /\ DueIn(Count(X, p)) = Len(samples) * BlockBits - Count(X, p)
         /\ DueIn(Count(X, p)) \in Nat
<1>1. Len(samples) \in Nat /\ Count(X, p) \in Nat
  <2>1. samples \in Seq(Nat)
    BY DEF SampledUpTo
  <2> QED BY <2>1, LenNat, CountStep
<1>2. PICK n \in Nat, c \in Nat, d \in Nat \ {0} :
        /\ n = Len(samples) /\ c = Count(X, p) /\ d = BlockBits /\ c <= n * d
        /\ \A j \in 1 .. n : /\ samples[j] \in Nat /\ samples[j] \in X /\ samples[j] < p
                             /\ Count(X, samples[j]) = (j - 1) * d
  BY <1>1, BlocksAre DEF SampledUpTo
<1>3. (d - (c % d)) % d = n * d - c /\ n * d - c \in Nat
  <2>1. CASE c = n * d
    <3>1. c % d = 0
      <4>1. n * d + 0 = n * d /\ 0 < d /\ (n * d + 0) % d = 0
        BY QuotientIs
      <4> QED BY <2>1, <4>1
    <3>2. (d - 0) % d = 0
      <4>1. 1 * d + 0 = d /\ d - 0 = d /\ 0 < d /\ (1 * d + 0) % d = 0
        BY QuotientIs
      <4> QED BY <4>1
    <3>3. n * d - c = 0
      BY <2>1
    <3> QED BY <3>1, <3>2, <3>3
  <2>2. CASE c # n * d
    <3>1. n # 0
      BY <1>2, <2>2
    <3>2. PICK m \in Nat : n = m + 1 /\ n - 1 = m
      <4>1. n - 1 \in Nat /\ n = (n - 1) + 1
        BY <3>1
      <4> QED BY <4>1
    <3>3. n \in 1 .. n
      BY <3>1
    <3>4. m * d < c
      <4>1. samples[n] \in Nat /\ samples[n] \in X /\ samples[n] < p /\ Count(X, samples[n]) = m * d
        BY <1>2, <3>2, <3>3
      <4>2. Count(X, samples[n]) < Count(X, p)
        BY <4>1, CountGrows
      <4> QED BY <1>2, <4>1, <4>2
    <3>5. (m + 1) * d = m * d + d /\ m * d \in Nat
      OBVIOUS
    <3>6. PICK e \in Nat : c = m * d + e /\ 0 < e /\ e < d
      <4>1. c - m * d \in Nat /\ c = m * d + (c - m * d) /\ 0 < c - m * d /\ c - m * d < d
        BY <1>2, <2>2, <3>2, <3>4, <3>5
      <4> QED BY <4>1
    <3>7. c % d = e
      BY <3>6, QuotientIs
    <3>8. d - e \in Nat /\ d - e < d
      BY <3>6
    <3>9. (d - e) % d = d - e
      <4>1. 0 * d + (d - e) = d - e /\ (0 * d + (d - e)) % d = d - e
        BY <3>8, QuotientIs
      <4> QED BY <4>1
    <3> QED BY <3>2, <3>5, <3>6, <3>7, <3>8, <3>9
  <2> QED BY <2>1, <2>2
<1> QED BY <1>1, <1>2, <1>3 DEF DueIn

LEMMA SampleDue ==
  ASSUME NEW X, NEW u \in Nat, NEW samples, SampledUpTo(samples, X, u * UnitBits)
  PROVE  SampledUpTo(Sampled(samples, Slice(X, u), Count(X, u * UnitBits), u * UnitBits),
                     X, (u + 1) * UnitBits)
<1>1. PICK n, c, p, q, due, unit, d :
        /\ p = u * UnitBits /\ q = (u + 1) * UnitBits /\ c = Count(X, p) /\ unit = Slice(X, u)
        /\ due = DueIn(c) /\ n = Len(samples) /\ d = BlockBits
  OBVIOUS
<1>2. /\ p \in Nat /\ q \in Nat /\ q = p + UnitBits /\ unit \in SUBSET UnitPlaces /\ d \in Nat \ {0}
      /\ UnitBits <= d
      /\ Count(X, q) = c + Cardinality(unit) /\ Cardinality(unit) \in Nat /\ c \in Nat
  <2>1. /\ (u + 1) * UnitBits \in Nat /\ (u + 1) * UnitBits = u * UnitBits + UnitBits
        /\ Count(X, (u + 1) * UnitBits) = Count(X, u * UnitBits) + Cardinality(Slice(X, u))
    BY CountOfUnit
  <2>2. Slice(X, u) \in SUBSET UnitPlaces /\ u * UnitBits \in Nat
    <3>1. 0 \in Nat /\ 0 <= UnitBits
      OBVIOUS
    <3> QED BY <3>1, CountInUnit
  <2>3. Cardinality(Slice(X, u)) \in Nat
    BY <2>2, UnitCounts
  <2>4. Count(X, u * UnitBits) \in Nat
    BY <2>2, CountStep
  <2> QED BY <1>1, <2>1, <2>2, <2>3, <2>4, BlocksAre
<1>3. /\ n \in Nat /\ due = n * d - c /\ due \in Nat
  BY <1>1, <1>2, DueIs
<1>4. /\ samples \in Seq(Nat) /\ c <= n * d
      /\ \A j \in 1 .. n : /\ samples[j] \in Nat /\ samples[j] \in X /\ samples[j] < p
                           /\ Count(X, samples[j]) = (j - 1) * d
  BY <1>1 DEF SampledUpTo
<1>5. CASE Cardinality(unit) > due
  <2>1. PICK b : b = SelectBit(due, unit)
    OBVIOUS
  <2>2. b \in unit /\ b \in UnitPlaces /\ Count(unit, b) = due
    <3>1. due < Cardinality(unit)
      BY <1>2, <1>3, <1>5
    <3> QED BY <1>2, <1>3, <2>1, <3>1, BitSelected
  <2>3. b \in Nat /\ b < UnitBits
    BY <2>2 DEF UnitPlaces
  <2>4. p + b \in X
    BY <1>1, <2>2 DEF Slice
  <2>5. Count(X, p + b) = c + due
    <3>1. b <= UnitBits
      BY <2>3
    <3>2. Count(X, u * UnitBits + b) = Count(X, u * UnitBits) + Count(Slice(X, u), b)
      BY <2>3, <3>1, CountInUnit
    <3> QED BY <1>1, <2>2, <3>2
  <2>6. Count(X, p + b) = n * d
    BY <1>2, <1>3, <2>5
  <2>7. PICK more : more = Append(samples, p + b)
    OBVIOUS
  <2>8. more = Sampled(samples, unit, c, p)
    BY <1>1, <1>5, <2>1, <2>7 DEF Sampled
  <2>9. /\ more \in Seq(Nat) /\ Len(more) = n + 1
        /\ \A j \in 1 .. n + 1 : more[j] = IF j = n + 1 THEN p + b ELSE samples[j]
    <3>1. p + b \in Nat
      BY <1>2, <2>3
    <3> QED BY <1>1, <1>3, <1>4, <2>7, <3>1
  <2>10. ASSUME NEW j \in 1 .. n + 1
         PROVE  more[j] \in Nat /\ more[j] \in X /\ more[j] < q /\ Count(X, more[j]) = (j - 1) * d
    <3>1. CASE j = n + 1
      <4>1. more[j] = p + b /\ j - 1 = n
        BY <1>3, <2>9, <3>1
      <4> QED BY <1>2, <2>3, <2>4, <2>6, <4>1
    <3>2. CASE j # n + 1
      <4>1. more[j] = samples[j] /\ j \in 1 .. n
        BY <1>3, <2>9, <3>2
      <4> QED BY <1>2, <1>4, <4>1
    <3> QED BY <3>1, <3>2
  <2>11. Count(X, q) <= (n + 1) * d
    <3>1. (n + 1) * d = n * d + d /\ n * d \in Nat
      BY <1>2, <1>3
    <3>2. Cardinality(unit) <= UnitBits
      <4>1. Count(X, q) <= Count(X, p) + (q - p)
        BY <1>2, CountGrows
      <4> QED BY <1>1, <1>2, <4>1
    <3> QED BY <1>2, <1>4, <3>1, <3>2
  <2> QED BY <1>1, <2>8, <2>9, <2>10, <2>11 DEF SampledUpTo
<1>6. CASE ~ (Cardinality(unit) > due)
  <2>1. samples = Sampled(samples, unit, c, p)
    BY <1>1, <1>6 DEF Sampled
  <2>2. n * d \in Nat
    BY <1>2, <1>3
  <2>3. Count(X, q) <= n * d
    BY <1>2, <1>3, <1>6, <2>2
  <2>4. \A j \in 1 .. n : /\ samples[j] \in Nat /\ samples[j] \in X /\ samples[j] < q
                          /\ Count(X, samples[j]) = (j - 1) * d
    BY <1>2, <1>4
  <2> QED BY <1>1, <1>4, <2>1, <2>3, <2>4 DEF SampledUpTo
<1> QED BY <1>5, <1>6

(* What a unit makes of the entry of its block.                            *)
EntryAfter(rank, k, ones) ==
  IF k = 0 THEN [rank EXCEPT !.abs = ones] ELSE SetRel(rank, k, ones - rank.abs)

LEMMA FieldPositive ==
  ASSUME NEW k \in Nat
  PROVE  TwoTo[FieldSize(k)] \in Nat \ {0}
<1>1. k * UnitBits \in Nat
  OBVIOUS
<1>2. Width(k * UnitBits) \in Nat
  BY <1>1, WidthHolds
<1> QED BY <1>2, TwoToGrows DEF FieldSize

LEMMA EntryIs ==
  ASSUME NEW rank \in RankEntries, NEW k \in 0 .. 7, NEW ones \in Int
  PROVE  /\ EntryAfter(rank, k, ones) \in RankEntries
         /\ k = 0 => EntryAfter(rank, k, ones).abs = ones
         /\ k # 0 => /\ EntryAfter(rank, k, ones).abs = rank.abs
                     /\ EntryAfter(rank, k, ones).rel[k] = (ones - rank.abs) % TwoTo[FieldSize(k)]
                     /\ \A j \in 1 .. 7 : j # k => EntryAfter(rank, k, ones).rel[j] = rank.rel[j]
<1>1. rank \in [abs : Int, rel : [1 .. 7 -> Int]] /\ RankEntries = [abs : Int, rel : [1 .. 7 -> Int]]
  BY DEF RankEntries, BlockUnits
<1>2. CASE k = 0
  <2>1. EntryAfter(rank, k, ones) = [rank EXCEPT !.abs = ones]
    BY <1>2 DEF EntryAfter
  <2> QED BY <1>1, <1>2, <2>1
<1>3. CASE k # 0
  <2>1. PICK z \in Int : z = (ones - rank.abs) % TwoTo[FieldSize(k)]
    <3>1. TwoTo[FieldSize(k)] \in Nat \ {0} /\ ones - rank.abs \in Int
      BY <1>1, FieldPositive
    <3>2. (ones - rank.abs) % TwoTo[FieldSize(k)] \in Int
      BY <3>1
    <3> QED BY <3>2
  <2>2. EntryAfter(rank, k, ones) = [rank EXCEPT !.rel[k] = z]
    BY <1>3, <2>1 DEF EntryAfter, SetRel
  <2>3. k \in 1 .. 7
    BY <1>3
  <2>4. [rank EXCEPT !.rel[k] = z] \in [abs : Int, rel : [1 .. 7 -> Int]]
    BY <1>1, <2>3
  <2>5. [rank EXCEPT !.rel[k] = z].abs = rank.abs
    BY <1>1, <2>3
  <2>6. [rank EXCEPT !.rel[k] = z].rel = [rank.rel EXCEPT ![k] = z] /\ rank.rel \in [1 .. 7 -> Int]
    BY <1>1, <2>3
  <2>7. /\ [rank.rel EXCEPT ![k] = z][k] = z
        /\ \A j \in 1 .. 7 : j # k => [rank.rel EXCEPT ![k] = z][j] = rank.rel[j]
    BY <2>3, <2>6
  <2> QED BY <1>1, <1>3, <2>1, <2>2, <2>4, <2>5, <2>6, <2>7
<1> QED BY <1>2, <1>3

(* What there is of an index after some units.                             *)
Indexing(blocks) ==
  [ranks : [1 .. blocks -> RankEntries], select0s : Seq(Nat), select1s : Seq(Nat), zeros : Int, ones : Int]

LEMMA SampledIs ==
  ASSUME NEW samples \in Seq(Nat), NEW unit \in SUBSET UnitPlaces, NEW seen \in Int, NEW head \in Nat
  PROVE  Sampled(samples, unit, seen, head) \in Seq(Nat)
<1>1. DueIn(seen) \in Nat
  <2>1. PICK d \in Nat \ {0} : d = BlockBits
    BY BlocksAre
  <2>2. (d - (seen % d)) % d \in Nat
    <3>1. seen % d \in 0 .. d - 1
      OBVIOUS
    <3> QED BY <3>1
  <2> QED BY <2>1, <2>2 DEF DueIn
<1>2. ASSUME Cardinality(unit) > DueIn(seen) PROVE head + SelectBit(DueIn(seen), unit) \in Nat
  <2>1. Cardinality(unit) \in Nat
    BY UnitCounts
  <2>2. SelectBit(DueIn(seen), unit) \in UnitPlaces
    BY <1>1, <1>2, <2>1, BitSelected
  <2> QED BY <2>2 DEF UnitPlaces
<1> QED BY <1>2 DEF Sampled

TurnOf(t, s, X, Y, u, blocks) ==
  /\ t \in Indexing(blocks)
  /\ t.ranks = [s.ranks EXCEPT ![u \div 8 + 1] = EntryAfter(s.ranks[u \div 8 + 1], u % 8, s.ones)]
  /\ t.select0s = Sampled(s.select0s, Slice(Y, u), s.zeros, u * UnitBits)
  /\ t.select1s = Sampled(s.select1s, Slice(X, u), s.ones, u * UnitBits)
  /\ t.zeros = s.zeros + Cardinality(Slice(Y, u)) /\ t.ones = s.ones + Cardinality(Slice(X, u))

LEMMA TurnIs ==
  ASSUME NEW v, UnitsFit(v.units, v.size), NEW blocks \in Nat, NEW s \in Indexing(blocks),
         NEW u \in Nat, u < Len(v.units)
  PROVE  TurnOf(IndexUnit(s, v, u), s, OnesOf(v.units), ZerosOf(v.units, v.size), u, blocks)
<1>1. PICK unit, inUse, zeros :
        /\ unit = At(v.units, u) /\ inUse = {b \in UnitPlaces : u * UnitBits + b < v.size}
        /\ zeros = Complement(unit) \cap inUse
  OBVIOUS
<1>2. /\ unit \in SUBSET UnitPlaces /\ Slice(OnesOf(v.units), u) = unit
      /\ Slice(ZerosOf(v.units, v.size), u) = zeros /\ unit \subseteq inUse
      /\ inUse \in SUBSET UnitPlaces /\ zeros \in SUBSET UnitPlaces /\ zeros = inUse \ unit
  <2>1. /\ At(v.units, u) \in SUBSET UnitPlaces /\ Slice(OnesOf(v.units), u) = At(v.units, u)
        /\ Slice(ZerosOf(v.units, v.size), u)
              = Complement(At(v.units, u)) \cap {b \in UnitPlaces : u * UnitBits + b < v.size}
        /\ At(v.units, u) \subseteq {b \in UnitPlaces : u * UnitBits + b < v.size}
    BY UnitsAre
  <2>2. inUse \in SUBSET UnitPlaces
    BY <1>1
  <2>3. zeros = inUse \ unit
    BY <1>1, <2>2 DEF Complement
  <2> QED BY <1>1, <2>1, <2>2, <2>3
<1>3. /\ Cardinality(unit) \in Nat /\ Cardinality(inUse) \in Nat /\ Cardinality(zeros) \in Nat
      /\ Cardinality(zeros) = Cardinality(inUse) - Cardinality(unit)
  <2>1. Cardinality(unit) \in Nat /\ Cardinality(inUse) \in Nat /\ Cardinality(zeros) \in Nat
    BY <1>2, UnitCounts
  <2>2. IsFiniteSet(UnitPlaces)
    <3>1. 0 \in Int /\ UnitBits - 1 \in Int
      OBVIOUS
    <3> QED BY <3>1, FS_Interval DEF UnitPlaces
  <2>3. IsFiniteSet(inUse) /\ IsFiniteSet(unit)
    BY <1>2, <2>2, FS_Subset
  <2>4. Cardinality(inUse \ unit) = Cardinality(inUse) - Cardinality(inUse \cap unit)
    BY <2>3, FS_Difference
  <2>5. inUse \cap unit = unit
    BY <1>2
  <2> QED BY <1>2, <2>1, <2>4, <2>5
<1>4. /\ s.ranks \in [1 .. blocks -> RankEntries] /\ s.select0s \in Seq(Nat) /\ s.select1s \in Seq(Nat)
      /\ s.zeros \in Int /\ s.ones \in Int
  BY DEF Indexing
<1>5. u * UnitBits \in Nat /\ u \div 8 \in Nat /\ u % 8 \in 0 .. 7
  BY BlocksAre
<1>6. PICK ranks, s0, s1 :
        /\ ranks = [s.ranks EXCEPT ![u \div 8 + 1] = EntryAfter(s.ranks[u \div 8 + 1], u % 8, s.ones)]
        /\ s0 = Sampled(s.select0s, zeros, s.zeros, u * UnitBits)
        /\ s1 = Sampled(s.select1s, unit, s.ones, u * UnitBits)
  OBVIOUS
<1>7. ranks \in [1 .. blocks -> RankEntries]
  <2>1. CASE u \div 8 + 1 \in 1 .. blocks
    <3>1. s.ranks[u \div 8 + 1] \in RankEntries
      BY <1>4, <2>1
    <3>2. EntryAfter(s.ranks[u \div 8 + 1], u % 8, s.ones) \in RankEntries
      BY <1>4, <1>5, <3>1, EntryIs
    <3> QED BY <1>4, <1>6, <2>1, <3>2
  <2>2. CASE u \div 8 + 1 \notin 1 .. blocks
    BY <1>4, <1>6, <2>2
  <2> QED BY <2>1, <2>2
<1>8. s0 \in Seq(Nat) /\ s1 \in Seq(Nat)
  BY <1>2, <1>4, <1>5, <1>6, SampledIs
<1>9. IndexUnit(s, v, u)
        = [ranks |-> ranks, select0s |-> s0, select1s |-> s1,
           zeros |-> s.zeros + Cardinality(inUse) - Cardinality(unit), ones |-> s.ones + Cardinality(unit)]
  <2>1. ranks = [s.ranks EXCEPT ![u \div 8 + 1] =
                   IF u % 8 = 0 THEN [@ EXCEPT !.abs = s.ones] ELSE SetRel(@, u % 8, s.ones - @.abs)]
    BY <1>6 DEF EntryAfter
  <2> QED BY Zenon, <1>1, <1>6, <2>1 DEF IndexUnit, BlockUnits
<1>10. s.zeros + Cardinality(inUse) - Cardinality(unit) = s.zeros + Cardinality(zeros)
  BY <1>3, <1>4
<1>11. s.zeros + Cardinality(zeros) \in Int /\ s.ones + Cardinality(unit) \in Int
  BY <1>3, <1>4
<1>12. [ranks |-> ranks, select0s |-> s0, select1s |-> s1,
           zeros |-> s.zeros + Cardinality(zeros), ones |-> s.ones + Cardinality(unit)] \in Indexing(blocks)
  BY <1>7, <1>8, <1>11 DEF Indexing
<1>13. PICK t, z, o : /\ t = IndexUnit(s, v, u)
                     /\ z = s.zeros + Cardinality(zeros) /\ o = s.ones + Cardinality(unit)
                     /\ t = [ranks |-> ranks, select0s |-> s0, select1s |-> s1, zeros |-> z, ones |-> o]
                     /\ t \in Indexing(blocks)
  <2>1. IndexUnit(s, v, u) = [ranks |-> ranks, select0s |-> s0, select1s |-> s1,
                              zeros |-> s.zeros + Cardinality(zeros), ones |-> s.ones + Cardinality(unit)]
    BY <1>9, <1>10
  <2> QED BY <1>12, <2>1
<1>14. t.ranks = ranks /\ t.select0s = s0 /\ t.select1s = s1 /\ t.zeros = z /\ t.ones = o
  BY <1>13
<1>15. Slice(OnesOf(v.units), u) = unit /\ Slice(ZerosOf(v.units, v.size), u) = zeros
  BY <1>2
<1>16. TurnOf(t, s, OnesOf(v.units), ZerosOf(v.units, v.size), u, blocks)
  BY <1>6, <1>13, <1>14, <1>15 DEF TurnOf
<1> QED BY <1>13, <1>16

-----------------------------------------------------------------------------
(* Ranks filled for the units before n.                                    *)
RanksUpTo(ranks, X, n) ==
  \A u \in Nat : u < n =>
    /\ ranks[u \div 8 + 1].abs = Count(X, (u \div 8) * BlockBits)
    /\ u % 8 # 0 => ranks[u \div 8 + 1].rel[u % 8] = Count(X, u * UnitBits) - Count(X, (u \div 8) * BlockBits)

(* The index after n units.                                                *)
IndexedUpTo(s, units, span, blocks, n) ==
  /\ s \in Indexing(blocks)
  /\ s.ones = Count(OnesOf(units), n * UnitBits)
  /\ s.zeros = Count(ZerosOf(units, span), n * UnitBits)
  /\ SampledUpTo(s.select1s, OnesOf(units), n * UnitBits)
  /\ SampledUpTo(s.select0s, ZerosOf(units, span), n * UnitBits)
  /\ RanksUpTo(s.ranks, OnesOf(units), n)

(* What the units of a block before one of them count fits its field.      *)
LEMMA CountInBlock ==
  ASSUME NEW X, NEW r \in Nat, NEW k \in 0 .. 7
  PROVE  /\ r * BlockBits \in Nat /\ (r * 8 + k) * UnitBits \in Nat
         /\ (r * 8 + k) * UnitBits = r * BlockBits + k * UnitBits
         /\ Count(X, (r * 8 + k) * UnitBits) - Count(X, r * BlockBits) \in Nat
         /\ (Count(X, (r * 8 + k) * UnitBits) - Count(X, r * BlockBits)) % TwoTo[FieldSize(k)]
              = Count(X, (r * 8 + k) * UnitBits) - Count(X, r * BlockBits)
<1>1. PICK p \in Nat, q \in Nat : p = r * BlockBits /\ q = (r * 8 + k) * UnitBits /\ q = p + k * UnitBits
  <2>1. r * BlockBits \in Nat /\ r * BlockBits = (r * 8) * UnitBits
    BY BlocksAre
  <2>2. (r * 8 + k) * UnitBits = (r * 8) * UnitBits + k * UnitBits /\ (r * 8 + k) * UnitBits \in Nat
    OBVIOUS
  <2> QED BY <2>1, <2>2
<1>2. k \in Nat /\ k * UnitBits \in Nat
  OBVIOUS
<1>3. /\ Count(X, p) \in Nat /\ Count(X, q) \in Nat /\ Count(X, p) <= Count(X, q)
      /\ Count(X, q) <= Count(X, p) + (q - p)
  <2>1. p <= q
    BY <1>1, <1>2
  <2> QED BY <2>1, CountGrows
<1>4. Count(X, q) - Count(X, p) \in Nat /\ Count(X, q) - Count(X, p) <= k * UnitBits
  BY <1>1, <1>2, <1>3
<1>5. (Count(X, q) - Count(X, p)) % TwoTo[FieldSize(k)] = Count(X, q) - Count(X, p)
  BY <1>2, <1>4, FieldHolds
<1> QED BY <1>1, <1>4, <1>5

LEMMA RanksTurn ==
  ASSUME NEW X, NEW blocks \in Nat, NEW ranks \in [1 .. blocks -> RankEntries],
         NEW n \in Nat, n \div 8 + 1 \in 1 .. blocks, RanksUpTo(ranks, X, n)
  PROVE  RanksUpTo([ranks EXCEPT ![n \div 8 + 1] =
                      EntryAfter(ranks[n \div 8 + 1], n % 8, Count(X, n * UnitBits))], X, n + 1)
<1>1. PICK r \in Nat, k \in 0 .. 7, ones \in Nat :
        /\ r = n \div 8 /\ k = n % 8 /\ n = r * 8 + k /\ ones = Count(X, n * UnitBits) /\ r + 1 \in 1 .. blocks
  <2>1. n \div 8 \in Nat /\ n % 8 \in 0 .. 7 /\ n = (n \div 8) * 8 + (n % 8) /\ n * UnitBits \in Nat
    BY BlocksAre
  <2>2. Count(X, n * UnitBits) \in Nat
    BY <2>1, CountStep
  <2> QED BY <2>1, <2>2
<1>2. PICK rank \in RankEntries : rank = ranks[r + 1]
  BY <1>1
<1>3. PICK entry \in RankEntries :
        /\ entry = EntryAfter(rank, k, ones)
        /\ k = 0 => entry.abs = ones
        /\ k # 0 => /\ entry.abs = rank.abs
                    /\ entry.rel[k] = (ones - rank.abs) % TwoTo[FieldSize(k)]
                    /\ \A j \in 1 .. 7 : j # k => entry.rel[j] = rank.rel[j]
  <2>1. ones \in Int
    OBVIOUS
  <2>2. EntryAfter(rank, k, ones) \in RankEntries
    BY <2>1, EntryIs
  <2>3. /\ k = 0 => EntryAfter(rank, k, ones).abs = ones
        /\ k # 0 => /\ EntryAfter(rank, k, ones).abs = rank.abs
                    /\ EntryAfter(rank, k, ones).rel[k] = (ones - rank.abs) % TwoTo[FieldSize(k)]
                    /\ \A j \in 1 .. 7 : j # k => EntryAfter(rank, k, ones).rel[j] = rank.rel[j]
    BY <2>1, EntryIs
  <2> QED BY <2>2, <2>3
<1>4. PICK after : /\ after = [ranks EXCEPT ![r + 1] = entry]
                   /\ after[r + 1] = entry
                   /\ \A b \in Nat : b # r => after[b + 1] = ranks[b + 1]
  <2>1. [ranks EXCEPT ![r + 1] = entry][r + 1] = entry
    BY <1>1
  <2>2. ASSUME NEW b \in Nat, b # r PROVE [ranks EXCEPT ![r + 1] = entry][b + 1] = ranks[b + 1]
    <3>1. b + 1 # r + 1
      BY <2>2
    <3>2. CASE b + 1 \in 1 .. blocks
      BY <3>1, <3>2
    <3>3. CASE b + 1 \notin 1 .. blocks
      BY <3>1, <3>3
    <3> QED BY <3>2, <3>3
  <2> QED BY <2>1, <2>2
<1>5. k # 0 => rank.abs = Count(X, r * BlockBits)
  <2>1. SUFFICES ASSUME k # 0 PROVE rank.abs = Count(X, r * BlockBits)
    OBVIOUS
  <2>2. PICK u \in Nat : u = n - 1 /\ u < n /\ u \div 8 = r
    <3>1. n - 1 \in Nat /\ n - 1 < n
      BY <1>1, <2>1
    <3>2. (n - 1) \div 8 = r
      BY <1>1, <2>1
    <3> QED BY <3>1, <3>2
  <2> QED BY <1>1, <1>2, <2>2 DEF RanksUpTo
<1>6. entry.abs = Count(X, r * BlockBits)
  <2>1. CASE k = 0
    <3>1. n * UnitBits = r * BlockBits
      <4>1. r * BlockBits = (r * 8) * UnitBits /\ n = r * 8
        BY <1>1, <2>1, BlocksAre
      <4> QED BY <4>1
    <3> QED BY <1>1, <1>3, <2>1, <3>1
  <2> QED BY <1>3, <1>5, <2>1
<1>7. ASSUME NEW u \in Nat, u < n + 1
      PROVE  /\ after[u \div 8 + 1].abs = Count(X, (u \div 8) * BlockBits)
             /\ u % 8 # 0 => after[u \div 8 + 1].rel[u % 8]
                               = Count(X, u * UnitBits) - Count(X, (u \div 8) * BlockBits)
  <2>1. PICK b \in Nat, j \in 0 .. 7 : b = u \div 8 /\ j = u % 8 /\ u = b * 8 + j
    BY BlocksAre
  <2>2. CASE u = n
    <3>1. b = r /\ j = k
      BY <1>1, <2>1, <2>2
    <3>2. ASSUME k # 0 PROVE entry.rel[k] = Count(X, u * UnitBits) - Count(X, r * BlockBits)
      <4>1. entry.rel[k] = (ones - Count(X, r * BlockBits)) % TwoTo[FieldSize(k)]
        BY <1>3, <1>5, <3>2
      <4>2. (Count(X, (r * 8 + k) * UnitBits) - Count(X, r * BlockBits)) % TwoTo[FieldSize(k)]
              = Count(X, (r * 8 + k) * UnitBits) - Count(X, r * BlockBits)
        BY CountInBlock
      <4> QED BY <1>1, <2>2, <4>1, <4>2
    <3> QED BY <1>4, <1>6, <2>1, <3>1, <3>2
  <2>3. CASE u # n
    <3>1. u < n
      BY <2>3, <1>7
    <3>2. /\ ranks[b + 1].abs = Count(X, b * BlockBits)
          /\ j # 0 => ranks[b + 1].rel[j] = Count(X, u * UnitBits) - Count(X, b * BlockBits)
      BY <2>1, <3>1 DEF RanksUpTo
    <3>3. CASE b # r
      BY <1>4, <2>1, <3>2, <3>3
    <3>4. CASE b = r
      <4>1. j # k /\ k # 0
        BY <1>1, <2>1, <3>1, <3>4
      <4>2. j # 0 => entry.rel[j] = rank.rel[j]
        BY <1>3, <4>1
      <4> QED BY <1>2, <1>4, <1>6, <2>1, <3>2, <3>4, <4>2
    <3> QED BY <3>3, <3>4
  <2> QED BY <2>2, <2>3
<1>8. RanksUpTo(after, X, n + 1)
  BY <1>7 DEF RanksUpTo
<1> QED BY <1>1, <1>2, <1>3, <1>4, <1>8

LEMMA UnitIndexed ==
  ASSUME NEW v, UnitsFit(v.units, v.size), NEW blocks \in Nat, NEW n \in Nat, n < Len(v.units),
         n \div 8 + 1 \in 1 .. blocks, NEW s, IndexedUpTo(s, v.units, v.size, blocks, n)
  PROVE  IndexedUpTo(IndexUnit(s, v, n), v.units, v.size, blocks, n + 1)
<1>1. PICK t, X, Y : t = IndexUnit(s, v, n) /\ X = OnesOf(v.units) /\ Y = ZerosOf(v.units, v.size)
  OBVIOUS
<1>2. /\ s \in Indexing(blocks) /\ s.ranks \in [1 .. blocks -> RankEntries]
      /\ s.ones = Count(X, n * UnitBits) /\ s.zeros = Count(Y, n * UnitBits)
      /\ SampledUpTo(s.select1s, X, n * UnitBits) /\ SampledUpTo(s.select0s, Y, n * UnitBits)
      /\ RanksUpTo(s.ranks, X, n)
  BY <1>1 DEF IndexedUpTo, Indexing
<1>3. /\ t \in Indexing(blocks)
      /\ t.ranks = [s.ranks EXCEPT ![n \div 8 + 1] = EntryAfter(s.ranks[n \div 8 + 1], n % 8, s.ones)]
      /\ t.select0s = Sampled(s.select0s, Slice(Y, n), s.zeros, n * UnitBits)
      /\ t.select1s = Sampled(s.select1s, Slice(X, n), s.ones, n * UnitBits)
      /\ t.zeros = s.zeros + Cardinality(Slice(Y, n)) /\ t.ones = s.ones + Cardinality(Slice(X, n))
  <2>1. TurnOf(t, s, X, Y, n, blocks)
    BY <1>1, <1>2, TurnIs
  <2> QED BY <2>1 DEF TurnOf
<1>4. /\ t.ones = Count(X, (n + 1) * UnitBits) /\ t.zeros = Count(Y, (n + 1) * UnitBits)
  <2>1. /\ Count(X, (n + 1) * UnitBits) = Count(X, n * UnitBits) + Cardinality(Slice(X, n))
        /\ Count(Y, (n + 1) * UnitBits) = Count(Y, n * UnitBits) + Cardinality(Slice(Y, n))
    BY CountOfUnit
  <2> QED BY <1>2, <1>3, <2>1
<1>5. SampledUpTo(t.select1s, X, (n + 1) * UnitBits) /\ SampledUpTo(t.select0s, Y, (n + 1) * UnitBits)
  <2>1. SampledUpTo(Sampled(s.select1s, Slice(X, n), Count(X, n * UnitBits), n * UnitBits),
                    X, (n + 1) * UnitBits)
    BY <1>2, SampleDue
  <2>2. SampledUpTo(Sampled(s.select0s, Slice(Y, n), Count(Y, n * UnitBits), n * UnitBits),
                    Y, (n + 1) * UnitBits)
    BY <1>2, SampleDue
  <2>3. /\ t.select1s = Sampled(s.select1s, Slice(X, n), Count(X, n * UnitBits), n * UnitBits)
        /\ t.select0s = Sampled(s.select0s, Slice(Y, n), Count(Y, n * UnitBits), n * UnitBits)
    BY Zenon, <1>2, <1>3
  <2> QED BY Zenon, <2>1, <2>2, <2>3
<1>6. RanksUpTo(t.ranks, X, n + 1)
  <2>1. PICK ranks \in [1 .. blocks -> RankEntries] : ranks = s.ranks /\ RanksUpTo(ranks, X, n)
    BY Zenon, <1>2
  <2>2. RanksUpTo([ranks EXCEPT ![n \div 8 + 1] =
                     EntryAfter(ranks[n \div 8 + 1], n % 8, Count(X, n * UnitBits))], X, n + 1)
    BY Zenon, <2>1, RanksTurn
  <2>3. t.ranks = [ranks EXCEPT ![n \div 8 + 1] =
                     EntryAfter(ranks[n \div 8 + 1], n % 8, Count(X, n * UnitBits))]
    BY Zenon, <1>2, <1>3, <2>1
  <2> QED BY Zenon, <2>2, <2>3
<1> QED BY <1>1, <1>3, <1>4, <1>5, <1>6 DEF IndexedUpTo

BlocksOf(span) == (span \div BlockBits) + (IF span % BlockBits # 0 THEN 1 ELSE 0) + 1

StartOf(blocks) ==
  [ranks |-> [r \in 1 .. blocks |-> EmptyRank],
   select0s |-> << >>, select1s |-> << >>, zeros |-> 0, ones |-> 0]

IndexLoop(f, v) ==
  f = [n \in 0 .. Len(v.units) |-> IF n = 0 THEN StartOf(BlocksOf(v.size)) ELSE IndexUnit(f[n - 1], v, n - 1)]

BlocksFor(span, n) ==
  /\ n \in Nat /\ BlocksOf(span) = n + 1 /\ n * BlockBits \in Nat
  /\ span <= n * BlockBits /\ n * BlockBits < span + BlockBits
  /\ span % BlockBits = 0 => span = n * BlockBits

LEMMA BlocksFit ==
  ASSUME NEW span \in Nat
  PROVE  \E n \in Nat : BlocksFor(span, n)
<1>1. PICK d \in Nat \ {0} : d = BlockBits
  BY BlocksAre
<1>2. PICK q \in Nat, e \in Nat : q = span \div d /\ e = span % d /\ e < d /\ span = q * d + e
  <2>1. span \div d \in Nat /\ span % d \in Nat /\ span % d < d /\ span = (span \div d) * d + (span % d)
    BY QuotientParts
  <2> QED BY <2>1
<1>3. q * d \in Nat /\ (q + 1) * d = q * d + d /\ q + 1 \in Nat /\ (q + 1) * d \in Nat
  OBVIOUS
<1>4. CASE e = 0
  <2>1. BlocksOf(span) = q + 1
    BY <1>1, <1>2, <1>4 DEF BlocksOf
  <2> QED BY <1>1, <1>2, <1>3, <1>4, <2>1 DEF BlocksFor
<1>5. CASE e # 0
  <2>1. BlocksOf(span) = (q + 1) + 1
    BY <1>1, <1>2, <1>5 DEF BlocksOf
  <2>2. span <= (q + 1) * d /\ (q + 1) * d < span + d
    <3>1. PICK x \in Nat, y \in Nat : x = q * d /\ y = (q + 1) * d /\ y = x + d /\ span = x + e
      BY <1>2, <1>3
    <3>2. span <= y /\ y < span + d
      BY <1>2, <1>5, <3>1
    <3> QED BY <3>1, <3>2
  <2>3. span % d # 0
    BY <1>2, <1>5
  <2> QED BY <1>1, <1>3, <2>1, <2>2, <2>3 DEF BlocksFor
<1> QED BY <1>4, <1>5

LEMMA StartIs ==
  ASSUME NEW blocks \in Nat, NEW units, NEW span
  PROVE  IndexedUpTo(StartOf(blocks), units, span, blocks, 0)
<1>1. EmptyRank \in RankEntries
  BY DEF EmptyRank, RankEntries, BlockUnits
<1>2. StartOf(blocks) \in Indexing(blocks)
  BY <1>1 DEF StartOf, Indexing
<1>3. 0 * UnitBits = 0
  OBVIOUS
<1>4. Count(OnesOf(units), 0) = 0 /\ Count(ZerosOf(units, span), 0) = 0
  BY CountStep
<1>5. ASSUME NEW X, Count(X, 0) = 0 PROVE SampledUpTo(<< >>, X, 0)
  <2>1. Len(<< >>) = 0 /\ << >> \in Seq(Nat) /\ 1 .. 0 = {} /\ 0 * BlockBits = 0
    BY BlocksAre
  <2> QED BY <1>5, <2>1 DEF SampledUpTo
<1>6. RanksUpTo(StartOf(blocks).ranks, OnesOf(units), 0)
  BY DEF RanksUpTo
<1>7. /\ StartOf(blocks).ones = 0 /\ StartOf(blocks).zeros = 0
      /\ StartOf(blocks).select0s = << >> /\ StartOf(blocks).select1s = << >>
  BY DEF StartOf
<1> QED BY <1>2, <1>3, <1>4, <1>5, <1>6, <1>7 DEF IndexedUpTo

LEMMA IndexLoopExists ==
  ASSUME NEW v, UnitsFit(v.units, v.size)
  PROVE  \E f : IndexLoop(f, v)
<1>1. PICK L, blocks, start : /\ L \in Nat /\ blocks \in Nat /\ L = Len(v.units)
                              /\ blocks = BlocksOf(v.size) /\ start = StartOf(blocks)
  <2>1. v.units \in Seq(SUBSET UnitPlaces) /\ v.size \in Nat
    BY DEF UnitsFit
  <2>2. PICK n \in Nat : BlocksOf(v.size) = n + 1
    BY <2>1, BlocksFit DEF BlocksFor
  <2>3. Len(v.units) \in Nat /\ n + 1 \in Nat
    BY <2>1, LenNat
  <2> QED BY <2>2, <2>3
<1> DEFINE S == Indexing(blocks)
           turn == [x \in (1 .. L) \X S |-> IndexUnit(x[2], v, x[1] - 1)]
<1>2. start \in S
  BY <1>1, StartIs DEF IndexedUpTo
<1>3. turn \in [(1 .. L) \X S -> S]
  <2>1. ASSUME NEW k \in 1 .. L, NEW s \in S PROVE IndexUnit(s, v, k - 1) \in S
    <3>1. k - 1 \in Nat /\ k - 1 < Len(v.units)
      BY <1>1
    <3>2. TurnOf(IndexUnit(s, v, k - 1), s, OnesOf(v.units), ZerosOf(v.units, v.size), k - 1, blocks)
      BY <1>1, <3>1, TurnIs
    <3> QED BY <3>2 DEF TurnOf
  <2> HIDE DEF S
  <2> QED BY <1>1, <2>1
<1>4. PICK g \in [0 .. L -> S] : Loop(g, L, start, turn)
  <2> HIDE DEF turn, S
  <2> QED BY <1>1, <1>2, <1>3, LoopExists
<1>5. ASSUME NEW k \in 0 .. L, k # 0 PROVE turn[<<k, g[k - 1]>>] = IndexUnit(g[k - 1], v, k - 1)
  <2>1. k \in 1 .. L /\ k - 1 \in 0 .. L
    BY <1>1, <1>5
  <2> HIDE DEF S
  <2>2. g[k - 1] \in S
    BY <2>1
  <2> QED BY <2>1, <2>2
<1>6. g = [k \in 0 .. L |-> IF k = 0 THEN start ELSE IndexUnit(g[k - 1], v, k - 1)]
  <2> HIDE DEF turn, S
  <2> QED BY <1>4, <1>5 DEF Loop
<1> HIDE DEF S, turn
<1> QED BY <1>1, <1>6 DEF IndexLoop

(* How far a unit is behind in its block.                                  *)
LEMMA UnitHasBlock ==
  ASSUME NEW L \in Nat, NEW span \in Nat, NEW n \in Nat, L * UnitBits < span + UnitBits,
         span <= n * BlockBits, NEW u \in Nat, u < L
  PROVE  u * UnitBits < span /\ u \div 8 < n
<1>1. /\ u * UnitBits \in Nat /\ (u \div 8) * BlockBits <= u * UnitBits /\ u \div 8 \in Nat
      /\ (u \div 8) * BlockBits \in Nat /\ n * BlockBits \in Nat /\ L * UnitBits \in Nat
  BY BlocksAre
<1>2. u * UnitBits + UnitBits <= L * UnitBits
  BY ProductGrows
<1>3. u * UnitBits < span
  BY <1>1, <1>2
<1>4. (u \div 8) * BlockBits < n * BlockBits
  BY <1>1, <1>3
<1>5. u \div 8 < n
  <2>1. SUFFICES ASSUME n <= u \div 8 PROVE FALSE
    BY <1>1
  <2>2. n * BlockBits <= (u \div 8) * BlockBits
    <3>1. BlockBits \in Nat
      BY BlocksAre
    <3> QED BY <1>1, <2>1, <3>1, ProductGrows
  <2> QED BY <1>1, <1>4, <2>2
<1> QED BY <1>3, <1>5

LEMMA LoopIndexes ==
  ASSUME NEW v, UnitsFit(v.units, v.size), NEW f, IndexLoop(f, v)
  PROVE  IndexedUpTo(f[Len(v.units)], v.units, v.size, BlocksOf(v.size), Len(v.units))
<1>1. PICK L \in Nat, nb \in Nat, blocks \in Nat :
        /\ L = Len(v.units) /\ blocks = BlocksOf(v.size) /\ blocks = nb + 1 /\ v.size \in Nat
        /\ L * UnitBits < v.size + UnitBits /\ v.size <= nb * BlockBits
  <2>1. v.units \in Seq(SUBSET UnitPlaces) /\ v.size \in Nat /\ Len(v.units) * UnitBits < v.size + UnitBits
    BY DEF UnitsFit
  <2>2. PICK n \in Nat : BlocksOf(v.size) = n + 1 /\ v.size <= n * BlockBits
    BY <2>1, BlocksFit DEF BlocksFor
  <2>3. Len(v.units) \in Nat /\ n + 1 \in Nat
    BY <2>1, LenNat
  <2> QED BY <2>1, <2>2, <2>3
<1> DEFINE T == {k \in 0 .. L : IndexedUpTo(f[k], v.units, v.size, blocks, k)}
<1>2. 0 \in T
  <2>1. f[0] = StartOf(blocks) /\ 0 \in 0 .. L
    BY <1>1 DEF IndexLoop
  <2> QED BY <2>1, StartIs
<1>3. ASSUME NEW k \in 1 .. L, k - 1 \in T PROVE k \in T
  <2>1. PICK n \in Nat : n = k - 1 /\ k = n + 1 /\ n < L /\ k \in 0 .. L /\ k # 0
    <3>1. k - 1 \in Nat /\ k = (k - 1) + 1 /\ k - 1 < L
      OBVIOUS
    <3> QED BY <3>1
  <2>2. IndexedUpTo(f[n], v.units, v.size, blocks, n)
    BY <1>3, <2>1
  <2>3. f[k] = IndexUnit(f[n], v, n)
    BY <1>1, <2>1 DEF IndexLoop
  <2>4. n \div 8 + 1 \in 1 .. blocks
    <3>1. n \div 8 < nb
      BY <1>1, <2>1, UnitHasBlock
    <3>2. n \div 8 \in Nat
      BY BlocksAre
    <3> QED BY <1>1, <3>1, <3>2
  <2>5. IndexedUpTo(IndexUnit(f[n], v, n), v.units, v.size, blocks, n + 1)
    <3>1. n < Len(v.units)
      BY <1>1, <2>1
    <3> QED BY <2>2, <2>4, <3>1, UnitIndexed
  <2> QED BY <2>1, <2>3, <2>5
<1>4. \A k \in 0 .. L : k \in T
  <2> HIDE DEF T
  <2> QED BY <1>2, <1>3, AllTurns
<1> QED BY <1>1, <1>4

-----------------------------------------------------------------------------
(* The entry of a partial block, filled up behind its last unit.           *)
RestEntry(rank, k, ones) ==
  [rank EXCEPT !.rel =
     [j \in 1 .. 7 |-> IF j > k THEN (ones - rank.abs) % TwoTo[FieldSize(j)] ELSE rank.rel[j]]]

LEMMA RestEntryIs ==
  ASSUME NEW rank \in RankEntries, NEW k \in 0 .. 7, NEW ones \in Int
  PROVE  /\ RestEntry(rank, k, ones) \in RankEntries /\ RestEntry(rank, k, ones).abs = rank.abs
         /\ \A j \in 1 .. 7 : RestEntry(rank, k, ones).rel[j]
                                = IF j > k THEN (ones - rank.abs) % TwoTo[FieldSize(j)] ELSE rank.rel[j]
<1>1. rank \in [abs : Int, rel : [1 .. 7 -> Int]] /\ RankEntries = [abs : Int, rel : [1 .. 7 -> Int]]
  BY DEF RankEntries, BlockUnits
<1>2. PICK rel : rel = [j \in 1 .. 7 |-> IF j > k THEN (ones - rank.abs) % TwoTo[FieldSize(j)] ELSE rank.rel[j]]
  OBVIOUS
<1>3. rel \in [1 .. 7 -> Int]
  <2>1. ASSUME NEW j \in 1 .. 7
        PROVE  (IF j > k THEN (ones - rank.abs) % TwoTo[FieldSize(j)] ELSE rank.rel[j]) \in Int
    <3>1. TwoTo[FieldSize(j)] \in Nat \ {0} /\ ones - rank.abs \in Int
      BY <1>1, FieldPositive
    <3>2. (ones - rank.abs) % TwoTo[FieldSize(j)] \in Int /\ rank.rel[j] \in Int
      BY <1>1, <3>1
    <3> QED BY <3>2
  <2> QED BY <1>2, <2>1
<1>4. RestEntry(rank, k, ones) = [rank EXCEPT !.rel = rel]
  BY <1>2 DEF RestEntry
<1>5. /\ [rank EXCEPT !.rel = rel] \in [abs : Int, rel : [1 .. 7 -> Int]]
      /\ [rank EXCEPT !.rel = rel].abs = rank.abs
      /\ [rank EXCEPT !.rel = rel].rel = rel
  BY <1>1, <1>3
<1> QED BY <1>1, <1>2, <1>4, <1>5

BlocksFilled(ranks, X, n) ==
  /\ ranks \in [1 .. n + 1 -> RankEntries]
  /\ \A b \in 0 .. n - 1 :
       /\ ranks[b + 1].abs = Count(X, b * BlockBits)
       /\ \A k \in 1 .. 7 : ranks[b + 1].rel[k] = Count(X, (b * 8 + k) * UnitBits) - Count(X, b * BlockBits)

LEMMA RestIs ==
  ASSUME NEW v, NEW units, NEW span, v.units = units, v.size = span, UnitsFit(units, span),
         NEW n \in Nat, BlocksFor(span, n),
         NEW ranks \in [1 .. n + 1 -> RankEntries], RanksUpTo(ranks, OnesOf(units), Len(units)),
         NEW ones, ones = Count(OnesOf(units), span)
  PROVE  BlocksFilled(RestFilled(ranks, v, ones), OnesOf(units), n)
<1>1. PICK X, L, d : X = OnesOf(units) /\ L = Len(units) /\ d = BlockBits
  OBVIOUS
<1>2. /\ L \in Nat /\ span \in Nat /\ span <= L * UnitBits /\ L * UnitBits < span + UnitBits
      /\ d \in Nat \ {0} /\ ones \in Nat
  <2>1. units \in Seq(SUBSET UnitPlaces)
    BY DEF UnitsFit
  <2>2. L \in Nat /\ span \in Nat /\ span <= L * UnitBits /\ L * UnitBits < span + UnitBits
    BY <1>1, <2>1, LenNat DEF UnitsFit
  <2>3. Count(X, span) \in Nat
    BY <2>2, CountStep
  <2> QED BY <1>1, <2>2, <2>3, BlocksAre
<1>31. ASSUME NEW p \in Nat PROVE Count(X, p) \in Nat /\ (span <= p => Count(X, p) = ones)
  <2>1. Count(OnesOf(units), p) \in Nat
    BY CountStep
  <2>2. span <= p => Count(OnesOf(units), p) = Count(OnesOf(units), span)
    BY CountsAre
  <2> QED BY <1>1, <2>1, <2>2
<1>32. PICK nd \in Nat, Lu \in Nat : /\ nd = n * d /\ span <= nd /\ nd < span + d
                                  /\ Lu = L * UnitBits /\ span <= Lu /\ Lu < span + UnitBits
  <2>1. n * d \in Nat /\ L * UnitBits \in Nat
    BY <1>2
  <2> QED BY <1>1, <1>2, <2>1 DEF BlocksFor
<1>33. span % d = 0 => span = nd
  BY <1>1, <1>32 DEF BlocksFor
<1>3. ASSUME NEW b \in 0 .. n - 1
      PROVE  /\ b \in Nat /\ b * d \in Nat /\ b * d < span /\ ranks[b + 1] \in RankEntries
             /\ ranks[b + 1].abs = Count(X, b * d)
  <2>1. b \in Nat /\ b < n /\ b + 1 \in 1 .. n + 1
    OBVIOUS
  <2>2. b * d \in Nat /\ b * d + d <= n * d
    BY <1>2, <2>1, ProductGrows
  <2>3. n * d \in Nat
    BY <1>2
  <2>4. b * d < span
    <3>1. PICK bd \in Nat : bd = b * d /\ bd + d <= nd
      BY <1>32, <2>2
    <3>2. bd < span
      BY <1>2, <1>32, <3>1
    <3> QED BY <3>1, <3>2
  <2>5. PICK u \in Nat : u = b * 8 /\ u \div 8 = b /\ u * UnitBits = b * d
    <3>1. b * 8 \in Nat /\ (b * 8) \div 8 = b /\ b * BlockBits = (b * 8) * UnitBits
      BY <2>1, BlocksAre
    <3> QED BY <1>1, <3>1
  <2>6. u < L
    <3>1. SUFFICES ASSUME L <= u PROVE FALSE
      BY <1>2
    <3>2. L * UnitBits \in Nat /\ L * UnitBits <= u * UnitBits
      BY <1>2, <3>1, ProductGrows
    <3>3. PICK bd \in Nat : bd = b * d /\ bd < span /\ Lu <= bd
      BY <1>32, <2>2, <2>4, <2>5, <3>2
    <3> QED BY <1>2, <1>32, <3>3
  <2>7. ranks[b + 1].abs = Count(X, b * d)
    BY <1>1, <2>5, <2>6 DEF RanksUpTo
  <2> QED BY <2>1, <2>2, <2>4, <2>7
(* A unit that is there.                                                   *)
<1>4. ASSUME NEW b \in 0 .. n - 1, NEW k \in 1 .. 7, b * 8 + k < L
      PROVE  ranks[b + 1].rel[k] = Count(X, (b * 8 + k) * UnitBits) - Count(X, b * d)
  <2>1. PICK u \in Nat : u = b * 8 + k /\ u \div 8 = b /\ u % 8 = k /\ k # 0
    OBVIOUS
  <2> QED BY <1>1, <1>4, <2>1 DEF RanksUpTo
(* A place behind the last unit: the block is the last one.                *)
<1>5. ASSUME NEW b \in 0 .. n - 1, NEW k \in 1 .. 7, ~ (b * 8 + k < L)
      PROVE  /\ span % d # 0 /\ b = n - 1
             /\ (ones - ranks[b + 1].abs) % TwoTo[FieldSize(k)]
                  = Count(X, (b * 8 + k) * UnitBits) - Count(X, b * d)
  <2>1. PICK u \in Nat : u = b * 8 + k /\ L <= u /\ u \div 8 = b
    <3>1. b * 8 + k \in Nat /\ (b * 8 + k) \div 8 = b
      OBVIOUS
    <3> QED BY <1>2, <1>5, <3>1
  <2>2. /\ L * UnitBits \in Nat /\ L * UnitBits <= u * UnitBits /\ u * UnitBits \in Nat
        /\ u * UnitBits + UnitBits <= b * d + d
    <3>1. L * UnitBits \in Nat /\ L * UnitBits <= u * UnitBits /\ u * UnitBits \in Nat
      BY <1>2, <2>1, ProductGrows
    <3>2. u * UnitBits + UnitBits <= b * d + d
      BY <1>1, <2>1, BlocksAre
    <3> QED BY <3>1, <3>2
  <2>3. span <= u * UnitBits /\ span < b * d + d /\ b * d \in Nat
    <3>1. b * d \in Nat
      BY <1>3
    <3>2. PICK bd \in Nat, uu \in Nat : bd = b * d /\ uu = u * UnitBits /\ Lu <= uu /\ uu + UnitBits <= bd + d
      BY <1>32, <2>2, <3>1
    <3>3. span <= uu /\ span < bd + d
      BY <1>2, <1>32, <3>2
    <3> QED BY <3>2, <3>3
  <2>4. b \in Nat /\ (b + 1) * d = b * d + d
    BY <1>2
  <2>5. b = n - 1
    <3>1. SUFFICES ASSUME b + 1 < n PROVE FALSE
      BY <2>4
    <3>2. (b + 1) * d + d <= n * d /\ n * d \in Nat
      BY <1>2, <2>4, <3>1, ProductGrows
    <3>3. PICK bd \in Nat : bd = b * d /\ bd + d + d <= nd /\ span < bd + d
      BY <1>32, <2>3, <2>4, <3>2
    <3> QED BY <1>2, <1>32, <3>3
  <2>6. span % d # 0
    <3>1. n = b + 1
      BY <2>4, <2>5
    <3>2. span < nd
      BY <1>32, <2>3, <2>4, <3>1
    <3> QED BY <1>2, <1>33, <3>2
  <2>7. Count(X, u * UnitBits) = ones
    BY <1>31, <2>2, <2>3
  <2>8. k \in 0 .. 7
    OBVIOUS
  <2>9. (Count(X, (b * 8 + k) * UnitBits) - Count(X, b * BlockBits)) % TwoTo[FieldSize(k)]
          = Count(X, (b * 8 + k) * UnitBits) - Count(X, b * BlockBits)
    BY <2>4, <2>8, CountInBlock
  <2> QED BY <1>1, <1>3, <2>1, <2>5, <2>6, <2>7, <2>9
<1>6. PICK filled : filled = RestFilled(ranks, v, ones)
  OBVIOUS
<1>7. CASE span % d = 0
  <2>1. filled = ranks
    BY <1>1, <1>6, <1>7 DEF RestFilled
  <2>2. ASSUME NEW b \in 0 .. n - 1, NEW k \in 1 .. 7
        PROVE  filled[b + 1].rel[k] = Count(X, (b * 8 + k) * UnitBits) - Count(X, b * d)
    BY <1>4, <1>5, <1>7, <2>1
  <2> QED BY <1>1, <1>3, <1>6, <2>1, <2>2 DEF BlocksFilled
<1>8. CASE span % d # 0
  <2>1. span # 0 /\ n # 0 /\ L # 0
    <3>1. span # 0
      <4>1. (0 * d + 0) % d = 0 /\ 0 * d + 0 = 0
        BY <1>2, QuotientIs
      <4> QED BY <1>8, <4>1
    <3>2. 0 * d = 0 /\ 0 * UnitBits = 0
      BY <1>2
    <3>3. n # 0
      BY <1>2, <1>32, <3>1, <3>2
    <3>4. L # 0
      BY <1>2, <1>32, <3>1, <3>2
    <3> QED BY <3>1, <3>3, <3>4
  <2>2. PICK m \in Nat, w \in Nat, z \in Nat :
          /\ n = m + 1 /\ m = n - 1 /\ L = w + 1 /\ w = L - 1
          /\ span = z + 1 /\ z = span - 1
    <3>1. /\ n - 1 \in Nat /\ n = (n - 1) + 1 /\ L - 1 \in Nat /\ L = (L - 1) + 1 /\ span - 1 \in Nat
          /\ span = (span - 1) + 1
      BY <1>2, <2>1
    <3> QED BY <3>1
  <2>3. z \div d = m
    <3>1. m * d \in Nat /\ (m + 1) * d = m * d + d
      BY <1>2
    <3>2. m * d <= z /\ z < (m + 1) * d
      <4>1. PICK md \in Nat : md = m * d /\ nd = md + d
        BY <1>32, <2>2, <3>1
      <4>2. md <= z /\ z < md + d
        BY <1>2, <1>32, <2>2, <4>1
      <4> QED BY <3>1, <4>1, <4>2
    <3> QED BY <1>2, <3>2, QuotientOf
  <2>4. z \div UnitBits = w
    <3>1. w * UnitBits \in Nat /\ (w + 1) * UnitBits = w * UnitBits + UnitBits
      OBVIOUS
    <3>2. w * UnitBits <= z /\ z < (w + 1) * UnitBits
      BY <1>2, <2>2, <3>1
    <3> QED BY <3>2, QuotientOf
  <2>5. w \div 8 = m
    <3>1. PICK r \in Nat, rd \in Nat, wu \in Nat :
            /\ r = w \div 8 /\ rd = r * d /\ wu = w * UnitBits /\ rd <= wu /\ wu + UnitBits <= rd + d
      BY <1>1, BlocksAre
    <3>2. (w + 1) * UnitBits = w * UnitBits + UnitBits /\ (r + 1) * d = r * d + d
      BY <1>2
    <3>3. Lu = wu + UnitBits
      BY <1>32, <2>2, <3>1, <3>2
    <3>4. rd <= z /\ z < rd + d
      BY <1>2, <1>32, <2>2, <3>1, <3>3
    <3>5. r * d <= z /\ z < (r + 1) * d
      BY <3>1, <3>2, <3>4
    <3>6. z \div d = r
      BY <1>2, <3>5, QuotientOf
    <3> QED BY <2>3, <3>1, <3>6
  <2>6. PICK k \in 0 .. 7 : k = w % 8 /\ w = m * 8 + k
    <3>1. w % 8 \in 0 .. 7 /\ w = (w \div 8) * 8 + (w % 8)
      BY BlocksAre
    <3> QED BY <2>5, <3>1
  <2>7. filled = [ranks EXCEPT ![m + 1] = RestEntry(ranks[m + 1], k, ones)]
    <3>1. v.size - 1 = z
      BY <2>2
    <3>2. filled = [ranks EXCEPT ![(v.size - 1) \div BlockBits + 1] =
                      RestEntry(ranks[(v.size - 1) \div BlockBits + 1], ((v.size - 1) \div UnitBits) % 8, ones)]
      <4>1. v.size % BlockBits # 0
        BY <1>1, <1>8
      <4>2. 1 .. 8 - 1 = 1 .. 7
        OBVIOUS
      <4> QED BY Zenon, <1>6, <4>1, <4>2 DEF RestFilled, RestEntry, BlockUnits
    <3>3. z \div BlockBits = m /\ (z \div UnitBits) % 8 = k
      BY <1>1, <2>3, <2>4, <2>6
    <3> QED BY <3>1, <3>2, <3>3
  <2>8. m \in 0 .. n - 1 /\ m + 1 \in 1 .. n + 1 /\ ranks[m + 1] \in RankEntries /\ ones \in Int
    <3>1. m \in 0 .. n - 1
      BY <2>2
    <3> QED BY <1>2, <1>3, <3>1
  <2>9. PICK entry : /\ entry = RestEntry(ranks[m + 1], k, ones)
                     /\ entry \in RankEntries /\ entry.abs = ranks[m + 1].abs
                     /\ \A j \in 1 .. 7 : entry.rel[j]
                          = IF j > k THEN (ones - ranks[m + 1].abs) % TwoTo[FieldSize(j)]
                            ELSE ranks[m + 1].rel[j]
    <3>1. /\ RestEntry(ranks[m + 1], k, ones) \in RankEntries
          /\ RestEntry(ranks[m + 1], k, ones).abs = ranks[m + 1].abs
          /\ \A j \in 1 .. 7 : RestEntry(ranks[m + 1], k, ones).rel[j]
               = IF j > k THEN (ones - ranks[m + 1].abs) % TwoTo[FieldSize(j)] ELSE ranks[m + 1].rel[j]
      <4>1. PICK rank \in RankEntries, j \in 0 .. 7, z1 \in Int : rank = ranks[m + 1] /\ j = k /\ z1 = ones
        BY <2>8
      <4>2. /\ RestEntry(rank, j, z1) \in RankEntries /\ RestEntry(rank, j, z1).abs = rank.abs
            /\ \A i \in 1 .. 7 : RestEntry(rank, j, z1).rel[i]
                 = IF i > j THEN (z1 - rank.abs) % TwoTo[FieldSize(i)] ELSE rank.rel[i]
        BY RestEntryIs
      <4> QED BY <4>1, <4>2
    <3> QED BY <3>1
  <2>10. /\ filled \in [1 .. n + 1 -> RankEntries] /\ filled[m + 1] = entry
         /\ \A b \in 0 .. n - 1 : b # m => filled[b + 1] = ranks[b + 1]
    <3>1. filled = [ranks EXCEPT ![m + 1] = entry]
      BY <2>7, <2>9
    <3>2. filled \in [1 .. n + 1 -> RankEntries] /\ filled[m + 1] = entry
      BY <2>8, <2>9, <3>1
    <3>3. ASSUME NEW b \in 0 .. n - 1, b # m PROVE filled[b + 1] = ranks[b + 1]
      <4>1. b + 1 \in 1 .. n + 1 /\ b + 1 # m + 1
        BY <3>3
      <4> QED BY <3>1, <4>1
    <3> QED BY <3>2, <3>3
  <2>11. ASSUME NEW b \in 0 .. n - 1
         PROVE  filled[b + 1].abs = Count(X, b * d)
    BY <1>3, <2>9, <2>10
  <2>12. ASSUME NEW b \in 0 .. n - 1, NEW j \in 1 .. 7
         PROVE  filled[b + 1].rel[j] = Count(X, (b * 8 + j) * UnitBits) - Count(X, b * d)
    <3>1. CASE b * 8 + j < L
      <4>1. ranks[b + 1].rel[j] = Count(X, (b * 8 + j) * UnitBits) - Count(X, b * d)
        BY <1>4, <3>1
      <4>2. b = m => ~ (j > k)
        BY <2>2, <2>6, <3>1
      <4> QED BY <2>9, <2>10, <4>1, <4>2
    <3>2. CASE ~ (b * 8 + j < L)
      <4>1. b = m /\ (ones - ranks[b + 1].abs) % TwoTo[FieldSize(j)]
                       = Count(X, (b * 8 + j) * UnitBits) - Count(X, b * d)
        BY <1>5, <2>2, <3>2
      <4>2. j > k
        BY <2>2, <2>6, <3>2, <4>1
      <4> QED BY <2>9, <2>10, <4>1, <4>2
    <3> QED BY <3>1, <3>2
  <2> QED BY <1>1, <1>6, <2>10, <2>11, <2>12 DEF BlocksFilled
<1> QED BY <1>7, <1>8

(* What an index holds of a vector: the counts before each block and each  *)
(* unit of a block, and the samples, with the size of the vector behind    *)
(* the last one.                                                           *)
RankTable(ranks, X, span, n) ==
  /\ ranks \in Seq(RankEntries) /\ Len(ranks) = n + 1
  /\ n \in Nat /\ span <= n * BlockBits /\ n * BlockBits < span + BlockBits
  /\ \A b \in 0 .. n : ranks[b + 1].abs = Count(X, b * BlockBits)
  /\ \A b \in 0 .. n - 1, k \in 1 .. 7 :
       ranks[b + 1].rel[k] = Count(X, (b * 8 + k) * UnitBits) - Count(X, b * BlockBits)

SampleTable(samples, X, span, n) ==
  /\ n \in Nat /\ Len(samples) = n + 1 /\ samples[n + 1] = span
  /\ \A j \in 1 .. n : /\ samples[j] \in Nat /\ samples[j] \in X /\ samples[j] < span
                       /\ Count(X, samples[j]) = (j - 1) * BlockBits
  /\ Count(X, span) <= n * BlockBits

IndexTrue(v) ==
  /\ v \in BitVectors /\ UnitsFit(v.units, v.size)
  /\ \E n : RankTable(v.ranks, OnesOf(v.units), v.size, n)
  /\ v.select0s # << >> => \E n : SampleTable(v.select0s, Unset(v.units), v.size, n)
  /\ v.select1s # << >> => \E n : SampleTable(v.select1s, OnesOf(v.units), v.size, n)

LEMMA TableFrom ==
  ASSUME NEW X \in SUBSET Nat, NEW span \in Nat, NEW p \in Nat, span <= p, \A q \in X : q < span,
         NEW samples, SampledUpTo(samples, X, p), Count(X, p) = Count(X, span)
  PROVE  SampleTable(Append(samples, span), X, span, Len(samples))
<1>1. PICK n \in Nat : n = Len(samples) /\ samples \in Seq(Nat)
  <2>1. samples \in Seq(Nat)
    BY DEF SampledUpTo
  <2> QED BY <2>1, LenNat
<1>2. PICK more : /\ more = Append(samples, span) /\ Len(more) = n + 1 /\ more[n + 1] = span
                  /\ \A j \in 1 .. n : more[j] = samples[j]
  <2>1. Len(Append(samples, span)) = n + 1 /\ Append(samples, span)[n + 1] = span
    BY <1>1
  <2>2. \A j \in 1 .. n : Append(samples, span)[j] = samples[j]
    BY <1>1
  <2> QED BY <2>1, <2>2
<1>3. ASSUME NEW j \in 1 .. n
      PROVE  more[j] \in Nat /\ more[j] \in X /\ more[j] < span /\ Count(X, more[j]) = (j - 1) * BlockBits
  <2>1. samples[j] \in Nat /\ samples[j] \in X /\ Count(X, samples[j]) = (j - 1) * BlockBits
    BY <1>1 DEF SampledUpTo
  <2> QED BY <1>2, <2>1
<1>4. Count(X, span) <= n * BlockBits
  BY <1>1 DEF SampledUpTo
<1> QED BY <1>1, <1>2, <1>3, <1>4 DEF SampleTable

LEMMA TableOfUnset ==
  ASSUME NEW units, NEW span, UnitsFit(units, span), NEW samples, NEW n,
         SampleTable(samples, ZerosOf(units, span), span, n)
  PROVE  SampleTable(samples, Unset(units), span, n)
<1>1. span \in Nat
  BY DEF UnitsFit
<1>2. \A p \in Nat : p <= span => Count(ZerosOf(units, span), p) = Count(Unset(units), p)
  BY CountsAre
<1>3. \A p : p \in ZerosOf(units, span) => p \in Unset(units)
  BY DEF ZerosOf, Unset
<1>4. ASSUME NEW j \in 1 .. n
      PROVE  /\ samples[j] \in Nat /\ samples[j] \in Unset(units) /\ samples[j] < span
             /\ Count(Unset(units), samples[j]) = (j - 1) * BlockBits
  <2>1. /\ samples[j] \in Nat /\ samples[j] \in ZerosOf(units, span) /\ samples[j] < span
        /\ Count(ZerosOf(units, span), samples[j]) = (j - 1) * BlockBits
    BY DEF SampleTable
  <2>2. samples[j] <= span
    BY <1>1, <2>1
  <2> QED BY <1>2, <1>3, <2>1, <2>2
<1>5. Count(Unset(units), span) = Count(ZerosOf(units, span), span)
  BY <1>1, <1>2
<1> QED BY <1>4, <1>5 DEF SampleTable

(* The code's expression for the index, by its loop.                       *)
BuiltFrom(s, v, b0, b1) ==
  [v EXCEPT !.ranks = [RestFilled(s.ranks, v, s.ones) EXCEPT ![BlocksOf(v.size)].abs = s.ones],
            !.select0s = IF b0 THEN Append(s.select0s, v.size) ELSE << >>,
            !.select1s = IF b1 THEN Append(s.select1s, v.size) ELSE << >>]

LEMMA BuildIs ==
  ASSUME NEW v, UnitsFit(v.units, v.size), NEW b0, NEW b1
  PROVE  \E f : IndexLoop(f, v) /\ BuildIndex(v, b0, b1) = BuiltFrom(f[Len(v.units)], v, b0, b1)
<1> DEFINE f == CHOOSE g : IndexLoop(g, v)
<1>1. \E g : IndexLoop(g, v)
  BY IndexLoopExists
<1>2. IndexLoop(f, v)
  BY <1>1
<1>3. BuildIndex(v, b0, b1) = BuiltFrom(f[Len(v.units)], v, b0, b1)
  BY Zenon DEF BuildIndex, IndexLoop, StartOf, BlocksOf, BuiltFrom
<1> HIDE DEF f
<1> QED BY <1>2, <1>3

LEMMA IndexBuilt ==
  ASSUME NEW v \in Pushing, NEW b0 \in BOOLEAN, NEW b1 \in BOOLEAN
  PROVE  IndexTrue(BuildIndex(v, b0, b1))
<1>1. /\ v \in BitVectors /\ UnitsFit(v.units, v.size) /\ v.units \in Seq(SUBSET UnitPlaces) /\ v.size \in Nat
  <2>1. v \in BitVectors /\ UnitsFit(v.units, v.size)
    BY DEF Pushing
  <2> QED BY <2>1 DEF UnitsFit
<1>2. PICK f : IndexLoop(f, v) /\ BuildIndex(v, b0, b1) = BuiltFrom(f[Len(v.units)], v, b0, b1)
  BY <1>1, BuildIs
<1>3. PICK n \in Nat : BlocksFor(v.size, n)
  BY <1>1, BlocksFit
<1>31. PICK L, s, X, Y, filled :
        /\ L \in Nat /\ L = Len(v.units) /\ s = f[L] /\ X = OnesOf(v.units) /\ Y = ZerosOf(v.units, v.size)
        /\ filled = RestFilled(s.ranks, v, s.ones)
  <2>1. Len(v.units) \in Nat
    BY <1>1, LenNat
  <2> QED BY <2>1
<1>4. IndexedUpTo(s, v.units, v.size, n + 1, L)
  <2>1. IndexedUpTo(f[Len(v.units)], v.units, v.size, BlocksOf(v.size), Len(v.units))
    BY <1>1, <1>2, LoopIndexes
  <2>2. BlocksOf(v.size) = n + 1
    BY <1>3 DEF BlocksFor
  <2> QED BY <1>31, <2>1, <2>2
<1>5. /\ s.ranks \in [1 .. n + 1 -> RankEntries] /\ s.select0s \in Seq(Nat) /\ s.select1s \in Seq(Nat)
      /\ s.ones = Count(X, L * UnitBits)
      /\ SampledUpTo(s.select1s, X, L * UnitBits) /\ SampledUpTo(s.select0s, Y, L * UnitBits)
      /\ RanksUpTo(s.ranks, X, L)
  BY <1>3, <1>31, <1>4 DEF IndexedUpTo, Indexing
<1>6. PICK p \in Nat : p = L * UnitBits /\ v.size <= p
  BY <1>1, <1>3, <1>31 DEF UnitsFit
<1>7. Count(X, p) = Count(X, v.size) /\ Count(Y, p) = Count(Y, v.size) /\ Count(X, v.size) \in Nat
  <2>1. Count(OnesOf(v.units), p) = Count(OnesOf(v.units), v.size)
    BY <1>1, <1>6, CountsAre
  <2>2. Count(ZerosOf(v.units, v.size), p) = Count(ZerosOf(v.units, v.size), v.size)
    BY <1>1, <1>6, CountsAre
  <2>3. Count(X, v.size) \in Nat
    BY <1>1, CountStep
  <2> QED BY <1>31, <2>1, <2>2, <2>3
<1>8. s.ones = Count(X, v.size) /\ s.ones \in Nat
  BY <1>5, <1>6, <1>7
<1>9. /\ filled \in [1 .. n + 1 -> RankEntries]
      /\ \A b \in 0 .. n - 1 :
           /\ filled[b + 1].abs = Count(X, b * BlockBits)
           /\ \A k \in 1 .. 7 : filled[b + 1].rel[k]
                                  = Count(X, (b * 8 + k) * UnitBits) - Count(X, b * BlockBits)
  <2>1. PICK ranks, ones, units, span : /\ ranks = s.ranks /\ ones = s.ones /\ units = v.units /\ span = v.size
    OBVIOUS
  <2>2. /\ ranks \in [1 .. n + 1 -> RankEntries] /\ RanksUpTo(ranks, OnesOf(units), Len(units))
        /\ ones = Count(OnesOf(units), span) /\ UnitsFit(units, span) /\ v.units = units /\ v.size = span
        /\ BlocksFor(span, n)
    BY <1>1, <1>3, <1>31, <1>5, <1>8, <2>1
  <2>3. BlocksFilled(RestFilled(ranks, v, ones), OnesOf(units), n)
    BY <2>2, RestIs
  <2>4. filled = RestFilled(ranks, v, ones) /\ X = OnesOf(units)
    BY <1>31, <2>1
  <2> QED BY <2>3, <2>4 DEF BlocksFilled
<1>10. PICK ranks : ranks = [filled EXCEPT ![n + 1].abs = s.ones]
  OBVIOUS
<1>11. /\ ranks \in [1 .. n + 1 -> RankEntries] /\ ranks[n + 1].abs = s.ones
       /\ \A b \in 0 .. n - 1 : ranks[b + 1] = filled[b + 1]
  <2>1. PICK entry \in RankEntries : entry = [filled[n + 1] EXCEPT !.abs = s.ones] /\ entry.abs = s.ones
    <3>1. PICK e \in RankEntries : e = filled[n + 1]
      <4>1. n + 1 \in 1 .. n + 1
        OBVIOUS
      <4> QED BY <1>9, <4>1
    <3>2. e \in [abs : Int, rel : [1 .. 7 -> Int]] /\ RankEntries = [abs : Int, rel : [1 .. 7 -> Int]]
      BY DEF RankEntries, BlockUnits
    <3>3. PICK o \in Int : o = s.ones
      BY <1>8
    <3>4. [e EXCEPT !.abs = o] \in [abs : Int, rel : [1 .. 7 -> Int]] /\ [e EXCEPT !.abs = o].abs = o
      BY <3>2
    <3> QED BY <3>1, <3>2, <3>3, <3>4
  <2>2. ranks = [filled EXCEPT ![n + 1] = entry]
    BY <1>10, <2>1
  <2>3. ranks \in [1 .. n + 1 -> RankEntries]
    BY <1>9, <2>2
  <2>4. ranks[n + 1] = entry
    BY <1>9, <2>2
  <2>5. ASSUME NEW b \in 0 .. n - 1 PROVE ranks[b + 1] = filled[b + 1]
    <3>1. b + 1 \in 1 .. n + 1 /\ b + 1 # n + 1
      OBVIOUS
    <3> QED BY <1>9, <2>2, <3>1
  <2> QED BY <2>1, <2>3, <2>4, <2>5
<1>12. RankTable(ranks, X, v.size, n)
  <2>1. ranks \in Seq(RankEntries) /\ Len(ranks) = n + 1
    <3>1. n + 1 \in Nat
      OBVIOUS
    <3> QED BY <1>11, <3>1, SeqOfFunction
  <2>2. ASSUME NEW b \in 0 .. n PROVE ranks[b + 1].abs = Count(X, b * BlockBits)
    <3>1. CASE b = n
      <4>1. Count(X, n * BlockBits) = Count(X, v.size)
        <5>1. PICK q \in Nat : q = n * BlockBits /\ v.size <= q
          BY <1>3 DEF BlocksFor
        <5>2. Count(OnesOf(v.units), q) = Count(OnesOf(v.units), v.size)
          BY <1>1, <5>1, CountsAre
        <5> QED BY <1>31, <5>1, <5>2
      <4> QED BY <1>8, <1>11, <3>1, <4>1
    <3>2. CASE b # n
      <4>1. b \in 0 .. n - 1
        BY <3>2
      <4> QED BY <1>9, <1>11, <4>1
    <3> QED BY <3>1, <3>2
  <2>3. \A b \in 0 .. n - 1, k \in 1 .. 7 :
          ranks[b + 1].rel[k] = Count(X, (b * 8 + k) * UnitBits) - Count(X, b * BlockBits)
    <3>1. ASSUME NEW b \in 0 .. n - 1, NEW k \in 1 .. 7
          PROVE  ranks[b + 1].rel[k] = Count(X, (b * 8 + k) * UnitBits) - Count(X, b * BlockBits)
      <4>1. ranks[b + 1] = filled[b + 1]
        BY <1>11
      <4>2. filled[b + 1].rel[k] = Count(X, (b * 8 + k) * UnitBits) - Count(X, b * BlockBits)
        BY <1>9
      <4> QED BY <4>1, <4>2
    <3> QED BY <3>1
  <2>4. v.size <= n * BlockBits /\ n * BlockBits < v.size + BlockBits
    BY <1>3 DEF BlocksFor
  <2> QED BY <2>1, <2>2, <2>3, <2>4 DEF RankTable
<1>13. SampleTable(Append(s.select1s, v.size), X, v.size, Len(s.select1s))
  <2>1. X \in SUBSET Nat /\ \A q \in X : q < v.size
    BY <1>1, <1>3, <1>31 DEF OnesOf, UnitsFit
  <2>2. SampledUpTo(s.select1s, X, p)
    BY <1>5, <1>6
  <2> QED BY <1>1, <1>6, <1>7, <2>1, <2>2, TableFrom
<1>14. SampleTable(Append(s.select0s, v.size), Unset(v.units), v.size, Len(s.select0s))
  <2>1. Y \in SUBSET Nat /\ \A q \in Y : q < v.size
    BY <1>3, <1>31 DEF ZerosOf
  <2>2. SampledUpTo(s.select0s, Y, p)
    BY <1>5, <1>6
  <2>3. SampleTable(Append(s.select0s, v.size), Y, v.size, Len(s.select0s))
    BY <1>1, <1>6, <1>7, <2>1, <2>2, TableFrom
  <2> QED BY <1>1, <1>3, <1>31, <2>3, TableOfUnset
<1>141. BuildIndex(v, b0, b1)
          = [v EXCEPT !.ranks = ranks,
                      !.select0s = IF b0 THEN Append(s.select0s, v.size) ELSE << >>,
                      !.select1s = IF b1 THEN Append(s.select1s, v.size) ELSE << >>]
  <2>1. /\ BuildIndex(v, b0, b1) = BuiltFrom(s, v, b0, b1)
        /\ ranks = [RestFilled(s.ranks, v, s.ones) EXCEPT ![BlocksOf(v.size)].abs = s.ones]
    <3>1. BlocksOf(v.size) = n + 1
      BY <1>3 DEF BlocksFor
    <3> QED BY <1>2, <1>31, <1>10, <3>1
  <2> QED BY Zenon, <2>1 DEF BuiltFrom
<1>15. PICK w, t0, t1 :
         /\ w = BuildIndex(v, b0, b1) /\ w = [v EXCEPT !.ranks = ranks, !.select0s = t0, !.select1s = t1]
         /\ t0 = (IF b0 THEN Append(s.select0s, v.size) ELSE << >>)
         /\ t1 = (IF b1 THEN Append(s.select1s, v.size) ELSE << >>)
  BY Zenon, <1>141
<1>16. t0 \in Seq(Nat) /\ t1 \in Seq(Nat) /\ ranks \in Seq(RankEntries)
  BY <1>1, <1>5, <1>12, <1>15 DEF RankTable
<1>17. /\ w \in BitVectors /\ w.units = v.units /\ w.size = v.size /\ w.ranks = ranks
       /\ w.select0s = t0 /\ w.select1s = t1
  <2>1. v \in [units : Seq(SUBSET UnitPlaces), size : Nat, ones : Nat, ranks : Seq(RankEntries),
               select0s : Seq(Nat), select1s : Seq(Nat)]
    BY <1>1 DEF BitVectors
  <2>2. w \in [units : Seq(SUBSET UnitPlaces), size : Nat, ones : Nat, ranks : Seq(RankEntries),
               select0s : Seq(Nat), select1s : Seq(Nat)]
    BY <1>15, <1>16, <2>1
  <2>3. /\ w.units = v.units /\ w.size = v.size /\ w.ranks = ranks
        /\ w.select0s = t0 /\ w.select1s = t1
    BY <1>15, <2>1
  <2> QED BY <2>2, <2>3 DEF BitVectors
<1>18. w.select0s # << >> => \E m : SampleTable(w.select0s, Unset(w.units), w.size, m)
  BY <1>14, <1>15, <1>17
<1>19. w.select1s # << >> => \E m : SampleTable(w.select1s, OnesOf(w.units), w.size, m)
  BY <1>3, <1>31, <1>13, <1>15, <1>17
<1>20. \E m : RankTable(w.ranks, OnesOf(w.units), w.size, m)
  BY <1>3, <1>31, <1>12, <1>17
<1> QED BY <1>1, <1>15, <1>17, <1>18, <1>19, <1>20 DEF IndexTrue

(* The counts of an entry, as they are read: before a unit that does not   *)
(* lie behind the end.                                                     *)
LEMMA RankRead ==
  ASSUME NEW X, NEW span \in Nat, NEW ranks, NEW n, RankTable(ranks, X, span, n),
         NEW u \in Nat, u * UnitBits <= span
  PROVE  /\ At(ranks, u \div 8).abs + Rel(At(ranks, u \div 8), u % 8) = Count(X, u * UnitBits)
         /\ u \div 8 \in 0 .. n
<1>1. PICK b \in Nat, k \in 0 .. 7, bd \in Nat, uu \in Nat, nd \in Nat :
        /\ b = u \div 8 /\ k = u % 8 /\ u = b * 8 + k /\ bd = b * BlockBits /\ uu = u * UnitBits
        /\ nd = n * BlockBits /\ span <= nd /\ uu <= span /\ uu = bd + k * UnitBits
  <2>1. /\ u \div 8 \in Nat /\ u % 8 \in 0 .. 7 /\ u = (u \div 8) * 8 + (u % 8)
        /\ u * UnitBits \in Nat /\ u * UnitBits = (u \div 8) * BlockBits + (u % 8) * UnitBits
        /\ (u \div 8) * BlockBits \in Nat
    BY BlocksAre
  <2>2. n \in Nat /\ span <= n * BlockBits
    BY DEF RankTable
  <2>3. n * BlockBits \in Nat
    BY <2>2, BlocksAre
  <2> QED BY <2>1, <2>2, <2>3
<1>2. n \in Nat /\ BlockBits \in Nat
  BY BlocksAre DEF RankTable
<1>3. b <= n
  <2>1. SUFFICES ASSUME n < b PROVE FALSE
    BY <1>2
  <2>2. n * BlockBits + BlockBits <= b * BlockBits
    BY <1>2, <2>1, ProductGrows
  <2>3. BlockBits > 0 /\ k * UnitBits \in Nat
    BY BlocksAre
  <2> QED BY <1>1, <1>2, <2>2, <2>3
<1>4. At(ranks, b).abs = Count(X, bd) /\ Count(X, bd) \in Nat
  <2>1. b \in 0 .. n
    BY <1>2, <1>3
  <2> QED BY <1>1, <2>1, CountStep DEF RankTable, At
<1>5. CASE k = 0
  <2>1. k * UnitBits = 0
    BY <1>5
  <2>2. uu = bd
    BY <1>1, <2>1
  <2> QED BY <1>1, <1>2, <1>3, <1>4, <1>5, <2>2 DEF Rel
<1>6. CASE k # 0
  <2>1. 0 < k * UnitBits /\ k * UnitBits \in Nat
    BY <1>6
  <2>2. bd < nd
    BY <1>1, <2>1
  <2>3. b # n
    BY <1>1, <2>2
  <2>4. b \in 0 .. n - 1 /\ k \in 1 .. 7
    BY <1>2, <1>3, <1>6, <2>3
  <2>5. At(ranks, b).rel[k] = Count(X, (b * 8 + k) * UnitBits) - Count(X, b * BlockBits)
    BY <2>4 DEF RankTable, At
  <2>6. Rel(At(ranks, b), k) = Count(X, uu) - Count(X, bd)
    BY <1>1, <1>6, <2>5 DEF Rel
  <2>7. Count(X, uu) \in Nat
    BY <1>1, CountStep
  <2> QED BY <1>1, <1>2, <1>3, <1>4, <2>6, <2>7
<1> QED BY <1>5, <1>6

(* IndexedRank1 counts the 1s before a position.                           *)
LEMMA RankAnswers ==
  ASSUME NEW v, IndexTrue(v), NEW i \in 0 .. v.size
  PROVE  IndexedRank1(v, i) = Count(OnesOf(v.units), i)
<1>1. PICK X, L, span :
        /\ X = OnesOf(v.units) /\ L = Len(v.units) /\ span = v.size /\ L \in Nat /\ span \in Nat
        /\ UnitsFit(v.units, span) /\ i \in Nat /\ i <= span /\ span <= L * UnitBits
  <2>1. v.units \in Seq(SUBSET UnitPlaces) /\ v.size \in Nat /\ v.size <= Len(v.units) * UnitBits
        /\ UnitsFit(v.units, v.size)
    BY DEF IndexTrue, UnitsFit
  <2>2. Len(v.units) \in Nat
    BY <2>1, LenNat
  <2>3. i \in Nat /\ i <= v.size
    BY <2>1
  <2> QED BY <2>1, <2>2, <2>3
<1>11. PICK n : RankTable(v.ranks, X, span, n)
  <2>1. \E n : RankTable(v.ranks, OnesOf(v.units), v.size, n)
    BY DEF IndexTrue
  <2> QED BY <1>1, <2>1
<1>2. PICK u \in Nat, e \in UnitPlaces, uu \in Nat :
        u = i \div UnitBits /\ e = i % UnitBits /\ uu = u * UnitBits /\ i = uu + e
  <2>1. /\ i \div UnitBits \in Nat /\ i % UnitBits \in UnitPlaces
        /\ i = (i \div UnitBits) * UnitBits + (i % UnitBits)
    BY <1>1, PlaceOf
  <2>2. (i \div UnitBits) * UnitBits \in Nat
    BY <2>1
  <2> QED BY <2>1, <2>2
<1>3. e \in Nat /\ e < UnitBits /\ e <= UnitBits
  BY DEF UnitPlaces
<1>4. i \div BlockBits = u \div 8
  <2>1. PICK r \in Nat, rd \in Nat : /\ r = u \div 8 /\ rd = r * BlockBits /\ rd <= uu
                                     /\ uu + UnitBits <= rd + BlockBits
                                     /\ (r + 1) * BlockBits = rd + BlockBits
    BY <1>2, BlocksAre
  <2>2. BlockBits \in Nat \ {0}
    BY BlocksAre
  <2>3. r * BlockBits <= i /\ i < (r + 1) * BlockBits
    BY <1>2, <1>3, <2>1, <2>2
  <2> QED BY <1>1, <2>1, <2>2, <2>3, QuotientOf
<1>5. At(v.ranks, u \div 8).abs + Rel(At(v.ranks, u \div 8), u % 8) = Count(X, uu)
  <2>1. uu <= span
    BY <1>1, <1>2, <1>3
  <2>2. u * UnitBits <= span
    BY <1>2, <2>1
  <2>3. At(v.ranks, u \div 8).abs + Rel(At(v.ranks, u \div 8), u % 8) = Count(X, u * UnitBits)
    BY <1>1, <1>11, <2>2, RankRead
  <2> QED BY <1>2, <2>3
<1>6. PICK unit : unit = IF e = 0 THEN {} ELSE At(v.units, u)
  OBVIOUS
<1>7. LowOnes(unit, e) = Count(Slice(X, u), e)
  <2>1. CASE e = 0
    <3>1. LowOnes({}, 0) = 0
      <4>1. {} \in SUBSET UnitPlaces /\ 0 \in Nat
        OBVIOUS
      <4>2. LowOnes({}, 0) = Count({}, 0)
        BY <4>1, UnitCounts
      <4> QED BY <4>2, CountStep
    <3>2. Count(Slice(X, u), 0) = 0
      BY CountStep
    <3> QED BY <1>6, <2>1, <3>1, <3>2
  <2>2. CASE e # 0
    <3>1. u < L
      <4>1. SUFFICES ASSUME L <= u PROVE FALSE
        BY <1>1
      <4>2. L * UnitBits <= u * UnitBits /\ L * UnitBits \in Nat
        BY <1>1, <4>1, ProductGrows
      <4>3. PICK Lu \in Nat : Lu = L * UnitBits /\ Lu <= uu /\ span <= Lu
        BY <1>1, <1>2, <4>2
      <4> QED BY <1>1, <1>2, <1>3, <2>2, <4>3
    <3>2. At(v.units, u) \in SUBSET UnitPlaces /\ Slice(OnesOf(v.units), u) = At(v.units, u)
      BY <1>1, <3>1, UnitsAre
    <3>3. unit = Slice(X, u) /\ unit \in SUBSET UnitPlaces
      BY <1>1, <1>6, <2>2, <3>2
    <3> QED BY <1>3, <3>3, UnitCounts
  <2> QED BY <2>1, <2>2
<1>8. Count(X, uu + e) = Count(X, uu) + Count(Slice(X, u), e)
  <2>1. Count(X, u * UnitBits + e) = Count(X, u * UnitBits) + Count(Slice(X, u), e)
    BY <1>3, CountInUnit
  <2> QED BY <1>2, <2>1
<1>9. IndexedRank1(v, i) = At(v.ranks, u \div 8).abs + Rel(At(v.ranks, u \div 8), u % 8) + LowOnes(unit, e)
  <2>1. IndexedRank1(v, i)
          = At(v.ranks, i \div BlockBits).abs
            + Rel(At(v.ranks, i \div BlockBits), (i \div UnitBits) % 8)
            + LowOnes(IF i % UnitBits = 0 THEN {} ELSE At(v.units, i \div UnitBits), i % UnitBits)
    BY Zenon DEF IndexedRank1, BlockUnits
  <2> QED BY <1>2, <1>4, <1>6, <2>1
<1> QED BY <1>1, <1>2, <1>5, <1>7, <1>8, <1>9

-----------------------------------------------------------------------------
(* The two searches of a block.                                            *)
StepLoop(f, i, before, begin, end) ==
  f = [n \in 0 .. end |->
        IF n = 0 THEN begin
        ELSE LET b == f[n - 1]
             IN IF i < before[b + 1] THEN b ELSE b + 1]

BisectLoop(f, i, before, begin, end) ==
  f = [n \in 0 .. end |->
        IF n = 0 THEN <<begin, end>>
        ELSE LET range == f[n - 1]
                 middle == (range[1] + range[2]) \div 2
             IN IF range[1] + 1 >= range[2] THEN range
                ELSE IF i < before[middle] THEN <<range[1], middle>> ELSE <<middle, range[2]>>]

LEMMA SearchesExist ==
  ASSUME NEW i, NEW before, NEW begin \in Nat, NEW end \in Nat
  PROVE  /\ \E f : StepLoop(f, i, before, begin, end)
         /\ \E f : BisectLoop(f, i, before, begin, end)
<1>1. \E f : StepLoop(f, i, before, begin, end)
  <2> DEFINE turn == [x \in (1 .. end) \X Nat |-> IF i < before[x[2] + 1] THEN x[2] ELSE x[2] + 1]
  <2>1. turn \in [(1 .. end) \X Nat -> Nat]
    OBVIOUS
  <2>2. PICK g \in [0 .. end -> Nat] : Loop(g, end, begin, turn)
    <3> HIDE DEF turn
    <3> QED BY <2>1, LoopExists
  <2>3. ASSUME NEW k \in 0 .. end, k # 0
        PROVE  turn[<<k, g[k - 1]>>] = IF i < before[g[k - 1] + 1] THEN g[k - 1] ELSE g[k - 1] + 1
    <3>1. k \in 1 .. end /\ k - 1 \in 0 .. end
      BY <2>3
    <3>2. g[k - 1] \in Nat
      BY <3>1
    <3> QED BY <3>1, <3>2
  <2>4. g = [n \in 0 .. end |-> IF n = 0 THEN begin
                                ELSE IF i < before[g[n - 1] + 1] THEN g[n - 1] ELSE g[n - 1] + 1]
    <3> HIDE DEF turn
    <3> QED BY <2>2, <2>3 DEF Loop
  <2> QED BY Zenon, <2>4 DEF StepLoop
<1>2. \E f : BisectLoop(f, i, before, begin, end)
  <2> DEFINE S == Nat \X Nat
             after(range) ==
               IF range[1] + 1 >= range[2] THEN range
               ELSE IF i < before[(range[1] + range[2]) \div 2]
                    THEN <<range[1], (range[1] + range[2]) \div 2>>
                    ELSE <<(range[1] + range[2]) \div 2, range[2]>>
             turn == [x \in (1 .. end) \X S |-> after(x[2])]
  <2>1. turn \in [(1 .. end) \X S -> S]
    <3>1. ASSUME NEW range \in S PROVE after(range) \in S
      <4>1. PICK x \in Nat, y \in Nat : range = <<x, y>>
        OBVIOUS
      <4>2. (x + y) \div 2 \in Nat
        OBVIOUS
      <4> QED BY <4>1, <4>2
    <3> HIDE DEF after, S
    <3> QED BY <3>1
  <2>2. PICK g \in [0 .. end -> S] : Loop(g, end, <<begin, end>>, turn)
    <3>1. <<begin, end>> \in S
      OBVIOUS
    <3>2. PICK first : first = <<begin, end>>
      OBVIOUS
    <3> HIDE DEF turn, S
    <3>3. \E g \in [0 .. end -> S] : Loop(g, end, first, turn)
      BY <2>1, <3>1, <3>2, LoopExists
    <3> QED BY <3>2, <3>3
  <2>3. ASSUME NEW k \in 0 .. end, k # 0 PROVE turn[<<k, g[k - 1]>>] = after(g[k - 1])
    <3>1. k \in 1 .. end /\ k - 1 \in 0 .. end
      BY <2>3
    <3> HIDE DEF after, S
    <3>2. g[k - 1] \in S
      BY <3>1
    <3> QED BY <3>1, <3>2
  <2>4. g = [n \in 0 .. end |-> IF n = 0 THEN <<begin, end>> ELSE after(g[n - 1])]
    <3> HIDE DEF turn, after, S
    <3> QED BY <2>2, <2>3 DEF Loop
  <2> QED BY Zenon, <2>4 DEF BisectLoop
<1> QED BY <1>1, <1>2

LEMMA StepFinds ==
  ASSUME NEW i \in Nat, NEW before, NEW begin \in Nat, NEW end \in Nat, begin < end,
         \A b \in 0 .. end : before[b] \in Nat, before[begin] <= i, i < before[end],
         NEW f, StepLoop(f, i, before, begin, end)
  PROVE  /\ f[end] \in Nat /\ begin <= f[end] /\ f[end] < end
         /\ before[f[end]] <= i /\ i < before[f[end] + 1]
<1> DEFINE T == {n \in 0 .. end : /\ f[n] \in Nat /\ begin <= f[n] /\ f[n] < end /\ before[f[n]] <= i
                                  /\ (i < before[f[n] + 1] \/ f[n] = begin + n)}
<1>1. 0 \in T
  <2>1. f[0] = begin
    BY DEF StepLoop
  <2> QED BY <2>1
<1>2. ASSUME NEW n \in 1 .. end, n - 1 \in T PROVE n \in T
  <2>1. PICK b : b = f[n - 1]
    OBVIOUS
  <2>2. /\ b \in Nat /\ begin <= b /\ b < end /\ before[b] <= i
        /\ (i < before[b + 1] \/ b = begin + (n - 1))
    BY <1>2, <2>1
  <2>3. n \in 0 .. end /\ n # 0
    OBVIOUS
  <2>4. f[n] = IF i < before[b + 1] THEN b ELSE b + 1
    BY <2>1, <2>3 DEF StepLoop
  <2>5. CASE i < before[b + 1]
    BY <2>2, <2>3, <2>4, <2>5
  <2>6. CASE ~ (i < before[b + 1])
    <3>1. f[n] = b + 1 /\ b + 1 # end /\ b + 1 \in 0 .. end
      BY <2>2, <2>4, <2>6
    <3>2. before[b + 1] <= i
      BY <2>6, <3>1
    <3> QED BY <2>2, <2>3, <2>6, <3>1, <3>2
  <2> QED BY <2>5, <2>6
<1>3. \A n \in 0 .. end : n \in T
  <2> HIDE DEF T
  <2> QED BY <1>1, <1>2, AllTurns
<1>4. end \in T
  <2>1. end \in 0 .. end
    OBVIOUS
  <2> HIDE DEF T
  <2> QED BY <1>3, <2>1
<1> QED BY <1>4

LEMMA BisectFinds ==
  ASSUME NEW i \in Nat, NEW before, NEW begin \in Nat, NEW end \in Nat, begin < end,
         \A b \in 0 .. end : before[b] \in Nat, before[begin] <= i, i < before[end],
         NEW f, BisectLoop(f, i, before, begin, end)
  PROVE  /\ f[end][1] \in Nat /\ begin <= f[end][1] /\ f[end][1] < end
         /\ before[f[end][1]] <= i /\ i < before[f[end][1] + 1]
<1> DEFINE T == {n \in 0 .. end : \E x, y \in Nat :
                    /\ f[n] = <<x, y>> /\ begin <= x /\ x < y /\ y <= end
                    /\ before[x] <= i /\ i < before[y] /\ (x + 1 >= y \/ y - x <= end - n)}
<1>1. 0 \in T
  <2>1. f[0] = <<begin, end>>
    BY DEF BisectLoop
  <2>2. 0 \in 0 .. end /\ end - begin <= end - 0
    OBVIOUS
  <2> QED BY <2>1, <2>2
<1>2. ASSUME NEW n \in 1 .. end, n - 1 \in T PROVE n \in T
  <2>1. PICK x \in Nat, y \in Nat :
          /\ f[n - 1] = <<x, y>> /\ begin <= x /\ x < y /\ y <= end
          /\ before[x] <= i /\ i < before[y] /\ (x + 1 >= y \/ y - x <= end - (n - 1))
    BY <1>2
  <2>2. n \in 0 .. end /\ n # 0
    OBVIOUS
  <2>3. PICK z \in Nat : z = (x + y) \div 2
    OBVIOUS
  <2>4. f[n] = IF x + 1 >= y THEN <<x, y>> ELSE IF i < before[z] THEN <<x, z>> ELSE <<z, y>>
    <3>1. f[n] = IF f[n - 1][1] + 1 >= f[n - 1][2] THEN f[n - 1]
                 ELSE IF i < before[(f[n - 1][1] + f[n - 1][2]) \div 2]
                      THEN <<f[n - 1][1], (f[n - 1][1] + f[n - 1][2]) \div 2>>
                      ELSE <<(f[n - 1][1] + f[n - 1][2]) \div 2, f[n - 1][2]>>
      BY <2>2 DEF BisectLoop
    <3>2. f[n - 1][1] = x /\ f[n - 1][2] = y
      BY <2>1
    <3> QED BY <2>1, <2>3, <3>1, <3>2
  <2>5. CASE x + 1 >= y
    <3>1. f[n] = <<x, y>>
      BY <2>4, <2>5
    <3> QED BY <2>1, <2>2, <2>5, <3>1
  <2>6. CASE ~ (x + 1 >= y)
    <3>1. x < z /\ z < y /\ z \in 0 .. end /\ y - x <= end - (n - 1)
      BY <2>1, <2>3, <2>6
    <3>2. CASE i < before[z]
      <4>1. f[n] = <<x, z>>
        BY <2>4, <2>6, <3>2
      <4>2. z - x <= end - n /\ z <= end
        BY <2>1, <3>1
      <4> QED BY <2>1, <2>2, <3>1, <3>2, <4>1, <4>2
    <3>3. CASE ~ (i < before[z])
      <4>1. f[n] = <<z, y>> /\ before[z] <= i
        BY <2>4, <2>6, <3>1, <3>3
      <4>2. y - z <= end - n /\ begin <= z
        BY <2>1, <3>1
      <4> QED BY <2>1, <2>2, <3>1, <4>1, <4>2
    <3> QED BY <3>2, <3>3
  <2> QED BY <2>5, <2>6
<1>3. \A n \in 0 .. end : n \in T
  <2> HIDE DEF T
  <2> QED BY <1>1, <1>2, AllTurns
<1>4. end \in T
  <2>1. end \in 0 .. end
    OBVIOUS
  <2> HIDE DEF T
  <2> QED BY <1>3, <2>1
<1>5. PICK x \in Nat, y \in Nat :
          /\ f[end] = <<x, y>> /\ begin <= x /\ x < y /\ y <= end
          /\ before[x] <= i /\ i < before[y] /\ (x + 1 >= y \/ y - x <= end - end)
  BY <1>4
<1>6. y = x + 1 /\ f[end][1] = x
  BY <1>5
<1> QED BY <1>5, <1>6

LEMMA BracketFinds ==
  ASSUME NEW i \in Nat, NEW samples, NEW before, NEW begin \in Nat, NEW end \in Nat,
         begin = At(samples, i \div BlockBits) \div BlockBits,
         end = (At(samples, i \div BlockBits + 1) + BlockBits - 1) \div BlockBits, begin < end,
         \A b \in 0 .. end : before[b] \in Nat, before[begin] <= i, i < before[end],
         NEW r, r = Bracketed(i, samples, before)
  PROVE  r \in Nat /\ begin <= r /\ r < end /\ before[r] <= i /\ i < before[r + 1]
<1> DEFINE b0 == At(samples, i \div BlockBits) \div BlockBits
           e0 == (At(samples, i \div BlockBits + 1) + BlockBits - 1) \div BlockBits
           f == CHOOSE g : StepLoop(g, i, before, b0, e0)
           h == CHOOSE g : BisectLoop(g, i, before, b0, e0)
<1>1. Bracketed(i, samples, before) = IF b0 + LinearBlocks >= e0 THEN f[e0] ELSE h[e0][1]
  BY Zenon DEF Bracketed, StepLoop, BisectLoop
<1>2. b0 = begin /\ e0 = end
  OBVIOUS
<1> HIDE DEF b0, e0
<1>3. StepLoop(f, i, before, begin, end)
  <2>1. \E g : StepLoop(g, i, before, begin, end)
    BY SearchesExist
  <2>2. \E g : StepLoop(g, i, before, b0, e0)
    BY <1>2, <2>1
  <2>3. StepLoop(f, i, before, b0, e0)
    BY <2>2
  <2> HIDE DEF f
  <2> QED BY <1>2, <2>3
<1>4. BisectLoop(h, i, before, begin, end)
  <2>1. \E g : BisectLoop(g, i, before, begin, end)
    BY SearchesExist
  <2>2. \E g : BisectLoop(g, i, before, b0, e0)
    BY <1>2, <2>1
  <2>3. BisectLoop(h, i, before, b0, e0)
    BY <2>2
  <2> HIDE DEF h
  <2> QED BY <1>2, <2>3
<1> HIDE DEF f, h
<1>5. /\ f[end] \in Nat /\ begin <= f[end] /\ f[end] < end
      /\ before[f[end]] <= i /\ i < before[f[end] + 1]
  BY <1>3, StepFinds
<1>6. /\ h[end][1] \in Nat /\ begin <= h[end][1] /\ h[end][1] < end
      /\ before[h[end][1]] <= i /\ i < before[h[end][1] + 1]
  BY <1>4, BisectFinds
<1>7. r = f[end] \/ r = h[end][1]
  BY <1>1, <1>2
<1> QED BY <1>5, <1>6, <1>7

LEMMA UnitOfFinds ==
  ASSUME NEW rest \in Nat, NEW before, \A k \in 1 .. 7 : before[k] \in Nat, NEW k, k = UnitOf(rest, before)
  PROVE  /\ k \in 0 .. 7
         /\ k # 0 => before[k] <= rest
         /\ k # 7 => rest < before[k + 1]
<1>1. /\ before[1] \in Nat /\ before[2] \in Nat /\ before[3] \in Nat /\ before[4] \in Nat
      /\ before[5] \in Nat /\ before[6] \in Nat /\ before[7] \in Nat
  OBVIOUS
<1>2. CASE rest < before[4]
  <2>1. k \in {0, 1, 2, 3}
    BY <1>2 DEF UnitOf
  <2> QED BY <1>1, <1>2, <2>1 DEF UnitOf
<1>3. CASE ~ (rest < before[4])
  <2>1. k \in {4, 5, 6, 7}
    BY <1>3 DEF UnitOf
  <2> QED BY <1>1, <1>3, <2>1 DEF UnitOf
<1> QED BY <1>2, <1>3

(* The samples, and the counts of the blocks between two of them, find the *)
(* block of a member from the number of those before it.                   *)
BlockCounts(before, X, n) == \A b \in 0 .. n : before[b] = Count(X, b * BlockBits)

BlockOf(X, n, samples, p, i, r) ==
  /\ i % BlockBits = 0 => At(samples, i \div BlockBits) = p
  /\ i % BlockBits # 0 => /\ r \in Nat /\ r < n /\ Count(X, r * BlockBits) <= i
                          /\ i < Count(X, (r + 1) * BlockBits)

LEMMA BlockFound ==
  ASSUME NEW X, NEW span \in Nat, NEW n \in Nat, span <= n * BlockBits,
         NEW samples, NEW m, SampleTable(samples, X, span, m),
         NEW before, BlockCounts(before, X, n),
         NEW p \in Nat, p \in X, p < span, NEW i \in Nat, i = Count(X, p),
         NEW r, r = Bracketed(i, samples, before)
  PROVE  BlockOf(X, n, samples, p, i, r)
<1>1. PICK d \in Nat : d = BlockBits /\ d # 0 /\ span <= n * d /\ n * d \in Nat
  BY BlocksAre
<1>2. PICK c \in Nat, a \in Nat : c = Count(X, span) /\ a = i /\ a < c /\ c <= m * d /\ m \in Nat
  <2>1. Count(X, span) \in Nat /\ Count(X, p) \in Nat /\ Count(X, p) < Count(X, span)
    BY CountGrows, CountStep
  <2>2. m \in Nat /\ Count(X, span) <= m * BlockBits
    BY DEF SampleTable
  <2> QED BY <1>1, <2>1, <2>2
<1>3. PICK j \in Nat, e \in Nat, jd \in Nat :
        /\ j = a \div d /\ e = a % d /\ e < d /\ jd = j * d /\ a = jd + e
  <2>1. a \div d \in Nat /\ a % d \in Nat /\ a % d < d /\ a = (a \div d) * d + (a % d)
    BY <1>1, QuotientParts
  <2>2. (a \div d) * d \in Nat
    BY <1>1, <2>1
  <2> QED BY <2>1, <2>2
<1>4. j < m
  <2>1. SUFFICES ASSUME m <= j PROVE FALSE
    BY <1>2
  <2>2. m * d <= j * d /\ m * d \in Nat
    BY <1>1, <1>2, <2>1, ProductGrows
  <2>3. PICK md \in Nat : md = m * d
    BY <2>2
  <2> QED BY <1>2, <1>3, <2>2, <2>3
<1>5. PICK s \in Nat : s = samples[j + 1] /\ s \in X /\ s < span /\ Count(X, s) = jd
  <2>1. j + 1 \in 1 .. m /\ (j + 1) - 1 = j
    BY <1>2, <1>4
  <2>2. samples[j + 1] \in Nat /\ samples[j + 1] \in X /\ samples[j + 1] < span
        /\ Count(X, samples[j + 1]) = ((j + 1) - 1) * BlockBits
    BY <2>1 DEF SampleTable
  <2> QED BY <1>1, <1>3, <2>1, <2>2
<1>6. ASSUME e = 0 PROVE At(samples, i \div BlockBits) = p
  <2>1. Count(X, s) = Count(X, p)
    <3>1. a = jd
      BY <1>3, <1>6
    <3> QED BY <1>2, <1>5, <3>1
  <2>2. s = p
    BY <1>5, <2>1, CountTells
  <2> QED BY <1>1, <1>2, <1>3, <1>5, <2>2 DEF At
<1>7. PICK t \in Nat : t = samples[j + 2] /\ t <= span /\ a < Count(X, t)
  <2>1. CASE j + 1 = m
    <3>1. j + 2 = m + 1 /\ samples[m + 1] = span
      BY <1>2, <2>1 DEF SampleTable
    <3> QED BY <1>2, <3>1
  <2>2. CASE j + 1 # m
    <3>1. j + 2 \in 1 .. m /\ (j + 2) - 1 = j + 1
      BY <1>2, <1>4, <2>2
    <3>2. samples[j + 2] \in Nat /\ samples[j + 2] < span
          /\ Count(X, samples[j + 2]) = ((j + 2) - 1) * BlockBits
      BY <3>1 DEF SampleTable
    <3>3. (j + 1) * d = j * d + d
      BY <1>1
    <3>4. Count(X, samples[j + 2]) = jd + d
      BY <1>1, <1>3, <3>1, <3>2, <3>3
    <3>5. a < jd + d
      BY <1>1, <1>3
    <3>6. a < Count(X, samples[j + 2]) /\ samples[j + 2] <= span
      BY <3>2, <3>4, <3>5
    <3> QED BY <3>2, <3>6
  <2> QED BY <2>1, <2>2
<1>8. PICK begin \in Nat, bd \in Nat : begin = s \div d /\ bd = begin * d /\ bd <= s
  <2>1. s \div d \in Nat /\ s % d \in Nat /\ s = (s \div d) * d + (s % d)
    BY <1>1, QuotientParts
  <2>2. (s \div d) * d \in Nat
    BY <1>1, <2>1
  <2> QED BY <2>1, <2>2
<1>9. PICK end \in Nat, ed \in Nat : end = (t + d - 1) \div d /\ ed = end * d /\ t <= ed /\ ed < t + d
  <2>1. PICK z \in Nat : z = t + d - 1
    BY <1>1
  <2>2. z \div d \in Nat /\ z % d \in Nat /\ z % d < d /\ z = (z \div d) * d + (z % d)
    BY <1>1, QuotientParts
  <2>3. PICK q \in Nat, qd \in Nat : q = z \div d /\ qd = q * d
    BY <1>1, <2>2
  <2>4. t <= qd /\ qd < t + d
    BY <1>1, <2>1, <2>2, <2>3
  <2> QED BY <2>1, <2>3, <2>4
<1>10. end <= n
  <2>1. SUFFICES ASSUME n < end PROVE FALSE
    OBVIOUS
  <2>2. n * d + d <= end * d
    BY <1>1, <2>1, ProductGrows
  <2>3. PICK nd \in Nat : nd = n * d /\ span <= nd /\ nd + d <= ed
    BY <1>1, <1>9, <2>2
  <2> QED BY <1>1, <1>7, <1>9, <2>3
<1>11. Count(X, bd) \in Nat /\ Count(X, ed) \in Nat /\ Count(X, bd) <= a /\ a < Count(X, ed)
  <2>1. Count(X, bd) \in Nat /\ Count(X, ed) \in Nat /\ Count(X, t) \in Nat
    BY CountStep
  <2>2. Count(X, bd) <= Count(X, s)
    BY <1>8, CountGrows
  <2>3. Count(X, t) <= Count(X, ed)
    BY <1>9, CountGrows
  <2>4. PICK x \in Nat, y \in Nat : x = Count(X, bd) /\ y = Count(X, s) /\ x <= y /\ y = jd
    BY <1>5, <2>1, <2>2
  <2>5. Count(X, bd) <= a
    BY <1>3, <2>4
  <2>6. a < Count(X, ed)
    BY <1>2, <1>7, <2>1, <2>3
  <2> QED BY <2>1, <2>5, <2>6
<1>12. begin < end
  <2>1. SUFFICES ASSUME end <= begin PROVE FALSE
    OBVIOUS
  <2>2. end * d <= begin * d
    BY <1>1, <2>1, ProductGrows
  <2>3. ed <= bd
    BY <1>8, <1>9, <2>2
  <2>4. Count(X, ed) <= Count(X, bd)
    BY <2>3, CountGrows
  <2> QED BY <1>2, <1>11, <2>4
<1>13. /\ \A b \in 0 .. end : before[b] \in Nat
       /\ before[begin] <= i /\ i < before[end]
       /\ \A b \in Nat : b < end => before[b] = Count(X, b * BlockBits)
                                    /\ before[b + 1] = Count(X, (b + 1) * BlockBits)
  <2>1. ASSUME NEW b \in 0 .. end PROVE before[b] = Count(X, b * BlockBits) /\ before[b] \in Nat
    <3>1. b \in 0 .. n /\ b \in Nat
      BY <1>10
    <3>2. before[b] = Count(X, b * BlockBits) /\ b * BlockBits \in Nat
      BY <3>1, BlocksAre DEF BlockCounts
    <3> QED BY <3>2, CountStep
  <2>2. begin \in 0 .. end /\ end \in 0 .. end
    BY <1>12
  <2>3. before[begin] = Count(X, bd) /\ before[end] = Count(X, ed)
    BY <1>1, <1>8, <1>9, <2>1, <2>2
  <2>4. ASSUME NEW b \in Nat, b < end PROVE b \in 0 .. end /\ b + 1 \in 0 .. end
    BY <2>4
  <2> QED BY <1>2, <1>11, <2>1, <2>3, <2>4
<1>14. /\ begin = At(samples, i \div BlockBits) \div BlockBits
       /\ end = (At(samples, i \div BlockBits + 1) + BlockBits - 1) \div BlockBits
  <2>1. (j + 1) + 1 = j + 2
    OBVIOUS
  <2> QED BY <1>1, <1>2, <1>3, <1>5, <1>7, <1>8, <1>9, <2>1 DEF At
<1>15. r \in Nat /\ begin <= r /\ r < end /\ before[r] <= i /\ i < before[r + 1]
  <2>1. \A b \in 0 .. end : before[b] \in Nat
    BY <1>13
  <2> QED BY <1>2, <1>12, <1>13, <1>14, <2>1, BracketFinds
<1>16. r < n /\ Count(X, r * BlockBits) <= i /\ i < Count(X, (r + 1) * BlockBits)
  BY <1>10, <1>13, <1>15
<1>17. e = i % BlockBits
  BY <1>1, <1>2, <1>3
<1> QED BY <1>6, <1>15, <1>16, <1>2, <1>17 DEF BlockOf

(* And the unit of the block and the place in it.                          *)
RelCounts(before, X, r) ==
  \A k \in 1 .. 7 : before[k] = Count(X, (r * 8 + k) * UnitBits) - Count(X, r * BlockBits)

Placed(X, p, r, k) ==
  /\ k \in 0 .. 7 /\ (r * 8 + k) * UnitBits \in Nat /\ (r * 8 + k) * UnitBits <= p
  /\ Count(X, p) - Count(X, (r * 8 + k) * UnitBits) \in Nat
  /\ (r * 8 + k) * UnitBits
       + SelectBit(Count(X, p) - Count(X, (r * 8 + k) * UnitBits), Slice(X, r * 8 + k)) = p

LEMMA PlaceFound ==
  ASSUME NEW X, NEW p \in Nat, p \in X, NEW r \in Nat,
         Count(X, r * BlockBits) <= Count(X, p), Count(X, p) < Count(X, (r + 1) * BlockBits),
         NEW before, RelCounts(before, X, r),
         NEW k, k = UnitOf(Count(X, p) - Count(X, r * BlockBits), before)
  PROVE  Placed(X, p, r, k)
<1>1. PICK i \in Nat, start \in Nat : i = Count(X, p) /\ start = Count(X, r * BlockBits) /\ start <= i
  <2>1. r * BlockBits \in Nat
    BY BlocksAre
  <2> QED BY <2>1, CountStep
<1>2. \A n \in 0 .. 8 : (r * 8 + n) \in Nat /\ (r * 8 + n) * UnitBits \in Nat
                        /\ Count(X, (r * 8 + n) * UnitBits) \in Nat
  <2>1. ASSUME NEW n \in 0 .. 8 PROVE r * 8 + n \in Nat /\ (r * 8 + n) * UnitBits \in Nat
    OBVIOUS
  <2> QED BY <2>1, CountStep
<1>3. \A n \in 1 .. 7 : before[n] \in Nat /\ Count(X, (r * 8 + n) * UnitBits) = start + before[n]
  <2>1. ASSUME NEW n \in 1 .. 7
        PROVE  before[n] \in Nat /\ Count(X, (r * 8 + n) * UnitBits) = start + before[n]
    <3>1. PICK rd \in Nat, ud \in Nat : rd = r * BlockBits /\ ud = (r * 8 + n) * UnitBits /\ rd <= ud
      <4>1. r * BlockBits = (r * 8) * UnitBits /\ r * BlockBits \in Nat /\ r * 8 \in Nat
        BY BlocksAre
      <4>2. (r * 8) * UnitBits <= (r * 8 + n) * UnitBits /\ (r * 8 + n) * UnitBits \in Nat
        <5>1. PICK x \in Nat, y \in Nat : x = r * 8 /\ y = r * 8 + n /\ x <= y
          BY <4>1
        <5> QED BY <5>1, ProductGrows
      <4> QED BY <4>1, <4>2
    <3>2. Count(X, rd) \in Nat /\ Count(X, ud) \in Nat /\ Count(X, rd) <= Count(X, ud)
      BY <3>1, CountGrows
    <3>3. before[n] = Count(X, ud) - Count(X, rd) /\ start = Count(X, rd)
      BY <1>1, <3>1 DEF RelCounts
    <3> QED BY <3>1, <3>2, <3>3
  <2> QED BY <2>1
<1>4. PICK rest \in Nat : rest = i - start /\ i = start + rest /\ k = UnitOf(rest, before)
  <2>1. i - start \in Nat /\ i = start + (i - start)
    BY <1>1
  <2> QED BY <1>1, <2>1
<1>5. k \in 0 .. 7 /\ (k # 0 => before[k] <= rest) /\ (k # 7 => rest < before[k + 1])
  BY <1>3, <1>4, UnitOfFinds
<1>6. PICK u \in Nat, ud \in Nat, next \in Nat :
        u = r * 8 + k /\ ud = u * UnitBits /\ next = (u + 1) * UnitBits /\ next = ud + UnitBits
  <2>1. r * 8 + k \in Nat
    BY <1>5
  <2>2. PICK u \in Nat : u = r * 8 + k
    BY <2>1
  <2>3. u * UnitBits \in Nat /\ (u + 1) * UnitBits \in Nat /\ (u + 1) * UnitBits = u * UnitBits + UnitBits
    OBVIOUS
  <2> QED BY <2>2, <2>3
<1>7. Count(X, ud) <= i /\ Count(X, ud) \in Nat
  <2>1. Count(X, ud) \in Nat
    BY CountStep
  <2>2. CASE k = 0
    <3>1. ud = r * BlockBits
      <4>1. r * BlockBits = (r * 8) * UnitBits /\ r * 8 + 0 = r * 8
        BY BlocksAre
      <4> QED BY <1>6, <2>2, <4>1
    <3> QED BY <1>1, <2>1, <3>1
  <2>3. CASE k # 0
    <3>1. k \in 1 .. 7
      BY <1>5, <2>3
    <3>2. before[k] \in Nat /\ Count(X, ud) = start + before[k] /\ before[k] <= rest
      BY <1>3, <1>5, <1>6, <2>3, <3>1
    <3> QED BY <1>4, <2>1, <3>2
  <2> QED BY <2>2, <2>3
<1>8. i < Count(X, next)
  <2>1. CASE k = 7
    <3>1. next = (r + 1) * BlockBits
      <4>1. (r + 1) * BlockBits = ((r + 1) * 8) * UnitBits /\ (r + 1) * 8 = u + 1
        BY <1>6, <2>1, BlocksAre
      <4> QED BY <1>6, <4>1
    <3> QED BY <1>1, <3>1
  <2>2. CASE k # 7
    <3>1. k + 1 \in 1 .. 7 /\ u + 1 = r * 8 + (k + 1)
      BY <1>5, <1>6, <2>2
    <3>2. before[k + 1] \in Nat /\ Count(X, next) = start + before[k + 1] /\ rest < before[k + 1]
      BY <1>3, <1>5, <1>6, <2>2, <3>1
    <3> QED BY <1>4, <3>2
  <2> QED BY <2>1, <2>2
<1>9. ud <= p /\ p < next
  <2>1. ASSUME p < ud PROVE FALSE
    <3>1. i < Count(X, ud)
      BY <1>1, <2>1, CountGrows
    <3> QED BY <1>7, <3>1
  <2>2. ASSUME next <= p PROVE FALSE
    <3>1. Count(X, next) <= i /\ Count(X, next) \in Nat
      BY <1>1, <2>2, CountGrows
    <3> QED BY <1>8, <3>1
  <2> QED BY <2>1, <2>2
<1>10. PICK b \in UnitPlaces : p = ud + b /\ b \in Nat /\ b < UnitBits
  <2>1. p - ud \in Nat /\ p = ud + (p - ud) /\ p - ud < UnitBits
    BY <1>6, <1>9
  <2> QED BY <2>1 DEF UnitPlaces
<1>11. PICK unit : unit = Slice(X, u) /\ unit \in SUBSET UnitPlaces /\ b \in unit
  BY <1>6, <1>10 DEF Slice
<1>12. PICK m \in Nat : m = Count(unit, b) /\ i = Count(X, ud) + m
  <2>1. Count(X, u * UnitBits + b) = Count(X, u * UnitBits) + Count(Slice(X, u), b)
    BY <1>10, CountInUnit
  <2>2. Count(unit, b) \in Nat
    BY <1>10, CountStep
  <2> QED BY <1>1, <1>6, <1>10, <1>11, <2>1, <2>2
<1>13. m < Cardinality(unit)
  <2>1. Count(unit, b) < Count(unit, UnitBits)
    BY <1>10, <1>11, CountGrows
  <2>2. Cardinality(unit) = Count(unit, UnitBits)
    BY <1>11, UnitCounts
  <2> QED BY <1>12, <2>1, <2>2
<1>14. SelectBit(m, unit) = b
  <2>1. SelectBit(m, unit) \in unit /\ SelectBit(m, unit) \in UnitPlaces /\ Count(unit, SelectBit(m, unit)) = m
    BY <1>11, <1>13, BitSelected
  <2>2. PICK q \in Nat : q = SelectBit(m, unit) /\ q \in unit /\ Count(unit, q) = m
    BY <2>1 DEF UnitPlaces
  <2>3. q = b
    BY <1>10, <1>11, <1>12, <2>2, CountTells
  <2> QED BY <2>2, <2>3
<1>15. Count(X, p) - Count(X, ud) = m
  BY <1>1, <1>7, <1>12
<1>16. ud = (r * 8 + k) * UnitBits /\ unit = Slice(X, r * 8 + k)
  BY <1>6, <1>11
<1>17. ud + SelectBit(Count(X, p) - Count(X, ud), unit) = p
  BY <1>10, <1>14, <1>15
<1> QED BY <1>5, <1>9, <1>12, <1>15, <1>16, <1>17 DEF Placed

LEMMA UnitInUse ==
  ASSUME NEW L \in Nat, NEW u \in Nat, NEW p \in Nat, NEW span \in Nat,
         u * UnitBits <= p, p < span, span <= L * UnitBits
  PROVE  u < L
<1>1. SUFFICES ASSUME L <= u PROVE FALSE
  OBVIOUS
<1>2. L * UnitBits <= u * UnitBits
  BY <1>1, ProductGrows
<1>3. PICK x \in Nat, y \in Nat : x = L * UnitBits /\ y = u * UnitBits
  BY ProductGrows
<1> QED BY <1>2, <1>3

(* IndexedSelect1 finds each 1 from the number of those before it.         *)
LEMMA Select1Answers ==
  ASSUME NEW v, IndexTrue(v), v.select1s # << >>, NEW p \in OnesOf(v.units)
  PROVE  IndexedSelect1(v, Count(OnesOf(v.units), p)) = p
<1>1. PICK X, L, span, units :
        /\ X = OnesOf(v.units) /\ L = Len(v.units) /\ span = v.size /\ units = v.units
        /\ L \in Nat /\ span \in Nat
        /\ UnitsFit(units, span) /\ span <= L * UnitBits /\ p \in Nat /\ p < span /\ p \in X
  <2>1. UnitsFit(v.units, v.size)
    BY DEF IndexTrue
  <2>2. /\ v.units \in Seq(SUBSET UnitPlaces) /\ v.size \in Nat /\ v.size <= Len(v.units) * UnitBits
        /\ p < v.size
    BY <2>1 DEF UnitsFit
  <2>3. Len(v.units) \in Nat /\ p \in Nat
    BY <2>2, LenNat DEF OnesOf
  <2> QED BY <2>1, <2>2, <2>3
<1>2. PICK n : RankTable(v.ranks, X, span, n)
  <2>1. \E n : RankTable(v.ranks, OnesOf(v.units), v.size, n)
    BY DEF IndexTrue
  <2> QED BY <1>1, <2>1
<1>3. PICK m : SampleTable(v.select1s, X, span, m)
  <2>1. \E m : SampleTable(v.select1s, OnesOf(v.units), v.size, m)
    BY DEF IndexTrue
  <2> QED BY <1>1, <2>1
<1>4. /\ n \in Nat /\ span <= n * BlockBits /\ Blocks(v) = 0 .. n
      /\ \A b \in 0 .. n : At(v.ranks, b).abs = Count(X, b * BlockBits)
      /\ \A b \in 0 .. n - 1, k \in 1 .. 7 :
           At(v.ranks, b).rel[k] = Count(X, (b * 8 + k) * UnitBits) - Count(X, b * BlockBits)
  <2>1. n \in Nat /\ span <= n * BlockBits /\ Len(v.ranks) = n + 1
    BY <1>2 DEF RankTable
  <2>2. Blocks(v) = 0 .. n
    BY <2>1 DEF Blocks
  <2> QED BY <1>2, <2>1, <2>2 DEF RankTable, At
<1>5. PICK i \in Nat : i = Count(X, p)
  BY <1>1, CountStep
<1>6. PICK before, r, rank, rest, rels, k, u :
        /\ before = [b \in Blocks(v) |-> At(v.ranks, b).abs]
        /\ r = Bracketed(i, v.select1s, before) /\ rank = At(v.ranks, r) /\ rest = i - rank.abs
        /\ rels = [b \in 1 .. 8 - 1 |-> Rel(rank, b)] /\ k = UnitOf(rest, rels) /\ u = r * 8 + k
        /\ IndexedSelect1(v, i)
             = IF i % BlockBits = 0 THEN At(v.select1s, i \div BlockBits)
               ELSE u * UnitBits + SelectBit(rest - Rel(rank, k), At(v.units, u))
  BY Zenon DEF IndexedSelect1, BlockUnits
<1>7. /\ i % BlockBits = 0 => At(v.select1s, i \div BlockBits) = p
      /\ i % BlockBits # 0 => /\ r \in Nat /\ r < n /\ Count(X, r * BlockBits) <= i
                              /\ i < Count(X, (r + 1) * BlockBits)
  <2>1. BlockCounts(before, X, n)
    BY <1>4, <1>6 DEF BlockCounts
  <2>2. PICK samples : samples = v.select1s
    OBVIOUS
  <2>3. r = Bracketed(i, samples, before) /\ SampleTable(samples, X, span, m)
    BY <1>3, <1>6, <2>2
  <2>4. BlockOf(X, n, samples, p, i, r)
    <3>1. span \in Nat /\ n \in Nat /\ span <= n * BlockBits /\ p \in Nat /\ p \in X /\ p < span
      BY <1>1, <1>4
    <3> QED BY <1>5, <2>1, <2>3, <3>1, BlockFound
  <2> QED BY <2>2, <2>4 DEF BlockOf
<1>8. ASSUME i % BlockBits # 0
      PROVE  u * UnitBits + SelectBit(rest - Rel(rank, k), At(v.units, u)) = p
  <2>1. r \in Nat /\ r < n /\ Count(X, r * BlockBits) <= i /\ i < Count(X, (r + 1) * BlockBits)
    BY <1>7, <1>8
  <2>2. r \in 0 .. n /\ r \in 0 .. n - 1
    BY <1>4, <2>1
  <2>3. rank.abs = Count(X, r * BlockBits)
    BY <1>4, <1>6, <2>2
  <2>4. \A b \in 1 .. 7 : rels[b] = Count(X, (r * 8 + b) * UnitBits) - Count(X, r * BlockBits)
    <3>1. \A b \in 1 .. 7 : rels[b] = rank.rel[b]
      BY <1>6 DEF Rel
    <3> QED BY <1>4, <1>6, <2>2, <3>1
  <2>5. k = UnitOf(Count(X, p) - Count(X, r * BlockBits), rels)
    BY <1>5, <1>6, <2>3
  <2>6. /\ k \in 0 .. 7 /\ (r * 8 + k) * UnitBits \in Nat /\ (r * 8 + k) * UnitBits <= p
        /\ (r * 8 + k) * UnitBits
             + SelectBit(Count(X, p) - Count(X, (r * 8 + k) * UnitBits), Slice(X, r * 8 + k)) = p
    <3>1. p \in Nat /\ p \in X /\ r \in Nat
      BY <1>1, <2>1
    <3>2. Count(X, r * BlockBits) <= Count(X, p) /\ Count(X, p) < Count(X, (r + 1) * BlockBits)
      BY <1>5, <2>1
    <3>3. RelCounts(rels, X, r)
      BY <2>4 DEF RelCounts
    <3>4. Placed(X, p, r, k)
      BY <2>5, <3>1, <3>2, <3>3, PlaceFound
    <3> QED BY <3>4 DEF Placed
  <2>7. u \in Nat /\ u = r * 8 + k
    <3>1. u = r * 8 + k
      BY <1>6
    <3>2. r \in Nat /\ k \in 0 .. 7
      BY <2>1, <2>6
    <3> QED BY <3>1, <3>2
  <2>8. rest - Rel(rank, k) = Count(X, p) - Count(X, u * UnitBits)
    <3>1. PICK c \in Nat, cu \in Nat : c = Count(X, r * BlockBits) /\ cu = Count(X, u * UnitBits)
      <4>1. r * BlockBits \in Nat /\ u * UnitBits \in Nat
        BY <2>1, <2>6, <2>7, BlocksAre
      <4> QED BY <4>1, CountStep
    <3>2. CASE k = 0
      <4>1. u * UnitBits = r * BlockBits
        <5>1. r * BlockBits = (r * 8) * UnitBits /\ u = r * 8
          BY <2>1, <2>7, <3>2, BlocksAre
        <5> QED BY <5>1
      <4>2. Rel(rank, k) = 0
        BY <3>2 DEF Rel
      <4>3. rest = i - c
        BY <1>6, <2>3, <3>1
      <4>4. rest - Rel(rank, k) = i - cu
        BY <3>1, <4>1, <4>2, <4>3
      <4> QED BY <1>5, <3>1, <4>4
    <3>3. CASE k # 0
      <4>1. k \in 1 .. 7
        BY <2>6, <3>3
      <4>2. Rel(rank, k) = cu - c
        <5>1. Rel(rank, k) = rels[k]
          BY <1>6, <4>1
        <5>2. rels[k] = Count(X, (r * 8 + k) * UnitBits) - Count(X, r * BlockBits)
          BY <2>4, <4>1
        <5>3. cu = Count(X, (r * 8 + k) * UnitBits)
          BY <2>7, <3>1
        <5> QED BY <3>1, <5>1, <5>2, <5>3
      <4>3. rest = i - c
        BY <1>6, <2>3, <3>1
      <4>4. rest - Rel(rank, k) = i - cu
        BY <3>1, <4>2, <4>3
      <4> QED BY <1>5, <3>1, <4>4
    <3> QED BY <3>2, <3>3
  <2>9. u < L
    BY <1>1, <2>6, <2>7, UnitInUse
  <2>10. Slice(X, u) = At(v.units, u)
    <3>1. Slice(OnesOf(units), u) = At(units, u)
      BY <1>1, <2>7, <2>9, UnitsAre
    <3> QED BY <1>1, <3>1
  <2> QED BY <2>6, <2>7, <2>8, <2>10
<1> QED BY <1>1, <1>5, <1>6, <1>7, <1>8

(* And IndexedSelect0 each 0.                                              *)
LEMMA Select0Answers ==
  ASSUME NEW v, IndexTrue(v), v.select0s # << >>, NEW p \in Unset(v.units), p < v.size
  PROVE  IndexedSelect0(v, Count(Unset(v.units), p)) = p
<1>1. PICK X, L, span, units :
        /\ X = Unset(v.units) /\ L = Len(v.units) /\ span = v.size /\ units = v.units
        /\ L \in Nat /\ span \in Nat
        /\ UnitsFit(units, span) /\ span <= L * UnitBits /\ p \in Nat /\ p < span /\ p \in X
  <2>1. UnitsFit(v.units, v.size)
    BY DEF IndexTrue
  <2>2. /\ v.units \in Seq(SUBSET UnitPlaces) /\ v.size \in Nat /\ v.size <= Len(v.units) * UnitBits
        /\ p < v.size
    BY <2>1 DEF UnitsFit
  <2>3. Len(v.units) \in Nat /\ p \in Nat
    BY <2>2, LenNat DEF Unset
  <2> QED BY <2>1, <2>2, <2>3
<1>2. PICK n : RankTable(v.ranks, OnesOf(units), span, n)
  <2>1. \E n : RankTable(v.ranks, OnesOf(v.units), v.size, n)
    BY DEF IndexTrue
  <2> QED BY <1>1, <2>1
<1>3. PICK m : SampleTable(v.select0s, X, span, m)
  <2>1. \E m : SampleTable(v.select0s, Unset(v.units), v.size, m)
    BY DEF IndexTrue
  <2> QED BY <1>1, <2>1
<1>4. n \in Nat /\ span <= n * BlockBits /\ Blocks(v) = 0 .. n
  <2>1. n \in Nat /\ span <= n * BlockBits /\ Len(v.ranks) = n + 1
    BY <1>2 DEF RankTable
  <2>2. Blocks(v) = 0 .. n
    BY <2>1 DEF Blocks
  <2> QED BY <2>1, <2>2
<1>41. \A b \in 0 .. n : b * BlockBits - At(v.ranks, b).abs = Count(X, b * BlockBits)
  <2>1. ASSUME NEW b \in 0 .. n PROVE b * BlockBits - At(v.ranks, b).abs = Count(X, b * BlockBits)
    <3>1. PICK bd \in Nat : bd = b * BlockBits
      <4>1. b \in Nat
        BY <1>4
      <4> QED BY <4>1, BlocksAre
    <3>2. At(v.ranks, b).abs = Count(OnesOf(units), bd)
      BY <1>2, <3>1 DEF RankTable, At
    <3>3. Count(Unset(units), bd) = bd - Count(OnesOf(units), bd)
      BY <1>1, CountsAre
    <3> QED BY <1>1, <3>1, <3>2, <3>3
  <2> QED BY <2>1
<1>42. \A b \in 0 .. n - 1, k \in 1 .. 7 :
         k * UnitBits - At(v.ranks, b).rel[k] = Count(X, (b * 8 + k) * UnitBits) - Count(X, b * BlockBits)
  <2>1. ASSUME NEW b \in 0 .. n - 1, NEW k \in 1 .. 7
        PROVE  k * UnitBits - At(v.ranks, b).rel[k] = Count(X, (b * 8 + k) * UnitBits) - Count(X, b * BlockBits)
    <3>1. PICK bd \in Nat, ud \in Nat, kd \in Nat :
            bd = b * BlockBits /\ ud = (b * 8 + k) * UnitBits /\ kd = k * UnitBits /\ ud = bd + kd
      <4>1. b \in Nat /\ k \in 0 .. 7
        BY <1>4
      <4>2. b * BlockBits \in Nat /\ (b * 8 + k) * UnitBits \in Nat
            /\ (b * 8 + k) * UnitBits = b * BlockBits + k * UnitBits
        BY <4>1, CountInBlock
      <4>3. k * UnitBits \in Nat
        OBVIOUS
      <4> QED BY <4>2, <4>3
    <3>2. At(v.ranks, b).rel[k] = Count(OnesOf(units), ud) - Count(OnesOf(units), bd)
      BY <1>2, <3>1 DEF RankTable, At
    <3>3. /\ Count(Unset(units), bd) = bd - Count(OnesOf(units), bd) /\ Count(OnesOf(units), bd) \in Nat
          /\ Count(Unset(units), ud) = ud - Count(OnesOf(units), ud) /\ Count(OnesOf(units), ud) \in Nat
      BY <1>1, CountsAre
    <3>4. kd - At(v.ranks, b).rel[k] = Count(Unset(units), ud) - Count(Unset(units), bd)
      <4>1. PICK x \in Nat, y \in Nat : x = Count(OnesOf(units), ud) /\ y = Count(OnesOf(units), bd)
        BY <3>3
      <4>2. kd - (x - y) = (ud - x) - (bd - y)
        BY <3>1
      <4> QED BY <3>2, <3>3, <4>1, <4>2
    <3> QED BY <1>1, <3>1, <3>4
  <2> QED BY <2>1
<1>5. PICK i \in Nat : i = Count(X, p)
  BY <1>1, CountStep
<1>6. PICK before, r, rank, rest, rels, k, u :
        /\ before = [b \in Blocks(v) |-> b * BlockBits - At(v.ranks, b).abs]
        /\ r = Bracketed(i, v.select0s, before) /\ rank = At(v.ranks, r)
        /\ rest = i - (r * BlockBits - rank.abs)
        /\ rels = [b \in 1 .. 8 - 1 |-> b * UnitBits - Rel(rank, b)] /\ k = UnitOf(rest, rels) /\ u = r * 8 + k
        /\ IndexedSelect0(v, i)
             = IF i % BlockBits = 0 THEN At(v.select0s, i \div BlockBits)
               ELSE u * UnitBits + SelectBit(rest - (k * UnitBits - Rel(rank, k)), Complement(At(v.units, u)))
  BY Zenon DEF IndexedSelect0, BlockUnits
<1>7. /\ i % BlockBits = 0 => At(v.select0s, i \div BlockBits) = p
      /\ i % BlockBits # 0 => /\ r \in Nat /\ r < n /\ Count(X, r * BlockBits) <= i
                              /\ i < Count(X, (r + 1) * BlockBits)
  <2>1. BlockCounts(before, X, n)
    BY <1>4, <1>41, <1>6 DEF BlockCounts
  <2>2. PICK samples : samples = v.select0s
    OBVIOUS
  <2>3. r = Bracketed(i, samples, before) /\ SampleTable(samples, X, span, m)
    BY <1>3, <1>6, <2>2
  <2>4. BlockOf(X, n, samples, p, i, r)
    <3>1. span \in Nat /\ n \in Nat /\ span <= n * BlockBits /\ p \in Nat /\ p \in X /\ p < span
      BY <1>1, <1>4
    <3> QED BY <1>5, <2>1, <2>3, <3>1, BlockFound
  <2> QED BY <2>2, <2>4 DEF BlockOf
<1>8. ASSUME i % BlockBits # 0
      PROVE  u * UnitBits + SelectBit(rest - (k * UnitBits - Rel(rank, k)), Complement(At(v.units, u))) = p
  <2>1. r \in Nat /\ r < n /\ Count(X, r * BlockBits) <= i /\ i < Count(X, (r + 1) * BlockBits)
    BY <1>7, <1>8
  <2>2. r \in 0 .. n /\ r \in 0 .. n - 1
    BY <1>4, <2>1
  <2>3. r * BlockBits - rank.abs = Count(X, r * BlockBits)
    BY <1>41, <1>6, <2>2
  <2>4. \A b \in 1 .. 7 : rels[b] = Count(X, (r * 8 + b) * UnitBits) - Count(X, r * BlockBits)
    <3>1. ASSUME NEW b \in 1 .. 7
          PROVE  rels[b] = Count(X, (r * 8 + b) * UnitBits) - Count(X, r * BlockBits)
      <4>1. rels[b] = b * UnitBits - Rel(rank, b)
        <5>1. b \in 1 .. 8 - 1
          OBVIOUS
        <5> QED BY <1>6, <5>1
      <4>2. Rel(rank, b) = At(v.ranks, r).rel[b]
        <5>1. b # 0
          OBVIOUS
        <5> QED BY <1>6, <5>1 DEF Rel
      <4>3. b * UnitBits - At(v.ranks, r).rel[b] = Count(X, (r * 8 + b) * UnitBits) - Count(X, r * BlockBits)
        BY <1>42, <2>2
      <4> QED BY <4>1, <4>2, <4>3
    <3> QED BY <3>1
  <2>5. k = UnitOf(Count(X, p) - Count(X, r * BlockBits), rels)
    BY <1>5, <1>6, <2>3
  <2>6. /\ k \in 0 .. 7 /\ (r * 8 + k) * UnitBits \in Nat /\ (r * 8 + k) * UnitBits <= p
        /\ (r * 8 + k) * UnitBits
             + SelectBit(Count(X, p) - Count(X, (r * 8 + k) * UnitBits), Slice(X, r * 8 + k)) = p
    <3>1. p \in Nat /\ p \in X /\ r \in Nat
      BY <1>1, <2>1
    <3>2. Count(X, r * BlockBits) <= Count(X, p) /\ Count(X, p) < Count(X, (r + 1) * BlockBits)
      BY <1>5, <2>1
    <3>3. RelCounts(rels, X, r)
      BY <2>4 DEF RelCounts
    <3>4. Placed(X, p, r, k)
      BY <2>5, <3>1, <3>2, <3>3, PlaceFound
    <3> QED BY <3>4 DEF Placed
  <2>7. u \in Nat /\ u = r * 8 + k
    <3>1. u = r * 8 + k
      BY <1>6
    <3>2. r \in Nat /\ k \in 0 .. 7
      BY <2>1, <2>6
    <3> QED BY <3>1, <3>2
  <2>8. rest - (k * UnitBits - Rel(rank, k)) = Count(X, p) - Count(X, u * UnitBits)
    <3>1. PICK c \in Nat, cu \in Nat : c = Count(X, r * BlockBits) /\ cu = Count(X, u * UnitBits)
      <4>1. r * BlockBits \in Nat /\ u * UnitBits \in Nat
        BY <2>1, <2>6, <2>7, BlocksAre
      <4> QED BY <4>1, CountStep
    <3>2. CASE k = 0
      <4>1. u * UnitBits = r * BlockBits
        <5>1. r * BlockBits = (r * 8) * UnitBits /\ u = r * 8
          BY <2>1, <2>7, <3>2, BlocksAre
        <5> QED BY <5>1
      <4>2. k * UnitBits - Rel(rank, k) = 0
        BY <3>2 DEF Rel
      <4>3. rest = i - c
        BY <1>6, <2>3, <3>1
      <4>4. rest - (k * UnitBits - Rel(rank, k)) = i - cu
        BY <3>1, <4>1, <4>2, <4>3
      <4> QED BY <1>5, <3>1, <4>4
    <3>3. CASE k # 0
      <4>1. k \in 1 .. 7
        BY <2>6, <3>3
      <4>2. k * UnitBits - Rel(rank, k) = cu - c
        <5>1. k * UnitBits - Rel(rank, k) = rels[k]
          <6>1. k \in 1 .. 8 - 1
            BY <4>1
          <6>2. rels = [b \in 1 .. 8 - 1 |-> b * UnitBits - Rel(rank, b)]
            BY Zenon, <1>6
          <6> QED BY Zenon, <6>1, <6>2
        <5>2. rels[k] = Count(X, (r * 8 + k) * UnitBits) - Count(X, r * BlockBits)
          BY <2>4, <4>1
        <5>3. cu = Count(X, (r * 8 + k) * UnitBits)
          BY <2>7, <3>1
        <5> QED BY <3>1, <5>1, <5>2, <5>3
      <4>3. rest = i - c
        BY <1>6, <2>3, <3>1
      <4>4. rest - (k * UnitBits - Rel(rank, k)) = i - cu
        BY <3>1, <4>2, <4>3
      <4> QED BY <1>5, <3>1, <4>4
    <3> QED BY <3>2, <3>3
  <2>9. u < L
    BY <1>1, <2>6, <2>7, UnitInUse
  <2>10. Slice(X, u) = Complement(At(v.units, u))
    <3>1. Slice(Unset(units), u) = Complement(At(units, u))
      BY <1>1, <2>7, <2>9, UnitsAre
    <3> QED BY <1>1, <3>1
  <2> QED BY <2>6, <2>7, <2>8, <2>10
<1> QED BY <1>1, <1>5, <1>6, <1>7, <1>8

USE BitVectorAssumption

(* The bits of a vector, and what counting them bit by bit gives.          *)
LEMMA BitIs ==
  ASSUME NEW v, UnitsFit(v.units, v.size), NEW p \in Nat, p < v.size
  PROVE  (p % UnitBits \in At(v.units, p \div UnitBits)) <=> p \in OnesOf(v.units)
<1>1. PICK L, span : /\ L = Len(v.units) /\ span = v.size /\ L \in Nat /\ span \in Nat
                     /\ p < span /\ span <= L * UnitBits
  <2>1. v.units \in Seq(SUBSET UnitPlaces) /\ v.size \in Nat /\ v.size <= Len(v.units) * UnitBits
    BY DEF UnitsFit
  <2>2. Len(v.units) \in Nat
    BY <2>1, LenNat
  <2> QED BY <2>1, <2>2
<1>2. PICK u \in Nat, ud \in Nat : u = p \div UnitBits /\ ud = u * UnitBits /\ ud <= p
  <2>1. /\ p \div UnitBits \in Nat /\ p % UnitBits \in UnitPlaces
        /\ p = (p \div UnitBits) * UnitBits + (p % UnitBits)
    BY PlaceOf
  <2>2. (p \div UnitBits) * UnitBits \in Nat
    BY <2>1
  <2> QED BY <2>1, <2>2 DEF UnitPlaces
<1>3. u < L
  BY <1>1, <1>2, UnitInUse
<1> QED BY <1>1, <1>2, <1>3 DEF OnesOf

LEMMA RanksAre ==
  ASSUME NEW v, UnitsFit(v.units, v.size), NEW i \in 0 .. v.size
  PROVE  /\ Rank1(BitsOf(v), i) = Count(OnesOf(v.units), i)
         /\ Rank(BitsOf(v), FALSE, i) = Count(Unset(v.units), i)
<1>1. v.size \in Nat
  BY DEF UnitsFit
<1>2. ASSUME NEW p \in 0 .. i - 1
      PROVE  /\ At(BitsOf(v), p) = TRUE <=> p \in OnesOf(v.units)
             /\ At(BitsOf(v), p) = FALSE <=> p \in Unset(v.units)
  <2>1. p \in Nat /\ p < v.size /\ p + 1 \in 1 .. v.size /\ (p + 1) - 1 = p
    BY <1>1
  <2>2. BitsOf(v)[p + 1] = BitAt(v, (p + 1) - 1)
    BY Zenon, <2>1 DEF BitsOf
  <2>3. At(BitsOf(v), p) = BitAt(v, p)
    BY Zenon, <2>1, <2>2 DEF At
  <2>4. At(BitsOf(v), p) = (p % UnitBits \in At(v.units, p \div UnitBits))
    BY Zenon, <2>3 DEF BitAt
  <2>5. (p % UnitBits \in At(v.units, p \div UnitBits)) <=> p \in OnesOf(v.units)
    BY <2>1, BitIs
  <2>6. p \in Unset(v.units) <=> ~ (p \in OnesOf(v.units))
    BY <2>1 DEF Unset
  <2>7. (At(BitsOf(v), p) = TRUE) <=> (p % UnitBits \in At(v.units, p \div UnitBits))
    BY Zenon, <2>4
  <2>8. (At(BitsOf(v), p) = FALSE) <=> ~ (p % UnitBits \in At(v.units, p \div UnitBits))
    <3>1. \A a \in BOOLEAN : (a = FALSE) <=> ~a
      OBVIOUS
    <3>2. (p % UnitBits \in At(v.units, p \div UnitBits)) \in BOOLEAN
      OBVIOUS
    <3> QED BY Zenon, <2>4, <3>1, <3>2
  <2> QED BY Zenon, <2>5, <2>6, <2>7, <2>8
<1>3. {p \in 0 .. i - 1 : At(BitsOf(v), p) = TRUE} = Before(OnesOf(v.units), i)
  BY Zenon, <1>2 DEF Before
<1>4. {p \in 0 .. i - 1 : At(BitsOf(v), p) = FALSE} = Before(Unset(v.units), i)
  BY Zenon, <1>2 DEF Before
<1> QED BY Zenon, <1>3, <1>4 DEF Rank1, Rank, Count

-----------------------------------------------------------------------------
(* The units that lanes see, and the search of a warp by its loop.         *)
UnitRead(units, beyond, u) == IF u < Len(units) THEN At(units, u) ELSE beyond

WarpLoop(f, units, beyond) ==
  f = [u \in Nat |->
        LET stops == {w \in u .. u + Lanes - 1 : Complement(UnitRead(units, beyond, w)) # {}}
        IN IF stops = {} THEN f[u + Lanes] ELSE CHOOSE w \in stops : \A x \in stops : w <= x]

StopsOf(units, beyond) == {w \in Nat : Complement(UnitRead(units, beyond, w)) # {}}

LeastOf(T) == CHOOSE w \in T : \A x \in T : w <= x

LEMMA LeastIs ==
  ASSUME NEW T \in SUBSET Nat, T # {}
  PROVE  LeastOf(T) \in T /\ LeastOf(T) \in Nat /\ \A x \in T : LeastOf(T) <= x
<1>1. \E w \in T : \A x \in T : w <= x
  BY LeastNumber
<1>2. LeastOf(T) \in T /\ \A x \in T : LeastOf(T) <= x
  BY <1>1 DEF LeastOf
<1> QED BY <1>2

(* The stops of the lanes that look from a unit on, and those ahead.       *)
InLanes(Z, u) == {w \in u .. u + Lanes - 1 : w \in Z}

Ahead(Z, u) == {w \in Z : u <= w}

LEMMA LanesSee ==
  ASSUME NEW Z \in SUBSET Nat, NEW u \in Nat
  PROVE  /\ InLanes(Z, u) \in SUBSET Nat /\ Ahead(Z, u) \in SUBSET Nat
         /\ InLanes(Z, u) = {} => Ahead(Z, u) = Ahead(Z, u + Lanes)
         /\ InLanes(Z, u) # {} =>
              /\ Ahead(Z, u) # {} /\ LeastOf(InLanes(Z, u)) \in Ahead(Z, u)
              /\ \A x \in Ahead(Z, u) : LeastOf(InLanes(Z, u)) <= x
<1>1. Lanes \in Nat /\ Lanes > 0
  OBVIOUS
<1>2. InLanes(Z, u) \in SUBSET Nat /\ Ahead(Z, u) \in SUBSET Nat
  BY DEF InLanes, Ahead
<1>3. ASSUME InLanes(Z, u) = {} PROVE Ahead(Z, u) = Ahead(Z, u + Lanes)
  <2>1. ASSUME NEW w \in Z, u <= w PROVE u + Lanes <= w
    <3>1. w \in Nat /\ w \notin u .. u + Lanes - 1
      BY <1>3, <2>1 DEF InLanes
    <3> QED BY <1>1, <2>1, <3>1
  <2>2. ASSUME NEW w \in Z, u + Lanes <= w PROVE u <= w
    BY <1>1, <2>2
  <2> QED BY <2>1, <2>2 DEF Ahead
<1>4. ASSUME InLanes(Z, u) # {}
      PROVE  /\ Ahead(Z, u) # {} /\ LeastOf(InLanes(Z, u)) \in Ahead(Z, u)
             /\ \A x \in Ahead(Z, u) : LeastOf(InLanes(Z, u)) <= x
  <2>1. PICK w \in Nat : w = LeastOf(InLanes(Z, u)) /\ w \in InLanes(Z, u) /\ \A x \in InLanes(Z, u) : w <= x
    BY <1>2, <1>4, LeastIs
  <2>2. w \in Z /\ u <= w /\ w <= u + Lanes - 1
    BY <1>1, <2>1 DEF InLanes
  <2>3. ASSUME NEW x \in Ahead(Z, u) PROVE w <= x
    <3>1. x \in Nat /\ x \in Z /\ u <= x
      BY DEF Ahead
    <3>2. CASE x <= u + Lanes - 1
      <4>1. x \in InLanes(Z, u)
        BY <1>1, <3>1, <3>2 DEF InLanes
      <4> QED BY <2>1, <4>1
    <3>3. CASE ~ (x <= u + Lanes - 1)
      BY <1>1, <2>2, <3>1, <3>3
    <3> QED BY <3>2, <3>3
  <2> QED BY <2>1, <2>2, <2>3 DEF Ahead
<1> QED BY <1>2, <1>3, <1>4

LEMMA LeastAlike ==
  ASSUME NEW T \in SUBSET Nat, NEW w \in T, \A x \in T : w <= x
  PROVE  LeastOf(T) = w
<1>1. LeastOf(T) \in T /\ LeastOf(T) \in Nat /\ LeastOf(T) <= w /\ w \in Nat
  BY LeastIs
<1>2. w <= LeastOf(T)
  BY <1>1
<1> QED BY <1>1, <1>2

(* One turn of the loop, in these words.                                   *)
WarpTurns(f, Z) ==
  f = [u \in Nat |-> IF InLanes(Z, u) = {} THEN f[u + Lanes] ELSE LeastOf(InLanes(Z, u))]

LEMMA WarpIs ==
  ASSUME NEW units, NEW beyond, NEW f
  PROVE  WarpLoop(f, units, beyond) <=> WarpTurns(f, StopsOf(units, beyond))
<1>1. ASSUME NEW u \in Nat
      PROVE  {w \in u .. u + Lanes - 1 : Complement(UnitRead(units, beyond, w)) # {}}
               = InLanes(StopsOf(units, beyond), u)
  <2>1. \A w \in u .. u + Lanes - 1 : w \in Nat
    OBVIOUS
  <2> QED BY <2>1 DEF InLanes, StopsOf
<1> DEFINE seen(u) == {w \in u .. u + Lanes - 1 : Complement(UnitRead(units, beyond, w)) # {}}
           one(u) == IF seen(u) = {} THEN f[u + Lanes] ELSE LeastOf(seen(u))
           two(u) == IF InLanes(StopsOf(units, beyond), u) = {} THEN f[u + Lanes]
                     ELSE LeastOf(InLanes(StopsOf(units, beyond), u))
<1>2. ASSUME NEW u \in Nat PROVE one(u) = two(u)
  <2>1. seen(u) = InLanes(StopsOf(units, beyond), u)
    BY <1>1
  <2> HIDE DEF seen
  <2> QED BY <2>1
<1>3. WarpLoop(f, units, beyond) <=> f = [u \in Nat |-> one(u)]
  BY Zenon DEF WarpLoop, LeastOf
<1>4. WarpTurns(f, StopsOf(units, beyond)) <=> f = [u \in Nat |-> two(u)]
  BY Zenon DEF WarpTurns
<1> HIDE DEF one, two
<1>5. [u \in Nat |-> one(u)] = [u \in Nat |-> two(u)]
  BY <1>2
<1> QED BY <1>3, <1>4, <1>5

LEMMA WarpExists ==
  ASSUME NEW Z \in SUBSET Nat
  PROVE  \E f : WarpTurns(f, Z)
<1> DEFINE f == [u \in Nat |-> LeastOf(Ahead(Z, u))]
<1>1. ASSUME NEW u \in Nat
      PROVE  f[u] = IF InLanes(Z, u) = {} THEN f[u + Lanes] ELSE LeastOf(InLanes(Z, u))
  <2>1. u + Lanes \in Nat
    OBVIOUS
  <2>2. f[u] = LeastOf(Ahead(Z, u)) /\ f[u + Lanes] = LeastOf(Ahead(Z, u + Lanes))
    BY <2>1
  <2>3. CASE InLanes(Z, u) = {}
    <3>1. Ahead(Z, u) = Ahead(Z, u + Lanes)
      BY <2>3, LanesSee
    <3> HIDE DEF f
    <3> QED BY <2>2, <2>3, <3>1
  <2>4. CASE InLanes(Z, u) # {}
    <3>1. PICK w : w = LeastOf(InLanes(Z, u))
      OBVIOUS
    <3>2. w \in Ahead(Z, u) /\ (\A x \in Ahead(Z, u) : w <= x) /\ Ahead(Z, u) \in SUBSET Nat
      BY <2>4, <3>1, LanesSee
    <3>3. LeastOf(Ahead(Z, u)) = w
      BY <3>2, LeastAlike
    <3> HIDE DEF f
    <3> QED BY <2>2, <2>4, <3>1, <3>3
  <2> QED BY <2>3, <2>4
<1>2. f = [u \in Nat |-> f[u]]
  OBVIOUS
<1> HIDE DEF f
<1>3. f = [u \in Nat |-> IF InLanes(Z, u) = {} THEN f[u + Lanes] ELSE LeastOf(InLanes(Z, u))]
  BY <1>1, <1>2
<1> QED BY Zenon, <1>3 DEF WarpTurns

(* Where there is a stop ahead, the search ends at the nearest.            *)
LEMMA WarpFinds ==
  ASSUME NEW Z \in SUBSET Nat, NEW f, WarpTurns(f, Z), NEW u \in Nat, NEW w \in Z, u <= w
  PROVE  f[u] \in Ahead(Z, u) /\ \A x \in Ahead(Z, u) : f[u] <= x
<1> DEFINE Found(n) == f[n] \in Ahead(Z, n) /\ \A x \in Ahead(Z, n) : f[n] <= x
           T == {d \in Nat : \E n \in Nat : n + d \in Z /\ ~ Found(n)}
<1>1. ASSUME T # {} PROVE FALSE
  <2>1. PICK d \in T : \A l \in T : d <= l
    <3>1. T \in SUBSET Nat
      OBVIOUS
    <3> HIDE DEF T
    <3> QED BY <1>1, <3>1, LeastNumber
  <2>2. PICK n \in Nat : n + d \in Z /\ ~ Found(n)
    BY <2>1
  <2>3. f[n] = IF InLanes(Z, n) = {} THEN f[n + Lanes] ELSE LeastOf(InLanes(Z, n))
    BY DEF WarpTurns
  <2>4. CASE InLanes(Z, n) = {}
    <3>1. d \in Nat /\ Lanes \in Nat \ {0}
      BY <2>1
    <3>2. Lanes <= d
      <4>1. SUFFICES ASSUME d < Lanes PROVE FALSE
        BY <3>1
      <4>2. n + d \in InLanes(Z, n)
        BY <2>2, <3>1, <4>1 DEF InLanes
      <4> QED BY <2>4, <4>2
    <3>3. PICK e \in Nat : e = d - Lanes /\ (n + Lanes) + e = n + d /\ ~ (d <= e)
      <4>1. d - Lanes \in Nat /\ (n + Lanes) + (d - Lanes) = n + d /\ ~ (d <= d - Lanes)
        BY <3>1, <3>2
      <4> QED BY <4>1
    <3>4. e \notin T
      <4> HIDE DEF T
      <4> QED BY <2>1, <3>3
    <3>5. n + Lanes \in Nat /\ (n + Lanes) + e \in Z
      BY <2>2, <3>1, <3>3
    <3>6. Found(n + Lanes)
      <4> HIDE DEF Found
      <4> QED BY <3>4, <3>5
    <3>7. Ahead(Z, n) = Ahead(Z, n + Lanes) /\ f[n] = f[n + Lanes]
      BY <2>3, <2>4, LanesSee
    <3>8. Found(n)
      BY <3>6, <3>7
    <3> QED BY <2>2, <3>8
  <2>5. CASE InLanes(Z, n) # {}
    <3>1. f[n] = LeastOf(InLanes(Z, n))
      BY <2>3, <2>5
    <3>2. /\ LeastOf(InLanes(Z, n)) \in Ahead(Z, n)
          /\ \A x \in Ahead(Z, n) : LeastOf(InLanes(Z, n)) <= x
      BY <2>5, LanesSee
    <3>3. Found(n)
      BY <3>1, <3>2
    <3> QED BY <2>2, <3>3
  <2> QED BY <2>4, <2>5
<1>2. w - u \in Nat /\ u + (w - u) = w
  OBVIOUS
<1>3. Found(u)
  <2>1. PICK d \in Nat : d = w - u /\ u + d \in Z
    BY <1>2
  <2>2. d \notin T
    <3> HIDE DEF T
    <3> QED BY <1>1
  <2> HIDE DEF Found
  <2> QED BY <2>1, <2>2
<1> QED BY <1>3

(* The first bit of a unit that has any.                                   *)
LEMMA FirstBit ==
  ASSUME NEW C \in SUBSET UnitPlaces, C # {}
  PROVE  SelectBit(0, C) \in C /\ SelectBit(0, C) \in UnitPlaces /\ \A c \in C : SelectBit(0, C) <= c
<1>1. \A c \in C : c \in Nat /\ c < UnitBits
  BY DEF UnitPlaces
<1>2. 0 < Cardinality(C)
  <2>1. PICK c \in Nat : c \in C /\ c < UnitBits
    BY <1>1
  <2>2. Count(C, c) < Count(C, UnitBits) /\ Count(C, c) \in Nat /\ Count(C, UnitBits) \in Nat
    BY <2>1, CountGrows
  <2>3. Cardinality(C) = Count(C, UnitBits)
    BY UnitCounts
  <2> QED BY <2>2, <2>3
<1>3. SelectBit(0, C) \in C /\ SelectBit(0, C) \in UnitPlaces /\ Count(C, SelectBit(0, C)) = 0
  <2>1. 0 \in Nat
    OBVIOUS
  <2> QED BY <1>2, <2>1, BitSelected
<1>4. PICK q \in Nat : q = SelectBit(0, C) /\ q \in C /\ Count(C, q) = 0
  BY <1>1, <1>3
<1>5. ASSUME NEW c \in C PROVE q <= c
  <2>1. c \in Nat /\ c \in C
    BY <1>1
  <2>2. ASSUME c < q PROVE FALSE
    <3>1. Count(C, c) < Count(C, q) /\ Count(C, c) \in Nat
      BY <2>1, <2>2, CountGrows
    <3> QED BY <1>4, <3>1
  <2> QED BY <2>1, <2>2
<1> QED BY <1>3, <1>4, <1>5

(* The 0s of a vector, by the units that lanes read.                       *)
ZerosIn(units, beyond, u) == Complement(UnitRead(units, beyond, u))

LEMMA ZerosAre ==
  ASSUME NEW units, NEW span, UnitsFit(units, span), NEW beyond, NEW z \in Unset(units), z < span
  PROVE  /\ z \in Nat /\ z \div UnitBits \in Nat /\ z \div UnitBits < Len(units)
         /\ z % UnitBits \in ZerosIn(units, beyond, z \div UnitBits)
         /\ z = (z \div UnitBits) * UnitBits + (z % UnitBits)
<1>1. span \in Nat /\ span <= Len(units) * UnitBits /\ Len(units) \in Nat
  <2>1. units \in Seq(SUBSET UnitPlaces) /\ span \in Nat /\ span <= Len(units) * UnitBits
    BY DEF UnitsFit
  <2> QED BY <2>1, LenNat
<1>2. z \in Nat /\ z \notin OnesOf(units)
  BY DEF Unset
<1>3. PICK u \in Nat, b \in UnitPlaces, ud \in Nat :
        u = z \div UnitBits /\ b = z % UnitBits /\ z = ud + b /\ ud = u * UnitBits /\ ud <= z
  <2>1. /\ z \div UnitBits \in Nat /\ z % UnitBits \in UnitPlaces
        /\ z = (z \div UnitBits) * UnitBits + (z % UnitBits)
    BY <1>2, PlaceOf
  <2>2. (z \div UnitBits) * UnitBits \in Nat
    BY <2>1
  <2> QED BY <2>1, <2>2 DEF UnitPlaces
<1>4. u < Len(units)
  BY <1>1, <1>2, <1>3, UnitInUse
<1>5. b \in ZerosIn(units, beyond, u)
  <2>1. b \in Slice(Unset(units), u)
    BY <1>3 DEF Slice
  <2>2. b \in Complement(At(units, u))
    BY <1>4, <2>1, UnitsAre
  <2> QED BY <1>4, <2>2 DEF ZerosIn, UnitRead
<1> QED BY <1>2, <1>3, <1>4, <1>5

LEMMA ZeroOf ==
  ASSUME NEW units, NEW span, UnitsFit(units, span), NEW beyond,
         NEW u \in Nat, u < Len(units), NEW b \in ZerosIn(units, beyond, u)
  PROVE  b \in UnitPlaces /\ u * UnitBits + b \in Unset(units)
<1>1. b \in Complement(At(units, u))
  BY DEF ZerosIn, UnitRead
<1>2. b \in Slice(Unset(units), u)
  BY <1>1, UnitsAre
<1> QED BY <1>2 DEF Slice

LEMMA ZeroNearer ==
  ASSUME NEW u \in Nat, NEW b \in UnitPlaces, NEW w \in Nat, NEW c \in UnitPlaces,
         u < w \/ (u = w /\ b <= c)
  PROVE  u * UnitBits + b <= w * UnitBits + c
<1>1. PICK ud \in Nat, wd \in Nat : /\ ud = u * UnitBits /\ wd = w * UnitBits
                                    /\ (u < w => ud + UnitBits <= wd)
  BY ProductGrows
<1> QED BY <1>1 DEF UnitPlaces

(* WarpFindNextUnset finds the next 0, if there is one.                    *)
NextZero(v, i, found) ==
  /\ found \in Nat /\ found \in Unset(v.units) /\ i <= found /\ found < v.size
  /\ \A z \in Unset(v.units) : i <= z /\ z < v.size => found <= z

LEMMA WarpAnswers ==
  ASSUME NEW v, UnitsFit(v.units, v.size), NEW i \in 0 .. v.size - 1, NEW beyond \in SUBSET UnitPlaces,
         NEW there \in Unset(v.units), i <= there, there < v.size
  PROVE  NextZero(v, i, WarpFindNextUnset(v, i, beyond))
<1>1. PICK units, span : units = v.units /\ span = v.size /\ UnitsFit(units, span) /\ span \in Nat
  BY DEF UnitsFit
<1>2. i \in Nat /\ i < span
  BY <1>1
<1>3. PICK first \in Nat, e \in UnitPlaces :
        first = i \div UnitBits /\ e = i % UnitBits /\ i = first * UnitBits + e
  BY <1>2, PlaceOf
<1> DEFINE f == CHOOSE g : WarpLoop(g, v.units, beyond)
           here == {b \in ZerosIn(v.units, beyond, first) : b >= e}
           found == WarpFindNextUnset(v, i, beyond)
<1>4. found = IF here # {} THEN first * UnitBits + LeastOf(here)
              ELSE f[first + 1] * UnitBits + SelectBit(0, ZerosIn(v.units, beyond, f[first + 1]))
  <2>1. found =
          IF {b \in ZerosIn(v.units, beyond, i \div UnitBits) : b >= i % UnitBits} # {}
          THEN (i \div UnitBits) * UnitBits
                 + LeastOf({b \in ZerosIn(v.units, beyond, i \div UnitBits) : b >= i % UnitBits})
          ELSE f[i \div UnitBits + 1] * UnitBits
                 + SelectBit(0, ZerosIn(v.units, beyond, f[i \div UnitBits + 1]))
    BY Zenon DEF WarpFindNextUnset, WarpLoop, ZerosIn, UnitRead, LeastOf
  <2> HIDE DEF f, found
  <2> QED BY Zenon, <1>3, <2>1
<1>5. PICK Z \in SUBSET Nat : /\ WarpTurns(f, Z)
                              /\ \A w \in Nat : w \in Z <=> ZerosIn(units, beyond, w) # {}
  <2>1. StopsOf(units, beyond) \in SUBSET Nat
    BY DEF StopsOf
  <2>2. \E g : WarpTurns(g, StopsOf(units, beyond))
    BY <2>1, WarpExists
  <2>3. \E g : WarpLoop(g, units, beyond)
    BY <2>2, WarpIs
  <2>4. WarpLoop(f, units, beyond)
    BY <1>1, <2>3
  <2> HIDE DEF f
  <2>5. WarpTurns(f, StopsOf(units, beyond))
    BY <2>4, WarpIs
  <2>6. \A w \in Nat : w \in StopsOf(units, beyond) <=> ZerosIn(units, beyond, w) # {}
    BY DEF StopsOf, ZerosIn
  <2> QED BY <2>1, <2>5, <2>6
<1>6. \A u \in Nat : ZerosIn(units, beyond, u) \in SUBSET UnitPlaces
  BY DEF ZerosIn, Complement
<1>7. PICK H : H = here /\ H = {b \in ZerosIn(units, beyond, first) : b >= e}
  BY <1>1
<1> HIDE DEF f, here, found
<1>8. \A z \in Unset(units) : z < span => /\ z \in Nat /\ z \div UnitBits \in Nat
                                          /\ z \div UnitBits < Len(units)
                                          /\ z % UnitBits \in ZerosIn(units, beyond, z \div UnitBits)
                                          /\ z % UnitBits \in UnitPlaces
                                          /\ z = (z \div UnitBits) * UnitBits + (z % UnitBits)
  BY <1>1, <1>6, ZerosAre
<1>9. ASSUME NEW z \in Unset(units), i <= z, z < span
      PROVE  \E w \in Nat, c \in UnitPlaces : /\ z = w * UnitBits + c /\ w < Len(units)
                                              /\ c \in ZerosIn(units, beyond, w)
                                              /\ (first < w \/ (first = w /\ c \in H))
  <2>1. PICK w \in Nat, c \in UnitPlaces : /\ z = w * UnitBits + c /\ w < Len(units)
                                           /\ c \in ZerosIn(units, beyond, w)
    BY <1>8, <1>9
  <2>2. PICK wd \in Nat, fd \in Nat : /\ wd = w * UnitBits /\ fd = first * UnitBits
                                      /\ (w < first => wd + UnitBits <= fd)
    BY ProductGrows
  <2>3. c \in Nat /\ c < UnitBits /\ e \in Nat
    BY DEF UnitPlaces
  <2>4. ~ (w < first)
    BY <1>3, <1>9, <2>1, <2>2, <2>3
  <2>5. first = w => e <= c
    BY <1>3, <1>9, <2>1, <2>2, <2>3
  <2>6. first < w \/ (first = w /\ c \in H)
    <3>1. CASE first = w
      BY <1>7, <2>1, <2>3, <2>5, <3>1
    <3>2. CASE first # w
      BY <2>4, <3>2
    <3> QED BY <3>1, <3>2
  <2> QED BY <2>1, <2>6
<1>10. PICK w0 \in Nat, c0 \in UnitPlaces :
         /\ there = w0 * UnitBits + c0 /\ w0 < Len(units) /\ c0 \in ZerosIn(units, beyond, w0)
         /\ (first < w0 \/ (first = w0 /\ c0 \in H))
  BY <1>1, <1>9
<1>11. Len(units) \in Nat
  BY <1>1, LenNat DEF UnitsFit
<1> DEFINE Nearest(u, q) ==
             \A w \in Nat, c \in UnitPlaces :
               c \in ZerosIn(units, beyond, w) /\ (first < w \/ (first = w /\ c \in H))
                 => u < w \/ (u = w /\ q <= c)
<1>12. PICK u \in Nat, q \in UnitPlaces :
         /\ found = u * UnitBits + q /\ u < Len(units) /\ q \in ZerosIn(units, beyond, u) /\ i <= found
         /\ Nearest(u, q)
  <2>1. CASE H # {}
    <3>1. H \in SUBSET Nat /\ H \in SUBSET UnitPlaces
      BY <1>6, <1>7 DEF UnitPlaces
    <3>2. PICK q \in UnitPlaces : q = LeastOf(H) /\ q \in H /\ \A x \in H : q <= x
      BY <2>1, <3>1, LeastIs
    <3>3. found = first * UnitBits + q
      BY <1>4, <1>7, <2>1, <3>2
    <3>4. first < Len(units)
      BY <1>10, <1>11
    <3>5. q \in ZerosIn(units, beyond, first) /\ q >= e
      BY <1>7, <3>2
    <3>6. i <= found
      <4>1. q \in Nat /\ e \in Nat /\ first * UnitBits \in Nat
        BY DEF UnitPlaces
      <4> QED BY <1>3, <3>3, <3>5, <4>1
    <3>7. Nearest(first, q)
      BY <3>2
    <3> HIDE DEF Nearest
    <3> QED BY <3>3, <3>4, <3>5, <3>6, <3>7
  <2>2. CASE H = {}
    <3>1. first < w0 /\ w0 \in Z /\ first + 1 <= w0 /\ first + 1 \in Nat
      BY <1>5, <1>10, <2>2
    <3>2. f[first + 1] \in Ahead(Z, first + 1) /\ \A x \in Ahead(Z, first + 1) : f[first + 1] <= x
      BY <1>5, <3>1, WarpFinds
    <3>3. PICK u \in Nat : /\ u = f[first + 1] /\ u \in Z /\ first + 1 <= u
                           /\ \A x \in Z : first + 1 <= x => u <= x
      BY <3>2 DEF Ahead
    <3>4. u < Len(units)
      BY <1>10, <1>11, <3>1, <3>3
    <3>5. PICK C : C = ZerosIn(units, beyond, u) /\ C \in SUBSET UnitPlaces /\ C # {}
      BY <1>5, <1>6, <3>3
    <3>6. PICK q \in UnitPlaces : q = SelectBit(0, C) /\ q \in C /\ \A c \in C : q <= c
      BY <3>5, FirstBit
    <3>7. found = u * UnitBits + q
      BY <1>1, <1>4, <1>7, <2>2, <3>3, <3>5, <3>6
    <3>8. i <= found
      <4>1. first * UnitBits + e <= u * UnitBits + q
        <5>1. first < u
          BY <3>3
        <5> QED BY <5>1, ZeroNearer
      <4> QED BY <1>3, <3>7, <4>1
    <3>9. ASSUME NEW w \in Nat, NEW c \in UnitPlaces, c \in ZerosIn(units, beyond, w),
                 first < w \/ (first = w /\ c \in H)
          PROVE  u < w \/ (u = w /\ q <= c)
      <4>1. w \in Z /\ first + 1 <= w
        BY <1>5, <2>2, <3>9
      <4>2. u <= w
        BY <3>3, <4>1
      <4>3. u = w => q <= c
        BY <3>5, <3>6, <3>9
      <4> QED BY <4>2, <4>3
    <3>10. Nearest(u, q)
      BY <3>9
    <3> HIDE DEF Nearest
    <3> QED BY <3>4, <3>5, <3>6, <3>7, <3>8, <3>10
  <2> QED BY <2>1, <2>2
<1>13. found \in Unset(units) /\ found \in Nat
  <2>1. u * UnitBits + q \in Unset(units)
    BY <1>1, <1>12, ZeroOf
  <2> QED BY <1>12, <2>1 DEF Unset
<1>14. ASSUME NEW z \in Unset(units), i <= z, z < span PROVE found <= z
  <2>1. PICK w \in Nat, c \in UnitPlaces : /\ z = w * UnitBits + c /\ c \in ZerosIn(units, beyond, w)
                                           /\ (first < w \/ (first = w /\ c \in H))
    BY <1>9, <1>14
  <2>2. u < w \/ (u = w /\ q <= c)
    BY <1>12, <2>1
  <2>3. u * UnitBits + q <= w * UnitBits + c
    BY <2>2, ZeroNearer
  <2> QED BY <1>12, <2>1, <2>3
<1>15. found < span
  <2>1. found <= there /\ there \in Nat
    <3>1. there \in Unset(units) /\ i <= there /\ there < span
      BY <1>1
    <3> QED BY <1>8, <1>14, <3>1
  <2>2. there < span
    BY <1>1
  <2> QED BY <1>1, <1>13, <2>1, <2>2
<1> QED BY <1>1, <1>12, <1>13, <1>14, <1>15 DEF NextZero, found

(* What an index holds makes its answers true.                             *)
LEMMA IndexTells ==
  ASSUME NEW v, IndexTrue(v)
  PROVE  AnswersTrue(v)
<1>1. UnitsFit(v.units, v.size) /\ v.size \in Nat
  BY DEF IndexTrue, UnitsFit
<1>2. \A p \in 0 .. v.size - 1 : p \in Nat /\ p < v.size /\ p \in 0 .. v.size
  BY <1>1
<1>3. ASSUME NEW p \in 0 .. v.size - 1
      PROVE  /\ BitAt(v, p) <=> p \in OnesOf(v.units)
             /\ ~BitAt(v, p) <=> p \in Unset(v.units)
  <2>1. BitAt(v, p) <=> p \in OnesOf(v.units)
    BY Zenon, <1>1, <1>2, BitIs DEF BitAt
  <2>2. p \in Unset(v.units) <=> ~ (p \in OnesOf(v.units))
    BY <1>2 DEF Unset
  <2> QED BY Zenon, <2>1, <2>2
<1>4. ASSUME NEW i \in 0 .. v.size PROVE IndexedRank1(v, i) = Rank1(BitsOf(v), i)
  BY <1>1, RankAnswers, RanksAre
<1>5. ASSUME NEW p \in 0 .. v.size - 1, v.select0s # << >>, ~BitAt(v, p)
      PROVE  IndexedSelect0(v, Rank(BitsOf(v), FALSE, p)) = p
  <2>1. p \in Unset(v.units) /\ p < v.size /\ p \in 0 .. v.size
    BY Zenon, <1>2, <1>3, <1>5
  <2>2. IndexedSelect0(v, Count(Unset(v.units), p)) = p
    BY <1>5, <2>1, Select0Answers
  <2>3. Rank(BitsOf(v), FALSE, p) = Count(Unset(v.units), p)
    BY <1>1, <2>1, RanksAre
  <2> QED BY <2>2, <2>3
<1>6. ASSUME NEW p \in 0 .. v.size - 1, v.select1s # << >>, BitAt(v, p)
      PROVE  IndexedSelect1(v, Rank1(BitsOf(v), p)) = p
  <2>1. p \in OnesOf(v.units) /\ p \in 0 .. v.size
    BY Zenon, <1>2, <1>3, <1>6
  <2>2. IndexedSelect1(v, Count(OnesOf(v.units), p)) = p
    BY <1>6, <2>1, Select1Answers
  <2>3. Rank1(BitsOf(v), p) = Count(OnesOf(v.units), p)
    BY <1>1, <2>1, RanksAre
  <2> QED BY <2>2, <2>3
<1>7. ASSUME NEW i \in 0 .. v.size - 1, NEW beyond \in {{}, UnitPlaces},
             {z \in i .. v.size - 1 : ~BitAt(v, z)} # {}
      PROVE  /\ WarpFindNextUnset(v, i, beyond) \in {z \in i .. v.size - 1 : ~BitAt(v, z)}
             /\ \A z \in {y \in i .. v.size - 1 : ~BitAt(v, y)} : WarpFindNextUnset(v, i, beyond) <= z
  <2>1. \A z \in i .. v.size - 1 : z \in 0 .. v.size - 1 /\ z \in Nat /\ i <= z /\ z < v.size
    BY <1>1
  <2>2. \A z \in i .. v.size - 1 : ~BitAt(v, z) <=> z \in Unset(v.units)
    BY Zenon, <1>3, <2>1
  <2>3. PICK there \in i .. v.size - 1 : there \in Unset(v.units)
    BY Zenon, <1>7, <2>2
  <2>4. NextZero(v, i, WarpFindNextUnset(v, i, beyond))
    BY <1>1, <2>1, <2>3, WarpAnswers
  <2>5. PICK found \in Nat : /\ found = WarpFindNextUnset(v, i, beyond)
                             /\ found \in Unset(v.units) /\ i <= found /\ found < v.size
                             /\ \A z \in Unset(v.units) : i <= z /\ z < v.size => found <= z
    BY <2>4 DEF NextZero
  <2>6. found \in i .. v.size - 1
    BY <1>1, <2>5
  <2>7. \A z \in i .. v.size - 1 : z \in Unset(v.units) => found <= z
    BY <2>1, <2>5
  <2> QED BY Zenon, <2>2, <2>5, <2>6, <2>7
<1> QED BY Zenon, <1>4, <1>5, <1>6, <1>7 DEF AnswersTrue

-----------------------------------------------------------------------------
(* A vector that has no index yet is one whose bits are pushed; one that   *)
(* has an index has a true one.                                            *)
IndexInv ==
  /\ ~indexed => vector \in Pushing
  /\ indexed => IndexTrue(vector)

LEMMA VectorStarts == VectorsInit => IndexInv
<1> SUFFICES ASSUME VectorsInit PROVE IndexInv
  OBVIOUS
<1>1. vector = EmptyBits /\ ~indexed
  BY DEF VectorsInit
<1>2. EmptyBits \in BitVectors
  BY DEF EmptyBits, BitVectors
<1>3. EmptyBits.units = << >> /\ EmptyBits.size = 0
  BY DEF EmptyBits
<1>4. UnitsFit(<< >>, 0)
  <2>1. << >> \in Seq(SUBSET UnitPlaces) /\ Len(<< >>) = 0 /\ 0 * UnitBits = 0
    OBVIOUS
  <2>2. OnesOf(<< >>) = {}
    <3>1. \A p \in Nat : ~ (p \div UnitBits < 0)
      BY PlaceOf
    <3> QED BY <2>1, <3>1 DEF OnesOf
  <2> QED BY <2>1, <2>2 DEF UnitsFit
<1> QED BY <1>1, <1>2, <1>3, <1>4 DEF IndexInv, Pushing

LEMMA IndexStays ==
  ASSUME NEW v, IndexTrue(v),
         NEW w, w \in {[v EXCEPT !.select0s = << >>], [v EXCEPT !.select1s = << >>]}
  PROVE  IndexTrue(w)
<1>1. v \in BitVectors
  BY DEF IndexTrue
<1>2. /\ w \in BitVectors /\ w.units = v.units /\ w.size = v.size /\ w.ranks = v.ranks
      /\ (w.select0s = v.select0s \/ w.select0s = << >>)
      /\ (w.select1s = v.select1s \/ w.select1s = << >>)
  <2>1. << >> \in Seq(Nat)
    OBVIOUS
  <2> QED BY <1>1, <2>1 DEF BitVectors
<1> QED BY <1>2 DEF IndexTrue

(* rank1, select0, select1 and warp_find_next_unset answer what counting   *)
(* bit by bit would (bit-vector.cc), whatever the bits are, however many   *)
(* there are, whichever of the selects are built or disabled afterwards,   *)
(* for units of any size and warps of any number of lanes.                 *)
THEOREM IndexTrusted == VectorsSpec => []IndexAnswers
<1>1. VectorsInit => IndexInv
  BY VectorStarts
<1>2. IndexInv /\ [BitsNext \/ ValuesNext]_vectorVars => IndexInv'
  <2>1. SUFFICES ASSUME IndexInv, [BitsNext \/ ValuesNext]_vectorVars PROVE IndexInv'
    OBVIOUS
  <2>2. CASE PushValue \/ Pack \/ UNCHANGED vectorVars
    <3>1. UNCHANGED <<vector, indexed>>
      BY <2>2 DEF PushValue, Pack, vectorVars
    <3> QED BY <2>1, <3>1 DEF IndexInv
  <2>3. CASE PushRun
    <3>1. ~indexed /\ indexed' = indexed /\ vector \in Pushing
      BY <2>1, <2>3 DEF PushRun, IndexInv
    <3>2. PICK bit \in BOOLEAN, n \in Runs : vector' = Pushed(vector, bit, n)
      BY <2>3 DEF PushRun
    <3>3. n \in Nat
      BY VectorsAssumption
    <3>4. vector' \in Pushing
      BY <3>1, <3>2, <3>3, RunPushed
    <3> QED BY <3>1, <3>4 DEF IndexInv
  <2>4. CASE Build
    <3>1. indexed' /\ vector \in Pushing
      BY <2>1, <2>4 DEF Build, IndexInv
    <3>2. PICK select0 \in BOOLEAN, select1 \in BOOLEAN : vector' = BuildIndex(vector, select0, select1)
      BY <2>4 DEF Build
    <3>3. IndexTrue(vector')
      BY <3>1, <3>2, IndexBuilt
    <3> QED BY <3>1, <3>3 DEF IndexInv
  <2>5. CASE DisableSelect
    <3>1. indexed /\ indexed' = indexed /\ IndexTrue(vector)
      BY <2>1, <2>5 DEF DisableSelect, IndexInv
    <3>2. vector' \in {[vector EXCEPT !.select0s = << >>], [vector EXCEPT !.select1s = << >>]}
      BY <2>5 DEF DisableSelect
    <3>3. IndexTrue(vector')
      BY <3>1, <3>2, IndexStays
    <3> QED BY <3>1, <3>3 DEF IndexInv
  <2> QED BY <2>1, <2>2, <2>3, <2>4, <2>5 DEF BitsNext, ValuesNext
<1>3. IndexInv => IndexAnswers
  BY IndexTells DEF IndexInv, IndexAnswers
<1> QED BY <1>1, <1>2, <1>3, PTL DEF VectorsSpec
=============================================================================
