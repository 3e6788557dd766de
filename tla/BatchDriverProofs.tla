------------------------- MODULE BatchDriverProofs --------------------------
(***************************************************************************)
(* Theorems about BatchDriver, for any device, any batch and any number of *)
(* threads: the thread blocks of all workspaces fit on the device, each    *)
(* request of a batch gets its own answer, and the variables keep their    *)
(* types.                                                                  *)
(***************************************************************************)
EXTENDS BatchDriver, SequenceTheorems, FiniteSetTheorems, WellFoundedInduction, TLAPS

(***************************************************************************)
(* Sums.                                                                   *)
(***************************************************************************)

(* A set of natural numbers that is not empty has a least one.             *)
LEMMA LeastOne ==
  ASSUME NEW T \in SUBSET Nat, T # {}
  PROVE  \E k \in T : \A l \in T : k <= l
<1> DEFINE R == OpToRel(<, Nat)
<1>1. \A x, y \in Nat : y < x => <<y, x>> \in R
  BY Zenon DEF OpToRel
<1>2. PICK k \in T : \A l \in T : <<l, k>> \notin R
  <2> HIDE DEF R
  <2> QED BY NatLessThanWellFounded, WFMin DEF R
<1>3. \A l \in T : ~ (l < k)
  BY <1>1, <1>2
<1> QED BY <1>3

(* Sums of the first so many, as far as m.                                 *)
SumsTo(x, m, f) ==
  DOMAIN f = 0 .. m /\ f[0] = 0 /\ \A k \in 0 .. m - 1 : f[k + 1] = f[k] + x[k]

LEMMA SumsToExist ==
  ASSUME NEW x, NEW m \in Nat
  PROVE  \E f : SumsTo(x, m, f)
<1> DEFINE T == {k \in Nat : ~ \E f : SumsTo(x, k, f)}
<1>1. SUFFICES ASSUME T # {} PROVE FALSE
  OBVIOUS
<1>2. PICK k \in T : \A l \in T : k <= l
  <2> HIDE DEF T
  <2>1. T \in SUBSET Nat
    BY DEF T
  <2> QED BY <1>1, <2>1, LeastOne
<1>3. k # 0
  <2>1. SumsTo(x, 0, [i \in 0 .. 0 |-> 0])
    BY DEF SumsTo
  <2> QED BY <1>2, <2>1
<1>4. k - 1 \in Nat /\ k - 1 \notin T
  BY <1>2, <1>3
<1>5. PICK f : SumsTo(x, k - 1, f)
  BY <1>4
<1> DEFINE g == [i \in 0 .. k |-> IF i = k THEN f[k - 1] + x[k - 1] ELSE f[i]]
<1>6. g[0] = 0
  BY <1>3, <1>5, <1>2 DEF SumsTo
<1>7. ASSUME NEW i \in 0 .. k - 1 PROVE g[i + 1] = g[i] + x[i]
  <2>1. k \in Nat /\ i \in 0 .. k /\ i + 1 \in 0 .. k /\ i # k
    BY <1>2
  <2>2. g[i] = f[i]
    BY <2>1
  <2>3. CASE i = k - 1
    <3>1. i + 1 = k
      BY <2>1, <2>3
    <3> QED BY <2>1, <2>2, <2>3, <3>1
  <2>4. CASE i # k - 1
    <3>1. i + 1 # k /\ i \in 0 .. (k - 1) - 1
      BY <2>1, <2>4
    <3>2. f[i + 1] = f[i] + x[i]
      BY <1>5, <3>1 DEF SumsTo
    <3> QED BY <2>1, <2>2, <3>1, <3>2
  <2> QED BY <2>3, <2>4
<1>8. SumsTo(x, k, g)
  <2>1. DOMAIN g = 0 .. k
    OBVIOUS
  <2> HIDE DEF g
  <2> QED BY <1>6, <1>7, <2>1 DEF SumsTo
<1> HIDE DEF g
<1> QED BY <1>2, <1>8

LEMMA SumsToAgree ==
  ASSUME NEW x, NEW m \in Nat, NEW n \in Nat, NEW f, NEW g,
         SumsTo(x, m, f), SumsTo(x, n, g), NEW k \in Nat, k <= m, k <= n
  PROVE  f[k] = g[k]
<1> DEFINE T == {j \in 0 .. k : f[j] # g[j]}
<1>1. SUFFICES ASSUME T # {} PROVE FALSE
  OBVIOUS
<1>2. PICK j \in T : \A l \in T : j <= l
  <2> HIDE DEF T
  <2>1. T \in SUBSET Nat
    BY DEF T
  <2> QED BY <1>1, <2>1, LeastOne
<1>3. j # 0
  BY <1>2 DEF SumsTo
<1>4. j - 1 \in 0 .. m - 1 /\ j - 1 \in 0 .. n - 1 /\ j - 1 \notin T /\ (j - 1) + 1 = j /\ j - 1 \in 0 .. k
  BY <1>2, <1>3
<1>5. f[j - 1] = g[j - 1]
  BY <1>4
<1>6. f[(j - 1) + 1] = f[j - 1] + x[j - 1] /\ g[(j - 1) + 1] = g[j - 1] + x[j - 1]
  BY <1>4 DEF SumsTo
<1>7. f[j] = g[j]
  BY <1>4, <1>5, <1>6
<1> QED BY <1>2, <1>7

(* The sums of the model are the sums they are named for.                  *)
LEMMA SumsOfType ==
  ASSUME NEW x
  PROVE  /\ SumsOf(x)[0] = 0
         /\ \A n \in Nat : SumsOf(x)[n + 1] = SumsOf(x)[n] + x[n]
<1> DEFINE s == [n \in Nat |-> (CHOOSE f : SumsTo(x, n, f))[n]]
           Sum(t) == [n \in Nat |-> IF n = 0 THEN 0 ELSE t[n - 1] + x[n - 1]]
<1>1. \A n \in Nat : SumsTo(x, n, CHOOSE f : SumsTo(x, n, f))
  BY SumsToExist
<1>2. ASSUME NEW n \in Nat PROVE s[n] = IF n = 0 THEN 0 ELSE s[n - 1] + x[n - 1]
  <2>1. PICK f : f = CHOOSE h : SumsTo(x, n, h)
    OBVIOUS
  <2>2. SumsTo(x, n, f) /\ s[n] = f[n]
    BY <1>1, <2>1
  <2>3. CASE n = 0
    BY <2>2, <2>3 DEF SumsTo
  <2>4. CASE n # 0
    <3>1. n - 1 \in Nat /\ n - 1 \in 0 .. n - 1 /\ (n - 1) + 1 = n
      BY <2>4
    <3>2. PICK g : g = CHOOSE h : SumsTo(x, n - 1, h)
      OBVIOUS
    <3>3. SumsTo(x, n - 1, g) /\ s[n - 1] = g[n - 1]
      BY <1>1, <3>1, <3>2
    <3>4. f[n - 1] = g[n - 1]
      <4> HIDE DEF s
      <4>1. n - 1 <= n /\ n - 1 <= n - 1
        OBVIOUS
      <4> QED BY <2>2, <3>1, <3>3, <4>1, SumsToAgree
    <3>5. f[n] = f[n - 1] + x[n - 1]
      BY <2>2, <3>1 DEF SumsTo
    <3> HIDE DEF s
    <3> QED BY <2>2, <2>4, <3>3, <3>4, <3>5
  <2> QED BY <2>3, <2>4
<1>3. s = Sum(s)
  <2> DEFINE r(n) == IF n = 0 THEN 0 ELSE s[n - 1] + x[n - 1]
  <2>1. \A n \in Nat : s[n] = r(n)
    BY <1>2
  <2>2. s = [n \in Nat |-> s[n]]
    OBVIOUS
  <2> HIDE DEF s
  <2>3. [n \in Nat |-> s[n]] = [n \in Nat |-> r(n)]
    BY <2>1
  <2> QED BY <2>2, <2>3
<1>4. SumsOf(x) = Sum(SumsOf(x))
  <2> HIDE DEF s
  <2>1. SumsOf(x) = CHOOSE t : t = Sum(t)
    BY DEF SumsOf
  <2> QED BY <1>3, <2>1
<1> HIDE DEF s
<1>5. PICK t : t = SumsOf(x)
  OBVIOUS
<1>6. t = [n \in Nat |-> IF n = 0 THEN 0 ELSE t[n - 1] + x[n - 1]]
  BY <1>4, <1>5
<1>7. t[0] = 0
  BY <1>6
<1>8. ASSUME NEW n \in Nat PROVE t[n + 1] = t[n] + x[n]
  <2>1. n + 1 \in Nat /\ n + 1 # 0 /\ (n + 1) - 1 = n
    OBVIOUS
  <2> QED BY <1>6, <2>1
<1> QED BY <1>5, <1>7, <1>8

-----------------------------------------------------------------------------
(***************************************************************************)
(* The thread blocks: what runs, and what is free.                         *)
(***************************************************************************)

(* A workspace: of its stream it matters that a running kernel is at its   *)
(* head.                                                                   *)
IsSeq(s) == \E S : s \in Seq(S)

IsRecord(w) ==
  w = [ hostIn |-> w.hostIn, devIn |-> w.devIn, dTrie |-> w.dTrie, setupDone |-> w.setupDone,
        devOut |-> w.devOut, hostOut |-> w.hostOut,
        stream |-> w.stream, running |-> w.running, numCtas |-> w.numCtas ]

IsWorkspace(w) ==
  /\ IsRecord(w)
  /\ IsSeq(w.stream)
  /\ w.running => w.stream # << >> /\ Head(w.stream).op = "kernel"

(* Shares of the device, and f: the blocks that the first b workspaces hold*)
Shares(n, q) ==
  /\ DOMAIN ws = 0 .. n - 1
  /\ \A b \in 0 .. n - 1 : ws[b].numCtas \in 0 .. q

Sums(n, f) ==
  /\ f \in [0 .. n -> Int]
  /\ f[0] = 0
  /\ \A b \in 0 .. n - 1 : f[b + 1] = f[b] + Held(ws[b])
  /\ free = TotalCtas - f[n]

GridsInv == \E n, q \in Nat : n * q <= TotalCtas /\ Shares(n, q) /\ \E f : Sums(n, f)

(* What is in a stream is waited for by a thread, so that nothing runs when*)
(* every thread is idle.                                                   *)
Waited(b) == \E t \in Thread : pc[t] # "next" /\ Serves(t, b)

Planned == DOMAIN todo = Thread /\ \A t \in Thread : todo[t] \subseteq Place

DriverInv ==
  /\ DOMAIN pc = Thread /\ Planned
  /\ \A b \in DOMAIN ws : IsWorkspace(ws[b]) /\ (ws[b].stream # << >> => Waited(b))
  /\ GridsInv

-----------------------------------------------------------------------------
(* Streams.                                                                *)
LEMMA SeqGrows ==
  ASSUME NEW s, IsSeq(s), NEW o
  PROVE  /\ IsSeq(s \o << o >>) /\ s \o << o >> # << >>
         /\ s # << >> => Head(s \o << o >>) = Head(s)
<1>1. PICK S : s \in Seq(S)
  BY DEF IsSeq
<1> DEFINE T == S \cup {o}
<1>2. s \in Seq(T) /\ << o >> \in Seq(T)
  BY <1>1
<1> HIDE DEF T
<1>3. s \o << o >> \in Seq(T) /\ Len(s \o << o >>) = Len(s) + 1 /\ Len(s) \in Nat
  BY <1>2
<1>4. s # << >> => Head(s \o << o >>) = Head(s)
  BY <1>2
<1> QED BY <1>3, <1>4 DEF IsSeq

LEMMA SeqShrinks ==
  ASSUME NEW s, IsSeq(s), s # << >>
  PROVE  IsSeq(Tail(s))
<1>1. PICK S : s \in Seq(S)
  BY DEF IsSeq
<1>2. Tail(s) \in Seq(S)
  BY <1>1
<1> QED BY <1>2 DEF IsSeq

(* Putting an operation into the stream of a workspace.                    *)
LEMMA EnqueuedKeeps ==
  ASSUME NEW w, IsWorkspace(w), NEW o
  PROVE  LET e == Enqueued(w, << o >>)
         IN  IsWorkspace(e) /\ e.stream # << >> /\ e.running = w.running /\ e.numCtas = w.numCtas
<1> DEFINE e == Enqueued(w, << o >>)
<1>1. e = [w EXCEPT !.stream = w.stream \o << o >>]
  BY DEF Enqueued
<1>2. e = [ hostIn |-> w.hostIn, devIn |-> w.devIn, dTrie |-> w.dTrie, setupDone |-> w.setupDone,
            devOut |-> w.devOut, hostOut |-> w.hostOut,
            stream |-> w.stream \o << o >>, running |-> w.running, numCtas |-> w.numCtas ]
  BY <1>1 DEF IsWorkspace, IsRecord
<1> HIDE DEF e
<1>3. IsSeq(e.stream) /\ e.stream # << >> /\ (w.stream # << >> => Head(e.stream) = Head(w.stream))
  BY <1>2, SeqGrows DEF IsWorkspace
<1> QED BY <1>2, <1>3 DEF IsWorkspace, IsRecord, e

(* Taking the first operation, when no kernel runs after it.               *)
LEMMA DoneKeeps ==
  ASSUME NEW w, IsRecord(w), IsSeq(w.stream), w.stream # << >>, ~ w.running
  PROVE  IsWorkspace(Done(w)) /\ ~ Done(w).running /\ Done(w).numCtas = w.numCtas
<1> DEFINE e == Done(w)
<1>1. e = [w EXCEPT !.stream = Tail(w.stream)]
  BY DEF Done
<1>2. e = [ hostIn |-> w.hostIn, devIn |-> w.devIn, dTrie |-> w.dTrie, setupDone |-> w.setupDone,
            devOut |-> w.devOut, hostOut |-> w.hostOut,
            stream |-> Tail(w.stream), running |-> w.running, numCtas |-> w.numCtas ]
  BY <1>1 DEF IsRecord
<1> HIDE DEF e
<1>3. IsSeq(e.stream)
  BY <1>2, SeqShrinks
<1> QED BY <1>2, <1>3 DEF IsWorkspace, IsRecord, e

-----------------------------------------------------------------------------
(* Shares and sums.                                                        *)
LEMMA DeviceType == Sms \in Nat \ {0} /\ BlocksPerSm \in Nat \ {0} /\ TotalCtas \in Nat /\ Sms <= TotalCtas
<1>1. Sms \in Nat \ {0} /\ BlocksPerSm \in Nat \ {0}
  BY DriverAssumption
<1> QED BY <1>1 DEF TotalCtas

LEMMA ShareOfBatch ==
  ASSUME NEW max \in 1 .. Sms
  PROVE  /\ CtasPerBatch(max) \in Nat /\ max * CtasPerBatch(max) <= TotalCtas
         /\ \A b \in Nat : NumCtas(max, b) \in 0 .. CtasPerBatch(max)
<1> DEFINE q == TotalCtas \div max
<1>1. max \in Nat \ {0} /\ max <= TotalCtas /\ TotalCtas \in Nat /\ Sms \in Nat
  BY DeviceType
<1>2. q \in Nat /\ q >= 1 /\ max * q <= TotalCtas
  BY <1>1
<1>3. CtasPerBatch(max) = q
  BY <1>2 DEF CtasPerBatch
<1> HIDE DEF q
<1>4. ASSUME NEW b \in Nat PROVE NumCtas(max, b) \in 0 .. q
  <2>1. Sms \div max \in Nat
    BY <1>1
  <2> QED BY <1>2, <1>3, <2>1 DEF NumCtas
<1> QED BY <1>2, <1>3, <1>4

(* No span of sums grows faster than its shares.                           *)
LEMMA SumsGrow ==
  ASSUME NEW n \in Nat, NEW q \in Nat, NEW f \in [0 .. n -> Int],
         \A b \in 0 .. n - 1 : f[b + 1] <= f[b] + q,
         NEW i \in 0 .. n, NEW j \in i .. n
  PROVE  f[j] <= f[i] + (j - i) * q
<1> DEFINE T == {k \in i .. n : ~ (f[k] <= f[i] + (k - i) * q)}
<1>1. SUFFICES ASSUME T # {} PROVE FALSE
  OBVIOUS
<1>2. PICK k \in T : \A l \in T : k <= l
  <2>1. T \in SUBSET Nat
    OBVIOUS
  <2> HIDE DEF T
  <2> QED BY <1>1, <2>1, LeastOne
<1>3. k # i
  BY <1>2
<1>4. k - 1 \in i .. n /\ k - 1 \notin T
  BY <1>2, <1>3
<1>5. f[k - 1] <= f[i] + (k - 1 - i) * q /\ f[k] <= f[k - 1] + q
  <2>1. k - 1 \in 0 .. n - 1 /\ (k - 1) + 1 = k
    BY <1>4
  <2> QED BY <1>4, <2>1
<1>6. f[k] \in Int /\ f[k - 1] \in Int /\ f[i] \in Int /\ (k - 1 - i) * q + q = (k - i) * q
  BY <1>4
<1>7. (k - i) * q \in Int /\ (k - 1 - i) * q \in Int
  BY <1>4
<1>8. f[k] <= f[i] + (k - i) * q
  BY SMTT(30), <1>5, <1>6, <1>7
<1> QED BY <1>2, <1>8

LEMMA NothingHeld ==
  ASSUME NEW n \in Nat, NEW f, Sums(n, f), \A b \in 0 .. n - 1 : Held(ws[b]) = 0
  PROVE  f[n] = 0
<1> DEFINE g == [k \in 0 .. n |-> -f[k]]
<1>1. /\ f \in [0 .. n -> Int] /\ f[0] = 0
      /\ \A b \in 0 .. n - 1 : f[b + 1] = f[b] + 0
  BY DEF Sums
<1>2. \A b \in 0 .. n - 1 : f[b + 1] <= f[b] + 0
  BY <1>1
<1> DEFINE q == 0
<1> HIDE DEF q
<1>0. q = 0 /\ q \in Nat /\ 0 \in 0 .. n /\ n \in 0 .. n
  BY DEF q
<1>3. f[n] <= f[0]
  <2>1. \A b \in 0 .. n - 1 : f[b + 1] <= f[b] + q
    BY <1>0, <1>2
  <2>2. \A i \in 0 .. n : \A j \in i .. n : f[j] <= f[i] + (j - i) * q
    BY <1>0, <1>1, <2>1, SumsGrow
  <2>3. f[n] <= f[0] + (n - 0) * q
    BY <1>0, <2>2
  <2> QED BY <1>0, <1>1, <2>3
<1>4. /\ g \in [0 .. n -> Int] /\ g[0] = 0 /\ g[n] = -f[n]
      /\ \A b \in 0 .. n - 1 : g[b + 1] <= g[b] + 0
  BY <1>1
<1> HIDE DEF g
<1>5. g[n] <= g[0]
  <2>1. \A b \in 0 .. n - 1 : g[b + 1] <= g[b] + q
    BY <1>0, <1>4
  <2>2. \A i \in 0 .. n : \A j \in i .. n : g[j] <= g[i] + (j - i) * q
    BY <1>0, <1>4, <2>1, SumsGrow
  <2>3. g[n] <= g[0] + (n - 0) * q
    BY <1>0, <2>2
  <2> QED BY <1>0, <1>4, <2>3
<1> QED BY <1>1, <1>3, <1>4, <1>5

(* A workspace that starts to hold or to return its blocks.                *)
LEMMA SumsShift ==
  ASSUME NEW n \in Nat, NEW f, Sums(n, f), NEW b \in 0 .. n - 1, NEW d \in Int,
         free' = free - d, DOMAIN ws = 0 .. n - 1, DOMAIN ws' = 0 .. n - 1,
         Held(ws'[b]) = Held(ws[b]) + d, \A c \in 0 .. n - 1 : Held(ws[c]) \in Int,
         \A c \in 0 .. n - 1 : c # b => Held(ws'[c]) = Held(ws[c])
  PROVE  \E g : Sums(n, g)'
<1> DEFINE g == [i \in 0 .. n |-> IF i > b THEN f[i] + d ELSE f[i]]
<1>1. f \in [0 .. n -> Int] /\ f[0] = 0 /\ free = TotalCtas - f[n]
      /\ \A c \in 0 .. n - 1 : f[c + 1] = f[c] + Held(ws[c])
  BY DEF Sums
<1>2. g \in [0 .. n -> Int] /\ g[0] = 0 /\ g[n] = f[n] + d
  <2>1. g \in [0 .. n -> Int]
    <3>1. ASSUME NEW i \in 0 .. n PROVE (IF i > b THEN f[i] + d ELSE f[i]) \in Int
      <4>1. f[i] \in Int
        BY <1>1
      <4> QED BY <4>1
    <3> QED BY <3>1
  <2>2. g[0] = 0
    <3>1. 0 \in 0 .. n /\ ~ (0 > b)
      OBVIOUS
    <3> QED BY <1>1, <3>1
  <2>3. g[n] = f[n] + d
    <3>1. n \in 0 .. n /\ n > b
      OBVIOUS
    <3> QED BY <3>1
  <2> QED BY <2>1, <2>2, <2>3
<1>3. ASSUME NEW c \in 0 .. n - 1 PROVE g[c + 1] = g[c] + Held(ws'[c])
  <2>5. c + 1 \in 0 .. n /\ c \in 0 .. n
    OBVIOUS
  <2>1. /\ c + 1 \in 0 .. n /\ c \in 0 .. n /\ f[c] \in Int /\ f[c + 1] \in Int
        /\ f[c + 1] = f[c] + Held(ws[c]) /\ Held(ws[c]) \in Int
    <3>1. f[c] \in Int /\ f[c + 1] \in Int
      BY <1>1, <2>5
    <3> QED BY <1>1, <2>5, <3>1
  <2>2. CASE c = b
    <3>1. g[c + 1] = f[c + 1] + d /\ g[c] = f[c]
      BY <2>1, <2>2
    <3> QED BY <2>1, <2>2, <3>1
  <2>3. CASE c < b
    <3>1. g[c + 1] = f[c + 1] /\ g[c] = f[c]
      BY <2>1, <2>3
    <3> QED BY <2>1, <2>3, <3>1
  <2>4. CASE c > b
    <3>1. g[c + 1] = f[c + 1] + d /\ g[c] = f[c] + d
      BY <2>1, <2>4
    <3>2. Held(ws'[c]) = Held(ws[c])
      BY <2>4
    <3> QED BY <2>1, <3>1, <3>2
  <2> QED BY <2>2, <2>3, <2>4
<1>4. free' = TotalCtas - g[n]
  BY SMTT(30), <1>1, <1>2, DeviceType
<1> HIDE DEF g
<1>5. Sums(n, g)'
  BY <1>2, <1>3, <1>4 DEF Sums, TotalCtas
<1> QED BY <1>5

-----------------------------------------------------------------------------
(* A kernel that is to start finds its blocks free.                        *)
LEMMA GridFits ==
  ASSUME GridsInv, NEW b \in DOMAIN ws, ~ ws[b].running
  PROVE  ws[b].numCtas <= free
<1>1. PICK n \in Nat, q \in Nat : n * q <= TotalCtas /\ Shares(n, q) /\ \E f : Sums(n, f)
  BY DEF GridsInv
<1>2. PICK f : Sums(n, f)
  BY <1>1
<1>3. b \in 0 .. n - 1 /\ ws[b].numCtas \in 0 .. q
  BY <1>1 DEF Shares
<1>4. f \in [0 .. n -> Int] /\ f[0] = 0 /\ free = TotalCtas - f[n] /\ f[b + 1] = f[b] + 0
  BY <1>2, <1>3 DEF Sums, Held
<1>5. \A c \in 0 .. n - 1 : f[c + 1] <= f[c] + q
  <2> SUFFICES ASSUME NEW c \in 0 .. n - 1 PROVE f[c + 1] <= f[c] + q
    OBVIOUS
  <2>1. f[c] \in Int /\ f[c + 1] = f[c] + Held(ws[c])
    BY <1>2 DEF Sums
  <2>2. Held(ws[c]) \in 0 .. q
    BY <1>1 DEF Held, Shares
  <2> QED BY <2>1, <2>2
<1>6. \A i \in 0 .. n : \A j \in i .. n : f[j] <= f[i] + (j - i) * q
  BY <1>4, <1>5, SumsGrow
<1> DEFINE before == (b - 0) * q
           behind == (n - (b + 1)) * q
<1>7. f[b] <= f[0] + before
  <2>1. 0 \in 0 .. n /\ b \in 0 .. n
    BY <1>3
  <2> QED BY <1>6, <2>1
<1>8. f[n] <= f[b + 1] + behind
  <2>1. b + 1 \in 0 .. n /\ n \in b + 1 .. n
    BY <1>3
  <2> QED BY <1>6, <2>1
<1>9. before + behind + q = n * q
  BY <1>3
<1>10. /\ f[b] \in Int /\ f[b + 1] \in Int /\ f[n] \in Int /\ TotalCtas \in Nat
       /\ before \in Int /\ behind \in Int /\ n * q \in Int
  BY SMTT(30), <1>3, <1>4, DeviceType
<1> HIDE DEF before, behind
<1>11. f[n] <= n * q - q
  <2>1. f[b + 1] = f[b] /\ f[0] = 0
    BY <1>4, <1>10
  <2>2. f[n] <= before + behind
    BY <1>7, <1>8, <1>10, <2>1
  <2> QED BY <1>9, <1>10, <2>2
<1>12. ws[b].numCtas \in Int /\ ws[b].numCtas <= q
  BY <1>3
<1>13. free = TotalCtas - f[n] /\ n * q <= TotalCtas
  BY <1>1, <1>4
<1> QED BY <1>10, <1>11, <1>12, <1>13

(* Steps that leave alone what the workspaces hold.                        *)
LEMMA GridsKept ==
  ASSUME GridsInv, free' = free, DOMAIN ws' = DOMAIN ws,
         \A b \in DOMAIN ws : ws'[b].running = ws[b].running /\ ws'[b].numCtas = ws[b].numCtas
  PROVE  GridsInv'
<1>1. PICK n \in Nat, q \in Nat : n * q <= TotalCtas /\ Shares(n, q) /\ \E f : Sums(n, f)
  BY DEF GridsInv
<1>2. PICK f : Sums(n, f)
  BY <1>1
<1>3. Shares(n, q)'
  BY <1>1 DEF Shares
<1>4. \A b \in 0 .. n - 1 : Held(ws'[b]) = Held(ws[b])
  BY <1>1 DEF Held, Shares
<1>5. Sums(n, f)'
  BY <1>2, <1>4 DEF Sums, TotalCtas
<1> QED BY <1>1, <1>3, <1>5 DEF GridsInv, TotalCtas

(* New workspaces when no kernel runs.                                     *)
LEMMA GridsFresh ==
  ASSUME GridsInv, free' = free, \A b \in DOMAIN ws : ~ ws[b].running,
         NEW m \in Nat, NEW p \in Nat, m * p <= TotalCtas, Shares(m, p)',
         \A b \in DOMAIN ws' : ~ ws'[b].running
  PROVE  GridsInv'
<1>1. PICK n \in Nat, q \in Nat : n * q <= TotalCtas /\ Shares(n, q) /\ \E f : Sums(n, f)
  BY DEF GridsInv
<1>2. PICK f : Sums(n, f)
  BY <1>1
<1>3. \A b \in 0 .. n - 1 : Held(ws[b]) = 0
  BY <1>1 DEF Held, Shares
<1>4. free = TotalCtas
  <2>1. f[n] = 0
    BY <1>2, <1>3, NothingHeld
  <2> QED BY <1>2, <2>1, DeviceType DEF Sums
<1> DEFINE g == [i \in 0 .. m |-> 0]
<1>5. \A b \in 0 .. m - 1 : Held(ws'[b]) = 0
  BY DEF Held, Shares
<1>6. Sums(m, g)'
  <2>1. g \in [0 .. m -> Int] /\ g[0] = 0 /\ g[m] = 0 /\ \A b \in 0 .. m - 1 : g[b + 1] = g[b] + 0
    OBVIOUS
  <2> HIDE DEF g
  <2> QED BY <1>4, <1>5, <2>1, DeviceType DEF Sums, TotalCtas
<1> HIDE DEF g
<1> QED BY <1>6 DEF GridsInv, TotalCtas

(* A workspace that changes what it holds, by d.                           *)
LEMMA GridsShift ==
  ASSUME GridsInv, NEW b \in DOMAIN ws, NEW w, ws' = [ws EXCEPT ![b] = w],
         w.numCtas = ws[b].numCtas, NEW d \in Int, free' = free - d,
         Held(w) = Held(ws[b]) + d
  PROVE  GridsInv'
<1>1. PICK n \in Nat, q \in Nat : n * q <= TotalCtas /\ Shares(n, q) /\ \E f : Sums(n, f)
  BY DEF GridsInv
<1>2. PICK f : Sums(n, f)
  BY <1>1
<1>3. /\ DOMAIN ws = 0 .. n - 1 /\ DOMAIN ws' = 0 .. n - 1 /\ ws'[b] = w
      /\ \A c \in 0 .. n - 1 : c # b => ws'[c] = ws[c]
  BY <1>1 DEF Shares
<1>4. Shares(n, q)'
  BY <1>1, <1>3 DEF Shares
<1>5. \A c \in 0 .. n - 1 : Held(ws[c]) \in Int
  BY <1>1 DEF Held, Shares
<1>6. \E g : Sums(n, g)'
  BY <1>2, <1>3, <1>5, SumsShift
<1> QED BY <1>1, <1>4, <1>6 DEF GridsInv, TotalCtas

-----------------------------------------------------------------------------
(* Steps of the program, which it takes while the threads are idle.        *)
LEMMA IdleStreams ==
  ASSUME DriverInv, Idle
  PROVE  \A b \in DOMAIN ws : ws[b].stream = << >> /\ ~ ws[b].running
BY DEF DriverInv, Idle, Waited, Serves, IsWorkspace

LEMMA ReplaceStep ==
  ASSUME DriverInv, Replace
  PROVE  DriverInv'
<1>1. ws' = << >> /\ free' = free /\ pc' = pc /\ todo' = todo /\ Idle
  BY DEF Replace, Workspaces
<1>2. DOMAIN ws' = {} /\ 0 .. 0 - 1 = {}
  BY <1>1
<1>3. \A b \in DOMAIN ws : ~ ws[b].running
  BY <1>1, IdleStreams
<1>4. Shares(0, 0)' /\ 0 * 0 <= TotalCtas /\ \A b \in DOMAIN ws' : ~ ws'[b].running
  BY <1>2, DeviceType DEF Shares
<1>5. GridsInv'
  BY <1>1, <1>3, <1>4, GridsFresh DEF DriverInv
<1> QED BY <1>1, <1>2, <1>5 DEF DriverInv, Planned, Place

LEMMA InitTbsGpuStep ==
  ASSUME DriverInv, NEW max \in 1 .. MaxBatchLimit, InitTbsGpu(max)
  PROVE  DriverInv'
<1>1. /\ ws' = [b \in 0 .. max - 1 |-> NewWorkspace(max, b)]
      /\ free' = free /\ pc' = pc /\ todo' = todo /\ Idle /\ max \in 1 .. Sms
  BY DeviceType DEF InitTbsGpu
<1>2. ASSUME NEW b \in DOMAIN ws'
      PROVE  /\ IsWorkspace(ws'[b]) /\ ws'[b].stream = << >> /\ ~ ws'[b].running
             /\ ws'[b].numCtas = NumCtas(max, b)
  <2>1. ws'[b] = NewWorkspace(max, b)
    BY <1>1, <1>2
  <2>2. IsSeq(<< >>)
    <3>1. << >> \in Seq(Int)
      OBVIOUS
    <3> QED BY <3>1 DEF IsSeq
  <2> QED BY <2>1, <2>2 DEF NewWorkspace, IsWorkspace, IsRecord
<1>3. \A b \in DOMAIN ws : ~ ws[b].running
  BY <1>1, IdleStreams
<1>4. PICK q \in Nat : max * q <= TotalCtas /\ \A b \in Nat : NumCtas(max, b) \in 0 .. q
  <2>1. max \in 1 .. Sms
    BY <1>1
  <2>2. /\ CtasPerBatch(max) \in Nat /\ max * CtasPerBatch(max) <= TotalCtas
        /\ \A b \in Nat : NumCtas(max, b) \in 0 .. CtasPerBatch(max)
    BY <2>1, ShareOfBatch
  <2> QED BY <2>2
<1>5. Shares(max, q)'
  <2>1. DOMAIN ws' = 0 .. max - 1
    BY <1>1
  <2>2. ASSUME NEW b \in 0 .. max - 1 PROVE ws'[b].numCtas \in 0 .. q
    <3>1. b \in DOMAIN ws' /\ b \in Nat
      BY <2>1
    <3>2. ws'[b].numCtas = NumCtas(max, b)
      BY <1>2, <3>1
    <3> QED BY <1>4, <3>1, <3>2
  <2> QED BY <2>1, <2>2 DEF Shares
<1>6. GridsInv'
  <2>1. max \in Nat
    OBVIOUS
  <2> QED BY <1>1, <1>2, <1>3, <1>4, <1>5, <2>1, GridsFresh DEF DriverInv
<1> QED BY SMTT(30), <1>1, <1>2, <1>6 DEF DriverInv

LEMMA CallStep ==
  ASSUME DriverInv, NEW places \in SUBSET Place, NEW requests, Call(places, requests)
  PROVE  DriverInv'
<1>1. ws' = ws /\ free' = free /\ pc' = pc /\ Planned' /\ Idle
  BY DEF Call, Planned, ServedBy, Place
<1>2. \A b \in DOMAIN ws : ws[b].stream = << >>
  BY <1>1, IdleStreams
<1>3. GridsInv'
  BY <1>1, GridsKept DEF DriverInv
<1> QED BY <1>1, <1>2, <1>3 DEF DriverInv

-----------------------------------------------------------------------------
(* Steps of a thread that serves b: it waits for what it puts into the     *)
(* stream, and goes on when the stream is empty.                           *)
LEMMA PutStep ==
  ASSUME DriverInv, NEW t \in Thread, NEW b, Serves(t, b),
         NEW w, ws' = [ws EXCEPT ![b] = w], NEW v, v # "next", pc' = [pc EXCEPT ![t] = v],
         b \in DOMAIN ws => IsWorkspace(w) /\ w.running = ws[b].running /\ w.numCtas = ws[b].numCtas,
         todo' = todo, free' = free
  PROVE  DriverInv'
<1>1. DOMAIN ws' = DOMAIN ws /\ DOMAIN pc' = Thread /\ Planned' /\ pc'[t] # "next"
  BY DEF DriverInv, Planned, Place
<1>2. \A c \in DOMAIN ws : ws'[c] = IF c = b THEN w ELSE ws[c]
  OBVIOUS
<1>3. ASSUME NEW c \in DOMAIN ws', ws'[c].stream # << >> PROVE Waited(c)'
  <2>1. CASE c = b
    BY <1>1, <2>1 DEF Waited, Serves
  <2>2. CASE c # b
    <3>1. PICK u \in Thread : pc[u] # "next" /\ Serves(u, c)
      BY <1>1, <1>2, <1>3, <2>2 DEF DriverInv, Waited
    <3>2. pc'[u] # "next"
      BY <3>1 DEF DriverInv
    <3> QED BY <3>1, <3>2 DEF Waited, Serves
  <2> QED BY <2>1, <2>2
<1>4. GridsInv'
  BY <1>1, <1>2, GridsKept DEF DriverInv
<1> QED BY <1>1, <1>2, <1>3, <1>4 DEF DriverInv

LEMMA LeaveStep ==
  ASSUME DriverInv, NEW t \in Thread, NEW b, Serves(t, b),
         pc[t] = "next" \/ (b \in DOMAIN ws => ws[b].stream = << >>),
         todo' = [todo EXCEPT ![t] = @ \ {b}],
         DOMAIN pc' = Thread, \A u \in Thread \ {t} : pc'[u] = pc[u],
         ws' = ws, free' = free
  PROVE  DriverInv'
<1>1. DOMAIN pc' = Thread /\ Planned'
  BY DEF DriverInv, Planned, Place
<1>4. Place \subseteq Int
  BY DEF Place
<1>2. ASSUME NEW c \in DOMAIN ws, ws[c].stream # << >> PROVE Waited(c)'
  <2>1. PICK u \in Thread : pc[u] # "next" /\ Serves(u, c)
    BY <1>2 DEF DriverInv, Waited
  <2>2. u # t
    <3>1. todo[t] \subseteq Int
      BY <1>4 DEF DriverInv, Planned
    <3> QED BY <1>2, <2>1, <3>1 DEF Serves
  <2>3. pc'[u] = pc[u] /\ todo'[u] = todo[u]
    BY <2>2 DEF DriverInv
  <2> QED BY <2>1, <2>3 DEF Waited, Serves
<1>3. GridsInv'
  BY GridsKept DEF DriverInv
<1> QED BY <1>1, <1>2, <1>3 DEF DriverInv

LEMMA SetupDoneKeeps ==
  ASSUME NEW x, IsWorkspace(x), NEW done
  PROVE  LET e == [x EXCEPT !.setupDone = done]
         IN  IsWorkspace(e) /\ e.running = x.running /\ e.numCtas = x.numCtas
<1> DEFINE e == [x EXCEPT !.setupDone = done]
<1>1. IsRecord(x)
  BY DEF IsWorkspace
<1>2. e = [ hostIn |-> x.hostIn, devIn |-> x.devIn, dTrie |-> x.dTrie, setupDone |-> done,
            devOut |-> x.devOut, hostOut |-> x.hostOut,
            stream |-> x.stream, running |-> x.running, numCtas |-> x.numCtas ]
  BY <1>1 DEF IsRecord
<1> HIDE DEF e
<1>3. IsWorkspace(e) /\ e.running = x.running /\ e.numCtas = x.numCtas
  BY <1>2 DEF IsWorkspace, IsRecord
<1> QED BY <1>3 DEF e

LEMMA DevicePtrKeeps ==
  ASSUME NEW w, IsWorkspace(w)
  PROVE  LET e == DevicePtrSet(w)
         IN  IsWorkspace(e) /\ e.running = w.running /\ e.numCtas = w.numCtas
<1>1. CASE w.setupDone
  BY <1>1 DEF DevicePtrSet
<1>2. CASE ~ w.setupDone
  <2> DEFINE o == [op |-> "trie", trie |-> version]
             x == Enqueued(w, << o >>)
             e == [x EXCEPT !.setupDone = TRUE]
  <2>1. DevicePtrSet(w) = e
    BY <1>2 DEF DevicePtrSet
  <2> HIDE DEF o
  <2>2. IsWorkspace(x) /\ x.running = w.running /\ x.numCtas = w.numCtas
    BY EnqueuedKeeps
  <2> HIDE DEF x
  <2>4. IsWorkspace(e) /\ e.running = x.running /\ e.numCtas = x.numCtas
    BY <2>2, SetupDoneKeeps
  <2> QED BY <2>1, <2>2, <2>4
<1> QED BY <1>1, <1>2

LEMMA HostStepKeeps ==
  ASSUME DriverInv, NEW t \in Thread, HostStep(t)
  PROVE  DriverInv'
<1>1. PICK b \in Place :
        Skip(t, b) \/ CopyInput(t, b) \/ Launch(t, b) \/ CopyOutput(t, b) \/ Parse(t, b)
  BY DEF HostStep
<1>2. CASE Skip(t, b)
  <2>1. DOMAIN pc = Thread
    BY DEF DriverInv
  <2> QED BY <1>2, <2>1, LeaveStep DEF Skip
<1>3. CASE CopyInput(t, b)
  <2> DEFINE x == DevicePtrSet(ws[b])
             y == [x EXCEPT !.hostIn = batch[b]]
             w == Enqueued(y, << [op |-> "in"] >>)
  <2>1. /\ Serves(t, b) /\ ws' = [ws EXCEPT ![b] = w] /\ pc' = [pc EXCEPT ![t] = "launch"]
        /\ todo' = todo /\ free' = free /\ b \in DOMAIN ws
    BY <1>3 DEF CopyInput
  <2>2. IsWorkspace(x) /\ x.running = ws[b].running /\ x.numCtas = ws[b].numCtas
    BY <2>1, DevicePtrKeeps DEF DriverInv
  <2> HIDE DEF x
  <2>3. y = [ hostIn |-> batch[b], devIn |-> x.devIn, dTrie |-> x.dTrie, setupDone |-> x.setupDone,
              devOut |-> x.devOut, hostOut |-> x.hostOut,
              stream |-> x.stream, running |-> x.running, numCtas |-> x.numCtas ]
    BY <2>2 DEF IsWorkspace, IsRecord
  <2> HIDE DEF y
  <2>4. IsWorkspace(y) /\ y.running = x.running /\ y.numCtas = x.numCtas
    BY <2>2, <2>3 DEF IsWorkspace, IsRecord
  <2>5. IsWorkspace(w) /\ w.running = y.running /\ w.numCtas = y.numCtas
    BY <2>4, EnqueuedKeeps
  <2> HIDE DEF w
  <2> QED BY <2>1, <2>2, <2>4, <2>5, PutStep
<1>4. CASE Launch(t, b)
  <2>1. /\ Serves(t, b) /\ pc' = [pc EXCEPT ![t] = "output"] /\ todo' = todo /\ free' = free
    BY <1>4 DEF Launch
  <2>2. CASE ws' = [ws EXCEPT ![b] = Enqueued(@, << [op |-> "kernel"] >>)]
    <3> DEFINE w == Enqueued(ws[b], << [op |-> "kernel"] >>)
    <3>1. ws' = [ws EXCEPT ![b] = w]
      BY <2>2
    <3>2. b \in DOMAIN ws => IsWorkspace(w) /\ w.running = ws[b].running /\ w.numCtas = ws[b].numCtas
      BY EnqueuedKeeps DEF DriverInv
    <3> HIDE DEF w
    <3> QED BY <2>1, <3>1, <3>2, PutStep
  <2>3. CASE ws' = ws
    <3>1. \A c \in DOMAIN ws : IsWorkspace(ws[c])
      BY DEF DriverInv
    <3>2. ASSUME NEW c \in DOMAIN ws, ws[c].stream # << >> PROVE Waited(c)'
      <4>1. PICK u \in Thread : pc[u] # "next" /\ Serves(u, c)
        BY <3>2 DEF DriverInv, Waited
      <4>2. pc'[u] # "next"
        BY <2>1, <4>1 DEF DriverInv
      <4> QED BY <2>1, <4>1, <4>2 DEF Waited, Serves
    <3>3. GridsInv'
      BY <2>1, <2>3, GridsKept DEF DriverInv
    <3> QED BY <2>1, <2>3, <3>1, <3>2, <3>3 DEF DriverInv, Planned, Place
  <2> QED BY <1>4, <2>2, <2>3 DEF Launch
<1>5. CASE CopyOutput(t, b)
  <2> DEFINE o == [op |-> "out", units |-> ExpectedUnits(batch[b])]
             w == Enqueued(ws[b], << o >>)
  <2>1. /\ Serves(t, b) /\ ws' = [ws EXCEPT ![b] = w] /\ pc' = [pc EXCEPT ![t] = "sync"]
        /\ todo' = todo /\ free' = free
    BY <1>5 DEF CopyOutput
  <2> HIDE DEF o
  <2>2. b \in DOMAIN ws => IsWorkspace(w) /\ w.running = ws[b].running /\ w.numCtas = ws[b].numCtas
    BY EnqueuedKeeps DEF DriverInv
  <2> HIDE DEF w
  <2> QED BY <2>1, <2>2, PutStep
<1>6. CASE Parse(t, b)
  <2>1. DOMAIN pc' = Thread /\ \A u \in Thread \ {t} : pc'[u] = pc[u]
    BY <1>6 DEF Parse, DriverInv
  <2> QED BY <1>6, <2>1, LeaveStep DEF Parse, Synchronized
<1> QED BY <1>1, <1>2, <1>3, <1>4, <1>5, <1>6

-----------------------------------------------------------------------------
(* Steps of the device on the stream of b.                                 *)
LEMMA WorkspaceStep ==
  ASSUME DriverInv, NEW b \in DOMAIN ws, ws[b].stream # << >>,
         NEW w, IsWorkspace(w), ws' = [ws EXCEPT ![b] = w], pc' = pc, todo' = todo, GridsInv'
  PROVE  DriverInv'
<1>1. DOMAIN ws' = DOMAIN ws /\ \A c \in DOMAIN ws : ws'[c] = IF c = b THEN w ELSE ws[c]
  OBVIOUS
<1>2. \A c \in DOMAIN ws : ws'[c].stream # << >> => Waited(c)
  BY <1>1 DEF DriverInv
<1> QED BY <1>1, <1>2 DEF DriverInv, Planned, Place, Waited, Serves

(* A copy, whatever it sets.                                               *)
LEMMA CopyStep ==
  ASSUME DriverInv, NEW b \in DOMAIN ws, ws[b].stream # << >>, Head(ws[b].stream).op # "kernel",
         NEW x, IsRecord(x), x.stream = ws[b].stream, x.running = ws[b].running,
         x.numCtas = ws[b].numCtas, ws' = [ws EXCEPT ![b] = Done(x)],
         pc' = pc, todo' = todo, free' = free
  PROVE  DriverInv'
<1>1. IsWorkspace(ws[b])
  BY DEF DriverInv
<1>2. ~ ws[b].running /\ IsSeq(x.stream)
  BY <1>1 DEF IsWorkspace
<1> DEFINE w == Done(x)
<1>3. IsWorkspace(w) /\ ~ w.running /\ w.numCtas = ws[b].numCtas
  BY <1>2, DoneKeeps
<1> HIDE DEF w
<1>4. ws' = [ws EXCEPT ![b] = w]
  BY DEF w
<1>7. PICK d \in Int : d = 0
  OBVIOUS
<1>5. Held(w) = Held(ws[b]) + d /\ free' = free - d
  <2>1. free \in Int
    <3>1. PICK n, f : n \in Nat /\ Sums(n, f)
      BY DEF DriverInv, GridsInv
    <3>2. f[n] \in Int
      BY <3>1 DEF Sums
    <3> QED BY <3>1, <3>2, DeviceType DEF Sums
  <2> QED BY <1>2, <1>3, <1>7, <2>1 DEF Held
<1>6. GridsInv'
  BY <1>3, <1>4, <1>5, GridsShift DEF DriverInv
<1> QED BY <1>3, <1>4, <1>6, WorkspaceStep

LEMMA StreamStepKeeps ==
  ASSUME DriverInv, NEW b, StreamStep(b)
  PROVE  DriverInv'
<1>1. b \in DOMAIN ws /\ ws[b].stream # << >>
  BY DEF StreamStep, CopyTrie, CopyIn, StartKernel, EndKernel, CopyOut, Pending
<1>2. IsWorkspace(ws[b]) /\ IsRecord(ws[b]) /\ IsSeq(ws[b].stream)
  BY <1>1 DEF DriverInv, IsWorkspace
<1>3. PICK y : y = ws[b]
  OBVIOUS
<1>4. IsRecord(y) /\ IsSeq(y.stream) /\ y.stream # << >>
  BY <1>1, <1>2, <1>3
<1>5. PICK hi, di, dt, sd, do, ho, st, ru, nc :
        y = [ hostIn |-> hi, devIn |-> di, dTrie |-> dt, setupDone |-> sd, devOut |-> do, hostOut |-> ho,
              stream |-> st, running |-> ru, numCtas |-> nc ]
  BY <1>4 DEF IsRecord
<1>6. CASE CopyTrie(b)
  <2> DEFINE x == [y EXCEPT !.dTrie = Head(y.stream).trie]
  <2>1. IsRecord(x) /\ x.stream = y.stream /\ x.running = y.running /\ x.numCtas = y.numCtas
    BY <1>5 DEF IsRecord
  <2>2. /\ ws' = [ws EXCEPT ![b] = Done(x)] /\ pc' = pc /\ todo' = todo /\ free' = free
        /\ Head(y.stream).op # "kernel"
    BY <1>3, <1>6 DEF CopyTrie, Pending
  <2> HIDE DEF x
  <2> QED BY <1>1, <1>3, <2>1, <2>2, CopyStep
<1>7. CASE CopyIn(b)
  <2> DEFINE x == [y EXCEPT !.devIn = y.hostIn]
  <2>1. IsRecord(x) /\ x.stream = y.stream /\ x.running = y.running /\ x.numCtas = y.numCtas
    BY <1>5 DEF IsRecord
  <2>2. /\ ws' = [ws EXCEPT ![b] = Done(x)] /\ pc' = pc /\ todo' = todo /\ free' = free
        /\ Head(y.stream).op # "kernel"
    BY <1>3, <1>7 DEF CopyIn, Pending
  <2> HIDE DEF x
  <2> QED BY <1>1, <1>3, <2>1, <2>2, CopyStep
<1>8. CASE CopyOut(b)
  <2> DEFINE x == [y EXCEPT !.hostOut = CopiedBack(y.hostOut, y.devOut, Head(y.stream).units)]
  <2>1. IsRecord(x) /\ x.stream = y.stream /\ x.running = y.running /\ x.numCtas = y.numCtas
    BY <1>5 DEF IsRecord
  <2>2. /\ ws' = [ws EXCEPT ![b] = Done(x)] /\ pc' = pc /\ todo' = todo /\ free' = free
        /\ Head(y.stream).op # "kernel"
    <3>1. x = [ws[b] EXCEPT !.hostOut = CopiedBack(ws[b].hostOut, ws[b].devOut, Head(ws[b].stream).units)]
      BY <1>3
    <3> HIDE DEF x
    <3>2. ws' = [ws EXCEPT ![b] = Done([ws[b] EXCEPT !.hostOut = CopiedBack(ws[b].hostOut, ws[b].devOut, Head(ws[b].stream).units)])]
      BY <1>8, Zenon DEF CopyOut
    <3>3. pc' = pc /\ todo' = todo /\ free' = free /\ Head(y.stream).op # "kernel"
      BY <1>3, <1>8 DEF CopyOut, Pending
    <3> QED BY <3>1, <3>2, <3>3
  <2> HIDE DEF x
  <2> QED BY <1>1, <1>3, <2>1, <2>2, CopyStep
<1>9. y.numCtas \in Int /\ free \in Int
  <2>1. PICK n \in Nat, q \in Nat : Shares(n, q) /\ \E f : Sums(n, f)
    BY DEF DriverInv, GridsInv
  <2>2. PICK f : Sums(n, f)
    BY <2>1
  <2>3. f[n] \in Int
    BY <2>2 DEF Sums
  <2> QED BY SMTT(30), <1>1, <1>3, <2>1, <2>2, <2>3, DeviceType DEF Sums, Shares
<1>10. CASE StartKernel(b)
  <2>1. PICK yes : yes = TRUE
    OBVIOUS
  <2> DEFINE w == [y EXCEPT !.running = yes]
  <2>2. IsRecord(w) /\ w.stream = y.stream /\ w.running = yes /\ w.numCtas = y.numCtas
    BY <1>5 DEF IsRecord
  <2>3. /\ ws' = [ws EXCEPT ![b] = w] /\ pc' = pc /\ todo' = todo /\ free' = free - y.numCtas
        /\ Head(y.stream).op = "kernel" /\ ~ y.running
    BY <1>3, <1>10, <2>1 DEF StartKernel, Pending
  <2> HIDE DEF w
  <2>4. IsWorkspace(w) /\ w.running
    BY <1>4, <2>1, <2>2, <2>3 DEF IsWorkspace
  <2>5. Held(w) = Held(ws[b]) + y.numCtas
    BY <1>3, <1>9, <2>2, <2>3, <2>4 DEF Held
  <2>6. GridsInv'
    BY <1>1, <1>3, <1>9, <2>2, <2>3, <2>5, GridsShift DEF DriverInv
  <2> QED BY <1>1, <2>3, <2>4, <2>6, WorkspaceStep
<1>11. CASE EndKernel(b)
  <2>1. PICK no : no = FALSE
    OBVIOUS
  <2>8. PICK z : z = Over(Output[y.devIn][y.dTrie], y.devOut)
    OBVIOUS
  <2> DEFINE x == [y EXCEPT !.running = no, !.devOut = z]
             w == Done(x)
  <2>2. IsRecord(x) /\ x.stream = y.stream /\ x.running = no /\ x.numCtas = y.numCtas
    <3>1. x = [ hostIn |-> hi, devIn |-> di, dTrie |-> dt, setupDone |-> sd, devOut |-> z, hostOut |-> ho,
                stream |-> st, running |-> no, numCtas |-> nc ]
      <4>1. [y EXCEPT !.running = no] =
              [ hostIn |-> hi, devIn |-> di, dTrie |-> dt, setupDone |-> sd, devOut |-> do, hostOut |-> ho,
                stream |-> st, running |-> no, numCtas |-> nc ]
        BY <1>5
      <4>2. x = [[y EXCEPT !.running = no] EXCEPT !.devOut = z]
        OBVIOUS
      <4> HIDE DEF x
      <4> QED BY <4>1, <4>2
    <3> HIDE DEF x
    <3> QED BY <1>5, <3>1 DEF IsRecord
  <2>3. /\ ws' = [ws EXCEPT ![b] = w] /\ pc' = pc /\ todo' = todo /\ free' = free + y.numCtas
        /\ y.running
    <3>1. x = [ws[b] EXCEPT !.running = FALSE,
                            !.devOut = Over(Output[ws[b].devIn][ws[b].dTrie], ws[b].devOut)]
      BY <1>3, <2>1, <2>8
    <3> HIDE DEF x
    <3>2. ws' = [ws EXCEPT ![b] = Done([ws[b] EXCEPT !.running = FALSE,
                   !.devOut = Over(Output[ws[b].devIn][ws[b].dTrie], ws[b].devOut)])]
      BY <1>11, Zenon DEF EndKernel
    <3>3. pc' = pc /\ todo' = todo /\ free' = free + y.numCtas /\ y.running
      BY <1>3, <1>11 DEF EndKernel
    <3> QED BY <3>1, <3>2, <3>3
  <2> HIDE DEF x
  <2>4. IsWorkspace(w) /\ ~ w.running /\ w.numCtas = y.numCtas
    BY <1>4, <2>1, <2>2, DoneKeeps
  <2> HIDE DEF w
  <2>5. PICK d \in Int : d = 0 - y.numCtas
    BY <1>9
  <2>6. Held(w) = Held(ws[b]) + d /\ free' = free - d
    BY <1>3, <1>9, <2>3, <2>4, <2>5 DEF Held
  <2>7. GridsInv'
    BY <1>1, <1>3, <2>3, <2>4, <2>6, GridsShift DEF DriverInv
  <2> QED BY <1>1, <2>3, <2>4, <2>7, WorkspaceStep
<1> QED BY <1>6, <1>7, <1>8, <1>10, <1>11 DEF StreamStep

-----------------------------------------------------------------------------
LEMMA DriverInit ==
  ASSUME Init
  PROVE  DriverInv
<1>1. ws = << >> /\ free = TotalCtas /\ DOMAIN pc = Thread /\ Planned
  BY DEF Init, Planned
<1>2. DOMAIN ws = {} /\ 0 .. 0 - 1 = {}
  BY <1>1
<1> DEFINE f == [i \in 0 .. 0 |-> 0]
<1>3. f \in [0 .. 0 -> Int] /\ f[0] = 0
  OBVIOUS
<1> HIDE DEF f
<1>4. Sums(0, f) /\ Shares(0, 0) /\ 0 * 0 <= TotalCtas
  BY <1>1, <1>2, <1>3, DeviceType DEF Sums, Shares
<1>5. GridsInv
  BY <1>4 DEF GridsInv
<1> QED BY <1>1, <1>2, <1>5 DEF DriverInv

LEMMA DriverStep ==
  ASSUME DriverInv, [Next]_vars
  PROVE  DriverInv'
<1>1. CASE Program
  <2>1. CASE Replace
    BY <2>1, ReplaceStep
  <2>2. ASSUME NEW max \in 1 .. MaxBatchLimit, InitTbsGpu(max) PROVE DriverInv'
    BY <2>2, InitTbsGpuStep
  <2>3. ASSUME NEW places \in SUBSET Place, NEW requests, Call(places, requests) PROVE DriverInv'
    BY <2>3, CallStep
  <2>4. \A n \in 1 .. MaxBatchLimit : 0 .. n - 1 \subseteq Place
    BY DriverAssumption DEF Place
  <2> QED BY <1>1, <2>1, <2>2, <2>3, <2>4 DEF Program
<1>2. ASSUME NEW t \in Thread, HostStep(t) PROVE DriverInv'
  BY <1>2, HostStepKeeps
<1>3. ASSUME NEW b \in Place, StreamStep(b) PROVE DriverInv'
  BY <1>3, StreamStepKeeps
<1>4. CASE UNCHANGED vars
  <2>1. UNCHANGED <<ws, pc, todo, free>>
    BY <1>4 DEF vars
  <2>2. GridsInv'
    BY <2>1, GridsKept DEF DriverInv
  <2> QED BY <2>1, <2>2 DEF DriverInv, Planned, Place, Waited, Serves
<1> QED BY <1>1, <1>2, <1>3, <1>4 DEF Next

(* Whatever the device and however a batch is split (init_tbs_gpu), the    *)
(* thread blocks of all workspaces of a batch fit on the device together,  *)
(* so that no cooperative kernel waits for another.                        *)
THEOREM GridsAlwaysFit == Spec => []GridsFit
<1>1. Init => DriverInv
  BY DriverInit
<1>2. DriverInv /\ [Next]_vars => DriverInv'
  BY DriverStep
<1>3. DriverInv => GridsFit
  BY GridFits DEF DriverInv, GridsFit
<1> QED BY <1>1, <1>2, <1>3, PTL DEF Spec

-----------------------------------------------------------------------------
(***************************************************************************)
(* The output buffer (OutputLayout): what generate_result writes is what   *)
(* copy_output_to_cpu reads.                                               *)
(***************************************************************************)

IsAnswer(A) == A \in Seq([tokens : Seq(Int), logp : Int])

LEMMA BeamType ==
  ASSUME NEW A, IsAnswer(A)
  PROVE  /\ Len(A) \in Nat
         /\ \A i \in 0 .. Len(A) - 1 :
              /\ Beam(A, i).tokens \in Seq(Int) /\ Beam(A, i).logp \in Int
              /\ Beam(A, i) = [tokens |-> Beam(A, i).tokens, logp |-> Beam(A, i).logp]
              /\ LengthOf(A, i) = Len(Beam(A, i).tokens)
         /\ \A i \in Nat : LengthOf(A, i) \in Nat
<1>1. Len(A) \in Nat
  BY DEF IsAnswer
<1>2. ASSUME NEW i \in 0 .. Len(A) - 1
      PROVE  /\ Beam(A, i).tokens \in Seq(Int) /\ Beam(A, i).logp \in Int
             /\ Beam(A, i) = [tokens |-> Beam(A, i).tokens, logp |-> Beam(A, i).logp]
             /\ LengthOf(A, i) = Len(Beam(A, i).tokens) /\ LengthOf(A, i) \in Nat
  <2>1. Len(A) - i \in 1 .. Len(A)
    BY <1>1
  <2>2. A[Len(A) - i] \in [tokens : Seq(Int), logp : Int]
    BY <2>1, ElementOfSeq DEF IsAnswer
  <2>3. PICK e \in [tokens : Seq(Int), logp : Int] : e = Beam(A, i)
    BY <2>2 DEF Beam
  <2>4. e.tokens \in Seq(Int) /\ e.logp \in Int /\ e = [tokens |-> e.tokens, logp |-> e.logp]
    OBVIOUS
  <2>5. LengthOf(A, i) = Len(e.tokens) /\ Len(e.tokens) \in Nat
    BY <1>1, <2>3, <2>4 DEF LengthOf
  <2> QED BY <2>3, <2>4, <2>5
<1>3. ASSUME NEW i \in Nat PROVE LengthOf(A, i) \in Nat
  <2>1. CASE i < Len(A)
    <3>1. i \in 0 .. Len(A) - 1
      BY <1>1, <2>1
    <3> QED BY <1>2, <3>1
  <2>2. CASE ~ (i < Len(A))
    BY <2>2 DEF LengthOf
  <2> QED BY <2>1, <2>2
<1> QED BY <1>1, <1>2, <1>3

(* The end of each beam is the end of the one before it and its length.    *)
LEMMA EndStep ==
  ASSUME NEW A, IsAnswer(A)
  PROVE  /\ End(A, 0 - 1) = 0
         /\ \A i \in Nat : End(A, i) = End(A, i - 1) + LengthOf(A, i)
         /\ \A i \in Nat : End(A, i) \in Nat /\ End(A, i - 1) \in Nat
<1> DEFINE x == [k \in Nat |-> LengthOf(A, k)]
<1>1. \A n \in Nat : x[n] \in Nat /\ x[n] = LengthOf(A, n)
  BY BeamType
<1>2. \A i : End(A, i) = SumsOf(x)[i + 1]
  BY DEF End
<1> HIDE DEF x
<1>3. PICK s : s = SumsOf(x)
  OBVIOUS
<1>4. s[0] = 0 /\ \A n \in Nat : s[n + 1] = s[n] + x[n]
  BY <1>3, SumsOfType
<1>5. \A n \in Nat : s[n] \in Nat
  <2> DEFINE T == {n \in Nat : s[n] \notin Nat}
  <2>1. SUFFICES ASSUME T # {} PROVE FALSE
    OBVIOUS
  <2>2. PICK n \in T : \A l \in T : n <= l
    <3> HIDE DEF T
    <3>1. T \in SUBSET Nat
      BY DEF T
    <3> QED BY <2>1, <3>1, LeastOne
  <2>3. n # 0
    BY <1>4, <2>2
  <2>4. n - 1 \in Nat /\ n - 1 \notin T /\ (n - 1) + 1 = n
    BY <2>2, <2>3
  <2>5. s[n - 1] \in Nat /\ s[n] = s[n - 1] + x[n - 1]
    BY <1>4, <2>4
  <2> QED BY <1>1, <2>2, <2>4, <2>5
<1>6. ASSUME NEW i \in Nat
      PROVE  End(A, i) = End(A, i - 1) + LengthOf(A, i) /\ End(A, i) \in Nat /\ End(A, i - 1) \in Nat
  <2>1. End(A, i) = s[i + 1] /\ End(A, i - 1) = s[i]
    <3>1. (i - 1) + 1 = i
      OBVIOUS
    <3> QED BY <1>2, <1>3, <3>1
  <2>2. i + 1 \in Nat
    OBVIOUS
  <2> QED BY <1>1, <1>4, <1>5, <2>1, <2>2
<1>7. End(A, 0 - 1) = 0
  <2>1. (0 - 1) + 1 = 0
    OBVIOUS
  <2> QED BY <1>2, <1>3, <1>4, <2>1
<1> QED BY <1>6, <1>7

LEMMA EndsRise ==
  ASSUME NEW A, IsAnswer(A), NEW i \in Nat, NEW j \in Nat, i <= j
  PROVE  End(A, i) <= End(A, j)
<1> DEFINE T == {k \in Nat : i <= k /\ ~ (End(A, i) <= End(A, k))}
<1>1. SUFFICES ASSUME T # {} PROVE FALSE
  OBVIOUS
<1>2. PICK k \in T : \A l \in T : k <= l
  <2> HIDE DEF T
  <2>1. T \in SUBSET Nat
    BY DEF T
  <2> QED BY <1>1, <2>1, LeastOne
<1>3. End(A, i) \in Nat /\ End(A, k) \in Nat
  BY <1>2, EndStep
<1>4. k # i
  BY <1>2, <1>3
<1>5. k - 1 \in Nat /\ i <= k - 1 /\ k - 1 \notin T
  BY <1>2, <1>4
<1>6. End(A, i) <= End(A, k - 1)
  BY <1>5
<1>7. End(A, k) = End(A, k - 1) + LengthOf(A, k) /\ LengthOf(A, k) \in Nat /\ End(A, k - 1) \in Nat
  BY <1>2, EndStep, BeamType
<1> QED BY <1>2, <1>3, <1>6, <1>7

(* Beams of l tokens at most.                                              *)
LEMMA EndsBounded ==
  ASSUME NEW A, IsAnswer(A), NEW l \in Nat, \A i \in 0 .. Len(A) - 1 : LengthOf(A, i) <= l,
         NEW i \in Nat, i <= Len(A)
  PROVE  End(A, i - 1) <= i * l
<1> DEFINE T == {k \in 0 .. Len(A) : ~ (End(A, k - 1) <= k * l)}
<1>0. Len(A) \in Nat
  BY BeamType
<1>1. SUFFICES ASSUME T # {} PROVE FALSE
  BY <1>0
<1>2. PICK k \in T : \A m \in T : k <= m
  <2> HIDE DEF T
  <2>1. T \in SUBSET Nat
    BY DEF T
  <2> QED BY <1>1, <2>1, LeastOne
<1>3. k \in Nat
  BY <1>0, <1>2
<1>4. k # 0
  BY <1>2, EndStep
<1>5. k - 1 \in 0 .. Len(A) - 1 /\ k - 1 \in 0 .. Len(A) /\ k - 1 \notin T
  BY <1>0, <1>2, <1>4
<1>6. End(A, (k - 1) - 1) <= (k - 1) * l
  BY <1>5
<1>7. /\ End(A, k - 1) = End(A, (k - 1) - 1) + LengthOf(A, k - 1)
      /\ End(A, (k - 1) - 1) \in Nat /\ End(A, k - 1) \in Nat /\ LengthOf(A, k - 1) \in Nat
  BY <1>5, EndStep, BeamType
<1>8. LengthOf(A, k - 1) <= l
  BY <1>5
<1>9. (k - 1) * l + l = k * l /\ (k - 1) * l \in Int /\ k * l \in Int
  BY <1>3
<1>10. End(A, k - 1) <= k * l
  <2> DEFINE e == End(A, k - 1)
             f == End(A, (k - 1) - 1)
             g == LengthOf(A, k - 1)
             p == (k - 1) * l
             q == k * l
  <2>1. e = f + g /\ e \in Nat /\ f \in Nat /\ g \in Nat /\ f <= p /\ g <= l /\ p + l = q /\ p \in Int /\ q \in Int
    BY <1>6, <1>7, <1>8, <1>9
  <2> HIDE DEF e, f, g, p, q
  <2>2. e <= q
    BY <2>1
  <2> QED BY <2>2 DEF e, q
<1> QED BY <1>2, <1>10

(* A token is written by its own beam, and is the one of its place in it.  *)
LEMMA TokenOfBeam ==
  ASSUME NEW A, IsAnswer(A), NEW i \in 0 .. Len(A) - 1, NEW k \in 1 .. LengthOf(A, i)
  PROVE  /\ TokenWritten(A, End(A, i - 1) + k - 1) = Beam(A, i).tokens[k]
         /\ End(A, i - 1) + k - 1 \in 0 .. End(A, Len(A) - 1) - 1
<1>1. /\ Len(A) \in Nat /\ i \in Nat /\ LengthOf(A, i) \in Nat
      /\ End(A, i) \in Nat /\ End(A, i - 1) \in Nat /\ End(A, i) = End(A, i - 1) + LengthOf(A, i)
  BY BeamType, EndStep
<1>2. PICK at : at = End(A, i - 1) + k - 1
  OBVIOUS
<1>3. at \in Nat /\ End(A, i - 1) <= at /\ at < End(A, i)
  BY <1>1, <1>2
<1>4. ASSUME NEW j \in 0 .. Len(A) - 1, End(A, j - 1) <= at, at < End(A, j)
      PROVE  j = i
  <2>1. j \in Nat /\ End(A, j) \in Nat /\ End(A, j - 1) \in Nat
    BY <1>1, EndStep
  <2>2. CASE j < i
    <3>1. i - 1 \in Nat /\ j <= i - 1
      BY <1>1, <2>1, <2>2
    <3>2. End(A, j) <= End(A, i - 1)
      BY <2>1, <3>1, EndsRise
    <3> QED BY <1>1, <1>3, <1>4, <2>1, <3>2
  <2>3. CASE i < j
    <3>1. j - 1 \in Nat /\ i <= j - 1
      BY <1>1, <2>1, <2>3
    <3>2. End(A, i) <= End(A, j - 1)
      BY <1>1, <3>1, EndsRise
    <3> QED BY <1>1, <1>3, <1>4, <2>1, <3>2
  <2> QED BY <1>1, <2>1, <2>2, <2>3
<1>5. WriterOf(A, at) = i
  BY <1>3, <1>4 DEF WriterOf
<1>6. LengthOf(A, i) - (End(A, i) - 1 - at) = k
  BY <1>1, <1>2
<1>7. TokenWritten(A, at) = Beam(A, i).tokens[k]
  BY <1>5, <1>6 DEF TokenWritten
<1>8. End(A, i) <= End(A, Len(A) - 1) /\ End(A, Len(A) - 1) \in Nat
  <2>1. Len(A) - 1 \in Nat /\ i <= Len(A) - 1
    BY <1>1
  <2> QED BY <1>1, <2>1, EndStep, EndsRise
<1> QED BY <1>1, <1>2, <1>3, <1>7, <1>8

-----------------------------------------------------------------------------
(* Arrays in memory.                                                       *)
LEMMA ArrayLength ==
  ASSUME NEW n \in Nat, NEW v, v = [i \in 1 .. n |-> v[i]]
  PROVE  Len(v) = n
<1> DEFINE S == {v[i] : i \in 1 .. n}
<1>1. v \in [1 .. n -> S]
  <2>1. \A i \in 1 .. n : v[i] \in S
    OBVIOUS
  <2> HIDE DEF S
  <2> QED BY <2>1
<1> HIDE DEF S
<1>2. v \in Seq(S)
  BY <1>1
<1> QED BY <1>1, <1>2, LenProperties

WordsHold(u, v) ==
  LET mem == WordsAt(u, v)
  IN /\ DOMAIN mem = u .. u + 2 * Len(v) - 1
     /\ \A i \in 0 .. Len(v) - 1 : mem[u + 2 * i] = [of |-> v[i + 1], part |-> 1]
     /\ \A i \in 0 .. Len(v) - 1 : mem[u + 2 * i + 1] = [of |-> v[i + 1], part |-> 2]

LEMMA WordsThere ==
  ASSUME NEW u \in Nat, NEW v, Len(v) \in Nat
  PROVE  WordsHold(u, v)
<1>0. PICK n, mem : n \in Nat /\ n = Len(v) /\ mem = WordsAt(u, v)
  OBVIOUS
<1>1. DOMAIN mem = u .. u + 2 * n - 1
  BY <1>0 DEF WordsAt
<1>2. \A w \in u .. u + 2 * n - 1 : mem[w] = [of |-> v[(w - u) \div 2 + 1], part |-> ((w - u) % 2) + 1]
  BY <1>0 DEF WordsAt
<1>3. ASSUME NEW i \in 0 .. n - 1
      PROVE  mem[u + 2 * i] = [of |-> v[i + 1], part |-> 1] /\ mem[u + 2 * i + 1] = [of |-> v[i + 1], part |-> 2]
  <2>1. u + 2 * i \in u .. u + 2 * n - 1 /\ u + 2 * i + 1 \in u .. u + 2 * n - 1
    BY <1>0
  <2>2. ((u + 2 * i) - u) \div 2 = i /\ ((u + 2 * i) - u) % 2 = 0
    BY <1>0
  <2>3. ((u + 2 * i + 1) - u) \div 2 = i /\ ((u + 2 * i + 1) - u) % 2 = 1
    BY <1>0
  <2>4. mem[u + 2 * i] = [of |-> v[i + 1], part |-> 0 + 1]
    BY <1>2, <2>1, <2>2
  <2>5. mem[u + 2 * i + 1] = [of |-> v[i + 1], part |-> 1 + 1]
    BY <1>2, <2>1, <2>3
  <2> QED BY <2>4, <2>5
<1> QED BY <1>0, <1>1, <1>3 DEF WordsHold

LEMMA HalfThere ==
  ASSUME NEW u \in Nat, NEW n \in Nat, NEW v, Len(v) = n, NEW i \in 0 .. n - 1
  PROVE  u + i \in DOMAIN HalvesAt(u, v) /\ HalvesAt(u, v)[u + i] = [of |-> v[i + 1], part |-> 0]
<1>1. u + i \in u .. u + n - 1 /\ (u + i) - u + 1 = i + 1
  OBVIOUS
<1> QED BY <1>1 DEF HalvesAt

LEMMA OverThere ==
  ASSUME NEW w, NEW mem, NEW u
  PROVE  /\ DOMAIN Over(w, mem) = DOMAIN w \cup DOMAIN mem
         /\ u \in DOMAIN w => Over(w, mem)[u] = w[u]
         /\ u \notin DOMAIN w /\ u \in DOMAIN mem => Over(w, mem)[u] = mem[u]
BY DEF Over

(* What an answer looks like in memory, one unit after the other.          *)
InMemory(A, mem) ==
  LET n == Len(A)
  IN /\ mem[TotalAt] = [of |-> OutUnits(n, End(A, n - 1)), part |-> 1]
     /\ mem[TotalAt + 1] = [of |-> OutUnits(n, End(A, n - 1)), part |-> 2]
     /\ mem[BeamsAt] = [of |-> n, part |-> 1] /\ mem[BeamsAt + 1] = [of |-> n, part |-> 2]
     /\ \A i \in 0 .. n - 1 :
          /\ mem[LogpAt(i)] = [of |-> Beam(A, i).logp, part |-> 1]
          /\ mem[LogpAt(i) + 1] = [of |-> Beam(A, i).logp, part |-> 2]
          /\ mem[OffsetAt(n, i)] = [of |-> End(A, i), part |-> 1]
          /\ mem[OffsetAt(n, i) + 1] = [of |-> End(A, i), part |-> 2]
          /\ \A k \in 1 .. LengthOf(A, i) :
               mem[TokenAt(n, End(A, i - 1) + k - 1)] = [of |-> Beam(A, i).tokens[k], part |-> 0]

(* The units of an answer, which the others of its buffer lie behind.      *)
UnitsOf(A) == TokenAt(Len(A), End(A, Len(A) - 1))

(* One word in memory.                                                     *)
LEMMA WordThere ==
  ASSUME NEW u \in Nat, NEW x
  PROVE  /\ DOMAIN WordsAt(u, << x >>) = u .. u + 1
         /\ WordsAt(u, << x >>)[u] = [of |-> x, part |-> 1]
         /\ WordsAt(u, << x >>)[u + 1] = [of |-> x, part |-> 2]
<1> DEFINE v == << x >>
<1>1. Len(v) = 1 /\ v[1] = x
  OBVIOUS
<1> HIDE DEF v
<1>2. WordsHold(u, v)
  BY <1>1, WordsThere
<1>3. \A i \in 0 .. 1 - 1 :
        WordsAt(u, v)[u + 2 * i] = [of |-> v[i + 1], part |-> 1] /\ WordsAt(u, v)[u + 2 * i + 1] = [of |-> v[i + 1], part |-> 2]
  BY <1>1, <1>2 DEF WordsHold
<1>4. DOMAIN WordsAt(u, v) = u .. u + 1
  BY <1>1 DEF WordsAt
<1>5. PICK j \in 0 .. 1 - 1 : j = 0
  OBVIOUS
<1>6. u + 2 * j = u /\ j + 1 = 1 /\ u + 2 * j + 1 = u + 1
  BY <1>5
<1>7. WordsAt(u, v)[u] = [of |-> v[1], part |-> 1] /\ WordsAt(u, v)[u + 1] = [of |-> v[1], part |-> 2]
  BY <1>3, <1>6
<1> QED BY <1>1, <1>4, <1>7 DEF v

(* A word that is read where it was written.                               *)
LEMMA WordBack ==
  ASSUME NEW mem, NEW u, NEW x, mem[u] = [of |-> x, part |-> 1], mem[u + 1] = [of |-> x, part |-> 2]
  PROVE  WordRead(mem, u) = x
BY DEF WordRead

LEMMA ResultInMemory ==
  ASSUME NEW A, IsAnswer(A)
  PROVE  InMemory(A, GenerateResult(A)) /\ 0 .. UnitsOf(A) - 1 \subseteq DOMAIN GenerateResult(A)
<1> DEFINE n == Len(A)
           tokens == End(A, n - 1)
           x0 == Scanned(A)
           size == OutUnits(n, TokensIn(x0, n))
           sent == [k \in 1 .. tokens |-> TokenWritten(A, k - 1)]
           ends == [i \in 1 .. Rounded(n) |-> End(A, i - 1)]
           logps == [i \in 1 .. n |-> Beam(A, i - 1).logp]
           c == WordsAt(TotalAt, << size >>)
           b == WordsAt(BeamsAt, << n >>)
           t == HalvesAt(TokenAt(n, 0), sent)
           o == WordsAt(OffsetAt(n, 0), ends)
           s == WordsAt(LogpAt(0), logps)
           r == Over(c, Over(t, x0))
<1>1. n \in Nat /\ tokens \in Nat
  <2>1. n \in Nat
    BY BeamType
  <2>2. CASE n = 0
    <3>1. End(A, 0 - 1) = 0
      BY EndStep
    <3> QED BY <2>2, <3>1
  <2>3. CASE n # 0
    <3>1. n - 1 \in Nat
      BY <2>1, <2>3
    <3> QED BY <2>1, <3>1, EndStep
  <2> QED BY <2>1, <2>2, <2>3
<1>2. r = GenerateResult(A)
  BY DEF GenerateResult, Sentences, Scan, Scores
<1>3. Rounded(n) \in Nat /\ n <= Rounded(n)
  <2> DEFINE B == BlockSize
             m == n + B - 1
             q == m \div B
  <2>1. B \in Nat \ {0}
    BY LayoutAssumption
  <2>2. m \in Nat
    BY <1>1, <2>1
  <2>3. Rounded(n) = q * B
    BY DEF Rounded
  <2>4. q \in Nat /\ q * B + (m % B) = m /\ m % B \in 0 .. B - 1
    <3> HIDE DEF m, B
    <3> QED BY <2>1, <2>2
  <2>5. q * B \in Nat
    <3> HIDE DEF q, B
    <3> QED BY <2>1, <2>4
  <2> DEFINE p == q * B
             e == m % B
  <2>6. p \in Nat /\ e \in 0 .. B - 1 /\ p + e = n + B - 1
    BY <2>4, <2>5
  <2> HIDE DEF p, e, q, B, n
  <2>7. n <= p
    BY <1>1, <2>1, <2>6
  <2> QED BY <2>3, <2>5, <2>7 DEF p
<1>4. Len(sent) = tokens /\ Len(ends) = Rounded(n) /\ Len(logps) = n
  <2> HIDE DEF n, tokens
  <2>1. Len(sent) = tokens
    BY <1>1, ArrayLength
  <2>2. Len(ends) = Rounded(n)
    BY <1>3, ArrayLength
  <2>3. Len(logps) = n
    BY <1>1, ArrayLength
  <2> QED BY <2>1, <2>2, <2>3
<1>5. /\ DOMAIN c = 0 .. 1 /\ c[0] = [of |-> size, part |-> 1] /\ c[1] = [of |-> size, part |-> 2]
      /\ DOMAIN b = 2 .. 3 /\ b[2] = [of |-> n, part |-> 1] /\ b[3] = [of |-> n, part |-> 2]
  <2> HIDE DEF n, size
  <2>1. TotalAt = 0 /\ BeamsAt = 2 /\ 0 \in Nat /\ 2 \in Nat /\ 0 + 1 = 1 /\ 2 + 1 = 3
    BY DEF TotalAt, BeamsAt
  <2> QED BY <2>1, WordThere
<1>6. /\ DOMAIN t = TokenAt(n, 0) .. TokenAt(n, 0) + tokens - 1
      /\ DOMAIN o = OffsetAt(n, 0) .. OffsetAt(n, 0) + 2 * Rounded(n) - 1
      /\ DOMAIN s = LogpAt(0) .. LogpAt(0) + 2 * n - 1
  BY <1>4 DEF WordsAt, HalvesAt
<1> HIDE DEF c, b, size
<1>7. LogpAt(0) = 4 /\ OffsetAt(n, 0) = 4 + 2 * n /\ TokenAt(n, 0) = 4 + 4 * n /\ BeamsAt = 2
  BY <1>1 DEF LogpAt, OffsetAt, TokenAt, BeamsAt
<1>8. /\ \A i : LogpAt(i) = 4 + 2 * i /\ OffsetAt(n, i) = 4 + 2 * n + 2 * i /\ TokenAt(n, i) = 4 + 4 * n + i
  BY DEF LogpAt, OffsetAt, TokenAt
<1> DEFINE x1 == Over(o, s)
           x2 == Over(t, x0)
<1>9. ASSUME NEW i \in 0 .. n - 1
      PROVE  /\ o[OffsetAt(n, i)] = [of |-> End(A, i), part |-> 1]
             /\ o[OffsetAt(n, i) + 1] = [of |-> End(A, i), part |-> 2]
             /\ s[LogpAt(i)] = [of |-> Beam(A, i).logp, part |-> 1]
             /\ s[LogpAt(i) + 1] = [of |-> Beam(A, i).logp, part |-> 2]
  <2> HIDE DEF n
  <2>1. i \in 0 .. Rounded(n) - 1 /\ i + 1 \in 1 .. Rounded(n) /\ (i + 1) - 1 = i /\ i + 1 \in 1 .. n
    BY <1>1, <1>3
  <2>2. ends[i + 1] = End(A, i) /\ logps[i + 1] = Beam(A, i).logp
    BY <2>1
  <2> HIDE DEF ends, logps
  <2>3. OffsetAt(n, 0) \in Nat /\ LogpAt(0) \in Nat
    BY <1>1, <1>7
  <2>4. OffsetAt(n, i) = OffsetAt(n, 0) + 2 * i /\ LogpAt(i) = LogpAt(0) + 2 * i
    BY <1>1, <1>7, <1>8
  <2>5. /\ o[OffsetAt(n, 0) + 2 * i] = [of |-> ends[i + 1], part |-> 1]
        /\ o[OffsetAt(n, 0) + 2 * i + 1] = [of |-> ends[i + 1], part |-> 2]
    <3> DEFINE u == OffsetAt(n, 0)
               m == Rounded(n)
    <3>1. u \in Nat /\ m \in Nat /\ Len(ends) = m /\ i \in 0 .. m - 1 /\ o = WordsAt(u, ends)
      BY <1>3, <1>4, <2>1, <2>3
    <3> HIDE DEF u, m, o
    <3> HIDE DEF ends
    <3>2. WordsHold(u, ends)
      BY <3>1, WordsThere
    <3>3. \A k \in 0 .. m - 1 :
            o[u + 2 * k] = [of |-> ends[k + 1], part |-> 1] /\ o[u + 2 * k + 1] = [of |-> ends[k + 1], part |-> 2]
      BY <3>1, <3>2 DEF WordsHold
    <3> QED BY <3>1, <3>3 DEF u
  <2>6. /\ s[LogpAt(0) + 2 * i] = [of |-> logps[i + 1], part |-> 1]
        /\ s[LogpAt(0) + 2 * i + 1] = [of |-> logps[i + 1], part |-> 2]
    <3> DEFINE u == LogpAt(0)
               m == n
    <3>1. u \in Nat /\ m \in Nat /\ Len(logps) = m /\ i \in 0 .. m - 1 /\ s = WordsAt(u, logps)
      BY <1>1, <1>4, <2>3
    <3> HIDE DEF u, m, s
    <3> HIDE DEF logps
    <3>2. WordsHold(u, logps)
      BY <3>1, WordsThere
    <3>3. \A k \in 0 .. m - 1 :
            s[u + 2 * k] = [of |-> logps[k + 1], part |-> 1] /\ s[u + 2 * k + 1] = [of |-> logps[k + 1], part |-> 2]
      BY <3>1, <3>2 DEF WordsHold
    <3> QED BY <3>1, <3>3 DEF u
  <2> QED BY <2>2, <2>4, <2>5, <2>6
<1>10. ASSUME NEW at \in 0 .. tokens - 1
       PROVE  t[TokenAt(n, at)] = [of |-> TokenWritten(A, at), part |-> 0]
  <2> HIDE DEF n, tokens
  <2>1. at + 1 \in 1 .. tokens /\ (at + 1) - 1 = at /\ TokenAt(n, 0) \in Nat /\ TokenAt(n, at) = TokenAt(n, 0) + at
    BY <1>1, <1>7, <1>8
  <2>2. sent[at + 1] = TokenWritten(A, at)
    BY <2>1
  <2> HIDE DEF sent
  <2>3. t[TokenAt(n, 0) + at] = [of |-> sent[at + 1], part |-> 0]
    BY <1>1, <1>4, <2>1, HalfThere
  <2> QED BY <2>1, <2>2, <2>3
<1> HIDE DEF t, o, s
<1>11. /\ x0 = Over(b, x1) /\ DOMAIN x1 = DOMAIN o \cup DOMAIN s /\ DOMAIN x0 = DOMAIN b \cup DOMAIN x1
       /\ DOMAIN x2 = DOMAIN t \cup DOMAIN x0 /\ DOMAIN r = DOMAIN c \cup DOMAIN x2
  <2>1. x0 = Over(b, x1)
    BY DEF Scanned, Scan, Scores, o, s, b
  <2> QED BY <2>1, OverThere
<1>12. ASSUME NEW u
       PROVE  /\ u \in DOMAIN c => r[u] = c[u]
              /\ u \in DOMAIN t /\ u \notin DOMAIN c => r[u] = t[u]
              /\ u \in DOMAIN x0 /\ u \notin DOMAIN t /\ u \notin DOMAIN c => r[u] = x0[u]
              /\ u \in DOMAIN b => x0[u] = b[u]
              /\ u \in DOMAIN o /\ u \notin DOMAIN b => x0[u] = o[u]
              /\ u \in DOMAIN s /\ u \notin DOMAIN b /\ u \notin DOMAIN o => x0[u] = s[u]
  <2>1. r = Over(c, x2) /\ x2 = Over(t, x0) /\ x0 = Over(b, x1) /\ x1 = Over(o, s)
    BY <1>11
  <2> HIDE DEF r, x0, x1, x2
  <2>2. (u \in DOMAIN c => r[u] = c[u]) /\ (u \notin DOMAIN c /\ u \in DOMAIN x2 => r[u] = x2[u])
    <3>1. (u \in DOMAIN c => Over(c, x2)[u] = c[u]) /\ (u \notin DOMAIN c /\ u \in DOMAIN x2 => Over(c, x2)[u] = x2[u])
      BY DEF Over
    <3> QED BY <2>1, <3>1
  <2>3. (u \in DOMAIN t => x2[u] = t[u]) /\ (u \notin DOMAIN t /\ u \in DOMAIN x0 => x2[u] = x0[u])
    <3>1. (u \in DOMAIN t => Over(t, x0)[u] = t[u]) /\ (u \notin DOMAIN t /\ u \in DOMAIN x0 => Over(t, x0)[u] = x0[u])
      BY DEF Over
    <3> QED BY <2>1, <3>1
  <2>4. (u \in DOMAIN b => x0[u] = b[u]) /\ (u \notin DOMAIN b /\ u \in DOMAIN x1 => x0[u] = x1[u])
    <3>1. (u \in DOMAIN b => Over(b, x1)[u] = b[u]) /\ (u \notin DOMAIN b /\ u \in DOMAIN x1 => Over(b, x1)[u] = x1[u])
      BY DEF Over
    <3> QED BY <2>1, <3>1
  <2>5. (u \in DOMAIN o => x1[u] = o[u]) /\ (u \notin DOMAIN o /\ u \in DOMAIN s => x1[u] = s[u])
    <3>1. (u \in DOMAIN o => Over(o, s)[u] = o[u]) /\ (u \notin DOMAIN o /\ u \in DOMAIN s => Over(o, s)[u] = s[u])
      BY DEF Over
    <3> QED BY <2>1, <3>1
  <2> QED BY <1>11, <2>2, <2>3, <2>4, <2>5
<1> HIDE DEF r, x0, x1, x2
<1>18. /\ DOMAIN c = 0 .. 1 /\ DOMAIN b = 2 .. 3
       /\ DOMAIN t = 4 + 4 * n .. 4 + 4 * n + tokens - 1
       /\ DOMAIN o = 4 + 2 * n .. 4 + 2 * n + 2 * Rounded(n) - 1
       /\ DOMAIN s = 4 .. 4 + 2 * n - 1
  BY <1>5, <1>6, <1>7
<1>13. /\ r[TotalAt] = [of |-> size, part |-> 1] /\ r[TotalAt + 1] = [of |-> size, part |-> 2]
       /\ r[BeamsAt] = [of |-> n, part |-> 1] /\ r[BeamsAt + 1] = [of |-> n, part |-> 2]
  <2> HIDE DEF n, tokens
  <2>1. \A u \in {0, 1} : u \in DOMAIN c
    BY <1>18
  <2>2. \A u \in {2, 3} : u \in DOMAIN b /\ u \notin DOMAIN c /\ u \notin DOMAIN t
    BY <1>1, <1>18
  <2>3. r[0] = c[0] /\ r[1] = c[1] /\ r[2] = b[2] /\ r[3] = b[3]
    BY <1>11, <1>12, <2>1, <2>2
  <2>4. TotalAt = 0 /\ TotalAt + 1 = 1 /\ BeamsAt = 2 /\ BeamsAt + 1 = 3
    BY DEF TotalAt, BeamsAt
  <2> QED BY <1>5, <2>3, <2>4
<1>14. ASSUME NEW i \in 0 .. n - 1
       PROVE  /\ r[LogpAt(i)] = [of |-> Beam(A, i).logp, part |-> 1]
              /\ r[LogpAt(i) + 1] = [of |-> Beam(A, i).logp, part |-> 2]
              /\ r[OffsetAt(n, i)] = [of |-> End(A, i), part |-> 1]
              /\ r[OffsetAt(n, i) + 1] = [of |-> End(A, i), part |-> 2]
              /\ x0[OffsetAt(n, i)] = [of |-> End(A, i), part |-> 1]
              /\ x0[OffsetAt(n, i) + 1] = [of |-> End(A, i), part |-> 2]
  <2> HIDE DEF n, tokens
  <2>4. i \in Nat /\ i <= n - 1 /\ n \in Nat /\ tokens \in Nat /\ Rounded(n) \in Nat /\ n <= Rounded(n)
    BY <1>1, <1>3
  <2>6. LogpAt(i) = 4 + 2 * i /\ OffsetAt(n, i) = 4 + 2 * n + 2 * i
    BY <1>8
  <2> DEFINE m == Rounded(n)
             p == LogpAt(i)
             q == OffsetAt(n, i)
  <2> HIDE DEF m, p, q
  <2>1. ASSUME NEW u \in {p, p + 1}
        PROVE  u \in DOMAIN s /\ u \notin DOMAIN c /\ u \notin DOMAIN t /\ u \notin DOMAIN o /\ u \notin DOMAIN b
    <3>1. u \in Int /\ 4 <= u /\ u <= 4 + 2 * n - 1
      BY <2>4, <2>6 DEF p
    <3> QED BY <1>18, <2>4, <3>1
  <2>2. ASSUME NEW u \in {q, q + 1}
        PROVE  u \in DOMAIN o /\ u \notin DOMAIN c /\ u \notin DOMAIN t /\ u \notin DOMAIN b
    <3>1. u \in Int /\ 4 + 2 * n <= u /\ u <= 4 + 4 * n - 1 /\ u <= 4 + 2 * n + 2 * m - 1
      BY <2>4, <2>6 DEF q, m
    <3> QED BY <1>18, <2>4, <3>1 DEF m
  <2>3. \A u \in {p, p + 1} : r[u] = s[u]
    BY <1>11, <1>12, <2>1
  <2>5. \A u \in {q, q + 1} : r[u] = o[u] /\ x0[u] = o[u]
    BY <1>11, <1>12, <2>2
  <2> QED BY <1>9, <2>3, <2>5 DEF p, q
<1>15. ASSUME NEW at \in 0 .. tokens - 1
       PROVE  r[TokenAt(n, at)] = [of |-> TokenWritten(A, at), part |-> 0]
  <2> HIDE DEF n, tokens
  <2>1. TokenAt(n, at) \in DOMAIN t /\ TokenAt(n, at) \notin DOMAIN c
    BY <1>1, <1>8, <1>18
  <2> QED BY <1>10, <1>12, <2>1
<1>16. 0 .. UnitsOf(A) - 1 \subseteq DOMAIN r
  <2>1. UnitsOf(A) = 4 + 4 * n + tokens
    BY <1>8 DEF UnitsOf
  <2> HIDE DEF n, tokens
  <2> QED BY <1>1, <1>3, <1>11, <1>18, <2>1
<1>19. size = OutUnits(n, tokens)
  <2>1. CASE n = 0
    <3>1. n - 1 = 0 - 1 /\ OffsetAt(n, n - 1) = 2
      BY <1>8, <2>1
    <3>2. tokens = 0
      BY <3>1, EndStep
    <3>3. x0[2] = [of |-> n, part |-> 1] /\ x0[2 + 1] = [of |-> n, part |-> 2]
      BY <1>5, <1>12, <1>18
    <3>4. WordRead(x0, 2) = n
      BY <3>3, WordBack
    <3>5. TokensIn(x0, n) = tokens
      BY <2>1, <3>1, <3>2, <3>4 DEF TokensIn
    <3> QED BY <3>5 DEF size
  <2>2. CASE n # 0
    <3>1. n - 1 \in 0 .. n - 1
      BY <1>1, <2>2
    <3>2. /\ x0[OffsetAt(n, n - 1)] = [of |-> tokens, part |-> 1]
          /\ x0[OffsetAt(n, n - 1) + 1] = [of |-> tokens, part |-> 2]
      BY <1>14, <3>1
    <3>3. WordRead(x0, OffsetAt(n, n - 1)) = tokens
      BY <3>2, WordBack
    <3> QED BY <3>3 DEF TokensIn, size
  <2> QED BY <2>1, <2>2
<1>17. InMemory(A, r)
  <2>1. ASSUME NEW i \in 0 .. n - 1, NEW k \in 1 .. LengthOf(A, i)
        PROVE  r[TokenAt(n, End(A, i - 1) + k - 1)] = [of |-> Beam(A, i).tokens[k], part |-> 0]
    <3>1. TokenWritten(A, End(A, i - 1) + k - 1) = Beam(A, i).tokens[k] /\ End(A, i - 1) + k - 1 \in 0 .. tokens - 1
      BY TokenOfBeam
    <3> QED BY <1>15, <3>1
  <2> QED BY <1>13, <1>14, <1>19, <2>1 DEF InMemory
<1> QED BY <1>2, <1>16, <1>17

(* A request whose answers have m beams of l tokens at most.               *)
LEMMA UnitsExpected ==
  ASSUME NEW A, IsAnswer(A), NEW m \in Nat, NEW l \in Nat, Len(A) <= m,
         \A i \in 1 .. Len(A) : Len(A[i].tokens) <= l
  PROVE  UnitsOf(A) \in Nat /\ 4 <= UnitsOf(A) /\ UnitsOf(A) <= OutUnits(m, m * l)
<1> DEFINE n == Len(A)
           e == End(A, n - 1)
<1>1. n \in Nat
  BY BeamType
<1>2. \A i \in 0 .. n - 1 : LengthOf(A, i) <= l
  <2> SUFFICES ASSUME NEW i \in 0 .. n - 1 PROVE LengthOf(A, i) <= l
    OBVIOUS
  <2>1. n - i \in 1 .. n
    BY <1>1
  <2>2. Len(A[n - i].tokens) <= l
    BY <2>1
  <2>3. LengthOf(A, i) = Len(A[n - i].tokens)
    BY BeamType DEF Beam
  <2> QED BY <2>2, <2>3
<1>3. e <= n * l /\ e \in Nat
  <2>1. e <= n * l
    <3>1. n <= Len(A)
      BY <1>1
    <3>2. \A i \in 0 .. Len(A) - 1 : LengthOf(A, i) <= l
      BY <1>2
    <3> HIDE DEF n
    <3>3. End(A, n - 1) <= n * l
      BY <1>1, <3>1, <3>2, EndsBounded
    <3> QED BY <3>3
  <2>2. n \in Nat => e \in Nat
    <3>1. CASE n = 0
      <4>1. n - 1 = 0 - 1
        BY <3>1
      <4> QED BY <4>1, EndStep
    <3>2. CASE n # 0
      <4>1. n - 1 \in Nat
        BY <1>1, <3>2
      <4> QED BY <4>1, EndStep
    <3> QED BY <3>1, <3>2
  <2> QED BY <1>1, <2>1, <2>2
<1>4. n * l <= m * l /\ n * l \in Nat /\ m * l \in Nat
  <2>1. PICK d \in Nat : m = n + d
    <3>1. m - n \in Nat /\ m = n + (m - n)
      BY <1>1
    <3> QED BY <3>1
  <2>2. m * l = n * l + d * l /\ d * l \in Nat /\ n * l \in Nat
    <3> HIDE DEF n
    <3> QED BY <1>1, <2>1
  <2> QED BY <2>2
<1>5. UnitsOf(A) = 4 + 4 * n + e /\ OutUnits(m, m * l) = 4 + 4 * m + m * l
  BY DEF UnitsOf, TokenAt, OutUnits
<1> DEFINE p == n * l
           q == m * l
<1>6. p \in Nat /\ q \in Nat /\ e <= p /\ p <= q /\ e \in Nat /\ n \in Nat /\ n <= m
  BY <1>1, <1>3, <1>4
<1> HIDE DEF p, e, n
<1>7. 4 + 4 * n + e <= 4 + 4 * m + q
  <2> HIDE DEF q
  <2> QED BY <1>6
<1>8. 4 + 4 * n + e \in Nat /\ 4 <= 4 + 4 * n + e
  BY <1>6
<1> QED BY <1>5, <1>7, <1>8

(* An answer in memory stays there in a copy of its units.                 *)
LEMMA InMemoryKept ==
  ASSUME NEW A, IsAnswer(A), NEW mem, NEW new, InMemory(A, mem),
         \A u \in 0 .. UnitsOf(A) - 1 : new[u] = mem[u]
  PROVE  InMemory(A, new)
<1> DEFINE n == Len(A)
           e == End(A, n - 1)
<1>1. n \in Nat
  BY BeamType
<1>2. e \in Nat
  <2>1. CASE n = 0
    <3>1. n - 1 = 0 - 1
      BY <2>1
    <3> QED BY <3>1, EndStep
  <2>2. CASE n # 0
    <3>1. n - 1 \in Nat
      BY <1>1, <2>2
    <3> QED BY <3>1, EndStep
  <2> QED BY <2>1, <2>2
<1>3. UnitsOf(A) = 4 + 4 * n + e
  BY DEF UnitsOf, TokenAt
<1>4. /\ TotalAt \in 0 .. UnitsOf(A) - 1 /\ TotalAt + 1 \in 0 .. UnitsOf(A) - 1
      /\ BeamsAt \in 0 .. UnitsOf(A) - 1 /\ BeamsAt + 1 \in 0 .. UnitsOf(A) - 1
  <2> HIDE DEF n, e
  <2> QED BY <1>1, <1>2, <1>3 DEF TotalAt, BeamsAt
<1>5. ASSUME NEW i \in 0 .. n - 1
      PROVE  /\ LogpAt(i) \in 0 .. UnitsOf(A) - 1 /\ LogpAt(i) + 1 \in 0 .. UnitsOf(A) - 1
             /\ OffsetAt(n, i) \in 0 .. UnitsOf(A) - 1 /\ OffsetAt(n, i) + 1 \in 0 .. UnitsOf(A) - 1
  <2> HIDE DEF n, e
  <2> QED BY <1>1, <1>2, <1>3 DEF LogpAt, OffsetAt
<1>6. ASSUME NEW i \in 0 .. n - 1, NEW k \in 1 .. LengthOf(A, i)
      PROVE  TokenAt(n, End(A, i - 1) + k - 1) \in 0 .. UnitsOf(A) - 1
  <2>1. End(A, i - 1) + k - 1 \in 0 .. e - 1
    BY TokenOfBeam
  <2> DEFINE at == End(A, i - 1) + k - 1
  <2>2. at \in 0 .. e - 1
    BY <2>1
  <2> HIDE DEF n, e, at
  <2>3. TokenAt(n, at) \in 0 .. UnitsOf(A) - 1
    BY <1>1, <1>2, <1>3, <2>2 DEF TokenAt
  <2> QED BY <2>3 DEF at
<1>7. /\ new[TotalAt] = [of |-> OutUnits(n, e), part |-> 1] /\ new[TotalAt + 1] = [of |-> OutUnits(n, e), part |-> 2]
      /\ new[BeamsAt] = [of |-> n, part |-> 1] /\ new[BeamsAt + 1] = [of |-> n, part |-> 2]
  BY <1>4 DEF InMemory
<1>8. ASSUME NEW i \in 0 .. n - 1
      PROVE  /\ new[LogpAt(i)] = [of |-> Beam(A, i).logp, part |-> 1]
             /\ new[LogpAt(i) + 1] = [of |-> Beam(A, i).logp, part |-> 2]
             /\ new[OffsetAt(n, i)] = [of |-> End(A, i), part |-> 1]
             /\ new[OffsetAt(n, i) + 1] = [of |-> End(A, i), part |-> 2]
  BY <1>5 DEF InMemory
<1>9. ASSUME NEW i \in 0 .. n - 1, NEW k \in 1 .. LengthOf(A, i)
      PROVE  new[TokenAt(n, End(A, i - 1) + k - 1)] = [of |-> Beam(A, i).tokens[k], part |-> 0]
  BY <1>6, <1>9 DEF InMemory
<1> QED BY <1>7, <1>8, <1>9 DEF InMemory

(* The host takes from memory what the kernel selected, the worst first.   *)
LEMMA ParsedAnswer ==
  ASSUME NEW A, IsAnswer(A), NEW mem, InMemory(A, mem)
  PROVE  Parsed(mem) = Reverse(A)
<1> DEFINE n == Len(A)
           UpTo(i) == IF i = 0 THEN 0 ELSE WordRead(mem, OffsetAt(n, i - 1))
           sent(i) == [tokens |-> [k \in 1 .. UpTo(i) - UpTo(i - 1) |-> HalfRead(mem, TokenAt(n, UpTo(i - 1) + k - 1))],
                       logp |-> WordRead(mem, LogpAt(i - 1))]
<1>1. n \in Nat
  BY BeamType
<1>2. WordRead(mem, BeamsAt) = n
  <2>1. mem[BeamsAt] = [of |-> n, part |-> 1] /\ mem[BeamsAt + 1] = [of |-> n, part |-> 2]
    BY DEF InMemory
  <2> HIDE DEF n
  <2> QED BY <2>1 DEF WordRead
<1>3. ASSUME NEW i \in 0 .. n - 1
      PROVE  WordRead(mem, OffsetAt(n, i)) = End(A, i) /\ WordRead(mem, LogpAt(i)) = Beam(A, i).logp
  <2>1. /\ mem[LogpAt(i)] = [of |-> Beam(A, i).logp, part |-> 1]
        /\ mem[LogpAt(i) + 1] = [of |-> Beam(A, i).logp, part |-> 2]
        /\ mem[OffsetAt(n, i)] = [of |-> End(A, i), part |-> 1]
        /\ mem[OffsetAt(n, i) + 1] = [of |-> End(A, i), part |-> 2]
    BY DEF InMemory
  <2> HIDE DEF n
  <2> QED BY <2>1 DEF WordRead
<1>4. ASSUME NEW i \in 0 .. n PROVE UpTo(i) = End(A, i - 1)
  <2>1. CASE i = 0
    <3>1. i - 1 = 0 - 1
      BY <2>1
    <3> QED BY <2>1, <3>1, EndStep
  <2>2. CASE i # 0
    <3>1. i - 1 \in 0 .. n - 1
      BY <1>1, <2>2
    <3> QED BY <1>3, <2>2, <3>1
  <2> QED BY <2>1, <2>2
<1>5. ASSUME NEW i \in 1 .. n PROVE sent(i) = A[n - i + 1]
  <2>1. i - 1 \in 0 .. n - 1 /\ i \in 0 .. n /\ i - 1 \in 0 .. n /\ i - 1 \in Nat
    BY <1>1
  <2> DEFINE b == Beam(A, i - 1)
             start == End(A, (i - 1) - 1)
  <2>2. UpTo(i) = End(A, i - 1) /\ UpTo(i - 1) = start /\ WordRead(mem, LogpAt(i - 1)) = b.logp
    BY <1>3, <1>4, <2>1
  <2>3. /\ End(A, i - 1) - start = LengthOf(A, i - 1) /\ LengthOf(A, i - 1) = Len(b.tokens)
        /\ b.tokens \in Seq(Int) /\ b = [tokens |-> b.tokens, logp |-> b.logp]
    <3>1. End(A, i - 1) = start + LengthOf(A, i - 1) /\ start \in Nat /\ LengthOf(A, i - 1) \in Nat
      BY <2>1, EndStep, BeamType
    <3>2. End(A, i - 1) - start = LengthOf(A, i - 1)
      <4> HIDE DEF start
      <4> QED BY <3>1
    <3> QED BY <2>1, <3>2, BeamType
  <2>4. ASSUME NEW k \in 1 .. Len(b.tokens)
        PROVE  HalfRead(mem, TokenAt(n, start + k - 1)) = b.tokens[k]
    <3>1. mem[TokenAt(n, start + k - 1)] = [of |-> b.tokens[k], part |-> 0]
      BY <2>1, <2>3 DEF InMemory
    <3> HIDE DEF b, start, n
    <3> QED BY <3>1 DEF HalfRead
  <2>5. [k \in 1 .. Len(b.tokens) |-> HalfRead(mem, TokenAt(n, start + k - 1))] = b.tokens
    <3>1. b.tokens = [k \in 1 .. Len(b.tokens) |-> b.tokens[k]]
      BY <2>3, LenProperties
    <3>2. [k \in 1 .. Len(b.tokens) |-> HalfRead(mem, TokenAt(n, start + k - 1))] = [k \in 1 .. Len(b.tokens) |-> b.tokens[k]]
      BY <2>4
    <3> QED BY <3>1, <3>2
  <2>6. sent(i) = [tokens |-> [k \in 1 .. Len(b.tokens) |-> HalfRead(mem, TokenAt(n, start + k - 1))], logp |-> b.logp]
    <3>1. UpTo(i) - UpTo(i - 1) = Len(b.tokens)
      BY <2>2, <2>3
    <3> HIDE DEF b, start, UpTo
    <3> QED BY <2>2, <3>1
  <2>7. sent(i) = b
    BY <2>3, <2>5, <2>6
  <2>8. n - (i - 1) = n - i + 1
    BY <1>1
  <2> QED BY <2>7, <2>8 DEF Beam
<1>6. n # Garbage
  BY <1>1, LayoutAssumption
<1>9. WordRead(mem, TotalAt) = OutUnits(n, TokensIn(mem, n))
  <2> DEFINE e == End(A, n - 1)
  <2>1. WordRead(mem, TotalAt) = OutUnits(n, e)
    <3>1. mem[TotalAt] = [of |-> OutUnits(n, e), part |-> 1] /\ mem[TotalAt + 1] = [of |-> OutUnits(n, e), part |-> 2]
      BY DEF InMemory
    <3> HIDE DEF n, e
    <3> QED BY <3>1, WordBack
  <2>2. WordRead(mem, OffsetAt(n, n - 1)) = e
    <3>1. CASE n = 0
      <4>1. n - 1 = 0 - 1 /\ OffsetAt(n, n - 1) = BeamsAt
        BY <3>1 DEF OffsetAt, BeamsAt
      <4> QED BY <1>2, <3>1, <4>1, EndStep
    <3>2. CASE n # 0
      <4>1. n - 1 \in 0 .. n - 1
        BY <1>1, <3>2
      <4> QED BY <1>3, <4>1
    <3> QED BY <3>1, <3>2
  <2> QED BY <2>1, <2>2 DEF TokensIn
<1>7. Parsed(mem) = [i \in 1 .. n |-> sent(i)]
  <2> HIDE DEF n
  <2> QED BY <1>2, <1>6, <1>9 DEF Parsed
<1>8. Reverse(A) = [i \in 1 .. n |-> A[n - i + 1]]
  BY DEF Reverse
<1> HIDE DEF n, sent
<1> QED BY <1>5, <1>7, <1>8

(* What the kernel wrote comes back whole, whatever the device and the host*)
(* held before.                                                            *)
LEMMA AnswerCopied ==
  ASSUME NEW A, IsAnswer(A), NEW m \in 0 .. MaxOutBeams, NEW l \in Nat, m * l <= MaxOutTokens,
         Len(A) <= m, \A i \in 1 .. Len(A) : Len(A[i].tokens) <= l,
         NEW dev, NEW held
  PROVE  /\ InMemory(A, Over(GenerateResult(A), dev))
         /\ InMemory(A, dev) => InMemory(A, CopiedBack(held, dev, OutUnits(m, m * l)))
<1>1. m \in Nat /\ MaxOutBeams \in Nat /\ MaxOutTokens \in Nat /\ m <= MaxOutBeams /\ m * l \in Nat
  BY LayoutAssumption
<1>2. UnitsOf(A) \in Nat /\ UnitsOf(A) <= OutUnits(m, m * l)
  BY <1>1, UnitsExpected
<1>3. InMemory(A, Over(GenerateResult(A), dev))
  <2>1. \A u \in 0 .. UnitsOf(A) - 1 : u \in DOMAIN GenerateResult(A)
    BY ResultInMemory
  <2>2. \A u \in 0 .. UnitsOf(A) - 1 : Over(GenerateResult(A), dev)[u] = GenerateResult(A)[u]
    BY <2>1, OverThere
  <2> QED BY <2>2, InMemoryKept, ResultInMemory
<1>4. OutUnits(m, m * l) <= OutUnits(MaxOutBeams, MaxOutTokens)
  <2> DEFINE p == m * l
  <2>1. p \in Nat /\ p <= MaxOutTokens
    BY <1>1
  <2> HIDE DEF p
  <2>2. OutUnits(m, p) <= OutUnits(MaxOutBeams, MaxOutTokens)
    BY <1>1, <2>1 DEF OutUnits
  <2> QED BY <2>2 DEF p
<1>5. OutUnits(m, m * l) \in Nat /\ OutUnits(MaxOutBeams, MaxOutTokens) \in Nat
  <2> DEFINE p == m * l
  <2>1. p \in Nat
    BY <1>1
  <2> HIDE DEF p
  <2>2. OutUnits(m, p) \in Nat
    BY <1>1, <2>1 DEF OutUnits
  <2>3. OutUnits(MaxOutBeams, MaxOutTokens) \in Nat
    BY <1>1 DEF OutUnits
  <2> QED BY <2>2, <2>3 DEF p
<1>6. ASSUME InMemory(A, dev) PROVE InMemory(A, CopiedBack(held, dev, OutUnits(m, m * l)))
  <2>1. \A u \in 0 .. UnitsOf(A) - 1 : u \in Buffer /\ u < OutUnits(m, m * l)
    BY <1>2, <1>4, <1>5 DEF Buffer
  <2>2. \A u \in 0 .. UnitsOf(A) - 1 : CopiedBack(held, dev, OutUnits(m, m * l))[u] = dev[u]
    BY <2>1 DEF CopiedBack
  <2> QED BY <1>6, <2>2, InMemoryKept
<1> QED BY <1>3, <1>6

-----------------------------------------------------------------------------
(***************************************************************************)
(* The answers: what a stream still has to do, and what it has done.       *)
(***************************************************************************)

(* The operations of a stream, and the order in which a thread asks for    *)
(* them.                                                                   *)
Op ==
  {[op |-> "in"], [op |-> "kernel"]}
    \cup {[op |-> "trie", trie |-> v] : v \in 1 .. MaxVersion}
    \cup {[op |-> "out", units |-> u] : u \in Int}

Turn(name) ==
  IF name = "trie" THEN 1 ELSE IF name = "in" THEN 2 ELSE IF name = "kernel" THEN 3 ELSE 4

Has(s, name) == \E i \in 1 .. Len(s) : s[i].op = name

(* A stream for request r and trie v that got as far as turn top.          *)
StreamFor(s, r, v, top) ==
  /\ s \in Seq(Op)
  /\ \A i, j \in 1 .. Len(s) : i < j => Turn(s[i].op) < Turn(s[j].op)
  /\ \A i \in 1 .. Len(s) :
       /\ Turn(s[i].op) <= top
       /\ s[i].op = "trie" => s[i].trie = v
       /\ s[i].op = "out" => s[i].units = ExpectedUnits(r)

Reach(stage) == IF stage = "launch" THEN 2 ELSE IF stage = "output" THEN 3 ELSE 4

TrieCopied(w, v) == w.setupDone => Has(w.stream, "trie") \/ w.dTrie = v

(* A workspace in the service of request r with trie v, at a stage of its  *)
(* thread: each copy is either still asked for or was made, and the kernel *)
(* has put the answer there unless its launch failed.                      *)
Serving(w, r, v, stage, ok) ==
  /\ StreamFor(w.stream, r, v, Reach(stage))
  /\ w.setupDone /\ w.hostIn = r
  /\ Has(w.stream, "in") \/ w.devIn = r
  /\ stage # "launch" /\ ok => Has(w.stream, "kernel") \/ InMemory(Answer[r][v], w.devOut)
  /\ stage = "sync" /\ ok => Has(w.stream, "out") \/ InMemory(Answer[r][v], w.hostOut)

Due(b) == IF FinalBeam[batch[b]] = 0 THEN << >> ELSE OwnAnswer(b)

Stages == {"launch", "output", "sync"}

ThreadInv(t) ==
  /\ \A b \in todo[t] : b \in DOMAIN batch /\ b % Cardinality(Thread) = t
  /\ pc[t] \in {"next"} \cup Stages
  /\ pc[t] # "next" => todo[t] # {}
  /\ \A b : Serves(t, b) /\ pc[t] # "next" =>
       b \in DOMAIN ws /\ FinalBeam[batch[b]] # 0 /\ Serving(ws[b], batch[b], version, pc[t], b \notin failed)

PlaceInv(b) ==
  IF \E t \in Thread : b \in todo[t] THEN out[b] = << >> ELSE b \notin failed => out[b] = Due(b)

DataInv ==
  /\ version \in 1 .. MaxVersion /\ DOMAIN out = Place
  /\ DOMAIN batch \subseteq Place /\ \A b \in DOMAIN batch : batch[b] \in Request
  /\ \A t \in Thread : ThreadInv(t)
  /\ \A b \in DOMAIN ws : TrieCopied(ws[b], version)
  /\ \A b \in DOMAIN batch : PlaceInv(b)

-----------------------------------------------------------------------------
LEMMA StreamPut ==
  ASSUME NEW r, NEW v, NEW top \in Int, NEW s, StreamFor(s, r, v, top), NEW o \in Op, top < Turn(o.op),
         o.op = "trie" => o.trie = v, o.op = "out" => o.units = ExpectedUnits(r)
  PROVE  /\ StreamFor(s \o << o >>, r, v, Turn(o.op))
         /\ Has(s \o << o >>, o.op)
         /\ \A name : Has(s, name) => Has(s \o << o >>, name)
<1> DEFINE q == s \o << o >>
           n == Len(s)
<1>1. s \in Seq(Op) /\ << o >> \in Seq(Op) /\ n \in Nat
  BY DEF StreamFor
<1>2. q \in Seq(Op) /\ Len(q) = n + 1 /\ q[n + 1] = o /\ \A i \in 1 .. n : q[i] = s[i]
  <2> HIDE DEF Op
  <2> QED BY <1>1
<1>3. Turn(o.op) \in Int
  BY DEF Turn
<1> HIDE DEF q, n
<1>4. \A i \in 1 .. n + 1 : i \in 1 .. n \/ i = n + 1
  BY <1>1
<1>5. \A i \in 1 .. n : Turn(s[i].op) \in Int /\ Turn(s[i].op) <= top /\ Turn(s[i].op) < Turn(o.op)
  BY <1>3 DEF StreamFor, Turn, n
<1>6. ASSUME NEW i \in 1 .. n + 1, NEW j \in 1 .. n + 1, i < j PROVE Turn(q[i].op) < Turn(q[j].op)
  <2>1. i \in 1 .. n
    BY <1>1, <1>6
  <2>2. CASE j = n + 1
    BY <1>2, <1>5, <2>1, <2>2
  <2>3. CASE j \in 1 .. n
    BY <1>2, <1>6, <2>1, <2>3 DEF StreamFor, n
  <2> QED BY <1>4, <2>2, <2>3
<1>7. ASSUME NEW i \in 1 .. n + 1
      PROVE  /\ Turn(q[i].op) <= Turn(o.op)
             /\ q[i].op = "trie" => q[i].trie = v
             /\ q[i].op = "out" => q[i].units = ExpectedUnits(r)
  <2>1. CASE i = n + 1
    BY <1>2, <1>3, <2>1
  <2>2. CASE i \in 1 .. n
    BY <1>2, <1>3, <1>5, <2>2 DEF StreamFor, n
  <2> QED BY <1>4, <2>1, <2>2
<1>8. StreamFor(q, r, v, Turn(o.op))
  BY <1>2, <1>6, <1>7 DEF StreamFor
<1>9. n + 1 \in 1 .. n + 1
  BY <1>1
<1>10. Has(q, o.op)
  BY <1>2, <1>9 DEF Has
<1>11. ASSUME NEW name, Has(s, name) PROVE Has(q, name)
  <2>1. PICK i \in 1 .. n : s[i].op = name
    BY <1>11 DEF Has, n
  <2>2. i \in 1 .. n + 1 /\ q[i].op = name
    BY <1>1, <1>2, <2>1
  <2> QED BY <1>2, <2>2 DEF Has
<1> QED BY <1>8, <1>10, <1>11 DEF q

LEMMA StreamTake ==
  ASSUME NEW r, NEW v, NEW top \in Int, NEW s, StreamFor(s, r, v, top), s # << >>
  PROVE  /\ StreamFor(Tail(s), r, v, top)
         /\ Head(s) \in Op
         /\ Head(s).op = "trie" => Head(s).trie = v
         /\ Head(s).op = "out" => Head(s).units = ExpectedUnits(r)
         /\ \A name : Has(s, name) /\ name # Head(s).op => Has(Tail(s), name)
         /\ \A name : Turn(name) < Turn(Head(s).op) => ~ Has(s, name)
<1> DEFINE q == Tail(s)
           n == Len(s)
<1>1. s \in Seq(Op)
  BY DEF StreamFor
<1>2. n \in Nat /\ n >= 1 /\ q \in Seq(Op) /\ Len(q) = n - 1 /\ Head(s) = s[1] /\ \A i \in 1 .. n - 1 : q[i] = s[i + 1]
  <2> HIDE DEF Op
  <2> QED BY <1>1
<1>3. 1 \in 1 .. n /\ s[1] \in Op
  BY <1>1, <1>2
<1> HIDE DEF q, n
<1>4. \A i \in 1 .. n - 1 : i + 1 \in 1 .. n
  BY <1>2
<1>5. ASSUME NEW i \in 1 .. n - 1, NEW j \in 1 .. n - 1, i < j PROVE Turn(q[i].op) < Turn(q[j].op)
  <2>1. i + 1 \in 1 .. n /\ j + 1 \in 1 .. n /\ i + 1 < j + 1
    BY <1>2, <1>5
  <2> QED BY <1>2, <2>1 DEF StreamFor, n
<1>6. StreamFor(q, r, v, top)
  BY SMTT(30), <1>2, <1>4, <1>5 DEF StreamFor, n
<1>7. /\ Head(s).op = "trie" => Head(s).trie = v
      /\ Head(s).op = "out" => Head(s).units = ExpectedUnits(r)
  BY <1>2, <1>3 DEF StreamFor, n
<1>8. ASSUME NEW name, Has(s, name), name # Head(s).op PROVE Has(q, name)
  <2>1. PICK i \in 1 .. n : s[i].op = name
    BY <1>8 DEF Has, n
  <2>2. i # 1
    BY <1>2, <1>8, <2>1
  <2>3. i - 1 \in 1 .. n - 1 /\ (i - 1) + 1 = i
    BY <1>2, <2>2
  <2>4. q[i - 1].op = name
    BY <1>2, <2>1, <2>3
  <2> QED BY <1>2, <2>3, <2>4 DEF Has
<1>9. ASSUME NEW name, Turn(name) < Turn(Head(s).op), Has(s, name) PROVE FALSE
  <2>1. PICK i \in 1 .. n : s[i].op = name
    BY <1>9 DEF Has, n
  <2>2. Turn(name) \in Int /\ Turn(Head(s).op) \in Int
    BY DEF Turn
  <2>3. CASE i = 1
    BY <1>2, <1>9, <2>1, <2>2, <2>3
  <2>4. CASE i # 1
    <3>1. 1 < i
      BY <1>2, <2>4
    <3>2. Turn(s[1].op) < Turn(s[i].op)
      BY <1>3, <3>1 DEF StreamFor, n
    <3> QED BY <1>2, <1>9, <2>1, <2>2, <3>2
  <2> QED BY <2>3, <2>4
<1> QED BY <1>2, <1>3, <1>6, <1>7, <1>8, <1>9 DEF q

-----------------------------------------------------------------------------
(* What the kernel selects for a request fits into what its caller reads.  *)
LEMMA AnswerFits ==
  ASSUME NEW r \in Request, NEW v \in 1 .. MaxVersion, NEW dev, NEW held
  PROVE  LET A == Answer[r][v]
         IN /\ IsAnswer(A)
            /\ Output[r][v] = GenerateResult(A)
            /\ InMemory(A, Over(GenerateResult(A), dev))
            /\ InMemory(A, dev) => InMemory(A, CopiedBack(held, dev, ExpectedUnits(r)))
<1> DEFINE A == Answer[r][v]
           m == FinalBeam[r]
           l == NumOutpos[r]
<1>1. /\ IsAnswer(A) /\ m \in 0 .. MaxOutBeams /\ l \in Nat /\ m * l <= MaxOutTokens
      /\ Len(A) <= m /\ \A i \in 1 .. Len(A) : Len(A[i].tokens) <= l
  BY DriverAssumption DEF IsAnswer
<1>2. Output[r][v] = GenerateResult(A)
  BY DEF Output
<1>3. ExpectedUnits(r) = OutUnits(m, m * l)
  BY DEF ExpectedUnits
<1> HIDE DEF A, m, l
<1>4. /\ InMemory(A, Over(GenerateResult(A), dev))
      /\ InMemory(A, dev) => InMemory(A, CopiedBack(held, dev, OutUnits(m, m * l)))
  BY <1>1, AnswerCopied
<1> QED BY <1>1, <1>2, <1>3, <1>4 DEF A

(* What the first operation of its stream makes of a workspace w.          *)
Worked(w, x) ==
  LET first == Head(w.stream)
  IN /\ x.stream = Tail(w.stream) /\ x.setupDone = w.setupDone /\ x.hostIn = w.hostIn
     /\ x.dTrie = IF first.op = "trie" THEN first.trie ELSE w.dTrie
     /\ x.devIn = IF first.op = "in" THEN w.hostIn ELSE w.devIn
     /\ x.devOut = IF first.op = "kernel" THEN Over(Output[w.devIn][w.dTrie], w.devOut) ELSE w.devOut
     /\ x.hostOut = IF first.op = "out" THEN CopiedBack(w.hostOut, w.devOut, first.units) ELSE w.hostOut

(* The operations of a stream, one by one, keep a workspace in service.    *)
LEMMA ServiceKept ==
  ASSUME NEW r \in Request, NEW v \in 1 .. MaxVersion, NEW stage \in Stages, NEW ok \in BOOLEAN,
         NEW w, Serving(w, r, v, stage, ok), TrieCopied(w, v), w.stream # << >>,
         NEW x, Worked(w, x)
  PROVE  Serving(x, r, v, stage, ok) /\ TrieCopied(x, v)
<1> DEFINE s == w.stream
           h == Head(s).op
           A == Answer[r][v]
<1>1. Reach(stage) \in Int
  BY DEF Reach
<1>2. StreamFor(s, r, v, Reach(stage)) /\ w.setupDone /\ w.hostIn = r
  BY DEF Serving
<1>3. /\ StreamFor(Tail(s), r, v, Reach(stage))
      /\ h = "trie" => Head(s).trie = v
      /\ h = "out" => Head(s).units = ExpectedUnits(r)
      /\ \A name : Has(s, name) /\ name # h => Has(Tail(s), name)
      /\ \A name : Turn(name) < Turn(h) => ~ Has(s, name)
  <2>1. PICK top \in Int : top = Reach(stage)
    BY <1>1
  <2>2. PICK q : q = s
    OBVIOUS
  <2>3. StreamFor(q, r, v, top) /\ q # << >>
    BY <1>2, <2>1, <2>2
  <2>4. StreamFor(Tail(q), r, v, top)
    BY ZenonT(60), <2>3, StreamTake
  <2>5. Head(q).op = "trie" => Head(q).trie = v
    BY ZenonT(60), <2>3, StreamTake
  <2>6. Head(q).op = "out" => Head(q).units = ExpectedUnits(r)
    BY ZenonT(60), <2>3, StreamTake
  <2>7. \A name : Has(q, name) /\ name # Head(q).op => Has(Tail(q), name)
    BY ZenonT(60), <2>3, StreamTake
  <2>8. \A name : Turn(name) < Turn(Head(q).op) => ~ Has(q, name)
    BY ZenonT(60), <2>3, StreamTake
  <2> QED BY <2>1, <2>2, <2>4, <2>5, <2>6, <2>7, <2>8
<1>4. h = "kernel" => w.dTrie = v /\ w.devIn = r
  <2>1. Turn("trie") < Turn("kernel") /\ Turn("in") < Turn("kernel")
    BY DEF Turn
  <2>2. h = "kernel" => ~ Has(s, "trie") /\ ~ Has(s, "in")
    BY <1>3, <2>1
  <2> QED BY <1>2, <2>2 DEF Serving, TrieCopied
<1>5. h = "out" => ~ Has(s, "kernel")
  <2>1. Turn("kernel") < Turn("out")
    BY DEF Turn
  <2> QED BY <1>3, <2>1
<1>6. TrieCopied(x, v)
  BY <1>2, <1>3 DEF TrieCopied, Worked
<1>7. Has(x.stream, "in") \/ x.devIn = r
  BY <1>2, <1>3 DEF Serving, Worked
<1>8. ASSUME stage # "launch", ok PROVE Has(x.stream, "kernel") \/ InMemory(A, x.devOut)
  <2>1. Has(s, "kernel") \/ InMemory(A, w.devOut)
    BY <1>8 DEF Serving
  <2>2. CASE h = "kernel"
    <3>1. x.devOut = Over(Output[r][v], w.devOut)
      BY <1>4, <2>2 DEF Worked
    <3>2. InMemory(A, Over(Output[r][v], w.devOut))
      BY AnswerFits
    <3> QED BY <3>1, <3>2
  <2>3. CASE h # "kernel"
    BY <1>3, <2>1, <2>3 DEF Worked
  <2> QED BY <2>2, <2>3
<1>9. ASSUME stage = "sync", ok PROVE Has(x.stream, "out") \/ InMemory(A, x.hostOut)
  <2>1. /\ Has(s, "out") \/ InMemory(A, w.hostOut)
        /\ Has(s, "kernel") \/ InMemory(A, w.devOut)
    BY <1>9 DEF Serving, Worked
  <2>2. CASE h = "out"
    <3>1. x.hostOut = CopiedBack(w.hostOut, w.devOut, ExpectedUnits(r))
      BY <1>3, <2>2 DEF Worked
    <3>2. InMemory(A, w.devOut)
      BY <1>5, <2>1, <2>2
    <3>3. InMemory(A, CopiedBack(w.hostOut, w.devOut, ExpectedUnits(r)))
      BY <3>2, AnswerFits
    <3> QED BY <3>1, <3>3
  <2>3. CASE h # "out"
    BY <1>3, <2>1, <2>3 DEF Worked
  <2> QED BY <2>2, <2>3
<1> QED BY <1>2, <1>3, <1>6, <1>7, <1>8, <1>9 DEF Serving, Worked

-----------------------------------------------------------------------------
(* Steps.                                                                  *)
LEMMA ServesOne ==
  ASSUME DriverInv, DataInv, NEW t \in Thread, NEW b, Serves(t, b)
  PROVE  /\ b \in DOMAIN batch /\ b \in Place /\ batch[b] \in Request
         /\ \A u \in Thread : \A c : Serves(u, c) => (u = t <=> c = b)
         /\ \A u \in Thread : b \in todo[u] => u = t
<1>1. \A u \in Thread : \A c \in todo[u] : c \in DOMAIN batch /\ c % Cardinality(Thread) = u
  BY DEF DataInv, ThreadInv
<1>2. b \in DOMAIN batch /\ b \in Place /\ batch[b] \in Request
  BY <1>1 DEF DataInv, Serves
<1>3. ASSUME NEW u \in Thread, b \in todo[u] PROVE u = t
  BY <1>1, <1>3 DEF Serves
<1>4. ASSUME NEW u \in Thread, NEW c, Serves(u, c) PROVE u = t <=> c = b
  <2>1. CASE c = b
    BY <1>3, <1>4, <2>1 DEF Serves
  <2>2. CASE u = t
    <3>1. todo[t] \subseteq Int
      BY DEF DriverInv, Planned, Place
    <3>2. b \in todo[t] /\ c \in todo[t] /\ b <= c /\ c <= b
      BY <1>4, <2>2 DEF Serves
    <3> QED BY <2>2, <3>1, <3>2
  <2> QED BY <2>1, <2>2
<1> QED BY <1>2, <1>3, <1>4

(* A thread that goes on in serving b.                                     *)
LEMMA StageStep ==
  ASSUME DriverInv, DataInv, NEW t \in Thread, NEW b, Serves(t, b), b \in DOMAIN ws, FinalBeam[batch[b]] # 0,
         NEW w, DOMAIN ws' = DOMAIN ws, \A c \in DOMAIN ws : ws'[c] = IF c = b THEN w ELSE ws[c],
         NEW stage \in Stages, \A u \in Thread : pc'[u] = IF u = t THEN stage ELSE pc[u],
         UNCHANGED <<version, batch, todo, out>>,
         \A c : c # b => (c \in failed' <=> c \in failed),
         TrieCopied(w, version), Serving(w, batch[b], version, stage, b \notin failed')
  PROVE  DataInv'
<1>1. DOMAIN ws' = DOMAIN ws /\ \A c \in DOMAIN ws : ws'[c] = IF c = b THEN w ELSE ws[c]
  OBVIOUS
<1>2. \A u \in Thread : pc'[u] = IF u = t THEN stage ELSE pc[u]
  OBVIOUS
<1>3. \A u \in Thread : \A c : Serves(u, c)' <=> Serves(u, c)
  BY DEF Serves
<1>4. ASSUME NEW u \in Thread PROVE ThreadInv(u)'
  <2>1. /\ \A c \in todo[u] : c \in DOMAIN batch /\ c % Cardinality(Thread) = u
        /\ pc'[u] \in {"next"} \cup Stages
        /\ pc'[u] # "next" => todo[u] # {}
    BY <1>2 DEF DataInv, ThreadInv, Serves
  <2>2. ASSUME NEW c, Serves(u, c), pc'[u] # "next"
        PROVE  c \in DOMAIN ws /\ FinalBeam[batch[c]] # 0 /\ Serving(ws'[c], batch[c], version, pc'[u], c \notin failed')
    <3>1. u = t <=> c = b
      BY <2>2, ServesOne
    <3>2. CASE u = t
      BY <1>1, <1>2, <3>1, <3>2
    <3>3. CASE u # t
      <4>1. c # b /\ pc'[u] = pc[u] /\ (c \notin failed') = (c \notin failed)
        BY <1>2, <3>1, <3>3
      <4>2. c \in DOMAIN ws /\ FinalBeam[batch[c]] # 0 /\ Serving(ws[c], batch[c], version, pc[u], c \notin failed)
        BY <2>2, <4>1 DEF DataInv, ThreadInv
      <4> QED BY <1>1, <4>1, <4>2
    <3> QED BY <3>2, <3>3
  <2> QED BY <1>1, <1>3, <2>1, <2>2 DEF ThreadInv
<1>5. ASSUME NEW c \in DOMAIN batch PROVE PlaceInv(c)'
  <2>1. PlaceInv(c)
    BY DEF DataInv
  <2>2. Due(c)' = Due(c)
    BY DEF Due, OwnAnswer
  <2>3. c = b => \E u \in Thread : c \in todo[u]
    BY DEF Serves
  <2> QED BY <2>1, <2>2, <2>3 DEF PlaceInv
<1>6. \A c \in DOMAIN ws' : TrieCopied(ws'[c], version)
  BY <1>1 DEF DataInv
<1> QED BY <1>1, <1>4, <1>5, <1>6 DEF DataInv

(* A thread that is done with b.                                           *)
LEMMA DoneWithPlace ==
  ASSUME DriverInv, DataInv, NEW t \in Thread, NEW b, Serves(t, b),
         todo' = [todo EXCEPT ![t] = @ \ {b}],
         \A u \in Thread : pc'[u] = IF u = t THEN "next" ELSE pc[u],
         UNCHANGED <<version, batch, ws, failed>>,
         DOMAIN out' = Place, \A c \in Place : c # b => out'[c] = out[c],
         b \notin failed => out'[b] = Due(b)
  PROVE  DataInv'
<1>1. \A u \in Thread : todo'[u] = IF u = t THEN todo[t] \ {b} ELSE todo[u]
  BY DEF DriverInv, Planned
<1>2. ASSUME NEW u \in Thread PROVE ThreadInv(u)'
  <2>1. ThreadInv(u)
    BY DEF DataInv
  <2>2. CASE u = t
    BY <1>1, <2>1, <2>2 DEF ThreadInv, Serves
  <2>3. CASE u # t
    <3>1. todo'[u] = todo[u] /\ pc'[u] = pc[u]
      BY <1>1, <2>3
    <3>2. \A c : Serves(u, c)' <=> Serves(u, c)
      BY <3>1 DEF Serves
    <3> QED BY <2>1, <3>1, <3>2 DEF ThreadInv
  <2> QED BY <2>2, <2>3
<1>3. ASSUME NEW c \in DOMAIN batch PROVE PlaceInv(c)'
  <2>1. PlaceInv(c) /\ c \in Place
    BY DEF DataInv
  <2>2. Due(c)' = Due(c)
    BY DEF Due, OwnAnswer
  <2>3. CASE c = b
    <3>1. \A u \in Thread : c \notin todo'[u]
      BY <1>1, <2>3, ServesOne
    <3> QED BY <2>2, <2>3, <3>1 DEF PlaceInv
  <2>4. CASE c # b
    <3>1. \A u \in Thread : c \in todo'[u] <=> c \in todo[u]
      BY <1>1, <2>4
    <3>2. out'[c] = out[c]
      BY <2>1, <2>4
    <3> QED BY <2>1, <2>2, <3>1, <3>2 DEF PlaceInv
  <2> QED BY <2>3, <2>4
<1> QED BY <1>2, <1>3 DEF DataInv

(* The device at work in the stream of b.                                  *)
LEMMA DeviceStep ==
  ASSUME DriverInv, DataInv, NEW t \in Thread, NEW b, Serves(t, b), pc[t] # "next", b \in DOMAIN ws,
         NEW w, ws' = [ws EXCEPT ![b] = w],
         UNCHANGED <<version, batch, todo, pc, out, failed>>,
         TrieCopied(w, version), Serving(w, batch[b], version, pc[t], b \notin failed)
  PROVE  DataInv'
<1>1. pc[t] \in Stages /\ FinalBeam[batch[b]] # 0
  BY DEF DataInv, ThreadInv
<1>2. PICK stage \in Stages : stage = pc[t]
  BY <1>1
<1>3. /\ \A u \in Thread : pc'[u] = IF u = t THEN stage ELSE pc[u]
      /\ Serving(w, batch[b], version, stage, b \notin failed')
      /\ \A c : c # b => (c \in failed' <=> c \in failed)
  BY <1>2
<1>4. DOMAIN ws' = DOMAIN ws /\ \A c \in DOMAIN ws : ws'[c] = IF c = b THEN w ELSE ws[c]
  OBVIOUS
<1> QED BY <1>1, <1>3, <1>4, StageStep

LEMMA ThreadsCount == Cardinality(Thread) \in Nat \ {0} /\ \A b \in Nat : b % Cardinality(Thread) \in Thread
<1>1. IsFiniteSet(Thread) /\ Thread # {} /\ Thread = 0 .. Cardinality(Thread) - 1
  BY DriverAssumption
<1> DEFINE n == Cardinality(Thread)
<1>2. n \in Nat
  BY <1>1, FS_CardinalityType
<1> HIDE DEF n
<1>3. Thread = 0 .. n - 1
  BY <1>1 DEF n
<1>4. n # 0
  BY <1>1, <1>3
<1>5. \A b \in Nat : b % n \in 0 .. n - 1
  BY <1>2, <1>4
<1> QED BY <1>2, <1>3, <1>4, <1>5 DEF n

LEMMA EmptyStream ==
  ASSUME NEW r, NEW v, NEW top
  PROVE  StreamFor(<< >>, r, v, top)
BY DEF StreamFor

(* Between two calls no thread is in the middle of anything.               *)
LEMMA IdleThreads ==
  ASSUME DataInv, Idle
  PROVE  \A t \in Thread : pc[t] = "next" /\ todo[t] = {}
BY DEF DataInv, ThreadInv, Idle

LEMMA FreshData ==
  ASSUME DataInv, Idle, version' \in 1 .. MaxVersion, batch' = << >>,
         \A b \in DOMAIN ws' : ~ ws'[b].setupDone, UNCHANGED <<todo, pc, out, failed>>
  PROVE  DataInv'
<1>1. \A t \in Thread : pc[t] = "next" /\ todo[t] = {}
  BY IdleThreads
<1>2. DOMAIN batch' = {}
  OBVIOUS
<1>3. \A t \in Thread : ThreadInv(t)'
  BY <1>1 DEF ThreadInv
<1>4. \A b \in DOMAIN ws' : TrieCopied(ws'[b], version')
  BY DEF TrieCopied
<1>5. DOMAIN out' = Place
  BY DEF DataInv
<1> QED BY <1>2, <1>3, <1>4, <1>5 DEF DataInv

LEMMA CallData ==
  ASSUME DriverInv, DataInv, NEW places \in SUBSET Place, NEW requests \in [places -> Request],
         Call(places, requests)
  PROVE  DataInv'
<1>1. /\ UNCHANGED <<version, ws, pc>> /\ batch' = requests /\ out' = NoOutput /\ failed' = {} /\ Idle
      /\ todo' = [t \in Thread |-> ServedBy(t, places)]
  BY DEF Call
<1>2. \A t \in Thread : pc[t] = "next"
  BY <1>1, IdleThreads
<1>3. ASSUME NEW t \in Thread PROVE ThreadInv(t)'
  <2>1. todo'[t] = {b \in places : b % Cardinality(Thread) = t}
    BY <1>1 DEF ServedBy
  <2> QED BY <1>1, <1>2, <2>1 DEF ThreadInv
<1>4. ASSUME NEW b \in places PROVE PlaceInv(b)'
  <2>1. b \in Nat
    BY DEF Place
  <2>2. PICK t \in Thread : t = b % Cardinality(Thread)
    BY <2>1, ThreadsCount
  <2>3. b \in todo'[t]
    BY <1>1, <2>2 DEF ServedBy
  <2>4. out'[b] = << >>
    BY <1>1 DEF NoOutput
  <2> QED BY <2>3, <2>4 DEF PlaceInv
<1>5. DOMAIN out' = Place
  BY <1>1 DEF NoOutput
<1>6. \A b \in DOMAIN ws' : TrieCopied(ws'[b], version')
  BY <1>1 DEF DataInv
<1>7. DOMAIN batch' = places /\ \A b \in places : batch'[b] \in Request
  BY <1>1
<1>8. version' \in 1 .. MaxVersion
  BY <1>1 DEF DataInv
<1> QED BY <1>3, <1>4, <1>5, <1>6, <1>7, <1>8 DEF DataInv

-----------------------------------------------------------------------------
LEMMA SkipData ==
  ASSUME DriverInv, DataInv, NEW t \in Thread, NEW b, Skip(t, b)
  PROVE  DataInv'
<1>1. /\ pc[t] = "next" /\ Serves(t, b) /\ FinalBeam[batch[b]] = 0
      /\ todo' = [todo EXCEPT ![t] = @ \ {b}]
      /\ UNCHANGED <<version, batch, ws, pc, out, failed>>
  BY DEF Skip, host
<1>2. PlaceInv(b) /\ b \in todo[t]
  BY <1>1, ServesOne DEF DataInv, Serves
<1>3. out'[b] = Due(b)
  BY <1>1, <1>2 DEF PlaceInv, Due
<1>4. DOMAIN out' = Place
  BY <1>1 DEF DataInv
<1>5. \A u \in Thread : pc'[u] = IF u = t THEN "next" ELSE pc[u]
  BY <1>1
<1> QED BY <1>1, <1>3, <1>4, <1>5, DoneWithPlace

LEMMA ParseData ==
  ASSUME DriverInv, DataInv, NEW t \in Thread, NEW b, Parse(t, b)
  PROVE  DataInv'
<1>1. /\ pc[t] = "sync" /\ Serves(t, b) /\ ws[b].stream = << >>
      /\ out' = [out EXCEPT ![b] = Parsed(ws[b].hostOut)]
      /\ pc' = [pc EXCEPT ![t] = "next"]
      /\ todo' = [todo EXCEPT ![t] = @ \ {b}]
      /\ UNCHANGED <<version, batch, ws, failed>>
  BY DEF Parse, host, Synchronized
<1>2. b \in Place /\ batch[b] \in Request /\ version \in 1 .. MaxVersion
  BY <1>1, ServesOne DEF DataInv
<1>3. FinalBeam[batch[b]] # 0 /\ Serving(ws[b], batch[b], version, "sync", b \notin failed)
  BY <1>1 DEF DataInv, ThreadInv
<1>4. ASSUME b \notin failed PROVE out'[b] = Due(b)
  <2> DEFINE A == Answer[batch[b]][version]
  <2>1. ~ Has(ws[b].stream, "out")
    BY <1>1 DEF Has
  <2>2. InMemory(A, ws[b].hostOut)
    BY <1>3, <1>4, <2>1 DEF Serving
  <2>3. IsAnswer(A)
    BY <1>2, AnswerFits
  <2>4. Parsed(ws[b].hostOut) = Reverse(A)
    BY <2>2, <2>3, ParsedAnswer
  <2>5. out'[b] = Parsed(ws[b].hostOut)
    BY <1>1, <1>2 DEF DataInv
  <2> QED BY <1>3, <2>4, <2>5 DEF Due, OwnAnswer
<1>5. DOMAIN out' = Place /\ \A c \in Place : c # b => out'[c] = out[c]
  BY <1>1 DEF DataInv
<1>6. \A u \in Thread : pc'[u] = IF u = t THEN "next" ELSE pc[u]
  BY <1>1 DEF DriverInv
<1> QED BY <1>1, <1>4, <1>5, <1>6, DoneWithPlace

(* The stream of a workspace that no thread has started to serve is empty. *)
LEMMA NothingAsked ==
  ASSUME DriverInv, DataInv, NEW t \in Thread, NEW b \in DOMAIN ws, Serves(t, b), pc[t] = "next"
  PROVE  ws[b].stream = << >>
<1>1. SUFFICES ASSUME ws[b].stream # << >> PROVE FALSE
  OBVIOUS
<1>2. PICK u \in Thread : pc[u] # "next" /\ Serves(u, b)
  BY <1>1 DEF DriverInv, Waited
<1>3. u = t
  BY <1>2, ServesOne
<1> QED BY <1>2, <1>3

LEMMA Fields ==
  ASSUME NEW w, IsRecord(w), NEW o
  PROVE  LET e == Enqueued(w, << o >>)
         IN  /\ e.hostIn = w.hostIn /\ e.devIn = w.devIn /\ e.dTrie = w.dTrie /\ e.setupDone = w.setupDone
             /\ e.devOut = w.devOut /\ e.hostOut = w.hostOut /\ e.stream = w.stream \o << o >>
<1>1. PICK hi, di, dt, sd, do, ho, st, ru, nc :
        w = [ hostIn |-> hi, devIn |-> di, dTrie |-> dt, setupDone |-> sd, devOut |-> do, hostOut |-> ho,
              stream |-> st, running |-> ru, numCtas |-> nc ]
  BY DEF IsRecord
<1> QED BY <1>1 DEF Enqueued

LEMMA CopyInputData ==
  ASSUME DriverInv, DataInv, NEW t \in Thread, NEW b, CopyInput(t, b)
  PROVE  DataInv'
<1> DEFINE r == batch[b]
           v == version
           o == [op |-> "in"]
           x == DevicePtrSet(ws[b])
           y == [x EXCEPT !.hostIn = r]
           w == Enqueued(y, << o >>)
<1>1. /\ pc[t] = "next" /\ Serves(t, b) /\ FinalBeam[r] # 0 /\ b \in DOMAIN ws
      /\ ws' = [ws EXCEPT ![b] = w] /\ pc' = [pc EXCEPT ![t] = "launch"]
      /\ UNCHANGED <<version, batch, todo, out, failed>>
  BY DEF CopyInput, host
<1>2. ws[b].stream = << >>
  BY <1>1, NothingAsked
<1>3. IsRecord(ws[b]) /\ IsWorkspace(ws[b]) /\ TrieCopied(ws[b], v) /\ v \in 1 .. MaxVersion
  BY <1>1 DEF DriverInv, DataInv, IsWorkspace
<1>4. IsRecord(x) /\ x.setupDone /\ StreamFor(x.stream, r, v, 1) /\ TrieCopied(x, v)
  <2>1. IsRecord(x)
    BY <1>3, DevicePtrKeeps DEF IsWorkspace
  <2>2. CASE ws[b].setupDone
    <3>1. x = ws[b]
      BY <2>2 DEF DevicePtrSet
    <3> HIDE DEF x
    <3> QED BY <1>2, <1>3, <2>1, <2>2, <3>1, EmptyStream
  <2>3. CASE ~ ws[b].setupDone
    <3> DEFINE a == [op |-> "trie", trie |-> version]
               e == Enqueued(ws[b], << a >>)
    <3>1. x = [e EXCEPT !.setupDone = TRUE]
      BY <2>3 DEF DevicePtrSet
    <3>2. e.stream = << >> \o << a >> /\ IsWorkspace(e)
      BY <1>2, <1>3, Fields, EnqueuedKeeps
    <3> HIDE DEF e
    <3>3. PICK hi, di, dt, sd, do, ho, st, ru, nc :
            e = [ hostIn |-> hi, devIn |-> di, dTrie |-> dt, setupDone |-> sd, devOut |-> do, hostOut |-> ho,
                  stream |-> st, running |-> ru, numCtas |-> nc ]
      BY <3>2 DEF IsWorkspace, IsRecord
    <3> HIDE DEF x
    <3>4. x.setupDone /\ x.stream = << >> \o << a >>
      BY <3>1, <3>2, <3>3
    <3>5. a \in Op /\ a.op = "trie" /\ a.trie = v /\ Turn("trie") = 1
      BY <1>3 DEF Op, Turn
    <3> HIDE DEF a
    <3>6. StreamFor(<< >>, r, v, 0)
      BY EmptyStream
    <3>7. StreamFor(<< >> \o << a >>, r, v, Turn(a.op)) /\ Has(<< >> \o << a >>, a.op)
      <4>1. 0 < Turn(a.op) /\ a.op # "out"
        BY <3>5
      <4>2. PICK s : s = << >>
        OBVIOUS
      <4>3. StreamFor(s, r, v, 0)
        BY <3>6, <4>2
      <4>4. StreamFor(s \o << a >>, r, v, Turn(a.op)) /\ Has(s \o << a >>, a.op)
        BY <3>5, <4>1, <4>3, StreamPut
      <4> QED BY <4>2, <4>4
    <3> QED BY <2>1, <3>4, <3>5, <3>7 DEF TrieCopied
  <2> QED BY <2>2, <2>3
<1> HIDE DEF x
<1>5. y.stream = x.stream /\ y.setupDone = x.setupDone /\ y.dTrie = x.dTrie /\ y.hostIn = r /\ IsRecord(y)
  <2>1. PICK hi, di, dt, sd, do, ho, st, ru, nc :
          x = [ hostIn |-> hi, devIn |-> di, dTrie |-> dt, setupDone |-> sd, devOut |-> do, hostOut |-> ho,
                stream |-> st, running |-> ru, numCtas |-> nc ]
    BY <1>4 DEF IsRecord
  <2> QED BY <2>1 DEF IsRecord
<1> HIDE DEF y
<1>6. w.stream = x.stream \o << o >> /\ w.setupDone /\ w.dTrie = x.dTrie /\ w.hostIn = r
  BY <1>4, <1>5, Fields
<1> HIDE DEF w
<1>7. o \in Op /\ o.op = "in" /\ Turn("in") = 2
  BY DEF Op, Turn
<1> HIDE DEF o
<1>8. StreamFor(w.stream, r, v, 2) /\ Has(w.stream, "in") /\ (Has(x.stream, "trie") => Has(w.stream, "trie"))
  <2>1. PICK s : s = x.stream
    OBVIOUS
  <2>2. StreamFor(s, r, v, 1) /\ 1 < Turn(o.op) /\ o.op # "trie" /\ o.op # "out"
    BY <1>4, <1>7, <2>1
  <2>3. StreamFor(s \o << o >>, r, v, Turn(o.op)) /\ Has(s \o << o >>, o.op)
        /\ \A name : Has(s, name) => Has(s \o << o >>, name)
    BY <1>7, <2>2, StreamPut
  <2> QED BY <1>6, <1>7, <2>1, <2>3
<1>9. TrieCopied(w, v)
  BY <1>4, <1>6, <1>8 DEF TrieCopied
<1>10. Serving(w, r, v, "launch", b \notin failed')
  BY <1>6, <1>8 DEF Serving, Reach
<1>11. PICK stage \in Stages : stage = "launch"
  BY DEF Stages
<1>12. \A u \in Thread : pc'[u] = IF u = t THEN stage ELSE pc[u]
  BY <1>1, <1>11 DEF DriverInv
<1> QED BY <1>1, <1>9, <1>10, <1>11, <1>12, StageStep

LEMMA LaunchData ==
  ASSUME DriverInv, DataInv, NEW t \in Thread, NEW b, Launch(t, b)
  PROVE  DataInv'
<1> DEFINE r == batch[b]
           v == version
           o == [op |-> "kernel"]
           w == Enqueued(ws[b], << o >>)
<1>1. /\ pc[t] = "launch" /\ Serves(t, b) /\ pc' = [pc EXCEPT ![t] = "output"]
      /\ UNCHANGED <<version, batch, todo, out>>
  BY DEF Launch, host
<1>2. /\ b \in DOMAIN ws /\ FinalBeam[r] # 0 /\ Serving(ws[b], r, v, "launch", b \notin failed)
      /\ TrieCopied(ws[b], v)
  BY <1>1 DEF DataInv, ThreadInv
<1>3. PICK stage \in Stages : stage = "output"
  BY DEF Stages
<1>4. \A u \in Thread : pc'[u] = IF u = t THEN stage ELSE pc[u]
  BY <1>1, <1>3 DEF DriverInv
<1>5. CASE ws' = [ws EXCEPT ![b] = w] /\ failed' = failed
  <2>1. IsRecord(ws[b])
    BY <1>2 DEF DriverInv, IsWorkspace
  <2>2. /\ w.stream = ws[b].stream \o << o >> /\ w.setupDone = ws[b].setupDone /\ w.hostIn = ws[b].hostIn
        /\ w.devIn = ws[b].devIn /\ w.dTrie = ws[b].dTrie
    BY <2>1, Fields
  <2> HIDE DEF w
  <2>3. o \in Op /\ o.op = "kernel" /\ Turn("kernel") = 3
    BY DEF Op, Turn
  <2> HIDE DEF o
  <2>4. /\ StreamFor(w.stream, r, v, 3) /\ Has(w.stream, "kernel")
        /\ \A name : Has(ws[b].stream, name) => Has(w.stream, name)
    <3>1. PICK s : s = ws[b].stream
      OBVIOUS
    <3>2. StreamFor(s, r, v, 2) /\ 2 < Turn(o.op) /\ o.op # "trie" /\ o.op # "out"
      BY <1>2, <2>3, <3>1 DEF Serving, Reach
    <3>3. StreamFor(s \o << o >>, r, v, Turn(o.op)) /\ Has(s \o << o >>, o.op)
          /\ \A name : Has(s, name) => Has(s \o << o >>, name)
      BY <2>3, <3>2, StreamPut
    <3> QED BY <2>2, <2>3, <3>1, <3>3
  <2>5. TrieCopied(w, v)
    BY <1>2, <2>2, <2>4 DEF TrieCopied
  <2>6. Serving(w, r, v, stage, b \notin failed')
    BY <1>2, <1>3, <2>2, <2>4 DEF Serving, Reach
  <2> QED BY <1>1, <1>2, <1>4, <1>5, <2>5, <2>6, StageStep
<1>6. CASE ws' = ws /\ failed' = failed \cup {b}
  <2>1. PICK x : x = ws[b]
    OBVIOUS
  <2>2. DOMAIN ws' = DOMAIN ws /\ \A c \in DOMAIN ws : ws'[c] = IF c = b THEN x ELSE ws[c]
    BY <1>6, <2>1
  <2>3. StreamFor(x.stream, r, v, 3)
    <3>1. StreamFor(x.stream, r, v, 2)
      BY <1>2, <2>1 DEF Serving, Reach
    <3>2. \A i \in 1 .. Len(x.stream) : Turn(x.stream[i].op) <= 2 => Turn(x.stream[i].op) <= 3
      BY DEF Turn
    <3> QED BY <3>1, <3>2 DEF StreamFor
  <2>4. Serving(x, r, v, stage, b \notin failed')
    BY <1>2, <1>3, <1>6, <2>1, <2>3 DEF Serving, Reach
  <2>5. TrieCopied(x, v)
    BY <1>2, <2>1
  <2>6. \A c : c # b => (c \in failed' <=> c \in failed)
    BY <1>6
  <2> QED BY <1>1, <1>2, <1>4, <2>2, <2>4, <2>5, <2>6, StageStep
<1> QED BY <1>5, <1>6 DEF Launch

LEMMA CopyOutputData ==
  ASSUME DriverInv, DataInv, NEW t \in Thread, NEW b, CopyOutput(t, b)
  PROVE  DataInv'
<1> DEFINE r == batch[b]
           v == version
           o == [op |-> "out", units |-> ExpectedUnits(r)]
           w == Enqueued(ws[b], << o >>)
<1>1. /\ pc[t] = "output" /\ Serves(t, b) /\ pc' = [pc EXCEPT ![t] = "sync"]
      /\ ws' = [ws EXCEPT ![b] = w]
      /\ UNCHANGED <<version, batch, todo, out, failed>>
  BY DEF CopyOutput, host
<1>2. /\ b \in DOMAIN ws /\ FinalBeam[r] # 0 /\ Serving(ws[b], r, v, "output", b \notin failed)
      /\ TrieCopied(ws[b], v) /\ r \in Request
  BY <1>1, ServesOne DEF DataInv, ThreadInv
<1>3. PICK stage \in Stages : stage = "sync"
  BY DEF Stages
<1>4. \A u \in Thread : pc'[u] = IF u = t THEN stage ELSE pc[u]
  BY <1>1, <1>3 DEF DriverInv
<1>5. IsRecord(ws[b])
  BY <1>2 DEF DriverInv, IsWorkspace
<1>6. /\ w.stream = ws[b].stream \o << o >> /\ w.setupDone = ws[b].setupDone /\ w.hostIn = ws[b].hostIn
      /\ w.devIn = ws[b].devIn /\ w.dTrie = ws[b].dTrie /\ w.devOut = ws[b].devOut
  BY <1>5, Fields
<1> HIDE DEF w
<1>7. o \in Op /\ o.op = "out" /\ Turn("out") = 4 /\ o.units = ExpectedUnits(r)
  <2>1. FinalBeam[r] \in Nat /\ NumOutpos[r] \in Nat
    BY <1>2, DriverAssumption, LayoutAssumption
  <2>2. ExpectedUnits(r) \in Int
    BY <2>1 DEF ExpectedUnits, OutUnits
  <2> QED BY <2>2 DEF Op, Turn
<1> HIDE DEF o
<1>8. /\ StreamFor(w.stream, r, v, 4) /\ Has(w.stream, "out")
      /\ \A name : Has(ws[b].stream, name) => Has(w.stream, name)
  <2>1. PICK s : s = ws[b].stream
    OBVIOUS
  <2>2. StreamFor(s, r, v, 3) /\ 3 < Turn(o.op) /\ o.op # "trie"
    BY <1>2, <1>7, <2>1 DEF Serving, Reach
  <2>3. StreamFor(s \o << o >>, r, v, Turn(o.op)) /\ Has(s \o << o >>, o.op)
        /\ \A name : Has(s, name) => Has(s \o << o >>, name)
    BY <1>7, <2>2, StreamPut
  <2> QED BY <1>6, <1>7, <2>1, <2>3
<1>9. TrieCopied(w, v)
  BY <1>2, <1>6, <1>8 DEF TrieCopied
<1>10. Serving(w, r, v, stage, b \notin failed')
  BY <1>1, <1>2, <1>3, <1>6, <1>8 DEF Serving, Reach
<1> QED BY <1>1, <1>2, <1>4, <1>9, <1>10, StageStep

-----------------------------------------------------------------------------
(* What the device does to a workspace: the operation is off the stream.   *)
LEMMA DoneFields ==
  ASSUME NEW x, IsRecord(x)
  PROVE  LET e == Done(x)
         IN  /\ e.hostIn = x.hostIn /\ e.devIn = x.devIn /\ e.dTrie = x.dTrie /\ e.setupDone = x.setupDone
             /\ e.devOut = x.devOut /\ e.hostOut = x.hostOut /\ e.stream = Tail(x.stream)
<1>1. PICK hi, di, dt, sd, do, ho, st, ru, nc :
        x = [ hostIn |-> hi, devIn |-> di, dTrie |-> dt, setupDone |-> sd, devOut |-> do, hostOut |-> ho,
              stream |-> st, running |-> ru, numCtas |-> nc ]
  BY DEF IsRecord
<1> QED BY <1>1 DEF Done

LEMMA WorkedFields ==
  ASSUME NEW w, NEW x, IsRecord(x), x.stream = w.stream, NEW e, e = Done(x),
         x.setupDone = w.setupDone, x.hostIn = w.hostIn,
         x.dTrie = IF Head(w.stream).op = "trie" THEN Head(w.stream).trie ELSE w.dTrie,
         x.devIn = IF Head(w.stream).op = "in" THEN w.hostIn ELSE w.devIn,
         x.devOut = IF Head(w.stream).op = "kernel" THEN Over(Output[w.devIn][w.dTrie], w.devOut) ELSE w.devOut,
         x.hostOut = IF Head(w.stream).op = "out"
                     THEN CopiedBack(w.hostOut, w.devOut, Head(w.stream).units) ELSE w.hostOut
  PROVE  Worked(w, e)
<1>1. /\ e.hostIn = x.hostIn /\ e.devIn = x.devIn /\ e.dTrie = x.dTrie /\ e.setupDone = x.setupDone
      /\ e.devOut = x.devOut /\ e.hostOut = x.hostOut /\ e.stream = Tail(x.stream)
  BY DoneFields, Zenon
<1> QED BY <1>1, Zenon DEF Worked

LEMMA StreamData ==
  ASSUME DriverInv, DataInv, NEW b, StreamStep(b)
  PROVE  DataInv'
<1>1. b \in DOMAIN ws /\ ws[b].stream # << >>
  BY DEF StreamStep, CopyTrie, CopyIn, StartKernel, EndKernel, CopyOut, Pending
<1>2. IsRecord(ws[b]) /\ TrieCopied(ws[b], version)
  BY <1>1 DEF DriverInv, DataInv, IsWorkspace
<1>3. PICK t \in Thread : pc[t] # "next" /\ Serves(t, b)
  BY <1>1 DEF DriverInv, Waited
<1>4. Serving(ws[b], batch[b], version, pc[t], b \notin failed) /\ pc[t] \in Stages
  BY <1>3 DEF DataInv, ThreadInv
<1>5. batch[b] \in Request /\ version \in 1 .. MaxVersion
  BY <1>3, ServesOne DEF DataInv
<1>6. PICK y : y = ws[b]
  OBVIOUS
<1>7. PICK hi, di, dt, sd, do, ho, st, ru, nc :
        y = [ hostIn |-> hi, devIn |-> di, dTrie |-> dt, setupDone |-> sd, devOut |-> do, hostOut |-> ho,
              stream |-> st, running |-> ru, numCtas |-> nc ]
  BY <1>2, <1>6 DEF IsRecord
<1>8. UNCHANGED <<version, batch, todo, pc, out, failed>>
  BY DEF StreamStep, CopyTrie, CopyIn, StartKernel, EndKernel, CopyOut, host
<1>9. ASSUME NEW e, Worked(y, e), ws' = [ws EXCEPT ![b] = e] PROVE DataInv'
  <2>1. PICK r \in Request, v \in 1 .. MaxVersion, stage \in Stages, ok \in BOOLEAN :
          r = batch[b] /\ v = version /\ stage = pc[t] /\ ok = (b \notin failed)
    BY <1>4, <1>5
  <2>2. Serving(y, r, v, stage, ok) /\ TrieCopied(y, v) /\ y.stream # << >>
    BY <1>1, <1>2, <1>4, <1>6, <2>1
  <2>3. Serving(e, r, v, stage, ok) /\ TrieCopied(e, v)
    BY <1>9, <2>2, ServiceKept
  <2>4. Serving(e, batch[b], version, pc[t], b \notin failed) /\ TrieCopied(e, version)
    BY <2>1, <2>3
  <2> QED BY <1>1, <1>3, <1>8, <1>9, <2>4, DeviceStep
<1>10. CASE CopyTrie(b)
  <2> DEFINE x == [y EXCEPT !.dTrie = Head(y.stream).trie]
             e == Done(x)
  <2>1. ws' = [ws EXCEPT ![b] = e] /\ Head(y.stream).op = "trie"
    BY <1>6, <1>10 DEF CopyTrie, Pending
  <2>2. IsRecord(x) /\ IsRecord(y)
    BY <1>7 DEF IsRecord
  <2>3. /\ x.stream = y.stream /\ x.setupDone = y.setupDone /\ x.hostIn = y.hostIn
        /\ x.dTrie = Head(y.stream).trie /\ x.devIn = y.devIn /\ x.devOut = y.devOut /\ x.hostOut = y.hostOut
    BY <1>7
  <2> HIDE DEF x
  <2>4. Worked(y, e)
    BY <2>1, <2>2, <2>3, WorkedFields
  <2> QED BY <1>9, <2>1, <2>4
<1>11. CASE CopyIn(b)
  <2> DEFINE x == [y EXCEPT !.devIn = y.hostIn]
             e == Done(x)
  <2>1. ws' = [ws EXCEPT ![b] = e] /\ Head(y.stream).op = "in"
    BY <1>6, <1>11 DEF CopyIn, Pending
  <2>2. IsRecord(x) /\ IsRecord(y)
    BY <1>7 DEF IsRecord
  <2>3. /\ x.stream = y.stream /\ x.setupDone = y.setupDone /\ x.hostIn = y.hostIn
        /\ x.dTrie = y.dTrie /\ x.devIn = y.hostIn /\ x.devOut = y.devOut /\ x.hostOut = y.hostOut
    BY <1>7
  <2> HIDE DEF x
  <2>4. Worked(y, e)
    BY <2>1, <2>2, <2>3, WorkedFields
  <2> QED BY <1>9, <2>1, <2>4
<1>12. CASE CopyOut(b)
  <2>5. PICK z : z = CopiedBack(y.hostOut, y.devOut, Head(y.stream).units)
    OBVIOUS
  <2> DEFINE x == [y EXCEPT !.hostOut = z]
             e == Done(x)
  <2>1. ws' = [ws EXCEPT ![b] = e] /\ Head(y.stream).op = "out"
    <3>1. x = [ws[b] EXCEPT !.hostOut = CopiedBack(ws[b].hostOut, ws[b].devOut, Head(ws[b].stream).units)]
      BY <1>6, <2>5
    <3> HIDE DEF x
    <3>2. ws' = [ws EXCEPT ![b] = Done([ws[b] EXCEPT !.hostOut = CopiedBack(ws[b].hostOut, ws[b].devOut, Head(ws[b].stream).units)])]
      BY <1>12, Zenon DEF CopyOut
    <3>3. Head(y.stream).op = "out"
      BY <1>6, <1>12 DEF CopyOut, Pending
    <3> QED BY <3>1, <3>2, <3>3
  <2>2. IsRecord(x) /\ IsRecord(y)
    BY <1>7 DEF IsRecord
  <2>3. /\ x.stream = y.stream /\ x.setupDone = y.setupDone /\ x.hostIn = y.hostIn
        /\ x.dTrie = y.dTrie /\ x.devIn = y.devIn /\ x.devOut = y.devOut /\ x.hostOut = z
    BY <1>7
  <2> HIDE DEF x
  <2>4. Worked(y, e)
    BY <2>1, <2>2, <2>3, <2>5, WorkedFields
  <2> QED BY <1>9, <2>1, <2>4
<1>13. CASE EndKernel(b)
  <2>5. PICK no, z : no = FALSE /\ z = Over(Output[y.devIn][y.dTrie], y.devOut)
    OBVIOUS
  <2> DEFINE x == [y EXCEPT !.running = no, !.devOut = z]
             e == Done(x)
  <2>1. ws' = [ws EXCEPT ![b] = e] /\ Head(y.stream).op = "kernel"
    <3>1. x = [ws[b] EXCEPT !.running = FALSE,
                            !.devOut = Over(Output[ws[b].devIn][ws[b].dTrie], ws[b].devOut)]
      BY <1>6, <2>5
    <3> HIDE DEF x
    <3>2. ws' = [ws EXCEPT ![b] = Done([ws[b] EXCEPT !.running = FALSE,
                   !.devOut = Over(Output[ws[b].devIn][ws[b].dTrie], ws[b].devOut)])]
      BY <1>13, Zenon DEF EndKernel
    <3>3. Head(y.stream).op = "kernel"
      BY <1>6, <1>13 DEF EndKernel, Pending
    <3> QED BY <3>1, <3>2, <3>3
  <2>6. x = [ hostIn |-> hi, devIn |-> di, dTrie |-> dt, setupDone |-> sd, devOut |-> z, hostOut |-> ho,
              stream |-> st, running |-> no, numCtas |-> nc ]
    <3>1. [y EXCEPT !.running = no] =
            [ hostIn |-> hi, devIn |-> di, dTrie |-> dt, setupDone |-> sd, devOut |-> do, hostOut |-> ho,
              stream |-> st, running |-> no, numCtas |-> nc ]
      BY <1>7
    <3>2. x = [[y EXCEPT !.running = no] EXCEPT !.devOut = z]
      OBVIOUS
    <3> HIDE DEF x
    <3> QED BY <3>1, <3>2
  <2> HIDE DEF x
  <2>2. IsRecord(x) /\ IsRecord(y)
    BY <1>7, <2>6 DEF IsRecord
  <2>3. /\ x.stream = y.stream /\ x.setupDone = y.setupDone /\ x.hostIn = y.hostIn
        /\ x.dTrie = y.dTrie /\ x.devIn = y.devIn /\ x.devOut = z /\ x.hostOut = y.hostOut
    BY <1>7, <2>6
  <2>4. Worked(y, e)
    BY <2>1, <2>2, <2>3, <2>5, WorkedFields
  <2> QED BY <1>9, <2>1, <2>4
<1>14. CASE StartKernel(b)
  <2>1. PICK yes : yes = TRUE
    OBVIOUS
  <2> DEFINE w == [y EXCEPT !.running = yes]
  <2>2. ws' = [ws EXCEPT ![b] = w]
    BY <1>6, <1>14, <2>1 DEF StartKernel
  <2>3. /\ w.stream = y.stream /\ w.setupDone = y.setupDone /\ w.hostIn = y.hostIn
        /\ w.dTrie = y.dTrie /\ w.devIn = y.devIn /\ w.devOut = y.devOut /\ w.hostOut = y.hostOut
    BY <1>7
  <2> HIDE DEF w
  <2>4. Serving(w, batch[b], version, pc[t], b \notin failed) /\ TrieCopied(w, version)
    BY <1>2, <1>4, <1>6, <2>3 DEF Serving, TrieCopied
  <2> QED BY <1>1, <1>3, <1>8, <2>2, <2>4, DeviceStep
<1> QED BY <1>10, <1>11, <1>12, <1>13, <1>14 DEF StreamStep

-----------------------------------------------------------------------------
LEMMA DataInit ==
  ASSUME Init
  PROVE  DataInv
<1>1. /\ version = 1 /\ ws = << >> /\ batch = << >> /\ out = NoOutput
      /\ \A t \in Thread : todo[t] = {} /\ pc[t] = "next"
  BY DEF Init
<1>2. DOMAIN ws = {} /\ DOMAIN batch = {} /\ DOMAIN out = Place
  BY <1>1 DEF NoOutput
<1>3. version \in 1 .. MaxVersion
  BY <1>1, DriverAssumption
<1>4. \A t \in Thread : ThreadInv(t)
  BY <1>1 DEF ThreadInv
<1> QED BY <1>2, <1>3, <1>4 DEF DataInv

LEMMA DataStep ==
  ASSUME DriverInv, DataInv, [Next]_vars
  PROVE  DataInv'
<1>1. CASE Replace
  <2>1. /\ Idle /\ version' = version + 1 /\ version < MaxVersion /\ batch' = << >> /\ DOMAIN ws' = {}
        /\ UNCHANGED <<todo, pc, out, failed>>
    BY <1>1 DEF Replace, Workspaces
  <2>2. version' \in 1 .. MaxVersion
    BY <2>1, DriverAssumption DEF DataInv
  <2> QED BY <2>1, <2>2, FreshData
<1>2. ASSUME NEW max \in 1 .. MaxBatchLimit, InitTbsGpu(max) PROVE DataInv'
  <2>1. /\ Idle /\ batch' = << >> /\ ws' = [b \in 0 .. max - 1 |-> NewWorkspace(max, b)]
        /\ UNCHANGED <<version, todo, pc, out, failed>>
    BY <1>2 DEF InitTbsGpu
  <2>2. \A b : ~ NewWorkspace(max, b).setupDone
    BY DEF NewWorkspace
  <2>3. version' \in 1 .. MaxVersion
    BY <2>1 DEF DataInv
  <2> QED BY <2>1, <2>2, <2>3, FreshData
<1>3. ASSUME NEW n \in 1 .. MaxBatchLimit, NEW requests \in [0 .. n - 1 -> Request], Call(0 .. n - 1, requests)
      PROVE  DataInv'
  <2>1. 0 .. n - 1 \in SUBSET Place
    BY DriverAssumption DEF Place
  <2> QED BY <1>3, <2>1, CallData
<1>4. ASSUME NEW b \in Place, NEW r \in Request, Call({b}, [p \in {b} |-> r]) PROVE DataInv'
  <2>1. {b} \in SUBSET Place /\ [p \in {b} |-> r] \in [{b} -> Request]
    OBVIOUS
  <2> QED BY <1>4, <2>1, CallData
<1>5. ASSUME NEW t \in Thread, HostStep(t) PROVE DataInv'
  BY <1>5, SkipData, CopyInputData, LaunchData, CopyOutputData, ParseData DEF HostStep
<1>6. ASSUME NEW b \in Place, StreamStep(b) PROVE DataInv'
  BY <1>6, StreamData
<1>7. CASE UNCHANGED vars
  <2>1. UNCHANGED <<version, ws, batch, todo, pc, out, failed>>
    BY <1>7 DEF vars
  <2>2. \A t \in Thread : ThreadInv(t)'
    BY <2>1 DEF DataInv, ThreadInv, Serves
  <2>3. \A b \in DOMAIN batch : PlaceInv(b)'
    <3>1. \A b : Due(b)' = Due(b)
      BY <2>1 DEF Due, OwnAnswer
    <3> QED BY <2>1, <3>1 DEF DataInv, PlaceInv
  <2> QED BY <2>1, <2>2, <2>3 DEF DataInv
<1> QED BY <1>1, <1>2, <1>3, <1>4, <1>5, <1>6, <1>7 DEF Next, Program

(* Whatever order the host threads and the streams take, whatever the      *)
(* workspaces served before, which launches failed and whether the trie was*)
(* replaced in between, each request of a call gets the answer for it from *)
(* the trie of today, whole and the worst first (tbs_gpu_batched).         *)
THEOREM EachItsOwn == Spec => []OwnAnswers
<1>1. Init => DriverInv /\ DataInv
  BY DriverInit, DataInit
<1>2. DriverInv /\ DataInv /\ [Next]_vars => DriverInv' /\ DataInv'
  BY DriverStep, DataStep
<1>3. DataInv => OwnAnswers
  <2> SUFFICES ASSUME DataInv, Idle, NEW b \in DOMAIN batch, b \notin failed PROVE out[b] = Due(b)
    BY DEF OwnAnswers, Due
  <2>1. \A t \in Thread : b \notin todo[t]
    BY IdleThreads
  <2> QED BY <2>1 DEF DataInv, PlaceInv
<1> QED BY <1>1, <1>2, <1>3, PTL DEF Spec

-----------------------------------------------------------------------------
(***************************************************************************)
(* The types.                                                              *)
(***************************************************************************)

(* The ranges of the variables other than free.                            *)
Ranges ==
  /\ version \in 1 .. MaxVersion
  /\ maxBatch \in 0 .. MaxBatchLimit
  /\ DOMAIN ws = 0 .. maxBatch - 1
  /\ pc \in [Thread -> {"next", "launch", "output", "sync"}]
  /\ failed \subseteq Place
  /\ calls \in 0 .. MaxCalls /\ failures \in 0 .. MaxFailures

(* The sums of GridsInv are those that TypeOK takes.                       *)
LEMMA FreeCounted ==
  ASSUME GridsInv
  PROVE  free = TotalCtas - SumsOf([b \in Nat |-> IF b \in DOMAIN ws THEN Held(ws[b]) ELSE 0])[Cardinality(DOMAIN ws)]
<1> DEFINE x == [b \in Nat |-> IF b \in DOMAIN ws THEN Held(ws[b]) ELSE 0]
<1>1. PICK n, f : n \in Nat /\ DOMAIN ws = 0 .. n - 1 /\ Sums(n, f)
  BY DEF GridsInv, Shares
<1>2. Cardinality(DOMAIN ws) = n
  <2>1. n \in Nat /\ 0 \in Int /\ n - 1 \in Int
    BY <1>1
  <2>2. Cardinality(0 .. n - 1) = IF 0 > n - 1 THEN 0 ELSE (n - 1) - 0 + 1
    BY <2>1, FS_Interval
  <2> QED BY <1>1, <2>1, <2>2
<1>3. \A b \in 0 .. n - 1 : x[b] = Held(ws[b])
  <2>1. \A b \in 0 .. n - 1 : b \in Nat
    BY <1>1
  <2> QED BY <1>1, <2>1
<1> HIDE DEF x
<1>4. SumsTo(x, n, f) /\ free = TotalCtas - f[n]
  BY <1>1, <1>3 DEF Sums, SumsTo
<1>5. PICK s : s = SumsOf(x)
  OBVIOUS
<1> DEFINE g == [k \in 0 .. n |-> s[k]]
<1>6. s[0] = 0 /\ \A k \in Nat : s[k + 1] = s[k] + x[k]
  BY <1>5, SumsOfType
<1>7. SumsTo(x, n, g)
  BY <1>1, <1>6 DEF SumsTo
<1>8. g[n] = s[n] /\ n <= n /\ n \in Nat
  BY <1>1
<1> HIDE DEF g
<1>9. f[n] = g[n]
  BY <1>4, <1>7, <1>8, SumsToAgree
<1> QED BY <1>2, <1>4, <1>5, <1>8, <1>9 DEF x

LEMMA RangesHost ==
  ASSUME Ranges, DataInv, NEW t \in Thread, HostStep(t)
  PROVE  Ranges'
<1>1. PICK b \in Place :
        Skip(t, b) \/ CopyInput(t, b) \/ Launch(t, b) \/ CopyOutput(t, b) \/ Parse(t, b)
  BY DEF HostStep
<1>2. UNCHANGED <<version, maxBatch, calls>>
  BY <1>1 DEF Skip, CopyInput, Launch, CopyOutput, Parse, host
<1>3. pc' = pc \/ \E stage \in {"next", "launch", "output", "sync"} : pc' = [pc EXCEPT ![t] = stage]
  BY <1>1 DEF Skip, CopyInput, Launch, CopyOutput, Parse
<1>4. pc' \in [Thread -> {"next", "launch", "output", "sync"}]
  BY <1>3 DEF Ranges
<1>5. failed' \subseteq Place /\ failures' \in 0 .. MaxFailures
  BY <1>1, DriverAssumption DEF Skip, CopyInput, Launch, CopyOutput, Parse, Ranges
<1>6. DOMAIN ws' = DOMAIN ws
  BY <1>1 DEF Skip, CopyInput, Launch, CopyOutput, Parse
<1> QED BY <1>2, <1>4, <1>5, <1>6 DEF Ranges

(* A trie as it is constructed.                                            *)
LEMMA Constructed == ConstructedBatch \in 0 .. MaxBatchLimit /\ DOMAIN << >> = 0 .. ConstructedBatch - 1
BY DriverAssumption DEF ConstructedBatch

LEMMA RangesInit == Init => Ranges
<1> SUFFICES ASSUME Init PROVE Ranges
  OBVIOUS
<1>1. maxBatch \in 0 .. MaxBatchLimit /\ DOMAIN ws = 0 .. maxBatch - 1
  BY Constructed DEF Init
<1>2. /\ version \in 1 .. MaxVersion /\ calls \in 0 .. MaxCalls /\ failures \in 0 .. MaxFailures
      /\ pc \in [Thread -> {"next", "launch", "output", "sync"}] /\ failed \subseteq Place
  BY DriverAssumption DEF Init
<1> QED BY <1>1, <1>2 DEF Ranges

LEMMA RangesStep ==
  ASSUME Ranges, DataInv, [Next]_vars
  PROVE  Ranges'
<1>1. CASE Replace
  <2>1. /\ version' = version + 1 /\ version < MaxVersion /\ maxBatch' = ConstructedBatch /\ ws' = << >>
        /\ UNCHANGED <<pc, failed, calls, failures>>
    BY <1>1 DEF Replace, Workspaces
  <2>2. version' \in 1 .. MaxVersion
    BY <2>1, DriverAssumption DEF Ranges
  <2> QED BY <2>1, <2>2, Constructed DEF Ranges
<1>2. ASSUME NEW max \in 1 .. MaxBatchLimit, InitTbsGpu(max) PROVE Ranges'
  <2>1. /\ maxBatch' = max /\ DOMAIN ws' = 0 .. max - 1 /\ calls' = calls + 1 /\ calls < MaxCalls
        /\ UNCHANGED <<version, pc, failed, failures>>
    BY <1>2 DEF InitTbsGpu
  <2>2. calls' \in 0 .. MaxCalls /\ max \in 0 .. MaxBatchLimit
    BY <2>1, DriverAssumption DEF Ranges
  <2> QED BY <2>1, <2>2 DEF Ranges
<1>3. ASSUME NEW places, NEW requests, Call(places, requests) PROVE Ranges'
  <2>1. /\ calls' = calls + 1 /\ calls < MaxCalls /\ failed' = {}
        /\ UNCHANGED <<version, maxBatch, ws, pc, failures>>
    BY <1>3 DEF Call
  <2>2. calls' \in 0 .. MaxCalls
    BY <2>1, DriverAssumption DEF Ranges
  <2> QED BY <2>1, <2>2 DEF Ranges
<1>4. ASSUME NEW t \in Thread, HostStep(t) PROVE Ranges'
  BY <1>4, RangesHost
<1>5. ASSUME NEW b \in Place, StreamStep(b) PROVE Ranges'
  <2>1. UNCHANGED <<version, maxBatch, pc, failed, calls, failures>>
    BY <1>5 DEF StreamStep, CopyTrie, CopyIn, StartKernel, EndKernel, CopyOut, host
  <2>2. DOMAIN ws' = DOMAIN ws
    BY <1>5 DEF StreamStep, CopyTrie, CopyIn, StartKernel, EndKernel, CopyOut
  <2> QED BY <2>1, <2>2 DEF Ranges
<1>6. CASE UNCHANGED vars
  BY <1>6 DEF vars, Ranges
<1> QED BY <1>1, <1>2, <1>3, <1>4, <1>5, <1>6 DEF Next, Program

(* The workspaces are always those of the last init_tbs_gpu, a launch fails*)
(* only for a place of the batch, and the thread blocks that are not free  *)
(* are those that running kernels hold, to the block: none is lost or      *)
(* returned twice.                                                         *)
THEOREM DriverTypes == Spec => []TypeOK
<1>1. Init => DriverInv /\ DataInv /\ Ranges
  BY DriverInit, DataInit, RangesInit
<1>2. DriverInv /\ DataInv /\ Ranges /\ [Next]_vars => DriverInv' /\ DataInv' /\ Ranges'
  BY DriverStep, DataStep, RangesStep
<1>3. DriverInv /\ Ranges => TypeOK
  BY FreeCounted DEF DriverInv, Ranges, TypeOK
<1> QED BY <1>1, <1>2, <1>3, PTL DEF Spec

(* What is asked for is within the batch size of the trie of today.        *)
Asked == \A t \in Thread : todo[t] \subseteq 0 .. maxBatch - 1

LEMMA AskedStep ==
  ASSUME Asked, DriverInv, Ranges, [Next]_vars
  PROVE  Asked'
<1>1. Idle /\ todo' = todo => Asked'
  BY DEF Asked, Idle
<1>2. CASE Replace
  <2>1. Idle /\ todo' = todo
    BY <1>2 DEF Replace
  <2> QED BY <1>1, <2>1
<1>3. ASSUME NEW max \in 1 .. MaxBatchLimit, InitTbsGpu(max) PROVE Asked'
  <2>1. Idle /\ todo' = todo
    BY <1>3 DEF InitTbsGpu
  <2> QED BY <1>1, <2>1
<1>4. ASSUME NEW places, places \subseteq Nat, NEW requests, Call(places, requests) PROVE Asked'
  <2>1. maxBatch' = maxBatch /\ \A b \in places : b < maxBatch
    BY <1>4 DEF Call
  <2>2. \A t \in Thread : todo'[t] \subseteq places
    BY <1>4 DEF Call, ServedBy
  <2>3. maxBatch \in Nat
    BY DriverAssumption DEF Ranges
  <2>4. places \subseteq 0 .. maxBatch - 1
    BY <1>4, <2>1, <2>3
  <2> QED BY <2>1, <2>2, <2>4 DEF Asked
<1>5. ASSUME NEW t \in Thread, HostStep(t) PROVE Asked'
  <2>1. PICK b \in Place :
          Skip(t, b) \/ CopyInput(t, b) \/ Launch(t, b) \/ CopyOutput(t, b) \/ Parse(t, b)
    BY <1>5 DEF HostStep
  <2>2. maxBatch' = maxBatch
    BY <2>1 DEF Skip, CopyInput, Launch, CopyOutput, Parse, host
  <2>3. todo' = todo \/ todo' = [todo EXCEPT ![t] = @ \ {b}]
    BY <2>1 DEF Skip, CopyInput, Launch, CopyOutput, Parse
  <2>4. \A u \in Thread : todo'[u] \subseteq todo[u]
    BY <2>3 DEF DriverInv, Planned
  <2> QED BY <2>2, <2>4 DEF Asked
<1>6. ASSUME NEW b \in Place, StreamStep(b) PROVE Asked'
  <2>1. UNCHANGED <<maxBatch, todo>>
    BY <1>6 DEF StreamStep, CopyTrie, CopyIn, StartKernel, EndKernel, CopyOut, host
  <2> QED BY <2>1 DEF Asked
<1>7. CASE UNCHANGED vars
  BY <1>7 DEF vars, Asked
<1>8. \A n \in 1 .. MaxBatchLimit : 0 .. n - 1 \subseteq Nat
  OBVIOUS
<1>9. \A b \in Place : {b} \subseteq Nat
  BY DEF Place
<1> QED BY <1>2, <1>3, <1>4, <1>5, <1>6, <1>7, <1>8, <1>9 DEF Next, Program

(* In whatever order the program initialises the trie for the GPU, builds  *)
(* or loads another and asks, the workspace of a place that is served is   *)
(* there: the assert of tbs_gpu_launch_async suffices.                     *)
THEOREM WorkspacesServed == Spec => []WorkspacesExist
<1>1. Init => DriverInv /\ DataInv /\ Ranges /\ Asked
  <2>1. Init => Asked
    BY DEF Init, Asked
  <2> QED BY <2>1, DriverInit, DataInit, RangesInit
<1>2. DriverInv /\ DataInv /\ Ranges /\ Asked /\ [Next]_vars => DriverInv' /\ DataInv' /\ Ranges' /\ Asked'
  BY DriverStep, DataStep, RangesStep, AskedStep
<1>3. Ranges /\ Asked => WorkspacesExist
  BY DEF Ranges, Asked, WorkspacesExist, Serves
<1> QED BY <1>1, <1>2, <1>3, PTL DEF Spec
=============================================================================
