--------------------------- MODULE StorageProofs ----------------------------
(***************************************************************************)
(* Theorems about what a trie is built from and stored in.  First the      *)
(* keyset, for any sizes of blocks and any keys: what was pushed reads     *)
(* back, whatever is allocated, reused or freed later.  Then the file, for *)
(* any tries of any depth, any writes, failures and deaths: what was       *)
(* written to its end is read, and nothing else.                           *)
(***************************************************************************)
EXTENDS KeysetArena, TrieFile, FiniteSetTheorems, WellFoundedInduction, TLAPS

USE ArenaAssumption DEF Null

-----------------------------------------------------------------------------
(* The values of the arena.                                                *)
Spot == [block : Nat, offset : Nat]

Record == [at : Spot, length : Nat]

Arena ==
  [ heap : Seq(Seq(Nat)), base : Seq(Nat), baseSize : Nat, extra : Seq(Nat), extraSize : Nat,
    keyBlocks : Nat, keyRoom : Nat, records : Seq(Record), ptr : Spot, avail : Nat ]

(* No block is in two slots, of one array or of both; also the slots behind*)
(* those in use have blocks, from before a reset.                          *)
OneSlotEach(blocks) ==
  \A i, j \in 1 .. Len(blocks) : blocks[i] # Null /\ blocks[i] = blocks[j] => i = j

BlocksApart(a) ==
  /\ OneSlotEach(a.base)
  /\ OneSlotEach(a.extra)
  /\ \A i \in 1 .. Len(a.base), j \in 1 .. Len(a.extra) : a.base[i] # Null => a.base[i] # a.extra[j]

BlocksThere(a) ==
  /\ \A j \in 1 .. Len(a.base) :
       a.base[j] # Null => a.base[j] \in 1 .. Len(a.heap) /\ Len(a.heap[a.base[j]]) = BaseBlockSize
  /\ \A j \in 1 .. Len(a.extra) : a.extra[j] # Null => a.extra[j] \in 1 .. Len(a.heap)

SlotsUsed(a) ==
  /\ a.baseSize <= Len(a.base) /\ \A j \in 1 .. a.baseSize : a.base[j] # Null
  /\ a.extraSize <= Len(a.extra) /\ \A j \in 1 .. a.extraSize : a.extra[j] # Null

(* What is left of the last block in use.                                  *)
RoomLeft(a) ==
  IF a.baseSize = 0 THEN a.avail = 0
  ELSE a.ptr.block = a.base[a.baseSize] /\ a.ptr.offset + a.avail = BaseBlockSize

Sound(a) ==
  /\ a \in Arena
  /\ BlocksApart(a) /\ BlocksThere(a) /\ SlotsUsed(a) /\ RoomLeft(a)
  /\ Len(a.records) = a.keyBlocks * KeyBlockSize

(* The labels of a record are in a block in use, below what is yet to be   *)
(* given away of it, and are those of a key.                               *)
Given(a, r) ==
  \/ \E j \in 1 .. a.baseSize :
       /\ r.at.block = a.base[j]
       /\ r.at.offset + r.length <= IF j = a.baseSize THEN a.ptr.offset ELSE BaseBlockSize
  \/ \E j \in 1 .. a.extraSize :
       /\ r.at.block = a.extra[j]
       /\ r.at.offset + r.length <= Len(a.heap[r.at.block])

Labelled(a, r, key) ==
  \A k \in r.at.offset + 1 .. r.at.offset + r.length : a.heap[r.at.block][k] = key

Holds(a, r, key) == r.length > 0 => Given(a, r) /\ Labelled(a, r, key)

RecordsHold ==
  \A n \in 1 .. size :
    /\ records[n].length = pushed[n].length
    /\ Holds(arena, records[n], pushed[n].key)

ArenaInv ==
  /\ Sound(arena)
  /\ pushes \in Nat /\ size \in Nat /\ size <= Len(records)
  /\ pushed \in Seq([key : Nat, length : Nat]) /\ Len(pushed) = size
  /\ RecordsHold

-----------------------------------------------------------------------------
(* One arena comes of another and has lost nothing that was held.          *)
Keeps(a, b) ==
  /\ \A r \in Record, key \in Nat : Holds(a, r, key) => Holds(b, r, key)
  /\ Len(a.records) <= Len(b.records)
  /\ \A n \in 1 .. Len(a.records) : b.records[n] = a.records[n]

LEMMA ArenaFields ==
  ASSUME NEW a \in Arena
  PROVE  /\ a.heap \in Seq(Seq(Nat)) /\ a.base \in Seq(Nat) /\ a.extra \in Seq(Nat)
         /\ a.records \in Seq(Record) /\ a.ptr \in Spot
         /\ a.baseSize \in Nat /\ a.extraSize \in Nat /\ a.keyBlocks \in Nat
         /\ a.keyRoom \in Nat /\ a.avail \in Nat
BY DEF Arena

LEMMA SeqOfFunction ==
  ASSUME NEW S, NEW n \in Nat, NEW f \in [1 .. n -> S]
  PROVE  f \in Seq(S) /\ Len(f) = n
OBVIOUS

LEMMA ElementIn ==
  ASSUME NEW S, NEW s \in Seq(S), NEW i \in 1 .. Len(s)
  PROVE  s[i] \in S
OBVIOUS

LEMMA LenNat ==
  ASSUME NEW S, NEW s \in Seq(S)
  PROVE  Len(s) \in Nat
OBVIOUS

LEMMA KeepsOn ==
  ASSUME NEW a \in Arena, NEW b \in Arena, NEW c \in Arena, Keeps(a, b), Keeps(b, c)
  PROVE  Keeps(a, c)
<1>1. Len(a.records) \in Nat /\ Len(b.records) \in Nat /\ Len(c.records) \in Nat
  BY ArenaFields, LenNat
<1>2. ASSUME NEW r \in Record, NEW key \in Nat, Holds(a, r, key) PROVE Holds(c, r, key)
  BY <1>2 DEF Keeps
<1>3. Len(a.records) <= Len(c.records)
  BY <1>1 DEF Keeps
<1>4. ASSUME NEW n \in 1 .. Len(a.records) PROVE c.records[n] = a.records[n]
  <2>1. n \in 1 .. Len(b.records)
    BY <1>1 DEF Keeps
  <2> QED BY <2>1 DEF Keeps
<1> QED BY <1>2, <1>3, <1>4 DEF Keeps

(* An array of blocks that has grown.                                      *)
GrowsTo(old, new) ==
  /\ new \in Seq(Nat)
  /\ Len(old) <= Len(new)
  /\ \A j \in 1 .. Len(old) : new[j] = old[j]
  /\ \A j \in 1 .. Len(new) : j > Len(old) => new[j] = Null

LEMMA GrowsToItself ==
  ASSUME NEW blocks \in Seq(Nat)
  PROVE  GrowsTo(blocks, blocks)
BY DEF GrowsTo

LEMMA GrownBlocks ==
  ASSUME NEW blocks \in Seq(Nat), NEW n \in Nat, n <= Len(blocks)
  PROVE  GrowsTo(blocks, Grown(blocks, n)) /\ n < Len(Grown(blocks, n))
<1> DEFINE m == Doubled(n) - n
           g == Grown(blocks, n)
<1>0. m \in Nat /\ m > 0
  BY DEF Doubled
<1> HIDE DEF m
<1>1. CASE n # Len(blocks)
  BY <1>1, GrowsToItself DEF Grown
<1>2. CASE n = Len(blocks)
  <2> DEFINE rest == [k \in 1 .. m |-> 0]
  <2>1. rest \in Seq(Nat) /\ Len(rest) = m /\ \A k \in 1 .. m : rest[k] = 0
    BY <1>0
  <2>2. SubSeq(blocks, 1, n) \in Seq(Nat) /\ Len(SubSeq(blocks, 1, n)) = n
        /\ \A k \in 1 .. n : SubSeq(blocks, 1, n)[k] = blocks[k]
    BY <1>2
  <2>3. g = SubSeq(blocks, 1, n) \o rest
    BY <1>2 DEF Grown, m
  <2> DEFINE front == SubSeq(blocks, 1, n)
  <2> HIDE DEF g, rest, front
  <2>4. g \in Seq(Nat) /\ Len(g) = n + m
    <3>1. front \in Seq(Nat) /\ Len(front) = n /\ g = front \o rest
      BY <2>2, <2>3 DEF front
    <3> QED BY <2>1, <3>1
  <2>5. \A k \in 1 .. n : g[k] = blocks[k]
    BY <2>1, <2>2, <2>3, <1>0
  <2>6. \A k \in 1 .. n + m : k > n => g[k] = rest[k - n]
    BY <2>1, <2>2, <2>3, <1>0
  <2>7. \A k \in 1 .. n + m : k > n => g[k] = 0
    BY <2>1, <2>6, <1>0
  <2>8. n < Len(g) /\ Len(blocks) <= Len(g)
    BY <2>4, <1>0, <1>2
  <2> QED BY <2>4, <2>5, <2>7, <2>8, <1>2 DEF g, GrowsTo
<1> QED BY <1>1, <1>2

(* Empty slots behind the others change nothing.                           *)
GrownSlots(a, b) ==
  /\ b \in Arena /\ GrowsTo(a.base, b.base) /\ GrowsTo(a.extra, b.extra)
  /\ b.heap = a.heap /\ b.baseSize = a.baseSize /\ b.extraSize = a.extraSize
  /\ b.keyBlocks = a.keyBlocks /\ b.records = a.records /\ b.ptr = a.ptr /\ b.avail = a.avail

LEMMA GrownSound ==
  ASSUME NEW a, Sound(a), NEW b, GrownSlots(a, b)
  PROVE  Sound(b) /\ Keeps(a, b)
<1> DEFINE bs == b.base
           es == b.extra
<1>0. bs \in Seq(Nat) /\ es \in Seq(Nat) /\ GrowsTo(a.base, bs) /\ GrowsTo(a.extra, es)
  BY DEF GrowsTo, GrownSlots
<1>1. a \in Arena
  BY DEF Sound
<1>2. b \in Arena /\ b.base = bs /\ b.extra = es /\ b.heap = a.heap /\ b.baseSize = a.baseSize
      /\ b.extraSize = a.extraSize /\ b.records = a.records /\ b.ptr = a.ptr /\ b.avail = a.avail
      /\ b.keyBlocks = a.keyBlocks
  BY DEF GrownSlots
<1> HIDE DEF bs, es
<1>3. a.base \in Seq(Nat) /\ a.extra \in Seq(Nat) /\ a.heap \in Seq(Seq(Nat)) /\ a.baseSize \in Nat
      /\ a.extraSize \in Nat /\ a.records \in Seq(Record)
  BY <1>1, ArenaFields
<1>4. Len(a.base) \in Nat /\ Len(a.extra) \in Nat /\ Len(bs) \in Nat /\ Len(es) \in Nat
  BY <1>0, <1>3, LenNat
<1>4a. Len(a.base) <= Len(bs) /\ Len(a.extra) <= Len(es)
  BY <1>0 DEF GrowsTo
<1>5a. \A j \in 1 .. Len(bs) : bs[j] # Null => j \in 1 .. Len(a.base) /\ bs[j] = a.base[j]
  BY <1>0, <1>4 DEF GrowsTo
<1>5b. \A j \in 1 .. Len(es) : es[j] # Null => j \in 1 .. Len(a.extra) /\ es[j] = a.extra[j]
  BY <1>0, <1>4 DEF GrowsTo
<1>5c. BlocksApart(a) /\ BlocksThere(a) /\ SlotsUsed(a) /\ RoomLeft(a)
  BY DEF Sound
<1>5. BlocksApart(b)
  <2>1. OneSlotEach(bs)
    BY <1>5a, <1>5c DEF BlocksApart, OneSlotEach
  <2>2. OneSlotEach(es)
    BY <1>5b, <1>5c DEF BlocksApart, OneSlotEach
  <2>3. ASSUME NEW i \in 1 .. Len(bs), NEW j \in 1 .. Len(es), bs[i] # Null PROVE bs[i] # es[j]
    <3>1. i \in 1 .. Len(a.base) /\ bs[i] = a.base[i]
      BY <1>5a, <2>3
    <3>2. CASE es[j] = Null
      BY <2>3, <3>2
    <3>3. CASE es[j] # Null
      <4>1. j \in 1 .. Len(a.extra) /\ es[j] = a.extra[j]
        BY <1>5b, <3>3
      <4> QED BY <1>5c, <2>3, <3>1, <4>1 DEF BlocksApart
    <3> QED BY <3>2, <3>3
  <2> QED BY <1>2, <2>1, <2>2, <2>3 DEF BlocksApart
<1>6. BlocksThere(b)
  BY <1>2, <1>5a, <1>5b, <1>5c DEF BlocksThere
<1>7a. (\A j \in 1 .. a.baseSize : bs[j] = a.base[j]) /\ (\A j \in 1 .. a.extraSize : es[j] = a.extra[j])
  <2>1. a.baseSize <= Len(a.base) /\ a.extraSize <= Len(a.extra)
    BY <1>5c DEF SlotsUsed
  <2>2. (\A j \in 1 .. Len(a.base) : bs[j] = a.base[j]) /\ (\A j \in 1 .. Len(a.extra) : es[j] = a.extra[j])
    BY <1>0 DEF GrowsTo
  <2>3. (\A j \in 1 .. a.baseSize : j \in 1 .. Len(a.base))
        /\ (\A j \in 1 .. a.extraSize : j \in 1 .. Len(a.extra))
    BY <1>3, <1>4, <2>1
  <2> QED BY <2>2, <2>3
<1>7. SlotsUsed(b)
  <2>1. a.baseSize <= Len(bs) /\ a.extraSize <= Len(es)
    BY <1>3, <1>4, <1>4a, <1>5c DEF SlotsUsed
  <2> QED BY <1>2, <1>5c, <1>7a, <2>1 DEF SlotsUsed
<1>9. RoomLeft(b)
  <2>1. CASE a.baseSize = 0
    BY <1>2, <1>5c, <2>1 DEF RoomLeft
  <2>2. CASE a.baseSize # 0
    <3>0. a.baseSize \in 1 .. a.baseSize
      BY <1>3, <2>2
    <3>1. bs[a.baseSize] = a.base[a.baseSize]
      BY <1>7a, <3>0
    <3> QED BY <1>2, <1>5c, <2>2, <3>1 DEF RoomLeft
  <2> QED BY <2>1, <2>2
<1>10. Sound(b)
  BY <1>2, <1>5, <1>6, <1>7, <1>9 DEF Sound
<1>11. ASSUME NEW r \in Record, Given(a, r) PROVE Given(b, r)
  BY <1>2, <1>7a, <1>11 DEF Given
<1>12. Keeps(a, b)
  BY <1>2, <1>3, <1>11 DEF Keeps, Holds, Labelled
<1> QED BY <1>10, <1>12

LEMMA SoundParts ==
  ASSUME NEW a, Sound(a)
  PROVE  a \in Arena /\ BlocksApart(a) /\ BlocksThere(a) /\ SlotsUsed(a) /\ RoomLeft(a)
BY DEF Sound

(* A record that was given its labels has them in a block that is there.   *)
LEMMA GivenThere ==
  ASSUME NEW a, Sound(a), NEW r \in Record, Given(a, r)
  PROVE  r.at.block \in 1 .. Len(a.heap)
<1>0. a.baseSize \in Nat /\ a.extraSize \in Nat /\ Len(a.base) \in Nat /\ Len(a.extra) \in Nat
  BY SoundParts, ArenaFields, LenNat
<1>1. CASE \E j \in 1 .. a.baseSize : r.at.block = a.base[j]
  <2>1. PICK j \in 1 .. a.baseSize : r.at.block = a.base[j]
    BY <1>1
  <2>2. j \in 1 .. Len(a.base) /\ a.base[j] # Null
    BY <1>0, <2>1, SoundParts DEF SlotsUsed
  <2> QED BY <2>1, <2>2, SoundParts DEF BlocksThere
<1>2. CASE \E j \in 1 .. a.extraSize : r.at.block = a.extra[j]
  <2>1. PICK j \in 1 .. a.extraSize : r.at.block = a.extra[j]
    BY <1>2
  <2>2. j \in 1 .. Len(a.extra) /\ a.extra[j] # Null
    BY <1>0, <2>1, SoundParts DEF SlotsUsed
  <2> QED BY <2>1, <2>2, SoundParts DEF BlocksThere
<1> QED BY <1>1, <1>2 DEF Given

LEMMA HeapAppended ==
  ASSUME NEW heapOld \in Seq(Seq(Nat)), NEW block \in Seq(Nat)
  PROVE  LET h == Append(heapOld, block)
         IN  /\ h \in Seq(Seq(Nat)) /\ Len(h) = Len(heapOld) + 1
             /\ \A k \in 1 .. Len(heapOld) : h[k] = heapOld[k]
             /\ h[Len(heapOld) + 1] = block
OBVIOUS

LEMMA FreshBlock ==
  ASSUME NEW n \in Nat
  PROVE  Fresh(n) \in Seq(Nat) /\ Len(Fresh(n)) = n
BY DEF Fresh

(* append_base_block, once there is a slot: a block that the slot had from *)
(* before a reset is used again.                                           *)
LEMMA BlockInSlot ==
  ASSUME NEW a, Sound(a), NEW slot \in 1 .. Len(a.base), slot > a.baseSize, a.base[slot] = Null
  PROVE  LET b == [a EXCEPT !.heap = Append(@, Fresh(BaseBlockSize)),
                            !.base[slot] = Len(a.heap) + 1]
         IN  Sound(b) /\ Keeps(a, b) /\ b.base[slot] # Null /\ Len(b.base) = Len(a.base)
             /\ b.baseSize = a.baseSize
<1> DEFINE b == [a EXCEPT !.heap = Append(@, Fresh(BaseBlockSize)),
                          !.base[slot] = Len(a.heap) + 1]
           h == Append(a.heap, Fresh(BaseBlockSize))
           top == Len(a.heap) + 1
           bs == [a.base EXCEPT ![slot] = top]
<1>1. a \in Arena /\ BlocksApart(a) /\ BlocksThere(a) /\ SlotsUsed(a) /\ RoomLeft(a)
      /\ Len(a.records) = a.keyBlocks * KeyBlockSize
  BY DEF Sound
<1>2. a.base \in Seq(Nat) /\ a.extra \in Seq(Nat) /\ a.heap \in Seq(Seq(Nat)) /\ a.baseSize \in Nat
      /\ a.extraSize \in Nat /\ Len(a.base) \in Nat /\ Len(a.extra) \in Nat /\ Len(a.heap) \in Nat
  BY <1>1, ArenaFields, LenNat
<1>3. /\ h \in Seq(Seq(Nat)) /\ Len(h) = top
      /\ \A k \in 1 .. Len(a.heap) : h[k] = a.heap[k]
      /\ Len(h[top]) = BaseBlockSize
  <2>1. BaseBlockSize \in Nat
    OBVIOUS
  <2>2. PICK block \in Seq(Nat) : block = Fresh(BaseBlockSize) /\ Len(block) = BaseBlockSize
    BY <2>1, FreshBlock
  <2>3. h = Append(a.heap, block)
    BY <2>2
  <2> HIDE DEF h
  <2> QED BY <1>2, <2>2, <2>3, HeapAppended
<1>4. top \in Nat /\ top > Len(a.heap)
  BY <1>2
<1>5. bs \in Seq(Nat) /\ Len(bs) = Len(a.base) /\ bs[slot] = top
      /\ \A j \in 1 .. Len(a.base) : j # slot => bs[j] = a.base[j]
  BY SMTT(30), <1>2, <1>4
<1>6. b \in Arena /\ b.base = bs /\ b.extra = a.extra /\ b.heap = h /\ b.baseSize = a.baseSize
      /\ b.extraSize = a.extraSize /\ b.records = a.records /\ b.ptr = a.ptr /\ b.avail = a.avail
      /\ b.keyBlocks = a.keyBlocks
  BY <1>1, <1>3, <1>5 DEF Arena
<1>7. /\ \A j \in 1 .. Len(a.base) : a.base[j] # Null => a.base[j] \in 1 .. Len(a.heap)
      /\ \A j \in 1 .. Len(a.extra) : a.extra[j] # Null => a.extra[j] \in 1 .. Len(a.heap)
  BY <1>1 DEF BlocksThere
<1> HIDE DEF b, h, top, bs
<1>7a. top # Null /\ \A k \in 1 .. Len(a.heap) : k # top /\ k \in 1 .. top
  BY <1>2, <1>4
<1>7b. /\ \A j \in 1 .. Len(a.base) : a.base[j] # top
       /\ \A j \in 1 .. Len(a.extra) : a.extra[j] # top
  BY <1>7, <1>7a
<1>8. BlocksApart(b)
  <2>1. OneSlotEach(bs)
    <3>1. ASSUME NEW i \in 1 .. Len(a.base), NEW j \in 1 .. Len(a.base), bs[i] # Null, bs[i] = bs[j]
          PROVE  i = j
      <4>1. CASE i = slot
        <5>1. CASE j # slot
          <6>1. a.base[j] = top
            BY <1>5, <3>1, <4>1, <5>1
          <6> QED BY <1>7b, <6>1
        <5> QED BY <4>1, <5>1
      <4>2. CASE j = slot /\ i # slot
        <5>1. a.base[i] = top
          BY <1>5, <3>1, <4>2
        <5> QED BY <1>7b, <5>1
      <4>3. CASE i # slot /\ j # slot
        BY <1>1, <1>5, <3>1, <4>3 DEF BlocksApart, OneSlotEach
      <4> QED BY <4>1, <4>2, <4>3
    <3> QED BY <1>5, <3>1 DEF OneSlotEach
  <2>2. ASSUME NEW i \in 1 .. Len(a.base), NEW j \in 1 .. Len(a.extra), bs[i] # Null
        PROVE  bs[i] # a.extra[j]
    <3>1. CASE i = slot
      BY <1>5, <1>7b, <3>1
    <3>2. CASE i # slot
      BY <1>1, <1>5, <2>2, <3>2 DEF BlocksApart
    <3> QED BY <3>1, <3>2
  <2> QED BY <1>1, <1>5, <1>6, <2>1, <2>2 DEF BlocksApart
<1>9. BlocksThere(b)
  <2>1. ASSUME NEW j \in 1 .. Len(a.base), bs[j] # Null
        PROVE  bs[j] \in 1 .. top /\ Len(h[bs[j]]) = BaseBlockSize
    <3>1. CASE j = slot
      <4>1. bs[j] = top
        BY <1>5, <3>1
      <4>2. top \in 1 .. top
        BY <1>2, <1>4
      <4>3. Len(h[top]) = BaseBlockSize
        BY <1>3
      <4> QED BY <4>1, <4>2, <4>3
    <3>2. CASE j # slot
      <4>1. bs[j] = a.base[j] /\ a.base[j] \in 1 .. Len(a.heap) /\ Len(a.heap[a.base[j]]) = BaseBlockSize
        BY <1>1, <1>5, <2>1, <3>2 DEF BlocksThere
      <4>2. bs[j] \in 1 .. Len(a.heap) /\ Len(a.heap[bs[j]]) = BaseBlockSize
        BY <4>1
      <4> QED BY <1>3, <1>7a, <4>2
    <3> QED BY <3>1, <3>2
  <2>2. ASSUME NEW j \in 1 .. Len(a.extra), a.extra[j] # Null PROVE a.extra[j] \in 1 .. top
    <3>1. a.extra[j] \in 1 .. Len(a.heap)
      BY <1>7, <2>2
    <3> QED BY SMTT(30), <1>2, <1>4, <3>1
  <2> QED BY <1>3, <1>5, <1>6, <2>1, <2>2 DEF BlocksThere
<1>10. \A j \in 1 .. a.baseSize : j \in 1 .. Len(a.base) /\ j # slot /\ bs[j] = a.base[j]
  <2>1. a.baseSize <= Len(a.base)
    BY <1>1 DEF SlotsUsed
  <2>2. PICK used, room : used = a.baseSize /\ room = Len(a.base)
    OBVIOUS
  <2>3. used \in Nat /\ room \in Nat /\ used <= room /\ slot > used
    BY <1>2, <2>1, <2>2
  <2>4. \A j \in 1 .. used : j \in 1 .. room /\ j # slot
    BY <2>3
  <2> QED BY <1>5, <2>2, <2>4
<1>11. SlotsUsed(b)
  <2>1. ASSUME NEW j \in 1 .. a.baseSize PROVE bs[j] # Null
    <3>1. bs[j] = a.base[j]
      BY <1>10
    <3> QED BY <1>1, <3>1 DEF SlotsUsed
  <2>2. /\ a.baseSize <= Len(bs) /\ a.extraSize <= Len(a.extra)
        /\ \A j \in 1 .. a.extraSize : a.extra[j] # Null
    BY <1>1, <1>5 DEF SlotsUsed
  <2> QED BY <1>6, <2>1, <2>2 DEF SlotsUsed
<1>12. RoomLeft(b)
  <2>1. CASE a.baseSize = 0
    BY <1>1, <1>6, <2>1 DEF RoomLeft
  <2>2. CASE a.baseSize # 0
    <3>1. a.baseSize \in 1 .. a.baseSize
      BY <1>2, <2>2
    <3>2. bs[a.baseSize] = a.base[a.baseSize]
      BY <1>10, <3>1
    <3> QED BY <1>1, <1>6, <2>2, <3>2 DEF RoomLeft
  <2> QED BY <2>1, <2>2
<1>13. Sound(b)
  BY <1>1, <1>6, <1>8, <1>9, <1>11, <1>12 DEF Sound
<1>14. ASSUME NEW r \in Record, Given(a, r) PROVE Given(b, r) /\ b.heap[r.at.block] = a.heap[r.at.block]
  <2>1. r.at.block \in 1 .. Len(a.heap)
    BY <1>14, GivenThere
  <2>2. h[r.at.block] = a.heap[r.at.block]
    BY <1>3, <2>1
  <2> QED BY <1>6, <1>10, <1>14, <2>2 DEF Given
<1>15. Len(b.records) <= Len(b.records)
  BY <1>1, <1>6, ArenaFields, LenNat
<1>16. Keeps(a, b)
  BY <1>6, <1>14, <1>15 DEF Keeps, Holds, Labelled
<1>17. b.base[slot] # Null /\ Len(b.base) = Len(a.base) /\ b.baseSize = a.baseSize
  BY <1>2, <1>4, <1>5, <1>6
<1> QED BY <1>13, <1>16, <1>17 DEF b

LEMMA NextBaseBlock ==
  ASSUME NEW a, Sound(a), NEW slot, slot = a.baseSize + 1, slot <= Len(a.base), a.base[slot] # Null
  PROVE  LET b == [a EXCEPT !.ptr = [block |-> a.base[slot], offset |-> 0],
                            !.avail = BaseBlockSize, !.baseSize = slot]
         IN  Sound(b) /\ Keeps(a, b) /\ b.avail = BaseBlockSize
<1> DEFINE b == [a EXCEPT !.ptr = [block |-> a.base[slot], offset |-> 0],
                          !.avail = BaseBlockSize, !.baseSize = slot]
<1>1. a \in Arena /\ BlocksApart(a) /\ BlocksThere(a) /\ SlotsUsed(a) /\ RoomLeft(a)
      /\ Len(a.records) = a.keyBlocks * KeyBlockSize
  BY DEF Sound
<1>2. a.base \in Seq(Nat) /\ a.baseSize \in Nat /\ a.ptr \in Spot /\ a.avail \in Nat
      /\ Len(a.base) \in Nat /\ Len(a.records) \in Nat
  BY <1>1, ArenaFields, LenNat
<1>3. slot \in Nat /\ slot \in 1 .. Len(a.base) /\ slot # 0
  BY <1>2
<1>4. a.base[slot] \in Nat
  BY <1>2, <1>3
<1>5. [block |-> a.base[slot], offset |-> 0] \in Spot
  BY <1>4 DEF Spot
<1>6. b \in Arena /\ b.base = a.base /\ b.extra = a.extra /\ b.heap = a.heap /\ b.baseSize = slot
      /\ b.extraSize = a.extraSize /\ b.records = a.records
      /\ b.ptr = [block |-> a.base[slot], offset |-> 0] /\ b.avail = BaseBlockSize
      /\ b.keyBlocks = a.keyBlocks
  BY <1>1, <1>3, <1>5 DEF Arena
<1> HIDE DEF b
<1>7. BlocksApart(b)
  BY <1>1, <1>6 DEF BlocksApart
<1>8. BlocksThere(b)
  BY <1>1, <1>6 DEF BlocksThere
<1>9. SlotsUsed(b)
  BY <1>1, <1>2, <1>6 DEF SlotsUsed
<1>10. RoomLeft(b)
  BY <1>3, <1>6 DEF RoomLeft
<1>11. Sound(b)
  BY <1>1, <1>6, <1>7, <1>8, <1>9, <1>10 DEF Sound
<1>12. ASSUME NEW r \in Record, Given(a, r) PROVE Given(b, r)
  <2>0. r.at.offset + r.length \in Nat
    BY DEF Record, Spot
  <2>1. CASE \E j \in 1 .. a.baseSize :
               /\ r.at.block = a.base[j]
               /\ r.at.offset + r.length <= IF j = a.baseSize THEN a.ptr.offset ELSE BaseBlockSize
    <3>1. PICK j \in 1 .. a.baseSize :
               /\ r.at.block = a.base[j]
               /\ r.at.offset + r.length <= IF j = a.baseSize THEN a.ptr.offset ELSE BaseBlockSize
      BY <2>1
    <3>2. j \in 1 .. slot /\ j # slot /\ a.baseSize # 0
      BY SMTT(30), <1>2, <3>1
    <3>3. a.ptr.offset \in Nat /\ a.ptr.offset + a.avail = BaseBlockSize
      BY <1>1, <1>2, <3>2 DEF RoomLeft, Spot
    <3>4. r.at.offset + r.length <= BaseBlockSize
      BY <1>2, <2>0, <3>1, <3>3
    <3> QED BY <1>6, <3>1, <3>2, <3>4 DEF Given
  <2>2. CASE \E j \in 1 .. a.extraSize :
               /\ r.at.block = a.extra[j]
               /\ r.at.offset + r.length <= Len(a.heap[r.at.block])
    BY <1>6, <2>2 DEF Given
  <2> QED BY <1>12, <2>1, <2>2 DEF Given
<1>13. Keeps(a, b)
  BY <1>2, <1>6, <1>12 DEF Keeps, Holds, Labelled
<1> QED BY <1>6, <1>11, <1>13 DEF b

(* append_extra_block, once there is a slot: no record is in the block that*)
(* the slot had from before a reset, and none in the new one.              *)
Freed(a, slot) == [k \in DOMAIN a.heap |-> IF k = a.extra[slot] THEN << >> ELSE a.heap[k]]

WithExtraBlock(a, slot, length) ==
  [a EXCEPT !.heap = Append(Freed(a, slot), Fresh(length)),
            !.extra[slot] = Len(a.heap) + 1, !.extraSize = slot]

LEMMA NextExtraBlock ==
  ASSUME NEW a, Sound(a), NEW slot, slot = a.extraSize + 1, slot <= Len(a.extra), NEW length \in Nat,
         NEW b, b = WithExtraBlock(a, slot, length)
  PROVE  /\ Sound(b) /\ Keeps(a, b)
         /\ b.extraSize # 0 /\ b.extra[b.extraSize] = Len(a.heap) + 1
         /\ Len(b.heap[Len(a.heap) + 1]) = length
<1> DEFINE freed == Freed(a, slot)
           h == Append(freed, Fresh(length))
           top == Len(a.heap) + 1
           es == [a.extra EXCEPT ![slot] = top]
<1>1. a \in Arena /\ BlocksApart(a) /\ BlocksThere(a) /\ SlotsUsed(a) /\ RoomLeft(a)
      /\ Len(a.records) = a.keyBlocks * KeyBlockSize
  BY DEF Sound
<1>2. a.base \in Seq(Nat) /\ a.extra \in Seq(Nat) /\ a.heap \in Seq(Seq(Nat)) /\ a.baseSize \in Nat
      /\ a.extraSize \in Nat /\ Len(a.base) \in Nat /\ Len(a.extra) \in Nat /\ Len(a.heap) \in Nat
      /\ Len(a.records) \in Nat
  BY <1>1, ArenaFields, LenNat
<1>3. slot \in Nat /\ slot \in 1 .. Len(a.extra) /\ slot # 0
  BY SMTT(30), <1>2
<1>4. freed \in Seq(Seq(Nat)) /\ Len(freed) = Len(a.heap)
      /\ \A k \in 1 .. Len(a.heap) : k # a.extra[slot] => freed[k] = a.heap[k]
  <2>1. DOMAIN a.heap = 1 .. Len(a.heap) /\ \A k \in 1 .. Len(a.heap) : a.heap[k] \in Seq(Nat)
    BY <1>2
  <2>2. << >> \in Seq(Nat)
    OBVIOUS
  <2>3. freed \in [1 .. Len(a.heap) -> Seq(Nat)]
    BY <2>1, <2>2 DEF Freed
  <2>4. \A k \in 1 .. Len(a.heap) : k # a.extra[slot] => freed[k] = a.heap[k]
    BY <2>1 DEF Freed
  <2> HIDE DEF freed
  <2>5. freed \in Seq(Seq(Nat)) /\ Len(freed) = Len(a.heap)
    BY <1>2, <2>3, SeqOfFunction
  <2> QED BY <2>4, <2>5
<1> HIDE DEF freed
<1>5. /\ h \in Seq(Seq(Nat)) /\ Len(h) = top
      /\ \A k \in 1 .. Len(a.heap) : k # a.extra[slot] => h[k] = a.heap[k]
      /\ Len(h[top]) = length
  <2>1. PICK block \in Seq(Nat) : block = Fresh(length) /\ Len(block) = length
    BY FreshBlock
  <2>2. h = Append(freed, block)
    BY <2>1
  <2> HIDE DEF h
  <2> QED BY <1>4, <2>1, <2>2, HeapAppended
<1>6. top \in Nat
  BY <1>2
<1>6a. top \in 1 .. top
  BY <1>2
<1>7. es \in Seq(Nat) /\ Len(es) = Len(a.extra) /\ es[slot] = top
      /\ \A j \in 1 .. Len(a.extra) : j # slot => es[j] = a.extra[j]
  BY SMTT(30), <1>2, <1>3, <1>6
<1>8. b \in Arena /\ b.base = a.base /\ b.extra = es /\ b.heap = h /\ b.baseSize = a.baseSize
      /\ b.extraSize = slot /\ b.records = a.records /\ b.ptr = a.ptr /\ b.avail = a.avail
      /\ b.keyBlocks = a.keyBlocks
  BY <1>1, <1>3, <1>5, <1>7 DEF Arena, WithExtraBlock, freed
<1>9. /\ \A j \in 1 .. Len(a.base) : a.base[j] # Null => a.base[j] \in 1 .. Len(a.heap)
      /\ \A j \in 1 .. Len(a.extra) : a.extra[j] # Null => a.extra[j] \in 1 .. Len(a.heap)
  BY <1>1 DEF BlocksThere
<1> HIDE DEF h, top, es
<1>10. top # Null /\ \A k \in 1 .. Len(a.heap) : k # top /\ k # Null /\ k \in 1 .. top
  <2>1. PICK n : n = Len(a.heap)
    OBVIOUS
  <2>2. n \in Nat /\ top = n + 1
    BY <1>2, <2>1 DEF top
  <2>3. top # 0 /\ \A k \in 1 .. n : k # top /\ k # 0 /\ k \in 1 .. top
    BY <2>2
  <2> QED BY <2>1, <2>3 DEF Null
<1>11. /\ \A j \in 1 .. Len(a.base) : a.base[j] # top
       /\ \A j \in 1 .. Len(a.extra) : a.extra[j] # top
  BY <1>9, <1>10
<1>12. BlocksApart(b)
  <2>1. OneSlotEach(es)
    <3>1. ASSUME NEW i \in 1 .. Len(a.extra), NEW j \in 1 .. Len(a.extra), es[i] # Null, es[i] = es[j]
          PROVE  i = j
      <4>1. CASE i = slot
        <5>1. CASE j # slot
          <6>1. a.extra[j] = top
            BY <1>7, <3>1, <4>1, <5>1
          <6> QED BY <1>11, <6>1
        <5> QED BY <4>1, <5>1
      <4>2. CASE j = slot /\ i # slot
        <5>1. a.extra[i] = top
          BY <1>7, <3>1, <4>2
        <5> QED BY <1>11, <5>1
      <4>3. CASE i # slot /\ j # slot
        BY <1>1, <1>7, <3>1, <4>3 DEF BlocksApart, OneSlotEach
      <4> QED BY <4>1, <4>2, <4>3
    <3> QED BY <1>7, <3>1 DEF OneSlotEach
  <2>2. ASSUME NEW i \in 1 .. Len(a.base), NEW j \in 1 .. Len(a.extra), a.base[i] # Null
        PROVE  a.base[i] # es[j]
    <3>1. CASE j = slot
      BY <1>7, <1>11, <3>1
    <3>2. CASE j # slot
      BY <1>1, <1>7, <2>2, <3>2 DEF BlocksApart
    <3> QED BY <3>1, <3>2
  <2> QED BY SMTT(30), <1>1, <1>7, <1>8, <2>1, <2>2 DEF BlocksApart
<1>13. BlocksThere(b)
  <2>1. ASSUME NEW j \in 1 .. Len(a.base), a.base[j] # Null
        PROVE  a.base[j] \in 1 .. top /\ Len(h[a.base[j]]) = BaseBlockSize
    <3>1. a.base[j] \in 1 .. Len(a.heap) /\ Len(a.heap[a.base[j]]) = BaseBlockSize
      BY <1>1, <2>1 DEF BlocksThere
    <3>2. a.base[j] # a.extra[slot]
      BY <1>1, <1>3, <2>1 DEF BlocksApart
    <3>3. h[a.base[j]] = a.heap[a.base[j]]
      BY <1>5, <3>1, <3>2
    <3> QED BY <1>10, <3>1, <3>3
  <2>2. ASSUME NEW j \in 1 .. Len(a.extra), es[j] # Null PROVE es[j] \in 1 .. top
    <3>1. CASE j = slot
      BY <1>7, <3>1, <1>6a
    <3>2. CASE j # slot
      BY <1>7, <1>9, <1>10, <2>2, <3>2
    <3> QED BY <3>1, <3>2
  <2>3. Len(h) = top /\ Len(es) = Len(a.extra)
    BY <1>5, <1>7
  <2>4. b.base = a.base /\ b.extra = es /\ b.heap = h
    BY <1>8
  <2> QED BY <2>1, <2>2, <2>3, <2>4 DEF BlocksThere
<1>14. \A j \in 1 .. a.extraSize : j \in 1 .. slot /\ j \in 1 .. Len(a.extra) /\ j # slot /\ es[j] = a.extra[j]
  <2>1. \A j \in 1 .. a.extraSize : j \in 1 .. slot /\ j \in 1 .. Len(a.extra) /\ j # slot
    <3>1. PICK used, room : used = a.extraSize /\ room = Len(a.extra)
      OBVIOUS
    <3>2. used \in Nat /\ room \in Nat /\ slot \in 1 .. room /\ slot > used
      BY <1>2, <3>1
    <3>3. \A j \in 1 .. used : j \in 1 .. slot /\ j \in 1 .. room /\ j # slot
      BY <3>2
    <3> QED BY <3>1, <3>3
  <2> QED BY <1>7, <2>1
<1>15. SlotsUsed(b)
  <2>1. ASSUME NEW j \in 1 .. slot PROVE es[j] # Null
    <3>1. CASE j = slot
      BY <1>7, <1>10, <3>1
    <3>2. CASE j # slot
      <4>1. j \in 1 .. a.extraSize
        BY <1>2, <3>2
      <4> QED BY <1>1, <1>14, <4>1 DEF SlotsUsed
    <3> QED BY <3>1, <3>2
  <2> QED BY <1>1, <1>7, <1>8, <2>1 DEF SlotsUsed
<1>16. RoomLeft(b)
  BY <1>1, <1>8 DEF RoomLeft
<1>17. Sound(b)
  BY <1>1, <1>8, <1>12, <1>13, <1>15, <1>16 DEF Sound
<1>18. ASSUME NEW r \in Record, Given(a, r) PROVE Given(b, r) /\ h[r.at.block] = a.heap[r.at.block]
  <2>1. r.at.block \in 1 .. Len(a.heap)
    BY <1>18, GivenThere
  <2>2. r.at.block # a.extra[slot]
    <3>1. ASSUME NEW j \in 1 .. a.baseSize, r.at.block = a.base[j] PROVE r.at.block # a.extra[slot]
      <4>1. j \in 1 .. Len(a.base) /\ a.base[j] # Null
        BY <1>1, <1>2 DEF SlotsUsed
      <4> QED BY <1>1, <1>3, <3>1, <4>1 DEF BlocksApart
    <3>2. ASSUME NEW j \in 1 .. a.extraSize, r.at.block = a.extra[j] PROVE r.at.block # a.extra[slot]
      <4>1. j \in 1 .. Len(a.extra) /\ a.extra[j] # Null /\ j # slot
        BY <1>1, <1>14 DEF SlotsUsed
      <4> QED BY <1>1, <1>3, <3>2, <4>1 DEF BlocksApart, OneSlotEach
    <3> QED BY <1>18, <3>1, <3>2 DEF Given
  <2>3. h[r.at.block] = a.heap[r.at.block]
    BY <1>5, <2>1, <2>2
  <2>4. Given(b, r)
    BY <1>8, <1>14, <1>18, <2>3 DEF Given
  <2> QED BY <2>3, <2>4
<1>19. Keeps(a, b)
  <2>1. ASSUME NEW r \in Record, NEW key \in Nat, Holds(a, r, key) PROVE Holds(b, r, key)
    <3>1. CASE r.length > 0
      <4>1. Given(a, r) /\ Labelled(a, r, key)
        BY <2>1, <3>1 DEF Holds
      <4>2. Given(b, r) /\ b.heap[r.at.block] = a.heap[r.at.block]
        BY <1>8, <1>18, <4>1
      <4> QED BY <4>1, <4>2 DEF Holds, Labelled
    <3> QED BY <3>1 DEF Holds
  <2>2. Len(a.records) <= Len(b.records) /\ \A n \in 1 .. Len(a.records) : b.records[n] = a.records[n]
    BY <1>2, <1>8
  <2> QED BY <2>1, <2>2 DEF Keeps
<1>20. b.extraSize # 0 /\ b.extra[b.extraSize] = Len(a.heap) + 1 /\ Len(b.heap[Len(a.heap) + 1]) = length
  BY <1>3, <1>5, <1>7, <1>8 DEF top
<1> QED BY <1>17, <1>19, <1>20

(* append_key_block, once there is room for it.                            *)
LEMMA NextKeyBlock ==
  ASSUME NEW a, Sound(a)
  PROVE  LET b == [a EXCEPT !.keyBlocks = @ + 1,
                            !.records = @ \o [k \in 1 .. KeyBlockSize |-> [at |-> NoPtr, length |-> 0]]]
         IN  Sound(b) /\ Keeps(a, b) /\ Len(b.records) = Len(a.records) + KeyBlockSize
<1> DEFINE more == [k \in 1 .. KeyBlockSize |-> [at |-> NoPtr, length |-> 0]]
           rs == a.records \o more
           b == [a EXCEPT !.keyBlocks = @ + 1,
                          !.records = @ \o [k \in 1 .. KeyBlockSize |-> [at |-> NoPtr, length |-> 0]]]
<1>1. a \in Arena /\ BlocksApart(a) /\ BlocksThere(a) /\ SlotsUsed(a) /\ RoomLeft(a)
      /\ Len(a.records) = a.keyBlocks * KeyBlockSize
  BY DEF Sound
<1>2. a.records \in Seq(Record) /\ a.keyBlocks \in Nat /\ Len(a.records) \in Nat
  BY <1>1, ArenaFields, LenNat
<1>3. [at |-> NoPtr, length |-> 0] \in Record
  BY DEF Record, Spot, NoPtr
<1>4. more \in Seq(Record) /\ Len(more) = KeyBlockSize
  BY <1>3
<1> HIDE DEF more
<1>5. rs \in Seq(Record) /\ Len(rs) = Len(a.records) + KeyBlockSize
      /\ \A n \in 1 .. Len(a.records) : rs[n] = a.records[n]
  BY SMTT(30), <1>2, <1>4
<1>6. b \in Arena /\ b.base = a.base /\ b.extra = a.extra /\ b.heap = a.heap /\ b.baseSize = a.baseSize
      /\ b.extraSize = a.extraSize /\ b.records = rs /\ b.ptr = a.ptr /\ b.avail = a.avail
      /\ b.keyBlocks = a.keyBlocks + 1
  <2>1. b = [a EXCEPT !.keyBlocks = a.keyBlocks + 1, !.records = rs]
    BY DEF more
  <2>2. a.keyBlocks + 1 \in Nat
    BY <1>2
  <2> HIDE DEF b, rs
  <2> QED BY <1>1, <1>5, <2>1, <2>2 DEF Arena
<1> HIDE DEF b, rs
<1>7. Len(rs) = (a.keyBlocks + 1) * KeyBlockSize
  BY <1>1, <1>2, <1>5
<1>8. BlocksApart(b) /\ BlocksThere(b)
  BY <1>1, <1>6 DEF BlocksApart, BlocksThere
<1>9. SlotsUsed(b) /\ RoomLeft(b)
  BY <1>1, <1>6 DEF SlotsUsed, RoomLeft
<1>10. Sound(b)
  BY <1>6, <1>7, <1>8, <1>9 DEF Sound
<1>11. \A r \in Record, key \in Nat : Holds(a, r, key) => Holds(b, r, key)
  BY <1>6 DEF Holds, Given, Labelled
<1>12. Keeps(a, b)
  BY <1>2, <1>5, <1>6, <1>11 DEF Keeps
<1> QED BY <1>5, <1>6, <1>10, <1>12 DEF b

-----------------------------------------------------------------------------
(* What reserve does, one allocation after the other.                      *)
Later(a) == {b \in Arena : Sound(b) /\ Keeps(a, b)}

LEMMA LaterOn ==
  ASSUME NEW a \in Arena, NEW b \in Later(a), NEW c \in Later(b)
  PROVE  c \in Later(a)
<1>1. b \in Arena /\ c \in Arena /\ Keeps(a, b) /\ Keeps(b, c) /\ Sound(c)
  BY DEF Later
<1> QED BY <1>1, KeepsOn DEF Later

LEMMA LaterItself ==
  ASSUME NEW a, Sound(a)
  PROVE  a \in Arena /\ a \in Later(a)
<1>1. a \in Arena /\ Len(a.records) \in Nat
  BY SoundParts, ArenaFields, LenNat
<1> QED BY <1>1 DEF Later, Keeps

LEMMA OneAndTwo ==
  ASSUME NEW S, NEW x \in S, NEW y \in S, NEW z \in S
  PROVE  <<x>> \o <<y, z>> \in Seq(S) /\ Len(<<x>> \o <<y, z>>) = 3 /\ (<<x>> \o <<y, z>>)[3] = z
OBVIOUS

LEMMA KeyStepsLead ==
  ASSUME NEW a, Sound(a)
  PROVE  \E g, f \in Later(a) :
           /\ KeySteps(a) = <<g, f>>
           /\ Len(f.records) = Len(a.records) + KeyBlockSize /\ f.avail = a.avail
<1> DEFINE room == IF a.keyBlocks = a.keyRoom THEN Doubled(a.keyRoom) ELSE a.keyRoom
           g == [a EXCEPT !.keyRoom = IF a.keyBlocks = @ THEN Doubled(@) ELSE @]
           f == [g EXCEPT !.keyBlocks = @ + 1,
                          !.records = @ \o [k \in 1 .. KeyBlockSize |-> [at |-> NoPtr, length |-> 0]]]
<1>1. a \in Arena
  BY DEF Sound
<1>2. a.base \in Seq(Nat) /\ a.extra \in Seq(Nat) /\ Len(a.base) \in Nat /\ Len(a.extra) \in Nat
      /\ a.keyRoom \in Nat
  BY <1>1, ArenaFields, LenNat
<1>3. room \in Nat
  BY <1>2 DEF Doubled
<1> HIDE DEF room
<1>4. g = [a EXCEPT !.keyRoom = room]
  BY DEF room
<1>5. Sound(g) /\ Keeps(a, g)
  <2>1. GrowsTo(a.base, a.base) /\ GrowsTo(a.extra, a.extra)
    BY <1>2, GrowsToItself
  <2> HIDE DEF g
  <2>2. GrownSlots(a, g)
    BY <1>1, <1>3, <1>4, <2>1 DEF Arena, GrownSlots
  <2> QED BY <2>2, GrownSound
<1>6. g.records = a.records /\ f.avail = a.avail
  BY <1>1 DEF Arena
<1>7. KeySteps(a) = <<g, f>>
  BY DEF KeySteps
<1> HIDE DEF g
<1>8. Sound(f) /\ Keeps(g, f) /\ Len(f.records) = Len(g.records) + KeyBlockSize
  BY <1>5, NextKeyBlock
<1> HIDE DEF f
<1>9. g \in Later(a) /\ f \in Later(g)
  BY <1>5, <1>8, SoundParts DEF Later
<1>10. f \in Later(a)
  BY <1>1, <1>9, LaterOn
<1> QED BY <1>6, <1>7, <1>8, <1>9, <1>10

LEMMA BaseStepsLead ==
  ASSUME NEW a, Sound(a)
  PROVE  \E g, f \in Later(a) : BaseSteps(a) = <<g, f>> /\ f.avail = BaseBlockSize
<1> DEFINE bs == Grown(a.base, a.baseSize)
           g == [a EXCEPT !.base = Grown(a.base, a.baseSize)]
           slot == a.baseSize + 1
           filled == IF g.base[slot] # Null THEN g
                     ELSE [g EXCEPT !.heap = Append(@, Fresh(BaseBlockSize)),
                                    !.base[slot] = Len(a.heap) + 1]
           f == [filled EXCEPT !.ptr = [block |-> filled.base[slot], offset |-> 0],
                               !.avail = BaseBlockSize, !.baseSize = slot]
<1>1. a \in Arena /\ SlotsUsed(a)
  BY DEF Sound
<1>2. a.base \in Seq(Nat) /\ a.extra \in Seq(Nat) /\ Len(a.base) \in Nat /\ Len(a.extra) \in Nat
      /\ a.keyRoom \in Nat /\ a.baseSize \in Nat
  BY <1>1, ArenaFields, LenNat
<1>3. GrowsTo(a.base, bs) /\ a.baseSize < Len(bs)
  BY <1>1, <1>2, GrownBlocks DEF SlotsUsed
<1>4. g.base = bs /\ g.baseSize = a.baseSize /\ g.heap = a.heap /\ g = [a EXCEPT !.base = bs]
  BY <1>1 DEF Arena
<1>5. BaseSteps(a) = <<g, f>>
  BY DEF BaseSteps
<1> HIDE DEF bs, g
<1>6. Sound(g) /\ Keeps(a, g)
  <2>1. GrowsTo(a.extra, a.extra)
    BY <1>2, GrowsToItself
  <2>2. bs \in Seq(Nat)
    BY <1>3 DEF GrowsTo
  <2>3. GrownSlots(a, g)
    BY <1>1, <1>3, <1>4, <2>1, <2>2 DEF Arena, GrownSlots
  <2> QED BY <2>3, GrownSound
<1>7. Len(bs) \in Nat /\ slot \in 1 .. Len(bs) /\ slot > a.baseSize
  <2>1. Len(bs) \in Nat
    BY <1>3, LenNat DEF GrowsTo
  <2> QED BY <1>2, <1>3, <2>1
<1>8. Sound(filled) /\ Keeps(g, filled) /\ filled.base[slot] # Null /\ slot <= Len(filled.base)
      /\ filled.baseSize = a.baseSize
  <2>1. CASE g.base[slot] # Null
    <3>1. filled = g
      BY <2>1
    <3>2. Keeps(g, g)
      BY <1>6, LaterItself DEF Later
    <3> QED BY <1>4, <1>6, <1>7, <2>1, <3>1, <3>2
  <2>2. CASE g.base[slot] = Null
    <3>1. filled = [g EXCEPT !.heap = Append(@, Fresh(BaseBlockSize)), !.base[slot] = Len(g.heap) + 1]
      BY <1>4, <2>2
    <3>2. slot \in 1 .. Len(g.base) /\ slot > g.baseSize
      BY <1>4, <1>7
    <3> HIDE DEF filled, slot
    <3>3. Sound(filled) /\ Keeps(g, filled) /\ filled.base[slot] # Null /\ Len(filled.base) = Len(g.base)
          /\ filled.baseSize = g.baseSize
      BY <1>6, <2>2, <3>1, <3>2, BlockInSlot
    <3> QED BY <1>4, <1>7, <3>3
  <2> QED BY <2>1, <2>2
<1> HIDE DEF filled
<1>9. Sound(f) /\ Keeps(filled, f) /\ f.avail = BaseBlockSize
  <2>1. slot = filled.baseSize + 1
    BY <1>8
  <2> HIDE DEF slot
  <2> QED BY <1>8, <2>1, NextBaseBlock
<1> HIDE DEF f
<1>10. g \in Later(a) /\ filled \in Later(g) /\ f \in Later(filled)
  BY <1>6, <1>8, <1>9, SoundParts DEF Later
<1>11. filled \in Later(a)
  BY <1>1, <1>10, LaterOn
<1>12. f \in Later(a)
  BY <1>1, <1>10, <1>11, LaterOn
<1> QED BY <1>5, <1>9, <1>10, <1>12

(* The last extra block is as long as a key and no earlier one is in it.   *)
OwnBlock(a, b, length) ==
  /\ b.extraSize # 0
  /\ Len(b.heap[b.extra[b.extraSize]]) = length
  /\ \A r \in Record, key \in Nat :
       r.length > 0 /\ Holds(a, r, key) => r.at.block # b.extra[b.extraSize]

LEMMA ExtraStepsLead ==
  ASSUME NEW a, Sound(a), NEW length \in Nat
  PROVE  \E g, f \in Later(a) : ExtraSteps(a, length) = <<g, f>> /\ OwnBlock(a, f, length)
<1> DEFINE es == Grown(a.extra, a.extraSize)
           g == [a EXCEPT !.extra = Grown(a.extra, a.extraSize)]
           slot == a.extraSize + 1
           freed == [k \in DOMAIN a.heap |-> IF k = g.extra[slot] THEN << >> ELSE a.heap[k]]
           f == [g EXCEPT !.heap = Append(freed, Fresh(length)),
                          !.extra[slot] = Len(a.heap) + 1, !.extraSize = slot]
<1>1. a \in Arena /\ SlotsUsed(a)
  BY DEF Sound
<1>2. a.base \in Seq(Nat) /\ a.extra \in Seq(Nat) /\ Len(a.base) \in Nat /\ Len(a.extra) \in Nat
      /\ a.keyRoom \in Nat /\ a.extraSize \in Nat /\ Len(a.heap) \in Nat
  BY <1>1, ArenaFields, LenNat
<1>3. GrowsTo(a.extra, es) /\ a.extraSize < Len(es)
  BY <1>1, <1>2, GrownBlocks DEF SlotsUsed
<1>4. g.extra = es /\ g.extraSize = a.extraSize /\ g.heap = a.heap /\ g = [a EXCEPT !.extra = es]
  BY <1>1 DEF Arena
<1>5. ExtraSteps(a, length) = <<g, f>>
  BY DEF ExtraSteps
<1> HIDE DEF es, g
<1>6. Sound(g) /\ Keeps(a, g)
  <2>1. GrowsTo(a.base, a.base)
    BY <1>2, GrowsToItself
  <2>2. es \in Seq(Nat)
    BY <1>3 DEF GrowsTo
  <2>3. GrownSlots(a, g)
    BY <1>1, <1>3, <1>4, <2>1, <2>2 DEF Arena, GrownSlots
  <2> QED BY <2>3, GrownSound
<1>7. Len(es) \in Nat /\ slot <= Len(es)
  <2>1. Len(es) \in Nat
    BY <1>3, LenNat DEF GrowsTo
  <2> QED BY <1>2, <1>3, <2>1
<1>8. /\ Sound(f) /\ Keeps(g, f)
      /\ f.extraSize # 0 /\ f.extra[f.extraSize] = Len(a.heap) + 1
      /\ Len(f.heap[Len(a.heap) + 1]) = length
  <2>1. f = WithExtraBlock(g, slot, length)
    BY <1>4 DEF WithExtraBlock, Freed
  <2>2. slot = g.extraSize + 1 /\ slot <= Len(g.extra)
    BY <1>4, <1>7
  <2> HIDE DEF f, slot, freed
  <2>3. /\ Sound(f) /\ Keeps(g, f)
        /\ f.extraSize # 0 /\ f.extra[f.extraSize] = Len(g.heap) + 1
        /\ Len(f.heap[Len(g.heap) + 1]) = length
    BY <1>6, <2>1, <2>2, NextExtraBlock
  <2> QED BY <1>4, <2>3
<1> HIDE DEF f
<1>9. g \in Later(a) /\ f \in Later(g)
  BY <1>6, <1>8, SoundParts DEF Later
<1>10. f \in Later(a)
  BY <1>1, <1>9, LaterOn
<1>11. ASSUME NEW r \in Record, NEW key \in Nat, r.length > 0, Holds(a, r, key)
       PROVE  r.at.block # f.extra[f.extraSize]
  <2>1. r.at.block \in 1 .. Len(a.heap)
    BY <1>11, GivenThere DEF Holds
  <2> QED BY <1>2, <1>8, <2>1
<1>12. OwnBlock(a, f, length)
  BY <1>8, <1>11 DEF OwnBlock
<1> QED BY <1>5, <1>9, <1>10, <1>12

(* All of them: wherever one fails the arena is sound; in the end there is *)
(* room for the labels and for the record.                                 *)
Ready(a, b, n, length) ==
  /\ n < Len(b.records)
  /\ IF length > ExtraBlockSize THEN OwnBlock(a, b, length) ELSE length <= b.avail

LEMMA RoomForRecord ==
  ASSUME NEW n \in Nat, NEW blocks \in Nat, n <= blocks * KeyBlockSize, n \div KeyBlockSize # blocks
  PROVE  n < blocks * KeyBlockSize
<1>1. KeyBlockSize \in Nat \ {0}
  OBVIOUS
<1>2. (blocks * KeyBlockSize) \div KeyBlockSize = blocks
  BY <1>1
<1>3. n # blocks * KeyBlockSize
  BY <1>2
<1>4. blocks * KeyBlockSize \in Nat
  BY <1>1
<1> QED BY <1>3, <1>4

LEMMA ReserveLeads ==
  ASSUME NEW a, Sound(a), NEW n \in Nat, n <= Len(a.records), NEW length \in Nat
  PROVE  LET s == ReserveSteps(a, n, length)
         IN  /\ s \in Seq(Later(a)) /\ Len(s) > 0
             /\ Last(s) \in Later(a)
             /\ Ready(a, Last(s), n, length)
<1> DEFINE keyed == IF n \div KeyBlockSize = a.keyBlocks THEN <<a>> \o KeySteps(a) ELSE <<a>>
           s == ReserveSteps(a, n, length)
<1>1. a \in Arena /\ a \in Later(a) /\ Len(a.records) = a.keyBlocks * KeyBlockSize /\ a.keyBlocks \in Nat
      /\ Len(a.records) \in Nat
  BY LaterItself, ArenaFields, LenNat DEF Sound
<1>2. /\ keyed \in Seq(Later(a)) /\ Len(keyed) > 0
      /\ keyed[Len(keyed)] \in Later(a)
      /\ n < Len(keyed[Len(keyed)].records) /\ keyed[Len(keyed)].avail = a.avail
  <2>1. CASE n \div KeyBlockSize = a.keyBlocks
    <3>1. PICK g, f \in Later(a) :
            /\ KeySteps(a) = <<g, f>>
            /\ Len(f.records) = Len(a.records) + KeyBlockSize /\ f.avail = a.avail
      BY KeyStepsLead
    <3>2. keyed = <<a>> \o <<g, f>>
      BY <2>1, <3>1
    <3> HIDE DEF keyed
    <3>5. keyed \in Seq(Later(a)) /\ Len(keyed) = 3 /\ keyed[3] = f
      BY <1>1, <3>1, <3>2, OneAndTwo
    <3>6. n < Len(f.records)
      BY <1>1, <3>1
    <3> QED BY <3>1, <3>5, <3>6
  <2>2. CASE n \div KeyBlockSize # a.keyBlocks
    <3>1. keyed = <<a>>
      BY <2>2
    <3> HIDE DEF keyed
    <3>2. keyed \in Seq(Later(a)) /\ Len(keyed) = 1 /\ keyed[1] = a
      BY <1>1, <3>1
    <3>3. n < Len(a.records)
      BY <1>1, <2>2, RoomForRecord
    <3> QED BY <1>1, <3>2, <3>3
  <2> QED BY <2>1, <2>2
<1>3. s = IF length > ExtraBlockSize THEN keyed \o ExtraSteps(Last(keyed), length)
          ELSE IF length > a.avail THEN keyed \o BaseSteps(Last(keyed))
          ELSE keyed
  BY DEF ReserveSteps
<1>4. Last(keyed) = keyed[Len(keyed)]
  BY DEF Last
<1>5. PICK k \in Later(a) : k = Last(keyed) /\ n < Len(k.records) /\ k.avail = a.avail
  BY <1>2, <1>4
<1> HIDE DEF keyed, s
<1>6. Sound(k) /\ k \in Arena
  BY <1>5 DEF Later
<1>7. ASSUME NEW g \in Later(k), NEW f \in Later(k), s = keyed \o <<g, f>>
      PROVE  s \in Seq(Later(a)) /\ Len(s) > 0 /\ Last(s) = f /\ f \in Later(a) /\ n < Len(f.records)
  <2>1. g \in Later(a) /\ f \in Later(a)
    BY <1>1, <1>5, LaterOn
  <2>2. <<g, f>> \in Seq(Later(a)) /\ Len(<<g, f>>) = 2 /\ <<g, f>>[2] = f
    BY <2>1
  <2>3. PICK p \in Seq(Later(a)) : p = <<g, f>> /\ Len(p) = 2 /\ p[2] = f
    BY <2>2
  <2>4. s = keyed \o p
    BY <1>7, <2>3
  <2>5. s \in Seq(Later(a)) /\ Len(s) = Len(keyed) + 2 /\ s[Len(keyed) + 2] = p[2]
    BY <1>2, <2>3, <2>4
  <2>6. Last(s) = f /\ Len(s) > 0
    BY <1>2, <2>3, <2>5, LenNat DEF Last
  <2>7. Len(k.records) <= Len(f.records) /\ Len(k.records) \in Nat /\ Len(f.records) \in Nat
    <3>1. Keeps(k, f) /\ f \in Arena
      BY DEF Later
    <3> QED BY <1>6, <3>1, ArenaFields, LenNat DEF Keeps
  <2>8. n < Len(f.records)
    BY <1>5, <2>7
  <2> QED BY <2>1, <2>5, <2>6, <2>8
<1>8. CASE length > ExtraBlockSize
  <2>1. PICK g, f \in Later(k) : ExtraSteps(k, length) = <<g, f>> /\ OwnBlock(k, f, length)
    BY <1>6, ExtraStepsLead
  <2>2. s = keyed \o <<g, f>>
    BY <1>3, <1>5, <1>8, <2>1
  <2>3. s \in Seq(Later(a)) /\ Len(s) > 0 /\ Last(s) = f /\ f \in Later(a) /\ n < Len(f.records)
    BY <1>7, <2>2
  <2>4. \A r \in Record, key \in Nat : Holds(a, r, key) => Holds(k, r, key)
    BY <1>5 DEF Later, Keeps
  <2>5. OwnBlock(a, f, length)
    BY <2>1, <2>4 DEF OwnBlock
  <2> QED BY <1>8, <2>3, <2>5 DEF Ready, s
<1>9. CASE ~(length > ExtraBlockSize) /\ length > a.avail
  <2>1. PICK g, f \in Later(k) : BaseSteps(k) = <<g, f>> /\ f.avail = BaseBlockSize
    BY <1>6, BaseStepsLead
  <2>2. s = keyed \o <<g, f>>
    BY <1>3, <1>5, <1>9, <2>1
  <2>3. s \in Seq(Later(a)) /\ Len(s) > 0 /\ Last(s) = f /\ f \in Later(a) /\ n < Len(f.records)
    BY <1>7, <2>2
  <2>4. length <= f.avail
    BY <1>9, <2>1
  <2> QED BY <1>9, <2>3, <2>4 DEF Ready, s
<1>10. CASE ~(length > ExtraBlockSize) /\ ~(length > a.avail)
  <2>1. s = keyed /\ Last(s) = k
    BY <1>3, <1>5, <1>10
  <2>2. a.avail \in Nat
    BY <1>1, ArenaFields
  <2>3. length <= k.avail
    BY <1>5, <1>10, <2>2
  <2> QED BY <1>2, <1>5, <1>10, <2>1, <2>3 DEF Ready, s
<1> QED BY <1>8, <1>9, <1>10

-----------------------------------------------------------------------------
(* The place of a key: labels that no record has.                          *)
SameBlocks(b, t) ==
  /\ t.heap = b.heap /\ t.base = b.base /\ t.baseSize = b.baseSize /\ t.extra = b.extra
  /\ t.extraSize = b.extraSize /\ t.keyBlocks = b.keyBlocks /\ t.records = b.records

Vacant(a, b, p, copied) ==
  /\ p.block \in 1 .. Len(b.heap) /\ p.offset + copied <= Len(b.heap[p.block])
  /\ \A r \in Record, key \in Nat :
       r.length > 0 /\ Holds(a, r, key) =>
         r.at.block # p.block \/ r.at.offset + r.length <= p.offset

Fits(a, b, t, p, copied) ==
  /\ p \in Spot
  /\ t \in Arena /\ SameBlocks(b, t) /\ RoomLeft(t)
  /\ b.baseSize # 0 => b.ptr.offset <= t.ptr.offset
  /\ copied > 0 => Vacant(a, b, p, copied)
  /\ \A length \in 1 .. copied : Given(t, [at |-> p, length |-> length])

LEMMA FitsInExtra ==
  ASSUME NEW a, NEW b, Sound(b), NEW copied \in Nat, copied > ExtraBlockSize, OwnBlock(a, b, copied)
  PROVE  Fits(a, b, Taken(b, copied), Place(b, copied), copied)
<1> DEFINE p == Place(b, copied)
<1>1. b \in Arena /\ SlotsUsed(b) /\ BlocksThere(b) /\ RoomLeft(b)
  BY DEF Sound
<1>2. b.extraSize \in Nat /\ b.extra \in Seq(Nat) /\ b.ptr \in Spot /\ Len(b.extra) \in Nat
  BY <1>1, ArenaFields, LenNat
<1>3. b.extraSize \in 1 .. b.extraSize
  BY <1>2 DEF OwnBlock
<1>4. b.extraSize \in 1 .. Len(b.extra) /\ b.extra[b.extraSize] # Null
  BY <1>1, <1>2, <1>3 DEF SlotsUsed
<1>5. PICK e \in Nat : e = b.extra[b.extraSize]
  BY <1>2, <1>4
<1>6. e \in 1 .. Len(b.heap) /\ Len(b.heap[e]) = copied
  BY <1>1, <1>4, <1>5 DEF BlocksThere, OwnBlock
<1>7. p = [block |-> e, offset |-> 0] /\ Taken(b, copied) = b
  BY <1>5 DEF Place, Taken
<1> HIDE DEF p
<1>8. p \in Spot /\ p.block = e /\ p.offset = 0
  BY <1>7 DEF Spot
<1>9. Vacant(a, b, p, copied)
  <2>1. \A r \in Record, key \in Nat : r.length > 0 /\ Holds(a, r, key) => r.at.block # p.block
    BY <1>5, <1>8 DEF OwnBlock
  <2> QED BY <1>6, <1>8, <2>1 DEF Vacant
<1>10. ASSUME NEW length \in 1 .. copied PROVE Given(b, [at |-> p, length |-> length])
  BY SMTT(30), <1>3, <1>5, <1>6, <1>8 DEF Given
<1>11. b.ptr.offset <= b.ptr.offset
  BY <1>2 DEF Spot
<1>12. SameBlocks(b, b)
  BY DEF SameBlocks
<1> QED BY <1>1, <1>7, <1>8, <1>9, <1>10, <1>11, <1>12 DEF Fits, p

LEMMA FitsInBase ==
  ASSUME NEW a, NEW b, Sound(b), NEW copied \in Nat, ~(copied > ExtraBlockSize), copied <= b.avail,
         \A r \in Record, key \in Nat : Holds(a, r, key) => Holds(b, r, key)
  PROVE  Fits(a, b, Taken(b, copied), Place(b, copied), copied)
<1> DEFINE p == Place(b, copied)
           t == Taken(b, copied)
           final == b.baseSize
<1>1. b \in Arena /\ SlotsUsed(b) /\ BlocksThere(b) /\ RoomLeft(b) /\ BlocksApart(b)
  BY DEF Sound
<1>2. b.baseSize \in Nat /\ b.base \in Seq(Nat) /\ b.ptr \in Spot /\ Len(b.base) \in Nat /\ b.avail \in Nat
      /\ b.extraSize \in Nat /\ Len(b.extra) \in Nat
  BY <1>1, ArenaFields, LenNat
<1>3. p = b.ptr /\ p \in Spot /\ p.block \in Nat /\ p.offset \in Nat
  BY <1>2 DEF Place, Spot
<1>4. t = [b EXCEPT !.ptr = [block |-> p.block, offset |-> p.offset + copied], !.avail = b.avail - copied]
  <2>1. t = [b EXCEPT !.ptr = [b.ptr EXCEPT !.offset = b.ptr.offset + copied], !.avail = b.avail - copied]
    BY DEF Taken
  <2>2. [b.ptr EXCEPT !.offset = b.ptr.offset + copied] = [block |-> p.block, offset |-> p.offset + copied]
    BY <1>2, <1>3 DEF Spot
  <2> HIDE DEF t, p
  <2> QED BY <2>1, <2>2
<1>5. [block |-> p.block, offset |-> p.offset + copied] \in Spot /\ b.avail - copied \in Nat
  BY <1>2, <1>3 DEF Spot
<1> HIDE DEF p, t
<1>6. /\ t \in Arena /\ SameBlocks(b, t)
      /\ t.ptr.block = p.block /\ t.ptr.offset = p.offset + copied /\ t.avail = b.avail - copied
  BY <1>1, <1>4, <1>5 DEF Arena, SameBlocks
<1>7. RoomLeft(t)
  <2>1. CASE final = 0
    BY <1>1, <1>2, <1>6, <2>1 DEF RoomLeft, SameBlocks
  <2>2. CASE final # 0
    BY <1>1, <1>2, <1>3, <1>6, <2>2 DEF RoomLeft, SameBlocks
  <2> QED BY <2>1, <2>2
<1>8. b.ptr.offset <= t.ptr.offset
  BY <1>3, <1>6
<1>9. ASSUME copied > 0
      PROVE  /\ final \in 1 .. final /\ final \in 1 .. Len(b.base) /\ b.base[final] # Null
             /\ p.block = b.base[final] /\ p.offset + b.avail = BaseBlockSize
  <2>1. final # 0
    BY <1>1, <1>2, <1>9 DEF RoomLeft
  <2>2. final \in 1 .. final
    BY <1>2, <2>1
  <2>3. final \in 1 .. Len(b.base) /\ b.base[final] # Null
    BY <1>1, <1>2, <2>2 DEF SlotsUsed
  <2> QED BY <1>1, <1>3, <2>1, <2>2, <2>3 DEF RoomLeft
<1>10. ASSUME copied > 0 PROVE Vacant(a, b, p, copied)
  <2>1. p.block \in 1 .. Len(b.heap) /\ Len(b.heap[p.block]) = BaseBlockSize
    BY <1>1, <1>9, <1>10 DEF BlocksThere
  <2>2. p.offset + copied <= BaseBlockSize
    BY <1>2, <1>3, <1>9, <1>10
  <2>3. ASSUME NEW r \in Record, NEW key \in Nat, r.length > 0, Holds(a, r, key), r.at.block = p.block
        PROVE  r.at.offset + r.length <= p.offset
    <3>1. Given(b, r)
      BY <2>3 DEF Holds
    <3>2. ASSUME NEW j \in 1 .. b.extraSize, r.at.block = b.extra[j] PROVE FALSE
      <4>1. j \in 1 .. Len(b.extra)
        BY <1>1, <1>2 DEF SlotsUsed
      <4> QED BY <1>1, <1>9, <1>10, <2>3, <3>2, <4>1 DEF BlocksApart
    <3>3. PICK j \in 1 .. b.baseSize :
            /\ r.at.block = b.base[j]
            /\ r.at.offset + r.length <= IF j = b.baseSize THEN b.ptr.offset ELSE BaseBlockSize
      BY <3>1, <3>2 DEF Given
    <3>4. j \in 1 .. Len(b.base) /\ b.base[j] # Null
      BY <1>1, <1>2, <3>3 DEF SlotsUsed
    <3>5. j = final
      BY <1>1, <1>9, <1>10, <2>3, <3>3, <3>4 DEF BlocksApart, OneSlotEach
    <3> QED BY <1>3, <3>3, <3>5
  <2> QED BY <2>1, <2>2, <2>3 DEF Vacant
<1>11. ASSUME NEW length \in 1 .. copied PROVE Given(t, [at |-> p, length |-> length])
  <2>1. copied > 0
    OBVIOUS
  <2>2. final \in 1 .. final /\ p.block = b.base[final]
    BY <1>9, <2>1
  <2>3. p.offset + length <= t.ptr.offset
    BY <1>3, <1>6
  <2>4. t.baseSize = b.baseSize /\ t.base = b.base
    BY <1>6 DEF SameBlocks
  <2> QED BY <2>2, <2>3, <2>4 DEF Given
<1> QED BY <1>3, <1>6, <1>7, <1>8, <1>10, <1>11 DEF Fits, p, t

(* A record that holds its labels does so after others were written.       *)
LEMMA GivenStays ==
  ASSUME NEW b, Sound(b), NEW t \in Arena, NEW r \in Record, Given(b, r),
         t.base = b.base, t.baseSize = b.baseSize, t.extra = b.extra, t.extraSize = b.extraSize,
         Len(t.heap[r.at.block]) = Len(b.heap[r.at.block]),
         b.baseSize # 0 => b.ptr.offset <= t.ptr.offset
  PROVE  Given(t, r)
<1>1. b \in Arena
  BY DEF Sound
<1>2. b.ptr.offset \in Nat /\ t.ptr.offset \in Nat /\ b.baseSize \in Nat
  BY <1>1, ArenaFields DEF Spot
<1>3. r.at.offset + r.length \in Nat
  BY DEF Record, Spot
<1>4. CASE \E j \in 1 .. b.extraSize :
             /\ r.at.block = b.extra[j]
             /\ r.at.offset + r.length <= Len(b.heap[r.at.block])
  BY <1>4 DEF Given
<1>5. ASSUME NEW j \in 1 .. b.baseSize, r.at.block = b.base[j],
             r.at.offset + r.length <= IF j = b.baseSize THEN b.ptr.offset ELSE BaseBlockSize
      PROVE  Given(t, r)
  <2>1. r.at.offset + r.length <= IF j = t.baseSize THEN t.ptr.offset ELSE BaseBlockSize
    BY <1>2, <1>3, <1>5
  <2>2. \E i \in 1 .. t.baseSize :
          /\ r.at.block = t.base[i]
          /\ r.at.offset + r.length <= IF i = t.baseSize THEN t.ptr.offset ELSE BaseBlockSize
    BY <1>5, <2>1
  <2> QED BY <2>2 DEF Given
<1> QED BY <1>4, <1>5 DEF Given

(* The labels after the copy.                                              *)
LabelsWith(block, p, copied, key) ==
  [k \in DOMAIN block |-> IF k \in p.offset + 1 .. p.offset + copied THEN key ELSE block[k]]

CopiedHeap(b, p, copied, key) ==
  [b.heap EXCEPT ![p.block] = LabelsWith(b.heap[p.block], p, copied, key)]

HeapCopied(b, h, p, copied, key) ==
  /\ h \in Seq(Seq(Nat)) /\ Len(h) = Len(b.heap)
  /\ \A k \in 1 .. Len(b.heap) : Len(h[k]) = Len(b.heap[k])
  /\ \A k \in 1 .. Len(b.heap) : k # p.block => h[k] = b.heap[k]
  /\ \A k \in p.offset + 1 .. p.offset + copied : h[p.block][k] = key
  /\ \A k \in 1 .. p.offset : h[p.block][k] = b.heap[p.block][k]

LEMMA WrittenHeap ==
  ASSUME NEW b, Sound(b), NEW p \in Spot, NEW copied \in Nat, copied > 0, NEW key \in Nat,
         p.block \in 1 .. Len(b.heap), p.offset + copied <= Len(b.heap[p.block])
  PROVE  HeapCopied(b, CopiedHeap(b, p, copied, key), p, copied, key)
<1>1. b.heap \in Seq(Seq(Nat)) /\ Len(b.heap) \in Nat
  BY SoundParts, ArenaFields, LenNat
<1>2. PICK block \in Seq(Nat) : block = b.heap[p.block]
  BY <1>1
<1>3. DOMAIN block = 1 .. Len(block) /\ Len(block) \in Nat
  OBVIOUS
<1>4. PICK new : new = LabelsWith(block, p, copied, key)
  OBVIOUS
<1>5. p.offset \in Nat
  BY DEF Spot
<1>6. new \in [1 .. Len(block) -> Nat]
  BY <1>3, <1>4 DEF LabelsWith
<1>7. new \in Seq(Nat) /\ Len(new) = Len(block)
  BY <1>3, <1>6, SeqOfFunction
<1>8. /\ \A k \in p.offset + 1 .. p.offset + copied : new[k] = key
      /\ \A k \in 1 .. p.offset : new[k] = block[k]
  <2>1. p.offset + copied <= Len(block)
    BY <1>2
  <2>2. \A k \in p.offset + 1 .. p.offset + copied : k \in 1 .. Len(block)
    BY <1>3, <1>5, <2>1
  <2>3. \A k \in 1 .. p.offset : k \in 1 .. Len(block) /\ k \notin p.offset + 1 .. p.offset + copied
    BY SMTT(30), <1>3, <1>5, <2>1
  <2> QED BY <1>3, <1>4, <2>2, <2>3 DEF LabelsWith
<1>9. PICK h : h = [b.heap EXCEPT ![p.block] = new]
  OBVIOUS
<1>10. h \in Seq(Seq(Nat)) /\ Len(h) = Len(b.heap) /\ h[p.block] = new
       /\ \A k \in 1 .. Len(b.heap) : k # p.block => h[k] = b.heap[k]
  BY <1>1, <1>7, <1>9
<1>11. \A k \in 1 .. Len(b.heap) : Len(h[k]) = Len(b.heap[k])
  BY <1>2, <1>7, <1>10
<1>12. h = CopiedHeap(b, p, copied, key)
  BY <1>2, <1>4, <1>9 DEF CopiedHeap
<1>13. HeapCopied(b, h, p, copied, key)
  BY <1>2, <1>8, <1>10, <1>11 DEF HeapCopied
<1> QED BY <1>12, <1>13

(* The copy of a key into its place, and its record.                       *)
RecordAdded(a, b, w, n, length, key) ==
  /\ Sound(w)
  /\ Len(w.records) = Len(b.records)
  /\ \A r \in Record, other \in Nat : Holds(a, r, other) => Holds(w, r, other)
  /\ \A m \in 1 .. n : w.records[m] = a.records[m]
  /\ w.records[n + 1].length = length /\ Holds(w, w.records[n + 1], key)

LEMMA WrittenHolds ==
  ASSUME NEW a \in Arena, NEW b, Sound(b), Keeps(a, b), NEW t, NEW p, NEW copied \in Nat,
         Fits(a, b, t, p, copied), NEW length \in 0 .. copied, NEW key \in Nat,
         NEW n \in Nat, n < Len(b.records), n <= Len(a.records)
  PROVE  RecordAdded(a, b, Written(t, p, copied, length, n, key), n, length, key)
<1> DEFINE hw == CopiedHeap(b, p, copied, key)
           h == IF copied = 0 THEN b.heap ELSE hw
           mine == [at |-> p, length |-> length]
           rs == [b.records EXCEPT ![n + 1] = mine]
           w == Written(t, p, copied, length, n, key)
<1>1. /\ p \in Spot /\ t \in Arena /\ SameBlocks(b, t) /\ RoomLeft(t)
      /\ b.baseSize # 0 => b.ptr.offset <= t.ptr.offset
      /\ copied > 0 => Vacant(a, b, p, copied)
      /\ \A l \in 1 .. copied : Given(t, [at |-> p, length |-> l])
  BY DEF Fits
<1>2. b \in Arena /\ BlocksApart(b) /\ BlocksThere(b) /\ SlotsUsed(b)
      /\ Len(b.records) = b.keyBlocks * KeyBlockSize
  BY DEF Sound
<1>3. b.heap \in Seq(Seq(Nat)) /\ b.records \in Seq(Record) /\ Len(b.records) \in Nat /\ Len(a.records) \in Nat
      /\ Len(b.heap) \in Nat
  BY <1>2, ArenaFields, LenNat
<1>4. length \in Nat /\ mine \in Record /\ mine.at = p /\ mine.length = length
  BY <1>1 DEF Record
<1>5. w = [t EXCEPT !.heap = h, !.records = rs]
  <2>1. t.heap = b.heap /\ t.records = b.records
    BY <1>1 DEF SameBlocks
  <2>2. w = [t EXCEPT !.heap = IF copied = 0 THEN t.heap
                               ELSE [t.heap EXCEPT ![p.block] = LabelsWith(t.heap[p.block], p, copied, key)],
                      !.records = [t.records EXCEPT ![n + 1] = mine]]
    BY DEF Written, LabelsWith
  <2> HIDE DEF w
  <2> QED BY <2>1, <2>2 DEF CopiedHeap
<1>6. /\ h \in Seq(Seq(Nat)) /\ Len(h) = Len(b.heap)
      /\ \A k \in 1 .. Len(b.heap) : Len(h[k]) = Len(b.heap[k])
      /\ \A k \in 1 .. Len(b.heap) : copied = 0 \/ k # p.block => h[k] = b.heap[k]
      /\ copied > 0 => /\ \A k \in p.offset + 1 .. p.offset + copied : h[p.block][k] = key
                       /\ \A k \in 1 .. p.offset : h[p.block][k] = b.heap[p.block][k]
  <2>1. CASE copied = 0
    BY <1>3, <2>1
  <2>2. CASE copied # 0
    <3>1. copied > 0 /\ p.block \in 1 .. Len(b.heap) /\ p.offset + copied <= Len(b.heap[p.block])
      BY <1>1, <2>2 DEF Vacant
    <3>2. HeapCopied(b, hw, p, copied, key)
      BY <1>1, <3>1, WrittenHeap
    <3>3. h = hw
      BY <2>2
    <3> HIDE DEF h, hw
    <3> QED BY <2>2, <3>2, <3>3 DEF HeapCopied
  <2> QED BY <2>1, <2>2
<1>7. /\ rs \in Seq(Record) /\ Len(rs) = Len(b.records) /\ rs[n + 1] = mine
      /\ \A m \in 1 .. n : rs[m] = b.records[m]
  BY <1>3, <1>4
<1> HIDE DEF w, h, rs, mine, hw
<1>8. /\ w \in Arena /\ w.heap = h /\ w.records = rs /\ w.base = b.base /\ w.baseSize = b.baseSize
      /\ w.extra = b.extra /\ w.extraSize = b.extraSize /\ w.keyBlocks = b.keyBlocks
      /\ w.ptr = t.ptr /\ w.avail = t.avail
  BY <1>1, <1>5, <1>6, <1>7 DEF Arena, SameBlocks
<1>9. BlocksApart(w) /\ SlotsUsed(w)
  BY <1>2, <1>8 DEF BlocksApart, SlotsUsed
<1>10. BlocksThere(w)
  BY SMTT(30), <1>2, <1>6, <1>8 DEF BlocksThere
<1>11. RoomLeft(w)
  BY <1>1, <1>8 DEF RoomLeft, SameBlocks
<1>12. Sound(w)
  BY <1>2, <1>7, <1>8, <1>9, <1>10, <1>11 DEF Sound
<1>13. ASSUME NEW r \in Record, Given(b, r) PROVE Given(w, r)
  <2>1. r.at.block \in 1 .. Len(b.heap)
    BY <1>13, GivenThere
  <2>2. Len(w.heap[r.at.block]) = Len(b.heap[r.at.block])
    BY <1>6, <1>8, <2>1
  <2> QED BY <1>1, <1>8, <1>13, <2>2, GivenStays
<1>14. ASSUME NEW r \in Record, NEW other \in Nat, Holds(a, r, other) PROVE Holds(w, r, other)
  <2>1. CASE r.length > 0
    <3>1. Holds(b, r, other)
      BY <1>14 DEF Keeps
    <3>2. Given(b, r) /\ Labelled(b, r, other)
      BY <2>1, <3>1 DEF Holds
    <3>3. r.at.block \in 1 .. Len(b.heap)
      BY <3>2, GivenThere
    <3>4. CASE copied = 0 \/ r.at.block # p.block
      <4>1. h[r.at.block] = b.heap[r.at.block]
        BY <1>6, <3>3, <3>4
      <4> QED BY <1>8, <1>13, <3>2, <4>1 DEF Holds, Labelled
    <3>5. CASE copied # 0 /\ r.at.block = p.block
      <4>1. r.at.offset + r.length <= p.offset
        BY <1>1, <1>14, <2>1, <3>5 DEF Vacant
      <4>2. r.at.offset \in Nat /\ r.length \in Nat /\ p.offset \in Nat
        BY <1>1 DEF Record, Spot
      <4>3. \A k \in r.at.offset + 1 .. r.at.offset + r.length : k \in 1 .. p.offset
        BY <4>1, <4>2
      <4>4. \A k \in 1 .. p.offset : h[r.at.block][k] = b.heap[r.at.block][k]
        BY SMTT(30), <1>6, <3>5
      <4>5. Labelled(w, r, other)
        BY <1>8, <3>2, <4>3, <4>4 DEF Labelled
      <4> QED BY <1>13, <3>2, <4>5 DEF Holds
    <3> QED BY <3>4, <3>5
  <2> QED BY <2>1 DEF Holds
<1>15. ASSUME length > 0 PROVE Given(w, mine) /\ Labelled(w, mine, key)
  <2>1. copied > 0 /\ length \in 1 .. copied
    BY <1>15
  <2>2. Given(t, mine)
    BY <1>1, <2>1 DEF mine
  <2>3. Given(w, mine)
    <3>1. p.block \in 1 .. Len(b.heap)
      BY <1>1, <2>1 DEF Vacant
    <3>2. Len(w.heap[mine.at.block]) = Len(t.heap[mine.at.block])
      BY <1>1, <1>4, <1>6, <1>8, <3>1 DEF SameBlocks
    <3> QED BY <1>1, <1>8, <2>2, <3>2 DEF Given, SameBlocks
  <2>4. Labelled(w, mine, key)
    <3>1. p.offset \in Nat
      BY <1>1 DEF Spot
    <3>2. \A k \in p.offset + 1 .. p.offset + length : k \in p.offset + 1 .. p.offset + copied
      BY <2>1, <3>1
    <3>3. \A k \in p.offset + 1 .. p.offset + length : h[p.block][k] = key
      BY <1>6, <2>1, <3>2
    <3> QED BY <1>4, <1>8, <3>3 DEF Labelled
  <2> QED BY <2>3, <2>4
<1>16. Holds(w, mine, key)
  BY <1>4, <1>15 DEF Holds
<1>17. \A m \in 1 .. n : w.records[m] = a.records[m]
  <2>1. \A m \in 1 .. n : m \in 1 .. Len(a.records)
    BY <1>3
  <2> QED BY <1>7, <1>8, <2>1 DEF Keeps
<1> QED BY <1>4, <1>7, <1>8, <1>12, <1>14, <1>16, <1>17 DEF w, RecordAdded

-----------------------------------------------------------------------------
(* The steps of the keyset.                                                *)
LEMMA ArenaSet ==
  ASSUME NEW a \in Arena, SetTo(a)
  PROVE  arena' = a
<1>1. arena' = [heap |-> a.heap, base |-> a.base, baseSize |-> a.baseSize, extra |-> a.extra,
                extraSize |-> a.extraSize, keyBlocks |-> a.keyBlocks, keyRoom |-> a.keyRoom,
                records |-> a.records, ptr |-> a.ptr, avail |-> a.avail]
  BY DEF SetTo, arena
<1> QED BY <1>1 DEF Arena

LEMMA ArenaRecords == arena.records = records
BY DEF arena

LEMMA PushBackKeeps ==
  ASSUME ArenaInv, PushBackKey
  PROVE  ArenaInv'
<1>1. PICK length \in Lengths, marker \in {0, 1} :
        /\ SetTo(Written(Taken(Last(ReserveSteps(arena, size, length + marker)), length + marker),
                         Place(Last(ReserveSteps(arena, size, length + marker)), length + marker),
                         length + marker, length, size, pushes'))
        /\ pushed' = Append(pushed, [key |-> pushes', length |-> length])
  BY DEF PushBackKey
<1>2. pushes' = pushes + 1 /\ size' = size + 1
  BY DEF PushBackKey
<1>3. /\ Sound(arena) /\ pushes \in Nat /\ size \in Nat /\ size <= Len(arena.records)
      /\ pushed \in Seq([key : Nat, length : Nat]) /\ Len(pushed) = size
      /\ RecordsHold
  BY ArenaRecords DEF ArenaInv
<1>4. length \in Nat /\ length + marker \in Nat
  OBVIOUS
<1>5. PICK copied \in Nat : copied = length + marker
  BY <1>4
<1>6. PICK b : b = Last(ReserveSteps(arena, size, copied))
  OBVIOUS
<1>7. b \in Later(arena) /\ Ready(arena, b, size, copied)
  BY <1>3, <1>6, ReserveLeads
<1>8. b \in Arena /\ Sound(b) /\ Keeps(arena, b) /\ arena \in Arena
  BY <1>3, <1>7 DEF Later, Sound
<1>9. size < Len(b.records)
  BY <1>7 DEF Ready
<1>10. Fits(arena, b, Taken(b, copied), Place(b, copied), copied)
  <2>1. CASE copied > ExtraBlockSize
    <3>1. OwnBlock(arena, b, copied)
      BY <1>7, <2>1 DEF Ready
    <3> QED BY <1>8, <2>1, <3>1, FitsInExtra
  <2>2. CASE ~(copied > ExtraBlockSize)
    <3>1. copied <= b.avail
      BY <1>7, <2>2 DEF Ready
    <3>2. \A r \in Record, key \in Nat : Holds(arena, r, key) => Holds(b, r, key)
      BY <1>8 DEF Keeps
    <3> QED BY <1>8, <2>2, <3>1, <3>2, FitsInBase
  <2> QED BY <2>1, <2>2
<1>11. PICK key \in Nat : key = pushes'
  BY <1>2, <1>3
<1>12. length \in 0 .. copied
  BY <1>4, <1>5
<1>13. PICK w : w = Written(Taken(b, copied), Place(b, copied), copied, length, size, key)
  OBVIOUS
<1>14. /\ Sound(w)
       /\ Len(w.records) = Len(b.records)
       /\ \A r \in Record, other \in Nat : Holds(arena, r, other) => Holds(w, r, other)
       /\ \A m \in 1 .. size : w.records[m] = arena.records[m]
       /\ w.records[size + 1].length = length /\ Holds(w, w.records[size + 1], key)
  <2>1. size \in Nat /\ size <= Len(arena.records)
    BY <1>3
  <2>2. RecordAdded(arena, b, Written(Taken(b, copied), Place(b, copied), copied, length, size, key),
                    size, length, key)
    BY <1>8, <1>9, <1>10, <1>12, <2>1, WrittenHolds
  <2> QED BY <1>13, <2>2 DEF RecordAdded
<1>15. SetTo(w)
  BY <1>1, <1>5, <1>6, <1>11, <1>13
<1>16. arena' = w
  BY <1>14, <1>15, ArenaSet DEF Sound
<1>17. records' = w.records
  BY <1>15 DEF SetTo
<1>18. /\ pushed' \in Seq([key : Nat, length : Nat]) /\ Len(pushed') = size + 1
       /\ \A m \in 1 .. size : pushed'[m] = pushed[m]
       /\ pushed'[size + 1] = [key |-> key, length |-> length]
  <2>1. [key |-> key, length |-> length] \in [key : Nat, length : Nat]
    BY <1>4
  <2>2. pushed' = Append(pushed, [key |-> key, length |-> length])
    BY <1>1, <1>11
  <2> QED BY <1>3, <2>1, <2>2
<1>19. ASSUME NEW m \in 1 .. size + 1
       PROVE  w.records[m].length = pushed'[m].length /\ Holds(w, w.records[m], pushed'[m].key)
  <2>1. CASE m = size + 1
    BY <1>14, <1>18, <2>1
  <2>2. CASE m # size + 1
    <3>1. m \in 1 .. size
      BY <1>3, <2>2
    <3>2. records[m].length = pushed[m].length /\ Holds(arena, records[m], pushed[m].key)
      BY <1>3, <3>1 DEF RecordsHold
    <3>3. records[m] \in Record /\ pushed[m].key \in Nat
      <4>1. records \in Seq(Record) /\ Len(records) \in Nat /\ size <= Len(records)
        BY <1>3, <1>8, ArenaRecords, ArenaFields, LenNat
      <4>2. m \in 1 .. Len(records)
        BY <1>3, <3>1, <4>1
      <4>3. m \in 1 .. Len(pushed) /\ pushed \in Seq([key : Nat, length : Nat])
        BY <1>3, <3>1
      <4>4. pushed[m] \in [key : Nat, length : Nat]
        BY <4>3, ElementIn
      <4> QED BY <4>1, <4>2, <4>4
    <3>4. w.records[m] = records[m] /\ pushed'[m] = pushed[m]
      BY <1>14, <1>18, <3>1, ArenaRecords
    <3> QED BY <1>14, <3>2, <3>3, <3>4
  <2> QED BY <2>1, <2>2
<1>20. RecordsHold'
  BY <1>2, <1>16, <1>17, <1>19 DEF RecordsHold
<1>21. size + 1 <= Len(w.records) /\ size + 1 \in Nat
  <2>1. Len(b.records) \in Nat
    BY <1>8, ArenaFields, LenNat
  <2> QED BY <1>3, <1>9, <1>14, <2>1
<1> QED BY <1>2, <1>3, <1>14, <1>16, <1>17, <1>18, <1>20, <1>21 DEF ArenaInv

LEMMA RecordsStay ==
  ASSUME NEW a \in Arena, NEW b \in Arena, Keeps(a, b), NEW n \in Nat, n <= Len(a.records)
  PROVE  n <= Len(b.records) /\ \A m \in 1 .. n : b.records[m] = a.records[m] /\ a.records[m] \in Record
<1>1. Len(a.records) \in Nat /\ Len(b.records) \in Nat /\ a.records \in Seq(Record)
  BY ArenaFields, LenNat
<1>2. \A m \in 1 .. n : m \in 1 .. Len(a.records)
  BY <1>1
<1> QED BY <1>1, <1>2 DEF Keeps

LEMMA ThrowKeeps ==
  ASSUME ArenaInv, PushBackThrows
  PROVE  ArenaInv'
<1>1. PICK copied \in Nat :
        \E k \in 1 .. Len(ReserveSteps(arena, size, copied)) - 1 :
          SetTo(ReserveSteps(arena, size, copied)[k])
  <2>1. PICK length \in Lengths, marker \in {0, 1} :
          \E k \in 1 .. Len(ReserveSteps(arena, size, length + marker)) - 1 :
            SetTo(ReserveSteps(arena, size, length + marker)[k])
    BY DEF PushBackThrows
  <2>2. length + marker \in Nat
    OBVIOUS
  <2> QED BY <2>1, <2>2
<1>2. pushes' = pushes + 1 /\ size' = size /\ pushed' = pushed
  BY DEF PushBackThrows
<1>3. /\ Sound(arena) /\ pushes \in Nat /\ size \in Nat /\ size <= Len(arena.records)
      /\ pushed \in Seq([key : Nat, length : Nat]) /\ Len(pushed) = size
      /\ RecordsHold
  BY ArenaRecords DEF ArenaInv
<1>4. PICK s \in Seq(Later(arena)) : s = ReserveSteps(arena, size, copied)
  BY <1>3, ReserveLeads
<1>4a. PICK k \in 1 .. Len(s) - 1 : SetTo(s[k])
  BY <1>1, <1>4
<1>5. s[k] \in Later(arena)
  <2>1. k \in 1 .. Len(s) /\ Len(s) \in Nat
    BY <1>4, LenNat
  <2> QED BY <2>1
<1>6. PICK b \in Later(arena) : b = s[k]
  BY <1>5
<1>7. b \in Arena /\ Sound(b) /\ Keeps(arena, b) /\ arena \in Arena
  BY <1>3 DEF Later, Sound
<1>8. SetTo(b)
  BY <1>4a, <1>6
<1>9. arena' = b /\ records' = b.records
  BY <1>7, <1>8, ArenaSet DEF SetTo
<1>10. size <= Len(b.records) /\ \A m \in 1 .. size : b.records[m] = records[m] /\ records[m] \in Record
  BY <1>3, <1>7, RecordsStay, ArenaRecords
<1>11. ASSUME NEW m \in 1 .. size
       PROVE  b.records[m].length = pushed[m].length /\ Holds(b, b.records[m], pushed[m].key)
  <2>1. records[m].length = pushed[m].length /\ Holds(arena, records[m], pushed[m].key)
    BY <1>3 DEF RecordsHold
  <2>2. m \in 1 .. Len(pushed) /\ pushed \in Seq([key : Nat, length : Nat])
    BY <1>3
  <2>3. pushed[m] \in [key : Nat, length : Nat]
    BY <2>2, ElementIn
  <2>4. pushed[m].key \in Nat /\ records[m] \in Record
    BY <1>10, <2>3
  <2> QED BY <1>7, <1>10, <2>1, <2>4 DEF Keeps
<1>12. RecordsHold'
  BY <1>2, <1>9, <1>11 DEF RecordsHold
<1> QED BY <1>2, <1>3, <1>7, <1>9, <1>10, <1>12 DEF ArenaInv

(* The blocks a reset keeps are there still, and no key is.                *)
LEMMA RewoundSound ==
  ASSUME NEW a, Sound(a)
  PROVE  Rewound(a) \in Arena /\ Sound(Rewound(a)) /\ Rewound(a).records = a.records
<1> DEFINE b == Rewound(a)
<1>1. a \in Arena /\ BlocksApart(a) /\ BlocksThere(a) /\ Len(a.records) = a.keyBlocks * KeyBlockSize
  BY DEF Sound
<1>2. NoPtr \in Spot
  BY DEF NoPtr, Spot
<1>3. b \in Arena /\ b.base = a.base /\ b.extra = a.extra /\ b.heap = a.heap /\ b.baseSize = 0
      /\ b.extraSize = 0 /\ b.records = a.records /\ b.avail = 0 /\ b.keyBlocks = a.keyBlocks
  BY <1>1, <1>2 DEF Rewound, Arena
<1> HIDE DEF b
<1>4. Len(a.base) \in Nat /\ Len(a.extra) \in Nat
  BY <1>1, ArenaFields, LenNat
<1>5. BlocksApart(b) /\ BlocksThere(b)
  BY <1>1, <1>3 DEF BlocksApart, BlocksThere
<1>6. SlotsUsed(b) /\ RoomLeft(b)
  BY <1>3, <1>4 DEF SlotsUsed, RoomLeft
<1>7. Sound(b)
  BY <1>1, <1>3, <1>5, <1>6 DEF Sound
<1> QED BY <1>3, <1>7 DEF b

LEMMA EmptiedSound == Emptied \in Arena /\ Sound(Emptied) /\ Emptied.records = << >>
<1> DEFINE b == Emptied
<1>1. NoPtr \in Spot
  BY DEF NoPtr, Spot
<1>2. << >> \in Seq(Nat) /\ << >> \in Seq(Seq(Nat)) /\ << >> \in Seq(Record) /\ Len(<< >>) = 0
  OBVIOUS
<1>3. b \in Arena /\ b.base = << >> /\ b.extra = << >> /\ b.heap = << >> /\ b.baseSize = 0
      /\ b.extraSize = 0 /\ b.records = << >> /\ b.avail = 0 /\ b.keyBlocks = 0
  BY <1>1, <1>2 DEF Emptied, Arena
<1> HIDE DEF b
<1>4. BlocksApart(b) /\ BlocksThere(b)
  BY <1>2, <1>3 DEF BlocksApart, BlocksThere, OneSlotEach
<1>5. SlotsUsed(b) /\ RoomLeft(b)
  BY <1>2, <1>3 DEF SlotsUsed, RoomLeft
<1>6. Len(b.records) = b.keyBlocks * KeyBlockSize
  BY <1>2, <1>3
<1>7. Sound(b)
  BY <1>3, <1>4, <1>5, <1>6 DEF Sound
<1> QED BY <1>3, <1>7 DEF b

LEMMA NothingHeld ==
  ASSUME ArenaInv, NEW b \in Arena, Sound(b), SetTo(b), size' = 0, pushed' = << >>, pushes' = pushes
  PROVE  ArenaInv'
<1>1. arena' = b /\ records' = b.records
  BY ArenaSet DEF SetTo
<1>2. 0 <= Len(b.records)
  BY ArenaFields, LenNat
<1>3. << >> \in Seq([key : Nat, length : Nat]) /\ Len(<< >>) = 0
  OBVIOUS
<1>4. RecordsHold'
  BY DEF RecordsHold
<1>5. pushes \in Nat
  BY DEF ArenaInv
<1> QED BY <1>1, <1>2, <1>3, <1>4, <1>5 DEF ArenaInv

LEMMA ResetKeeps ==
  ASSUME ArenaInv, Reset \/ Clear
  PROVE  ArenaInv'
<1>1. Sound(arena)
  BY DEF ArenaInv
<1>2. size' = 0 /\ pushed' = << >> /\ pushes' = pushes
  BY DEF Reset, Clear
<1>3. CASE Reset
  BY <1>1, <1>2, <1>3, RewoundSound, NothingHeld DEF Reset
<1>4. CASE Clear
  BY <1>2, <1>4, EmptiedSound, NothingHeld DEF Clear
<1> QED BY <1>3, <1>4

LEMMA ArenaAtStart ==
  ASSUME KeysetInit
  PROVE  ArenaInv
<1>1. arena = Emptied
  BY DEF KeysetInit, arena, Emptied
<1>2. << >> \in Seq([key : Nat, length : Nat]) /\ Len(<< >>) = 0
  OBVIOUS
<1>3. RecordsHold
  BY DEF KeysetInit, RecordsHold
<1> QED BY <1>1, <1>2, <1>3, EmptiedSound DEF KeysetInit, ArenaInv

LEMMA KeysStay ==
  ASSUME ArenaInv
  PROVE  KeysReadBack
<1>1. ASSUME NEW n \in 1 .. size, NEW k \in records[n].at.offset + 1 .. records[n].at.offset + records[n].length
      PROVE  /\ records[n].at.block \in DOMAIN heap
             /\ k \in DOMAIN heap[records[n].at.block]
             /\ heap[records[n].at.block][k] = pushed[n].key
  <2>0. arena.heap = heap /\ arena.records = records
    BY DEF arena
  <2>1. PICK a : a = arena /\ a.heap = heap /\ a.records = records
    BY <2>0
  <2>2. Sound(a) /\ a \in Arena /\ size \in Nat /\ size <= Len(records)
    BY <2>1 DEF ArenaInv, Sound
  <2>3. a.heap \in Seq(Seq(Nat)) /\ a.records \in Seq(Record) /\ Len(a.records) \in Nat /\ Len(a.heap) \in Nat
        /\ a.baseSize \in Nat /\ a.extraSize \in Nat /\ Len(a.base) \in Nat /\ Len(a.extra) \in Nat
        /\ a.ptr \in Spot /\ a.avail \in Nat
    BY <2>2, ArenaFields, LenNat
  <2>4. n \in 1 .. Len(a.records)
    BY <2>1, <2>2, <2>3
  <2>5. PICK r \in Record : r = records[n]
    BY <2>1, <2>3, <2>4
  <2>6. r.at.offset \in Nat /\ r.length \in Nat /\ r.length > 0 /\ k \in 1 .. r.at.offset + r.length
        /\ k \in r.at.offset + 1 .. r.at.offset + r.length
    BY <2>5 DEF Record, Spot
  <2>7. Given(a, r) /\ Labelled(a, r, pushed[n].key)
    BY <2>1, <2>5, <2>6 DEF ArenaInv, RecordsHold, Holds
  <2>8. r.at.block \in 1 .. Len(a.heap)
    BY <2>2, <2>7, GivenThere
  <2>9. r.at.offset + r.length <= Len(a.heap[r.at.block])
    <3>1. CASE \E j \in 1 .. a.extraSize :
                 /\ r.at.block = a.extra[j]
                 /\ r.at.offset + r.length <= Len(a.heap[r.at.block])
      BY <3>1
    <3>2. ASSUME NEW j \in 1 .. a.baseSize, r.at.block = a.base[j],
                 r.at.offset + r.length <= IF j = a.baseSize THEN a.ptr.offset ELSE BaseBlockSize
          PROVE  r.at.offset + r.length <= Len(a.heap[r.at.block])
      <4>1. j \in 1 .. Len(a.base) /\ a.base[j] # Null
        BY <2>2, <2>3 DEF Sound, SlotsUsed
      <4>2. Len(a.heap[r.at.block]) = BaseBlockSize
        BY <2>2, <3>2, <4>1 DEF Sound, BlocksThere
      <4>3. a.baseSize # 0
        OBVIOUS
      <4>4. a.ptr.offset \in Nat /\ a.ptr.offset + a.avail = BaseBlockSize
        BY <2>2, <2>3, <4>3 DEF Sound, RoomLeft, Spot
      <4>5. a.ptr.offset <= BaseBlockSize
        BY <2>3, <4>4
      <4>6. r.at.offset + r.length <= BaseBlockSize
        BY <2>6, <3>2, <4>4, <4>5
      <4> QED BY <4>2, <4>6
    <3> QED BY <2>7, <3>1, <3>2 DEF Given
  <2>10. PICK block \in Seq(Nat) : block = a.heap[r.at.block]
    BY SMTT(30), <2>3, <2>8
  <2>11. k \in DOMAIN block
    <3>1. Len(block) \in Nat /\ r.at.offset + r.length <= Len(block)
      BY <2>9, <2>10, LenNat
    <3>2. k \in 1 .. Len(block)
      BY <2>6, <3>1
    <3> QED BY <3>2
  <2>12. r.at.block \in DOMAIN a.heap
    BY <2>3, <2>8
  <2>13. a.heap[r.at.block][k] = pushed[n].key
    BY <2>6, <2>7 DEF Labelled
  <2> QED BY <2>1, <2>5, <2>10, <2>11, <2>12, <2>13
<1> QED BY <1>1 DEF KeysReadBack, ArenaInv, RecordsHold

(* What was pushed to a keyset since the last reset reads back, whatever   *)
(* blocks were allocated, reused, freed or not to be had in between.       *)
THEOREM KeysStayReadable == KeysetSpec => []KeysReadBack
<1>1. KeysetInit => ArenaInv
  BY ArenaAtStart
<1>2. ArenaInv /\ [KeysetNext]_keysetVars => ArenaInv'
  <2> SUFFICES ASSUME ArenaInv, [KeysetNext]_keysetVars PROVE ArenaInv'
    OBVIOUS
  <2>1. CASE PushBackKey
    BY <2>1, PushBackKeeps
  <2>2. CASE PushBackThrows
    BY <2>2, ThrowKeeps
  <2>3. CASE Reset \/ Clear
    BY <2>3, ResetKeeps
  <2>4. CASE UNCHANGED keysetVars
    <3>1. arena' = arena /\ records' = records /\ size' = size /\ pushes' = pushes /\ pushed' = pushed
      BY <2>4 DEF keysetVars, arena
    <3> QED BY <3>1 DEF ArenaInv, RecordsHold
  <2> QED BY <2>1, <2>2, <2>3, <2>4 DEF KeysetNext
<1> QED BY <1>1, <1>2, KeysStay, PTL DEF KeysetSpec

HIDE ArenaAssumption DEF Null

-----------------------------------------------------------------------------
(* A set of natural numbers that is not empty has a least one.             *)
LEMMA LeastNumber ==
  ASSUME NEW T \in SUBSET Nat, T # {}
  PROVE  \E k \in T : \A l \in T : k <= l
<1> DEFINE R == OpToRel(<, Nat)
<1>1. \A x, y \in Nat : y < x => <<y, x>> \in R
  BY Zenon DEF OpToRel
<1>2. PICK k \in T : \A l \in T : <<l, k>> \notin R
  <2> HIDE DEF R
  <2> QED BY NatLessThanWellFounded, WFMin DEF R
<1>3. \A l \in T : ~ (l < k)
  BY <1>1, <1>2
<1> QED BY <1>3

(* A function on the numbers may be defined by its value at 0 and, for     *)
(* every other number, a step from its value at a smaller one.             *)
Falls(back) == back \in [Nat -> Nat] /\ \A n \in Nat \ {0} : back[n] < n

Starts(g, n, first, step, back) ==
  /\ g[0] = first
  /\ \A k \in 1 .. n : g[k] = step[<<k, g[back[k]]>>]

Follows(f, S, first, step, back) ==
  f \in [Nat -> S] /\ f[0] = first /\ \A n \in Nat \ {0} : f[n] = step[<<n, f[back[n]]>>]

LEMMA StartsExist ==
  ASSUME NEW S, NEW first \in S, NEW step \in [Nat \X S -> S], NEW back, Falls(back)
  PROVE  \A n \in Nat : \E g \in [0 .. n -> S] : Starts(g, n, first, step, back)
<1> DEFINE T == {n \in Nat : ~ \E g \in [0 .. n -> S] : Starts(g, n, first, step, back)}
<1>1. SUFFICES ASSUME T # {} PROVE FALSE
  OBVIOUS
<1>2. PICK n \in T : \A l \in T : n <= l
  <2> HIDE DEF T
  <2>1. T \in SUBSET Nat
    BY DEF T
  <2> QED BY <1>1, <2>1, LeastNumber
<1>3. n # 0
  <2>1. [k \in 0 .. 0 |-> first] \in [0 .. 0 -> S]
    OBVIOUS
  <2>2. Starts([k \in 0 .. 0 |-> first], 0, first, step, back)
    BY DEF Starts
  <2> QED BY <1>2, <2>1, <2>2
<1>4. n \in Nat /\ n - 1 \in Nat /\ n - 1 \notin T
  <2>1. n \in Nat /\ n - 1 \in Nat /\ ~ (n <= n - 1)
    BY <1>2, <1>3
  <2> HIDE DEF T
  <2> QED BY <1>2, <2>1
<1>5. PICK g \in [0 .. n - 1 -> S] : Starts(g, n - 1, first, step, back)
  BY <1>4
<1>6. back[n] \in 0 .. n - 1
  BY <1>3, <1>4 DEF Falls
<1> DEFINE h == [k \in 0 .. n |-> IF k = n THEN step[<<n, g[back[n]]>>] ELSE g[k]]
<1>7. h \in [0 .. n -> S]
  <2>1. g[back[n]] \in S
    BY <1>5, <1>6
  <2>2. step[<<n, g[back[n]]>>] \in S
    BY <2>1, <1>4
  <2> QED BY <1>4, <1>5, <2>2
<1>8. h[0] = first
  BY <1>3, <1>4, <1>5 DEF Starts
<1>9. ASSUME NEW k \in 1 .. n PROVE h[k] = step[<<k, h[back[k]]>>]
  <2>1. k \in Nat /\ back[k] \in 0 .. n - 1 /\ back[k] # n
    BY <1>4 DEF Falls
  <2>2. h[back[k]] = g[back[k]]
    BY <2>1, <1>4
  <2>3. CASE k = n
    <3>1. h[n] = step[<<n, g[back[n]]>>]
      BY <1>4
    <3> HIDE DEF h
    <3> QED BY <2>2, <2>3, <3>1
  <2>4. CASE k # n
    <3>1. k \in 1 .. n - 1 /\ h[k] = g[k]
      BY <2>4, <1>4
    <3> QED BY <3>1, <2>2, <1>5 DEF Starts
  <2> QED BY <2>3, <2>4
<1>10. Starts(h, n, first, step, back)
  <2> HIDE DEF h
  <2> QED BY <1>8, <1>9 DEF Starts
<1> QED BY <1>2, <1>7, <1>10

LEMMA StartsAgree ==
  ASSUME NEW first, NEW step, NEW back, Falls(back),
         NEW n \in Nat, NEW m \in Nat, NEW g, NEW h,
         Starts(g, n, first, step, back), Starts(h, m, first, step, back),
         NEW k \in Nat, k <= n, k <= m
  PROVE  g[k] = h[k]
<1> DEFINE T == {l \in Nat : l <= n /\ l <= m /\ g[l] # h[l]}
<1>1. SUFFICES ASSUME T # {} PROVE FALSE
  OBVIOUS
<1>2. PICK l \in T : \A i \in T : l <= i
  <2> HIDE DEF T
  <2>1. T \in SUBSET Nat
    BY DEF T
  <2> QED BY <1>1, <2>1, LeastNumber
<1>3. l \in Nat /\ l <= n /\ l <= m /\ g[l] # h[l] /\ l # 0
  BY <1>2 DEF Starts
<1>4. back[l] \in Nat /\ back[l] < l /\ back[l] \notin T
  BY <1>2, <1>3 DEF Falls
<1>5. g[back[l]] = h[back[l]]
  BY <1>3, <1>4
<1>6. l \in 1 .. n /\ l \in 1 .. m
  BY <1>3
<1> QED BY <1>3, <1>5, <1>6 DEF Starts

LEMMA RecursionExists ==
  ASSUME NEW S, NEW first \in S, NEW step, step \in [Nat \X S -> S], NEW back, Falls(back)
  PROVE  \E f : Follows(f, S, first, step, back)
<1> DEFINE start(n) == CHOOSE g \in [0 .. n -> S] : Starts(g, n, first, step, back)
<1>1. ASSUME NEW n \in Nat PROVE start(n) \in [0 .. n -> S] /\ Starts(start(n), n, first, step, back)
  BY StartsExist
<1> DEFINE f == [n \in Nat |-> start(n)[n]]
<1>2. ASSUME NEW n \in Nat PROVE f[n] = start(n)[n] /\ start(n)[n] \in S
  <2> HIDE DEF start
  <2> QED BY <1>1
<1> HIDE DEF start
<1>3. f \in [Nat -> S]
  BY <1>2
<1>4. f[0] = first
  BY <1>1, <1>2 DEF Starts
<1>5. ASSUME NEW n \in Nat \ {0} PROVE f[n] = step[<<n, f[back[n]]>>]
  <2>1. back[n] \in Nat /\ back[n] <= n /\ back[n] <= back[n] /\ n \in 1 .. n
    BY DEF Falls
  <2>2. f[n] = start(n)[n] /\ f[back[n]] = start(back[n])[back[n]]
    BY <1>2, <2>1
  <2>3. start(n)[n] = step[<<n, start(n)[back[n]]>>]
    BY <1>1, <2>1 DEF Starts
  <2>4. Starts(start(n), n, first, step, back) /\ Starts(start(back[n]), back[n], first, step, back)
    BY <1>1, <2>1
  <2>5. start(n)[back[n]] = start(back[n])[back[n]]
    <3>1. PICK g, h, k : g = start(n) /\ h = start(back[n]) /\ k = back[n]
      OBVIOUS
    <3>2. Starts(g, n, first, step, back) /\ Starts(h, k, first, step, back) /\ k \in Nat /\ k <= n /\ k <= k
      BY <2>1, <2>4, <3>1
    <3>3. g[k] = h[k]
      <4> HIDE DEF f
      <4> QED BY <3>2, StartsAgree
    <3> QED BY <3>1, <3>3
  <2> QED BY <2>2, <2>3, <2>5
<1> HIDE DEF f
<1> QED BY <1>3, <1>4, <1>5 DEF Follows

(* A loop is a function: of k it is the value after k steps.               *)
Loop(f, n, first, turn) == f = [k \in 0 .. n |-> IF k = 0 THEN first ELSE turn[<<k, f[k - 1]>>]]

LEMMA LoopExists ==
  ASSUME NEW S, NEW first \in S, NEW n \in Nat, NEW turn \in [(1 .. n) \X S -> S]
  PROVE  \E f \in [0 .. n -> S] : Loop(f, n, first, turn)
<1> DEFINE step == [x \in Nat \X S |-> IF x[1] \in 1 .. n THEN turn[<<x[1], x[2]>>] ELSE first]
           back == [k \in Nat |-> IF k = 0 THEN 0 ELSE k - 1]
<1>1. step \in [Nat \X S -> S]
  <2>1. ASSUME NEW k \in 1 .. n, NEW s \in S PROVE turn[<<k, s>>] \in S
    OBVIOUS
  <2> QED BY <2>1
<1>2. Falls(back)
  BY DEF Falls
<1>3. PICK f : Follows(f, S, first, step, back)
  <2> HIDE DEF step, back
  <2> QED BY <1>1, <1>2, RecursionExists
<1> DEFINE g == [k \in 0 .. n |-> f[k]]
<1>4. ASSUME NEW k \in 0 .. n
      PROVE  g[k] \in S /\ g[k] = IF k = 0 THEN first ELSE turn[<<k, g[k - 1]>>]
  <2>1. g[k] = f[k] /\ f[k] \in S
    BY <1>3 DEF Follows
  <2>2. CASE k = 0
    BY <1>3, <2>1, <2>2 DEF Follows
  <2>3. CASE k # 0
    <3>1. k \in Nat \ {0} /\ back[k] = k - 1 /\ k - 1 \in Nat /\ k \in 1 .. n /\ k - 1 \in 0 .. n
      BY <2>3
    <3>2. f[k] = step[<<k, f[k - 1]>>] /\ f[k - 1] \in S
      <4> HIDE DEF step
      <4> QED BY <1>3, <3>1 DEF Follows
    <3>3. step[<<k, f[k - 1]>>] = turn[<<k, f[k - 1]>>]
      BY <3>1, <3>2
    <3>4. g[k - 1] = f[k - 1]
      BY <3>1
    <3> HIDE DEF step, back, g
    <3> QED BY <2>1, <2>3, <3>2, <3>3, <3>4
  <2> QED BY <2>2, <2>3
<1>5. g \in [0 .. n -> S] /\ g = [k \in 0 .. n |-> IF k = 0 THEN first ELSE turn[<<k, g[k - 1]>>]]
  <2>1. g = [k \in 0 .. n |-> g[k]]
    OBVIOUS
  <2> HIDE DEF g, step
  <2>2. g = [k \in 0 .. n |-> IF k = 0 THEN first ELSE turn[<<k, g[k - 1]>>]]
    BY <1>4, <2>1
  <2> QED BY <1>4, <2>1
<1> HIDE DEF g
<1> QED BY <1>5 DEF Loop

Table(f, n) == f = [k \in 0 .. n |-> f[k]]

LEMMA LoopsAgree ==
  ASSUME NEW n \in Nat, NEW f, NEW g, Table(f, n), Table(g, n),
         f[0] = g[0], \A k \in 1 .. n : f[k - 1] = g[k - 1] => f[k] = g[k]
  PROVE  f = g
<1> DEFINE T == {k \in 0 .. n : f[k] # g[k]}
<1>1. CASE T = {}
  <2>1. \A k \in 0 .. n : f[k] = g[k]
    BY <1>1
  <2> QED BY <2>1 DEF Table
<1>2. CASE T # {}
  <2>1. PICK k \in T : \A l \in T : k <= l
    <3> HIDE DEF T
    <3>1. T \in SUBSET Nat
      BY DEF T
    <3> QED BY <1>2, <3>1, LeastNumber
  <2>2. k \in 1 .. n /\ k - 1 \in 0 .. n /\ ~ (k <= k - 1)
    BY <2>1
  <2>3. k - 1 \notin T
    <3> HIDE DEF T
    <3> QED BY <2>1, <2>2
  <2> QED BY <2>1, <2>2, <2>3
<1> QED BY <1>1, <1>2

-----------------------------------------------------------------------------
(* What is written of the values of slots.                                 *)
Slots == {"vector", "number"}

LEMMA Joined ==
  ASSUME NEW S, NEW s \in Seq(S), NEW r \in Seq(S)
  PROVE  /\ s \o r \in Seq(S) /\ Len(s \o r) = Len(s) + Len(r) /\ Len(s) \in Nat /\ Len(r) \in Nat
         /\ \A i \in 1 .. Len(s) : (s \o r)[i] = s[i]
         /\ \A i \in 1 .. Len(r) : (s \o r)[Len(s) + i] = r[i]
OBVIOUS

LEMMA JoinedThrice ==
  ASSUME NEW S, NEW a \in Seq(S), NEW b \in Seq(S), NEW c \in Seq(S), NEW d, d = a \o b \o c
  PROVE  d \in Seq(S) /\ Len(d) = Len(a) + Len(b) + Len(c)
<1>1. PICK g : g = a \o b
  OBVIOUS
<1>2. g \in Seq(S) /\ Len(g) = Len(a) + Len(b)
  BY <1>1, Joined
<1>3. g \o c \in Seq(S) /\ Len(g \o c) = Len(g) + Len(c)
  BY <1>2, Joined
<1> QED BY <1>1, <1>2, <1>3

LEMMA SlotsAre ==
  /\ ForeSlots \in Seq(Slots) /\ AftSlots \in Seq(Slots)
  /\ Len(ForeSlots) \in Nat \ {0} /\ Len(AftSlots) \in Nat \ {0}
<1>1. BitVectorSlots \in Seq(Slots) /\ FlatVectorSlots \in Seq(Slots) /\ Len(BitVectorSlots) = 6
  BY DEF BitVectorSlots, FlatVectorSlots, Slots
<1>2. <<"vector">> \in Seq(Slots) /\ AftSlots \in Seq(Slots) /\ Len(AftSlots) = 3
  BY DEF AftSlots, Slots
<1>3. TailSlots \in Seq(Slots)
  BY <1>1, <1>2 DEF TailSlots
<1>4. PICK a, b, c, e : a = BitVectorSlots /\ b = <<"vector">> /\ c = FlatVectorSlots /\ e = TailSlots
  OBVIOUS
<1>5. ForeSlots = a \o a \o a \o b \o c \o c \o e
  BY <1>4 DEF ForeSlots
<1>6. Len(a) = 6 /\ a \in Seq(Slots)
  BY <1>1, <1>4
<1>7. b \in Seq(Slots) /\ c \in Seq(Slots) /\ e \in Seq(Slots)
  BY <1>1, <1>2, <1>3, <1>4
<1>8. PICK g : g = a \o a \o a
  OBVIOUS
<1>9. g \in Seq(Slots) /\ Len(g) = Len(a) + Len(a) + Len(a)
  <2>1. a \in Seq(Slots)
    BY <1>6
  <2> QED BY <1>8, <2>1, JoinedThrice
<1>10. PICK h : h = g \o b \o c
  OBVIOUS
<1>11. h \in Seq(Slots) /\ Len(h) = Len(g) + Len(b) + Len(c)
  <2>1. g \in Seq(Slots)
    BY <1>9
  <2> QED BY <1>7, <1>10, <2>1, JoinedThrice
<1>12. PICK i : i = h \o c \o e
  OBVIOUS
<1>13. i \in Seq(Slots) /\ Len(i) = Len(h) + Len(c) + Len(e)
  <2>1. h \in Seq(Slots)
    BY <1>11
  <2> QED BY <1>7, <1>12, <2>1, JoinedThrice
<1>14. ForeSlots = i
  BY <1>5, <1>8, <1>10, <1>12
<1>15. Len(i) \in Nat \ {0}
  <2>1. Len(b) \in Nat /\ Len(c) \in Nat /\ Len(e) \in Nat
    BY <1>7, LenNat
  <2> QED BY <1>6, <1>9, <1>11, <1>13, <2>1
<1> QED BY <1>2, <1>13, <1>14, <1>15

LEMMA SlotItemsAre ==
  ASSUME NEW slot, NEW value \in Nat
  PROVE  SlotItems(slot, value) \in Seq(Nat)
BY DEF SlotItems

ItemsLoop(f, slots, vals) ==
  f = [n \in 0 .. Len(slots) |-> IF n = 0 THEN << >> ELSE f[n - 1] \o SlotItems(slots[n], vals[n])]

LEMMA ItemsLoopExists ==
  ASSUME NEW slots \in Seq(Slots), NEW vals \in [1 .. Len(slots) -> Nat]
  PROVE  \E f \in [0 .. Len(slots) -> Seq(Nat)] : ItemsLoop(f, slots, vals)
<1> DEFINE S == Seq(Nat)
           turn == [x \in (1 .. Len(slots)) \X S |-> x[2] \o SlotItems(slots[x[1]], vals[x[1]])]
<1>1. turn \in [(1 .. Len(slots)) \X S -> S]
  <2>1. ASSUME NEW k \in 1 .. Len(slots), NEW s \in S PROVE s \o SlotItems(slots[k], vals[k]) \in S
    <3>1. SlotItems(slots[k], vals[k]) \in Seq(Nat)
      BY SlotItemsAre
    <3> QED BY <3>1
  <2> QED BY <2>1
<1>2. PICK f \in [0 .. Len(slots) -> S] : Loop(f, Len(slots), << >>, turn)
  <2>1. PICK n, first : n = Len(slots) /\ first = << >>
    OBVIOUS
  <2>2. first \in S /\ n \in Nat
    BY <2>1
  <2> HIDE DEF turn, S
  <2>3. turn \in [(1 .. n) \X S -> S]
    BY <1>1, <2>1
  <2>4. \E f \in [0 .. n -> S] : Loop(f, n, first, turn)
    BY <2>2, <2>3, LoopExists
  <2> QED BY <2>1, <2>4
<1>3. ASSUME NEW k \in 0 .. Len(slots), k # 0
      PROVE  turn[<<k, f[k - 1]>>] = f[k - 1] \o SlotItems(slots[k], vals[k])
  <2>1. k \in 1 .. Len(slots) /\ k - 1 \in 0 .. Len(slots)
    BY <1>3
  <2>2. f[k - 1] \in S
    BY <2>1
  <2> QED BY <2>1, <2>2
<1>4. f = [k \in 0 .. Len(slots) |-> IF k = 0 THEN << >> ELSE f[k - 1] \o SlotItems(slots[k], vals[k])]
  <2> HIDE DEF turn, S
  <2> QED BY <1>2, <1>3 DEF Loop
<1> QED BY <1>4 DEF ItemsLoop

LEMMA ItemsAre ==
  ASSUME NEW slots \in Seq(Slots), NEW vals \in [1 .. Len(slots) -> Nat]
  PROVE  \E f \in [0 .. Len(slots) -> Seq(Nat)] :
           ItemsLoop(f, slots, vals) /\ Items(slots, vals) = f[Len(slots)]
<1> DEFINE f == CHOOSE g : ItemsLoop(g, slots, vals)
<1>1. \E g : ItemsLoop(g, slots, vals)
  BY ItemsLoopExists
<1>2. ItemsLoop(f, slots, vals)
  BY <1>1
<1>3. Items(slots, vals) = f[Len(slots)]
  BY Zenon DEF Items, ItemsLoop
<1> HIDE DEF f
<1>4. PICK g \in [0 .. Len(slots) -> Seq(Nat)] : ItemsLoop(g, slots, vals)
  BY ItemsLoopExists
<1>5. f = g
  <2>1. PICK n : n = Len(slots) /\ n \in Nat
    BY LenNat
  <2>2. Table(f, n) /\ Table(g, n)
    BY <1>2, <1>4, <2>1 DEF ItemsLoop, Table
  <2>3. f[0] = g[0]
    BY <1>2, <1>4, <2>1 DEF ItemsLoop
  <2>4. ASSUME NEW k \in 1 .. n, f[k - 1] = g[k - 1] PROVE f[k] = g[k]
    <3>1. k \in 0 .. Len(slots) /\ k # 0
      BY <2>1
    <3>2. f[k] = f[k - 1] \o SlotItems(slots[k], vals[k])
      BY <1>2, <3>1 DEF ItemsLoop
    <3>3. g[k] = g[k - 1] \o SlotItems(slots[k], vals[k])
      BY <1>4, <3>1 DEF ItemsLoop
    <3> QED BY <2>4, <3>2, <3>3
  <2> QED BY <2>1, <2>2, <2>3, <2>4, LoopsAgree
<1> QED BY <1>2, <1>3, <1>4, <1>5

-----------------------------------------------------------------------------
(* A reading of slots.                                                     *)
Read == [values : Seq(Nat), pos : Nat \ {0}, ok : BOOLEAN]

(* What stands in a file from a position on.                               *)
Agrees(F, p, s) == \A i \in 1 .. Len(s) : p + i - 1 <= Len(F) => F[p + i - 1] = s[i]

FitsAt(F, p, s) == p + Len(s) - 1 <= Len(F)

LEMMA ReadSlotIs ==
  ASSUME NEW F \in Seq(Nat), NEW r \in Read, NEW slot
  PROVE  LET o == ReadSlot(r, F, slot) IN
         /\ o \in Read
         /\ o.ok => /\ r.ok /\ r.pos < o.pos /\ o.pos <= Len(F) + 1
                    /\ Len(o.values) = Len(r.values) + 1
                    /\ \A i \in 1 .. Len(r.values) : o.values[i] = r.values[i]
<1>1. PICK v, p, k : v = r.values /\ p = r.pos /\ k = r.ok
  OBVIOUS
<1>2. v \in Seq(Nat) /\ p \in Nat \ {0} /\ k \in BOOLEAN /\ r = [values |-> v, pos |-> p, ok |-> k]
  BY <1>1 DEF Read
<1> DEFINE full == slot = "vector" /\ p <= Len(F) /\ F[p] # 0
           at == IF full THEN p + 1 ELSE p
<1>3. at \in Nat \ {0} /\ p <= at
  BY <1>2
<1>4. Len(F) \in Nat
  BY LenNat
<1>5. ReadSlot(r, F, slot) = IF k /\ at <= Len(F)
                             THEN [values |-> Append(v, F[at]), pos |-> at + 1, ok |-> TRUE]
                             ELSE [values |-> v, pos |-> p, ok |-> FALSE]
  BY <1>1, <1>2 DEF ReadSlot
<1> HIDE DEF at
<1>6. CASE k /\ at <= Len(F)
  <2>1. F[at] \in Nat
    BY <1>3, <1>6
  <2>2. PICK w : w = Append(v, F[at])
    OBVIOUS
  <2>3. w \in Seq(Nat) /\ Len(w) = Len(v) + 1 /\ \A i \in 1 .. Len(v) : w[i] = v[i]
    BY <1>2, <2>1, <2>2
  <2>4. PICK o : o = ReadSlot(r, F, slot)
    OBVIOUS
  <2>5. o = [values |-> w, pos |-> at + 1, ok |-> TRUE]
    BY <1>5, <1>6, <2>2, <2>4
  <2>6. o.values = w /\ o.pos = at + 1 /\ o.ok = TRUE
    BY <2>5
  <2>7. at + 1 \in Nat \ {0} /\ p < at + 1 /\ at + 1 <= Len(F) + 1
    BY <1>2, <1>3, <1>4, <1>6
  <2>8. o \in Read
    BY <2>3, <2>5, <2>7 DEF Read
  <2> QED BY <1>1, <1>6, <2>3, <2>4, <2>6, <2>7, <2>8
<1>7. CASE ~ (k /\ at <= Len(F))
  <2>1. PICK o : o = ReadSlot(r, F, slot)
    OBVIOUS
  <2>2. o = [values |-> v, pos |-> p, ok |-> FALSE]
    BY <1>5, <1>7, <2>1
  <2>3. o \in Read /\ ~ o.ok
    BY <1>2, <2>2 DEF Read
  <2> QED BY <2>1, <2>3
<1> QED BY <1>6, <1>7

(* Reading a slot gives back what was written there, or fails.             *)
LEMMA SlotRead ==
  ASSUME NEW F \in Seq(Nat), NEW r \in Read, NEW slot \in Slots, NEW value \in Nat, r.ok,
         Agrees(F, r.pos, SlotItems(slot, value))
  PROVE  LET o == ReadSlot(r, F, slot)
             s == SlotItems(slot, value)
         IN  IF FitsAt(F, r.pos, s) THEN o.ok /\ o.pos = r.pos + Len(s) /\ o.values = Append(r.values, value)
             ELSE ~ o.ok
<1>1. PICK v, p : v = r.values /\ p = r.pos
  OBVIOUS
<1>2. v \in Seq(Nat) /\ p \in Nat \ {0} /\ r = [values |-> v, pos |-> p, ok |-> TRUE] /\ Len(F) \in Nat
  BY <1>1 DEF Read
<1>3. PICK s : s = SlotItems(slot, value)
  OBVIOUS
<1> DEFINE full == slot = "vector" /\ p <= Len(F) /\ F[p] # 0
           at == IF full THEN p + 1 ELSE p
<1>4. PICK o : o = ReadSlot(r, F, slot)
  OBVIOUS
<1>5. o = IF at <= Len(F) THEN [values |-> Append(v, F[at]), pos |-> at + 1, ok |-> TRUE]
          ELSE [values |-> v, pos |-> p, ok |-> FALSE]
  BY <1>1, <1>2, <1>4 DEF ReadSlot
<1>6. at \in Nat \ {0}
  BY <1>2
<1>7. CASE slot # "number" /\ value # 0
  <2>1. s = <<1, value>> /\ Len(s) = 2 /\ s[1] = 1 /\ s[2] = value /\ slot = "vector"
    BY <1>3, <1>7 DEF SlotItems, Slots
  <2>2. CASE p + 1 <= Len(F)
    <3>1. F[p] = 1 /\ F[p + 1] = value
      <4>1. Agrees(F, p, s)
        BY <1>1, <1>3
      <4>2. 1 \in 1 .. Len(s) /\ 2 \in 1 .. Len(s) /\ p + 1 - 1 = p /\ p + 2 - 1 = p + 1 /\ p <= Len(F)
        BY <1>2, <2>1, <2>2
      <4> QED BY <2>1, <2>2, <4>1, <4>2 DEF Agrees
    <3>2. at = p + 1
      BY <1>2, <2>1, <2>2, <3>1
    <3> HIDE DEF at
    <3>3. o = [values |-> Append(v, value), pos |-> p + 1 + 1, ok |-> TRUE]
      BY <1>5, <2>2, <3>1, <3>2
    <3>4. o.values = Append(v, value) /\ o.pos = p + 2 /\ o.ok
      BY <1>2, <3>3
    <3>5. FitsAt(F, p, s)
      BY <1>2, <2>1, <2>2 DEF FitsAt
    <3> QED BY <1>1, <1>3, <1>4, <2>1, <3>4, <3>5
  <2>3. CASE ~ (p + 1 <= Len(F))
    <3>1. ~ (at <= Len(F))
      <4>1. CASE p <= Len(F)
        <5>1. F[p] = 1
          <6>1. Agrees(F, p, s) /\ 1 \in 1 .. Len(s) /\ p + 1 - 1 = p
            BY <1>1, <1>2, <1>3, <2>1
          <6> QED BY <2>1, <4>1, <6>1 DEF Agrees
        <5> QED BY <1>2, <2>1, <2>3, <4>1, <5>1
      <4>2. CASE ~ (p <= Len(F))
        BY <1>2, <2>3, <4>2
      <4> QED BY <4>1, <4>2
    <3> HIDE DEF at
    <3>2. ~ o.ok
      BY <1>5, <3>1
    <3>3. ~ FitsAt(F, p, s)
      BY <1>2, <2>1, <2>3 DEF FitsAt
    <3> QED BY <1>1, <1>3, <1>4, <3>2, <3>3
  <2> QED BY <2>2, <2>3
<1>8. CASE ~ (slot # "number" /\ value # 0)
  <2>1. s = <<value>> /\ Len(s) = 1 /\ s[1] = value
    BY <1>3, <1>8 DEF SlotItems
  <2>2. CASE p <= Len(F)
    <3>1. F[p] = value
      <4>1. Agrees(F, p, s) /\ 1 \in 1 .. Len(s) /\ p + 1 - 1 = p
        BY <1>1, <1>2, <1>3, <2>1
      <4> QED BY <2>1, <2>2, <4>1 DEF Agrees
    <3>2. at = p
      BY <1>8, <3>1
    <3> HIDE DEF at
    <3>3. o = [values |-> Append(v, value), pos |-> p + 1, ok |-> TRUE]
      BY <1>5, <2>2, <3>1, <3>2
    <3>4. o.values = Append(v, value) /\ o.pos = p + 1 /\ o.ok
      BY <3>3
    <3>5. FitsAt(F, p, s)
      BY <1>2, <2>1, <2>2 DEF FitsAt
    <3> QED BY <1>1, <1>3, <1>4, <2>1, <3>4, <3>5
  <2>3. CASE ~ (p <= Len(F))
    <3>1. ~ (at <= Len(F))
      BY <1>2, <2>3
    <3> HIDE DEF at
    <3>2. ~ o.ok
      BY <1>5, <3>1
    <3>3. ~ FitsAt(F, p, s)
      BY <1>2, <2>1, <2>3 DEF FitsAt
    <3> QED BY <1>1, <1>3, <1>4, <3>2, <3>3
  <2> QED BY <2>2, <2>3
<1> QED BY <1>7, <1>8

ReadLoop(f, F, slots, pos, ok) ==
  f = [n \in 0 .. Len(slots) |-> IF n = 0 THEN Reading(pos, ok) ELSE ReadSlot(f[n - 1], F, slots[n])]

LEMMA ReadLoopExists ==
  ASSUME NEW F \in Seq(Nat), NEW slots \in Seq(Slots), NEW pos \in Nat \ {0}, NEW ok \in BOOLEAN
  PROVE  \E f \in [0 .. Len(slots) -> Read] : ReadLoop(f, F, slots, pos, ok)
<1> DEFINE turn == [x \in (1 .. Len(slots)) \X Read |-> ReadSlot(x[2], F, slots[x[1]])]
<1>1. turn \in [(1 .. Len(slots)) \X Read -> Read]
  <2>1. ASSUME NEW k \in 1 .. Len(slots), NEW r \in Read PROVE ReadSlot(r, F, slots[k]) \in Read
    <3>1. PICK slot : slot = slots[k]
      OBVIOUS
    <3>2. ReadSlot(r, F, slot) \in Read
      BY ReadSlotIs
    <3> QED BY <3>1, <3>2
  <2> QED BY <2>1
<1>2. PICK f \in [0 .. Len(slots) -> Read] : Loop(f, Len(slots), Reading(pos, ok), turn)
  <2>1. PICK n, first : n = Len(slots) /\ first = Reading(pos, ok)
    OBVIOUS
  <2>2. first \in Read /\ n \in Nat
    BY <2>1 DEF Reading, Read
  <2> HIDE DEF turn
  <2>3. turn \in [(1 .. n) \X Read -> Read]
    BY <1>1, <2>1
  <2>4. \E f \in [0 .. n -> Read] : Loop(f, n, first, turn)
    BY <2>2, <2>3, LoopExists
  <2> QED BY <2>1, <2>4
<1>3. ASSUME NEW k \in 0 .. Len(slots), k # 0
      PROVE  turn[<<k, f[k - 1]>>] = ReadSlot(f[k - 1], F, slots[k])
  <2>1. k \in 1 .. Len(slots) /\ k - 1 \in 0 .. Len(slots)
    BY <1>3
  <2>2. f[k - 1] \in Read
    BY <2>1
  <2> QED BY <2>1, <2>2
<1>4. f = [k \in 0 .. Len(slots) |-> IF k = 0 THEN Reading(pos, ok) ELSE ReadSlot(f[k - 1], F, slots[k])]
  <2> HIDE DEF turn
  <2> QED BY <1>2, <1>3 DEF Loop
<1> QED BY <1>4 DEF ReadLoop

LEMMA ReadSlotsAre ==
  ASSUME NEW F \in Seq(Nat), NEW slots \in Seq(Slots), NEW pos \in Nat \ {0}, NEW ok \in BOOLEAN
  PROVE  \E f \in [0 .. Len(slots) -> Read] :
           ReadLoop(f, F, slots, pos, ok) /\ ReadSlots(F, slots, pos, ok) = f[Len(slots)]
<1> DEFINE f == CHOOSE g : ReadLoop(g, F, slots, pos, ok)
<1>1. \E g : ReadLoop(g, F, slots, pos, ok)
  BY ReadLoopExists
<1>2. ReadLoop(f, F, slots, pos, ok)
  BY <1>1
<1>3. ReadSlots(F, slots, pos, ok) = f[Len(slots)]
  BY Zenon DEF ReadSlots, ReadLoop
<1> HIDE DEF f
<1>4. PICK g \in [0 .. Len(slots) -> Read] : ReadLoop(g, F, slots, pos, ok)
  BY ReadLoopExists
<1>5. f = g
  <2>1. PICK n : n = Len(slots) /\ n \in Nat
    BY LenNat
  <2>2. Table(f, n) /\ Table(g, n)
    BY <1>2, <1>4, <2>1 DEF ReadLoop, Table
  <2>3. f[0] = g[0]
    BY <1>2, <1>4, <2>1 DEF ReadLoop
  <2>4. ASSUME NEW k \in 1 .. n, f[k - 1] = g[k - 1] PROVE f[k] = g[k]
    <3>1. k \in 0 .. Len(slots) /\ k # 0
      BY <2>1
    <3>2. f[k] = ReadSlot(f[k - 1], F, slots[k])
      BY <1>2, <3>1 DEF ReadLoop
    <3>3. g[k] = ReadSlot(g[k - 1], F, slots[k])
      BY <1>4, <3>1 DEF ReadLoop
    <3> QED BY <2>4, <3>2, <3>3
  <2> QED BY <2>1, <2>2, <2>3, <2>4, LoopsAgree
<1> QED BY <1>2, <1>3, <1>4, <1>5

-----------------------------------------------------------------------------
(* A part of what agrees agrees.                                           *)
Joint(w, s, r) == w = s \o r

LEMMA AgreesPart ==
  ASSUME NEW F \in Seq(Nat), NEW p \in Nat \ {0}, NEW s \in Seq(Nat), NEW r \in Seq(Nat), NEW w, Joint(w, s, r),
         Agrees(F, p, w)
  PROVE  /\ Agrees(F, p, s) /\ Agrees(F, p + Len(s), r)
         /\ FitsAt(F, p, w) <=> FitsAt(F, p + Len(s), r) /\ FitsAt(F, p, s)
         /\ Len(w) = Len(s) + Len(r) /\ Len(s) \in Nat /\ Len(r) \in Nat
         /\ p + Len(s) \in Nat \ {0} /\ w \in Seq(Nat)
<1>1. /\ w \in Seq(Nat) /\ Len(w) = Len(s) + Len(r) /\ Len(s) \in Nat /\ Len(r) \in Nat /\ Len(F) \in Nat
      /\ \A i \in 1 .. Len(s) : w[i] = s[i]
      /\ \A i \in 1 .. Len(r) : w[Len(s) + i] = r[i]
  BY Joined, LenNat DEF Joint
<1>2. PICK m, n, l : m = Len(s) /\ n = Len(r) /\ l = Len(F)
  OBVIOUS
<1>3. Agrees(F, p, s)
  <2> SUFFICES ASSUME NEW i \in 1 .. Len(s), p + i - 1 <= Len(F) PROVE F[p + i - 1] = s[i]
    BY DEF Agrees
  <2>1. i \in 1 .. Len(w)
    BY <1>1
  <2> QED BY <1>1, <2>1 DEF Agrees
<1>4. Agrees(F, p + Len(s), r)
  <2> SUFFICES ASSUME NEW i \in 1 .. n, p + m + i - 1 <= l PROVE F[p + m + i - 1] = r[i]
    BY <1>2 DEF Agrees
  <2>1. m + i \in 1 .. Len(w) /\ p + (m + i) - 1 = p + m + i - 1 /\ m \in Nat
    <3>1. m \in Nat /\ n \in Nat /\ Len(w) = m + n
      BY <1>1, <1>2
    <3> QED BY <3>1
  <2>2. F[p + (m + i) - 1] = w[m + i]
    BY <1>2, <2>1 DEF Agrees
  <2> QED BY <1>1, <1>2, <2>1, <2>2
<1>5. FitsAt(F, p, w) <=> FitsAt(F, p + Len(s), r) /\ FitsAt(F, p, s)
  <2>1. p + (m + n) - 1 <= l <=> p + m + n - 1 <= l /\ p + m - 1 <= l
    BY <1>1, <1>2
  <2> QED BY <1>1, <1>2, <2>1 DEF FitsAt
<1>6. p + Len(s) \in Nat \ {0}
  BY <1>1
<1> QED BY <1>1, <1>3, <1>4, <1>5, <1>6

LEMMA LeastCase ==
  ASSUME NEW n \in Nat, NEW T, T \subseteq 0 .. n, 0 \notin T, T # {}
  PROVE  \E k \in T : k \in 1 .. n /\ k - 1 \in 0 .. n /\ k - 1 \notin T
<1>1. PICK k \in T : \A l \in T : k <= l
  <2>1. T \in SUBSET Nat
    OBVIOUS
  <2> QED BY <2>1, LeastNumber
<1>2. k \in 1 .. n /\ k - 1 \in 0 .. n /\ ~ (k <= k - 1)
  BY <1>1
<1> QED BY <1>1, <1>2

(* What reading slots gives, of whatever file.                             *)
LEMMA ReadSlotsSound ==
  ASSUME NEW F \in Seq(Nat), NEW slots \in Seq(Slots), NEW pos \in Nat \ {0}, NEW ok \in BOOLEAN,
         Len(slots) # 0
  PROVE  LET o == ReadSlots(F, slots, pos, ok) IN
         /\ o \in Read
         /\ o.ok => /\ ok /\ pos < o.pos /\ o.pos <= Len(F) + 1 /\ Len(o.values) = Len(slots)
<1>1. PICK f \in [0 .. Len(slots) -> Read] :
        ReadLoop(f, F, slots, pos, ok) /\ ReadSlots(F, slots, pos, ok) = f[Len(slots)]
  BY ReadSlotsAre
<1>2. PICK n : n = Len(slots) /\ n \in Nat
  BY LenNat
<1> DEFINE T == {k \in 0 .. n : ~ (f[k].ok => /\ ok /\ pos + k <= f[k].pos /\ (k # 0 => f[k].pos <= Len(F) + 1)
                                              /\ Len(f[k].values) = k)}
<1>3. T = {}
  <2>1. SUFFICES ASSUME T # {} PROVE FALSE
    OBVIOUS
  <2>2. 0 \notin T
    <3>1. f[0] = Reading(pos, ok)
      BY <1>1, <1>2 DEF ReadLoop
    <3>2. f[0].ok = ok /\ f[0].pos = pos /\ Len(f[0].values) = 0
      BY <3>1 DEF Reading
    <3> QED BY <3>2
  <2>3. PICK k \in T : k \in 1 .. n /\ k - 1 \in 0 .. n /\ k - 1 \notin T
    <3> HIDE DEF T
    <3>1. T \subseteq 0 .. n
      BY DEF T
    <3> QED BY <1>2, <2>1, <2>2, <3>1, LeastCase
  <2>4. PICK r, o, slot : r = f[k - 1] /\ o = f[k] /\ slot = slots[k]
    OBVIOUS
  <2>5. o = ReadSlot(r, F, slot)
    <3>1. k \in 0 .. Len(slots) /\ k # 0
      BY <1>2, <2>3
    <3> QED BY <1>1, <2>4, <3>1 DEF ReadLoop
  <2>6. r \in Read
    BY <1>2, <2>3, <2>4
  <2>7. /\ o \in Read
        /\ o.ok => r.ok /\ r.pos < o.pos /\ o.pos <= Len(F) + 1 /\ Len(o.values) = Len(r.values) + 1
    BY <2>5, <2>6, ReadSlotIs
  <2>8. r.ok => ok /\ pos + (k - 1) <= r.pos /\ Len(r.values) = k - 1
    BY <2>3, <2>4
  <2>9. ~ (o.ok => /\ ok /\ pos + k <= o.pos /\ o.pos <= Len(F) + 1 /\ Len(o.values) = k)
    BY <2>3, <2>4
  <2>10. r.pos \in Nat /\ o.pos \in Nat /\ Len(F) \in Nat /\ k \in Nat
    BY <2>3, <2>6, <2>7, LenNat DEF Read
  <2> HIDE DEF T
  <2> QED BY <2>7, <2>8, <2>9, <2>10
<1>4. n \notin T /\ n \in 0 .. n /\ n # 0
  <2> HIDE DEF T
  <2> QED BY <1>2, <1>3
<1>5. PICK o : o = f[n]
  OBVIOUS
<1>6. /\ o \in Read
      /\ o.ok => /\ ok /\ pos + n <= o.pos /\ o.pos <= Len(F) + 1 /\ Len(o.values) = n
  BY <1>2, <1>4, <1>5
<1>7. o.pos \in Nat
  BY <1>6 DEF Read
<1> QED BY <1>1, <1>2, <1>4, <1>5, <1>6, <1>7

(* Reading slots gives back what was written of them, or fails.            *)
LEMMA SlotsRead ==
  ASSUME NEW F \in Seq(Nat), NEW slots \in Seq(Slots), NEW vals \in [1 .. Len(slots) -> Nat],
         NEW pos \in Nat \ {0}, pos <= Len(F) + 1, Agrees(F, pos, Items(slots, vals))
  PROVE  LET o == ReadSlots(F, slots, pos, TRUE)
             s == Items(slots, vals)
         IN  IF FitsAt(F, pos, s) THEN o.ok /\ o.pos = pos + Len(s) /\ o.values = vals
             ELSE ~ o.ok
<1>1. PICK f \in [0 .. Len(slots) -> Read] :
        ReadLoop(f, F, slots, pos, TRUE) /\ ReadSlots(F, slots, pos, TRUE) = f[Len(slots)]
  BY ReadSlotsAre
<1>2. PICK g \in [0 .. Len(slots) -> Seq(Nat)] :
        ItemsLoop(g, slots, vals) /\ Items(slots, vals) = g[Len(slots)]
  BY ItemsAre
<1>3. PICK n : n = Len(slots) /\ n \in Nat
  BY LenNat
<1> DEFINE Good(k) ==
             Agrees(F, pos, g[k]) =>
               IF FitsAt(F, pos, g[k])
               THEN /\ f[k].ok /\ f[k].pos = pos + Len(g[k]) /\ Len(f[k].values) = k
                    /\ \A i \in 1 .. k : f[k].values[i] = vals[i]
               ELSE ~ f[k].ok
           T == {k \in 0 .. n : ~ Good(k)}
<1>4. T = {}
  <2>1. SUFFICES ASSUME T # {} PROVE FALSE
    OBVIOUS
  <2>2. CASE 0 \in T
    <3>1. f[0] = Reading(pos, TRUE) /\ g[0] = << >>
      BY <1>1, <1>2, <1>3 DEF ReadLoop, ItemsLoop
    <3>2. f[0].ok /\ f[0].pos = pos /\ Len(f[0].values) = 0 /\ Len(g[0]) = 0
      BY <3>1 DEF Reading
    <3>3. Good(0)
      <4>1. pos + 0 = pos
        OBVIOUS
      <4>2. CASE FitsAt(F, pos, g[0])
        BY <3>2, <4>1, <4>2
      <4>3. FitsAt(F, pos, g[0])
        <5>1. pos + 0 - 1 <= Len(F)
          BY LenNat
        <5> QED BY <3>2, <5>1 DEF FitsAt
      <4> QED BY <4>2, <4>3
    <3> QED BY <2>2, <3>3
  <2>3. CASE 0 \notin T
    <3>1. PICK k \in T : k \in 1 .. n /\ k - 1 \in 0 .. n /\ k - 1 \notin T
      <4> HIDE DEF T
      <4>1. T \subseteq 0 .. n
        BY DEF T
      <4> QED BY <1>3, <2>1, <2>3, <4>1, LeastCase
    <3>2. Good(k - 1) /\ ~ Good(k)
      BY <3>1
    <3>3. PICK r, o, slot, value, s, w, x :
            /\ r = f[k - 1] /\ o = f[k] /\ slot = slots[k] /\ value = vals[k]
            /\ s = g[k - 1] /\ w = g[k] /\ x = SlotItems(slot, value)
      OBVIOUS
    <3>4. o = ReadSlot(r, F, slot) /\ w = s \o x
      <4>1. k \in 0 .. Len(slots) /\ k # 0
        BY <1>3, <3>1
      <4>2. o = ReadSlot(r, F, slot)
        BY <1>1, <3>3, <4>1 DEF ReadLoop
      <4>3. w = s \o x
        BY <1>2, <3>3, <4>1 DEF ItemsLoop
      <4> QED BY <4>2, <4>3
    <3>5. r \in Read /\ s \in Seq(Nat) /\ value \in Nat /\ slot \in Slots
      <4>1. k \in 1 .. Len(slots) /\ k - 1 \in 0 .. Len(slots)
        BY <1>3, <3>1
      <4>2. r \in Read /\ s \in Seq(Nat)
        BY <3>3, <4>1
      <4>3. value \in Nat /\ slot \in Slots
        BY SMTT(30), <3>3, <4>1
      <4> QED BY <4>2, <4>3
    <3>6. x \in Seq(Nat)
      BY <3>3, <3>5, SlotItemsAre
    <3>7. Agrees(F, pos, w) /\ Joint(w, s, x)
      BY <3>2, <3>3, <3>4 DEF Joint
    <3>8. /\ Agrees(F, pos, s) /\ Agrees(F, pos + Len(s), x)
          /\ FitsAt(F, pos, w) <=> FitsAt(F, pos + Len(s), x) /\ FitsAt(F, pos, s)
          /\ Len(w) = Len(s) + Len(x) /\ Len(s) \in Nat /\ Len(x) \in Nat
      BY <3>5, <3>6, <3>7, AgreesPart
    <3>9. IF FitsAt(F, pos, s) THEN /\ r.ok /\ r.pos = pos + Len(s) /\ Len(r.values) = k - 1
                                  /\ \A i \in 1 .. k - 1 : r.values[i] = vals[i]
          ELSE ~ r.ok
      BY <3>2, <3>3, <3>8
    <3>10. ~ IF FitsAt(F, pos, w) THEN /\ o.ok /\ o.pos = pos + Len(w) /\ Len(o.values) = k
                                     /\ \A i \in 1 .. k : o.values[i] = vals[i]
             ELSE ~ o.ok
      BY <3>2, <3>3
    <3> HIDE DEF T, Good
    <3>11. CASE ~ FitsAt(F, pos, s)
      <4>1. ~ r.ok
        BY <3>9, <3>11
      <4>2. ~ o.ok
        BY <3>4, <3>5, <4>1, ReadSlotIs
      <4> QED BY <3>8, <3>10, <3>11, <4>2
    <3>12. CASE FitsAt(F, pos, s)
      <4>1. r.ok /\ r.pos = pos + Len(s) /\ Len(r.values) = k - 1 /\ \A i \in 1 .. k - 1 : r.values[i] = vals[i]
        BY <3>9, <3>12
      <4>2. Agrees(F, r.pos, SlotItems(slot, value))
        BY <3>3, <3>8, <4>1
      <4>3. IF FitsAt(F, r.pos, x) THEN o.ok /\ o.pos = r.pos + Len(x) /\ o.values = Append(r.values, value)
            ELSE ~ o.ok
        <5>1. LET q == ReadSlot(r, F, slot)
                  y == SlotItems(slot, value)
              IN  IF FitsAt(F, r.pos, y)
                  THEN q.ok /\ q.pos = r.pos + Len(y) /\ q.values = Append(r.values, value)
                  ELSE ~ q.ok
          BY <3>5, <4>1, <4>2, SlotRead
        <5> QED BY <3>3, <3>4, <5>1
      <4>4. CASE ~ FitsAt(F, r.pos, x)
        BY <3>8, <3>10, <4>1, <4>3, <4>4
      <4>5. CASE FitsAt(F, r.pos, x)
        <5>1. o.ok /\ o.pos = r.pos + Len(x) /\ o.values = Append(r.values, value)
          BY <4>3, <4>5
        <5>2. FitsAt(F, pos, w)
          BY <3>8, <3>12, <4>1, <4>5
        <5>3. o.pos = pos + Len(w)
          BY <3>8, <4>1, <5>1
        <5>4. PICK v, u : v = r.values /\ u = o.values
          OBVIOUS
        <5>5. v \in Seq(Nat) /\ u = Append(v, value) /\ Len(v) = k - 1
          BY <3>5, <4>1, <5>1, <5>4 DEF Read
        <5>6. Len(u) = k /\ \A i \in 1 .. k : u[i] = vals[i]
          <6>1. Len(u) = k /\ u[k] = value /\ \A i \in 1 .. k - 1 : u[i] = v[i]
            BY <3>1, <3>5, <5>5
          <6> QED BY SMTT(30), <3>1, <3>3, <4>1, <5>4, <6>1
        <5> QED BY <3>10, <5>1, <5>2, <5>3, <5>4, <5>6
      <4> QED BY <4>4, <4>5
    <3> QED BY <3>11, <3>12
  <2> QED BY <2>2, <2>3
<1>5. n \in 0 .. n /\ n \notin T
  <2> HIDE DEF T
  <2> QED BY <1>3, <1>4
<1>6. PICK o, s : o = f[n] /\ s = g[n] /\ o \in Read
  <2>1. f[n] \in Read
    BY SMTT(30), <1>3
  <2> HIDE DEF T
  <2> QED BY <2>1
<1>7. IF FitsAt(F, pos, s)
      THEN /\ o.ok /\ o.pos = pos + Len(s) /\ Len(o.values) = n
           /\ \A i \in 1 .. n : o.values[i] = vals[i]
      ELSE ~ o.ok
  <2>1. Agrees(F, pos, g[n])
    BY <1>2, <1>3
  <2>2. Good(n)
    BY <1>5
  <2> QED BY <1>6, <2>1, <2>2
<1> HIDE DEF T, Good
<1>8. FitsAt(F, pos, s) => o.values = vals
  <2> SUFFICES ASSUME FitsAt(F, pos, s) PROVE o.values = vals
    OBVIOUS
  <2>1. PICK u : u = o.values
    OBVIOUS
  <2>2. u \in Seq(Nat) /\ Len(u) = n /\ \A i \in 1 .. n : u[i] = vals[i]
    BY <1>6, <1>7, <2>1 DEF Read
  <2>3. u = vals
    BY <1>3, <2>2
  <2> QED BY <2>1, <2>3
<1> QED BY <1>1, <1>2, <1>3, <1>6, <1>7, <1>8

-----------------------------------------------------------------------------
(* Two functions that are defined alike from the back are the same.        *)
Listed(f, m) == f = [d \in 1 .. m |-> f[d]]

LEMMA BackAgree ==
  ASSUME NEW m \in Nat, NEW f, NEW g, Listed(f, m), Listed(g, m),
         \A d \in 1 .. m : (\A e \in d + 1 .. m : f[e] = g[e]) => f[d] = g[d]
  PROVE  f = g
<1> DEFINE T == {k \in Nat : k < m /\ f[m - k] # g[m - k]}
<1>1. CASE T = {}
  <2>1. \A d \in 1 .. m : f[d] = g[d]
    <3> SUFFICES ASSUME NEW d \in 1 .. m PROVE f[d] = g[d]
      OBVIOUS
    <3>1. PICK k : k = m - d
      OBVIOUS
    <3>2. k \in Nat /\ k < m /\ m - k = d
      BY <3>1
    <3>3. k \notin T
      <4> HIDE DEF T
      <4> QED BY <1>1
    <3> QED BY <3>2, <3>3
  <2> QED BY <2>1 DEF Listed
<1>2. CASE T # {}
  <2>1. PICK k \in T : \A l \in T : k <= l
    <3> HIDE DEF T
    <3>1. T \in SUBSET Nat
      BY DEF T
    <3> QED BY <1>2, <3>1, LeastNumber
  <2>2. PICK d : d = m - k
    OBVIOUS
  <2>3. d \in 1 .. m /\ k \in Nat /\ f[d] # g[d]
    BY <2>1, <2>2
  <2>4. ASSUME NEW e \in d + 1 .. m PROVE f[e] = g[e]
    <3>1. PICK j : j = m - e
      OBVIOUS
    <3>2. j \in Nat /\ j < m /\ j < k /\ m - j = e
      BY <2>2, <2>3, <3>1
    <3>3. j \notin T
      <4>1. ~ (k <= j)
        BY <2>3, <3>2
      <4> HIDE DEF T
      <4> QED BY <2>1, <4>1
    <3> QED BY <3>2, <3>3
  <2> QED BY <2>3, <2>4
<1> QED BY <1>1, <1>2

(* A level, and what is written of it.                                     *)
LEMMA LevelIs ==
  ASSUME NEW l \in Levels
  PROVE  /\ l.fore \in [1 .. Len(ForeSlots) -> Nat] /\ l.aft \in [1 .. Len(AftSlots) -> Nat]
         /\ l = [fore |-> l.fore, aft |-> l.aft]
         /\ Items(ForeSlots, l.fore) \in Seq(Nat) /\ Items(AftSlots, l.aft) \in Seq(Nat)
<1>1. DOMAIN ForeSlots = 1 .. Len(ForeSlots) /\ DOMAIN AftSlots = 1 .. Len(AftSlots)
  BY SlotsAre
<1>2. PICK fore, aft : fore = l.fore /\ aft = l.aft
  OBVIOUS
<1>3. fore \in [1 .. Len(ForeSlots) -> Nat] /\ aft \in [1 .. Len(AftSlots) -> Nat]
      /\ l = [fore |-> fore, aft |-> aft]
  BY <1>1, <1>2 DEF Levels
<1>4. ASSUME NEW slots \in Seq(Slots), NEW vals \in [1 .. Len(slots) -> Nat]
      PROVE Items(slots, vals) \in Seq(Nat)
  <2>1. PICK f \in [0 .. Len(slots) -> Seq(Nat)] : Items(slots, vals) = f[Len(slots)]
    BY ItemsAre
  <2>2. Len(slots) \in 0 .. Len(slots)
    BY LenNat
  <2> QED BY <2>1, <2>2
<1>5. Items(ForeSlots, fore) \in Seq(Nat)
  BY <1>3, <1>4, SlotsAre
<1>6. Items(AftSlots, aft) \in Seq(Nat)
  BY <1>3, <1>4, SlotsAre
<1> QED BY <1>2, <1>3, <1>5, <1>6

ItemsFrom(f, t) ==
  f = [d \in 1 .. Len(t) + 1 |->
         IF d > Len(t) THEN << >> ELSE Items(ForeSlots, t[d].fore) \o f[d + 1] \o Items(AftSlots, t[d].aft)]

LEMMA ItemsFromExists ==
  ASSUME NEW t \in Seq(Levels)
  PROVE  \E f \in [1 .. Len(t) + 1 -> Seq(Nat)] : ItemsFrom(f, t)
<1> DEFINE S == Seq(Nat)
           n == Len(t)
           Between(l, s) == Items(ForeSlots, l.fore) \o s \o Items(AftSlots, l.aft)
           turn == [x \in (1 .. n) \X S |-> Between(t[n + 1 - x[1]], x[2])]
<1>1. n \in Nat
  BY LenNat
<1>2. ASSUME NEW l \in Levels, NEW s \in S PROVE Between(l, s) \in S
  <2>1. Items(ForeSlots, l.fore) \in Seq(Nat) /\ Items(AftSlots, l.aft) \in Seq(Nat)
    BY LevelIs
  <2> QED BY <2>1, JoinedThrice
<1> HIDE DEF Between, n
<1>3. ASSUME NEW k \in 1 .. n, NEW s \in S
      PROVE turn[<<k, s>>] = Between(t[n + 1 - k], s) /\ turn[<<k, s>>] \in S
  <2>1. n + 1 - k \in 1 .. n
    BY <1>1
  <2>2. t[n + 1 - k] \in Levels
    BY <2>1 DEF n
  <2> HIDE DEF S
  <2>3. turn[<<k, s>>] = Between(t[n + 1 - k], s)
    OBVIOUS
  <2> QED BY <1>2, <2>2, <2>3
<1>4. turn \in [(1 .. n) \X S -> S]
  <2> HIDE DEF S
  <2>1. ASSUME NEW x \in (1 .. n) \X S PROVE Between(t[n + 1 - x[1]], x[2]) \in S
    <3>1. PICK k \in 1 .. n, s \in S : x = <<k, s>>
      OBVIOUS
    <3>2. turn[x] \in S
      BY <1>3, <3>1
    <3> QED BY <3>2
  <2> QED BY <2>1
<1>5. PICK f \in [0 .. n -> S] : Loop(f, n, << >>, turn)
  <2>1. << >> \in S
    OBVIOUS
  <2> HIDE DEF turn, S
  <2> QED BY <1>1, <1>4, <2>1, LoopExists
<1>6. f[0] = << >>
  BY <1>1, <1>5 DEF Loop
<1>7. ASSUME NEW k \in 1 .. n PROVE f[k] = Between(t[n + 1 - k], f[k - 1])
  <2>1. k \in 0 .. n /\ k # 0 /\ k - 1 \in 0 .. n
    BY <1>1
  <2>2. f[k] = turn[<<k, f[k - 1]>>] /\ f[k - 1] \in S
    <3> HIDE DEF turn, S
    <3> QED BY <1>5, <2>1 DEF Loop
  <2> HIDE DEF turn, S
  <2> QED BY <1>3, <2>2
<1> DEFINE g == [d \in 1 .. n + 1 |-> f[n + 1 - d]]
<1>8. g \in [1 .. n + 1 -> S]
  <2>1. \A d \in 1 .. n + 1 : n + 1 - d \in 0 .. n
    BY <1>1
  <2> HIDE DEF S, turn
  <2> QED BY <1>5, <2>1
<1>9. ASSUME NEW d \in 1 .. n + 1 PROVE g[d] = IF d > n THEN << >> ELSE Between(t[d], g[d + 1])
  <2>1. CASE d > n
    <3>1. d = n + 1 /\ n + 1 - d = 0
      BY <1>1, <2>1
    <3> QED BY <1>6, <2>1, <3>1
  <2>2. CASE ~ (d > n)
    <3>1. PICK k : k = n + 1 - d
      OBVIOUS
    <3>2. k \in 1 .. n /\ n + 1 - k = d /\ d + 1 \in 1 .. n + 1 /\ n + 1 - (d + 1) = k - 1
      BY <1>1, <2>2, <3>1
    <3>3. g[d] = f[k] /\ g[d + 1] = f[k - 1]
      BY <3>1, <3>2
    <3> HIDE DEF g
    <3> QED BY <1>7, <2>2, <3>2, <3>3
  <2> QED BY <2>1, <2>2
<1>10. g = [d \in 1 .. n + 1 |-> g[d]]
  OBVIOUS
<1> HIDE DEF g
<1>11. g = [d \in 1 .. n + 1 |-> IF d > n THEN << >> ELSE Between(t[d], g[d + 1])]
  BY <1>9, <1>10
<1> QED BY <1>8, <1>11 DEF ItemsFrom, n, Between

LEMMA TrieItemsAre ==
  ASSUME NEW t \in Seq(Levels)
  PROVE  \E f \in [1 .. Len(t) + 1 -> Seq(Nat)] : ItemsFrom(f, t) /\ TrieItems(t) = f[1]
<1> DEFINE f == CHOOSE g : ItemsFrom(g, t)
<1>1. \E g : ItemsFrom(g, t)
  BY ItemsFromExists
<1>2. ItemsFrom(f, t)
  BY <1>1
<1>3. TrieItems(t) = f[1]
  BY Zenon DEF TrieItems, ItemsFrom
<1> HIDE DEF f
<1>4. PICK g \in [1 .. Len(t) + 1 -> Seq(Nat)] : ItemsFrom(g, t)
  BY ItemsFromExists
<1>5. f = g
  <2>1. PICK n, m : n = Len(t) /\ n \in Nat /\ m = n + 1 /\ m \in Nat
    BY LenNat
  <2>2. Listed(f, m) /\ Listed(g, m)
    BY <1>2, <1>4, <2>1 DEF ItemsFrom, Listed
  <2>3. ASSUME NEW d \in 1 .. m, \A e \in d + 1 .. m : f[e] = g[e] PROVE f[d] = g[d]
    <3>1. d \in 1 .. Len(t) + 1
      BY <2>1
    <3>2. f[d] = IF d > Len(t) THEN << >>
                 ELSE Items(ForeSlots, t[d].fore) \o f[d + 1] \o Items(AftSlots, t[d].aft)
      BY <1>2, <3>1 DEF ItemsFrom
    <3>3. g[d] = IF d > Len(t) THEN << >>
                 ELSE Items(ForeSlots, t[d].fore) \o g[d + 1] \o Items(AftSlots, t[d].aft)
      BY <1>4, <3>1 DEF ItemsFrom
    <3>4. CASE d > Len(t)
      BY <3>2, <3>3, <3>4
    <3>5. CASE ~ (d > Len(t))
      <4>1. f[d + 1] = g[d + 1]
        <5>1. d + 1 \in d + 1 .. m
          BY <2>1, <3>5
        <5> QED BY <2>3, <5>1
      <4> QED BY <3>2, <3>3, <3>5, <4>1
    <3> QED BY <3>4, <3>5
  <2> QED BY <2>1, <2>2, <2>3, BackAgree
<1> QED BY <1>2, <1>3, <1>4, <1>5

-----------------------------------------------------------------------------
(* Reading the levels of a trie: one, when what is below it is read.       *)
ReadLevel == [fore : Seq(Nat), aft : Seq(Nat)]

Trail == [levels : Seq(ReadLevel), pos : Nat \ {0}, ok : BOOLEAN]

LevelAt(F, p, below) ==
  LET fore == ReadSlots(F, ForeSlots, p, TRUE)
      next == IF fore.ok /\ NextFollows(fore.values) THEN below
              ELSE [levels |-> << >>, pos |-> fore.pos, ok |-> fore.ok]
      aft == ReadSlots(F, AftSlots, next.pos, next.ok)
  IN  [levels |-> <<[fore |-> fore.values, aft |-> aft.values]>> \o next.levels,
       pos |-> aft.pos, ok |-> aft.ok]

ForeEnd(F, p) == ReadSlots(F, ForeSlots, p, TRUE).pos

Deeper(F, p) ==
  LET fore == ReadSlots(F, ForeSlots, p, TRUE)
  IN  fore.ok /\ NextFollows(fore.values)

LEMMA ForeEndLater ==
  ASSUME NEW F \in Seq(Nat), NEW p \in Nat \ {0}, Deeper(F, p)
  PROVE  ForeEnd(F, p) \in Nat /\ p < ForeEnd(F, p) /\ ForeEnd(F, p) <= Len(F) + 1
<1>1. PICK o : o = ReadSlots(F, ForeSlots, p, TRUE)
  OBVIOUS
<1>2. o \in Read /\ (o.ok => p < o.pos /\ o.pos <= Len(F) + 1)
  BY <1>1, ReadSlotsSound, SlotsAre
<1>3. o.ok /\ o.pos = ForeEnd(F, p)
  BY <1>1 DEF Deeper, ForeEnd
<1>4. o.pos \in Nat
  BY <1>2 DEF Read
<1> QED BY <1>2, <1>3, <1>4

LEMMA LevelAtIs ==
  ASSUME NEW F \in Seq(Nat), NEW p \in Nat \ {0}, NEW below, Deeper(F, p) => below \in Trail
  PROVE  LevelAt(F, p, below) \in Trail
<1>1. PICK fore : fore = ReadSlots(F, ForeSlots, p, TRUE)
  OBVIOUS
<1>2. fore \in Read
  BY <1>1, ReadSlotsSound, SlotsAre
<1>3. PICK next : next = IF fore.ok /\ NextFollows(fore.values) THEN below
                         ELSE [levels |-> << >>, pos |-> fore.pos, ok |-> fore.ok]
  OBVIOUS
<1>4. next \in Trail
  <2>1. CASE fore.ok /\ NextFollows(fore.values)
    BY <1>1, <1>3, <2>1 DEF Deeper
  <2>2. CASE ~ (fore.ok /\ NextFollows(fore.values))
    <3>1. fore.pos \in Nat \ {0} /\ fore.ok \in BOOLEAN
      BY <1>2 DEF Read
    <3>2. << >> \in Seq(ReadLevel)
      OBVIOUS
    <3> QED BY <1>3, <2>2, <3>1, <3>2 DEF Trail
  <2> QED BY <2>1, <2>2
<1>5. PICK ls, q, k : ls = next.levels /\ q = next.pos /\ k = next.ok
  OBVIOUS
<1>6. ls \in Seq(ReadLevel) /\ q \in Nat \ {0} /\ k \in BOOLEAN
  BY <1>4, <1>5 DEF Trail
<1>7. PICK aft : aft = ReadSlots(F, AftSlots, q, k)
  OBVIOUS
<1>8. aft \in Read
  BY <1>6, <1>7, ReadSlotsSound, SlotsAre
<1>9. LevelAt(F, p, below)
        = [levels |-> <<[fore |-> fore.values, aft |-> aft.values]>> \o ls, pos |-> aft.pos, ok |-> aft.ok]
  BY <1>1, <1>3, <1>5, <1>7 DEF LevelAt
<1>10. PICK l : l = [fore |-> fore.values, aft |-> aft.values]
  OBVIOUS
<1>11. l \in ReadLevel /\ aft.pos \in Nat \ {0} /\ aft.ok \in BOOLEAN
  BY <1>2, <1>8, <1>10 DEF Read, ReadLevel
<1>12. PICK ms : ms = <<l>> \o ls
  OBVIOUS
<1>13. ms \in Seq(ReadLevel)
  <2>1. <<l>> \in Seq(ReadLevel)
    BY <1>11
  <2> QED BY <1>6, <1>12, <2>1
<1> QED BY <1>9, <1>10, <1>11, <1>12, <1>13 DEF Trail

LevelLoop(f, F) ==
  f = [p \in 1 .. Len(F) + 1 |->
         LET fore == ReadSlots(F, ForeSlots, p, TRUE)
             next == IF fore.ok /\ NextFollows(fore.values) THEN f[fore.pos]
                     ELSE [levels |-> << >>, pos |-> fore.pos, ok |-> fore.ok]
             aft == ReadSlots(F, AftSlots, next.pos, next.ok)
         IN  [levels |-> <<[fore |-> fore.values, aft |-> aft.values]>> \o next.levels,
              pos |-> aft.pos, ok |-> aft.ok]]

LEMMA LevelLoopIs ==
  ASSUME NEW f, NEW F
  PROVE  LevelLoop(f, F) <=> f = [p \in 1 .. Len(F) + 1 |-> LevelAt(F, p, f[ForeEnd(F, p)])]
BY Zenon DEF LevelLoop, LevelAt, ForeEnd

LEMMA LevelAtSame ==
  ASSUME NEW F, NEW p, NEW below, NEW other, Deeper(F, p) => below = other
  PROVE  LevelAt(F, p, below) = LevelAt(F, p, other)
<1>1. CASE Deeper(F, p)
  BY <1>1
<1>2. CASE ~ Deeper(F, p)
  <2>1. PICK fore : fore = ReadSlots(F, ForeSlots, p, TRUE)
    OBVIOUS
  <2>2. ~ (fore.ok /\ NextFollows(fore.values))
    BY <1>2, <2>1 DEF Deeper
  <2> QED BY <2>1, <2>2 DEF LevelAt
<1> QED BY <1>1, <1>2

LEMMA LevelLoopExists ==
  ASSUME NEW F \in Seq(Nat)
  PROVE  \E f \in [1 .. Len(F) + 1 -> Trail] : LevelLoop(f, F)
<1>1. PICK m : m = Len(F) + 1 /\ m \in Nat \ {0}
  <2>1. Len(F) \in Nat
    BY LenNat
  <2> QED BY <2>1
<1> DEFINE first == [levels |-> << >>, pos |-> 1, ok |-> FALSE]
           step == [x \in Nat \X Trail |-> IF x[1] \in 1 .. m THEN LevelAt(F, m + 1 - x[1], x[2]) ELSE first]
           back == [k \in Nat |-> IF k \in 1 .. m /\ Deeper(F, m + 1 - k)
                                  THEN m + 1 - ForeEnd(F, m + 1 - k) ELSE 0]
<1>2. first \in Trail
  <2>1. << >> \in Seq(ReadLevel)
    OBVIOUS
  <2> QED BY <2>1 DEF Trail
<1> HIDE DEF first
<1>3. step \in [Nat \X Trail -> Trail]
  <2>1. ASSUME NEW k \in Nat, NEW x \in Trail
        PROVE  (IF k \in 1 .. m THEN LevelAt(F, m + 1 - k, x) ELSE first) \in Trail
    <3>1. CASE k \in 1 .. m
      <4>1. m + 1 - k \in Nat \ {0}
        BY <1>1, <3>1
      <4> QED BY <3>1, <4>1, LevelAtIs
    <3>2. CASE k \notin 1 .. m
      BY <1>2, <3>2
    <3> QED BY <3>1, <3>2
  <2> QED BY <2>1
<1>4. ASSUME NEW k \in 1 .. m, Deeper(F, m + 1 - k)
      PROVE  back[k] = m + 1 - ForeEnd(F, m + 1 - k) /\ back[k] \in 1 .. m /\ back[k] < k
             /\ ForeEnd(F, m + 1 - k) \in 1 .. m
  <2>1. m + 1 - k \in Nat \ {0}
    BY <1>1
  <2>2. PICK e : e = ForeEnd(F, m + 1 - k)
    OBVIOUS
  <2>3. e \in Nat /\ m + 1 - k < e /\ e <= m
    BY <1>1, <1>4, <2>1, <2>2, ForeEndLater
  <2>4. back[k] = m + 1 - e
    BY <1>1, <1>4, <2>2
  <2> QED BY SMTT(30), <1>1, <2>2, <2>3, <2>4
<1>5. Falls(back)
  <2>1. ASSUME NEW k \in Nat PROVE back[k] \in Nat /\ (k # 0 => back[k] < k)
    <3>1. CASE k \in 1 .. m /\ Deeper(F, m + 1 - k)
      <4> HIDE DEF back
      <4> QED BY <1>4, <3>1
    <3>2. CASE ~ (k \in 1 .. m /\ Deeper(F, m + 1 - k))
      BY <3>2
    <3> QED BY <3>1, <3>2
  <2>2. back \in [Nat -> Nat]
    <3>1. back = [k \in Nat |-> back[k]]
      OBVIOUS
    <3> HIDE DEF back
    <3> QED BY <2>1, <3>1
  <2> HIDE DEF back
  <2> QED BY <2>1, <2>2 DEF Falls
<1>6. PICK h : Follows(h, Trail, first, step, back)
  <2> HIDE DEF step, back
  <2> QED BY <1>2, <1>3, <1>5, RecursionExists
<1>7. ASSUME NEW k \in 1 .. m PROVE h[k] = LevelAt(F, m + 1 - k, h[back[k]])
  <2>1. k \in Nat \ {0} /\ h[back[k]] \in Trail
    <3>1. k \in Nat \ {0}
      BY <1>1
    <3>2. back[k] \in Nat
      <4> HIDE DEF back
      <4> QED BY <1>5, <3>1 DEF Falls
    <3> HIDE DEF step, back
    <3> QED BY <1>6, <3>1, <3>2 DEF Follows
  <2>2. h[k] = step[<<k, h[back[k]]>>]
    <3> HIDE DEF step, back
    <3> QED BY <1>6, <2>1 DEF Follows
  <2>3. step[<<k, h[back[k]]>>] = LevelAt(F, m + 1 - k, h[back[k]])
    <3>1. PICK x : x = h[back[k]]
      OBVIOUS
    <3>2. step[<<k, x>>] = LevelAt(F, m + 1 - k, x)
      BY <2>1, <3>1
    <3> HIDE DEF step, back
    <3> QED BY <3>1, <3>2
  <2> HIDE DEF step, back
  <2> QED BY <2>2, <2>3
<1> DEFINE g == [p \in 1 .. m |-> h[m + 1 - p]]
<1>8. ASSUME NEW p \in 1 .. m PROVE g[p] = LevelAt(F, p, g[ForeEnd(F, p)]) /\ g[p] \in Trail
  <2>1. PICK k : k = m + 1 - p
    OBVIOUS
  <2>2. k \in 1 .. m /\ m + 1 - k = p /\ k \in Nat
    BY <1>1, <2>1
  <2>3. g[p] = h[k] /\ h[k] \in Trail
    <3>1. h[k] \in Trail
      <4> HIDE DEF step, back
      <4> QED BY <1>6, <2>2 DEF Follows
    <3> QED BY <2>1, <3>1
  <2>4. h[k] = LevelAt(F, p, h[back[k]])
    <3> HIDE DEF back
    <3> QED BY <1>7, <2>2
  <2>5. ASSUME Deeper(F, p) PROVE h[back[k]] = g[ForeEnd(F, p)]
    <3>1. PICK e : e = ForeEnd(F, p)
      OBVIOUS
    <3>2. back[k] = m + 1 - e /\ e \in 1 .. m
      <4> HIDE DEF back
      <4> QED BY <1>4, <2>2, <2>5, <3>1
    <3>3. g[e] = h[m + 1 - e]
      BY <3>2
    <3> HIDE DEF back, g
    <3> QED BY <3>1, <3>2, <3>3
  <2> HIDE DEF back, g
  <2>6. LevelAt(F, p, h[back[k]]) = LevelAt(F, p, g[ForeEnd(F, p)])
    BY <2>5, LevelAtSame
  <2> QED BY <2>3, <2>4, <2>6
<1>9. g = [p \in 1 .. m |-> g[p]]
  OBVIOUS
<1> HIDE DEF g
<1>10. g \in [1 .. m -> Trail]
  BY <1>8, <1>9
<1>11. g = [p \in 1 .. m |-> LevelAt(F, p, g[ForeEnd(F, p)])]
  BY <1>8, <1>9
<1> QED BY <1>1, <1>10, <1>11, LevelLoopIs

LEMMA ReadLevelsAre ==
  ASSUME NEW F \in Seq(Nat), NEW pos
  PROVE  \E f \in [1 .. Len(F) + 1 -> Trail] :
           /\ \A p \in 1 .. Len(F) + 1 : f[p] = LevelAt(F, p, f[ForeEnd(F, p)])
           /\ ReadLevels(F, pos) = f[pos]
<1> DEFINE f == CHOOSE g : LevelLoop(g, F)
<1>1. \E g : LevelLoop(g, F)
  BY LevelLoopExists
<1>2. LevelLoop(f, F)
  BY <1>1
<1>3. ReadLevels(F, pos) = f[pos]
  BY Zenon DEF ReadLevels, LevelLoop
<1> HIDE DEF f
<1>4. PICK g \in [1 .. Len(F) + 1 -> Trail] : LevelLoop(g, F)
  BY LevelLoopExists
<1>5. f = g
  <2>1. PICK m : m = Len(F) + 1 /\ m \in Nat
    BY LenNat
  <2>2. /\ f = [p \in 1 .. m |-> LevelAt(F, p, f[ForeEnd(F, p)])]
        /\ g = [p \in 1 .. m |-> LevelAt(F, p, g[ForeEnd(F, p)])]
    BY <1>2, <1>4, <2>1, LevelLoopIs
  <2>3. Listed(f, m) /\ Listed(g, m)
    BY <2>2 DEF Listed
  <2>4. ASSUME NEW p \in 1 .. m, \A e \in p + 1 .. m : f[e] = g[e] PROVE f[p] = g[p]
    <3>1. f[p] = LevelAt(F, p, f[ForeEnd(F, p)]) /\ g[p] = LevelAt(F, p, g[ForeEnd(F, p)])
      BY <2>2
    <3>2. ASSUME Deeper(F, p) PROVE f[ForeEnd(F, p)] = g[ForeEnd(F, p)]
      <4>1. p \in Nat \ {0}
        BY <2>1
      <4>2. ForeEnd(F, p) \in p + 1 .. m
        BY <2>1, <3>2, <4>1, ForeEndLater
      <4> QED BY <2>4, <4>2
    <3>3. LevelAt(F, p, f[ForeEnd(F, p)]) = LevelAt(F, p, g[ForeEnd(F, p)])
      BY <3>2, LevelAtSame
    <3> QED BY <3>1, <3>3
  <2> QED BY <2>1, <2>3, <2>4, BackAgree
<1>6. \A p \in 1 .. Len(F) + 1 : g[p] = LevelAt(F, p, g[ForeEnd(F, p)])
  BY <1>4, LevelLoopIs
<1> QED BY <1>3, <1>4, <1>5, <1>6

-----------------------------------------------------------------------------
(* The levels from one on, read back or not.                               *)
Gives(F, p, s, o, ls) ==
  IF FitsAt(F, p, s) THEN o.ok /\ o.pos = p + Len(s) /\ o.levels = ls ELSE ~ o.ok

LevelWritten(l, rest, x, z, w) ==
  x = Items(ForeSlots, l.fore) /\ z = Items(AftSlots, l.aft) /\ w = x \o rest \o z

BelowGives(F, p, l, x, rest, below, ls) ==
  /\ Deeper(F, p) => below \in Trail
  /\ NextFollows(l.fore) => (Deeper(F, p) => Gives(F, p + Len(x), rest, below, ls))
  /\ ~ NextFollows(l.fore) => rest = << >> /\ ls = << >>

LEMMA ThreeParts ==
  ASSUME NEW F \in Seq(Nat), NEW p \in Nat \ {0}, NEW x \in Seq(Nat), NEW rest \in Seq(Nat), NEW z \in Seq(Nat),
         NEW y \in Seq(Nat), NEW w, Joint(y, x, rest), Joint(w, y, z), Agrees(F, p, w)
  PROVE  /\ Agrees(F, p, x) /\ Agrees(F, p + Len(x), rest) /\ Agrees(F, p + Len(y), z)
         /\ FitsAt(F, p, w) <=> FitsAt(F, p + Len(y), z) /\ FitsAt(F, p, y)
         /\ FitsAt(F, p, y) <=> FitsAt(F, p + Len(x), rest) /\ FitsAt(F, p, x)
         /\ Len(w) = Len(y) + Len(z) /\ Len(y) = Len(x) + Len(rest)
         /\ Len(y) \in Nat /\ Len(z) \in Nat /\ Len(x) \in Nat /\ Len(rest) \in Nat
<1>1. /\ Agrees(F, p, y) /\ Agrees(F, p + Len(y), z)
      /\ FitsAt(F, p, w) <=> FitsAt(F, p + Len(y), z) /\ FitsAt(F, p, y)
      /\ Len(w) = Len(y) + Len(z) /\ Len(y) \in Nat /\ Len(z) \in Nat
  BY AgreesPart
<1>2. /\ Agrees(F, p, x) /\ Agrees(F, p + Len(x), rest)
      /\ FitsAt(F, p, y) <=> FitsAt(F, p + Len(x), rest) /\ FitsAt(F, p, x)
      /\ Len(y) = Len(x) + Len(rest) /\ Len(x) \in Nat /\ Len(rest) \in Nat
  BY <1>1, AgreesPart
<1> QED BY <1>1, <1>2

LEMMA LevelRead ==
  ASSUME NEW F \in Seq(Nat), NEW l \in Levels, NEW p \in Nat \ {0}, p <= Len(F) + 1,
         NEW below, NEW rest \in Seq(Nat), NEW ls,
         NEW x, NEW z, NEW w, LevelWritten(l, rest, x, z, w), Agrees(F, p, w),
         BelowGives(F, p, l, x, rest, below, ls)
  PROVE  Gives(F, p, w, LevelAt(F, p, below), <<l>> \o ls)
<1>1. PICK fv, av : fv = l.fore /\ av = l.aft
  OBVIOUS
<1>2. /\ fv \in [1 .. Len(ForeSlots) -> Nat] /\ av \in [1 .. Len(AftSlots) -> Nat]
      /\ l = [fore |-> fv, aft |-> av]
      /\ x \in Seq(Nat) /\ z \in Seq(Nat)
      /\ x = Items(ForeSlots, fv) /\ z = Items(AftSlots, av)
  BY <1>1, LevelIs DEF LevelWritten
<1>3. PICK y \in Seq(Nat) : Joint(y, x, rest) /\ Joint(w, y, z)
  <2>1. x \in Seq(Nat)
    BY <1>2
  <2>2. x \o rest \in Seq(Nat)
    BY <2>1, Joined
  <2>3. Joint(w, x \o rest, z) /\ Joint(x \o rest, x, rest)
    BY DEF LevelWritten, Joint
  <2> QED BY <2>2, <2>3
<1>4. /\ Agrees(F, p, x) /\ Agrees(F, p + Len(x), rest) /\ Agrees(F, p + Len(y), z)
      /\ FitsAt(F, p, w) <=> FitsAt(F, p + Len(y), z) /\ FitsAt(F, p, y)
      /\ FitsAt(F, p, y) <=> FitsAt(F, p + Len(x), rest) /\ FitsAt(F, p, x)
      /\ Len(w) = Len(y) + Len(z) /\ Len(y) = Len(x) + Len(rest)
      /\ Len(y) \in Nat /\ Len(z) \in Nat /\ Len(x) \in Nat /\ Len(rest) \in Nat
  <2>1. x \in Seq(Nat) /\ z \in Seq(Nat)
    BY <1>2
  <2> QED BY <1>3, <2>1, ThreeParts
<1>5. PICK fore : fore = ReadSlots(F, ForeSlots, p, TRUE)
  OBVIOUS
<1>6. fore \in Read /\ IF FitsAt(F, p, x) THEN fore.ok /\ fore.pos = p + Len(x) /\ fore.values = fv
                       ELSE ~ fore.ok
  <2>1. Agrees(F, p, Items(ForeSlots, fv))
    BY <1>2, <1>4
  <2>2. ForeSlots \in Seq(Slots) /\ Len(ForeSlots) # 0
    BY SlotsAre
  <2>3. LET o == ReadSlots(F, ForeSlots, p, TRUE)
            s == Items(ForeSlots, fv)
        IN  IF FitsAt(F, p, s) THEN o.ok /\ o.pos = p + Len(s) /\ o.values = fv ELSE ~ o.ok
    BY <1>2, <2>1, <2>2, SlotsRead
  <2>4. fore \in Read
    BY <1>5, <2>2, ReadSlotsSound
  <2> QED BY <1>2, <1>5, <2>3, <2>4
<1>7. PICK next : next = IF fore.ok /\ NextFollows(fore.values) THEN below
                         ELSE [levels |-> << >>, pos |-> fore.pos, ok |-> fore.ok]
  OBVIOUS
<1>8. next.pos \in Nat \ {0} /\ next.ok \in BOOLEAN
  <2>1. CASE fore.ok /\ NextFollows(fore.values)
    <3>1. below \in Trail
      BY <1>5, <2>1 DEF Deeper, BelowGives
    <3> QED BY <1>7, <2>1, <3>1 DEF Trail
  <2>2. CASE ~ (fore.ok /\ NextFollows(fore.values))
    <3>1. next.pos = fore.pos /\ next.ok = fore.ok
      BY <1>7, <2>2
    <3> QED BY <1>6, <3>1 DEF Read
  <2> QED BY <2>1, <2>2
<1>9. next.ok => FitsAt(F, p, y) /\ next.pos = p + Len(y) /\ next.levels = ls
  <2> SUFFICES ASSUME next.ok PROVE FitsAt(F, p, y) /\ next.pos = p + Len(y) /\ next.levels = ls
    OBVIOUS
  <2>1. fore.ok
    <3>1. CASE fore.ok /\ NextFollows(fore.values)
      BY <3>1
    <3>2. CASE ~ (fore.ok /\ NextFollows(fore.values))
      <4>1. next.ok = fore.ok
        BY <1>7, <3>2
      <4> QED BY <4>1
    <3> QED BY <3>1, <3>2
  <2>2. FitsAt(F, p, x) /\ fore.pos = p + Len(x) /\ fore.values = fv
    BY <1>6, <2>1
  <2>3. CASE NextFollows(fv)
    <3>1. next = below /\ Deeper(F, p)
      BY <1>5, <1>7, <2>1, <2>2, <2>3 DEF Deeper
    <3>2. Gives(F, p + Len(x), rest, below, ls)
      BY <1>1, <2>3, <3>1 DEF BelowGives
    <3>3. FitsAt(F, p + Len(x), rest) /\ next.pos = p + Len(x) + Len(rest) /\ next.levels = ls
      BY <3>1, <3>2 DEF Gives
    <3> QED BY <1>4, <2>2, <3>3
  <2>4. CASE ~ NextFollows(fv)
    <3>1. next = [levels |-> << >>, pos |-> fore.pos, ok |-> fore.ok]
      BY <1>7, <2>2, <2>4
    <3>2. rest = << >> /\ ls = << >>
      BY <1>1, <2>4 DEF BelowGives
    <3>3. y = x
      BY <1>2, <1>3, <3>2 DEF Joint
    <3> QED BY <2>2, <3>1, <3>2, <3>3
  <2> QED BY <2>3, <2>4
<1>10. FitsAt(F, p, y) => next.ok
  <2> SUFFICES ASSUME FitsAt(F, p, y) PROVE next.ok
    OBVIOUS
  <2>1. fore.ok /\ fore.values = fv /\ FitsAt(F, p + Len(x), rest)
    BY <1>4, <1>6
  <2>2. CASE NextFollows(fv)
    <3>1. next = below /\ Deeper(F, p)
      BY <1>5, <1>7, <2>1, <2>2 DEF Deeper
    <3>2. Gives(F, p + Len(x), rest, below, ls)
      BY <1>1, <2>2, <3>1 DEF BelowGives
    <3> QED BY <2>1, <3>1, <3>2 DEF Gives
  <2>3. CASE ~ NextFollows(fv)
    <3>1. next = [levels |-> << >>, pos |-> fore.pos, ok |-> fore.ok]
      BY <1>7, <2>1, <2>3
    <3> QED BY <2>1, <3>1
  <2> QED BY <2>2, <2>3
<1>11. PICK aft : aft = ReadSlots(F, AftSlots, next.pos, next.ok)
  OBVIOUS
<1>12. aft.ok => next.ok
  BY <1>8, <1>11, ReadSlotsSound, SlotsAre
<1>13. next.ok => IF FitsAt(F, p + Len(y), z) THEN aft.ok /\ aft.pos = p + Len(y) + Len(z) /\ aft.values = av
                  ELSE ~ aft.ok
  <2> SUFFICES ASSUME next.ok
               PROVE  IF FitsAt(F, p + Len(y), z)
                      THEN aft.ok /\ aft.pos = p + Len(y) + Len(z) /\ aft.values = av
                      ELSE ~ aft.ok
    OBVIOUS
  <2>1. PICK q : q = p + Len(y)
    OBVIOUS
  <2>2. next.pos = q /\ next.ok = TRUE /\ q \in Nat \ {0} /\ q <= Len(F) + 1
    <3>1. FitsAt(F, p, y) /\ next.pos = q /\ next.ok = TRUE
      BY <1>8, <1>9, <2>1
    <3>2. q \in Nat \ {0} /\ Len(F) \in Nat
      BY <1>4, <2>1, LenNat
    <3>3. q - 1 <= Len(F)
      BY <2>1, <3>1 DEF FitsAt
    <3> QED BY <3>1, <3>2, <3>3
  <2>3. AftSlots \in Seq(Slots) /\ Agrees(F, q, Items(AftSlots, av))
    BY <1>2, <1>4, <2>1, SlotsAre
  <2>4. LET o == ReadSlots(F, AftSlots, q, TRUE)
            s == Items(AftSlots, av)
        IN  IF FitsAt(F, q, s) THEN o.ok /\ o.pos = q + Len(s) /\ o.values = av ELSE ~ o.ok
    BY <1>2, <2>2, <2>3, SlotsRead
  <2> QED BY <1>2, <1>11, <2>1, <2>2, <2>4
<1>14. PICK o : o = LevelAt(F, p, below)
  OBVIOUS
<1>15. o = [levels |-> <<[fore |-> fore.values, aft |-> aft.values]>> \o next.levels,
            pos |-> aft.pos, ok |-> aft.ok]
  BY <1>5, <1>7, <1>11, <1>14 DEF LevelAt
<1>16. CASE FitsAt(F, p, w)
  <2>1. next.ok /\ FitsAt(F, p + Len(y), z) /\ FitsAt(F, p, y)
    BY <1>4, <1>10, <1>16
  <2>2. aft.ok /\ aft.pos = p + Len(y) + Len(z) /\ aft.values = av /\ next.levels = ls
    BY <1>9, <1>13, <2>1
  <2>3. fore.values = fv
    BY <1>4, <1>6, <2>1
  <2>4. o.levels = <<l>> \o ls
    <3>1. l = [fore |-> fore.values, aft |-> aft.values]
      BY <1>2, <2>2, <2>3
    <3> QED BY <1>15, <2>2, <3>1
  <2>5. o.ok /\ o.pos = aft.pos
    BY <1>15, <2>2
  <2>6. o.pos = p + Len(w)
    BY <1>4, <2>2, <2>5
  <2> QED BY <1>14, <1>16, <2>4, <2>5, <2>6 DEF Gives
<1>17. CASE ~ FitsAt(F, p, w)
  <2>1. ~ aft.ok
    <3>1. CASE next.ok
      BY <1>4, <1>9, <1>13, <1>17, <3>1
    <3>2. CASE ~ next.ok
      BY <1>12, <3>2
    <3> QED BY <3>1, <3>2
  <2>2. ~ o.ok
    BY <1>15, <2>1
  <2> QED BY <1>14, <1>17, <2>2 DEF Gives
<1> QED BY <1>16, <1>17

-----------------------------------------------------------------------------
(* Reading a trie gives back what was written of it, or fails.             *)
LEMMA ForeEndIs ==
  ASSUME NEW F \in Seq(Nat), NEW l \in Levels, NEW p \in Nat \ {0}, p <= Len(F) + 1,
         Agrees(F, p, Items(ForeSlots, l.fore)), Deeper(F, p)
  PROVE  ForeEnd(F, p) = p + Len(Items(ForeSlots, l.fore))
<1>1. PICK fv : fv = l.fore
  OBVIOUS
<1>2. fv \in [1 .. Len(ForeSlots) -> Nat] /\ ForeSlots \in Seq(Slots) /\ Agrees(F, p, Items(ForeSlots, fv))
  BY <1>1, LevelIs, SlotsAre
<1>3. LET o == ReadSlots(F, ForeSlots, p, TRUE)
          s == Items(ForeSlots, fv)
      IN  IF FitsAt(F, p, s) THEN o.ok /\ o.pos = p + Len(s) /\ o.values = fv ELSE ~ o.ok
  BY <1>2, SlotsRead
<1> QED BY <1>1, <1>3 DEF Deeper, ForeEnd

LEMMA LevelsFrom ==
  ASSUME NEW S, NEW t \in Seq(S), NEW d \in 1 .. Len(t)
  PROVE  <<t[d]>> \o SubSeq(t, d + 1, Len(t)) = SubSeq(t, d, Len(t))
<1>1. PICK n, u, v : n = Len(t) /\ u = SubSeq(t, d + 1, n) /\ v = SubSeq(t, d, n)
  OBVIOUS
<1>2. n \in Nat
  BY <1>1, LenNat
<1>3. v \in Seq(S) /\ Len(v) = n - d + 1 /\ \A i \in 1 .. n - d + 1 : v[i] = t[d + i - 1]
  BY <1>1, <1>2
<1>4. u \in Seq(S) /\ Len(u) = n - d /\ \A i \in 1 .. n - d : u[i] = t[d + i]
  BY <1>1, <1>2
<1>5. PICK e : e = t[d] /\ e \in S
  OBVIOUS
<1>6. PICK w : w = <<e>> \o u
  OBVIOUS
<1>7. w \in Seq(S) /\ Len(w) = n - d + 1 /\ w[1] = e /\ \A i \in 1 .. n - d : w[1 + i] = u[i]
  <2>1. <<e>> \in Seq(S) /\ Len(<<e>>) = 1 /\ <<e>>[1] = e
    BY <1>5
  <2>2. PICK s : s = <<e>>
    OBVIOUS
  <2>3. s \in Seq(S) /\ Len(s) = 1 /\ s[1] = e /\ w = s \o u
    BY <1>6, <2>1, <2>2
  <2>4. /\ w \in Seq(S) /\ Len(w) = Len(s) + Len(u)
        /\ \A i \in 1 .. Len(s) : w[i] = s[i]
        /\ \A i \in 1 .. Len(u) : w[Len(s) + i] = u[i]
    <3>1. s \in Seq(S) /\ u \in Seq(S) /\ w = s \o u
      BY <1>4, <2>3
    <3> QED BY <3>1, Joined
  <2>5. n - d \in Nat
    BY <1>1, <1>2
  <2> QED BY <1>4, <2>3, <2>4, <2>5
<1>8. \A i \in 1 .. n - d + 1 : w[i] = v[i]
  <2> SUFFICES ASSUME NEW i \in 1 .. n - d + 1 PROVE w[i] = v[i]
    OBVIOUS
  <2>1. CASE i = 1
    <3>1. v[1] = t[d + 1 - 1] /\ d + 1 - 1 = d
      BY <1>1, <1>2, <1>3
    <3> QED BY <1>5, <1>7, <2>1, <3>1
  <2>2. CASE i # 1
    <3>1. PICK j : j = i - 1
      OBVIOUS
    <3>2. j \in 1 .. n - d /\ i = 1 + j /\ d + i - 1 = d + j
      BY <1>1, <1>2, <2>2, <3>1
    <3>3. w[i] = u[j] /\ u[j] = t[d + j]
      BY <1>4, <1>7, <3>2
    <3>4. v[i] = t[d + j]
      BY <1>3, <3>2
    <3> QED BY <3>3, <3>4
  <2> QED BY <2>1, <2>2
<1>9. w = v
  <2>1. n - d + 1 \in Nat
    BY <1>1, <1>2
  <2> QED BY <1>3, <1>7, <1>8, <2>1
<1> QED BY <1>1, <1>5, <1>6, <1>9

LEMMA TrieIs ==
  ASSUME NEW t \in Tries
  PROVE  /\ t \in Seq(Levels) /\ Len(t) \in Nat \ {0}
         /\ \A d \in 1 .. Len(t) : NextFollows(t[d].fore) <=> d < Len(t)
<1>1. t \in Seq(Levels) /\ t # << >>
  BY FileAssumption
<1>2. DOMAIN t = 1 .. Len(t) /\ Len(t) \in Nat \ {0}
  BY <1>1
<1>3. \A d \in DOMAIN t : (t[d].fore[LinkOnes] # 0 /\ t[d].fore[TailBuf] = 0) <=> d < Len(t)
  BY FileAssumption
<1> QED BY <1>1, <1>2, <1>3 DEF NextFollows

LEMMA LevelsRead ==
  ASSUME NEW F \in Seq(Nat), NEW t \in Tries, NEW p \in 1 .. Len(F) + 1, Agrees(F, p, TrieItems(t))
  PROVE  Gives(F, p, TrieItems(t), ReadLevels(F, p), t)
<1>1. PICK n : n = Len(t) /\ n \in Nat \ {0}
  BY TrieIs
<1>2. t \in Seq(Levels) /\ \A d \in 1 .. n : NextFollows(t[d].fore) <=> d < n
  BY <1>1, TrieIs
<1>3. PICK u \in [1 .. n + 1 -> Seq(Nat)] : ItemsFrom(u, t) /\ TrieItems(t) = u[1]
  BY <1>1, <1>2, TrieItemsAre
<1>4. PICK f \in [1 .. Len(F) + 1 -> Trail] :
        /\ \A q \in 1 .. Len(F) + 1 : f[q] = LevelAt(F, q, f[ForeEnd(F, q)])
        /\ ReadLevels(F, p) = f[p]
  BY ReadLevelsAre
<1> DEFINE Good(d) == \A q \in 1 .. Len(F) + 1 : Agrees(F, q, u[d]) => Gives(F, q, u[d], f[q], SubSeq(t, d, n))
<1>5. ASSUME NEW d \in 1 .. n, d < n => Good(d + 1) PROVE Good(d)
  <2> SUFFICES ASSUME NEW q \in 1 .. Len(F) + 1, Agrees(F, q, u[d])
               PROVE  Gives(F, q, u[d], f[q], SubSeq(t, d, n))
    OBVIOUS
  <2>1. PICK l, x, z, w, rest, below, ls :
          /\ l = t[d] /\ x = Items(ForeSlots, l.fore) /\ z = Items(AftSlots, l.aft)
          /\ w = u[d] /\ rest = u[d + 1] /\ below = f[ForeEnd(F, q)] /\ ls = SubSeq(t, d + 1, n)
    OBVIOUS
  <2>2. d \in 1 .. Len(t) + 1 /\ d + 1 \in 1 .. n + 1 /\ ~ (d > n) /\ d \in 1 .. Len(t)
    BY <1>1
  <2>3. l \in Levels /\ rest \in Seq(Nat) /\ w \in Seq(Nat)
    <3>1. l \in Levels
      BY <1>2, <2>1, <2>2
    <3>2. rest \in Seq(Nat)
      BY <1>3, <2>1, <2>2
    <3>3. w \in Seq(Nat)
      BY <1>1, <1>3, <2>1, <2>2
    <3> QED BY <3>1, <3>2, <3>3
  <2>4. LevelWritten(l, rest, x, z, w)
    <3>1. u[d] = Items(ForeSlots, t[d].fore) \o u[d + 1] \o Items(AftSlots, t[d].aft)
      BY <1>1, <1>3, <2>2 DEF ItemsFrom
    <3> QED BY <2>1, <3>1 DEF LevelWritten
  <2>5. q \in Nat \ {0} /\ q <= Len(F) + 1 /\ Agrees(F, q, w) /\ Len(F) \in Nat
    BY <2>1, LenNat
  <2>6. x \in Seq(Nat) /\ z \in Seq(Nat)
    BY <2>1, <2>3, LevelIs
  <2>7. PICK y \in Seq(Nat) : Joint(y, x, rest) /\ Joint(w, y, z)
    <3>1. x \o rest \in Seq(Nat)
      BY <2>3, <2>6, Joined
    <3>2. Joint(w, x \o rest, z) /\ Joint(x \o rest, x, rest)
      BY <2>4 DEF LevelWritten, Joint
    <3> QED BY <3>1, <3>2
  <2>8. Agrees(F, q, x) /\ Agrees(F, q + Len(x), rest) /\ Len(x) \in Nat
    <3>1. /\ q \in Nat \ {0} /\ x \in Seq(Nat) /\ rest \in Seq(Nat) /\ z \in Seq(Nat) /\ y \in Seq(Nat)
          /\ Joint(y, x, rest) /\ Joint(w, y, z) /\ Agrees(F, q, w)
      BY <2>3, <2>5, <2>6, <2>7
    <3> HIDE DEF Good
    <3> QED BY <3>1, ThreeParts
  <2>9. ASSUME Deeper(F, q)
        PROVE below \in Trail /\ ForeEnd(F, q) = q + Len(x) /\ q + Len(x) \in 1 .. Len(F) + 1
    <3>1. ForeEnd(F, q) \in 1 .. Len(F) + 1
      BY <2>5, <2>9, ForeEndLater
    <3>2. ForeEnd(F, q) = q + Len(x)
      <4>1. Agrees(F, q, Items(ForeSlots, l.fore)) /\ l \in Levels /\ q \in Nat \ {0} /\ q <= Len(F) + 1
        BY <2>1, <2>3, <2>5, <2>8
      <4>2. ForeEnd(F, q) = q + Len(Items(ForeSlots, l.fore))
        BY <2>9, <4>1, ForeEndIs
      <4> HIDE DEF Good
      <4> QED BY <2>1, <4>2
    <3> QED BY <1>4, <2>1, <3>1, <3>2
  <2>10. NextFollows(l.fore) <=> d < n
    BY <1>2, <2>1
  <2>11. ASSUME NextFollows(l.fore), Deeper(F, q) PROVE Gives(F, q + Len(x), rest, below, ls)
    <3>1. Good(d + 1)
      BY <1>5, <2>10, <2>11
    <3>2. PICK e : e = q + Len(x)
      OBVIOUS
    <3>3. e \in 1 .. Len(F) + 1 /\ ForeEnd(F, q) = e /\ Agrees(F, e, u[d + 1])
      BY <2>1, <2>8, <2>9, <2>11, <3>2
    <3>4. Gives(F, e, u[d + 1], f[e], SubSeq(t, d + 1, n))
      BY <3>1, <3>3
    <3> HIDE DEF Good
    <3> QED BY <2>1, <3>2, <3>3, <3>4
  <2>12. ASSUME ~ NextFollows(l.fore) PROVE rest = << >> /\ ls = << >>
    <3>1. d = n
      BY <1>1, <2>10, <2>12
    <3>2. u[n + 1] = << >>
      <4>1. n + 1 \in 1 .. Len(t) + 1 /\ n + 1 > Len(t)
        BY <1>1
      <4> QED BY <1>3, <4>1 DEF ItemsFrom
    <3>3. SubSeq(t, n + 1, n) = << >>
      BY <1>1, <1>2
    <3> HIDE DEF Good
    <3> QED BY <2>1, <3>1, <3>2, <3>3
  <2> HIDE DEF Good
  <2>13. BelowGives(F, q, l, x, rest, below, ls)
    BY <2>9, <2>11, <2>12 DEF BelowGives
  <2>14. Gives(F, q, w, LevelAt(F, q, below), <<l>> \o ls)
    BY <2>3, <2>4, <2>5, <2>13, LevelRead
  <2>15. LevelAt(F, q, below) = f[q]
    BY <1>4, <2>1
  <2>16. <<l>> \o ls = SubSeq(t, d, n)
    BY <1>1, <1>2, <2>1, <2>2, LevelsFrom
  <2> QED BY <2>1, <2>14, <2>15, <2>16
<1> DEFINE T == {k \in 0 .. n - 1 : ~ Good(n - k)}
<1>6. Good(1)
  <2>1. 0 \notin T
    <3>1. n \in 1 .. n /\ ~ (n < n) /\ n - 0 = n
      BY <1>1
    <3>2. Good(n)
      <4> HIDE DEF Good
      <4> QED BY <1>5, <3>1
    <3> HIDE DEF Good
    <3> QED BY <3>1, <3>2
  <2>2. T = {}
    <3> SUFFICES ASSUME T # {} PROVE FALSE
      OBVIOUS
    <3>1. PICK k \in T : k \in 1 .. n - 1 /\ k - 1 \in 0 .. n - 1 /\ k - 1 \notin T
      <4>1. T \subseteq 0 .. n - 1 /\ n - 1 \in Nat
        <5> HIDE DEF Good
        <5> QED BY <1>1
      <4> HIDE DEF T
      <4> QED BY <2>1, <4>1, LeastCase
    <3>2. PICK d : d = n - k
      OBVIOUS
    <3>3. d \in 1 .. n /\ d + 1 = n - (k - 1)
      BY <1>1, <3>1, <3>2
    <3>4. Good(n - (k - 1)) /\ ~ Good(n - k)
      <4> HIDE DEF Good
      <4> QED BY <3>1
    <3>5. Good(d + 1) /\ ~ Good(d)
      <4> HIDE DEF Good
      <4> QED BY <3>2, <3>3, <3>4
    <3> HIDE DEF Good, T
    <3> QED BY <1>5, <3>3, <3>5
  <2>3. n - 1 \notin T /\ n - 1 \in 0 .. n - 1 /\ n - (n - 1) = 1
    <3>1. n - 1 \in 0 .. n - 1 /\ n - (n - 1) = 1
      BY <1>1
    <3> HIDE DEF T
    <3> QED BY <2>2, <3>1
  <2>4. Good(n - (n - 1))
    <3> HIDE DEF Good
    <3> QED BY <2>3
  <2> HIDE DEF Good, T
  <2> QED BY <2>3, <2>4
<1>7. Gives(F, p, u[1], f[p], SubSeq(t, 1, n))
  BY <1>3, <1>6
<1>8. SubSeq(t, 1, n) = t
  BY <1>1, <1>2
<1> HIDE DEF Good
<1> QED BY <1>3, <1>4, <1>7, <1>8

TrieText(t) == <<HeaderItem>> \o TrieItems(t)

LEMMA TextIs ==
  ASSUME NEW t \in Tries
  PROVE  /\ TrieItems(t) \in Seq(Nat) /\ TrieText(t) \in Seq(Nat)
         /\ Joint(TrieText(t), <<HeaderItem>>, TrieItems(t)) /\ Len(TrieText(t)) = Len(TrieItems(t)) + 1
         /\ TrieText(t)[1] = HeaderItem
<1>1. PICK u \in [1 .. Len(t) + 1 -> Seq(Nat)] : TrieItems(t) = u[1]
  BY TrieIs, TrieItemsAre
<1>2. 1 \in 1 .. Len(t) + 1
  BY TrieIs
<1>3. PICK s : s = TrieItems(t) /\ s \in Seq(Nat)
  BY <1>1, <1>2
<1>4. PICK h \in Seq(Nat) : h = <<HeaderItem>> /\ Len(h) = 1 /\ h[1] = HeaderItem
  <2>1. <<HeaderItem>> \in Seq(Nat) /\ Len(<<HeaderItem>>) = 1 /\ <<HeaderItem>>[1] = HeaderItem
    BY DEF HeaderItem
  <2> QED BY <2>1
<1>5. PICK w : w = h \o s
  OBVIOUS
<1>6. w \in Seq(Nat) /\ Len(w) = Len(s) + 1 /\ w[1] = HeaderItem
  <2>1. w \in Seq(Nat) /\ Len(w) = Len(h) + Len(s) /\ Len(s) \in Nat /\ \A i \in 1 .. Len(h) : w[i] = h[i]
    BY <1>3, <1>4, <1>5, Joined
  <2> QED BY <1>4, <2>1
<1> QED BY <1>3, <1>4, <1>5, <1>6 DEF TrieText, Joint

LEMMA TrieRead ==
  ASSUME NEW F \in Seq(Nat), NEW t \in Tries, NEW p \in 1 .. Len(F) + 1, Agrees(F, p, TrieText(t))
  PROVE  Gives(F, p, TrieText(t), ReadTrie(F, p), t)
<1>1. PICK s, w, h : s = TrieItems(t) /\ w = TrieText(t) /\ h = <<HeaderItem>>
  OBVIOUS
<1>2. s \in Seq(Nat) /\ w \in Seq(Nat) /\ Joint(w, h, s) /\ Len(w) = Len(s) + 1 /\ w[1] = HeaderItem
  BY <1>1, TextIs
<1>3. h \in Seq(Nat) /\ Len(h) = 1
  BY <1>1 DEF HeaderItem
<1>4. p \in Nat \ {0} /\ Len(F) \in Nat /\ Len(s) \in Nat /\ Agrees(F, p, w)
  BY <1>1, <1>2, LenNat
<1>5. Agrees(F, p + 1, s) /\ (FitsAt(F, p, w) <=> FitsAt(F, p + 1, s) /\ FitsAt(F, p, h))
  BY <1>2, <1>3, <1>4, AgreesPart
<1>6. CASE p <= Len(F)
  <2>1. F[p] = HeaderItem
    <3>1. 1 \in 1 .. Len(w) /\ p + 1 - 1 = p
      BY <1>2, <1>4
    <3> QED BY <1>2, <1>4, <1>6, <3>1 DEF Agrees
  <2>2. p + 1 \in 1 .. Len(F) + 1 /\ FitsAt(F, p, h)
    BY <1>3, <1>4, <1>6 DEF FitsAt
  <2>3. Gives(F, p + 1, s, ReadLevels(F, p + 1), t)
    <3>1. PICK q : q = p + 1
      OBVIOUS
    <3>2. q \in 1 .. Len(F) + 1 /\ Agrees(F, q, TrieItems(t))
      BY <1>1, <1>5, <2>2, <3>1
    <3>3. Gives(F, q, TrieItems(t), ReadLevels(F, q), t)
      BY <3>2, LevelsRead
    <3> QED BY <1>1, <3>1, <3>3
  <2>4. ReadTrie(F, p) = ReadLevels(F, p + 1)
    BY <1>6, <2>1 DEF ReadTrie
  <2>5. p + 1 + Len(s) = p + Len(w)
    BY <1>2, <1>4
  <2> QED BY <1>1, <1>5, <2>2, <2>3, <2>4, <2>5 DEF Gives
<1>7. CASE ~ (p <= Len(F))
  <2>1. ~ ReadTrie(F, p).ok
    BY <1>7 DEF ReadTrie
  <2>2. ~ FitsAt(F, p, w)
    BY <1>2, <1>4, <1>7 DEF FitsAt
  <2> QED BY <1>1, <2>1, <2>2 DEF Gives
<1> QED BY <1>6, <1>7

-----------------------------------------------------------------------------
(* The tries that stand whole in a file, and where each begins.            *)
Placed(b, F, W) ==
  /\ b \in [0 .. Len(W) -> Nat \ {0}] /\ b[0] = 1
  /\ \A k \in 1 .. Len(W) :
       b[k] = b[k - 1] + Len(TrieText(W[k])) /\ b[k] <= Len(F) + 1 /\ Agrees(F, b[k - 1], TrieText(W[k]))

(* What is written and to be written together, up to its end.              *)
EndsIn(G, q, t) == Agrees(G, q, TrieText(t)) /\ Len(G) = q - 1 + Len(TrieText(t))

(* No whole trie stands at a position.                                     *)
NoneAt(F, q) ==
  \/ q <= Len(F) => F[q] # HeaderItem
  \/ \E t \in Tries : Agrees(F, q, TrieText(t)) /\ ~ FitsAt(F, q, TrieText(t))

LEMMA PlacesAre ==
  ASSUME NEW F \in Seq(Nat), NEW W \in Seq(Tries), NEW b, Placed(b, F, W), NEW k \in 0 .. Len(W)
  PROVE  b[k] \in 1 .. Len(F) + 1 /\ b[k] \in Nat \ {0}
<1>1. b[k] \in Nat \ {0} /\ Len(F) \in Nat
  BY LenNat DEF Placed
<1>2. b[k] <= Len(F) + 1
  <2>1. CASE k = 0
    BY <1>1, <2>1 DEF Placed
  <2>2. CASE k # 0
    <3>1. k \in 1 .. Len(W)
      BY <2>2
    <3> QED BY <3>1 DEF Placed
  <2> QED BY <2>1, <2>2
<1> QED BY <1>1, <1>2

LEMMA WholeReads ==
  ASSUME NEW F \in Seq(Nat), NEW W \in Seq(Tries), NEW b, Placed(b, F, W), NEW k \in 1 .. Len(W)
  PROVE  LET o == ReadTrie(F, b[k - 1]) IN o.ok /\ o.levels = W[k] /\ o.pos = b[k]
<1>1. PICK p, t : p = b[k - 1] /\ t = W[k] /\ t \in Tries
  OBVIOUS
<1>2. p \in 1 .. Len(F) + 1 /\ p \in Nat
  <2>1. k - 1 \in 0 .. Len(W)
    OBVIOUS
  <2> QED BY <1>1, <2>1, PlacesAre
<1>3. b[k] = p + Len(TrieText(t)) /\ b[k] <= Len(F) + 1 /\ Agrees(F, p, TrieText(t))
  BY <1>1 DEF Placed
<1>4. Gives(F, p, TrieText(t), ReadTrie(F, p), t)
  BY <1>1, <1>2, <1>3, TrieRead
<1>5. FitsAt(F, p, TrieText(t))
  <2>1. PICK n, m : n = Len(TrieText(t)) /\ m = Len(F)
    OBVIOUS
  <2>2. n \in Nat /\ m \in Nat
    BY <1>1, <2>1, TextIs, LenNat
  <2>3. p + n <= m + 1
    BY <1>3, <2>1
  <2>4. p + n - 1 <= m
    BY <1>2, <2>2, <2>3
  <2> QED BY <2>1, <2>4 DEF FitsAt
<1> QED BY <1>1, <1>3, <1>4, <1>5 DEF Gives

LEMMA NoneReads ==
  ASSUME NEW F \in Seq(Nat), NEW q \in 1 .. Len(F) + 1, NoneAt(F, q)
  PROVE  ~ ReadTrie(F, q).ok
<1>1. CASE q <= Len(F) => F[q] # HeaderItem
  BY <1>1 DEF ReadTrie
<1>2. CASE \E t \in Tries : Agrees(F, q, TrieText(t)) /\ ~ FitsAt(F, q, TrieText(t))
  <2>1. PICK t \in Tries : Agrees(F, q, TrieText(t)) /\ ~ FitsAt(F, q, TrieText(t))
    BY <1>2
  <2>2. Gives(F, q, TrieText(t), ReadTrie(F, q), t)
    BY <2>1, TrieRead
  <2> QED BY <2>1, <2>2 DEF Gives
<1> QED BY <1>1, <1>2 DEF NoneAt

LEMMA PlacedGrows ==
  ASSUME NEW F \in Seq(Nat), NEW W \in Seq(Tries), NEW b, Placed(b, F, W),
         NEW s \in Seq(Nat), NEW G, Joint(G, F, s)
  PROVE  Placed(b, G, W)
<1>1. /\ G \in Seq(Nat) /\ Len(G) = Len(F) + Len(s) /\ Len(F) \in Nat /\ Len(s) \in Nat
      /\ \A i \in 1 .. Len(F) : G[i] = F[i]
  BY Joined DEF Joint
<1>2. ASSUME NEW k \in 1 .. Len(W)
      PROVE  b[k] = b[k - 1] + Len(TrieText(W[k])) /\ b[k] <= Len(G) + 1 /\ Agrees(G, b[k - 1], TrieText(W[k]))
  <2>1. PICK p, e, t, w : p = b[k - 1] /\ e = b[k] /\ t = W[k] /\ t \in Tries /\ w = TrieText(t)
    OBVIOUS
  <2>2. p \in Nat \ {0} /\ e \in Nat \ {0}
    <3>1. k - 1 \in 0 .. Len(W) /\ k \in 0 .. Len(W)
      OBVIOUS
    <3> QED BY <2>1, <3>1, PlacesAre
  <2>3. e = p + Len(w) /\ e <= Len(F) + 1 /\ Agrees(F, p, w)
    BY <2>1 DEF Placed
  <2>4. Len(w) \in Nat
    BY <2>1, TextIs, LenNat
  <2>5. Agrees(G, p, w)
    <3> SUFFICES ASSUME NEW i \in 1 .. Len(w) PROVE G[p + i - 1] = w[i]
      BY DEF Agrees
    <3>1. p + i - 1 \in 1 .. Len(F)
      BY <1>1, <2>2, <2>3, <2>4
    <3>2. F[p + i - 1] = w[i]
      BY <2>3, <3>1 DEF Agrees
    <3> QED BY <1>1, <3>1, <3>2
  <2>6. e <= Len(G) + 1
    BY <1>1, <2>2, <2>3
  <2> QED BY <2>1, <2>3, <2>5, <2>6
<1> QED BY <1>2 DEF Placed

LEMMA PlacedMore ==
  ASSUME NEW G \in Seq(Nat), NEW W \in Seq(Tries), NEW b, Placed(b, G, W),
         NEW t \in Tries, EndsIn(G, b[Len(W)], t)
  PROVE  \E c : /\ Placed(c, G, Append(W, t)) /\ c[Len(W) + 1] = Len(G) + 1
                /\ \A k \in 0 .. Len(W) : c[k] = b[k]
<1>1. PICK n, q, m : n = Len(W) /\ q = b[n] /\ m = Len(G)
  OBVIOUS
<1>2. n \in Nat /\ q \in Nat \ {0} /\ m \in Nat /\ q <= m + 1
  <2>1. n \in Nat /\ m \in Nat
    BY <1>1, LenNat
  <2>2. n \in 0 .. Len(W)
    BY <1>1, <2>1
  <2> QED BY <1>1, <2>1, <2>2, PlacesAre
<1>3. PICK V : V = Append(W, t)
  OBVIOUS
<1>4. V \in Seq(Tries) /\ Len(V) = n + 1 /\ V[n + 1] = t /\ \A k \in 1 .. n : V[k] = W[k]
  BY <1>1, <1>3
<1> DEFINE c == [k \in 0 .. n + 1 |-> IF k = n + 1 THEN m + 1 ELSE b[k]]
<1>5. c[n + 1] = m + 1 /\ \A k \in 0 .. n : c[k] = b[k]
  BY <1>2
<1>6. c \in [0 .. n + 1 -> Nat \ {0}]
  <2>1. \A k \in 0 .. n : b[k] \in Nat \ {0}
    BY <1>1 DEF Placed
  <2> QED BY <1>2, <2>1
<1> HIDE DEF c
<1>7. c[0] = 1
  BY <1>2, <1>5 DEF Placed
<1>8. ASSUME NEW k \in 1 .. n + 1
      PROVE  c[k] = c[k - 1] + Len(TrieText(V[k])) /\ c[k] <= Len(G) + 1 /\ Agrees(G, c[k - 1], TrieText(V[k]))
  <2>1. CASE k = n + 1
    <3>1. c[k - 1] = q /\ c[k] = m + 1 /\ V[k] = t
      BY <1>1, <1>2, <1>4, <1>5, <2>1
    <3>2. Agrees(G, q, TrieText(t)) /\ m = q - 1 + Len(TrieText(t))
      BY <1>1 DEF EndsIn
    <3>3. Len(TrieText(t)) \in Nat
      BY TextIs, LenNat
    <3>4. m + 1 = q + Len(TrieText(t))
      BY <1>2, <3>2, <3>3
    <3> QED BY <1>1, <1>2, <3>1, <3>2, <3>4
  <2>2. CASE k # n + 1
    <3>1. k \in 1 .. n /\ k - 1 \in 0 .. n /\ k \in 0 .. n
      BY <1>2, <2>2
    <3>2. c[k] = b[k] /\ c[k - 1] = b[k - 1] /\ V[k] = W[k]
      BY <1>4, <1>5, <3>1
    <3>3. b[k] = b[k - 1] + Len(TrieText(W[k])) /\ b[k] <= Len(G) + 1 /\ Agrees(G, b[k - 1], TrieText(W[k]))
      BY <1>1, <3>1 DEF Placed
    <3> QED BY <3>2, <3>3
  <2> QED BY <2>1, <2>2
<1>9. Placed(c, G, V)
  BY <1>4, <1>6, <1>7, <1>8 DEF Placed
<1> QED BY <1>1, <1>3, <1>5, <1>9

(* A save that ends early leaves no trie behind those that are whole.      *)
LEMMA CutShort ==
  ASSUME NEW F \in Seq(Nat), NEW s \in Seq(Nat), s # << >>, NEW q \in 1 .. Len(F) + 1, NEW t \in Tries,
         EndsIn(F \o s, q, t)
  PROVE  NoneAt(F, q)
<1>1. PICK G, w : G = F \o s /\ w = TrieText(t)
  OBVIOUS
<1>2. /\ G \in Seq(Nat) /\ Len(G) = Len(F) + Len(s) /\ Len(F) \in Nat /\ Len(s) \in Nat
      /\ \A i \in 1 .. Len(F) : G[i] = F[i]
  BY <1>1, Joined
<1>3. Len(s) # 0
  OBVIOUS
<1>4. Len(w) \in Nat
  BY <1>1, TextIs, LenNat
<1>5. Agrees(G, q, w) /\ Len(G) = q - 1 + Len(w) /\ q \in Nat \ {0}
  BY <1>1, <1>2 DEF EndsIn
<1>6. Agrees(F, q, w)
  <2> SUFFICES ASSUME NEW i \in 1 .. Len(w), q + i - 1 <= Len(F) PROVE F[q + i - 1] = w[i]
    BY DEF Agrees
  <2>1. q + i - 1 \in 1 .. Len(F) /\ q + i - 1 <= Len(G)
    BY <1>2, <1>4, <1>5
  <2>2. G[q + i - 1] = w[i]
    BY <1>5, <2>1 DEF Agrees
  <2> QED BY <1>2, <2>1, <2>2
<1>7. ~ FitsAt(F, q, w)
  BY <1>2, <1>3, <1>4, <1>5 DEF FitsAt
<1> QED BY <1>1, <1>6, <1>7 DEF NoneAt

(* Writing some items takes them from what is to be written.               *)
Limited(m, n, l) == n \in 0 .. l /\ (m = n \/ (m >= l /\ n = l))

Moved(F, s, n, m, H, r) == H = F \o SubSeq(s, 1, n) /\ r = SubSeq(s, m + 1, Len(s))

(* r is what is left of s, of length l, after n items.                     *)
RestOf(S, s, n, l, r) == r \in Seq(S) /\ Len(r) = l - n /\ \A i \in 1 .. l - n : r[i] = s[n + i]

LEMMA RestIs ==
  ASSUME NEW S, NEW s \in Seq(S), NEW n \in Nat, NEW l \in Nat, l = Len(s), n <= l
  PROVE  RestOf(S, s, n, l, SubSeq(s, n + 1, l))
<1>1. SubSeq(s, n + 1, l) \in Seq(S)
  OBVIOUS
<1>2. Len(SubSeq(s, n + 1, l)) = l - n
  OBVIOUS
<1>3. \A i \in 1 .. l - n : SubSeq(s, n + 1, l)[i] = s[n + i]
  OBVIOUS
<1> QED BY <1>1, <1>2, <1>3 DEF RestOf

LEMMA ItemsMove ==
  ASSUME NEW F \in Seq(Nat), NEW s \in Seq(Nat), NEW m \in Nat, NEW n, Limited(m, n, Len(s)),
         NEW H, NEW r, Moved(F, s, n, m, H, r)
  PROVE  r \in Seq(Nat) /\ H \in Seq(Nat) /\ H \o r = F \o s /\ \E u \in Seq(Nat) : Joint(H, F, u)
<1>1. PICK l : l = Len(s) /\ l \in Nat /\ n \in 0 .. l /\ (m = n \/ (m >= l /\ n = l))
  BY LenNat DEF Limited
<1>2. PICK u : u = SubSeq(s, 1, n) /\ r = SubSeq(s, m + 1, l)
  BY <1>1 DEF Moved
<1>3. u \in Seq(Nat) /\ Len(u) = n /\ \A i \in 1 .. n : u[i] = s[i]
  BY <1>1, <1>2
<1>4. r \in Seq(Nat) /\ Len(r) = l - n /\ \A i \in 1 .. l - n : r[i] = s[n + i]
  <2>1. CASE m = n
    <3>1. r = SubSeq(s, n + 1, l) /\ n + 1 \in 1 .. l + 1
      BY <1>1, <1>2, <2>1
    <3>2. n \in Nat /\ l \in Nat /\ n <= l
      BY <1>1
    <3>3. RestOf(Nat, s, n, l, SubSeq(s, n + 1, l))
      BY Zenon, <1>1, <3>2, RestIs
    <3>4. RestOf(Nat, s, n, l, r)
      BY Zenon, <3>1, <3>3
    <3> QED BY Zenon, <3>4 DEF RestOf
  <2>2. CASE m >= l /\ n = l
    <3>1. r = << >>
      BY <1>1, <1>2, <2>2
    <3> QED BY <1>1, <2>2, <3>1
  <2> QED BY <1>1, <2>1, <2>2
<1>5. H = F \o u
  BY <1>2 DEF Moved
<1>6. /\ H \in Seq(Nat) /\ Len(H) = Len(F) + n /\ Len(F) \in Nat
      /\ \A i \in 1 .. Len(F) : H[i] = F[i]
      /\ \A i \in 1 .. n : H[Len(F) + i] = s[i]
  <2>1. /\ H \in Seq(Nat) /\ Len(H) = Len(F) + Len(u) /\ Len(F) \in Nat
        /\ \A i \in 1 .. Len(F) : H[i] = F[i]
        /\ \A i \in 1 .. Len(u) : H[Len(F) + i] = u[i]
    <3>1. u \in Seq(Nat)
      BY <1>3
    <3> QED BY <1>5, <3>1, Joined
  <2> QED BY <1>3, <2>1
<1>7. PICK G : G = F \o s
  OBVIOUS
<1>8. /\ G \in Seq(Nat) /\ Len(G) = Len(F) + l
      /\ \A i \in 1 .. Len(F) : G[i] = F[i]
      /\ \A i \in 1 .. l : G[Len(F) + i] = s[i]
  BY <1>1, <1>7, Joined
<1>9. PICK E : E = H \o r
  OBVIOUS
<1>10. /\ E \in Seq(Nat) /\ Len(E) = Len(H) + Len(r)
       /\ \A i \in 1 .. Len(H) : E[i] = H[i]
       /\ \A i \in 1 .. Len(r) : E[Len(H) + i] = r[i]
  <2>1. H \in Seq(Nat) /\ r \in Seq(Nat)
    BY <1>4, <1>6
  <2> QED BY <1>9, <2>1, Joined
<1>11. PICK f : f = Len(F) /\ f \in Nat
  BY <1>6
<1>12. Len(E) = f + l /\ Len(G) = f + l
  BY <1>1, <1>4, <1>6, <1>8, <1>10, <1>11
<1>13. ASSUME NEW i \in 1 .. f + l PROVE E[i] = G[i]
  <2>1. CASE i <= f
    <3>1. i \in 1 .. Len(F) /\ i \in 1 .. Len(H)
      BY <1>1, <1>6, <1>11, <2>1
    <3> QED BY <1>6, <1>8, <1>10, <3>1
  <2>2. CASE i > f /\ i <= f + n
    <3>1. PICK j : j = i - f
      OBVIOUS
    <3>2. j \in 1 .. n /\ j \in 1 .. l /\ i = f + j /\ i \in 1 .. Len(H)
      <4>1. Len(H) = f + n /\ n \in Nat /\ n <= l
        BY <1>1, <1>6, <1>11
      <4> QED BY <1>1, <1>11, <2>2, <3>1, <4>1
    <3> QED BY <1>6, <1>8, <1>10, <1>11, <3>2
  <2>3. CASE i > f + n
    <3>1. PICK j : j = i - (f + n)
      OBVIOUS
    <3>2. j \in 1 .. l - n /\ n + j \in 1 .. l /\ i = f + (n + j) /\ i = Len(H) + j /\ j \in 1 .. Len(r)
      BY <1>1, <1>4, <1>6, <1>11, <2>3, <3>1
    <3>3. E[i] = r[j] /\ r[j] = s[n + j]
      BY <1>4, <1>10, <3>2
    <3>4. G[i] = s[n + j]
      BY <1>8, <1>11, <3>2
    <3> QED BY <3>3, <3>4
  <2> QED BY <1>1, <1>11, <2>1, <2>2, <2>3
<1>14. E = G
  <2>1. PICK e : e = f + l /\ e \in Nat
    BY <1>1, <1>11
  <2>2. E \in Seq(Nat) /\ Len(E) = e /\ G \in Seq(Nat) /\ Len(G) = e /\ \A i \in 1 .. e : E[i] = G[i]
    BY <1>8, <1>10, <1>12, <1>13, <2>1
  <2> QED BY <2>2
<1> QED BY <1>3, <1>4, <1>5, <1>6, <1>7, <1>9, <1>14 DEF Joint

-----------------------------------------------------------------------------
(* What the file holds: the whole tries from its start, and behind them    *)
(* nothing, something that is no trie, or the trie that is being written.  *)
EndSound(q) ==
  /\ Idle => NoneAt(file, q) /\ (~ torn => Len(file) = q - 1)
  /\ ~ Idle => /\ trie \in Tries /\ torn /\ EndsIn(file \o toWrite, q, trie)
               /\ last = Called("save", FALSE)

FileTypes ==
  /\ file \in Seq(Nat) /\ toWrite \in Seq(Nat) /\ trie \in Tries \cup {NoTrie}
  /\ whole \in Seq(Tries) /\ taken \in 0 .. Len(whole) /\ torn \in BOOLEAN

FileSound ==
  /\ FileTypes
  /\ \E b : Placed(b, file, whole) /\ cursor = b[taken] /\ EndSound(b[Len(whole)])
  /\ ReadsWhatWasWritten

LEMMA Nothing ==
  ASSUME NEW F \in Seq(Nat)
  PROVE  Placed([k \in 0 .. 0 |-> 1], F, << >>) /\ Len(<< >>) = 0 /\ << >> \in Seq(Tries)
<1>1. Len(<< >>) = 0
  OBVIOUS
<1>2. PICK b : b = [k \in 0 .. 0 |-> 1]
  OBVIOUS
<1>3. b \in [0 .. 0 -> Nat \ {0}] /\ b[0] = 1
  BY <1>2
<1>4. Placed(b, F, << >>)
  BY <1>1, <1>3 DEF Placed
<1> QED BY <1>1, <1>2, <1>4

LEMMA EndPlace ==
  ASSUME FileTypes, NEW b, Placed(b, file, whole)
  PROVE  /\ b[Len(whole)] \in 1 .. Len(file) + 1 /\ b[Len(whole)] \in Nat \ {0}
         /\ b[taken] \in 1 .. Len(file) + 1 /\ Len(whole) \in Nat /\ b[0] = 1
<1>1. Len(whole) \in 0 .. Len(whole) /\ Len(whole) \in Nat
  BY LenNat DEF FileTypes
<1>2. taken \in 0 .. Len(whole) /\ file \in Seq(Nat) /\ whole \in Seq(Tries)
  BY DEF FileTypes
<1> QED BY <1>1, <1>2, PlacesAre DEF Placed

LEMMA FileStarts == FileInit => FileSound
<1> SUFFICES ASSUME FileInit PROVE FileSound
  OBVIOUS
<1> USE DEF FileInit
<1>1. file \in Seq(Nat) /\ toWrite = << >> /\ toWrite \in Seq(Nat) /\ Idle
  <2>1. << >> \in Seq(Nat) /\ <<ForeignItem>> \in Seq(Nat)
    BY DEF ForeignItem
  <2>2. file = << >> \/ file = <<ForeignItem>>
    OBVIOUS
  <2>3. toWrite = << >>
    OBVIOUS
  <2> QED BY <2>1, <2>2, <2>3 DEF Idle
<1>2. FileTypes
  <2>1. 0 \in 0 .. Len(whole) /\ whole \in Seq(Tries)
    BY <1>1, Nothing
  <2> QED BY <1>1, <2>1 DEF FileTypes
<1>3. PICK b : Placed(b, file, whole) /\ b = [k \in 0 .. 0 |-> 1] /\ Len(whole) = 0
  BY <1>1, Nothing
<1>4. b[0] = 1
  BY <1>3
<1>5. EndSound(1)
  <2>1. NoneAt(file, 1)
    <3>1. 1 <= Len(file) => file[1] # HeaderItem
      <4>1. CASE file = << >>
        BY <4>1
      <4>2. CASE file = <<ForeignItem>>
        BY <4>2 DEF ForeignItem, HeaderItem
      <4> QED BY <4>1, <4>2
    <3> QED BY <3>1 DEF NoneAt
  <2>2. ~ torn => Len(file) = 1 - 1
    <3>1. ~ torn => file = << >>
      BY Zenon
    <3> QED BY <3>1
  <2> QED BY <1>1, <2>1, <2>2 DEF EndSound
<1>6. ReadsWhatWasWritten
  <2>1. last.call = "none"
    BY DEF Called
  <2>2. Called("read", TRUE).call = "read" /\ Called("read", FALSE).call = "read"
    BY DEF Called
  <2> QED BY <2>1, <2>2 DEF ReadsWhatWasWritten
<1> QED BY <1>2, <1>3, <1>4, <1>5, <1>6 DEF FileSound

(* Every call keeps what the file holds in order.                          *)
LEMMA BuildKeeps ==
  ASSUME FileSound, BuildTrie
  PROVE  FileSound'
<1> USE DEF BuildTrie
<1>1. FileTypes'
  BY DEF FileSound, FileTypes
<1>2. PICK b : Placed(b, file, whole) /\ cursor = b[taken] /\ EndSound(b[Len(whole)])
  BY DEF FileSound
<1>3. Placed(b, file', whole') /\ cursor' = b[taken']
  BY <1>2
<1>4. EndSound(b[Len(whole)])'
  BY <1>2 DEF EndSound, Idle, NoneAt
<1>5. ReadsWhatWasWritten'
  <2>1. last'.call = "build"
    BY DEF Called
  <2>2. Called("read", TRUE).call = "read" /\ Called("read", FALSE).call = "read"
    BY DEF Called
  <2> QED BY <2>1, <2>2 DEF ReadsWhatWasWritten
<1>6. (\E c : Placed(c, file, whole) /\ cursor = c[taken] /\ EndSound(c[Len(whole)]))'
  BY <1>3, <1>4
<1> QED BY <1>1, <1>5, <1>6 DEF FileSound

LEMMA BeginIs ==
  ASSUME FileSound, Begin
  PROVE  /\ trie \in Tries /\ trie' = trie /\ toWrite' = TrieText(trie) /\ toWrite' \in Seq(Nat) /\ ~ Idle'
         /\ torn' = TRUE /\ last' = Called("save", FALSE) /\ ReadsWhatWasWritten'
<1> USE DEF Begin
<1>1. trie \in Tries
  BY DEF FileSound, FileTypes
<1>2. toWrite' = TrieText(trie)
  BY DEF TrieText
<1>3. toWrite' \in Seq(Nat) /\ Len(toWrite') = Len(TrieItems(trie)) + 1 /\ Len(TrieItems(trie)) \in Nat
  BY <1>1, <1>2, TextIs, LenNat
<1>4. toWrite' # << >>
  <2>1. Len(toWrite') # 0
    BY <1>3
  <2> QED BY <2>1
<1>5. ReadsWhatWasWritten'
  <2>1. last'.call = "save"
    BY DEF Called
  <2>2. Called("read", TRUE).call = "read" /\ Called("read", FALSE).call = "read"
    BY DEF Called
  <2> QED BY <2>1, <2>2 DEF ReadsWhatWasWritten
<1> QED BY <1>1, <1>2, <1>3, <1>4, <1>5 DEF Idle

LEMMA JointIs ==
  ASSUME NEW s \in Seq(Nat), NEW r \in Seq(Nat), NEW w, Joint(w, s, r)
  PROVE  /\ w \in Seq(Nat) /\ Len(w) = Len(s) + Len(r) /\ Len(s) \in Nat /\ Len(r) \in Nat
         /\ \A i \in 1 .. Len(s) : w[i] = s[i]
         /\ \A i \in 1 .. Len(r) : w[Len(s) + i] = r[i]
BY Joined DEF Joint

EndsBefore(F, q) == Len(F) = q - 1

LEMMA TextEnds ==
  ASSUME NEW F \in Seq(Nat), NEW t \in Tries, NEW q \in Nat \ {0}, EndsBefore(F, q)
  PROVE  EndsIn(F \o TrieText(t), q, t)
<1>1. PICK w, G : w = TrieText(t) /\ G = F \o w
  OBVIOUS
<1>2. w \in Seq(Nat)
  BY <1>1, TextIs
<1>3. /\ G \in Seq(Nat) /\ Len(G) = Len(F) + Len(w) /\ Len(w) \in Nat
      /\ \A i \in 1 .. Len(w) : G[Len(F) + i] = w[i]
  <2>1. Joint(G, F, w)
    BY <1>1 DEF Joint
  <2> QED BY <1>2, <2>1, JointIs
<1>4. Agrees(G, q, w)
  <2> SUFFICES ASSUME NEW i \in 1 .. Len(w) PROVE G[q + i - 1] = w[i]
    BY DEF Agrees
  <2>1. q + i - 1 = Len(F) + i
    BY <1>3 DEF EndsBefore
  <2> QED BY <1>3, <2>1
<1>5. Len(G) = q - 1 + Len(w)
  BY <1>3 DEF EndsBefore
<1> QED BY <1>1, <1>4, <1>5 DEF EndsIn

LEMMA SaveKeeps ==
  ASSUME FileSound, Save
  PROVE  FileSound'
<1> USE DEF Save
<1>1. /\ trie \in Tries /\ trie' = trie /\ toWrite' = TrieText(trie) /\ toWrite' \in Seq(Nat) /\ ~ Idle'
      /\ torn' = TRUE /\ last' = Called("save", FALSE) /\ ReadsWhatWasWritten'
  BY BeginIs
<1>2. file' = << >> /\ file' \in Seq(Nat) /\ cursor' = 1 /\ whole' = << >> /\ taken' = 0 /\ Len(file') = 0
  OBVIOUS
<1>3. PICK b : Placed(b, file', whole') /\ b = [k \in 0 .. 0 |-> 1] /\ Len(whole') = 0 /\ whole' \in Seq(Tries)
  BY <1>2, Nothing
<1>4. b[0] = 1
  BY <1>3
<1>5. FileTypes'
  BY <1>1, <1>2, <1>3 DEF FileTypes
<1>6. EndSound(1)'
  <2>1. EndsIn(file' \o TrieText(trie), 1, trie)
    <3>1. PICK F, q : F = file' /\ q = 1
      OBVIOUS
    <3>2. F \in Seq(Nat) /\ q \in Nat \ {0} /\ EndsBefore(F, q)
      BY <1>2, <3>1 DEF EndsBefore
    <3>3. EndsIn(F \o TrieText(trie), q, trie)
      BY <1>1, <3>2, TextEnds
    <3> QED BY <3>1, <3>3
  <2> QED BY <1>1, <2>1 DEF EndSound
<1>7. (\E c : Placed(c, file, whole) /\ cursor = c[taken] /\ EndSound(c[Len(whole)]))'
  BY <1>2, <1>3, <1>4, <1>6
<1> QED BY <1>1, <1>5, <1>7 DEF FileSound

LEMMA WriteKeeps ==
  ASSUME FileSound, WriteStream
  PROVE  FileSound'
<1> USE DEF WriteStream
<1>1. /\ trie \in Tries /\ trie' = trie /\ toWrite' = TrieText(trie) /\ toWrite' \in Seq(Nat) /\ ~ Idle'
      /\ torn' = TRUE /\ last' = Called("save", FALSE) /\ ReadsWhatWasWritten'
  BY BeginIs
<1>2. file' = file /\ cursor' = cursor /\ whole' = whole /\ taken' = taken /\ ~ torn /\ Idle /\ FileTypes
  BY DEF FileSound, Begin
<1>3. PICK b : Placed(b, file, whole) /\ cursor = b[taken] /\ EndSound(b[Len(whole)])
  BY DEF FileSound
<1>4. FileTypes'
  BY <1>1, <1>2 DEF FileTypes
<1>5. EndSound(b[Len(whole)])'
  <2>1. PICK q : q = b[Len(whole)] /\ q \in Nat \ {0}
    BY <1>2, <1>3, EndPlace
  <2>2. EndsBefore(file, q) /\ file \in Seq(Nat)
    BY <1>2, <1>3, <2>1 DEF EndSound, FileTypes, EndsBefore
  <2>3. EndsIn(file \o TrieText(trie), q, trie)
    BY <1>1, <2>1, <2>2, TextEnds
  <2> QED BY <1>1, <1>2, <2>1, <2>3 DEF EndSound
<1>6. (\E c : Placed(c, file, whole) /\ cursor = c[taken] /\ EndSound(c[Len(whole)]))'
  BY <1>2, <1>3, <1>5
<1> QED BY <1>1, <1>4, <1>6 DEF FileSound

LEMMA WriteItemsKeeps ==
  ASSUME FileSound, WriteItems
  PROVE  FileSound'
<1>1. FileTypes /\ ~ Idle /\ Burst \in Nat \ {0}
  BY FileAssumption DEF FileSound, WriteItems
<1>2. PICK b : Placed(b, file, whole) /\ cursor = b[taken] /\ EndSound(b[Len(whole)])
  BY DEF FileSound
<1>3. PICK q, n, s, G : q = b[Len(whole)] /\ n = (IF Len(toWrite) < Burst THEN Len(toWrite) ELSE Burst)
                        /\ s = SubSeq(toWrite, 1, n) /\ G = file \o toWrite
  OBVIOUS
<1>4. trie \in Tries /\ torn /\ EndsIn(G, q, trie) /\ last = Called("save", FALSE)
  BY <1>1, <1>2, <1>3 DEF EndSound
<1>5. file \in Seq(Nat) /\ toWrite \in Seq(Nat) /\ whole \in Seq(Tries) /\ taken \in 0 .. Len(whole)
      /\ G \in Seq(Nat)
  <2>1. file \in Seq(Nat) /\ toWrite \in Seq(Nat) /\ whole \in Seq(Tries) /\ taken \in 0 .. Len(whole)
    BY <1>1 DEF FileTypes
  <2> QED BY <1>3, <2>1
<1>6. Limited(Burst, n, Len(toWrite))
  <2>1. Len(toWrite) \in Nat
    BY <1>5, LenNat
  <2> QED BY <1>1, <1>3, <2>1 DEF Limited
<1>7. /\ file' = file \o s /\ toWrite' = SubSeq(toWrite, Burst + 1, Len(toWrite))
      /\ trie' = trie /\ cursor' = cursor /\ taken' = taken
  BY <1>3 DEF WriteItems
<1>8. /\ toWrite' \in Seq(Nat) /\ file' \in Seq(Nat) /\ file' \o toWrite' = G
      /\ \E u \in Seq(Nat) : Joint(file', file, u)
  <2>1. PICK m, l : m = Burst /\ l = Len(toWrite) /\ m \in Nat /\ Limited(m, n, Len(toWrite))
    BY <1>1, <1>6
  <2>2. PICK H, r : H = file' /\ r = toWrite' /\ Moved(file, toWrite, n, m, H, r)
    BY <1>3, <1>7, <2>1 DEF Moved
  <2>3. r \in Seq(Nat) /\ H \in Seq(Nat) /\ H \o r = file \o toWrite /\ \E u \in Seq(Nat) : Joint(H, file, u)
    <3>1. PICK F, t : F = file /\ t = toWrite
      OBVIOUS
    <3>2. F \in Seq(Nat) /\ t \in Seq(Nat) /\ m \in Nat /\ Limited(m, n, Len(t)) /\ Moved(F, t, n, m, H, r)
      BY <1>5, <2>1, <2>2, <3>1
    <3>3. r \in Seq(Nat) /\ H \in Seq(Nat) /\ H \o r = F \o t /\ \E u \in Seq(Nat) : Joint(H, F, u)
      BY <3>2, ItemsMove
    <3> QED BY <3>1, <3>3
  <2> QED BY <1>3, <2>2, <2>3
<1>9. Placed(b, file', whole)
  BY <1>2, <1>5, <1>8, PlacedGrows
<1>10. CASE toWrite' = << >>
  <2>1. whole' = Append(whole, trie) /\ torn' = FALSE /\ last' = Called("save", TRUE)
    BY <1>10 DEF WriteItems
  <2>2. file' = G
    BY <1>8, <1>10
  <2>3. PICK c : /\ Placed(c, file', whole') /\ c[Len(whole) + 1] = Len(file') + 1
                 /\ \A k \in 0 .. Len(whole) : c[k] = b[k]
    <3>1. Placed(b, G, whole) /\ EndsIn(G, b[Len(whole)], trie)
      BY <1>3, <1>4, <1>9, <2>2
    <3>2. \E c : /\ Placed(c, G, Append(whole, trie)) /\ c[Len(whole) + 1] = Len(G) + 1
                 /\ \A k \in 0 .. Len(whole) : c[k] = b[k]
      BY <1>4, <1>5, <3>1, PlacedMore
    <3> QED BY <2>1, <2>2, <3>2
  <2>4. whole' \in Seq(Tries) /\ Len(whole') = Len(whole) + 1 /\ Len(whole) \in Nat
    BY <1>4, <1>5, <2>1
  <2>5. cursor' = c[taken']
    BY <1>2, <1>5, <1>7, <2>3
  <2>6. FileTypes'
    <3>1. taken' \in 0 .. Len(whole')
      BY <1>5, <1>7, <2>4
    <3> QED BY <1>4, <1>7, <1>8, <2>1, <2>4, <3>1 DEF FileTypes
  <2>7. EndSound(c[Len(whole)])'
    <3>1. PICK e : e = c[Len(whole')] /\ e = Len(file') + 1
      BY <2>3, <2>4
    <3>2. ~ (e <= Len(file')) /\ Len(file') = e - 1
      <4>1. Len(file') \in Nat
        BY <1>8, LenNat
      <4> QED BY <3>1, <4>1
    <3>3. NoneAt(file', e) /\ Idle'
      BY <1>10, <3>2 DEF NoneAt, Idle
    <3> QED BY <3>1, <3>2, <3>3 DEF EndSound
  <2>8. ReadsWhatWasWritten'
    <3>1. last'.call = "save"
      BY <2>1 DEF Called
    <3>2. Called("read", TRUE).call = "read" /\ Called("read", FALSE).call = "read"
      BY DEF Called
    <3> QED BY <3>1, <3>2 DEF ReadsWhatWasWritten
  <2>9. (\E e : Placed(e, file, whole) /\ cursor = e[taken] /\ EndSound(e[Len(whole)]))'
    BY <2>3, <2>5, <2>7
  <2> QED BY <2>6, <2>8, <2>9 DEF FileSound
<1>11. CASE toWrite' # << >>
  <2>1. whole' = whole /\ torn' = torn /\ last' = last
    BY <1>11 DEF WriteItems
  <2>2. FileTypes'
    BY <1>1, <1>7, <1>8, <2>1 DEF FileTypes
  <2>3. EndSound(b[Len(whole)])'
    <3>1. ~ Idle'
      BY <1>11 DEF Idle
    <3> QED BY <1>3, <1>4, <1>7, <1>8, <2>1, <3>1 DEF EndSound
  <2>4. ReadsWhatWasWritten'
    <3>1. last'.call = "save"
      BY <1>4, <2>1 DEF Called
    <3>2. Called("read", TRUE).call = "read" /\ Called("read", FALSE).call = "read"
      BY DEF Called
    <3> QED BY <3>1, <3>2 DEF ReadsWhatWasWritten
  <2>5. (\E e : Placed(e, file, whole) /\ cursor = e[taken] /\ EndSound(e[Len(whole)]))'
    BY <1>2, <1>7, <1>9, <2>1, <2>3
  <2> QED BY <2>2, <2>4, <2>5 DEF FileSound
<1> QED BY <1>10, <1>11

(* A write that fails or a process that dies leaves no trie behind the     *)
(* whole ones.                                                             *)
LEMMA EndedEarly ==
  ASSUME FileTypes, NEW b, Placed(b, file, whole), EndSound(b[Len(whole)])
  PROVE  NoneAt(file, b[Len(whole)])
<1>1. CASE Idle
  BY <1>1 DEF EndSound
<1>2. CASE ~ Idle
  <2>1. PICK q : q = b[Len(whole)] /\ q \in 1 .. Len(file) + 1
    BY EndPlace
  <2>2. file \in Seq(Nat) /\ toWrite \in Seq(Nat) /\ toWrite # << >>
    BY <1>2 DEF FileTypes, Idle
  <2>3. trie \in Tries /\ EndsIn(file \o toWrite, q, trie)
    BY <1>2, <2>1 DEF EndSound
  <2>4. NoneAt(file, q)
    BY <2>1, <2>2, <2>3, CutShort
  <2> QED BY <2>1, <2>4
<1> QED BY <1>1, <1>2

LEMMA FailKeeps ==
  ASSUME FileSound, WriteFails
  PROVE  FileSound'
<1>1. FileTypes /\ ~ Idle /\ toWrite' = << >> /\ toWrite' \in Seq(Nat) /\ Idle' /\ ReadsWhatWasWritten
  BY DEF FileSound, WriteFails, Idle
<1>2. trie' = trie /\ file' = file /\ cursor' = cursor /\ whole' = whole /\ torn' = torn
      /\ taken' = taken /\ last' = last
  BY DEF WriteFails
<1>3. PICK b : Placed(b, file, whole) /\ cursor = b[taken] /\ EndSound(b[Len(whole)])
  BY DEF FileSound
<1>4. NoneAt(file, b[Len(whole)]) /\ torn
  BY <1>1, <1>3, EndedEarly DEF EndSound
<1>5. FileTypes'
  BY <1>1, <1>2 DEF FileTypes
<1>6. EndSound(b[Len(whole)])'
  BY <1>1, <1>2, <1>4 DEF EndSound
<1>7. ReadsWhatWasWritten'
  BY <1>1, <1>2 DEF ReadsWhatWasWritten
<1>8. (\E e : Placed(e, file, whole) /\ cursor = e[taken] /\ EndSound(e[Len(whole)]))'
  BY <1>2, <1>3, <1>6
<1> QED BY <1>5, <1>7, <1>8 DEF FileSound

LEMMA CrashKeeps ==
  ASSUME FileSound, Crash
  PROVE  FileSound'
<1>1. FileTypes /\ toWrite' = << >> /\ toWrite' \in Seq(Nat) /\ Idle'
  BY DEF FileSound, Crash, Idle
<1>2. /\ trie' = NoTrie /\ file' = file /\ cursor' = 1 /\ whole' = whole /\ torn' = torn /\ taken' = 0
      /\ last' = Called("none", TRUE)
  BY DEF Crash
<1>3. PICK b : Placed(b, file, whole) /\ cursor = b[taken] /\ EndSound(b[Len(whole)])
  BY DEF FileSound
<1>4. NoneAt(file, b[Len(whole)])
  BY <1>1, <1>3, EndedEarly
<1>5. b[0] = 1 /\ Len(whole) \in Nat
  BY <1>1, <1>3, EndPlace
<1>6. FileTypes'
  <2>1. taken' \in 0 .. Len(whole')
    BY <1>2, <1>5
  <2> QED BY <1>1, <1>2, <2>1 DEF FileTypes
<1>7. EndSound(b[Len(whole)])'
  <2>1. ~ torn => Len(file) = b[Len(whole)] - 1
    BY <1>3 DEF EndSound
  <2> QED BY <1>1, <1>2, <1>4, <2>1 DEF EndSound
<1>8. ReadsWhatWasWritten'
  <2>1. last'.call = "none"
    BY <1>2 DEF Called
  <2>2. Called("read", TRUE).call = "read" /\ Called("read", FALSE).call = "read"
    BY DEF Called
  <2> QED BY <2>1, <2>2 DEF ReadsWhatWasWritten
<1>9. (\E e : Placed(e, file, whole) /\ cursor = e[taken] /\ EndSound(e[Len(whole)]))'
  BY <1>2, <1>3, <1>5, <1>7
<1> QED BY <1>6, <1>8, <1>9 DEF FileSound

-----------------------------------------------------------------------------
(* A reading takes what stands where it begins.                            *)
LEMMA TrieKept ==
  ASSUME FileTypes, NEW o, o.ok => o.levels \in Tries
  PROVE  Swapped(o, trie) \in Tries \cup {NoTrie} /\ (o.ok => Swapped(o, trie) = o.levels)
<1>1. CASE o.ok
  BY <1>1 DEF Swapped
<1>2. CASE ~ o.ok
  BY <1>2 DEF Swapped, FileTypes
<1> QED BY <1>1, <1>2

LEMMA ReadingIs ==
  ASSUME FileTypes, Idle, NEW b, Placed(b, file, whole), EndSound(b[Len(whole)]), NEW k \in 0 .. Len(whole)
  PROVE  LET o == ReadTrie(file, b[k]) IN
         IF k < Len(whole) THEN o.ok /\ o.levels = whole[k + 1] /\ o.pos = b[k + 1] /\ k + 1 \in 1 .. Len(whole)
         ELSE ~ o.ok
<1>1. file \in Seq(Nat) /\ whole \in Seq(Tries)
  BY DEF FileTypes
<1>2. Len(whole) \in Nat
  BY <1>1, LenNat
<1>3. CASE k < Len(whole)
  <2>1. PICK j : j = k + 1 /\ j \in 1 .. Len(whole) /\ j - 1 = k
    BY <1>2, <1>3
  <2>2. LET o == ReadTrie(file, b[j - 1]) IN o.ok /\ o.levels = whole[j] /\ o.pos = b[j]
    <3>1. PICK F, W : F = file /\ W = whole
      OBVIOUS
    <3>2. F \in Seq(Nat) /\ W \in Seq(Tries) /\ Placed(b, F, W) /\ j \in 1 .. Len(W)
      BY <1>1, <2>1, <3>1
    <3>3. LET o == ReadTrie(F, b[j - 1]) IN o.ok /\ o.levels = W[j] /\ o.pos = b[j]
      BY <3>2, WholeReads
    <3> QED BY <3>1, <3>3
  <2> QED BY <1>3, <2>1, <2>2
<1>4. CASE ~ (k < Len(whole))
  <2>1. k = Len(whole)
    BY <1>2, <1>4
  <2>2. PICK q : q = b[Len(whole)] /\ q \in 1 .. Len(file) + 1 /\ NoneAt(file, q)
    BY EndPlace DEF EndSound
  <2>3. ~ ReadTrie(file, q).ok
    BY <1>1, <2>2, NoneReads
  <2> QED BY <1>4, <2>1, <2>2, <2>3
<1> QED BY <1>3, <1>4

LEMMA LoadKeeps ==
  ASSUME FileSound, Load
  PROVE  FileSound'
<1>1. FileTypes /\ Idle
  BY DEF FileSound, Load
<1>2. PICK b : Placed(b, file, whole) /\ cursor = b[taken] /\ EndSound(b[Len(whole)])
  BY DEF FileSound
<1>3. PICK o : o = ReadTrie(file, 1)
  OBVIOUS
<1>4. /\ trie' = Swapped(o, trie) /\ last' = Called("load", o.ok)
      /\ file' = file /\ toWrite' = toWrite /\ cursor' = cursor /\ whole' = whole
      /\ torn' = torn /\ taken' = taken
  BY <1>3 DEF Load
<1>5. IF 0 < Len(whole) THEN o.ok /\ o.levels = whole[1] /\ 1 \in 1 .. Len(whole) ELSE ~ o.ok
  <2>1. b[0] = 1 /\ 0 \in 0 .. Len(whole)
    BY <1>1, <1>2, EndPlace
  <2>2. LET r == ReadTrie(file, b[0]) IN
        IF 0 < Len(whole)
        THEN r.ok /\ r.levels = whole[0 + 1] /\ r.pos = b[0 + 1] /\ 0 + 1 \in 1 .. Len(whole)
        ELSE ~ r.ok
    BY <1>1, <1>2, <2>1, ReadingIs
  <2>3. 0 + 1 = 1
    OBVIOUS
  <2> QED BY <1>3, <2>1, <2>2, <2>3
<1>6. 0 < Len(whole) <=> whole # << >>
  <2>1. whole \in Seq(Tries)
    BY <1>1 DEF FileTypes
  <2> QED BY <2>1
<1>7. o.ok => o.levels \in Tries
  <2>1. whole \in Seq(Tries)
    BY <1>1 DEF FileTypes
  <2> QED BY <1>5, <2>1
<1>8. trie' \in Tries \cup {NoTrie} /\ (o.ok => trie' = o.levels)
  BY <1>1, <1>4, <1>7, TrieKept
<1>9. FileTypes'
  BY <1>1, <1>4, <1>8 DEF FileTypes
<1>10. EndSound(b[Len(whole)])'
  BY <1>1, <1>2, <1>4 DEF EndSound, Idle
<1>11. ReadsWhatWasWritten'
  <2>1. last'.call = "load" /\ last'.ok = o.ok
    BY <1>4 DEF Called
  <2>2. Called("read", TRUE).call = "read" /\ Called("read", FALSE).call = "read"
    BY DEF Called
  <2>3. last'.ok <=> whole' # << >>
    <3>1. o.ok <=> whole # << >>
      BY <1>5, <1>6
    <3> QED BY <1>4, <2>1, <3>1
  <2>4. last'.ok => trie' = whole'[1]
    <3>1. o.ok => trie' = whole[1]
      BY <1>5, <1>8
    <3> QED BY <1>4, <2>1, <3>1
  <2> QED BY <2>1, <2>2, <2>3, <2>4 DEF ReadsWhatWasWritten
<1>12. (\E e : Placed(e, file, whole) /\ cursor = e[taken] /\ EndSound(e[Len(whole)]))'
  BY <1>2, <1>4, <1>10
<1> QED BY <1>9, <1>11, <1>12 DEF FileSound

LEMMA ReadStreamKeeps ==
  ASSUME FileSound, ReadStream
  PROVE  FileSound'
<1>1. FileTypes /\ Idle
  BY DEF FileSound, ReadStream
<1>2. PICK b : Placed(b, file, whole) /\ cursor = b[taken] /\ EndSound(b[Len(whole)])
  BY DEF FileSound
<1>3. PICK o : o = ReadTrie(file, cursor)
  OBVIOUS
<1>4. /\ trie' = Swapped(o, trie) /\ last' = Called("read", o.ok)
      /\ file' = file /\ toWrite' = toWrite /\ whole' = whole /\ torn' = torn
      /\ IF o.ok THEN cursor' = o.pos /\ taken' = taken + 1 ELSE cursor' = cursor /\ taken' = taken
  BY <1>3 DEF ReadStream
<1>5. taken \in 0 .. Len(whole) /\ whole \in Seq(Tries) /\ Len(whole) \in Nat
  BY <1>1, LenNat DEF FileTypes
<1>6. IF taken < Len(whole)
      THEN o.ok /\ o.levels = whole[taken + 1] /\ o.pos = b[taken + 1] /\ taken + 1 \in 1 .. Len(whole)
      ELSE ~ o.ok
  <2>1. LET r == ReadTrie(file, b[taken]) IN
        IF taken < Len(whole)
        THEN r.ok /\ r.levels = whole[taken + 1] /\ r.pos = b[taken + 1] /\ taken + 1 \in 1 .. Len(whole)
        ELSE ~ r.ok
    BY <1>1, <1>2, <1>5, ReadingIs
  <2> QED BY <1>2, <1>3, <2>1
<1>7. o.ok => o.levels \in Tries
  BY <1>5, <1>6
<1>8. trie' \in Tries \cup {NoTrie} /\ (o.ok => trie' = o.levels)
  BY <1>1, <1>4, <1>7, TrieKept
<1>9. FileTypes' /\ cursor' = b[taken']
  <2>1. CASE o.ok
    <3>1. taken' = taken + 1 /\ cursor' = b[taken + 1] /\ taken + 1 \in 0 .. Len(whole)
      BY <1>4, <1>5, <1>6, <2>1
    <3> QED BY <1>1, <1>4, <1>8, <3>1 DEF FileTypes
  <2>2. CASE ~ o.ok
    BY <1>1, <1>2, <1>4, <1>8, <2>2 DEF FileTypes
  <2> QED BY <2>1, <2>2
<1>10. EndSound(b[Len(whole)])'
  BY <1>1, <1>2, <1>4 DEF EndSound, Idle
<1>11. ReadsWhatWasWritten'
  <2>1. last'.call = "read" /\ last'.ok = o.ok
    BY <1>4 DEF Called
  <2>2. last' = Called("read", TRUE) => o.ok
    <3>1. Called("read", TRUE).ok = TRUE
      BY DEF Called
    <3> QED BY <2>1, <3>1, Zenon
  <2>3. last' = Called("read", FALSE) => ~ o.ok
    <3>1. Called("read", FALSE).ok = FALSE
      BY DEF Called
    <3> QED BY <2>1, <3>1, Zenon
  <2>4. o.ok => taken' <= Len(whole') /\ trie' = whole'[taken']
    BY <1>4, <1>5, <1>6, <1>8
  <2>5. ~ o.ok => taken' = Len(whole')
    BY <1>4, <1>5, <1>6
  <2>6. last'.call # "load"
    BY <2>1
  <2> QED BY <2>2, <2>3, <2>4, <2>5, <2>6 DEF ReadsWhatWasWritten
<1>12. (\E e : Placed(e, file, whole) /\ cursor = e[taken] /\ EndSound(e[Len(whole)]))'
  BY <1>2, <1>4, <1>9, <1>10
<1> QED BY <1>9, <1>11, <1>12 DEF FileSound

LEMMA FileStays == FileSound /\ [FileNext]_fileVars => FileSound'
<1> SUFFICES ASSUME FileSound, [FileNext]_fileVars PROVE FileSound'
  OBVIOUS
<1>1. CASE BuildTrie
  BY <1>1, BuildKeeps
<1>2. CASE Save
  BY <1>2, SaveKeeps
<1>3. CASE WriteStream
  BY <1>3, WriteKeeps
<1>4. CASE WriteItems
  BY <1>4, WriteItemsKeeps
<1>5. CASE WriteFails
  BY <1>5, FailKeeps
<1>6. CASE Crash
  BY <1>6, CrashKeeps
<1>7. CASE Load
  BY <1>7, LoadKeeps
<1>8. CASE ReadStream
  BY <1>8, ReadStreamKeeps
<1>9. CASE UNCHANGED fileVars
  BY <1>9 DEF fileVars, FileSound, FileTypes, EndSound, Idle, ReadsWhatWasWritten
<1> QED BY <1>1, <1>2, <1>3, <1>4, <1>5, <1>6, <1>7, <1>8, <1>9 DEF FileNext

(* A load gives the first trie that was written to its end, and throws if  *)
(* there is none; each read of a stream gives the next one (trie.cc,       *)
(* louds-trie.cc, io): whatever was saved, wherever a save failed or the   *)
(* process died, no reading takes a torn trie for a whole one.             *)
THEOREM WholeTriesRead == FileSpec => []ReadsWhatWasWritten
<1>1. FileSound => ReadsWhatWasWritten
  BY DEF FileSound
<1> QED BY <1>1, FileStarts, FileStays, PTL DEF FileSpec

(* A call that throws leaves the trie in use as it was: a reading goes to  *)
(* a temporary that is swapped in only when it ended well (trie.cc).       *)
THEOREM FailureKeeps == FileSpec => FailureKeepsTrie
<1>1. ASSUME FileSound, [FileNext]_fileVars
      PROVE  [~ last'.ok => trie' = trie]_fileVars
  <2> SUFFICES ASSUME FileNext, ~ last'.ok PROVE trie' = trie
    BY <1>1
  <2>1. ASSUME NEW call, last' = Called(call, TRUE) PROVE FALSE
    BY <2>1 DEF Called
  <2>2. CASE BuildTrie
    BY <2>1, <2>2 DEF BuildTrie
  <2>3. CASE Save
    BY <2>3 DEF Save, Begin
  <2>4. CASE WriteStream
    BY <2>4 DEF WriteStream, Begin
  <2>5. CASE WriteItems
    BY <2>5 DEF WriteItems
  <2>6. CASE WriteFails
    BY <2>6 DEF WriteFails
  <2>7. CASE Crash
    BY <2>1, <2>7 DEF Crash
  <2>8. CASE Load
    <3>1. PICK o : trie' = Swapped(o, trie) /\ last' = Called("load", o.ok)
      BY <2>8 DEF Load
    <3>2. last'.ok = o.ok
      BY <3>1 DEF Called
    <3> QED BY <3>1, <3>2 DEF Swapped
  <2>9. CASE ReadStream
    <3>1. PICK o : trie' = Swapped(o, trie) /\ last' = Called("read", o.ok)
      BY <2>9 DEF ReadStream
    <3>2. last'.ok = o.ok
      BY <3>1 DEF Called
    <3> QED BY <3>1, <3>2 DEF Swapped
  <2> QED BY <2>2, <2>3, <2>4, <2>5, <2>6, <2>7, <2>8, <2>9 DEF FileNext
<1> QED BY <1>1, FileStarts, FileStays, PTL DEF FileSpec, FailureKeepsTrie
=============================================================================
