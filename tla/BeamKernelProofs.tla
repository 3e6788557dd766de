-------------------------- MODULE BeamKernelProofs --------------------------
(***************************************************************************)
(* Theorems about the beam search kernel, for any grid, any trie, any beam *)
(* widths and any buffer sizes: its type invariant, its barriers and how   *)
(* large its buffers have to be.                                           *)
(*                                                                         *)
(* The blocks decide for themselves whether they leave the loop and whether*)
(* a trim has a barrier inside; the theorems BarriersMeet and PhasesMeet   *)
(* say under which condition the decisions agree: no block may look at the *)
(* size of selected_ while it is above one of the two thresholds that the  *)
(* others can push it across.                                              *)
(*                                                                         *)
(* Nothing in the kernel checks the sizes of the buffers (the asserts are  *)
(* compiled out): the third part gives a condition on the parameters       *)
(* alone under which none is overrun and the barriers agree: it counts,    *)
(* at every step, the pushes that the blocks still owe.                    *)
(*                                                                         *)
(* Then the backtrace: generate_result follows parent_beam_id_ through     *)
(* beams_, although beams are renumbered, sorted, cut and overwritten at   *)
(* every output position.  Every number that a beam carries names the      *)
(* saved beam it came from.                                                *)
(***************************************************************************)
EXTENDS BeamKernel, SequenceTheorems, FiniteSetTheorems, TLAPS

USE ContainerAssumption, KernelAssumption DEF Least

-----------------------------------------------------------------------------
(* Each operation on a container gives a container.                        *)

LEMMA ContainerFields ==
  ASSUME NEW c \in Container
  PROVE  /\ c.cand \in [Slots -> Beam]
         /\ c.meta \in [Slots -> SortState]
         /\ c.size \in 0 .. Buffer
         /\ c.cap \in Nat
BY DEF Container

LEMMA PushedType ==
  ASSUME NEW c \in Container, NEW b \in Beam, HasRoom(c)
  PROVE  Pushed(c, b) \in Container
<1>1. c.size \in Slots /\ c.size + 1 \in 0 .. Buffer
  BY ContainerFields DEF HasRoom, Slots
<1>2. [score |-> Score[b.path], pos |-> c.size] \in SortState
  BY <1>1 DEF Beam, SortState
<1>3. [c.cand EXCEPT ![c.size] = b] \in [Slots -> Beam]
  BY <1>1, ContainerFields
<1>4. [c.meta EXCEPT ![c.size] = [score |-> Score[b.path], pos |-> c.size]]
        \in [Slots -> SortState]
  BY <1>1, <1>2, ContainerFields
<1> QED
  BY <1>1, <1>3, <1>4 DEF Container, Pushed

LEMMA ClearedType ==
  ASSUME NEW c \in Container
  PROVE  Cleared(c) \in Container
<1>1. 0 \in 0 .. Buffer
  OBVIOUS
<1> QED
  BY <1>1 DEF Container, Cleared

LEMMA WithCapacityType ==
  ASSUME NEW c \in Container, NEW k \in Nat
  PROVE  WithCapacity(c, k) \in Container
BY DEF Container, WithCapacity

LEMMA ShrunkType ==
  ASSUME NEW c \in Container
  PROVE  Shrunk(c) \in Container
<1>1. Least(c.size, c.cap) \in 0 .. Buffer
  BY ContainerFields
<1> QED
  BY <1>1 DEF Container, Shrunk

LEMMA SortedType ==
  ASSUME NEW c \in Container, NEW f \in Orders(c)
  PROVE  /\ Sorted(c, f) \in Container
         /\ Sorted(c, f).size = c.size
         /\ Sorted(c, f).cap = c.cap
<1> DEFINE meta == [i \in Slots |-> IF i < c.size THEN c.meta[f[i]] ELSE c.meta[i]]
           kept == Least(c.size, c.cap)
           cand == [i \in Slots |-> IF i < kept THEN c.cand[meta[i].pos] ELSE c.cand[i]]
<1>1. f \in [0 .. c.size - 1 -> 0 .. c.size - 1]
  BY DEF Orders, Bijection, Injection
<1>2. ASSUME NEW i \in Slots PROVE meta[i] \in SortState
  <2>1. CASE i < c.size
    <3>1. c.size \in 0 .. Buffer /\ i \in 0 .. c.size - 1
      BY <2>1, ContainerFields DEF Slots
    <3>2. f[i] \in 0 .. c.size - 1
      BY <1>1, <3>1
    <3>3. f[i] \in Slots
      BY <3>1, <3>2 DEF Slots
    <3> QED BY <2>1, <3>3, ContainerFields
  <2>2. CASE ~(i < c.size)
    BY <2>2, ContainerFields
  <2> QED BY <2>1, <2>2
<1>3. ASSUME NEW i \in Slots PROVE cand[i] \in Beam
  <2>1. meta[i].pos \in Slots
    BY <1>2 DEF SortState
  <2> HIDE DEF meta, kept
  <2> QED BY <2>1, ContainerFields
<1>4. meta \in [Slots -> SortState] /\ cand \in [Slots -> Beam]
  <2> HIDE DEF kept
  <2> QED BY <1>2, <1>3
<1>5. Sorted(c, f) = [c EXCEPT !.meta = meta, !.cand = cand]
  BY DEF Sorted
<1> HIDE DEF meta, cand
<1> QED
  BY <1>4, <1>5 DEF Container

LEMMA CollectedType ==
  ASSUME NEW c \in Container, NEW force, NEW d \in Collected(c, force)
  PROVE  d \in Container /\ d.size = c.size /\ d.cap = c.cap
BY SortedType DEF Collected

LEMMA NumberedType ==
  ASSUME NEW c \in Container, NEW base \in Nat
  PROVE  /\ Numbered(c, base) \in Container
         /\ Numbered(c, base).size = c.size
         /\ Numbered(c, base).cap = c.cap
<1> DEFINE cand == [i \in Slots |-> IF i < c.size THEN [c.cand[i] EXCEPT !.id = base + i]
                                                  ELSE c.cand[i]]
<1>1. ASSUME NEW i \in Slots PROVE cand[i] \in Beam
  <2>1. c.cand[i] \in Beam /\ base + i \in Nat
    BY ContainerFields DEF Slots
  <2> QED BY <2>1 DEF Beam
<1>2. Numbered(c, base) = [c EXCEPT !.cand = cand]
  BY DEF Numbered
<1> HIDE DEF cand
<1>3. cand \in [Slots -> Beam]
  BY <1>1 DEF cand
<1> QED
  BY <1>2, <1>3 DEF Container

-----------------------------------------------------------------------------
(* Where a block goes on from each barrier.                                *)
LEMMA ResumeAt ==
  /\ SyncPoint = {"initSync", "expandSync", "trimSync", "saveSync", "proactiveSync",
                  "selectedSync", "finalSync", "outSync"}
  /\ Resume["initSync"] = "top"
  /\ Resume["expandSync"] = "trim"
  /\ Resume["trimSync"] = "shrink"
  /\ Resume["saveSync"] = "check"
  /\ Resume["proactiveSync"] = "swap"
  /\ Resume["selectedSync"] = "selectedCut"
  /\ Resume["finalSync"] = "finalCut"
  /\ Resume["outSync"] = "generate"
BY DEF Resume, SyncPoint

(* Inside the loop the counter of a block is below the bound.              *)
InLoop == {"expand", "expandSync", "trim", "trimSync", "shrink", "save", "saveSync",
           "check", "selectedSync", "selectedCut", "proactiveSync", "swap"}

LoopRange == \A u \in Block : pc[u] \in InLoop => outpos[u] \in 0 .. NumOutpos - 1

(* The children that a block finds are beams with paths of the trie.       *)
LEMMA OwedType ==
  ASSUME TypeOK, NEW u \in Block
  PROVE  Owed(u) \subseteq {"next", "selected"} \X Beam
<1> DEFINE cur  == cont[Cur(u)]
           mine == {cur.cand[i] : i \in {j \in 0 .. cur.size - 1 : j % NumCtas = u}}
           kids == { [path |-> Append(b.path, k), id |-> NoId, parent |-> b.id] :
                       b \in mine, k \in Token }
<1>1. cur \in Container
  BY DEF TypeOK, Cur
<1>2. mine \subseteq Beam
  <2> SUFFICES ASSUME NEW i \in 0 .. cur.size - 1 PROVE cur.cand[i] \in Beam
    OBVIOUS
  <2>1. i \in Slots
    BY <1>1, ContainerFields DEF Slots
  <2> HIDE DEF cur
  <2> QED
    BY <1>1, <2>1, ContainerFields
<1>3. ASSUME NEW c \in kids, c.path \in Path
      PROVE  c \in Beam
  <2> HIDE DEF mine
  <2>1. PICK b \in mine, k \in Token : c = [path |-> Append(b.path, k), id |-> NoId, parent |-> b.id]
    BY DEF kids
  <2>2. b \in Beam
    BY <1>2
  <2> QED
    BY <1>3, <2>1, <2>2 DEF Beam
<1> HIDE DEF kids
<1>4. Owed(u) = ({"next"} \X {c \in kids : c.path \in ToNext})
                  \cup ({"selected"} \X {c \in kids : c.path \in ToSelected})
  BY DEF Owed, kids
<1> QED
  BY <1>3, <1>4

-----------------------------------------------------------------------------
(* The type invariant.  It needs LoopRange: a block that swaps has left the*)
(* head of the loop with a counter below the bound.                        *)
TypeInv == TypeOK /\ LoopRange

LEMMA InitType == Init => TypeInv
<1> SUFFICES ASSUME Init PROVE TypeInv
  OBVIOUS
<1> USE ResumeAt
<1>1. RootBeam \in Beam
  BY DEF RootBeam, Beam, NoId
<1>2. ASSUME NEW n \in StaleSizes
      PROVE  [NewContainer(RootBeam) EXCEPT !.size = n] \in Container
  <2>1. [score |-> 0, pos |-> 0] \in SortState /\ n \in 0 .. Buffer
    BY DEF SortState, Slots
  <2> QED
    BY <1>1, <2>1 DEF NewContainer, Container
<1>3. cont \in [{"A", "B", "selected"} -> Container]
  BY <1>2 DEF Init
<1>4. pc \in [Block -> Location] /\ outpos \in [Block -> 0 .. NumOutpos]
  <2>1. "init" \in Location /\ 0 \in 0 .. NumOutpos
    BY DEF Location
  <2> QED
    BY <2>1 DEF Init
<1>6. todo \in [Block -> SUBSET ({"next", "selected"} \X Beam)]
  BY DEF Init
<1>7. beams \in Seq(Beam) /\ fault \in BOOLEAN /\ pushed \subseteq Path
  <2>1. << >> \in Seq(Beam)
    OBVIOUS
  <2> QED
    BY <2>1 DEF Init
<1>5. LoopRange
  BY DEF Init, LoopRange, InLoop
<1> QED
  BY <1>3, <1>4, <1>5, <1>6, <1>7 DEF TypeInv, TypeOK

(* A trim keeps the types and moves its block to one of two places.        *)
LEMMA EnterTrimType ==
  ASSUME cont \in [{"A", "B", "selected"} -> Container], NEW u \in Block,
         NEW c \in {"A", "B", "selected"}, NEW force, NEW sync, NEW cut,
         EnterTrim(u, c, force, sync, cut)
  PROVE  /\ cont' \in [{"A", "B", "selected"} -> Container]
         /\ pc' = [pc EXCEPT ![u] = sync] \/ pc' = [pc EXCEPT ![u] = cut]
<1>1. CASE TrimSyncs(cont[c], force) /\ u = Leader
  <2>1. PICK d \in Collected(cont[c], force) : cont' = [cont EXCEPT ![c] = d]
    BY <1>1 DEF EnterTrim
  <2>2. d \in Container
    BY CollectedType
  <2> QED
    BY <1>1, <2>1, <2>2 DEF EnterTrim, Goto
<1>2. CASE ~(TrimSyncs(cont[c], force) /\ u = Leader)
  BY <1>2 DEF EnterTrim, Goto
<1> QED
  BY <1>1, <1>2

LEMMA CutToType ==
  ASSUME cont \in [{"A", "B", "selected"} -> Container], NEW u \in Block,
         NEW c \in {"A", "B", "selected"}, NEW l, CutTo(u, c, l)
  PROVE  /\ cont' \in [{"A", "B", "selected"} -> Container]
         /\ pc' = [pc EXCEPT ![u] = l]
BY ShrunkType DEF CutTo, Goto

(* A block that moves on inside the loop, its counter unchanged, keeps the *)
(* types of pc and of outpos and the range of the counter.                 *)
LEMMA MoveType ==
  ASSUME TypeInv, NEW u \in Block, NEW l \in Location,
         pc' = [pc EXCEPT ![u] = l], UNCHANGED outpos,
         l \in InLoop => outpos[u] \in 0 .. NumOutpos - 1
  PROVE  /\ pc' \in [Block -> Location]
         /\ outpos' \in [Block -> 0 .. NumOutpos]
         /\ LoopRange'
BY DEF TypeInv, TypeOK, LoopRange

LEMMA PrepareType ==
  ASSUME TypeInv, NEW u \in Block, Prepare(u)
  PROVE  TypeInv'
<1> USE ResumeAt
<1>1. RootBeam \in Beam
  BY DEF RootBeam, Beam, NoId
<1>2. /\ cont["A"] \in Container /\ cont["B"] \in Container
      /\ cont["selected"] \in Container
  BY DEF TypeInv, TypeOK
<1>3. BeamWidth[0] \in Nat /\ FinalBeam \in Nat
  <2>1. 0 \in 0 .. NumOutpos - 1 /\ NumOutpos - 1 \in 0 .. NumOutpos - 1
    OBVIOUS
  <2> QED
    BY <2>1 DEF FinalBeam
<1>4. /\ WithCapacity(Cleared(cont["A"]), 1) \in Container
      /\ WithCapacity(Cleared(cont["B"]), BeamWidth[0]) \in Container
      /\ WithCapacity(Cleared(cont["selected"]), FinalBeam) \in Container
  BY <1>2, <1>3, ClearedType, WithCapacityType
<1>5. HasRoom(WithCapacity(Cleared(cont["A"]), 1))
  <2>1. WithCapacity(Cleared(cont["A"]), 1).size = 0
    BY <1>2 DEF WithCapacity, Cleared, Container
  <2> QED
    BY <2>1 DEF HasRoom
<1>6. Pushed(WithCapacity(Cleared(cont["A"]), 1), RootBeam) \in Container
  BY <1>1, <1>4, <1>5, PushedType
<1>7. cont' \in [{"A", "B", "selected"} -> Container]
  <2>1. CASE u = Leader
    BY <2>1, <1>4, <1>6 DEF Prepare
  <2>2. CASE u # Leader
    BY <2>2 DEF Prepare, TypeInv, TypeOK
  <2> QED BY <2>1, <2>2
<1>8. beams' \in Seq(Beam)
  <2>1. <<RootBeam>> \in Seq(Beam)
    BY <1>1
  <2>2. CASE u = Leader
    BY <2>1, <2>2 DEF Prepare
  <2>3. CASE u # Leader
    BY <2>3 DEF Prepare, TypeInv, TypeOK
  <2> QED BY <2>2, <2>3
<1>9. pc' \in [Block -> Location] /\ outpos' \in [Block -> 0 .. NumOutpos] /\ LoopRange'
  BY MoveType DEF Prepare, Goto, Location, InLoop
<1> QED
  BY <1>7, <1>8, <1>9 DEF TypeInv, TypeOK, Prepare

LEMMA ReleaseType ==
  ASSUME TypeInv, Release
  PROVE  TypeInv'
<1> USE ResumeAt
<1>1. ASSUME NEW u \in Block
      PROVE  /\ Resume[pc[u]] \in Location
             /\ Resume[pc[u]] \in InLoop => pc[u] \in InLoop
  BY DEF Release, Location, InLoop
<1>2. pc' \in [Block -> Location]
  BY <1>1 DEF Release
<1>3. LoopRange'
  BY <1>1 DEF Release, LoopRange, TypeInv
<1> QED
  BY <1>2, <1>3 DEF Release, TypeInv, TypeOK

LEMMA TopType ==
  ASSUME TypeInv, NEW u \in Block, Top(u)
  PROVE  TypeInv'
<1> USE ResumeAt
<1>1. todo' \in [Block -> SUBSET ({"next", "selected"} \X Beam)]
  BY OwedType DEF Top, TypeInv, TypeOK
<1>2. outpos[u] \in 0 .. NumOutpos
  BY DEF TypeInv, TypeOK
<1>3. pc' \in [Block -> Location] /\ outpos' \in [Block -> 0 .. NumOutpos] /\ LoopRange'
  <2>1. CASE Leaves(u)
    BY <2>1, MoveType DEF Top, Goto, Location, InLoop
  <2>2. CASE ~Leaves(u)
    <3>1. outpos[u] # NumOutpos
      BY <2>2 DEF Leaves
    <3>2. outpos[u] \in 0 .. NumOutpos - 1
      BY <1>2, <3>1
    <3> QED
      BY <2>2, <3>2, MoveType DEF Top, Goto, Location, InLoop
  <2> QED BY <2>1, <2>2
<1> QED
  BY <1>1, <1>3 DEF TypeInv, TypeOK, Top

LEMMA PushType ==
  ASSUME TypeInv, NEW u \in Block, Push(u)
  PROVE  TypeInv'
<1>1. PICK child \in {o[2] : o \in todo[u]} :
        LET target == IF <<"selected", child>> \in todo[u] THEN "selected" ELSE "next"
            c      == IF target = "next" THEN Nxt(u) ELSE target
        IN  /\ todo' = [todo EXCEPT ![u] = @ \ {<<target, child>>}]
            /\ IF HasRoom(cont[c])
               THEN cont' = [cont EXCEPT ![c] = Pushed(@, child)] /\ UNCHANGED fault
               ELSE fault' = TRUE /\ UNCHANGED cont
            /\ pushed' = IF target = "selected" THEN pushed \cup {child.path} ELSE pushed
  BY DEF Push
<1> DEFINE target == IF <<"selected", child>> \in todo[u] THEN "selected" ELSE "next"
           c      == IF target = "next" THEN Nxt(u) ELSE target
<1>2. child \in Beam /\ child.path \in Path
  BY DEF TypeInv, TypeOK, Beam
<1>3. c \in {"A", "B", "selected"}
  BY DEF Nxt
<1> HIDE DEF c
<1>4. cont' \in [{"A", "B", "selected"} -> Container] /\ fault' \in BOOLEAN
  <2>1. CASE HasRoom(cont[c])
    <3>1. cont' = [cont EXCEPT ![c] = Pushed(@, child)] /\ fault' = fault
      BY <1>1, <2>1 DEF c
    <3>2. Pushed(cont[c], child) \in Container
      BY <1>2, <1>3, <2>1, PushedType DEF TypeInv, TypeOK
    <3> QED
      BY <3>1, <3>2 DEF TypeInv, TypeOK
  <2>2. CASE ~HasRoom(cont[c])
    BY <1>1, <2>2 DEF c, TypeInv, TypeOK
  <2> QED BY <2>1, <2>2
<1>5. todo' \in [Block -> SUBSET ({"next", "selected"} \X Beam)]
  BY <1>1 DEF TypeInv, TypeOK
<1>6. pushed' \subseteq Path
  BY <1>1, <1>2 DEF TypeInv, TypeOK
<1>7. UNCHANGED <<pc, outpos, beams>>
  BY DEF Push
<1> QED
  BY <1>4, <1>5, <1>6, <1>7 DEF TypeInv, TypeOK, LoopRange

(* The trims and the assignments of size_ behind them.                     *)
LEMMA TrimType ==
  ASSUME TypeInv, NEW u \in Block,
         TrimNext(u) \/ CutNext(u) \/ CheckSelected(u) \/ CutSelected(u)
           \/ TrimFinal(u) \/ CutFinal(u)
  PROVE  TypeInv'
<1> USE ResumeAt
<1>1. Nxt(u) \in {"A", "B", "selected"} /\ cont \in [{"A", "B", "selected"} -> Container]
  BY DEF Nxt, TypeInv, TypeOK
<1>2. ASSUME NEW l \in {"trimSync", "shrink", "save", "selectedSync", "selectedCut",
                         "proactiveSync", "swap", "finalSync", "finalCut", "outSync"},
             pc' = [pc EXCEPT ![u] = l], UNCHANGED outpos,
             l \in InLoop => pc[u] \in InLoop
      PROVE  pc' \in [Block -> Location] /\ outpos' \in [Block -> 0 .. NumOutpos] /\ LoopRange'
  <2>1. l \in Location
    BY DEF Location
  <2>2. l \in InLoop => outpos[u] \in 0 .. NumOutpos - 1
    BY <1>2 DEF TypeInv, LoopRange
  <2> QED
    BY <1>2, <2>1, <2>2, MoveType
<1>3. UNCHANGED <<outpos, todo, beams, out, fault, pushed>>
  BY DEF TrimNext, CutNext, CheckSelected, CutSelected, TrimFinal, CutFinal
<1>4. /\ cont' \in [{"A", "B", "selected"} -> Container]
      /\ pc' \in [Block -> Location] /\ outpos' \in [Block -> 0 .. NumOutpos] /\ LoopRange'
  <2>1. CASE TrimNext(u)
    <3>1. pc[u] \in InLoop
      BY <2>1 DEF TrimNext, InLoop
    <3>2. PICK c \in {"A", "B", "selected"}, force \in BOOLEAN :
            EnterTrim(u, c, force, "trimSync", "shrink")
      BY <1>1, <2>1 DEF TrimNext
    <3>3. /\ cont' \in [{"A", "B", "selected"} -> Container]
          /\ pc' = [pc EXCEPT ![u] = "trimSync"] \/ pc' = [pc EXCEPT ![u] = "shrink"]
      BY <1>1, <3>2, EnterTrimType
    <3> QED
      BY <1>2, <1>3, <3>1, <3>3
  <2>2. CASE CutNext(u)
    BY <1>1, <1>2, <1>3, <2>2, CutToType DEF CutNext, InLoop
  <2>3. CASE CheckSelected(u)
    <3>1. CASE Crowded
      <4>1. EnterTrim(u, "selected", FALSE, "selectedSync", "selectedCut") /\ pc[u] \in InLoop
        BY <2>3, <3>1 DEF CheckSelected, InLoop
      <4>2. /\ cont' \in [{"A", "B", "selected"} -> Container]
            /\ pc' = [pc EXCEPT ![u] = "selectedSync"] \/ pc' = [pc EXCEPT ![u] = "selectedCut"]
        BY ZenonT(30), <1>1, <4>1, EnterTrimType
      <4> QED
        BY <1>2, <1>3, <4>1, <4>2
    <3>2. CASE ~Crowded
      BY <1>1, <1>2, <1>3, <2>3, <3>2 DEF CheckSelected, Goto, InLoop
    <3> QED BY <3>1, <3>2
  <2>4. CASE CutSelected(u)
    BY <1>1, <1>2, <1>3, <2>4, CutToType DEF CutSelected, InLoop
  <2>5. CASE TrimFinal(u)
    <3>1. EnterTrim(u, "selected", TRUE, "finalSync", "finalCut")
      BY <2>5 DEF TrimFinal
    <3>2. /\ cont' \in [{"A", "B", "selected"} -> Container]
          /\ pc' = [pc EXCEPT ![u] = "finalSync"] \/ pc' = [pc EXCEPT ![u] = "finalCut"]
      BY ZenonT(30), <1>1, <3>1, EnterTrimType
    <3>3. "finalSync" \notin InLoop /\ "finalCut" \notin InLoop
      BY DEF InLoop
    <3> QED
      BY <1>2, <1>3, <3>2, <3>3
  <2>6. CASE CutFinal(u)
    BY <1>1, <1>2, <1>3, <2>6, CutToType DEF CutFinal, InLoop
  <2> QED BY <2>1, <2>2, <2>3, <2>4, <2>5, <2>6
<1> QED
  BY <1>3, <1>4 DEF TypeInv, TypeOK

LEMMA SaveType ==
  ASSUME TypeInv, NEW u \in Block, Save(u)
  PROVE  TypeInv'
<1> USE ResumeAt
<1>1. pc' \in [Block -> Location] /\ outpos' \in [Block -> 0 .. NumOutpos] /\ LoopRange'
  <2>1. outpos[u] \in 0 .. NumOutpos - 1
    BY DEF Save, TypeInv, LoopRange, InLoop
  <2>2. "saveSync" \in Location
    BY DEF Location
  <2> QED
    BY <2>1, <2>2, MoveType DEF Save, Goto
<1>2. CASE u # Leader
  BY <1>1, <1>2 DEF Save, TypeInv, TypeOK
<1>3. CASE u = Leader
  <2> DEFINE saved == Numbered(cont[Nxt(u)], Len(beams))
             cur   == cont[Cur(u)]
             spare == IF outpos[u] + 1 < NumOutpos
                      THEN WithCapacity(Cleared(cur), BeamWidth[outpos[u] + 1])
                      ELSE cur
  <2>1. Nxt(u) \in {"A", "B", "selected"} /\ Cur(u) \in {"A", "B", "selected"}
    BY DEF Nxt, Cur
  <2>2. saved \in Container
    <3>1. cont[Nxt(u)] \in Container /\ Len(beams) \in Nat
      BY <2>1 DEF TypeInv, TypeOK
    <3> QED
      BY <3>1, NumberedType
  <2>3. spare \in Container
    <3>1. cur \in Container
      BY <2>1 DEF TypeInv, TypeOK
    <3>2. CASE outpos[u] + 1 < NumOutpos
      <4>1. outpos[u] + 1 \in 0 .. NumOutpos - 1
        BY <3>2 DEF TypeInv, TypeOK
      <4>2. BeamWidth[outpos[u] + 1] \in Nat
        BY <4>1
      <4> QED
        BY <3>1, <3>2, <4>2, ClearedType, WithCapacityType
    <3>3. CASE ~(outpos[u] + 1 < NumOutpos)
      BY <3>1, <3>3
    <3> QED BY <3>2, <3>3
  <2>4. /\ cont' = [cont EXCEPT ![Nxt(u)] = saved, ![Cur(u)] = spare]
        /\ fault' = (Len(beams) + saved.size >= MaxBeamId)
        /\ beams' = beams \o [i \in 1 .. saved.size |-> saved.cand[i - 1]]
        /\ UNCHANGED <<outpos, todo, out, pushed>>
    BY <1>3 DEF Save
  <2> HIDE DEF saved, spare
  <2>5. cont' \in [{"A", "B", "selected"} -> Container]
    BY <2>1, <2>2, <2>3, <2>4 DEF TypeInv, TypeOK
  <2>6. [i \in 1 .. saved.size |-> saved.cand[i - 1]] \in Seq(Beam)
    <3>1. saved.size \in Nat
      BY <2>2, ContainerFields
    <3>2. ASSUME NEW i \in 1 .. saved.size PROVE saved.cand[i - 1] \in Beam
      <4>1. i - 1 \in Slots
        BY <2>2, ContainerFields DEF Slots
      <4> QED
        BY <2>2, <4>1, ContainerFields
    <3>3. [i \in 1 .. saved.size |-> saved.cand[i - 1]] \in [1 .. saved.size -> Beam]
      BY <3>2
    <3>4. ASSUME NEW n \in Nat, NEW f \in [1 .. n -> Beam] PROVE f \in Seq(Beam)
      BY SeqDef, Zenon
    <3> QED
      BY <3>1, <3>3, <3>4
  <2>8. fault' \in BOOLEAN
    BY <2>4
  <2>7. beams' \in Seq(Beam)
    BY <2>4, <2>6 DEF TypeInv, TypeOK
  <2> QED
    BY <1>1, <2>4, <2>5, <2>7, <2>8 DEF TypeInv, TypeOK
<1> QED
  BY <1>2, <1>3

LEMMA SwapType ==
  ASSUME TypeInv, NEW u \in Block, Swap(u)
  PROVE  TypeInv'
<1> USE ResumeAt
<1>1. outpos[u] \in 0 .. NumOutpos - 1
  BY DEF Swap, TypeInv, LoopRange, InLoop
<1>2. outpos[u] + 1 \in 0 .. NumOutpos
  BY <1>1
<1>3. "top" \in Location /\ "top" \notin InLoop
  BY DEF Location, InLoop
<1>4. pc' = [pc EXCEPT ![u] = "top"] /\ outpos' = [outpos EXCEPT ![u] = outpos[u] + 1]
  BY DEF Swap, Goto
<1>5. pc' \in [Block -> Location] /\ outpos' \in [Block -> 0 .. NumOutpos]
  BY <1>2, <1>3, <1>4 DEF TypeInv, TypeOK
<1>6. LoopRange'
  BY <1>3, <1>4 DEF TypeInv, TypeOK, LoopRange
<1> QED
  BY <1>5, <1>6 DEF TypeInv, TypeOK, Swap

LEMMA MoveOnlyType ==
  ASSUME TypeInv, NEW u \in Block, Expanded(u) \/ GenerateResult(u)
  PROVE  TypeInv'
<1> USE ResumeAt
<1>1. pc' \in [Block -> Location] /\ outpos' \in [Block -> 0 .. NumOutpos] /\ LoopRange'
  <2>1. CASE Expanded(u)
    <3>1. outpos[u] \in 0 .. NumOutpos - 1
      BY <2>1 DEF Expanded, TypeInv, LoopRange, InLoop
    <3> QED
      BY <2>1, <3>1, MoveType DEF Expanded, Goto, Location
  <2>2. CASE GenerateResult(u)
    BY <2>2, MoveType DEF GenerateResult, Goto, Location, InLoop
  <2> QED BY <2>1, <2>2
<1>2. UNCHANGED <<todo, cont, beams, fault, pushed>>
  BY DEF Expanded, GenerateResult
<1> QED
  BY <1>1, <1>2 DEF TypeInv, TypeOK

LEMMA NextType ==
  ASSUME TypeInv, [Next]_vars
  PROVE  TypeInv'
<1>1. CASE Next
  <2>1. CASE Release
    BY <2>1, ReleaseType
  <2>2. ASSUME NEW u \in Block, Step(u) PROVE TypeInv'
    BY <2>2, PrepareType, TopType, PushType, TrimType, SaveType, SwapType, MoveOnlyType
       DEF Step
  <2> QED
    BY <1>1, <2>1, <2>2 DEF Next
<1>2. CASE UNCHANGED vars
  BY <1>2 DEF vars, TypeInv, TypeOK, LoopRange
<1> QED
  BY <1>1, <1>2

(* Type correctness of the launch: whatever the blocks do in whatever      *)
(* order, the counters stay in range, the containers hold at most Buffer   *)
(* beams, and every score is kept with the position of a slot.             *)
THEOREM TypeCorrect == Spec => []TypeOK
<1>1. TypeInv => TypeOK
  BY DEF TypeInv
<1> QED
  BY <1>1, InitType, NextType, PTL DEF Spec

-----------------------------------------------------------------------------
(* No block is about to act on a size of selected_ above a threshold: that *)
(* of the proactive trim at line 557, that of the early exit at line 520.  *)
Undisturbed ==
  \A u \in Block :
    /\ pc[u] = "check" => ~Crowded
    /\ pc[u] = "top"   => ~(EarlyExit /\ cont["selected"].size >= FinalBeam)

-----------------------------------------------------------------------------
(* The inductive invariant.  Blocks at the end of an output position and   *)
(* blocks at the head of the next one run between the same two barriers:   *)
(* they count as being at the same level.                                  *)
LevelOf(u) == IF pc[u] \in {"check", "swap"} THEN outpos[u] + 1 ELSE outpos[u]

At(n, P) == \A u \in Block : pc[u] \in P /\ LevelOf(u) = n

(* cur_ and next_ of level n.                                              *)
Now(n)   == IF n % 2 = 0 THEN "A" ELSE "B"
Later(n) == IF n % 2 = 0 THEN "B" ELSE "A"

(* The decisions of level n that every block takes.                        *)
Ends(n)      == n = NumOutpos \/ cont[Now(n)].size = 0
SortsNext(n) == TrimSyncs(cont[Later(n)], FALSE)
SortsLast    == TrimSyncs(cont["selected"], TRUE)

(* What the blocks do between two barriers: each phase holds one barrier,  *)
(* and the decision that leads to it stays taken until all have arrived.   *)
Starting(n)  == At(n, {"init", "initSync"})
Expanding(n) == ~Ends(n) /\ At(n, {"check", "swap", "top", "expand", "expandSync"})
Sorting(n)   == SortsNext(n) /\ At(n, {"trim", "trimSync"})
Passing(n)   == ~SortsNext(n) /\ At(n, {"trim", "shrink", "save", "saveSync"})
Saving(n)    == At(n, {"shrink", "save", "saveSync"})
Ordering(n)  == Ends(n) /\ SortsLast /\ At(n, {"check", "swap", "top", "finalTrim", "finalSync"})
Leaving(n)   == /\ Ends(n) /\ ~SortsLast
                /\ At(n, {"check", "swap", "top", "finalTrim", "finalCut", "outSync"})
Cutting(n)   == At(n, {"finalCut", "outSync"})
Writing(n)   == At(n, {"generate", "done"})

Phase(n) ==
  \/ Starting(n) \/ Expanding(n) \/ Sorting(n) \/ Passing(n) \/ Saving(n)
  \/ Ordering(n) \/ Leaving(n) \/ Cutting(n) \/ Writing(n)

Aligned == \E n \in 0 .. NumOutpos : Phase(n)

BarrierInv == TypeInv /\ Aligned

-----------------------------------------------------------------------------
(* A block that moves inside a phase keeps the others and itself in it.    *)
LEMMA MoveAt ==
  ASSUME TypeInv, NEW u \in Block, NEW n, NEW P, NEW l,
         At(n, P), l \in P, pc' = [pc EXCEPT ![u] = l], UNCHANGED outpos,
         l \in {"check", "swap"} <=> pc[u] \in {"check", "swap"}
  PROVE  At(n, P)'
BY DEF At, LevelOf, TypeInv, TypeOK

(* The size of a container decides every trim, and a cut at its capacity   *)
(* does not turn a trim without a barrier into one with a barrier.         *)
LEMMA TrimSyncsBySize ==
  ASSUME NEW c, NEW d, NEW force, c.size = d.size, c.cap = d.cap
  PROVE  TrimSyncs(c, force) <=> TrimSyncs(d, force)
BY DEF TrimSyncs, Sorts, Selects

(* Where a block is tells the phase.                                       *)
LEMMA PhaseOf ==
  ASSUME NEW u \in Block, NEW n, Phase(n)
  PROVE  /\ pc[u] = "init" => Starting(n)
         /\ pc[u] = "expand" => Expanding(n)
         /\ pc[u] \in {"check", "swap", "top"} => Expanding(n) \/ Ordering(n) \/ Leaving(n)
         /\ pc[u] = "finalTrim" => Ordering(n) \/ Leaving(n)
         /\ pc[u] = "finalCut" => Leaving(n) \/ Cutting(n)
         /\ pc[u] = "trim" => Sorting(n) \/ Passing(n)
         /\ pc[u] \in {"shrink", "save"} => Passing(n) \/ Saving(n)
         /\ pc[u] \in {"selectedCut"} => FALSE
         /\ pc[u] = "generate" => Writing(n)
         /\ LevelOf(u) = n
BY DEF Phase, Starting, Expanding, Sorting, Passing, Saving, Ordering, Leaving, Cutting,
       Writing, At

LEMMA ShrunkStaysUnsynced ==
  ASSUME NEW c \in Container, NEW force, ~TrimSyncs(c, force)
  PROVE  ~TrimSyncs(Shrunk(c), force)
<1>1. /\ Shrunk(c).size = Least(c.size, c.cap)
      /\ Shrunk(c).cap = c.cap
  BY DEF Shrunk, Container
<1>2. c.size \in Nat /\ c.cap \in Nat
  BY ContainerFields
<1> QED
  BY <1>1, <1>2 DEF TrimSyncs, Sorts, Selects

LEMMA InitAligned == Init => BarrierInv
<1> SUFFICES ASSUME Init PROVE Aligned
  BY InitType DEF BarrierInv
<1>1. Starting(0)
  BY DEF Init, Starting, At, LevelOf
<1>2. 0 \in 0 .. NumOutpos
  OBVIOUS
<1> QED
  BY <1>1, <1>2 DEF Aligned, Phase

-----------------------------------------------------------------------------
(* Each action keeps the blocks aligned.                                   *)
LEMMA PrepareAligned ==
  ASSUME BarrierInv, NEW u \in Block, Prepare(u)
  PROVE  Aligned'
<1>1. PICK n \in 0 .. NumOutpos : Phase(n)
  BY DEF BarrierInv, Aligned
<1>2. Starting(n)
  <2>1. pc[u] = "init"
    BY DEF Prepare
  <2> QED
    BY <1>1, <2>1, PhaseOf
<1>3. Starting(n)'
  BY <1>2, MoveAt DEF Prepare, Goto, Starting, BarrierInv
<1> QED
  BY <1>3 DEF Aligned, Phase

LEMMA TopAligned ==
  ASSUME BarrierInv, Undisturbed, NEW u \in Block, Top(u)
  PROVE  Aligned'
<1>1. PICK n \in 0 .. NumOutpos : Phase(n)
  BY DEF BarrierInv, Aligned
<1>2. pc[u] = "top" /\ UNCHANGED <<outpos, cont>>
  BY DEF Top
<1>3. Expanding(n) \/ Ordering(n) \/ Leaving(n)
  BY <1>1, <1>2, PhaseOf
<1>4. outpos[u] = n
  BY <1>1, <1>2, PhaseOf DEF LevelOf
<1>5. Leaves(u) <=> Ends(n)
  BY <1>2, <1>4 DEF Leaves, Ends, Cur, Now, Undisturbed
<1>6. (Ends(n)' <=> Ends(n)) /\ (SortsLast' <=> SortsLast)
  BY <1>2 DEF Ends, SortsLast
<1>7. Phase(n)'
  <2>1. CASE Expanding(n)
    <3>1. pc' = [pc EXCEPT ![u] = "expand"]
      BY <1>5, <2>1 DEF Top, Goto, Expanding
    <3> QED
      BY <1>2, <1>6, <2>1, <3>1, MoveAt DEF Expanding, BarrierInv, Phase
  <2>2. CASE Ordering(n)
    <3>1. pc' = [pc EXCEPT ![u] = "finalTrim"]
      BY <1>5, <2>2 DEF Top, Goto, Ordering
    <3> QED
      BY <1>2, <1>6, <2>2, <3>1, MoveAt DEF Ordering, BarrierInv, Phase
  <2>3. CASE Leaving(n)
    <3>1. pc' = [pc EXCEPT ![u] = "finalTrim"]
      BY <1>5, <2>3 DEF Top, Goto, Leaving
    <3> QED
      BY <1>2, <1>6, <2>3, <3>1, MoveAt DEF Leaving, BarrierInv, Phase
  <2> QED BY <1>3, <2>1, <2>2, <2>3
<1> QED
  BY <1>7 DEF Aligned

(* A push may fill next_ and selected_, never cur_.                        *)
LEMMA PushAligned ==
  ASSUME BarrierInv, NEW u \in Block, Push(u)
  PROVE  Aligned'
<1>1. PICK n \in 0 .. NumOutpos : Phase(n)
  BY DEF BarrierInv, Aligned
<1>2. pc[u] = "expand" /\ UNCHANGED <<pc, outpos>>
  BY DEF Push
<1>3. Expanding(n)
  BY <1>1, <1>2, PhaseOf
<1>4. outpos[u] = n
  BY <1>1, <1>2, PhaseOf DEF LevelOf
<1>5. cont'[Now(n)] = cont[Now(n)]
  <2>1. PICK c \in {Nxt(u), "selected"} :
          cont' = cont \/ \E d : cont' = [cont EXCEPT ![c] = d]
    <3>1. PICK child \in {o[2] : o \in todo[u]} :
            LET target == IF <<"selected", child>> \in todo[u] THEN "selected" ELSE "next"
                c      == IF target = "next" THEN Nxt(u) ELSE target
            IN  cont' = cont \/ cont' = [cont EXCEPT ![c] = Pushed(cont[c], child)]
      BY DEF Push
    <3> QED
      BY <3>1
  <2>2. Now(n) # c /\ Now(n) \in {"A", "B", "selected"}
    BY <1>4 DEF Now, Nxt
  <2>3. cont \in [{"A", "B", "selected"} -> Container]
    BY DEF BarrierInv, TypeInv, TypeOK
  <2> QED
    BY <2>1, <2>2, <2>3
<1>6. Expanding(n)'
  BY <1>2, <1>3, <1>5 DEF Expanding, Ends, At, LevelOf
<1> QED
  BY <1>6 DEF Aligned, Phase

LEMMA ExpandedAligned ==
  ASSUME BarrierInv, NEW u \in Block, Expanded(u)
  PROVE  Aligned'
<1>1. PICK n \in 0 .. NumOutpos : Phase(n)
  BY DEF BarrierInv, Aligned
<1>2. pc[u] = "expand" /\ UNCHANGED <<outpos, cont>>
  BY DEF Expanded
<1>3. Expanding(n)
  BY <1>1, <1>2, PhaseOf
<1>4. Expanding(n)'
  BY <1>2, <1>3, MoveAt DEF Expanded, Goto, Expanding, Ends, BarrierInv
<1> QED
  BY <1>4 DEF Aligned, Phase

(* A block that enters a trim: with a barrier inside it the sizes do not   *)
(* change before that barrier, without one nothing changes.                *)
LEMMA EnterTrimSizes ==
  ASSUME cont \in [{"A", "B", "selected"} -> Container], NEW u \in Block,
         NEW c \in {"A", "B", "selected"}, NEW force, NEW sync, NEW cut,
         EnterTrim(u, c, force, sync, cut)
  PROVE  /\ \A x \in {"A", "B", "selected"} :
              cont'[x].size = cont[x].size /\ cont'[x].cap = cont[x].cap
         /\ IF TrimSyncs(cont[c], force) THEN pc' = [pc EXCEPT ![u] = sync]
                                         ELSE pc' = [pc EXCEPT ![u] = cut]
<1>1. CASE TrimSyncs(cont[c], force) /\ u = Leader
  <2>1. PICK d \in Collected(cont[c], force) : cont' = [cont EXCEPT ![c] = d]
    BY <1>1 DEF EnterTrim
  <2>2. d.size = cont[c].size /\ d.cap = cont[c].cap
    BY CollectedType
  <2> QED
    BY <1>1, <2>1, <2>2 DEF EnterTrim, Goto
<1>2. CASE ~(TrimSyncs(cont[c], force) /\ u = Leader)
  BY <1>2 DEF EnterTrim, Goto
<1> QED
  BY <1>1, <1>2

(* When no size and no capacity changes, no decision does.                 *)
LEMMA SameSizes ==
  ASSUME NEW n,
         \A x \in {"A", "B", "selected"} :
            cont'[x].size = cont[x].size /\ cont'[x].cap = cont[x].cap
  PROVE  /\ Ends(n)' <=> Ends(n)
         /\ SortsNext(n)' <=> SortsNext(n)
         /\ SortsLast' <=> SortsLast
BY DEF Ends, SortsNext, SortsLast, Now, Later, TrimSyncs, Sorts, Selects

LEMMA TrimNextAligned ==
  ASSUME BarrierInv, NEW u \in Block, TrimNext(u)
  PROVE  Aligned'
<1>1. PICK n \in 0 .. NumOutpos : Phase(n)
  BY DEF BarrierInv, Aligned
<1>2. pc[u] = "trim" /\ UNCHANGED outpos
  BY DEF TrimNext
<1>3. (Sorting(n) \/ Passing(n)) /\ outpos[u] = n
  BY <1>1, <1>2, PhaseOf DEF LevelOf
<1>4. Nxt(u) = Later(n) /\ Later(n) \in {"A", "B", "selected"}
  BY <1>3 DEF Nxt, Later
<1>5. EnterTrim(u, Later(n), FALSE, "trimSync", "shrink")
  BY <1>4 DEF TrimNext
<1>6. cont \in [{"A", "B", "selected"} -> Container]
  BY DEF BarrierInv, TypeInv, TypeOK
<1>7. \A x \in {"A", "B", "selected"} :
         cont'[x].size = cont[x].size /\ cont'[x].cap = cont[x].cap
  BY <1>4, <1>5, <1>6, EnterTrimSizes
<1>8. IF SortsNext(n) THEN pc' = [pc EXCEPT ![u] = "trimSync"]
                      ELSE pc' = [pc EXCEPT ![u] = "shrink"]
  BY <1>5 DEF EnterTrim, Goto, SortsNext
<1>9. SortsNext(n)' <=> SortsNext(n)
  BY <1>7, SameSizes
<1>10. Phase(n)'
  <2>1. CASE Sorting(n)
    BY <1>2, <1>8, <1>9, <2>1, MoveAt DEF Sorting, BarrierInv, Phase
  <2>2. CASE Passing(n)
    BY <1>2, <1>8, <1>9, <2>2, MoveAt DEF Passing, BarrierInv, Phase
  <2> QED BY <1>3, <2>1, <2>2
<1> QED
  BY <1>10 DEF Aligned

(* The cut of next_ when no barrier precedes it may still drop beams (a    *)
(* capacity of zero): a block that comes later must not find a barrier.    *)
LEMMA CutNextAligned ==
  ASSUME BarrierInv, NEW u \in Block, CutNext(u)
  PROVE  Aligned'
<1>1. PICK n \in 0 .. NumOutpos : Phase(n)
  BY DEF BarrierInv, Aligned
<1>2. pc[u] = "shrink" /\ UNCHANGED outpos /\ pc' = [pc EXCEPT ![u] = "save"]
  BY DEF CutNext, CutTo, Goto
<1>3. (Passing(n) \/ Saving(n)) /\ outpos[u] = n
  BY <1>1, <1>2, PhaseOf DEF LevelOf
<1>4. Nxt(u) = Later(n) /\ Later(n) \in {"A", "B", "selected"}
  BY <1>3 DEF Nxt, Later
<1>5. cont'[Later(n)] = Shrunk(cont[Later(n)]) /\ cont[Later(n)] \in Container
  BY <1>4 DEF CutNext, CutTo, BarrierInv, TypeInv, TypeOK
<1>6. Phase(n)'
  <2>1. CASE Passing(n)
    <3>1. ~SortsNext(n)'
      BY <1>5, <2>1, ShrunkStaysUnsynced DEF Passing, SortsNext
    <3> QED
      BY <1>2, <2>1, <3>1, MoveAt DEF Passing, BarrierInv, Phase
  <2>2. CASE Saving(n)
    BY <1>2, <2>2, MoveAt DEF Saving, BarrierInv, Phase
  <2> QED BY <1>3, <2>1, <2>2
<1> QED
  BY <1>6 DEF Aligned

LEMMA SaveAligned ==
  ASSUME BarrierInv, NEW u \in Block, Save(u)
  PROVE  Aligned'
<1>1. PICK n \in 0 .. NumOutpos : Phase(n)
  BY DEF BarrierInv, Aligned
<1>2. pc[u] = "save" /\ UNCHANGED outpos /\ pc' = [pc EXCEPT ![u] = "saveSync"]
  BY DEF Save, Goto
<1>3. (Passing(n) \/ Saving(n)) /\ outpos[u] = n
  BY <1>1, <1>2, PhaseOf DEF LevelOf
<1>4. /\ Nxt(u) = Later(n) /\ Later(n) \in {"A", "B", "selected"}
      /\ Cur(u) = Now(n) /\ Now(n) \in {"A", "B", "selected"} /\ Now(n) # Later(n)
  BY <1>3 DEF Nxt, Later, Cur, Now
<1>5. cont'[Later(n)].size = cont[Later(n)].size /\ cont'[Later(n)].cap = cont[Later(n)].cap
  <2>1. CASE u = Leader
    <3>1. cont'[Later(n)] = Numbered(cont[Later(n)], Len(beams))
      BY <1>4, <2>1 DEF Save, BarrierInv, TypeInv, TypeOK
    <3>2. cont[Later(n)] \in Container /\ Len(beams) \in Nat
      BY <1>4 DEF BarrierInv, TypeInv, TypeOK
    <3>3. /\ Numbered(cont[Later(n)], Len(beams)).size = cont[Later(n)].size
          /\ Numbered(cont[Later(n)], Len(beams)).cap = cont[Later(n)].cap
      BY <3>2, NumberedType
    <3> QED
      BY <3>1, <3>3
  <2>2. CASE u # Leader
    BY <2>2 DEF Save
  <2> QED BY <2>1, <2>2
<1>6. SortsNext(n)' <=> SortsNext(n)
  BY <1>5 DEF SortsNext, TrimSyncs, Sorts, Selects, Later
<1>7. Phase(n)'
  <2>1. CASE Passing(n)
    BY <1>2, <1>6, <2>1, MoveAt DEF Passing, BarrierInv, Phase
  <2>2. CASE Saving(n)
    BY <1>2, <2>2, MoveAt DEF Saving, BarrierInv, Phase
  <2> QED BY <1>3, <2>1, <2>2
<1> QED
  BY <1>7 DEF Aligned

(* Undisturbed, the block passes the proactive trim by.                    *)
LEMMA CheckAligned ==
  ASSUME BarrierInv, Undisturbed, NEW u \in Block, CheckSelected(u)
  PROVE  Aligned'
<1>1. PICK n \in 0 .. NumOutpos : Phase(n)
  BY DEF BarrierInv, Aligned
<1>2. pc[u] = "check" /\ UNCHANGED <<outpos, cont>> /\ pc' = [pc EXCEPT ![u] = "swap"]
  BY DEF CheckSelected, Goto, Undisturbed
<1>3. Expanding(n) \/ Ordering(n) \/ Leaving(n)
  BY <1>1, <1>2, PhaseOf
<1>4. (Ends(n)' <=> Ends(n)) /\ (SortsLast' <=> SortsLast)
  BY <1>2 DEF Ends, SortsLast
<1>5. Phase(n)'
  <2>1. CASE Expanding(n)
    BY <1>2, <1>4, <2>1, MoveAt DEF Expanding, BarrierInv, Phase
  <2>2. CASE Ordering(n)
    BY <1>2, <1>4, <2>2, MoveAt DEF Ordering, BarrierInv, Phase
  <2>3. CASE Leaving(n)
    BY <1>2, <1>4, <2>3, MoveAt DEF Leaving, BarrierInv, Phase
  <2> QED BY <1>3, <2>1, <2>2, <2>3
<1> QED
  BY <1>5 DEF Aligned

LEMMA SwapAligned ==
  ASSUME BarrierInv, NEW u \in Block, Swap(u)
  PROVE  Aligned'
<1>1. PICK n \in 0 .. NumOutpos : Phase(n)
  BY DEF BarrierInv, Aligned
<1>2. /\ pc[u] = "swap" /\ UNCHANGED cont /\ pc' = [pc EXCEPT ![u] = "top"]
      /\ outpos' = [outpos EXCEPT ![u] = @ + 1]
  BY DEF Swap, Goto
<1>3. Expanding(n) \/ Ordering(n) \/ Leaving(n)
  BY <1>1, <1>2, PhaseOf
<1>4. (Ends(n)' <=> Ends(n)) /\ (SortsLast' <=> SortsLast)
  BY <1>2 DEF Ends, SortsLast
<1>5. ASSUME NEW P, At(n, P), "top" \in P
      PROVE  At(n, P)'
  BY <1>2, <1>5 DEF At, LevelOf, BarrierInv, TypeInv, TypeOK
<1>6. Phase(n)'
  BY <1>3, <1>4, <1>5 DEF Expanding, Ordering, Leaving, Phase
<1> QED
  BY <1>6 DEF Aligned

LEMMA TrimFinalAligned ==
  ASSUME BarrierInv, NEW u \in Block, TrimFinal(u)
  PROVE  Aligned'
<1>1. PICK n \in 0 .. NumOutpos : Phase(n)
  BY DEF BarrierInv, Aligned
<1>2. pc[u] = "finalTrim" /\ UNCHANGED outpos
  BY DEF TrimFinal
<1>3. Ordering(n) \/ Leaving(n)
  BY <1>1, <1>2, PhaseOf
<1>4. EnterTrim(u, "selected", TRUE, "finalSync", "finalCut")
  BY DEF TrimFinal
<1>5. cont \in [{"A", "B", "selected"} -> Container]
  BY DEF BarrierInv, TypeInv, TypeOK
<1>6. \A x \in {"A", "B", "selected"} :
         cont'[x].size = cont[x].size /\ cont'[x].cap = cont[x].cap
  <2>1. PICK c \in {"A", "B", "selected"}, force \in BOOLEAN :
          EnterTrim(u, c, force, "finalSync", "finalCut")
    BY <1>4
  <2> QED
    BY <1>5, <2>1, EnterTrimSizes
<1>7. IF SortsLast THEN pc' = [pc EXCEPT ![u] = "finalSync"]
                   ELSE pc' = [pc EXCEPT ![u] = "finalCut"]
  BY <1>4 DEF EnterTrim, Goto, SortsLast
<1>8. (Ends(n)' <=> Ends(n)) /\ (SortsLast' <=> SortsLast)
  BY <1>6, SameSizes
<1>9. Phase(n)'
  <2>1. CASE Ordering(n)
    BY <1>2, <1>7, <1>8, <2>1, MoveAt DEF Ordering, BarrierInv, Phase
  <2>2. CASE Leaving(n)
    BY <1>2, <1>7, <1>8, <2>2, MoveAt DEF Leaving, BarrierInv, Phase
  <2> QED BY <1>3, <2>1, <2>2
<1> QED
  BY <1>9 DEF Aligned

LEMMA CutFinalAligned ==
  ASSUME BarrierInv, NEW u \in Block, CutFinal(u)
  PROVE  Aligned'
<1>1. PICK n \in 0 .. NumOutpos : Phase(n)
  BY DEF BarrierInv, Aligned
<1>2. /\ pc[u] = "finalCut" /\ UNCHANGED outpos /\ pc' = [pc EXCEPT ![u] = "outSync"]
      /\ cont' = [cont EXCEPT !["selected"] = Shrunk(@)]
  BY DEF CutFinal, CutTo, Goto
<1>3. Leaving(n) \/ Cutting(n)
  BY <1>1, <1>2, PhaseOf
<1>4. Phase(n)'
  <2>1. CASE Leaving(n)
    <3>1. ~SortsLast'
      BY <1>2, <2>1, ShrunkStaysUnsynced DEF Leaving, SortsLast, BarrierInv, TypeInv, TypeOK
    <3>2. Ends(n)'
      BY <1>2, <2>1 DEF Leaving, Ends, Now, BarrierInv, TypeInv, TypeOK
    <3> QED
      BY <1>2, <2>1, <3>1, <3>2, MoveAt DEF Leaving, BarrierInv, Phase
  <2>2. CASE Cutting(n)
    BY <1>2, <2>2, MoveAt DEF Cutting, BarrierInv, Phase
  <2> QED BY <1>3, <2>1, <2>2
<1> QED
  BY <1>4 DEF Aligned

LEMMA GenerateAligned ==
  ASSUME BarrierInv, NEW u \in Block, GenerateResult(u)
  PROVE  Aligned'
<1>1. PICK n \in 0 .. NumOutpos : Phase(n)
  BY DEF BarrierInv, Aligned
<1>2. pc[u] = "generate" /\ UNCHANGED outpos /\ pc' = [pc EXCEPT ![u] = "done"]
  BY DEF GenerateResult, Goto
<1>3. Writing(n)'
  BY <1>1, <1>2, PhaseOf, MoveAt DEF Writing, BarrierInv
<1> QED
  BY <1>3 DEF Aligned, Phase

-----------------------------------------------------------------------------
(* The barrier.  All blocks of a phase wait at its one barrier, and from   *)
(* there they go on to the next phase together.                            *)
LEMMA ReleaseAligned ==
  ASSUME BarrierInv, Release
  PROVE  Aligned'
<1> USE ResumeAt
<1>1. PICK n \in 0 .. NumOutpos : Phase(n)
  BY DEF BarrierInv, Aligned
<1>2. Leader \in Block
  BY DEF Leader, Block
<1>3. \A u \in Block : pc[u] \in SyncPoint /\ pc'[u] = Resume[pc[u]] /\ outpos'[u] = outpos[u]
  BY DEF Release
<1>4. ASSUME NEW m \in 0 .. NumOutpos, NEW l \in {"check", "top"}, At(m, {l})'
      PROVE  Aligned'
  <2>1. /\ At(m, {"check", "swap", "top", "expand", "expandSync"})'
        /\ At(m, {"check", "swap", "top", "finalTrim", "finalSync"})'
        /\ At(m, {"check", "swap", "top", "finalTrim", "finalCut", "outSync"})'
    BY <1>4 DEF At
  <2> QED
    BY <2>1 DEF Aligned, Phase, Expanding, Ordering, Leaving
<1>5. CASE Starting(n)
  <2>1. \A u \in Block : pc[u] = "initSync" /\ outpos[u] = n
    BY <1>3, <1>5 DEF Starting, At, LevelOf
  <2>2. At(n, {"top"})'
    BY <1>3, <2>1 DEF At, LevelOf
  <2> QED
    BY <1>4, <2>2
<1>6. CASE Expanding(n)
  <2>1. \A u \in Block : pc[u] = "expandSync" /\ outpos[u] = n
    BY <1>3, <1>6 DEF Expanding, At, LevelOf
  <2>2. At(n, {"trim", "trimSync"})' /\ At(n, {"trim", "shrink", "save", "saveSync"})'
    BY ZenonT(30), <1>3, <2>1 DEF At, LevelOf
  <2> QED
    BY <2>2 DEF Aligned, Phase, Sorting, Passing
<1>7. CASE Sorting(n)
  <2>1. \A u \in Block : pc[u] = "trimSync" /\ outpos[u] = n
    BY <1>3, <1>7 DEF Sorting, At, LevelOf
  <2>2. Saving(n)'
    BY <1>3, <2>1 DEF Saving, At, LevelOf
  <2> QED
    BY <2>2 DEF Aligned, Phase
<1>8. CASE Passing(n) \/ Saving(n)
  <2>1. \A u \in Block : pc[u] = "saveSync" /\ outpos[u] = n
    BY <1>3, <1>8 DEF Passing, Saving, At, LevelOf
  <2>2. n + 1 \in 0 .. NumOutpos
    <3>1. outpos[Leader] \in 0 .. NumOutpos - 1
      BY <1>2, <2>1 DEF BarrierInv, TypeInv, LoopRange, InLoop
    <3> QED
      BY <1>2, <2>1, <3>1
  <2>3. At(n + 1, {"check"})'
    BY <1>3, <2>1 DEF At, LevelOf
  <2> QED
    BY <1>4, <2>2, <2>3
<1>9. CASE Ordering(n)
  <2>1. \A u \in Block : pc[u] = "finalSync" /\ outpos[u] = n
    BY <1>3, <1>9 DEF Ordering, At, LevelOf
  <2>2. Cutting(n)'
    BY <1>3, <2>1 DEF Cutting, At, LevelOf
  <2> QED
    BY <2>2 DEF Aligned, Phase
<1>10. CASE Leaving(n) \/ Cutting(n)
  <2>1. \A u \in Block : pc[u] = "outSync" /\ outpos[u] = n
    BY <1>3, <1>10 DEF Leaving, Cutting, At, LevelOf
  <2>2. Writing(n)'
    BY <1>3, <2>1 DEF Writing, At, LevelOf
  <2> QED
    BY <2>2 DEF Aligned, Phase
<1>11. CASE Writing(n)
  BY <1>2, <1>3, <1>11 DEF Writing, At
<1> QED
  BY <1>1, <1>5, <1>6, <1>7, <1>8, <1>9, <1>10, <1>11 DEF Phase

LEMMA NextAligned ==
  ASSUME BarrierInv, Undisturbed, [Next]_vars
  PROVE  BarrierInv'
<1>1. TypeInv'
  BY NextType DEF BarrierInv
<1>2. ASSUME NEW u \in Block, Step(u)
      PROVE  Aligned'
  <2>1. CASE Prepare(u) \/ Top(u) \/ Push(u) \/ Expanded(u)
    BY <2>1, PrepareAligned, TopAligned, PushAligned, ExpandedAligned
  <2>2. CASE TrimNext(u) \/ CutNext(u) \/ Save(u)
    BY <2>2, TrimNextAligned, CutNextAligned, SaveAligned
  <2>3. CASE CheckSelected(u) \/ Swap(u)
    BY <2>3, CheckAligned, SwapAligned
  <2>4. CASE CutSelected(u)
    <3>1. pc[u] = "selectedCut"
      BY <2>4 DEF CutSelected
    <3> QED
      BY <3>1, PhaseOf DEF BarrierInv, Aligned
  <2>5. CASE TrimFinal(u) \/ CutFinal(u) \/ GenerateResult(u)
    BY <2>5, TrimFinalAligned, CutFinalAligned, GenerateAligned
  <2> QED
    BY <1>2, <2>1, <2>2, <2>3, <2>4, <2>5 DEF Step
<1>3. ASSUME UNCHANGED vars PROVE Aligned'
  <2>1. PICK n \in 0 .. NumOutpos : Phase(n)
    BY DEF BarrierInv, Aligned
  <2>2. ASSUME NEW P PROVE At(n, P)' <=> At(n, P)
    BY <1>3 DEF vars, At, LevelOf
  <2>3. /\ Ends(n)' <=> Ends(n)
        /\ SortsNext(n)' <=> SortsNext(n)
        /\ SortsLast' <=> SortsLast
    BY <1>3 DEF vars, Ends, SortsNext, SortsLast
  <2>4. Phase(n)'
    BY <2>1, <2>2, <2>3 DEF Phase, Starting, Expanding, Sorting, Passing, Saving,
                            Ordering, Leaving, Cutting, Writing
  <2> QED
    BY <2>4 DEF Aligned
<1>4. ASSUME Next PROVE Aligned'
  <2>1. Release \/ \E u \in Block : Step(u)
    BY <1>4 DEF Next
  <2>2. CASE Release
    BY <2>2, ReleaseAligned
  <2> QED
    BY <1>2, <2>1, <2>2
<1> QED
  BY <1>1, <1>3, <1>4 DEF BarrierInv

-----------------------------------------------------------------------------
LEMMA AlignedAgree == BarrierInv => BarriersAgree
<1> USE ResumeAt
<1> SUFFICES ASSUME BarrierInv,
                    NEW u \in Block, NEW v \in Block,
                    pc[u] \in SyncPoint, pc[v] \in SyncPoint
             PROVE  pc[u] = pc[v] /\ outpos[u] = outpos[v]
  BY DEF BarriersAgree
<1>1. PICK n \in 0 .. NumOutpos : Phase(n)
  BY DEF BarrierInv, Aligned
<1>2. pc[u] = pc[v]
  BY <1>1 DEF Phase, Starting, Expanding, Sorting, Passing, Saving, Ordering, Leaving,
              Cutting, Writing, At
<1>3. LevelOf(u) = n /\ LevelOf(v) = n
  BY <1>1, PhaseOf
<1> QED
  BY <1>2, <1>3 DEF LevelOf

LEMMA AlignedApart == BarrierInv => PhasesApart
<1> SUFFICES ASSUME BarrierInv, NEW u \in Block, NEW v \in Block, pc[u] = "expand"
             PROVE  pc[v] \in {"check", "swap", "top", "expand", "expandSync"}
  BY DEF PhasesApart
<1>1. PICK n \in 0 .. NumOutpos : Phase(n)
  BY DEF BarrierInv, Aligned
<1>2. Expanding(n)
  BY <1>1, PhaseOf
<1> QED
  BY <1>2 DEF Expanding, At

(* As long as no block looks at a size of selected_ above a threshold, the *)
(* blocks that wait, wait at the same cg::sync of the same output position.*)
THEOREM BarriersMeet == Spec /\ []Undisturbed => []BarriersAgree
<1>1. BarrierInv /\ Undisturbed /\ [Next]_vars => BarrierInv'
  BY NextAligned
<1> QED
  BY <1>1, InitAligned, AlignedAgree, PTL DEF Spec

(* ... and no block trims, saves or clears a container while another one   *)
(* still expands parents of it or pushes children to it.                   *)
THEOREM PhasesMeet == Spec /\ []Undisturbed => []PhasesApart
<1>1. BarrierInv /\ Undisturbed /\ [Next]_vars => BarrierInv'
  BY NextAligned
<1> QED
  BY <1>1, InitAligned, AlignedApart, PTL DEF Spec

-----------------------------------------------------------------------------
LEMMA LeaderIn == Leader \in Block
BY DEF Leader, Block

(* What block u makes of its share of the parents in a container.          *)
Child(b, k) == [path |-> Append(b.path, k), id |-> NoId, parent |-> b.id]

Share(u, c) ==
  LET mine == {c.cand[i] : i \in {j \in 0 .. c.size - 1 : j % NumCtas = u}}
      kids == {Child(b, k) : b \in mine, k \in Token}
  IN  ({"next"} \X {x \in kids : x.path \in ToNext})
        \cup ({"selected"} \X {x \in kids : x.path \in ToSelected})

(* What a block will still push at the output position that it is at, and  *)
(* the pushes to container t that are still to come from all blocks.       *)
Heads == {"init", "initSync", "check", "swap", "top"}

Due(u) ==
  IF pc[u] = "expand" THEN todo[u]
  ELSE IF pc[u] \in Heads THEN Share(u, cont[Now(LevelOf(u))])
  ELSE {}

Debts(t) == {x \in Block \X Beam : <<t, x[2]>> \in Due(x[1])}

-----------------------------------------------------------------------------
(* A share is made of children of beams of the container.                  *)
LEMMA ShareOf ==
  ASSUME NEW c \in Container, NEW u \in Block, NEW o \in Share(u, c)
  PROVE  \E i \in 0 .. c.size - 1, k \in Token : i % NumCtas = u /\ o[2] = Child(c.cand[i], k)
<1> DEFINE mine == {c.cand[i] : i \in {j \in 0 .. c.size - 1 : j % NumCtas = u}}
           kids == {Child(y, k) : y \in mine, k \in Token}
<1>1. Share(u, c) = ({"next"} \X {x \in kids : x.path \in ToNext})
                      \cup ({"selected"} \X {x \in kids : x.path \in ToSelected})
  BY DEF Share
<1>2. o[2] \in kids
  <2> HIDE DEF kids
  <2> QED BY <1>1
<1>3. PICK y \in mine, k \in Token : o[2] = Child(y, k)
  <2> HIDE DEF mine
  <2> QED BY <1>2
<1>4. PICK i \in {j \in 0 .. c.size - 1 : j % NumCtas = u} : y = c.cand[i]
  BY <1>3
<1> QED BY <1>3, <1>4

(* The pushes to come are at most as many as parents times tokens.         *)
LEMMA ShareBounded ==
  ASSUME IsFiniteSet(Token), NEW c \in Container, NEW t, NEW D,
         D \subseteq Block \X Beam, \A x \in D : <<t, x[2]>> \in Share(x[1], c)
  PROVE  IsFiniteSet(D) /\ Cardinality(D) <= c.size * Cardinality(Token)
<1> DEFINE S == 0 .. c.size - 1
           I == S \X Token
           f == [x \in I |-> <<x[1] % NumCtas, Child(c.cand[x[1]], x[2])>>]
           T == {f[x] : x \in I}
<1>1. c.size \in Nat
  BY ContainerFields
<1>2. IsFiniteSet(S) /\ Cardinality(S) = c.size
  <2>1. 0 \in Int /\ c.size - 1 \in Int
    BY <1>1
  <2>2. IsFiniteSet(S) /\ Cardinality(S) = IF 0 > c.size - 1 THEN 0 ELSE c.size - 1 - 0 + 1
    BY <2>1, FS_Interval
  <2> HIDE DEF S
  <2> QED BY <1>1, <2>2
<1>3. IsFiniteSet(I) /\ Cardinality(I) = c.size * Cardinality(Token)
  <2> HIDE DEF S
  <2>1. IsFiniteSet(S \X Token) /\ Cardinality(S \X Token) = Cardinality(S) * Cardinality(Token)
    BY <1>2, FS_Product
  <2> QED BY <1>2, <2>1
<1>4. D \subseteq T
  <2> SUFFICES ASSUME NEW x \in D PROVE x \in T
    OBVIOUS
  <2>1. PICK u \in Block, b \in Beam : x = <<u, b>>
    OBVIOUS
  <2>2. <<t, b>> \in Share(u, c)
    BY <2>1
  <2>3. PICK i \in S, k \in Token : i % NumCtas = u /\ b = Child(c.cand[i], k)
    <3>1. \E i \in 0 .. c.size - 1, k \in Token : i % NumCtas = u /\ <<t, b>>[2] = Child(c.cand[i], k)
      BY <2>2, ShareOf
    <3> QED BY <3>1
  <2>4. <<i, k>> \in I /\ f[<<i, k>>] = <<u, b>>
    BY <2>3
  <2> HIDE DEF f, I
  <2> QED BY <2>1, <2>4
<1>5. f \in Surjection(I, T)
  <2>1. f \in [I -> T]
    <3> DEFINE g(x) == <<x[1] % NumCtas, Child(c.cand[x[1]], x[2])>>
    <3> HIDE DEF I, g
    <3> QED BY DEF g
  <2> HIDE DEF f, I
  <2>2. \A y \in T : \E x \in I : f[x] = y
    OBVIOUS
  <2> HIDE DEF T
  <2> QED BY <2>1, <2>2 DEF Surjection
<1> HIDE DEF f, I, T
<1>6. IsFiniteSet(T) /\ Cardinality(T) <= Cardinality(I)
  BY <1>3, <1>5, FS_Surjection
<1>7. IsFiniteSet(D) /\ Cardinality(D) <= Cardinality(T)
  BY <1>4, <1>6, FS_Subset
<1>8. Cardinality(D) \in Nat /\ Cardinality(T) \in Nat /\ Cardinality(I) \in Nat
  BY <1>3, <1>6, <1>7, FS_CardinalityType
<1> QED BY <1>3, <1>6, <1>7, <1>8

(* Fewer pushes to come are no more.                                       *)
LEMMA Fewer ==
  ASSUME NEW S, IsFiniteSet(S), NEW T, T \subseteq S
  PROVE  /\ IsFiniteSet(T)
         /\ Cardinality(T) \in Nat /\ Cardinality(S) \in Nat /\ Cardinality(T) <= Cardinality(S)
BY FS_Subset, FS_CardinalityType

LEMMA Times ==
  ASSUME NEW a \in Nat, NEW b \in Nat, NEW d \in Nat, a <= b
  PROVE  a * d <= b * d /\ a * d \in Nat
<1>1. PICK c \in Nat : b = a + c
  <2>1. b - a \in Nat /\ b = a + (b - a)
    OBVIOUS
  <2> QED BY <2>1
<1>2. (a + c) * d = a * d + c * d
  OBVIOUS
<1>3. a * d \in Nat /\ c * d \in Nat
  OBVIOUS
<1> QED BY <1>1, <1>2, <1>3

-----------------------------------------------------------------------------
Names == {"A", "B", "selected"}

(* The leader on its way to the expansion of level n, and as far as the    *)
(* sort of next_.                                                          *)
StartAt    == {"initSync", "check", "swap", "top", "expand", "expandSync"}
BeforeTrim == StartAt \cup {"trim"}
BeforeSave == StartAt \cup {"trim", "trimSync", "shrink", "save"}

(* There is room for every push to come and for every beam to save.        *)
SelectedRoom(room, n) ==
  /\ IsFiniteSet(Debts("selected"))
  /\ n < NumOutpos => cont["selected"].size + Cardinality(Debts("selected")) <= room[n + 1]
  /\ n = NumOutpos => cont["selected"].size <= room[n]

NextRoom(n) ==
  /\ IsFiniteSet(Debts("next"))
  /\ pc[Leader] \in BeforeTrim /\ n < NumOutpos
       => cont[Later(n)].size + Cardinality(Debts("next")) <= Children(n)
  /\ pc[Leader] \in BeforeSave /\ n < NumOutpos => cont[Later(n)].cap = BeamWidth[n]
  /\ pc[Leader] \in {"save", "saveSync"} /\ n < NumOutpos => cont[Later(n)].size <= BeamWidth[n]
  /\ pc[Leader] = "saveSync" /\ n + 1 < NumOutpos
       => cont[Now(n)].size = 0 /\ cont[Now(n)].cap = BeamWidth[n + 1]

CurRoom(n) == pc[Leader] \in StartAt => cont[Now(n)].size <= Parents(n)

BeamsRoom(saves, n) ==
  /\ pc[Leader] \in BeforeSave => Len(beams) <= saves[n]
  /\ pc[Leader] = "saveSync" /\ n < NumOutpos => Len(beams) <= saves[n + 1]

RoomInv(room, saves) ==
  /\ ~fault
  /\ \A u \in Block : pc[u] \in {"init", "initSync"} => outpos[u] = 0
  /\ pc[Leader] # "init" =>
       /\ SelectedRoom(room, LevelOf(Leader))
       /\ NextRoom(LevelOf(Leader))
       /\ CurRoom(LevelOf(Leader))
       /\ BeamsRoom(saves, LevelOf(Leader))

LEMMA WidthNat ==
  ASSUME NEW n \in 0 .. NumOutpos
  PROVE  /\ Parents(n) \in Nat
         /\ n < NumOutpos => BeamWidth[n] \in Nat /\ n + 1 \in 0 .. NumOutpos
                             /\ Parents(n + 1) = BeamWidth[n]
BY DEF Parents

LEMMA ChildrenNat ==
  ASSUME IsFiniteSet(Token), NEW n \in 0 .. NumOutpos
  PROVE  Parents(n) \in Nat /\ Cardinality(Token) \in Nat /\ Children(n) \in Nat
<1>1. Parents(n) \in Nat /\ Cardinality(Token) \in Nat
  BY WidthNat, FS_CardinalityType
<1> QED BY <1>1 DEF Children

LEMMA SizesNat ==
  ASSUME TypeInv
  PROVE  \A x \in Names : cont[x].size \in Nat
<1> SUFFICES ASSUME NEW x \in Names
             PROVE  cont[x].size \in Nat
  OBVIOUS
<1>1. cont[x] \in Container
  BY DEF TypeInv, TypeOK, Names
<1>2. cont[x].size \in 0 .. Buffer
  BY <1>1, ContainerFields
<1> QED BY <1>2

(* What every step but a push, a save and the opening of an output         *)
(* position does: nothing more is to come, and no container grows.         *)
LEMMA KeepsRoom ==
  ASSUME NEW room, NEW saves, IsFiniteSet(Token), Rooms(room), TypeInv, RoomInv(room, saves),
         NEW n \in 0 .. NumOutpos, LevelOf(Leader) = n, LevelOf(Leader)' = n,
         pc[Leader] # "init", UNCHANGED <<beams, fault>>,
         \A u \in Block : pc'[u] \in {"init", "initSync"} => outpos'[u] = 0,
         \A t \in {"next", "selected"} : Debts(t)' \subseteq Debts(t),
         \A x \in Names : /\ cont'[x].cap = cont[x].cap
                          /\ cont'[x].size \in Nat /\ cont'[x].size <= cont[x].size,
         pc'[Leader] \in StartAt => pc[Leader] \in StartAt,
         pc'[Leader] \in BeforeTrim => pc[Leader] \in BeforeTrim,
         pc'[Leader] \in BeforeSave => pc[Leader] \in BeforeSave,
         pc'[Leader] = "saveSync" => pc[Leader] = "saveSync",
         pc'[Leader] = "save" =>
           \/ pc[Leader] = "save"
           \/ pc[Leader] \in BeforeSave /\ n < NumOutpos /\ cont'[Later(n)].size <= cont[Later(n)].cap
  PROVE  RoomInv(room, saves)'
<1>1. /\ SelectedRoom(room, n) /\ NextRoom(n) /\ CurRoom(n) /\ BeamsRoom(saves, n)
      /\ ~fault'
  BY DEF RoomInv
<1>2. Now(n) \in Names /\ Later(n) \in Names /\ "selected" \in Names
  BY DEF Now, Later, Names
<1>3. ASSUME NEW t \in {"next", "selected"}
      PROVE  /\ IsFiniteSet(Debts(t)') /\ Cardinality(Debts(t)') \in Nat
             /\ Cardinality(Debts(t)) \in Nat /\ Cardinality(Debts(t)') <= Cardinality(Debts(t))
  <2>1. IsFiniteSet(Debts(t)) /\ Debts(t)' \subseteq Debts(t)
    BY <1>1 DEF SelectedRoom, NextRoom
  <2> QED BY <2>1, Fewer
<1>4. \A x \in Names : cont[x].size \in Nat
  BY SizesNat
<1>9. /\ Parents(n) \in Nat /\ Children(n) \in Nat
      /\ n < NumOutpos => BeamWidth[n] \in Nat
  BY WidthNat, ChildrenNat
<1>10. \A x \in {Now(n), Later(n)} :
          /\ cont'[x].cap = cont[x].cap
          /\ cont'[x].size \in Nat /\ cont[x].size \in Nat /\ cont'[x].size <= cont[x].size
  BY <1>2, <1>4
<1>5. SelectedRoom(room, n)'
  <2>1. /\ n < NumOutpos => room[n + 1] \in Nat
        /\ n = NumOutpos => room[n] \in Nat
    BY DEF Rooms
  <2>2. /\ IsFiniteSet(Debts("selected")')
        /\ Cardinality(Debts("selected")) \in Nat /\ Cardinality(Debts("selected")') \in Nat
        /\ Cardinality(Debts("selected")') <= Cardinality(Debts("selected"))
    BY <1>3
  <2>3. /\ cont'["selected"].size \in Nat /\ cont["selected"].size \in Nat
        /\ cont'["selected"].size <= cont["selected"].size
    BY <1>2, <1>4
  <2>4. ASSUME n < NumOutpos
        PROVE  cont'["selected"].size + Cardinality(Debts("selected")') <= room[n + 1]
    <3>1. cont["selected"].size + Cardinality(Debts("selected")) <= room[n + 1]
      BY <1>1, <2>4 DEF SelectedRoom
    <3> DEFINE a == cont["selected"].size
               b == Cardinality(Debts("selected"))
               c == cont'["selected"].size
               d == Cardinality(Debts("selected")')
               r == room[n + 1]
    <3>2. /\ a \in Nat /\ b \in Nat /\ c \in Nat /\ d \in Nat /\ r \in Nat
          /\ a + b <= r /\ c <= a /\ d <= b
      BY <2>1, <2>2, <2>3, <2>4, <3>1
    <3> HIDE DEF a, b, c, d, r
    <3>3. c + d <= r
      BY <3>2
    <3> QED BY <3>3 DEF c, d, r
  <2>5. n = NumOutpos => cont'["selected"].size <= room[n]
    BY <1>1, <2>1, <2>3 DEF SelectedRoom
  <2> QED BY <2>2, <2>4, <2>5 DEF SelectedRoom
<1>6. NextRoom(n)'
  <2>1. ASSUME pc'[Leader] \in BeforeTrim, n < NumOutpos
        PROVE  cont'[Later(n)].size + Cardinality(Debts("next")') <= Children(n)
    <3>1. cont[Later(n)].size + Cardinality(Debts("next")) <= Children(n)
      BY <1>1, <2>1 DEF NextRoom
    <3>2. /\ Cardinality(Debts("next")) \in Nat /\ Cardinality(Debts("next")') \in Nat
          /\ Cardinality(Debts("next")') <= Cardinality(Debts("next"))
      BY <1>3
    <3>3. /\ cont'[Later(n)].size \in Nat /\ cont[Later(n)].size \in Nat
          /\ cont'[Later(n)].size <= cont[Later(n)].size
      BY <1>10
    <3> DEFINE a == cont[Later(n)].size
               b == Cardinality(Debts("next"))
               c == cont'[Later(n)].size
               d == Cardinality(Debts("next")')
               h == Children(n)
    <3>4. /\ a \in Nat /\ b \in Nat /\ c \in Nat /\ d \in Nat /\ h \in Nat
          /\ a + b <= h /\ c <= a /\ d <= b
      BY <1>9, <3>1, <3>2, <3>3
    <3> HIDE DEF a, b, c, d, h
    <3>5. c + d <= h
      BY <3>4
    <3> QED BY <3>5 DEF c, d, h
  <2>2. ASSUME pc'[Leader] \in BeforeSave, n < NumOutpos
        PROVE  cont'[Later(n)].cap = BeamWidth[n]
    BY <1>1, <1>10, <2>2 DEF NextRoom
  <2>3. ASSUME pc'[Leader] \in {"save", "saveSync"}, n < NumOutpos
        PROVE  cont'[Later(n)].size <= BeamWidth[n]
    BY SMTT(30), <1>1, <1>9, <1>10, <2>3 DEF NextRoom
  <2>4. ASSUME pc'[Leader] = "saveSync", n + 1 < NumOutpos
        PROVE  cont'[Now(n)].size = 0 /\ cont'[Now(n)].cap = BeamWidth[n + 1]
    <3>1. cont[Now(n)].size = 0 /\ cont[Now(n)].cap = BeamWidth[n + 1]
      BY <1>1, <2>4 DEF NextRoom
    <3> QED BY <1>10, <3>1
  <2> QED BY <1>3, <2>1, <2>2, <2>3, <2>4 DEF NextRoom
<1>7. CurRoom(n)'
  BY <1>1, <1>9, <1>10 DEF CurRoom
<1>8. BeamsRoom(saves, n)'
  BY <1>1 DEF BeamsRoom
<1> QED BY <1>1, <1>5, <1>6, <1>7, <1>8 DEF RoomInv

(* Nothing more is to come from a block that stays on its way, nor from    *)
(* one that leaves the loop.                                               *)
LEMMA DueStays ==
  ASSUME NEW v \in Block,
         pc'[v] = "expand" => Due(v)' = Due(v),
         pc'[v] \in Heads => /\ pc[v] \in Heads /\ LevelOf(v)' = LevelOf(v)
                             /\ cont'[Now(LevelOf(v))] = cont[Now(LevelOf(v))]
  PROVE  Due(v)' \subseteq Due(v)
<1>1. CASE pc'[v] = "expand"
  BY <1>1
<1>2. CASE pc'[v] \in Heads
  <2>1. Now(LevelOf(v))' = Now(LevelOf(v))
    BY <1>2 DEF Now
  <2>2. pc[v] \in Heads /\ pc[v] # "expand" /\ pc'[v] # "expand"
    BY <1>2 DEF Heads
  <2>3. Due(v) = Share(v, cont[Now(LevelOf(v))])
    BY <2>2 DEF Due
  <2>4. Due(v)' = Share(v, cont'[Now(LevelOf(v))'])
    BY <1>2, <2>2 DEF Due, Share
  <2> QED BY <1>2, <2>1, <2>3, <2>4
<1>3. CASE pc'[v] \notin Heads /\ pc'[v] # "expand"
  BY <1>3 DEF Due
<1> QED BY <1>1, <1>2, <1>3

LEMMA DebtsStay ==
  ASSUME \A v \in Block : Due(v)' \subseteq Due(v), NEW t
  PROVE  Debts(t)' \subseteq Debts(t)
BY DEF Debts

LEMMA OwedDue ==
  ASSUME NEW u \in Block, pc[u] = "top"
  PROVE  Owed(u) = Due(u)
<1>1. Due(u) = Share(u, cont[Cur(u)])
  BY DEF Due, Heads, LevelOf, Now, Cur
<1>2. Owed(u) = Share(u, cont[Cur(u)])
  BY DEF Owed, Share, Child
<1> QED BY <1>1, <1>2

(* A block that changes its own place only, or takes its share.            *)
LEMMA PlaceRoom ==
  ASSUME NEW room, NEW saves, IsFiniteSet(Token), Rooms(room), BarrierInv, RoomInv(room, saves),
         NEW u \in Block,
         \/ Prepare(u) /\ u # Leader
         \/ Top(u)
         \/ Expanded(u)
         \/ Save(u) /\ u # Leader
         \/ CheckSelected(u) /\ ~Crowded
         \/ Swap(u)
         \/ GenerateResult(u)
  PROVE  RoomInv(room, saves)'
<1> USE LeaderIn
<1>1. UNCHANGED <<cont, beams, fault>>
  BY DEF Prepare, Top, Expanded, Save, CheckSelected, Swap, GenerateResult
<1>2. /\ pc \in [Block -> Location] /\ outpos \in [Block -> 0 .. NumOutpos]
      /\ cont \in [Names -> Container] /\ todo \in [Block -> SUBSET ({"next", "selected"} \X Beam)]
  BY DEF BarrierInv, TypeInv, TypeOK, Names
<1>3. PICK l \in Location :
         /\ pc' = [pc EXCEPT ![u] = l] /\ l # "init"
         /\ l = "initSync" => pc[u] = "init"
         /\ l = "expand" => pc[u] = "top" /\ todo' = [todo EXCEPT ![u] = Owed(u)]
         /\ l # "expand" => todo' = todo
         /\ l \in Heads => pc[u] \in Heads
         /\ u = Leader => /\ l \notin {"initSync", "saveSync", "save", "trim"} /\ pc[u] # "init"
                          /\ l \in StartAt => pc[u] \in StartAt
                          /\ l \in BeforeSave => l \in StartAt
         /\ IF pc[u] = "swap" THEN l = "top" /\ outpos' = [outpos EXCEPT ![u] = outpos[u] + 1]
                              ELSE outpos' = outpos /\ (l = "swap" <=> pc[u] = "check") /\ l # "check"
  <2> USE ResumeAt DEF Goto, StartAt, BeforeSave, Location, Heads
  <2>1. CASE Prepare(u) /\ u # Leader
    BY <2>1 DEF Prepare
  <2>2. CASE Top(u)
    BY <2>2 DEF Top
  <2>3. CASE Expanded(u)
    BY <2>3 DEF Expanded
  <2>4. CASE Save(u) /\ u # Leader
    BY <2>4 DEF Save
  <2>5. CASE CheckSelected(u) /\ ~Crowded
    BY <2>5 DEF CheckSelected
  <2>6. CASE Swap(u)
    BY <2>6 DEF Swap
  <2>7. CASE GenerateResult(u)
    BY <2>7 DEF GenerateResult
  <2> QED BY <2>1, <2>2, <2>3, <2>4, <2>5, <2>6, <2>7
<1>4. \A v \in Block : LevelOf(v)' = LevelOf(v)
  <2>1. CASE pc[u] = "swap"
    BY <1>2, <1>3, <2>1 DEF LevelOf
  <2>2. CASE pc[u] # "swap"
    BY <1>2, <1>3, <2>2 DEF LevelOf
  <2> QED BY <2>1, <2>2
<1>5. ASSUME NEW v \in Block PROVE Due(v)' \subseteq Due(v)
  <2>1. pc'[v] \in Heads => pc[v] \in Heads /\ cont'[Now(LevelOf(v))] = cont[Now(LevelOf(v))]
    BY <1>1, <1>2, <1>3
  <2>2. ASSUME pc'[v] = "expand" PROVE Due(v)' = Due(v)
    <3>1. Due(v)' = todo'[v]
      BY <2>2 DEF Due
    <3>2. CASE v = u
      <4>1. pc[u] = "top" /\ todo'[u] = Owed(u)
        BY <1>2, <1>3, <2>2, <3>2
      <4> QED BY <3>1, <3>2, <4>1, OwedDue
    <3>3. CASE v # u
      <4>1. pc[v] = "expand" /\ todo'[v] = todo[v]
        BY <1>2, <1>3, <2>2, <3>3
      <4> QED BY <3>1, <4>1 DEF Due
    <3> QED BY <3>2, <3>3
  <2> QED BY <1>4, <2>1, <2>2, DueStays
<1>6. \A t \in {"next", "selected"} : Debts(t)' \subseteq Debts(t)
  BY <1>5, DebtsStay
<1>7. \A v \in Block : pc'[v] \in {"init", "initSync"} => outpos'[v] = 0
  BY <1>2, <1>3 DEF RoomInv
<1>8. CASE pc[Leader] = "init"
  <2>1. pc'[Leader] = "init"
    BY <1>2, <1>3, <1>8
  <2> QED BY <1>1, <1>7, <2>1 DEF RoomInv
<1>9. CASE pc[Leader] # "init"
  <2>1. PICK n \in 0 .. NumOutpos : LevelOf(Leader) = n
    BY PhaseOf DEF BarrierInv, Aligned
  <2>2. \A x \in Names : /\ cont'[x].cap = cont[x].cap
                         /\ cont'[x].size \in Nat /\ cont'[x].size <= cont[x].size
    BY <1>1, <1>2, ContainerFields
  <2>3. /\ pc'[Leader] \in StartAt => pc[Leader] \in StartAt
        /\ pc'[Leader] \in BeforeTrim => pc[Leader] \in BeforeTrim
        /\ pc'[Leader] \in BeforeSave => pc[Leader] \in BeforeSave
        /\ pc'[Leader] = "saveSync" => pc[Leader] = "saveSync"
        /\ pc'[Leader] = "save" => pc[Leader] = "save"
    BY <1>2, <1>3 DEF BeforeTrim, BeforeSave
  <2>4. LevelOf(Leader)' = n /\ TypeInv /\ UNCHANGED <<beams, fault>>
    BY <1>1, <1>4, <2>1 DEF BarrierInv
  <2> QED BY <1>6, <1>7, <1>9, <2>1, <2>2, <2>3, <2>4, KeepsRoom
<1> QED BY <1>8, <1>9

(* The trims: no size grows, and next_ is cut to its capacity.             *)
LEMMA ShrunkSize ==
  ASSUME NEW c \in Container
  PROVE  /\ Shrunk(c).cap = c.cap /\ Shrunk(c).size \in Nat
         /\ Shrunk(c).size <= c.size /\ Shrunk(c).size <= c.cap
<1>1. Shrunk(c).size = Least(c.size, c.cap) /\ Shrunk(c).cap = c.cap
  BY DEF Shrunk, Container
<1> QED BY <1>1, ContainerFields

LEMMA TrimRoom ==
  ASSUME NEW room, NEW saves, IsFiniteSet(Token), Rooms(room), BarrierInv, RoomInv(room, saves),
         NEW u \in Block, TrimNext(u) \/ CutNext(u) \/ TrimFinal(u) \/ CutFinal(u)
  PROVE  RoomInv(room, saves)'
<1> USE LeaderIn
<1>1. PICK n \in 0 .. NumOutpos : Phase(n)
  BY DEF BarrierInv, Aligned
<1>2. /\ pc[u] \in {"trim", "shrink", "finalTrim", "finalCut"}
      /\ UNCHANGED <<outpos, beams, todo, fault>>
  BY DEF TrimNext, CutNext, TrimFinal, CutFinal
<1>3. LevelOf(u) = n /\ outpos[u] = n /\ LevelOf(Leader) = n
  BY <1>1, <1>2, PhaseOf DEF LevelOf
<1>4. /\ pc \in [Block -> Location] /\ cont \in [Names -> Container]
      /\ outpos \in [Block -> 0 .. NumOutpos]
  BY DEF BarrierInv, TypeInv, TypeOK, Names
<1>5. Nxt(u) = Later(n) /\ Later(n) \in {"A", "B"} /\ Now(n) \in {"A", "B"}
  BY <1>3 DEF Nxt, Later, Now
<1>6. PICK l \in {"trimSync", "shrink", "save", "finalSync", "finalCut", "outSync"} :
         /\ pc' = [pc EXCEPT ![u] = l]
         /\ l \in {"trimSync", "shrink", "save"} <=> pc[u] \in {"trim", "shrink"}
         /\ l = "save" <=> pc[u] = "shrink"
  BY DEF TrimNext, CutNext, TrimFinal, CutFinal, CutTo, EnterTrim, Goto
<1>7. /\ \A x \in Names : /\ cont'[x].cap = cont[x].cap
                          /\ cont'[x].size \in Nat /\ cont'[x].size <= cont[x].size
      /\ pc[u] = "shrink" => cont'[Later(n)].size <= cont[Later(n)].cap
      /\ pc[u] \in {"finalTrim", "finalCut"} => \A x \in {"A", "B"} : cont'[x] = cont[x]
  <2>1. CASE TrimNext(u)
    <3>1. pc[u] = "trim" /\ EnterTrim(u, Later(n), FALSE, "trimSync", "shrink")
      BY <1>5, <2>1 DEF TrimNext
    <3>2. \A x \in {"A", "B", "selected"} :
             cont'[x].size = cont[x].size /\ cont'[x].cap = cont[x].cap
      BY <1>4, <1>5, <3>1, EnterTrimSizes, Zenon DEF Names
    <3>3. ASSUME NEW x \in Names
          PROVE  /\ cont'[x].cap = cont[x].cap
                 /\ cont'[x].size \in Nat /\ cont'[x].size <= cont[x].size
      <4>1. cont'[x].size = cont[x].size /\ cont'[x].cap = cont[x].cap
        BY <3>2 DEF Names
      <4>2. cont[x].size \in Nat
        BY <1>4, ContainerFields
      <4> QED BY <4>1, <4>2
    <3>4. pc[u] # "shrink" /\ pc[u] \notin {"finalTrim", "finalCut"}
      BY <3>1
    <3> QED BY <3>3, <3>4
  <2>2. CASE CutNext(u)
    <3>1. pc[u] = "shrink" /\ cont' = [cont EXCEPT ![Later(n)] = Shrunk(@)]
      BY <1>5, <2>2 DEF CutNext, CutTo
    <3>2. \A x \in Names : cont'[x] = IF x = Later(n) THEN Shrunk(cont[x]) ELSE cont[x]
      BY <1>4, <3>1
    <3>3. Later(n) \in Names /\ \A x \in Names : cont[x] \in Container /\ cont[x].size \in Nat
      BY <1>4, <1>5, ContainerFields DEF Names
    <3> QED BY <3>1, <3>2, <3>3, ShrunkSize
  <2>3. CASE TrimFinal(u)
    <3>1. pc[u] = "finalTrim" /\ EnterTrim(u, "selected", TRUE, "finalSync", "finalCut")
      BY <2>3 DEF TrimFinal
    <3>2. \A x \in {"A", "B", "selected"} :
             cont'[x].size = cont[x].size /\ cont'[x].cap = cont[x].cap
      BY <1>4, <3>1, EnterTrimSizes, Zenon DEF Names
    <3>3. \A x \in {"A", "B"} : cont'[x] = cont[x]
      BY <1>4, <3>1 DEF EnterTrim, Names
    <3>4. \A x \in Names : cont[x].size \in Nat
      BY <1>4, ContainerFields
    <3> QED BY <3>1, <3>2, <3>3, <3>4 DEF Names
  <2>4. CASE CutFinal(u)
    <3>1. pc[u] = "finalCut" /\ cont' = [cont EXCEPT !["selected"] = Shrunk(@)]
      BY <2>4 DEF CutFinal, CutTo
    <3>2. \A x \in Names : cont'[x] = IF x = "selected" THEN Shrunk(cont[x]) ELSE cont[x]
      BY <1>4, <3>1
    <3>3. \A x \in Names : cont[x] \in Container /\ cont[x].size \in Nat
      BY <1>4, ContainerFields
    <3> QED BY <3>1, <3>2, <3>3, ShrunkSize DEF Names
  <2> QED BY <2>1, <2>2, <2>3, <2>4
<1>8. \A v \in Block : LevelOf(v)' = LevelOf(v)
  BY <1>2, <1>4, <1>6 DEF LevelOf
<1>9. ASSUME NEW v \in Block PROVE Due(v)' \subseteq Due(v)
  <2>1. CASE pc[u] \in {"trim", "shrink"}
    <3>1. Sorting(n) \/ Passing(n) \/ Saving(n)
      BY <1>1, <2>1, PhaseOf
    <3>2. pc[v] \notin Heads /\ pc[v] # "expand"
      BY <3>1 DEF Sorting, Passing, Saving, At, Heads
    <3>3. pc'[v] \notin Heads /\ pc'[v] # "expand"
      BY <1>4, <1>6, <3>2 DEF Heads
    <3> QED BY <3>3 DEF Due
  <2>2. CASE pc[u] \in {"finalTrim", "finalCut"}
    <3>1. Now(LevelOf(v)) \in {"A", "B"}
      BY DEF Now
    <3>2. pc'[v] \in Heads => pc[v] \in Heads /\ cont'[Now(LevelOf(v))] = cont[Now(LevelOf(v))]
      BY <1>4, <1>6, <1>7, <2>2, <3>1 DEF Heads
    <3>3. pc'[v] = "expand" => Due(v)' = Due(v)
      BY <1>2, <1>4, <1>6 DEF Due
    <3> QED BY <1>8, <3>2, <3>3, DueStays
  <2> QED BY <1>2, <2>1, <2>2
<1>10. \A t \in {"next", "selected"} : Debts(t)' \subseteq Debts(t)
  BY <1>9, DebtsStay
<1>11. \A v \in Block : pc'[v] \in {"init", "initSync"} => outpos'[v] = 0
  BY <1>2, <1>4, <1>6 DEF RoomInv
<1>12. pc[Leader] # "init"
  BY <1>1, <1>2, PhaseOf DEF Starting, At
<1>13. pc[u] = "shrink" => n < NumOutpos
  BY <1>3 DEF BarrierInv, TypeInv, LoopRange, InLoop
<1>14. /\ pc'[Leader] \in StartAt => pc[Leader] \in StartAt
       /\ pc'[Leader] \in BeforeTrim => pc[Leader] \in BeforeTrim
       /\ pc'[Leader] \in BeforeSave => pc[Leader] \in BeforeSave
       /\ pc'[Leader] = "saveSync" => pc[Leader] = "saveSync"
       /\ pc'[Leader] = "save" =>
            \/ pc[Leader] = "save"
            \/ pc[Leader] \in BeforeSave /\ pc[u] = "shrink"
  BY <1>2, <1>4, <1>6 DEF StartAt, BeforeTrim, BeforeSave
<1>15. TypeInv /\ LevelOf(Leader)' = n /\ UNCHANGED <<beams, fault>>
  BY <1>2, <1>3, <1>8 DEF BarrierInv
<1> QED BY <1>3, <1>7, <1>10, <1>11, <1>12, <1>13, <1>14, <1>15, KeepsRoom

(* The barriers but the one after the save: nobody owes more behind them.  *)
LEMMA ReleaseRoom ==
  ASSUME NEW room, NEW saves, IsFiniteSet(Token), Rooms(room), BarrierInv, RoomInv(room, saves),
         Release, pc[Leader] # "saveSync"
  PROVE  RoomInv(room, saves)'
<1> USE LeaderIn, ResumeAt
<1>1. PICK n \in 0 .. NumOutpos : Phase(n)
  BY DEF BarrierInv, Aligned
<1>2. /\ UNCHANGED <<outpos, todo, cont, beams, fault>>
      /\ \A u \in Block : pc[u] \in SyncPoint /\ pc'[u] = Resume[pc[u]]
  BY DEF Release
<1>3. LevelOf(Leader) = n
  BY <1>1, PhaseOf
<1>4. \A u \in Block : pc[u] = pc[Leader] /\ pc[u] \notin {"selectedSync", "proactiveSync"}
  <2>1. At(n, {"init", "initSync"}) \/ At(n, {"check", "swap", "top", "expand", "expandSync"})
        \/ At(n, {"trim", "trimSync"}) \/ At(n, {"trim", "shrink", "save", "saveSync"})
        \/ At(n, {"shrink", "save", "saveSync"})
        \/ At(n, {"check", "swap", "top", "finalTrim", "finalSync"})
        \/ At(n, {"check", "swap", "top", "finalTrim", "finalCut", "outSync"})
        \/ At(n, {"finalCut", "outSync"}) \/ At(n, {"generate", "done"})
    BY <1>1 DEF Phase, Starting, Expanding, Sorting, Passing, Saving, Ordering, Leaving,
                Cutting, Writing
  <2> SUFFICES ASSUME NEW u \in Block
               PROVE  pc[u] = pc[Leader] /\ pc[u] \notin {"selectedSync", "proactiveSync"}
    OBVIOUS
  <2>2. pc[u] \in SyncPoint /\ pc[Leader] \in SyncPoint
    BY <1>2
  <2>3. ASSUME NEW P, At(n, P) PROVE pc[u] \in P /\ pc[Leader] \in P
    BY <2>3 DEF At
  <2>4. CASE At(n, {"init", "initSync"})
    <3>1. pc[u] = "initSync" /\ pc[Leader] = "initSync"
      BY <2>2, <2>3, <2>4
    <3> QED BY <3>1
  <2>5. CASE At(n, {"check", "swap", "top", "expand", "expandSync"})
    <3>1. pc[u] = "expandSync" /\ pc[Leader] = "expandSync"
      BY <2>2, <2>3, <2>5
    <3> QED BY <3>1
  <2>6. CASE At(n, {"trim", "trimSync"})
    <3>1. pc[u] = "trimSync" /\ pc[Leader] = "trimSync"
      BY <2>2, <2>3, <2>6
    <3> QED BY <3>1
  <2>7. CASE At(n, {"trim", "shrink", "save", "saveSync"})
    <3>1. pc[u] = "saveSync" /\ pc[Leader] = "saveSync"
      BY <2>2, <2>3, <2>7
    <3> QED BY <3>1
  <2>8. CASE At(n, {"shrink", "save", "saveSync"})
    <3>1. pc[u] = "saveSync" /\ pc[Leader] = "saveSync"
      BY <2>2, <2>3, <2>8
    <3> QED BY <3>1
  <2>9. CASE At(n, {"check", "swap", "top", "finalTrim", "finalSync"})
    <3>1. pc[u] = "finalSync" /\ pc[Leader] = "finalSync"
      BY <2>2, <2>3, <2>9
    <3> QED BY <3>1
  <2>10. CASE At(n, {"check", "swap", "top", "finalTrim", "finalCut", "outSync"})
    <3>1. pc[u] = "outSync" /\ pc[Leader] = "outSync"
      BY <2>2, <2>3, <2>10
    <3> QED BY <3>1
  <2>11. CASE At(n, {"finalCut", "outSync"})
    <3>1. pc[u] = "outSync" /\ pc[Leader] = "outSync"
      BY <2>2, <2>3, <2>11
    <3> QED BY <3>1
  <2>12. ~ At(n, {"generate", "done"})
    BY <2>2, <2>3
  <2> QED BY <2>1, <2>4, <2>5, <2>6, <2>7, <2>8, <2>9, <2>10, <2>11, <2>12
<1>5. \A u \in Block : pc[u] \notin {"check", "swap", "init"} /\ pc'[u] \notin {"check", "swap"}
  BY <1>2, <1>4
<1>6. \A u \in Block : LevelOf(u)' = LevelOf(u)
  BY <1>2, <1>5 DEF LevelOf
<1>7. ASSUME NEW v \in Block PROVE Due(v)' \subseteq Due(v)
  <2>1. pc'[v] # "expand" /\ (pc'[v] \in Heads => pc[v] \in Heads)
    BY <1>2, <1>4 DEF Heads
  <2> QED BY <1>2, <1>6, <2>1, DueStays
<1>8. \A t \in {"next", "selected"} : Debts(t)' \subseteq Debts(t)
  BY <1>7, DebtsStay
<1>9. \A v \in Block : pc'[v] \in {"init", "initSync"} => outpos'[v] = 0
  BY <1>2
<1>10. /\ pc'[Leader] \in StartAt => pc[Leader] \in StartAt
       /\ pc'[Leader] \in BeforeTrim => pc[Leader] \in BeforeTrim
       /\ pc'[Leader] \in BeforeSave => pc[Leader] \in BeforeSave
       /\ pc'[Leader] # "saveSync" /\ pc'[Leader] # "save"
  BY <1>2, <1>4 DEF StartAt, BeforeTrim, BeforeSave
<1>11. \A x \in Names : /\ cont'[x].cap = cont[x].cap
                        /\ cont'[x].size \in Nat /\ cont'[x].size <= cont[x].size
  BY <1>2, ContainerFields DEF BarrierInv, TypeInv, TypeOK, Names
<1>12. TypeInv /\ LevelOf(Leader)' = n /\ UNCHANGED <<beams, fault>> /\ pc[Leader] # "init"
  BY <1>2, <1>3, <1>5, <1>6 DEF BarrierInv
<1> QED BY <1>3, <1>8, <1>9, <1>10, <1>11, <1>12, KeepsRoom

LEMMA Parity ==
  ASSUME NEW m \in Nat
  PROVE  (m + 1) % 2 = 0 <=> ~ (m % 2 = 0)
<1> DEFINE q == m \div 2
           r == m % 2
           p == (m + 1) \div 2
           s == (m + 1) % 2
<1>1. m = 2 * q + r /\ r \in 0 .. 1 /\ q \in Int
  BY SMT
<1>2. m + 1 = 2 * p + s /\ s \in 0 .. 1 /\ p \in Int
  BY SMT
<1> HIDE DEF q, r, p, s
<1>3. (r = 0 \/ r = 1) /\ (s = 0 \/ s = 1) /\ 2 * p + s = 2 * q + r + 1
  BY <1>1, <1>2
<1>4. ~ (r = 0 /\ s = 0)
  <2>1. \A x, y \in Int : 2 * x # 2 * y + 1
    OBVIOUS
  <2> QED BY <1>1, <1>2, <1>3, <2>1
<1>5. ~ (r = 1 /\ s = 1)
  <2>1. \A x, y \in Int : 2 * x + 1 # 2 * y + 1 + 1
    OBVIOUS
  <2> QED BY <1>1, <1>2, <1>3, <2>1
<1>6. s = 0 <=> ~ (r = 0)
  BY <1>3, <1>4, <1>5
<1> QED BY <1>6 DEF r, s

LEMMA PushParts ==
  ASSUME BarrierInv, NEW u \in Block, Push(u)
  PROVE  \E t \in {"next", "selected"}, child \in Beam :
           LET c == IF t = "next" THEN Nxt(u) ELSE "selected"
           IN  /\ <<t, child>> \in todo[u]
               /\ todo' = [todo EXCEPT ![u] = @ \ {<<t, child>>}]
               /\ IF HasRoom(cont[c])
                  THEN cont' = [cont EXCEPT ![c] = Pushed(cont[c], child)] /\ UNCHANGED fault
                  ELSE fault' = TRUE /\ UNCHANGED cont
               /\ pushed' = IF t = "selected" THEN pushed \cup {child.path} ELSE pushed
<1>1. PICK child \in {o[2] : o \in todo[u]} :
        LET target == IF <<"selected", child>> \in todo[u] THEN "selected" ELSE "next"
            c      == IF target = "next" THEN Nxt(u) ELSE target
        IN  /\ todo' = [todo EXCEPT ![u] = @ \ {<<target, child>>}]
            /\ IF HasRoom(cont[c])
               THEN cont' = [cont EXCEPT ![c] = Pushed(cont[c], child)] /\ UNCHANGED fault
               ELSE fault' = TRUE /\ UNCHANGED cont
            /\ pushed' = IF target = "selected" THEN pushed \cup {child.path} ELSE pushed
  BY DEF Push
<1>2. todo[u] \subseteq {"next", "selected"} \X Beam
  BY DEF BarrierInv, TypeInv, TypeOK
<1>3. child \in Beam /\ (<<"selected", child>> \in todo[u] \/ <<"next", child>> \in todo[u])
  <2>1. PICK o \in todo[u] : child = o[2]
    OBVIOUS
  <2>2. o \in {"next", "selected"} \X Beam
    BY <1>2, <2>1
  <2>3. o = <<o[1], child>> /\ o[1] \in {"next", "selected"} /\ child \in Beam
    BY <2>1, <2>2
  <2> QED BY <2>1, <2>3
<1>4. CASE <<"selected", child>> \in todo[u]
  BY <1>1, <1>3, <1>4
<1>5. CASE <<"selected", child>> \notin todo[u]
  BY <1>1, <1>3, <1>5
<1> QED BY <1>4, <1>5

(* An output position opens: its parents have at most one child a token.   *)
LEMMA DebtsOpen ==
  ASSUME IsFiniteSet(Token), NEW n \in 0 .. NumOutpos, NEW c \in Container, c.size <= Parents(n),
         \A v \in Block : Due(v)' \subseteq Share(v, c), NEW t
  PROVE  /\ IsFiniteSet(Debts(t)') /\ Cardinality(Debts(t)') \in Nat
         /\ Cardinality(Debts(t)') <= Children(n)
<1> DEFINE D == Debts(t)'
<1>1. D \subseteq Block \X Beam /\ \A x \in D : <<t, x[2]>> \in Share(x[1], c)
  BY DEF Debts
<1> HIDE DEF D
<1>2. IsFiniteSet(D) /\ Cardinality(D) <= c.size * Cardinality(Token)
  BY <1>1, ShareBounded
<1>3. c.size * Cardinality(Token) <= Parents(n) * Cardinality(Token)
      /\ c.size * Cardinality(Token) \in Nat
  <2>1. c.size \in Nat /\ Parents(n) \in Nat /\ Cardinality(Token) \in Nat
    BY ContainerFields, ChildrenNat
  <2> DEFINE a == c.size
             b == Parents(n)
             d == Cardinality(Token)
  <2> HIDE DEF a, b, d
  <2>2. a \in Nat /\ b \in Nat /\ d \in Nat /\ a <= b
    BY <2>1 DEF a, b, d
  <2>3. a * d <= b * d /\ a * d \in Nat
    BY <2>2, Times
  <2> QED BY <2>3 DEF a, b, d
<1>4. Cardinality(D) \in Nat /\ Children(n) \in Nat
  BY <1>2, FS_CardinalityType, ChildrenNat
<1>5. Cardinality(D) <= Children(n)
  BY <1>2, <1>3, <1>4 DEF Children
<1> QED BY <1>2, <1>4, <1>5 DEF D

LEMMA PrepareRoom ==
  ASSUME NEW room, NEW saves, IsFiniteSet(Token), Rooms(room), Saves(saves),
         BarrierInv, RoomInv(room, saves), Prepare(Leader)
  PROVE  RoomInv(room, saves)'
<1> USE LeaderIn
<1>1. PICK n \in 0 .. NumOutpos : Phase(n)
  BY DEF BarrierInv, Aligned
<1>2. /\ pc[Leader] = "init" /\ pc' = [pc EXCEPT ![Leader] = "initSync"]
      /\ cont' = [ A |-> Pushed(WithCapacity(Cleared(cont["A"]), 1), RootBeam),
                   B |-> WithCapacity(Cleared(cont["B"]), BeamWidth[0]),
                   selected |-> WithCapacity(Cleared(cont["selected"]), FinalBeam) ]
      /\ beams' = <<RootBeam>> /\ UNCHANGED <<outpos, todo, fault>>
  BY DEF Prepare, Goto
<1>3. \A v \in Block : pc[v] \in {"init", "initSync"} /\ outpos[v] = 0
  BY <1>1, <1>2, PhaseOf DEF Starting, At, RoomInv
<1>4. pc \in [Block -> Location] /\ cont \in [Names -> Container]
  BY DEF BarrierInv, TypeInv, TypeOK, Names
<1>5. \A v \in Block : pc'[v] \in {"init", "initSync"} /\ outpos'[v] = 0 /\ LevelOf(v)' = 0
  BY <1>2, <1>3, <1>4 DEF LevelOf
<1>6. Now(0) = "A" /\ Later(0) = "B"
  BY DEF Now, Later
<1>7. /\ cont'["A"] \in Container /\ cont'["A"].size = 1
      /\ cont'["B"].size = 0 /\ cont'["B"].cap = BeamWidth[0]
      /\ cont'["selected"].size = 0
  <2> DEFINE a == WithCapacity(Cleared(cont["A"]), 1)
  <2>1. a \in Container /\ a.size = 0
    BY <1>4, ClearedType, WithCapacityType DEF WithCapacity, Cleared, Container, Names
  <2>2. RootBeam \in Beam /\ HasRoom(a)
    BY <2>1 DEF RootBeam, Beam, NoId, HasRoom
  <2>3. cont'["A"] = Pushed(a, RootBeam)
    BY <1>2
  <2>4. /\ cont'["B"].size = 0 /\ cont'["B"].cap = BeamWidth[0]
        /\ cont'["selected"].size = 0
    BY <1>2, <1>4 DEF WithCapacity, Cleared, Container, Names
  <2> HIDE DEF a
  <2>5. Pushed(a, RootBeam) \in Container /\ Pushed(a, RootBeam).size = 1
    <3>1. Pushed(a, RootBeam) \in Container
      BY <2>1, <2>2, PushedType
    <3>2. Pushed(a, RootBeam).size = a.size + 1
      BY <2>1 DEF Pushed, Container
    <3> QED BY <2>1, <3>1, <3>2
  <2> QED BY <2>3, <2>4, <2>5
<1>8. \A v \in Block : Due(v)' \subseteq Share(v, cont'["A"])
  <2> SUFFICES ASSUME NEW v \in Block PROVE Due(v)' \subseteq Share(v, cont'["A"])
    OBVIOUS
  <2>1. pc'[v] \in Heads /\ pc'[v] # "expand" /\ LevelOf(v)' = 0
    BY <1>5 DEF Heads
  <2>2. Due(v)' = Share(v, cont'[Now(0)])
    BY <2>1 DEF Due, Share, Now
  <2> QED BY <1>6, <2>2
<1>9. 0 \in 0 .. NumOutpos /\ Parents(0) = 1 /\ Children(0) \in Nat
  BY ChildrenNat DEF Parents
<1>10. \A t \in {"next", "selected"} : /\ IsFiniteSet(Debts(t)') /\ Cardinality(Debts(t)') \in Nat
                                       /\ Cardinality(Debts(t)') <= Children(0)
  <2> DEFINE c == cont'["A"]
  <2>1. c \in Container /\ c.size <= Parents(0)
    BY <1>7, <1>9
  <2>2. \A v \in Block : Due(v)' \subseteq Share(v, c)
    BY <1>8
  <2> HIDE DEF c
  <2> QED BY <1>9, <2>1, <2>2, DebtsOpen
<1>11. room[0] + Children(0) <= room[1] /\ room[0] \in Nat /\ room[1] \in Nat /\ saves[0] \in Nat \ {0}
  BY SMTT(30) DEF Rooms, Saves
<1>12. SelectedRoom(room, 0)'
  BY <1>7, <1>9, <1>10, <1>11 DEF SelectedRoom
<1>13. pc'[Leader] = "initSync"
  BY <1>2, <1>4
<1>14. NextRoom(0)'
  BY <1>6, <1>7, <1>9, <1>10, <1>13 DEF NextRoom
<1>15. CurRoom(0)'
  BY <1>6, <1>7, <1>9 DEF CurRoom
<1>16. BeamsRoom(saves, 0)'
  BY <1>2, <1>11, <1>13 DEF BeamsRoom
<1> QED BY <1>2, <1>5, <1>12, <1>14, <1>15, <1>16 DEF RoomInv

(* A push pays one of the debts.                                           *)
LEMMA PushStep ==
  ASSUME BarrierInv, NEW n \in 0 .. NumOutpos, Phase(n), NEW u \in Block, Push(u)
  PROVE  /\ Expanding(n) /\ n < NumOutpos /\ cont'[Now(n)] = cont[Now(n)]
         /\ pc[Leader] \in StartAt /\ pc[Leader] \notin {"init", "save", "saveSync"}
         /\ UNCHANGED <<pc, outpos, beams, out>>
         /\ \A v \in Block : LevelOf(v) = n /\ LevelOf(v)' = n
         /\ \E t \in {"next", "selected"}, child \in Beam :
              LET c == IF t = "next" THEN Later(n) ELSE "selected"
                  s == IF t = "next" THEN "selected" ELSE "next"
              IN  /\ <<u, child>> \in Debts(t)
                  /\ Debts(t)' = Debts(t) \ {<<u, child>>} /\ Debts(s)' = Debts(s)
                  /\ IF HasRoom(cont[c])
                     THEN cont' = [cont EXCEPT ![c] = Pushed(cont[c], child)] /\ UNCHANGED fault
                     ELSE fault' = TRUE /\ UNCHANGED cont
                  /\ pushed' = IF t = "selected" THEN pushed \cup {child.path} ELSE pushed
<1> USE LeaderIn
<1>1. Phase(n)
  OBVIOUS
<1>2. pc[u] = "expand" /\ UNCHANGED <<pc, outpos, beams, out>>
  BY DEF Push
<1>3. Expanding(n) /\ outpos[u] = n /\ Nxt(u) = Later(n) /\ n < NumOutpos
  <2>1. Expanding(n) /\ outpos[u] = n
    BY <1>1, <1>2, PhaseOf DEF LevelOf
  <2>2. outpos[u] \in 0 .. NumOutpos - 1
    BY <1>2 DEF BarrierInv, TypeInv, LoopRange, InLoop
  <2> QED BY <2>1, <2>2 DEF Nxt, Later
<1>4. /\ pc[Leader] \in StartAt /\ pc[Leader] \notin {"init", "save", "saveSync"}
      /\ \A v \in Block : LevelOf(v) = n /\ LevelOf(v)' = n
  BY <1>2, <1>3 DEF Expanding, At, StartAt, LevelOf
<1>6. PICK t \in {"next", "selected"}, child \in Beam :
        LET c == IF t = "next" THEN Nxt(u) ELSE "selected"
        IN  /\ <<t, child>> \in todo[u]
            /\ todo' = [todo EXCEPT ![u] = @ \ {<<t, child>>}]
            /\ IF HasRoom(cont[c])
               THEN cont' = [cont EXCEPT ![c] = Pushed(cont[c], child)] /\ UNCHANGED fault
               ELSE fault' = TRUE /\ UNCHANGED cont
            /\ pushed' = IF t = "selected" THEN pushed \cup {child.path} ELSE pushed
  BY PushParts
<1> DEFINE c == IF t = "next" THEN Later(n) ELSE "selected"
           x == <<u, child>>
           s == IF t = "next" THEN "selected" ELSE "next"
<1>7. /\ <<t, child>> \in todo[u]
      /\ todo' = [todo EXCEPT ![u] = @ \ {<<t, child>>}]
      /\ IF HasRoom(cont[c])
         THEN cont' = [cont EXCEPT ![c] = Pushed(cont[c], child)] /\ UNCHANGED fault
         ELSE fault' = TRUE /\ UNCHANGED cont
  BY <1>3, <1>6
<1>8. /\ c \in Names /\ c # Now(n) /\ Now(n) \in Names /\ Later(n) \in Names /\ "selected" \in Names
      /\ Later(n) # "selected" /\ Later(n) # Now(n)
  BY DEF Names, Now, Later
<1>9. cont \in [Names -> Container] /\ todo \in [Block -> SUBSET ({"next", "selected"} \X Beam)]
  BY DEF BarrierInv, TypeInv, TypeOK, Names
<1>10. cont'[Now(n)] = cont[Now(n)]
  <2> HIDE DEF c
  <2> QED BY <1>7, <1>8, <1>9
<1>11. ASSUME NEW v \in Block
       PROVE  Due(v)' = IF v = u THEN Due(v) \ {<<t, child>>} ELSE Due(v)
  <2>1. CASE v = u
    BY <1>2, <1>7, <1>9, <2>1 DEF Due
  <2>2. CASE v # u
    <3>1. todo'[v] = todo[v] /\ pc'[v] = pc[v] /\ LevelOf(v)' = LevelOf(v) /\ LevelOf(v) = n
      BY <1>2, <1>4, <1>7, <1>9, <2>2
    <3>2. Share(v, cont[Now(n)])' = Share(v, cont[Now(n)])
      BY <1>10 DEF Share, Now
    <3>3. Due(v) = IF pc[v] = "expand" THEN todo[v]
                   ELSE IF pc[v] \in Heads THEN Share(v, cont[Now(n)]) ELSE {}
      BY <3>1 DEF Due
    <3>4. Due(v)' = IF pc'[v] = "expand" THEN todo'[v]
                    ELSE IF pc'[v] \in Heads THEN Share(v, cont[Now(n)])' ELSE {}
      BY <3>1 DEF Due, Share, Now
    <3> QED BY <2>2, <3>1, <3>2, <3>3, <3>4
  <2> QED BY <2>1, <2>2
<1>12. /\ x \in Debts(t) /\ Debts(t)' = Debts(t) \ {x} /\ Debts(s)' = Debts(s)
  <2>1. Due(u) = todo[u]
    BY <1>2 DEF Due
  <2>2. x \in Debts(t)
    BY <1>7, <2>1 DEF Debts
  <2>3. ASSUME NEW y \in Block \X Beam, NEW r
        PROVE  <<r, y[2]>> \in Due(y[1])' <=> <<r, y[2]>> \in Due(y[1]) /\ ~ (r = t /\ y = x)
    <3>1. PICK v \in Block, b \in Beam : y = <<v, b>>
      OBVIOUS
    <3>2. <<r, b>> \in Due(v)' <=> <<r, b>> \in Due(v) /\ ~ (v = u /\ <<r, b>> = <<t, child>>)
      BY <1>11
    <3>3. (v = u /\ <<r, b>> = <<t, child>>) <=> (r = t /\ y = x)
      BY <3>1
    <3> QED BY <3>1, <3>2, <3>3
  <2>4. \A r : Debts(r)' = {y \in Debts(r) : ~ (r = t /\ y = x)}
    BY <2>3 DEF Debts
  <2>5. t # s
    OBVIOUS
  <2> HIDE DEF s, x
  <2> QED BY <2>2, <2>4, <2>5
<1>13. /\ IF HasRoom(cont[c])
          THEN cont' = [cont EXCEPT ![c] = Pushed(cont[c], child)] /\ UNCHANGED fault
          ELSE fault' = TRUE /\ UNCHANGED cont
       /\ pushed' = IF t = "selected" THEN pushed \cup {child.path} ELSE pushed
  BY <1>6, <1>7
<1> QED BY <1>2, <1>3, <1>4, <1>10, <1>12, <1>13

LEMMA PushRoom ==
  ASSUME NEW room, NEW saves, IsFiniteSet(Token), Rooms(room), Saves(saves),
         BarrierInv, RoomInv(room, saves), NEW u \in Block, Push(u)
  PROVE  RoomInv(room, saves)'
<1> USE LeaderIn
<1>1. PICK n \in 0 .. NumOutpos : Phase(n)
  BY DEF BarrierInv, Aligned
<1>2. UNCHANGED <<pc, outpos, beams>>
  BY DEF Push
<1>3. n < NumOutpos /\ cont'[Now(n)] = cont[Now(n)]
  BY <1>1, PushStep
<1>4. /\ pc[Leader] \in StartAt /\ pc[Leader] \notin {"init", "save", "saveSync"}
      /\ \A v \in Block : LevelOf(v) = n /\ LevelOf(v)' = n
  BY <1>1, PushStep
<1>5. SelectedRoom(room, n) /\ NextRoom(n) /\ CurRoom(n) /\ BeamsRoom(saves, n)
  BY <1>4 DEF RoomInv
<1>6. PICK t \in {"next", "selected"}, child \in Beam :
        LET c == IF t = "next" THEN Later(n) ELSE "selected"
            s == IF t = "next" THEN "selected" ELSE "next"
        IN  /\ <<u, child>> \in Debts(t)
            /\ Debts(t)' = Debts(t) \ {<<u, child>>} /\ Debts(s)' = Debts(s)
            /\ IF HasRoom(cont[c])
               THEN cont' = [cont EXCEPT ![c] = Pushed(cont[c], child)] /\ UNCHANGED fault
               ELSE fault' = TRUE /\ UNCHANGED cont
  BY <1>1, PushStep
<1> DEFINE c == IF t = "next" THEN Later(n) ELSE "selected"
           x == <<u, child>>
           s == IF t = "next" THEN "selected" ELSE "next"
<1>7. IF HasRoom(cont[c])
      THEN cont' = [cont EXCEPT ![c] = Pushed(cont[c], child)] /\ UNCHANGED fault
      ELSE fault' = TRUE /\ UNCHANGED cont
  BY <1>6
<1>8. /\ c \in Names /\ c # Now(n) /\ Now(n) \in Names /\ Later(n) \in Names /\ "selected" \in Names
      /\ Later(n) # "selected" /\ Later(n) # Now(n)
  BY DEF Names, Now, Later
<1>9. cont \in [Names -> Container] /\ todo \in [Block -> SUBSET ({"next", "selected"} \X Beam)]
  BY DEF BarrierInv, TypeInv, TypeOK, Names
<1>10. cont'[Now(n)] = cont[Now(n)]
  BY <1>3
<1>12. /\ x \in Debts(t) /\ Debts(t)' = Debts(t) \ {x} /\ Debts(s)' = Debts(s)
  BY <1>6
<1>13. /\ IsFiniteSet(Debts(t)') /\ Cardinality(Debts(t)') \in Nat
       /\ Cardinality(Debts(t)) = Cardinality(Debts(t)') + 1
       /\ IsFiniteSet(Debts(s)') /\ Cardinality(Debts(s)') = Cardinality(Debts(s))
       /\ Cardinality(Debts(s)) \in Nat
  <2>1. IsFiniteSet(Debts(t)) /\ IsFiniteSet(Debts(s))
    BY <1>5 DEF SelectedRoom, NextRoom
  <2> HIDE DEF s, x
  <2>2. /\ IsFiniteSet(Debts(t) \ {x})
        /\ Cardinality(Debts(t) \ {x}) = Cardinality(Debts(t)) - 1
    BY <1>12, <2>1, FS_RemoveElement
  <2>3. Cardinality(Debts(t)) \in Nat /\ Cardinality(Debts(t) \ {x}) \in Nat /\ Cardinality(Debts(s)) \in Nat
    BY <2>1, <2>2, FS_CardinalityType
  <2> QED BY <1>12, <2>1, <2>2, <2>3
<1> DEFINE r == room[n + 1]
<1>14. r \in Nat /\ Children(n) \in Nat /\ Children(n) <= r /\ r <= Buffer
  <2>1. r \in 0 .. Buffer \div 4 /\ room[n] \in 0 .. Buffer \div 4 /\ room[n] + Children(n) <= r
    BY SMTT(30), <1>3 DEF Rooms
  <2>2. Children(n) \in Nat
    BY ChildrenNat
  <2>3. Buffer \div 4 \in Nat /\ Buffer \div 4 <= Buffer
    BY SMT
  <2> HIDE DEF r
  <2> QED BY <2>1, <2>2, <2>3
<1>15. /\ cont["selected"].size + Cardinality(Debts("selected")) <= r
       /\ cont[Later(n)].size + Cardinality(Debts("next")) <= Children(n)
       /\ cont[Later(n)].cap = BeamWidth[n]
       /\ cont[Now(n)].size <= Parents(n)
       /\ Len(beams) <= saves[n]
  BY <1>3, <1>4, <1>5 DEF SelectedRoom, NextRoom, CurRoom, BeamsRoom, BeforeTrim, BeforeSave
<1>16. cont["selected"].size \in Nat /\ cont[Later(n)].size \in Nat /\ cont[c] \in Container
  BY <1>8, <1>9, ContainerFields
<1> HIDE DEF r
<1>17. HasRoom(cont[c])
  <2>1. CASE t = "next"
    <3>1. c = Later(n)
      BY <2>1
    <3> HIDE DEF c, s, x
    <3>2. PICK k \in Nat : Cardinality(Debts("next")) = k + 1
      BY <1>13, <2>1
    <3>3. cont[Later(n)].size + (k + 1) <= Children(n)
      BY <1>15, <3>2
    <3>4. cont[Later(n)].size < Buffer
      <4> DEFINE a == cont[Later(n)].size
                 h == Children(n)
      <4>1. a \in Nat /\ h \in Nat /\ a + (k + 1) <= h
        BY <1>14, <1>16, <3>3
      <4>2. r \in Nat /\ h <= r /\ r <= Buffer
        BY <1>14
      <4> HIDE DEF a, h
      <4>3. a < Buffer
        BY <4>1, <4>2
      <4> QED BY <4>3 DEF a
    <3> QED BY <3>1, <3>4 DEF HasRoom
  <2>2. CASE t = "selected"
    <3>1. c = "selected"
      BY <2>2
    <3> HIDE DEF c, s, x
    <3>2. PICK k \in Nat : Cardinality(Debts("selected")) = k + 1
      BY <1>13, <2>2
    <3>3. cont["selected"].size + (k + 1) <= r
      BY <1>15, <3>2
    <3>4. cont["selected"].size < Buffer
      <4> DEFINE a == cont["selected"].size
                 h == Children(n)
      <4>1. a \in Nat /\ h \in Nat /\ a + (k + 1) <= r
        BY <1>14, <1>16, <3>3
      <4>2. r \in Nat /\ h <= r /\ r <= Buffer
        BY <1>14
      <4> HIDE DEF a, h
      <4>3. a < Buffer
        BY <4>1, <4>2
      <4> QED BY <4>3 DEF a
    <3> QED BY <3>1, <3>4 DEF HasRoom
  <2> QED BY <2>1, <2>2
<1>18. /\ cont' = [cont EXCEPT ![c] = Pushed(cont[c], child)] /\ fault' = fault
  BY <1>7, <1>17
<1>19. /\ Pushed(cont[c], child).size = cont[c].size + 1
       /\ Pushed(cont[c], child).cap = cont[c].cap
  <2> HIDE DEF c
  <2> QED BY <1>16 DEF Pushed, Container
<1>20. /\ cont'["selected"].size + Cardinality(Debts("selected")') <= r
       /\ cont'[Later(n)].size + Cardinality(Debts("next")') <= Children(n)
       /\ cont'[Later(n)].cap = BeamWidth[n]
       /\ IsFiniteSet(Debts("selected")') /\ IsFiniteSet(Debts("next")')
  <2>1. CASE t = "next"
    <3>1. c = Later(n) /\ s = "selected"
      BY <2>1
    <3> HIDE DEF c, s, x
    <3>2. /\ cont'[Later(n)].size = cont[Later(n)].size + 1 /\ cont'[Later(n)].cap = cont[Later(n)].cap
          /\ cont'["selected"].size = cont["selected"].size
      BY <1>8, <1>9, <1>18, <1>19, <3>1
    <3>3. PICK k \in Nat : /\ Cardinality(Debts("next")) = k + 1 /\ Cardinality(Debts("next")') = k
                           /\ IsFiniteSet(Debts("next")')
      BY <1>13, <2>1
    <3>4. /\ Cardinality(Debts("selected")) \in Nat /\ Cardinality(Debts("selected")') = Cardinality(Debts("selected"))
          /\ IsFiniteSet(Debts("selected")')
      BY <1>13, <3>1
    <3>5. cont'["selected"].size + Cardinality(Debts("selected")') <= r
      BY <1>15, <3>2, <3>4
    <3>6. cont'[Later(n)].size + Cardinality(Debts("next")') <= Children(n)
      <4>1. PICK a \in Nat : cont[Later(n)].size = a /\ cont'[Later(n)].size = a + 1
        BY <1>16, <3>2
      <4>2. a + (k + 1) <= Children(n)
        BY <1>15, <3>3, <4>1
      <4> QED BY <1>14, <3>3, <4>1, <4>2
    <3> QED BY <1>15, <3>2, <3>3, <3>4, <3>5, <3>6
  <2>2. CASE t = "selected"
    <3>1. c = "selected" /\ s = "next"
      BY <2>2
    <3> HIDE DEF c, s, x
    <3>2. /\ cont'[Later(n)] = cont[Later(n)]
          /\ cont'["selected"].size = cont["selected"].size + 1
      BY <1>8, <1>9, <1>18, <1>19, <3>1
    <3>3. PICK k \in Nat : /\ Cardinality(Debts("selected")) = k + 1 /\ Cardinality(Debts("selected")') = k
                           /\ IsFiniteSet(Debts("selected")')
      BY <1>13, <2>2
    <3>4. /\ Cardinality(Debts("next")) \in Nat /\ Cardinality(Debts("next")') = Cardinality(Debts("next"))
          /\ IsFiniteSet(Debts("next")')
      BY <1>13, <3>1
    <3>5. cont'["selected"].size + Cardinality(Debts("selected")') <= r
      <4>1. PICK a \in Nat : cont["selected"].size = a /\ cont'["selected"].size = a + 1
        BY <1>16, <3>2
      <4>2. a + (k + 1) <= r
        BY <1>15, <3>3, <4>1
      <4> QED BY <1>14, <3>3, <4>1, <4>2
    <3>6. cont'[Later(n)].size + Cardinality(Debts("next")') <= Children(n)
      BY <1>15, <3>2, <3>4
    <3> QED BY <1>15, <3>2, <3>3, <3>4, <3>5, <3>6
  <2> QED BY <2>1, <2>2
<1> HIDE DEF c, s, x
<1>21. SelectedRoom(room, n)'
  BY <1>3, <1>20 DEF SelectedRoom, r
<1>22. NextRoom(n)'
  BY <1>2, <1>4, <1>20 DEF NextRoom
<1>23. CurRoom(n)'
  BY <1>10, <1>15 DEF CurRoom
<1>24. BeamsRoom(saves, n)'
  BY <1>2, <1>4, <1>15 DEF BeamsRoom
<1>25. LevelOf(Leader)' = n
  BY <1>4
<1> QED BY <1>2, <1>18, <1>21, <1>22, <1>23, <1>24, <1>25 DEF RoomInv

LEMMA ArrayIsSeq ==
  ASSUME NEW S, NEW m \in Nat, NEW f \in [1 .. m -> S]
  PROVE  f \in Seq(S) /\ Len(f) = m
<1>1. Seq(S) = UNION {[1 .. n -> S] : n \in Nat}
  BY SeqDef, Zenon
<1>2. f \in UNION {[1 .. n -> S] : n \in Nat}
  BY Zenon
<1>3. f \in Seq(S)
  BY <1>1, <1>2
<1> QED BY <1>3

LEMMA SaveRoom ==
  ASSUME NEW room, NEW saves, IsFiniteSet(Token), Rooms(room), Saves(saves),
         BarrierInv, RoomInv(room, saves), Save(Leader)
  PROVE  RoomInv(room, saves)'
<1> USE LeaderIn
<1>1. PICK n \in 0 .. NumOutpos : Phase(n)
  BY DEF BarrierInv, Aligned
<1>2. pc[Leader] = "save" /\ pc' = [pc EXCEPT ![Leader] = "saveSync"] /\ UNCHANGED <<outpos, todo>>
  BY DEF Save, Goto
<1>3. (Passing(n) \/ Saving(n)) /\ outpos[Leader] = n
  BY <1>1, <1>2, PhaseOf DEF LevelOf
<1>4. n < NumOutpos
  BY <1>2, <1>3 DEF BarrierInv, TypeInv, LoopRange, InLoop
<1>5. pc \in [Block -> Location] /\ cont \in [Names -> Container] /\ beams \in Seq(Beam)
  BY DEF BarrierInv, TypeInv, TypeOK, Names
<1>6. /\ Nxt(Leader) = Later(n) /\ Cur(Leader) = Now(n)
      /\ Now(n) \in {"A", "B"} /\ Later(n) \in {"A", "B"} /\ Now(n) # Later(n)
  BY <1>3 DEF Nxt, Later, Cur, Now
<1>7. LevelOf(Leader) = n /\ LevelOf(Leader)' = n /\ pc'[Leader] = "saveSync"
  BY <1>2, <1>3, <1>5 DEF LevelOf
<1>8. SelectedRoom(room, n) /\ NextRoom(n) /\ BeamsRoom(saves, n)
  BY <1>2, <1>7 DEF RoomInv
<1> DEFINE old   == cont[Later(n)]
           saved == Numbered(old, Len(beams))
           cur   == cont[Now(n)]
           tail  == [i \in 1 .. saved.size |-> saved.cand[i - 1]]
<1>9. /\ beams' = beams \o tail
      /\ fault' = (Len(beams) + saved.size >= MaxBeamId)
      /\ cont' = [cont EXCEPT ![Later(n)] = saved,
                              ![Now(n)] = IF n + 1 < NumOutpos
                                          THEN WithCapacity(Cleared(cur), BeamWidth[n + 1])
                                          ELSE cur]
  BY <1>3, <1>6 DEF Save
<1>10. old \in Container /\ cur \in Container /\ Len(beams) \in Nat
  BY <1>5, <1>6 DEF Names
<1>11. saved \in Container /\ saved.size = old.size /\ saved.cap = old.cap /\ old.size \in Nat
  <2> DEFINE base == Len(beams)
  <2>1. base \in Nat /\ saved = Numbered(old, base) /\ old \in Container
    BY <1>10
  <2> HIDE DEF old, saved, base
  <2>2. Numbered(old, base) \in Container /\ Numbered(old, base).size = old.size
        /\ Numbered(old, base).cap = old.cap
    BY <2>1, NumberedType
  <2>3. old.size \in Nat
    BY <2>1, ContainerFields
  <2> QED BY <2>1, <2>2, <2>3
<1>12. tail \in Seq(Beam) /\ Len(tail) = saved.size
  <2> HIDE DEF saved
  <2>1. saved.size \in Nat /\ \A i \in 1 .. saved.size : i - 1 \in Slots
    BY <1>11, ContainerFields DEF Slots
  <2>2. \A i \in 1 .. saved.size : saved.cand[i - 1] \in Beam
    BY <1>11, <2>1, ContainerFields
  <2>3. tail \in [1 .. saved.size -> Beam]
    BY <2>2
  <2> HIDE DEF tail
  <2> QED BY <2>1, <2>3, ArrayIsSeq
<1> HIDE DEF tail, saved, cur
<1>13. old.size <= BeamWidth[n] /\ Len(beams) <= saves[n]
  BY <1>2, <1>4, <1>8 DEF NextRoom, BeamsRoom, BeforeSave
<1> HIDE DEF old
<1>14. Len(beams) + saved.size <= saves[n + 1] /\ saves[n + 1] < MaxBeamId
  <2>1. /\ saves[n] \in Nat /\ saves[n + 1] \in Nat /\ saves[n + 1] < MaxBeamId
        /\ saves[n] + BeamWidth[n] <= saves[n + 1] /\ BeamWidth[n] \in Nat
    <3>1. n \in 0 .. NumOutpos /\ n + 1 \in 0 .. NumOutpos /\ n \in 0 .. NumOutpos - 1
      BY <1>4
    <3>2. saves[n] \in 1 .. MaxBeamId - 1 /\ saves[n + 1] \in 1 .. MaxBeamId - 1
      BY <1>4, <3>1 DEF Saves
    <3>3. saves[n] + BeamWidth[n] <= saves[n + 1]
      BY <1>4, <3>1 DEF Saves
    <3>4. BeamWidth[n] \in Nat
      BY <3>1
    <3> DEFINE b == saves[n + 1]
    <3>5. b \in 1 .. MaxBeamId - 1
      BY <3>2
    <3> HIDE DEF b
    <3>6. b \in Nat /\ b < MaxBeamId
      BY <3>5, KernelAssumption
    <3>7. saves[n] \in Nat
      BY <3>2
    <3> QED BY <3>3, <3>4, <3>6, <3>7 DEF b
  <2> DEFINE a == saves[n]
             b == saves[n + 1]
             w == BeamWidth[n]
  <2>2. a \in Nat /\ b \in Nat /\ b < MaxBeamId /\ a + w <= b /\ w \in Nat
        /\ old.size <= w /\ Len(beams) <= a
    BY <1>13, <2>1
  <2> HIDE DEF a, b, w
  <2>3. Len(beams) + old.size <= b
    BY <1>10, <1>11, <2>2
  <2> QED BY <1>11, <2>2, <2>3 DEF b
<1>15. ~fault' /\ Len(beams') <= saves[n + 1]
  <2>1. Len(beams') = Len(beams) + saved.size
    <3>1. \A p, q \in Seq(Beam) : Len(p \o q) = Len(p) + Len(q)
      OBVIOUS
    <3> QED BY <1>5, <1>9, <1>12, <3>1
  <2>2. saves[n + 1] \in Nat
    BY <1>4 DEF Saves
  <2>3. ~ (Len(beams) + saved.size >= MaxBeamId)
    BY <1>10, <1>11, <1>14, <2>2, KernelAssumption
  <2> QED BY <1>9, <1>14, <2>1, <2>3
<1>16. /\ cont'[Later(n)].size = old.size
       /\ cont'["selected"] = cont["selected"]
       /\ n + 1 < NumOutpos => cont'[Now(n)].size = 0 /\ cont'[Now(n)].cap = BeamWidth[n + 1]
  <2>1. cont'[Later(n)] = saved /\ cont'["selected"] = cont["selected"]
    BY <1>5, <1>6, <1>9 DEF Names
  <2>2. cont'[Now(n)] = IF n + 1 < NumOutpos THEN WithCapacity(Cleared(cur), BeamWidth[n + 1]) ELSE cur
    BY <1>5, <1>6, <1>9 DEF Names
  <2>3. \A k \in Nat : WithCapacity(Cleared(cur), k).size = 0 /\ WithCapacity(Cleared(cur), k).cap = k
    BY <1>10 DEF WithCapacity, Cleared, Container
  <2>4. n + 1 < NumOutpos => BeamWidth[n + 1] \in Nat
    OBVIOUS
  <2> QED BY <1>11, <2>1, <2>2, <2>3, <2>4
<1>17. \A t : Debts(t)' = {}
  <2>1. \A v \in Block : Due(v)' = {}
    <3> SUFFICES ASSUME NEW v \in Block PROVE Due(v)' = {}
      OBVIOUS
    <3>1. pc[v] \notin Heads /\ pc[v] # "expand"
      BY <1>3 DEF Passing, Saving, At, Heads
    <3>2. pc'[v] \notin Heads /\ pc'[v] # "expand"
      BY <1>2, <1>5, <3>1 DEF Heads
    <3> QED BY <3>2 DEF Due
  <2> QED BY <2>1 DEF Debts
<1>18. IsFiniteSet({}) /\ Cardinality({}) = 0
  BY FS_EmptySet
<1>19. SelectedRoom(room, n)'
  <2>1. IsFiniteSet(Debts("selected")) /\ cont["selected"].size + Cardinality(Debts("selected")) <= room[n + 1]
    BY <1>4, <1>8 DEF SelectedRoom
  <2>2. /\ Cardinality(Debts("selected")) \in Nat
        /\ cont["selected"].size \in Nat /\ room[n + 1] \in Nat
    BY SMTT(30), <1>4, <1>5, <2>1, FS_CardinalityType, ContainerFields DEF Names, Rooms
  <2>3. cont'["selected"].size <= room[n + 1]
    <3> DEFINE r == room[n + 1]
    <3> HIDE DEF r
    <3>1. cont["selected"].size <= r
      BY <2>1, <2>2 DEF r
    <3> QED BY <1>16, <3>1 DEF r
  <2>4. cont'["selected"].size + 0 <= room[n + 1]
    BY <1>16, <2>2, <2>3
  <2>5. IsFiniteSet(Debts("selected")') /\ Cardinality(Debts("selected")') = 0
    BY <1>17, <1>18
  <2> QED BY <1>4, <2>4, <2>5 DEF SelectedRoom
<1>20. NextRoom(n)'
  BY <1>7, <1>13, <1>16, <1>17, <1>18 DEF NextRoom, BeforeTrim, BeforeSave, StartAt
<1>21. CurRoom(n)'
  BY <1>7 DEF CurRoom, StartAt
<1>22. BeamsRoom(saves, n)'
  BY <1>7, <1>15 DEF BeamsRoom, BeforeSave, StartAt
<1>23. \A v \in Block : pc'[v] \in {"init", "initSync"} => outpos'[v] = 0
  BY <1>2, <1>5 DEF RoomInv
<1> QED BY <1>7, <1>15, <1>19, <1>20, <1>21, <1>22, <1>23 DEF RoomInv

(* Behind the save the next output position opens for all the blocks.      *)
LEMMA OpenRoom ==
  ASSUME NEW room, NEW saves, IsFiniteSet(Token), Rooms(room), Saves(saves),
         BarrierInv, RoomInv(room, saves), Release, pc[Leader] = "saveSync"
  PROVE  RoomInv(room, saves)'
<1> USE LeaderIn, ResumeAt
<1>1. PICK n \in 0 .. NumOutpos : Phase(n)
  BY DEF BarrierInv, Aligned
<1>2. /\ UNCHANGED <<outpos, todo, cont, beams, fault>>
      /\ \A u \in Block : pc[u] \in SyncPoint /\ pc'[u] = Resume[pc[u]]
  BY DEF Release
<1>3. \A u \in Block : pc[u] = "saveSync" /\ outpos[u] = n
  <2>1. Passing(n) \/ Saving(n)
    BY <1>1 DEF Phase, Starting, Expanding, Sorting, Passing, Saving, Ordering, Leaving,
                Cutting, Writing, At
  <2>2. \A u \in Block : pc[u] = "saveSync" /\ LevelOf(u) = n
    BY <1>2, <2>1 DEF Passing, Saving, At
  <2> QED BY <2>2 DEF LevelOf
<1>4. n < NumOutpos
  BY <1>3 DEF BarrierInv, TypeInv, LoopRange, InLoop
<1>5. \A u \in Block : pc'[u] = "check" /\ LevelOf(u)' = n + 1
  BY <1>2, <1>3 DEF LevelOf
<1>6. Now(n + 1) = Later(n) /\ Later(n + 1) = Now(n)
  <2>1. (n + 1) % 2 = 0 <=> ~ (n % 2 = 0)
    BY Parity
  <2> QED BY <2>1 DEF Now, Later
<1>7. SelectedRoom(room, n) /\ NextRoom(n) /\ BeamsRoom(saves, n)
  BY <1>3, <1>4 DEF RoomInv, LevelOf
<1>8. n + 1 \in 0 .. NumOutpos /\ Parents(n + 1) = BeamWidth[n] /\ Children(n + 1) \in Nat
  BY <1>4, WidthNat, ChildrenNat
<1>9. cont[Later(n)] \in Container /\ cont["selected"] \in Container
  BY DEF BarrierInv, TypeInv, TypeOK, Later
<1>10. cont[Later(n)].size <= Parents(n + 1)
  BY <1>3, <1>4, <1>7, <1>8 DEF NextRoom
<1>11. \A v \in Block : Due(v)' \subseteq Share(v, cont[Later(n)])
  <2> SUFFICES ASSUME NEW v \in Block PROVE Due(v)' \subseteq Share(v, cont[Later(n)])
    OBVIOUS
  <2>1. pc'[v] \in Heads /\ pc'[v] # "expand" /\ LevelOf(v)' = n + 1
    BY <1>5 DEF Heads
  <2>2. Due(v)' = Share(v, cont'[Now(n + 1)])
    BY <2>1 DEF Due, Share, Now
  <2> QED BY <1>2, <1>6, <2>2
<1> DEFINE m == n + 1
<1>12. \A t \in {"next", "selected"} : /\ IsFiniteSet(Debts(t)') /\ Cardinality(Debts(t)') \in Nat
                                       /\ Cardinality(Debts(t)') <= Children(m)
  <2> DEFINE c == cont[Later(n)]
  <2>1. c \in Container /\ c.size <= Parents(m) /\ m \in 0 .. NumOutpos
    BY <1>8, <1>9, <1>10
  <2>2. \A v \in Block : Due(v)' \subseteq Share(v, c)
    BY <1>11
  <2> HIDE DEF c, m
  <2> QED BY <2>1, <2>2, DebtsOpen
<1>13. cont["selected"].size <= room[m] /\ cont["selected"].size \in Nat /\ room[m] \in Nat
  <2>1. IsFiniteSet(Debts("selected")) /\ cont["selected"].size + Cardinality(Debts("selected")) <= room[m]
    BY <1>4, <1>7 DEF SelectedRoom
  <2>2. /\ Cardinality(Debts("selected")) \in Nat
        /\ cont["selected"].size \in Nat /\ room[m] \in Nat
    BY <1>8, <1>9, <2>1, FS_CardinalityType, ContainerFields DEF Rooms
  <2> HIDE DEF m
  <2> QED BY <2>1, <2>2
<1>14. m \in 0 .. NumOutpos /\ Now(m) = Later(n) /\ Later(m) = Now(n)
       /\ Children(m) \in Nat /\ cont[Now(m)].size <= Parents(m)
  BY <1>6, <1>8, <1>10
<1>15. m < NumOutpos => cont[Later(m)].size = 0 /\ cont[Later(m)].cap = BeamWidth[m]
  BY <1>3, <1>6, <1>7 DEF NextRoom
<1>16. Len(beams) <= saves[m]
  BY <1>3, <1>4, <1>7 DEF BeamsRoom
<1>17. \A u \in Block : pc'[u] = "check" /\ LevelOf(u)' = m
  BY <1>5
<1> HIDE DEF m
<1>18. SelectedRoom(room, m)'
  <2>1. ASSUME m < NumOutpos
        PROVE  cont'["selected"].size + Cardinality(Debts("selected")') <= room[m + 1]
    <3> DEFINE r == room[m + 1]
               p == room[m]
    <3>1. p + Children(m) <= r /\ r \in Nat /\ p \in Nat
      BY <1>13, <1>14, <2>1 DEF Rooms
    <3>2. cont["selected"].size <= p
      BY <1>13
    <3>3. PICK k \in Nat : Cardinality(Debts("selected")') = k /\ k <= Children(m)
      BY <1>12
    <3> HIDE DEF r, p
    <3>4. cont["selected"].size + k <= r
      BY SMTT(30), <1>13, <1>14, <3>1, <3>2, <3>3
    <3> QED BY <1>2, <3>3, <3>4 DEF r
  <2>2. cont'["selected"].size <= room[m]
    BY <1>2, <1>13
  <2> QED BY <1>12, <2>1, <2>2 DEF SelectedRoom
<1>19. NextRoom(m)'
  <2>1. ASSUME m < NumOutpos
        PROVE  cont'[Later(m)].size + Cardinality(Debts("next")') <= Children(m)
    <3>1. PICK k \in Nat : Cardinality(Debts("next")') = k /\ k <= Children(m)
      BY <1>12
    <3>2. cont'[Later(m)].size = 0
      BY <1>2, <1>15, <2>1
    <3> QED BY <1>14, <3>1, <3>2
  <2>2. pc'[Leader] = "check"
    BY <1>17
  <2> QED BY <1>2, <1>12, <1>15, <2>1, <2>2 DEF NextRoom
<1>20. CurRoom(m)'
  BY <1>2, <1>14 DEF CurRoom
<1>21. BeamsRoom(saves, m)'
  BY <1>2, <1>16, <1>17 DEF BeamsRoom
<1> QED BY <1>2, <1>17, <1>18, <1>19, <1>20, <1>21 DEF RoomInv

LEMMA StepRoom ==
  ASSUME NEW room, NEW saves, IsFiniteSet(Token), Rooms(room), Saves(saves),
         BarrierInv, RoomInv(room, saves), Undisturbed, [Next]_vars
  PROVE  RoomInv(room, saves)'
<1>1. ASSUME NEW u \in Block, Step(u)
      PROVE  RoomInv(room, saves)'
  <2>1. CASE Prepare(u) \/ Save(u)
    BY <2>1, PrepareRoom, SaveRoom, PlaceRoom
  <2>2. CASE Top(u) \/ Expanded(u) \/ Swap(u) \/ GenerateResult(u)
    BY <2>2, PlaceRoom
  <2>3. CASE Push(u)
    BY <2>3, PushRoom
  <2>4. CASE TrimNext(u) \/ CutNext(u) \/ TrimFinal(u) \/ CutFinal(u)
    BY <2>4, TrimRoom
  <2>5. CASE CheckSelected(u)
    <3>1. ~Crowded
      BY <2>5 DEF CheckSelected, Undisturbed
    <3> QED BY <2>5, <3>1, PlaceRoom
  <2>6. CASE CutSelected(u)
    <3>1. pc[u] = "selectedCut"
      BY <2>6 DEF CutSelected
    <3> QED BY <3>1, PhaseOf DEF BarrierInv, Aligned
  <2> QED BY <1>1, <2>1, <2>2, <2>3, <2>4, <2>5, <2>6 DEF Step
<1>2. CASE UNCHANGED vars
  <2>1. UNCHANGED <<pc, outpos, todo, cont, beams, fault>>
    BY <1>2 DEF vars
  <2>2. \A u \in Block : LevelOf(u)' = LevelOf(u)
    BY <2>1 DEF LevelOf
  <2>3. \A t \in {"next", "selected"} : Debts(t)' = Debts(t)
    <3>1. ASSUME NEW u \in Block PROVE Due(u)' = Due(u)
      <4>1. pc'[u] = pc[u] /\ todo'[u] = todo[u] /\ LevelOf(u)' = LevelOf(u)
        BY <2>1, <2>2
      <4>2. Share(u, cont[Now(LevelOf(u))])' = Share(u, cont[Now(LevelOf(u))])
        BY <2>1, <4>1 DEF Share, Now
      <4> QED BY <4>1, <4>2 DEF Due
    <3> QED BY <3>1 DEF Debts
  <2>4. \A x \in Names : /\ cont'[x].cap = cont[x].cap
                         /\ cont'[x].size \in Nat /\ cont'[x].size <= cont[x].size
    BY <2>1, ContainerFields DEF BarrierInv, TypeInv, TypeOK, Names
  <2>5. CASE pc[Leader] = "init"
    BY <2>1, <2>5 DEF RoomInv
  <2>6. CASE pc[Leader] # "init"
    <3>1. PICK n \in 0 .. NumOutpos : LevelOf(Leader) = n
      BY LeaderIn, PhaseOf DEF BarrierInv, Aligned
    <3>2. LevelOf(Leader)' = n /\ TypeInv /\ UNCHANGED <<beams, fault>>
      BY <2>1, <2>2, <3>1, LeaderIn DEF BarrierInv
    <3>3. \A u \in Block : pc'[u] \in {"init", "initSync"} => outpos'[u] = 0
      BY <2>1 DEF RoomInv
    <3>4. /\ pc'[Leader] \in StartAt => pc[Leader] \in StartAt
          /\ pc'[Leader] \in BeforeTrim => pc[Leader] \in BeforeTrim
          /\ pc'[Leader] \in BeforeSave => pc[Leader] \in BeforeSave
          /\ pc'[Leader] = "saveSync" => pc[Leader] = "saveSync"
          /\ pc'[Leader] = "save" => pc[Leader] = "save"
      BY <2>1
    <3> QED BY <2>3, <2>4, <2>6, <3>1, <3>2, <3>3, <3>4, KeepsRoom
  <2> QED BY <2>5, <2>6
<1>3. CASE Next
  <2>1. CASE Release
    BY <2>1, ReleaseRoom, OpenRoom
  <2> QED BY <1>1, <1>3, <2>1 DEF Next
<1> QED BY <1>2, <1>3

(* Where there is room nobody looks at a size above a threshold.           *)
LEMMA RoomUndisturbed ==
  ASSUME NEW room, NEW saves, ~EarlyExit, Rooms(room), BarrierInv, RoomInv(room, saves)
  PROVE  Undisturbed
<1> SUFFICES ASSUME NEW u \in Block, pc[u] = "check" PROVE ~Crowded
  BY DEF Undisturbed
<1>1. PICK n \in 0 .. NumOutpos : Phase(n)
  BY DEF BarrierInv, Aligned
<1>2. pc[Leader] # "init" /\ LevelOf(Leader) = n
  BY <1>1, PhaseOf, LeaderIn DEF Expanding, Ordering, Leaving, At
<1>3. SelectedRoom(room, n)
  BY <1>2 DEF RoomInv
<1>4. cont["selected"].size \in Nat
  BY ContainerFields DEF BarrierInv, TypeInv, TypeOK
<1>5. Buffer \div 4 \in Nat
  BY SMT
<1> DEFINE q == Buffer \div 4
<1>6. cont["selected"].size <= q
  <2>1. CASE n = NumOutpos
    <3> DEFINE r == room[n]
               a == cont["selected"].size
    <3>1. r \in 0 .. q /\ a <= r /\ a \in Nat /\ q \in Nat
      BY <1>3, <1>4, <1>5, <2>1 DEF Rooms, SelectedRoom
    <3> HIDE DEF q, r, a
    <3>2. a <= q
      BY <3>1
    <3> QED BY <3>2 DEF a
  <2>2. CASE n < NumOutpos
    <3> DEFINE r == room[n + 1]
               k == Cardinality(Debts("selected"))
               a == cont["selected"].size
    <3>1. r \in 0 .. q
      BY <2>2 DEF Rooms
    <3>2. k \in Nat /\ a + k <= r /\ a \in Nat
      BY <1>3, <1>4, <2>2, FS_CardinalityType DEF SelectedRoom
    <3>3. r \in Nat /\ r <= q /\ q \in Nat
      BY <1>5, <3>1
    <3> HIDE DEF q, r, k, a
    <3>4. a <= q
      BY <3>2, <3>3
    <3> QED BY <3>4 DEF a
  <2> QED BY <2>1, <2>2
<1> HIDE DEF q
<1>7. q \in Nat /\ ~ (cont["selected"].size > q)
  BY <1>4, <1>5, <1>6 DEF q
<1> QED BY <1>7 DEF Crowded, q

(* Where there is room for the complete keys, without early exit, for any  *)
(* grid, trie and scores: no container and no saved beam is overrun, the   *)
(* blocks meet at the same barriers, and no block rewrites a container     *)
(* while another one reads its parents.                                    *)
THEOREM RoomyNeverOverruns ==
  ASSUME Roomy
  PROVE  Spec => [](NoFault /\ BarriersAgree /\ PhasesApart /\ Undisturbed)
<1>1. PICK room : Rooms(room)
  BY DEF Roomy
<1>2. PICK saves : Saves(saves)
  BY DEF Roomy
<1>3. IsFiniteSet(Token) /\ ~EarlyExit
  BY DEF Roomy
<1> DEFINE Inv == BarrierInv /\ RoomInv(room, saves)
<1>4. Init => Inv
  <2>1. Init => RoomInv(room, saves)
    BY LeaderIn DEF Init, RoomInv
  <2> QED BY <2>1, InitAligned
<1>5. Inv => Undisturbed
  BY <1>1, <1>3, RoomUndisturbed
<1>6. Inv /\ [Next]_vars => Inv'
  <2> SUFFICES ASSUME Inv, [Next]_vars PROVE Inv'
    OBVIOUS
  <2>1. RoomInv(room, saves)'
    BY <1>1, <1>2, <1>3, <1>5, StepRoom
  <2>2. BarrierInv'
    BY <1>5, NextAligned
  <2> QED BY <2>1, <2>2
<1>7. Inv => NoFault /\ BarriersAgree /\ PhasesApart
  BY AlignedAgree, AlignedApart DEF RoomInv, NoFault
<1> HIDE DEF Inv
<1> QED BY <1>4, <1>5, <1>6, <1>7, PTL DEF Spec
-----------------------------------------------------------------------------
(* A beam of cur_ carries the number under which it was saved.             *)
Saved(b) == b.id + 1 \in DOMAIN beams /\ beams[b.id + 1].path = b.path

(* Until it is sorted a container keeps every score with its own beam.     *)
Fresh(c) ==
  \A i \in 0 .. c.size - 1 : c.meta[i].pos = i /\ c.meta[i].score = Score[c.cand[i].path]

(* The leader on its way to the last sort, that of selected_.              *)
BeforeFinal == StartAt \cup {"trim", "trimSync", "shrink", "save", "saveSync", "finalTrim"}

AtZero == \A u \in Block : pc[u] \in {"init", "initSync"} => outpos[u] = 0

ChildrenSaved == \A u \in Block : pc[u] = "expand" => \A o \in todo[u] : ParentSaved(o[2])

CurSaved ==
  /\ pc[Leader] \in StartAt => \A b \in Contents(cont[Now(LevelOf(Leader))]) : Saved(b)
  /\ pc[Leader] = "saveSync" => \A b \in Contents(cont[Later(LevelOf(Leader))]) : Saved(b)

NextFresh ==
  /\ pc[Leader] \in BeforeTrim /\ LevelOf(Leader) < NumOutpos => Fresh(cont[Later(LevelOf(Leader))])
  /\ pc[Leader] = "saveSync" /\ LevelOf(Leader) + 1 < NumOutpos => Fresh(cont[Now(LevelOf(Leader))])

SelectedFresh == pc[Leader] \in BeforeFinal => Fresh(cont["selected"])

ParentInv ==
  /\ ParentsSaved
  /\ AtZero
  /\ ChildrenSaved
  /\ CurSaved
  /\ NextFresh
  /\ SelectedFresh

-----------------------------------------------------------------------------
(* What the operations on a container do to its beams and its scores.      *)
LEMMA PushedParts ==
  ASSUME NEW c \in Container, HasRoom(c), NEW b \in Beam
  PROVE  /\ Contents(Pushed(c, b)) \subseteq Contents(c) \cup {b}
         /\ Fresh(c) => Fresh(Pushed(c, b))
<1> DEFINE d == Pushed(c, b)
           s == [score |-> Score[b.path], pos |-> c.size]
<1>1. c.size \in Slots /\ c.cand \in [Slots -> Beam] /\ c.meta \in [Slots -> SortState]
  BY ContainerFields DEF HasRoom, Slots
<1>2. /\ d.size = c.size + 1
      /\ d.cand = [c.cand EXCEPT ![c.size] = b]
      /\ d.meta = [c.meta EXCEPT ![c.size] = s]
  BY DEF Pushed, Container
<1>3. c.size \in Nat /\ 0 .. c.size \subseteq Slots
  BY <1>1 DEF Slots
<1> HIDE DEF d
<1>4. Contents(d) \subseteq Contents(c) \cup {b}
  <2>1. ASSUME NEW i \in 0 .. c.size PROVE d.cand[i] \in Contents(c) \cup {b}
    <3>1. CASE i = c.size
      BY <1>1, <1>2, <3>1
    <3>2. CASE i # c.size
      <4>1. d.cand[i] = c.cand[i] /\ i \in 0 .. c.size - 1
        BY <1>1, <1>2, <1>3, <3>2
      <4> QED BY <4>1 DEF Contents
    <3> QED BY <3>1, <3>2
  <2>2. 0 .. d.size - 1 = 0 .. c.size
    BY <1>2, <1>3
  <2>3. Contents(d) = {d.cand[i] : i \in 0 .. c.size}
    BY <2>2 DEF Contents
  <2> HIDE DEF s
  <2> QED BY <2>1, <2>3
<1>5. ASSUME Fresh(c) PROVE Fresh(d)
  <2>1. ASSUME NEW i \in 0 .. c.size PROVE d.meta[i].pos = i /\ d.meta[i].score = Score[d.cand[i].path]
    <3>1. CASE i = c.size
      <4>1. d.meta[i] = s /\ d.cand[i] = b
        BY <1>1, <1>2, <3>1
      <4> QED BY <3>1, <4>1
    <3>2. CASE i # c.size
      <4>1. d.meta[i] = c.meta[i] /\ d.cand[i] = c.cand[i] /\ i \in 0 .. c.size - 1
        BY <1>1, <1>2, <1>3, <3>2
      <4> QED BY <1>5, <4>1 DEF Fresh
    <3> QED BY <3>1, <3>2
  <2> QED BY <1>2, <1>3, <2>1 DEF Fresh
<1> QED BY <1>4, <1>5 DEF d

LEMMA ShrunkParts ==
  ASSUME NEW c \in Container
  PROVE  /\ Contents(Shrunk(c)) \subseteq Contents(c)
         /\ Fresh(c) => Fresh(Shrunk(c))
<1>1. /\ Shrunk(c).size = Least(c.size, c.cap)
      /\ Shrunk(c).cand = c.cand /\ Shrunk(c).meta = c.meta
  BY DEF Shrunk, Container
<1>2. c.size \in Nat /\ c.cap \in Nat
  BY ContainerFields
<1> QED BY <1>1, <1>2 DEF Contents, Fresh

LEMMA ClearedParts ==
  ASSUME NEW c \in Container, NEW k
  PROVE  /\ Contents(WithCapacity(Cleared(c), k)) = {}
         /\ Fresh(WithCapacity(Cleared(c), k))
         /\ WithCapacity(Cleared(c), k).size = 0
BY DEF Contents, Fresh, WithCapacity, Cleared, Container

(* The sort moves beams, as long as every score is still with its own.     *)
LEMMA CollectedParts ==
  ASSUME NEW c \in Container, Fresh(c), NEW force, NEW d \in Collected(c, force)
  PROVE  Contents(d) \subseteq Contents(c)
<1>1. CASE d = c
  BY <1>1
<1>2. CASE d # c
  <2>1. PICK f \in Orders(c) : d = Sorted(c, f)
    BY <1>2 DEF Collected
  <2> DEFINE meta == [i \in Slots |-> IF i < c.size THEN c.meta[f[i]] ELSE c.meta[i]]
             kept == Least(c.size, c.cap)
             cand == [i \in Slots |-> IF i < kept THEN c.cand[meta[i].pos] ELSE c.cand[i]]
  <2>2. d = [c EXCEPT !.meta = meta, !.cand = cand]
    BY <2>1 DEF Sorted
  <2>3. c.size \in 0 .. Buffer /\ c.cap \in Nat
    BY ContainerFields
  <2>4. f \in [0 .. c.size - 1 -> 0 .. c.size - 1]
    BY DEF Orders, Bijection, Injection
  <2>5. ASSUME NEW i \in 0 .. c.size - 1 PROVE cand[i] \in Contents(c)
    <3>1. i \in Slots /\ i < c.size
      BY <2>3 DEF Slots
    <3>2. f[i] \in 0 .. c.size - 1 /\ meta[i] = c.meta[f[i]]
      BY <2>4, <3>1
    <3>3. meta[i].pos = f[i]
      BY <3>2 DEF Fresh
    <3> HIDE DEF meta, kept
    <3>4. cand[i] = c.cand[f[i]] \/ cand[i] = c.cand[i]
      BY <3>1, <3>3
    <3> QED BY <3>2, <3>4 DEF Contents
  <2> HIDE DEF cand, meta
  <2>6. d.size = c.size /\ d.cand = cand
    BY <2>2 DEF Container
  <2> QED BY <2>5, <2>6 DEF Contents
<1> QED BY <1>1, <1>2

LEMMA NumberedParts ==
  ASSUME NEW c \in Container, NEW base \in Nat
  PROVE  /\ Numbered(c, base).size = c.size
         /\ Fresh(c) => Fresh(Numbered(c, base))
         /\ \A i \in 0 .. c.size - 1 :
              /\ Numbered(c, base).cand[i].path = c.cand[i].path
              /\ Numbered(c, base).cand[i].parent = c.cand[i].parent
              /\ Numbered(c, base).cand[i].id = base + i
<1> DEFINE cand == [i \in Slots |-> IF i < c.size THEN [c.cand[i] EXCEPT !.id = base + i]
                                                  ELSE c.cand[i]]
<1>1. Numbered(c, base) = [c EXCEPT !.cand = cand]
  BY DEF Numbered
<1>2. ASSUME NEW i \in 0 .. c.size - 1
      PROVE  cand[i].path = c.cand[i].path /\ cand[i].parent = c.cand[i].parent /\ cand[i].id = base + i
  <2>1. i \in Slots /\ i < c.size
    BY ContainerFields DEF Slots
  <2>2. c.cand[i] \in Beam /\ cand[i] = [c.cand[i] EXCEPT !.id = base + i]
    BY <2>1, ContainerFields
  <2> HIDE DEF cand
  <2> QED BY <2>2 DEF Beam
<1> HIDE DEF cand
<1>3. Numbered(c, base).size = c.size /\ Numbered(c, base).meta = c.meta /\ Numbered(c, base).cand = cand
  BY <1>1 DEF Container
<1> QED BY <1>2, <1>3 DEF Fresh

(* Saved beams stay where they are.                                        *)
LEMMA GrownBeams ==
  ASSUME NEW b, beams \in Seq(Beam), NEW s \in Seq(Beam), beams' = beams \o s, ParentSaved(b)
  PROVE  ParentSaved(b)'
<1>1. \A i \in DOMAIN beams : i \in DOMAIN beams' /\ beams'[i] = beams[i]
  OBVIOUS
<1> QED BY <1>1 DEF ParentSaved

-----------------------------------------------------------------------------
(* What every step but the first of the leader, a save and the opening of  *)
(* a barrier has in common.                                                *)
LEMMA KeepsParents ==
  ASSUME ParentInv, UNCHANGED beams,
         \A u \in Block : pc'[u] = "expand" => \A o \in todo'[u] : ParentSaved(o[2]),
         \A u \in Block : pc'[u] \in {"init", "initSync"}
                           => pc[u] \in {"init", "initSync"} /\ outpos'[u] = outpos[u],
         pc'[Leader] # "init" => pc[Leader] # "init",
         LevelOf(Leader)' = LevelOf(Leader),
         pc'[Leader] \in StartAt => pc[Leader] \in StartAt,
         pc'[Leader] \in BeforeTrim => pc[Leader] \in BeforeTrim,
         pc'[Leader] \in BeforeFinal => pc[Leader] \in BeforeFinal,
         pc'[Leader] = "saveSync" => pc[Leader] = "saveSync",
         \A x \in Names : Contents(cont'[x]) \subseteq Contents(cont[x]),
         pc'[Leader] \in BeforeTrim \cup {"saveSync"}
           => \A x \in {"A", "B"} : Fresh(cont[x]) => Fresh(cont'[x]),
         pc'[Leader] \in BeforeFinal /\ Fresh(cont["selected"]) => Fresh(cont'["selected"])
  PROVE  ParentInv'
<1>1. \A b : ParentSaved(b) => ParentSaved(b)'
  BY DEF ParentSaved
<1>2. \A b : Saved(b) => Saved(b)'
  BY DEF Saved
<1>3. ParentsSaved'
  BY <1>1 DEF ParentInv, ParentsSaved, Names
<1>4. AtZero'
  BY DEF ParentInv, AtZero
<1>5. ChildrenSaved'
  BY <1>1 DEF ChildrenSaved
<1>6. \A n : Now(n) \in {"A", "B"} /\ Later(n) \in {"A", "B"}
  BY DEF Now, Later
<1>7. CurSaved'
  <2>1. \A n : Now(n)' = Now(n) /\ Later(n)' = Later(n)
    BY DEF Now, Later
  <2> QED BY <1>2, <1>6, <2>1 DEF ParentInv, CurSaved, Names
<1>8. NextFresh'
  BY <1>6 DEF ParentInv, NextFresh
<1>9. SelectedFresh'
  BY DEF ParentInv, SelectedFresh
<1> QED BY <1>3, <1>4, <1>5, <1>7, <1>8, <1>9 DEF ParentInv

LEMMA InitParent ==
  ASSUME Init
  PROVE  ParentInv
<1>1. Leader \in Block
  BY DEF Leader, Block
<1>2. pc[Leader] = "init" /\ AtZero /\ ChildrenSaved
  BY <1>1 DEF Init, AtZero, ChildrenSaved
<1> QED BY <1>2 DEF ParentInv, ParentsSaved, CurSaved, NextFresh, SelectedFresh,
                     StartAt, BeforeTrim, BeforeFinal

LEMMA AppendedAt ==
  ASSUME NEW S, NEW s \in Seq(S), NEW t \in Seq(S), NEW i \in 1 .. Len(t)
  PROVE  Len(s) + i \in DOMAIN (s \o t) /\ (s \o t)[Len(s) + i] = t[i]
OBVIOUS

(* A block that changes nothing but its own place.                         *)
LEMMA PlaceParent ==
  ASSUME BarrierInv, ParentInv, NEW u \in Block,
         \/ Prepare(u) /\ u # Leader
         \/ Expanded(u)
         \/ Save(u) /\ u # Leader
         \/ CheckSelected(u) /\ ~Crowded
         \/ Swap(u)
         \/ GenerateResult(u)
  PROVE  ParentInv'
<1> USE LeaderIn
<1>1. UNCHANGED <<cont, beams, todo>>
  BY DEF Prepare, Expanded, Save, CheckSelected, Swap, GenerateResult
<1>2. pc \in [Block -> Location] /\ outpos \in [Block -> 0 .. NumOutpos]
  BY DEF BarrierInv, TypeInv, TypeOK
<1>3. PICK l \in Location :
         /\ pc' = [pc EXCEPT ![u] = l] /\ l \notin {"init", "expand"}
         /\ l = "initSync" => pc[u] = "init"
         /\ u = Leader => /\ l \notin {"initSync", "saveSync", "trim"} /\ pc[u] # "init"
                          /\ l \in StartAt => pc[u] \in StartAt
                          /\ l \in BeforeFinal => pc[u] \in BeforeFinal
         /\ IF pc[u] = "swap" THEN l = "top" /\ outpos' = [outpos EXCEPT ![u] = outpos[u] + 1]
                              ELSE outpos' = outpos /\ (l = "swap" <=> pc[u] = "check") /\ l # "check"
  <2> USE ResumeAt DEF Goto, StartAt, BeforeFinal, Location
  <2>1. CASE Prepare(u) /\ u # Leader
    BY <2>1 DEF Prepare
  <2>2. CASE Expanded(u)
    BY <2>2 DEF Expanded
  <2>3. CASE Save(u) /\ u # Leader
    BY <2>3 DEF Save
  <2>4. CASE CheckSelected(u) /\ ~Crowded
    BY <2>4 DEF CheckSelected
  <2>5. CASE Swap(u)
    BY <2>5 DEF Swap
  <2>6. CASE GenerateResult(u)
    BY <2>6 DEF GenerateResult
  <2> QED BY <2>1, <2>2, <2>3, <2>4, <2>5, <2>6
<1>4. LevelOf(Leader)' = LevelOf(Leader)
  <2>1. CASE pc[u] = "swap"
    BY <1>2, <1>3, <2>1 DEF LevelOf
  <2>2. CASE pc[u] # "swap"
    BY <1>2, <1>3, <2>2 DEF LevelOf
  <2> QED BY <2>1, <2>2
<1>5. /\ \A v \in Block : pc'[v] = "expand" => pc[v] = "expand"
      /\ \A v \in Block : pc'[v] \in {"init", "initSync"}
                           => pc[v] \in {"init", "initSync"} /\ outpos'[v] = outpos[v]
      /\ pc'[Leader] # "init" => pc[Leader] # "init"
      /\ pc'[Leader] \in StartAt => pc[Leader] \in StartAt
      /\ pc'[Leader] \in BeforeTrim => pc[Leader] \in BeforeTrim
      /\ pc'[Leader] \in BeforeFinal => pc[Leader] \in BeforeFinal
      /\ pc'[Leader] = "saveSync" => pc[Leader] = "saveSync"
  BY <1>2, <1>3 DEF BeforeTrim
<1>6. \A v \in Block : pc'[v] = "expand" => \A o \in todo'[v] : ParentSaved(o[2])
  BY <1>1, <1>5 DEF ParentInv, ChildrenSaved
<1> QED BY <1>1, <1>4, <1>5, <1>6, KeepsParents

(* The children of the beams of cur_ name them as their parents.           *)
LEMMA OwedSaved ==
  ASSUME NEW u \in Block, \A b \in Contents(cont[Cur(u)]) : Saved(b), NEW o \in Owed(u)
  PROVE  ParentSaved(o[2])
<1> DEFINE cur  == cont[Cur(u)]
           mine == {cur.cand[i] : i \in {j \in 0 .. cur.size - 1 : j % NumCtas = u}}
           kids == { [path |-> Append(b.path, k), id |-> NoId, parent |-> b.id] :
                       b \in mine, k \in Token }
<1>1. Owed(u) = ({"next"} \X {c \in kids : c.path \in ToNext})
                  \cup ({"selected"} \X {c \in kids : c.path \in ToSelected})
  BY DEF Owed
<1>2. \A b \in mine : Saved(b)
  BY DEF Contents
<1> HIDE DEF mine
<1>3. o[2] \in kids
  <2> HIDE DEF kids
  <2> QED BY <1>1
<1>4. \A c \in kids : ParentSaved(c)
  <2> SUFFICES ASSUME NEW c \in kids PROVE ParentSaved(c)
    OBVIOUS
  <2>1. PICK b \in mine, k \in Token : c = [path |-> Append(b.path, k), id |-> NoId, parent |-> b.id]
    OBVIOUS
  <2>2. c.path = Append(b.path, k) /\ c.parent = b.id
    BY <2>1
  <2>3. b.id + 1 \in DOMAIN beams /\ beams[b.id + 1].path = b.path
    BY <1>2 DEF Saved
  <2> QED BY <2>2, <2>3 DEF ParentSaved
<1> HIDE DEF kids
<1> QED BY <1>3, <1>4

LEMMA TopParent ==
  ASSUME BarrierInv, ParentInv, NEW u \in Block, Top(u)
  PROVE  ParentInv'
<1> USE LeaderIn
<1>1. PICK n \in 0 .. NumOutpos : Phase(n)
  BY DEF BarrierInv, Aligned
<1>2. pc[u] = "top" /\ UNCHANGED <<outpos, cont, beams>>
  BY DEF Top
<1>3. pc \in [Block -> Location] /\ todo \in [Block -> SUBSET ({"next", "selected"} \X Beam)]
  BY DEF BarrierInv, TypeInv, TypeOK
<1>4. PICK l \in {"expand", "finalTrim"} :
        /\ pc' = [pc EXCEPT ![u] = l]
        /\ IF l = "expand" THEN ~Leaves(u) /\ todo' = [todo EXCEPT ![u] = Owed(u)]
                           ELSE Leaves(u) /\ todo' = todo
  BY DEF Top, Goto
<1>5. LevelOf(Leader)' = LevelOf(Leader)
  BY <1>2, <1>3, <1>4 DEF LevelOf
<1>6. \A v \in Block : pc'[v] = "expand" => \A o \in todo'[v] : ParentSaved(o[2])
  <2>1. SUFFICES ASSUME NEW v \in Block, pc'[v] = "expand", NEW o \in todo'[v] PROVE ParentSaved(o[2])
    OBVIOUS
  <2>2. CASE v # u
    BY <1>3, <1>4, <2>1, <2>2 DEF ParentInv, ChildrenSaved
  <2>3. CASE v = u
    <3>1. o \in Owed(u) /\ ~Leaves(u)
      BY <1>3, <1>4, <2>1, <2>3
    <3>2. LevelOf(u) = n /\ outpos[u] = n /\ Cur(u) = Now(n)
      BY <1>1, <1>2, PhaseOf DEF LevelOf, Cur, Now
    <3>3. pc[Leader] \in StartAt /\ LevelOf(Leader) = n
      <4>1. cont[Now(n)].size # 0 /\ n # NumOutpos
        BY <3>1, <3>2 DEF Leaves
      <4>2. Expanding(n)
        BY <1>1, <1>2, <4>1, PhaseOf DEF Ordering, Leaving, Ends
      <4> QED BY <4>2 DEF Expanding, At, StartAt
    <3>4. \A b \in Contents(cont[Cur(u)]) : Saved(b)
      BY <3>2, <3>3 DEF ParentInv, CurSaved
    <3> QED BY <3>1, <3>4, OwedSaved
  <2> QED BY <2>2, <2>3
<1>7. /\ \A v \in Block : pc'[v] \in {"init", "initSync"}
                           => pc[v] \in {"init", "initSync"} /\ outpos'[v] = outpos[v]
      /\ pc'[Leader] # "init" => pc[Leader] # "init"
      /\ pc'[Leader] \in StartAt => pc[Leader] \in StartAt
      /\ pc'[Leader] \in BeforeTrim => pc[Leader] \in BeforeTrim
      /\ pc'[Leader] \in BeforeFinal => pc[Leader] \in BeforeFinal
      /\ pc'[Leader] = "saveSync" => pc[Leader] = "saveSync"
  BY <1>2, <1>3, <1>4 DEF StartAt, BeforeTrim, BeforeFinal
<1> QED BY <1>2, <1>5, <1>6, <1>7, KeepsParents

(* A push: the container it goes to, and that cur_ is not that one.        *)
LEMMA PushParent ==
  ASSUME BarrierInv, ParentInv, NEW u \in Block, Push(u)
  PROVE  ParentInv'
<1> USE LeaderIn
<1>1. PICK n \in 0 .. NumOutpos : Phase(n)
  BY DEF BarrierInv, Aligned
<1>2. pc[u] = "expand" /\ UNCHANGED <<pc, outpos, beams>>
  BY DEF Push
<1>3. Expanding(n) /\ outpos[u] = n /\ Nxt(u) = Later(n)
  BY <1>1, <1>2, PhaseOf DEF LevelOf, Nxt, Later
<1>4. pc[Leader] \in StartAt /\ LevelOf(Leader) = n /\ pc[Leader] # "init" /\ pc[Leader] # "saveSync"
  BY <1>3 DEF Expanding, At, StartAt
<1>5. PICK t \in {"next", "selected"}, child \in Beam :
        LET c == IF t = "next" THEN Nxt(u) ELSE "selected"
        IN  /\ <<t, child>> \in todo[u]
            /\ todo' = [todo EXCEPT ![u] = @ \ {<<t, child>>}]
            /\ IF HasRoom(cont[c])
               THEN cont' = [cont EXCEPT ![c] = Pushed(cont[c], child)] /\ UNCHANGED fault
               ELSE fault' = TRUE /\ UNCHANGED cont
  BY PushParts
<1> DEFINE c == IF t = "next" THEN Nxt(u) ELSE "selected"
<1>6. c \in Names /\ c # Now(n) /\ Now(n) \in Names /\ Later(n) \in Names
  BY <1>3 DEF Names, Now, Later
<1>7. \/ cont' = cont
      \/ HasRoom(cont[c]) /\ cont' = [cont EXCEPT ![c] = Pushed(cont[c], child)]
  BY <1>5
<1>8. cont \in [Names -> Container] /\ todo \in [Block -> SUBSET ({"next", "selected"} \X Beam)]
  BY DEF BarrierInv, TypeInv, TypeOK, Names
<1>9. ParentSaved(child)
  <2>1. <<t, child>> \in todo[u]
    BY <1>5
  <2> QED BY <1>2, <2>1 DEF ParentInv, ChildrenSaved
<1>10. todo' = [todo EXCEPT ![u] = @ \ {<<t, child>>}]
  BY <1>5
<1> HIDE DEF c
<1>11. \A x \in Names : /\ Contents(cont'[x]) \subseteq Contents(cont[x]) \cup {child}
                        /\ Fresh(cont[x]) => Fresh(cont'[x])
  <2>1. CASE cont' = cont
    BY <2>1
  <2>2. CASE HasRoom(cont[c]) /\ cont' = [cont EXCEPT ![c] = Pushed(cont[c], child)]
    <3>1. cont[c] \in Container
      BY <1>6, <1>8
    <3>2. /\ Contents(Pushed(cont[c], child)) \subseteq Contents(cont[c]) \cup {child}
          /\ Fresh(cont[c]) => Fresh(Pushed(cont[c], child))
      BY <2>2, <3>1, PushedParts
    <3>3. ASSUME NEW x \in Names
          PROVE  cont'[x] = IF x = c THEN Pushed(cont[c], child) ELSE cont[x]
      BY <1>8, <2>2
    <3> QED BY <3>2, <3>3
  <2> QED BY <1>7, <2>1, <2>2
<1>12. cont'[Now(n)] = cont[Now(n)]
  BY <1>6, <1>7, <1>8
<1>13. \A b : (ParentSaved(b) => ParentSaved(b)') /\ (Saved(b) => Saved(b)')
  BY <1>2 DEF ParentSaved, Saved
<1>14. ParentsSaved'
  BY <1>2, <1>4, <1>9, <1>11, <1>13 DEF ParentInv, ParentsSaved, Names
<1>15. AtZero'
  BY <1>2 DEF ParentInv, AtZero
<1>16. ChildrenSaved'
  BY <1>2, <1>8, <1>10, <1>13 DEF ParentInv, ChildrenSaved
<1>17. LevelOf(Leader)' = n /\ pc'[Leader] = pc[Leader]
  BY <1>2, <1>4 DEF LevelOf
<1>18. CurSaved'
  <2>1. \A b \in Contents(cont[Now(n)]) : Saved(b)
    BY <1>4 DEF ParentInv, CurSaved
  <2>2. \A b \in Contents(cont'[Now(n)]) : Saved(b)'
    BY <1>12, <1>13, <2>1
  <2>3. Now(LevelOf(Leader))' = Now(n)
    BY <1>17 DEF Now
  <2> QED BY <1>4, <1>17, <2>2, <2>3 DEF CurSaved
<1>19. NextFresh'
  <2>1. n < NumOutpos => Fresh(cont[Later(n)])
    BY <1>4 DEF ParentInv, NextFresh, BeforeTrim
  <2>2. n < NumOutpos => Fresh(cont'[Later(n)])
    BY <1>6, <1>11, <2>1
  <2>3. Later(LevelOf(Leader))' = Later(n)
    BY <1>17 DEF Later
  <2> QED BY <1>4, <1>17, <2>2, <2>3 DEF NextFresh
<1>20. SelectedFresh'
  BY <1>11, <1>17 DEF ParentInv, SelectedFresh, Names
<1> QED BY <1>14, <1>15, <1>16, <1>18, <1>19, <1>20 DEF ParentInv

(* A block that enters a trim of a container with its scores in place.     *)
LEMMA EnterTrimParts ==
  ASSUME cont \in [Names -> Container], NEW u \in Block, NEW c \in Names,
         NEW force, NEW sync, NEW cut,
         EnterTrim(u, c, force, sync, cut), u = Leader => Fresh(cont[c])
  PROVE  /\ \A x \in Names : Contents(cont'[x]) \subseteq Contents(cont[x])
         /\ u # Leader => cont' = cont
         /\ \A x \in Names \ {c} : cont'[x] = cont[x]
<1>1. CASE TrimSyncs(cont[c], force) /\ u = Leader
  <2>1. PICK d \in Collected(cont[c], force) : cont' = [cont EXCEPT ![c] = d]
    BY <1>1 DEF EnterTrim
  <2>2. Contents(d) \subseteq Contents(cont[c])
    BY <1>1, CollectedParts
  <2> QED BY <1>1, <2>1, <2>2
<1>2. CASE ~(TrimSyncs(cont[c], force) /\ u = Leader)
  BY <1>2 DEF EnterTrim
<1> QED BY <1>1, <1>2

LEMMA TrimParent ==
  ASSUME BarrierInv, ParentInv, NEW u \in Block, TrimNext(u) \/ CutNext(u) \/ TrimFinal(u) \/ CutFinal(u)
  PROVE  ParentInv'
<1> USE LeaderIn
<1>1. PICK n \in 0 .. NumOutpos : Phase(n)
  BY DEF BarrierInv, Aligned
<1>2. /\ pc[u] \in {"trim", "shrink", "finalTrim", "finalCut"}
      /\ UNCHANGED <<outpos, beams, todo>>
  BY DEF TrimNext, CutNext, TrimFinal, CutFinal
<1>3. LevelOf(u) = n /\ outpos[u] = n
  BY <1>1, <1>2, PhaseOf DEF LevelOf
<1>4. /\ pc \in [Block -> Location] /\ cont \in [Names -> Container]
      /\ outpos \in [Block -> 0 .. NumOutpos]
  BY DEF BarrierInv, TypeInv, TypeOK, Names
<1>5. Nxt(u) = Later(n) /\ Later(n) \in {"A", "B"}
  BY <1>3 DEF Nxt, Later
<1>6. PICK l \in {"trimSync", "shrink", "save", "finalSync", "finalCut", "outSync"} :
         /\ pc' = [pc EXCEPT ![u] = l]
         /\ l \in {"trimSync", "shrink", "save"} <=> pc[u] \in {"trim", "shrink"}
  BY DEF TrimNext, CutNext, TrimFinal, CutFinal, CutTo, EnterTrim, Goto
<1>7. /\ \A x \in Names : Contents(cont'[x]) \subseteq Contents(cont[x])
      /\ u # Leader => \A x \in Names : Fresh(cont[x]) => Fresh(cont'[x])
      /\ pc[u] \in {"trim", "shrink"} => cont'["selected"] = cont["selected"]
  <2>1. CASE TrimNext(u)
    <3>1. pc[u] = "trim" /\ EnterTrim(u, Later(n), FALSE, "trimSync", "shrink")
      BY <1>5, <2>1 DEF TrimNext
    <3>2. u = Leader => Fresh(cont[Later(n)])
      <4>1. n < NumOutpos
        BY <1>3, <3>1 DEF BarrierInv, TypeInv, LoopRange, InLoop
      <4> QED BY <1>3, <3>1, <4>1 DEF ParentInv, NextFresh, BeforeTrim
    <3>3. Later(n) \in Names /\ "selected" \in Names \ {Later(n)}
      BY <1>5 DEF Names
    <3> QED BY <1>4, <3>1, <3>2, <3>3, EnterTrimParts, Zenon
  <2>2. CASE CutNext(u)
    <3>1. cont' = [cont EXCEPT ![Later(n)] = Shrunk(@)] /\ Later(n) # "selected"
      BY <1>5, <2>2 DEF CutNext, CutTo
    <3> QED BY <1>4, <1>5, <3>1, ShrunkParts DEF Names
  <2>3. CASE TrimFinal(u)
    <3>1. pc[u] = "finalTrim" /\ EnterTrim(u, "selected", TRUE, "finalSync", "finalCut")
      BY <2>3 DEF TrimFinal
    <3>2. u = Leader => Fresh(cont["selected"])
      BY <3>1 DEF ParentInv, SelectedFresh, BeforeFinal
    <3>3. "selected" \in Names
      BY DEF Names
    <3>4. /\ \A x \in Names : Contents(cont'[x]) \subseteq Contents(cont[x])
          /\ u # Leader => cont' = cont
      BY <1>4, <3>1, <3>2, <3>3, EnterTrimParts, Zenon
    <3> QED BY <3>1, <3>4
  <2>4. CASE CutFinal(u)
    <3>1. pc[u] = "finalCut" /\ cont' = [cont EXCEPT !["selected"] = Shrunk(@)]
      BY <2>4 DEF CutFinal, CutTo
    <3> QED BY <1>4, <3>1, ShrunkParts DEF Names
  <2> QED BY <2>1, <2>2, <2>3, <2>4
<1>8. LevelOf(Leader)' = LevelOf(Leader)
  BY <1>2, <1>4, <1>6 DEF LevelOf
<1>9. /\ \A v \in Block : pc'[v] = "expand" => pc[v] = "expand"
      /\ \A v \in Block : pc'[v] \in {"init", "initSync"}
                           => pc[v] \in {"init", "initSync"} /\ outpos'[v] = outpos[v]
      /\ pc'[Leader] # "init" => pc[Leader] # "init"
      /\ pc'[Leader] \in StartAt => pc[Leader] \in StartAt
      /\ pc'[Leader] \in BeforeTrim => pc[Leader] \in BeforeTrim /\ u # Leader
      /\ pc'[Leader] \in BeforeFinal => pc[Leader] \in BeforeFinal /\ (u = Leader => pc[u] \in {"trim", "shrink"})
      /\ pc'[Leader] = "saveSync" => pc[Leader] = "saveSync" /\ u # Leader
  BY <1>2, <1>4, <1>6 DEF StartAt, BeforeTrim, BeforeFinal
<1>10. \A v \in Block : pc'[v] = "expand" => \A o \in todo'[v] : ParentSaved(o[2])
  BY <1>2, <1>9 DEF ParentInv, ChildrenSaved
<1>11. /\ pc'[Leader] \in BeforeTrim \cup {"saveSync"}
           => \A x \in {"A", "B"} : Fresh(cont[x]) => Fresh(cont'[x])
       /\ pc'[Leader] \in BeforeFinal /\ Fresh(cont["selected"]) => Fresh(cont'["selected"])
  BY <1>7, <1>9 DEF Names
<1> QED BY <1>2, <1>7, <1>8, <1>9, <1>10, <1>11, KeepsParents

(* The leader sets the containers up; the others have not come further.    *)
LEMMA PrepareParent ==
  ASSUME BarrierInv, ParentInv, Prepare(Leader)
  PROVE  ParentInv'
<1> USE LeaderIn
<1>1. PICK n \in 0 .. NumOutpos : Phase(n)
  BY DEF BarrierInv, Aligned
<1>2. /\ pc[Leader] = "init" /\ pc' = [pc EXCEPT ![Leader] = "initSync"]
      /\ cont' = [ A |-> Pushed(WithCapacity(Cleared(cont["A"]), 1), RootBeam),
                   B |-> WithCapacity(Cleared(cont["B"]), BeamWidth[0]),
                   selected |-> WithCapacity(Cleared(cont["selected"]), FinalBeam) ]
      /\ beams' = <<RootBeam>> /\ UNCHANGED <<outpos, todo>>
  BY DEF Prepare, Goto
<1>3. Starting(n)
  BY <1>1, <1>2, PhaseOf
<1>4. pc \in [Block -> Location] /\ outpos[Leader] = 0
  BY <1>2 DEF BarrierInv, TypeInv, TypeOK, ParentInv, AtZero
<1>5. cont["A"] \in Container /\ cont["B"] \in Container /\ cont["selected"] \in Container
  BY DEF BarrierInv, TypeInv, TypeOK
<1>6. /\ Contents(cont'["A"]) \subseteq {RootBeam}
      /\ Contents(cont'["B"]) = {} /\ Contents(cont'["selected"]) = {}
      /\ Fresh(cont'["B"]) /\ Fresh(cont'["selected"])
  <2> DEFINE a == WithCapacity(Cleared(cont["A"]), 1)
  <2>1. a \in Container /\ Contents(a) = {} /\ a.size = 0
    BY <1>5, ClearedParts, ClearedType, WithCapacityType
  <2>2. RootBeam \in Beam
    BY DEF RootBeam, Beam, NoId
  <2>3. HasRoom(a)
    BY <2>1 DEF HasRoom
  <2> HIDE DEF a
  <2>4. Contents(Pushed(a, RootBeam)) \subseteq {RootBeam}
    BY <2>1, <2>2, <2>3, PushedParts
  <2>5. cont'["A"] = Pushed(a, RootBeam)
    BY <1>2 DEF a
  <2> QED BY <1>2, <1>5, <2>4, <2>5, ClearedParts
<1>7. ParentSaved(RootBeam)' /\ Saved(RootBeam)'
  BY <1>2 DEF ParentSaved, Saved, RootBeam
<1>8. ParentsSaved'
  <2>1. \A b \in {RootBeam} : ParentSaved(b)'
    BY <1>2 DEF ParentSaved, RootBeam
  <2>2. \A c \in {"A", "B", "selected"} : Contents(cont'[c]) \subseteq {RootBeam}
    BY <1>6
  <2>3. ParentsSaved' = (pc'[Leader] # "init" =>
           \A c \in {"A", "B", "selected"} : \A b \in Contents(cont'[c]) : ParentSaved(b)')
    BY DEF ParentsSaved
  <2> HIDE DEF RootBeam
  <2> QED BY <2>1, <2>2, <2>3
<1>9. AtZero'
  BY <1>2, <1>4 DEF ParentInv, AtZero
<1>10. ChildrenSaved'
  BY <1>2, <1>3, <1>4 DEF ChildrenSaved, Starting, At
<1>11. LevelOf(Leader)' = 0 /\ pc'[Leader] = "initSync"
  BY <1>2, <1>4 DEF LevelOf
<1>12. CurSaved' /\ NextFresh' /\ SelectedFresh'
  <2>1. Now(LevelOf(Leader))' = "A" /\ Later(LevelOf(Leader))' = "B"
    BY <1>11 DEF Now, Later
  <2> QED BY <1>6, <1>7, <1>11, <2>1 DEF CurSaved, NextFresh, SelectedFresh
<1> QED BY <1>8, <1>9, <1>10, <1>12 DEF ParentInv

(* The leader numbers the beams of next_ and appends them to beams_.       *)
LEMMA SaveParent ==
  ASSUME BarrierInv, ParentInv, Save(Leader)
  PROVE  ParentInv'
<1> USE LeaderIn
<1>1. PICK n \in 0 .. NumOutpos : Phase(n)
  BY DEF BarrierInv, Aligned
<1>2. pc[Leader] = "save" /\ pc' = [pc EXCEPT ![Leader] = "saveSync"] /\ UNCHANGED <<outpos, todo>>
  BY DEF Save, Goto
<1>3. (Passing(n) \/ Saving(n)) /\ outpos[Leader] = n
  BY <1>1, <1>2, PhaseOf DEF LevelOf
<1>4. pc \in [Block -> Location] /\ cont \in [Names -> Container] /\ beams \in Seq(Beam)
  BY DEF BarrierInv, TypeInv, TypeOK, Names
<1>5. /\ Nxt(Leader) = Later(n) /\ Cur(Leader) = Now(n)
      /\ Now(n) \in {"A", "B"} /\ Later(n) \in {"A", "B"} /\ Now(n) # Later(n)
  BY <1>3 DEF Nxt, Later, Cur, Now
<1> DEFINE old   == cont[Later(n)]
           base  == Len(beams)
           saved == Numbered(old, base)
           cur   == cont[Now(n)]
           tail  == [i \in 1 .. saved.size |-> saved.cand[i - 1]]
<1>6. /\ beams' = beams \o tail
      /\ cont' = [cont EXCEPT ![Later(n)] = saved,
                              ![Now(n)] = IF n + 1 < NumOutpos
                                          THEN WithCapacity(Cleared(cur), BeamWidth[n + 1])
                                          ELSE cur]
  BY <1>3, <1>5 DEF Save
<1>7. old \in Container /\ cur \in Container /\ base \in Nat
  BY <1>4, <1>5 DEF Names
<1>8. /\ saved.size = old.size /\ old.size \in 0 .. Buffer
      /\ \A i \in 0 .. old.size - 1 : /\ saved.cand[i].path = old.cand[i].path
                                     /\ saved.cand[i].parent = old.cand[i].parent
                                     /\ saved.cand[i].id = base + i
  <2>1. old \in Container /\ base \in Nat /\ saved = Numbered(old, base)
    BY <1>7
  <2> HIDE DEF old, base, saved
  <2>2. /\ Numbered(old, base).size = old.size
        /\ \A i \in 0 .. old.size - 1 :
              /\ Numbered(old, base).cand[i].path = old.cand[i].path
              /\ Numbered(old, base).cand[i].parent = old.cand[i].parent
              /\ Numbered(old, base).cand[i].id = base + i
    BY <2>1, NumberedParts
  <2>3. old.size \in 0 .. Buffer
    BY <2>1, ContainerFields
  <2> QED BY <2>1, <2>2, <2>3
<1>9. saved \in Container
  <2> HIDE DEF old, base
  <2> QED BY <1>7, NumberedType
<1>10. tail \in Seq(Beam) /\ Len(tail) = saved.size /\ \A i \in 1 .. saved.size : tail[i] = saved.cand[i - 1]
  <2> HIDE DEF saved
  <2>1. saved.size \in Nat /\ \A i \in 1 .. saved.size : i - 1 \in Slots
    BY <1>9, ContainerFields DEF Slots
  <2>2. \A i \in 1 .. saved.size : saved.cand[i - 1] \in Beam
    BY <1>9, <2>1, ContainerFields
  <2>3. tail \in [1 .. saved.size -> Beam]
    BY <2>2
  <2>4. \A i \in 1 .. saved.size : tail[i] = saved.cand[i - 1]
    OBVIOUS
  <2> HIDE DEF tail
  <2> QED BY <2>1, <2>3, <2>4, ArrayIsSeq
<1> HIDE DEF tail, saved, old, cur
<1>11. \A b : ParentSaved(b) => ParentSaved(b)'
  BY <1>4, <1>6, <1>10, GrownBeams
<1>12. cont'[Later(n)] = saved /\ cont'["selected"] = cont["selected"]
  BY <1>4, <1>5, <1>6 DEF Names
<1>13. cont'[Now(n)] = IF n + 1 < NumOutpos THEN WithCapacity(Cleared(cur), BeamWidth[n + 1]) ELSE cur
  BY <1>4, <1>5, <1>6 DEF Names
<1>14. \A b \in Contents(saved) : ParentSaved(b)' /\ Saved(b)'
  <2> TAKE b \in Contents(saved)
  <2>1. PICK i \in 0 .. old.size - 1 : b = saved.cand[i]
    BY <1>8 DEF Contents
  <2>2. ParentSaved(old.cand[i])
    <3>1. old.cand[i] \in Contents(cont[Later(n)])
      BY DEF Contents, old
    <3> QED BY <1>2, <1>5, <3>1 DEF ParentInv, ParentsSaved
  <2>3. ParentSaved(b)
    BY <1>8, <2>1, <2>2 DEF ParentSaved
  <2>4. base \in Nat /\ i \in Nat /\ i + 1 \in 1 .. saved.size /\ base + i + 1 \in 1 .. base + saved.size
    BY <1>7, <1>8, <2>1
  <2>5. tail[i + 1] = b
    BY <1>10, <2>1, <2>4
  <2>6. base + i + 1 \in DOMAIN beams' /\ beams'[base + i + 1] = b
    <3>1. i + 1 \in 1 .. Len(tail)
      BY <1>10, <2>4
    <3>2. Len(beams) + (i + 1) \in DOMAIN (beams \o tail) /\ (beams \o tail)[Len(beams) + (i + 1)] = tail[i + 1]
      BY <1>4, <1>10, <3>1, AppendedAt
    <3>3. base + i + 1 = Len(beams) + (i + 1)
      BY <2>4
    <3> QED BY <1>6, <2>5, <3>2, <3>3
  <2>7. b.id + 1 = base + i + 1
    BY <1>8, <2>1, <2>4
  <2>8. Saved(b)'
    BY <2>6, <2>7 DEF Saved
  <2> QED BY <1>11, <2>3, <2>8
<1>15. \A b \in Contents(cont'[Now(n)]) : ParentSaved(b)'
  <2>1. Contents(cont'[Now(n)]) \subseteq Contents(cur)
    BY <1>7, <1>13, ClearedParts
  <2>2. \A b \in Contents(cur) : ParentSaved(b)
    BY <1>2, <1>5 DEF ParentInv, ParentsSaved, cur
  <2> QED BY <1>11, <2>1, <2>2
<1>16. \A b \in Contents(cont'["selected"]) : ParentSaved(b)'
  BY <1>2, <1>11, <1>12 DEF ParentInv, ParentsSaved
<1>17. ParentsSaved'
  <2>1. {"A", "B", "selected"} = {Now(n), Later(n), "selected"}
    BY <1>5
  <2>2. \A c \in {Now(n), Later(n), "selected"} : \A b \in Contents(cont'[c]) : ParentSaved(b)'
    BY <1>12, <1>14, <1>15, <1>16
  <2> QED BY <2>1, <2>2 DEF ParentsSaved
<1>18. AtZero'
  BY <1>2, <1>4 DEF ParentInv, AtZero
<1>19. ChildrenSaved'
  BY <1>2, <1>3, <1>4 DEF ChildrenSaved, Passing, Saving, At
<1>20. LevelOf(Leader)' = n /\ pc'[Leader] = "saveSync"
  BY <1>2, <1>3, <1>4 DEF LevelOf
<1>21. CurSaved'
  <2>1. Later(LevelOf(Leader))' = Later(n)
    BY <1>20 DEF Later
  <2> QED BY <1>12, <1>14, <1>20, <2>1 DEF CurSaved, StartAt
<1>22. NextFresh'
  <2>1. Now(LevelOf(Leader))' = Now(n)
    BY <1>20 DEF Now
  <2>2. n + 1 < NumOutpos => Fresh(cont'[Now(n)])
    BY <1>7, <1>13, ClearedParts
  <2> QED BY <1>20, <2>1, <2>2 DEF NextFresh, BeforeTrim, StartAt
<1>23. SelectedFresh'
  BY <1>2, <1>12 DEF ParentInv, SelectedFresh, BeforeFinal
<1> QED BY <1>17, <1>18, <1>19, <1>21, <1>22, <1>23 DEF ParentInv

LEMMA ReleaseParent ==
  ASSUME BarrierInv, ParentInv, Release
  PROVE  ParentInv'
<1> USE LeaderIn, ResumeAt
<1>1. PICK n \in 0 .. NumOutpos : Phase(n)
  BY DEF BarrierInv, Aligned
<1>2. UNCHANGED <<outpos, todo, cont, beams>> /\ \A u \in Block : pc[u] \in SyncPoint /\ pc'[u] = Resume[pc[u]]
  BY DEF Release
<1>3. pc[Leader] \notin {"selectedSync", "proactiveSync"}
  BY <1>1 DEF Phase, Starting, Expanding, Sorting, Passing, Saving, Ordering, Leaving, Cutting,
              Writing, At
<1>4. \A u \in Block : pc'[u] \notin {"init", "initSync", "expand"}
  BY <1>2
<1>5. \A b : (ParentSaved(b) => ParentSaved(b)') /\ (Saved(b) => Saved(b)')
  BY <1>2 DEF ParentSaved, Saved
<1>6. ParentsSaved'
  <2>1. pc[Leader] # "init"
    BY <1>2
  <2> QED BY <1>2, <1>5, <2>1 DEF ParentInv, ParentsSaved
<1>7. AtZero' /\ ChildrenSaved'
  BY <1>4 DEF AtZero, ChildrenSaved
<1>8. outpos \in [Block -> 0 .. NumOutpos]
  BY DEF BarrierInv, TypeInv, TypeOK
<1>9. CASE pc[Leader] = "saveSync"
  <2> DEFINE m == outpos[Leader]
  <2>1. LevelOf(Leader) = m /\ pc'[Leader] = "check" /\ LevelOf(Leader)' = m + 1 /\ m \in Nat
    BY <1>2, <1>8, <1>9 DEF LevelOf
  <2>2. Now(LevelOf(Leader))' = Later(m) /\ Later(LevelOf(Leader))' = Now(m)
    <3>1. (m + 1) % 2 = 0 <=> ~ (m % 2 = 0)
      BY <2>1, Parity
    <3> HIDE DEF m
    <3> QED BY <2>1, <3>1 DEF Now, Later
  <2>3. \A b \in Contents(cont[Later(m)]) : Saved(b)
    BY <1>9, <2>1 DEF ParentInv, CurSaved
  <2>4. m + 1 < NumOutpos => Fresh(cont[Now(m)])
    BY <1>9, <2>1 DEF ParentInv, NextFresh
  <2>5. Fresh(cont["selected"])
    BY <1>9 DEF ParentInv, SelectedFresh, BeforeFinal
  <2> HIDE DEF m
  <2>6. CurSaved'
    BY <1>2, <1>5, <2>1, <2>2, <2>3 DEF CurSaved
  <2>7. NextFresh'
    BY <1>2, <2>1, <2>2, <2>4 DEF NextFresh
  <2>8. SelectedFresh'
    BY <1>2, <2>5 DEF SelectedFresh
  <2> QED BY <1>6, <1>7, <2>6, <2>7, <2>8 DEF ParentInv
<1>10. CASE pc[Leader] # "saveSync"
  <2>1. /\ LevelOf(Leader)' = LevelOf(Leader) /\ pc'[Leader] # "saveSync"
        /\ pc'[Leader] \in StartAt => pc[Leader] \in StartAt
        /\ pc'[Leader] \in BeforeTrim => pc[Leader] \in BeforeTrim
        /\ pc'[Leader] \in BeforeFinal => pc[Leader] \in BeforeFinal
    BY <1>2, <1>3, <1>10 DEF LevelOf, StartAt, BeforeTrim, BeforeFinal
  <2>2. Now(LevelOf(Leader))' = Now(LevelOf(Leader)) /\ Later(LevelOf(Leader))' = Later(LevelOf(Leader))
    BY <2>1 DEF Now, Later
  <2>3. CurSaved' /\ NextFresh' /\ SelectedFresh'
    BY <1>2, <1>5, <2>1, <2>2 DEF ParentInv, CurSaved, NextFresh, SelectedFresh
  <2> QED BY <1>6, <1>7, <2>3 DEF ParentInv
<1> QED BY <1>9, <1>10

LEMMA NextParent ==
  ASSUME BarrierInv, ParentInv, Undisturbed, [Next]_vars
  PROVE  ParentInv'
<1>1. ASSUME NEW u \in Block, Step(u)
      PROVE  ParentInv'
  <2>1. CASE Prepare(u) \/ Save(u)
    BY <2>1, PrepareParent, SaveParent, PlaceParent
  <2>2. CASE Expanded(u) \/ Swap(u) \/ GenerateResult(u)
    BY <2>2, PlaceParent
  <2>3. CASE Top(u) \/ Push(u)
    BY <2>3, TopParent, PushParent
  <2>4. CASE TrimNext(u) \/ CutNext(u) \/ TrimFinal(u) \/ CutFinal(u)
    BY <2>4, TrimParent
  <2>5. CASE CheckSelected(u)
    <3>1. ~Crowded
      BY <2>5 DEF CheckSelected, Undisturbed
    <3> QED BY <2>5, <3>1, PlaceParent
  <2>6. CASE CutSelected(u)
    <3>1. pc[u] = "selectedCut"
      BY <2>6 DEF CutSelected
    <3> QED BY <3>1, PhaseOf DEF BarrierInv, Aligned
  <2> QED BY <1>1, <2>1, <2>2, <2>3, <2>4, <2>5, <2>6 DEF Step
<1>2. CASE UNCHANGED vars
  <2>1. UNCHANGED <<pc, outpos, todo, cont, beams>>
    BY <1>2 DEF vars
  <2>2. LevelOf(Leader)' = LevelOf(Leader)
    BY <2>1 DEF LevelOf
  <2>3. \A u \in Block : pc'[u] = "expand" => \A o \in todo'[u] : ParentSaved(o[2])
    BY <2>1 DEF ParentInv, ChildrenSaved
  <2> QED BY <2>1, <2>2, <2>3, KeepsParents
<1>3. CASE Next
  BY <1>1, <1>3, ReleaseParent DEF Next
<1> QED BY <1>2, <1>3

(* Each beam on the way to the answer names as its parent the saved beam   *)
(* one token shorter, whatever the trims and next_.save() have done to the *)
(* arrays since it was pushed: generate_result gives back its own tokens.  *)
THEOREM BacktraceSound == Spec /\ []Undisturbed => []ParentsSaved
<1>1. Init => BarrierInv /\ ParentInv
  BY InitAligned, InitParent
<1>2. BarrierInv /\ ParentInv /\ Undisturbed /\ [Next]_vars => BarrierInv' /\ ParentInv'
  BY NextAligned, NextParent
<1>3. ParentInv => ParentsSaved
  BY DEF ParentInv
<1> QED BY <1>1, <1>2, <1>3, PTL DEF Spec

(* ... which parameters that leave room grant.                             *)
THEOREM BacktraceWithRoom ==
  ASSUME Roomy
  PROVE  Spec => []ParentsSaved
<1>1. Spec => []Undisturbed
  BY RoomyNeverOverruns, PTL
<1> QED BY <1>1, BacktraceSound, PTL
=============================================================================
