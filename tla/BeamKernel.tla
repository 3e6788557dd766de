----------------------------- MODULE BeamKernel -----------------------------
(***************************************************************************)
(* beam_search_kernel (tbs-kernels.cu): one cooperative grid of thread     *)
(* blocks runs all the output positions of one request.  The blocks share  *)
(* three containers, the array of saved beams and its counter, and meet at *)
(* grid-wide barriers; between two barriers they run freely.               *)
(*                                                                         *)
(* A block is one process; block 0 holds thread rank 0 and is the leader.  *)
(* Inside a block the threads run in any order: the pushes a block has to  *)
(* make for an output position are the set todo[u], taken one at a time.   *)
(* The comparison sort is the work of block 0 here, which it is while the  *)
(* container fits one sort block; SortTopK models the many-block sort.     *)
(***************************************************************************)
EXTENDS CandidateOps, Sequences

CONSTANTS
  NumCtas,     (* the blocks of the grid                                     *)
  Root,        (* the node that beams_[0] names: nothing initializes it, so  *)
               (* it is what the allocation held; << >> when that was zeroed *)
  Token,       (* the labels of topk_id                                      *)
  ToNext,      (* the paths extend_beam_* pushes to next_                    *)
  ToSelected,  (* the paths extend_beam_* pushes to selected_                *)
  NumOutpos,   (* the number of output positions                             *)
  BeamWidth,   (* outpos_beams_: the beam width of each output position      *)
  EarlyExit,   (* early_exit_                                                *)
  MaxBeamId,   (* max_beam_id_: the length of the array beams_               *)
  StaleSizes,  (* sizes an earlier request may have left in the containers   *)
  NoResult     (* the output buffer before this launch has written it        *)

Block == 0 .. NumCtas - 1
Leader == 0

ASSUME KernelAssumption ==
  /\ NumCtas \in Nat \ {0}
  /\ NumOutpos \in Nat \ {0}
  /\ BeamWidth \in [0 .. NumOutpos - 1 -> Nat]
  /\ EarlyExit \in BOOLEAN
  /\ MaxBeamId \in Nat \ {0}
  /\ Root \in Path
  /\ ToNext \subseteq Path
  /\ ToSelected \subseteq Path
  /\ \A p \in Path : p \in Seq(Token)
  /\ StaleSizes \subseteq 0 .. Buffer

VARIABLES
  pc,        (* where each block is                                          *)
  outpos,    (* each block's own loop counter                                *)
  todo,      (* the pushes each block still owes for its output position     *)
  cont,      (* the three containers                                         *)
  beams,     (* beams_[0 .. next_beam_id_ - 1]                               *)
  out,       (* the sentences of out_buffer_                                 *)
  fault,     (* an assert of push or save failed: from there on nothing is   *)
             (* promised                                                     *)
  pushed     (* history: every path ever pushed to selected_                 *)

vars == <<pc, outpos, todo, cont, beams, out, fault, pushed>>

(* Beams carry the number they were saved under and that of their parent.  *)
NoId == -1
RootBeam == [path |-> Root, id |-> 0, parent |-> NoId]

FinalBeam == BeamWidth[NumOutpos - 1]

(* cur_ and next_ are arguments passed by value that every thread swaps for*)
(* itself at the end of an output position: the parity of its own counter. *)
Cur(u) == IF outpos[u] % 2 = 0 THEN "A" ELSE "B"
Nxt(u) == IF outpos[u] % 2 = 0 THEN "B" ELSE "A"

(* The calls of cg::sync(grid), each with the place its waiters go on from.*)
Resume ==
  [ initSync      |-> "top",         \* line 508
    expandSync    |-> "trim",        \* line 528
    trimSync      |-> "shrink",      \* inside next_.trim(false)
    saveSync      |-> "check",       \* line 555
    proactiveSync |-> "swap",        \* line 566
    selectedSync  |-> "selectedCut", \* inside selected_.trim(false)
    finalSync     |-> "finalCut",    \* inside selected_.trim(true)
    outSync       |-> "generate" ]   \* line 585

SyncPoint == DOMAIN Resume

Goto(u, l) == pc' = [pc EXCEPT ![u] = l]

-----------------------------------------------------------------------------
(* The workspace is reused: the containers start as the last request left  *)
(* them.  The root is beams_[0], of which a kernel sets nothing but the    *)
(* number: its node stays the one that the allocation held.                *)
Init ==
  /\ pc = [u \in Block |-> "init"]
  /\ outpos = [u \in Block |-> 0]
  /\ todo = [u \in Block |-> {}]
  /\ \E n \in StaleSizes :
        cont = [c \in {"A", "B", "selected"} |->
                  [NewContainer(RootBeam) EXCEPT !.size = n]]
  /\ beams = << >>
  /\ out = NoResult
  /\ fault = FALSE
  /\ pushed = {}

(* Thread rank 0 prepares the containers; everyone meets at line 508.      *)
Prepare(u) ==
  /\ pc[u] = "init"
  /\ Goto(u, "initSync")
  /\ IF u = Leader
     THEN /\ cont' = [ A |-> Pushed(WithCapacity(Cleared(cont["A"]), 1), RootBeam),
                       B |-> WithCapacity(Cleared(cont["B"]), BeamWidth[0]),
                       selected |-> WithCapacity(Cleared(cont["selected"]), FinalBeam) ]
          /\ beams' = <<RootBeam>>
     ELSE UNCHANGED <<cont, beams>>
  /\ UNCHANGED <<outpos, todo, out, fault, pushed>>

(* A slip: a barrier of the block, not of the grid.                        *)
ReleaseAlone ==
  /\ \E u \in Block : pc[u] \in SyncPoint /\ pc' = [pc EXCEPT ![u] = Resume[pc[u]]]
  /\ UNCHANGED <<outpos, todo, cont, beams, out, fault, pushed>>

(* grid.sync() returns when every block of the grid has arrived, at        *)
(* whichever call: the barrier counts arrivals.                            *)
Release ==
  /\ \A u \in Block : pc[u] \in SyncPoint
  /\ pc' = [u \in Block |-> Resume[pc[u]]]
  /\ UNCHANGED <<outpos, todo, cont, beams, out, fault, pushed>>

-----------------------------------------------------------------------------
(* Slips: one output position too many; early exit whether asked for or not.*)
LeavesLate(u) ==
  \/ outpos[u] > NumOutpos
  \/ cont[Cur(u)].size = 0
  \/ EarlyExit /\ cont["selected"].size >= FinalBeam

LeavesOnceFull(u) ==
  \/ outpos[u] = NumOutpos
  \/ cont[Cur(u)].size = 0
  \/ cont["selected"].size >= FinalBeam

(* The head of the loop, lines 510-522.                                    *)
Leaves(u) ==
  \/ outpos[u] = NumOutpos
  \/ cont[Cur(u)].size = 0
  \/ EarlyExit /\ cont["selected"].size >= FinalBeam

(* A slip: the stride over the parents starts at position one.             *)
OwedFromOne(u) ==
  LET cur  == cont[Cur(u)]
      mine == {cur.cand[i] : i \in {j \in 1 .. cur.size - 1 : j % NumCtas = u}}
      kids == { [path |-> Append(b.path, k), id |-> NoId, parent |-> b.id] :
                  b \in mine, k \in Token }
  IN  ({"next"} \X {c \in kids : c.path \in ToNext})
        \cup ({"selected"} \X {c \in kids : c.path \in ToSelected})

(* process_outpos deals the parents to the blocks by position; for each    *)
(* parent the threads of the block look up the proposed tokens among its   *)
(* children.  What a block has to push: a target container and a child.    *)
Owed(u) ==
  LET cur  == cont[Cur(u)]
      mine == {cur.cand[i] : i \in {j \in 0 .. cur.size - 1 : j % NumCtas = u}}
      kids == { [path |-> Append(b.path, k), id |-> NoId, parent |-> b.id] :
                  b \in mine, k \in Token }
  IN  ({"next"} \X {c \in kids : c.path \in ToNext})
        \cup ({"selected"} \X {c \in kids : c.path \in ToSelected})

Top(u) ==
  /\ pc[u] = "top"
  /\ IF Leaves(u)
     THEN Goto(u, "finalTrim") /\ UNCHANGED todo
     ELSE Goto(u, "expand") /\ todo' = [todo EXCEPT ![u] = Owed(u)]
  /\ UNCHANGED <<outpos, cont, beams, out, fault, pushed>>

(* One push of a child.  The thread that found it pushes it to selected_   *)
(* before it pushes it to next_.                                           *)
Push(u) ==
  /\ pc[u] = "expand"
  /\ \E child \in {o[2] : o \in todo[u]} :
        LET target == IF <<"selected", child>> \in todo[u] THEN "selected" ELSE "next"
            c      == IF target = "next" THEN Nxt(u) ELSE target
        IN  /\ todo' = [todo EXCEPT ![u] = @ \ {<<target, child>>}]
            /\ IF HasRoom(cont[c])
               THEN cont' = [cont EXCEPT ![c] = Pushed(@, child)] /\ UNCHANGED fault
               ELSE fault' = TRUE /\ UNCHANGED cont
            /\ pushed' = IF target = "selected" THEN pushed \cup {child.path} ELSE pushed
  /\ UNCHANGED <<pc, outpos, beams, out>>

Expanded(u) ==
  /\ pc[u] = "expand"
  /\ todo[u] = {}
  /\ Goto(u, "expandSync")
  /\ UNCHANGED <<outpos, todo, cont, beams, out, fault, pushed>>

-----------------------------------------------------------------------------
(* A block enters a trim of container c.  With a barrier inside, block 0   *)
(* has rewritten the arrays when it arrives there; without one the block   *)
(* goes straight to the assignment of size_.                               *)
EnterTrim(u, c, force, sync, cut) ==
  IF TrimSyncs(cont[c], force)
  THEN /\ Goto(u, sync)
       /\ IF u = Leader
          THEN \E d \in Collected(cont[c], force) :
                 cont' = [cont EXCEPT ![c] = d]
          ELSE UNCHANGED cont
  ELSE Goto(u, cut) /\ UNCHANGED cont

(* ... and the assignment, which the threads of every block repeat.        *)
CutTo(u, c, l) ==
  /\ cont' = [cont EXCEPT ![c] = Shrunk(@)]
  /\ Goto(u, l)

(* next_.trim(false), line 542.                                            *)
TrimNext(u) ==
  /\ pc[u] = "trim"
  /\ EnterTrim(u, Nxt(u), FALSE, "trimSync", "shrink")
  /\ UNCHANGED <<outpos, todo, beams, out, fault, pushed>>

CutNext(u) ==
  /\ pc[u] = "shrink"
  /\ CutTo(u, Nxt(u), "save")
  /\ UNCHANGED <<outpos, todo, beams, out, fault, pushed>>

(* A slip: the number is written to beams_ but not back to cand_.          *)
NumberedNot(c, base) == c

(* next_.save(): block 0 numbers the surviving beams and appends them to   *)
(* beams_; then thread rank 0 recycles cur_ as the next next_.  The assert *)
(* of save() wants a number left that no beam has.                         *)
Numbered(c, base) ==
  [ c EXCEPT !.cand = [i \in Slots |-> IF i < c.size THEN [@[i] EXCEPT !.id = base + i]
                                                     ELSE @[i]] ]

Save(u) ==
  /\ pc[u] = "save"
  /\ Goto(u, "saveSync")
  /\ IF u # Leader
     THEN UNCHANGED <<cont, beams, fault>>
     ELSE LET saved == Numbered(cont[Nxt(u)], Len(beams))
              cur   == cont[Cur(u)]
          IN  /\ fault' = (Len(beams) + saved.size >= MaxBeamId)
              /\ beams' = beams \o [i \in 1 .. saved.size |-> saved.cand[i - 1]]
              /\ cont' = [ cont EXCEPT
                     ![Nxt(u)] = saved,
                     ![Cur(u)] = IF outpos[u] + 1 < NumOutpos
                                 THEN WithCapacity(Cleared(cur), BeamWidth[outpos[u] + 1])
                                 ELSE cur ]
  /\ UNCHANGED <<outpos, todo, out, pushed>>

-----------------------------------------------------------------------------
(* A slip: a threshold the selected keys cross in the middle of a search.  *)
CrowdedSoon == cont["selected"].size > 1

(* Line 557: each block reads the size of selected_ for itself.            *)
Crowded == cont["selected"].size > Buffer \div 4

CheckSelected(u) ==
  /\ pc[u] = "check"
  /\ IF Crowded
     THEN EnterTrim(u, "selected", FALSE, "selectedSync", "selectedCut")
     ELSE Goto(u, "swap") /\ UNCHANGED cont
  /\ UNCHANGED <<outpos, todo, beams, out, fault, pushed>>

(* A slip: the leader leaves the trim without the barrier behind it.       *)
CutSelectedUnsynced(u) ==
  /\ pc[u] = "selectedCut"
  /\ CutTo(u, "selected", IF u = Leader THEN "swap" ELSE "proactiveSync")
  /\ UNCHANGED <<outpos, todo, beams, out, fault, pushed>>

CutSelected(u) ==
  /\ pc[u] = "selectedCut"
  /\ CutTo(u, "selected", "proactiveSync")
  /\ UNCHANGED <<outpos, todo, beams, out, fault, pushed>>

Swap(u) ==
  /\ pc[u] = "swap"
  /\ Goto(u, "top")
  /\ outpos' = [outpos EXCEPT ![u] = @ + 1]
  /\ UNCHANGED <<todo, cont, beams, out, fault, pushed>>

-----------------------------------------------------------------------------
(* selected_.trim(true), line 581.                                         *)
TrimFinal(u) ==
  /\ pc[u] = "finalTrim"
  /\ EnterTrim(u, "selected", TRUE, "finalSync", "finalCut")
  /\ UNCHANGED <<outpos, todo, beams, out, fault, pushed>>

CutFinal(u) ==
  /\ pc[u] = "finalCut"
  /\ CutTo(u, "selected", "outSync")
  /\ UNCHANGED <<outpos, todo, beams, out, fault, pushed>>

(* generate_result walks parent_beam_id_ back from each selected beam and  *)
(* writes the tokens from the last to the first; the best beam comes last. *)
Sentence(b) ==
  LET depth == Len(b.path) - Len(Root)
      back[n \in 0 .. depth] ==
        IF n = 0 THEN b ELSE beams[back[n - 1].parent + 1]
      token(c) == c.path[Len(c.path)]
  IN  [n \in 1 .. depth |-> token(back[depth - n])]

GenerateResult(u) ==
  /\ pc[u] = "generate"
  /\ Goto(u, "done")
  /\ LET sel == cont["selected"]
     IN  out' = IF u = Leader
                THEN [i \in 1 .. sel.size |-> Sentence(sel.cand[sel.size - i])]
                ELSE out
  /\ UNCHANGED <<outpos, todo, cont, beams, fault, pushed>>

-----------------------------------------------------------------------------
Step(u) ==
  \/ Prepare(u) \/ Top(u) \/ Push(u) \/ Expanded(u)
  \/ TrimNext(u) \/ CutNext(u) \/ Save(u)
  \/ CheckSelected(u) \/ CutSelected(u) \/ Swap(u)
  \/ TrimFinal(u) \/ CutFinal(u) \/ GenerateResult(u)

Next ==
  \/ ~fault /\ \E u \in Block : Step(u)
  \/ ~fault /\ Release

Spec == Init /\ [][Next]_vars

(* The launch is cooperative: all blocks are resident, so each one runs.   *)
Fairness ==
  /\ \A u \in Block : WF_vars(~fault /\ Step(u))
  /\ WF_vars(~fault /\ Release)

FairSpec == Spec /\ Fairness

-----------------------------------------------------------------------------
Beam == [path : Path, id : Nat \cup {NoId}, parent : Nat \cup {NoId}]

Container ==
  [cand : [Slots -> Beam], meta : [Slots -> SortState], size : 0 .. Buffer, cap : Nat]

Location == SyncPoint \cup
  {"init", "top", "expand", "trim", "shrink", "save", "check", "selectedCut",
   "swap", "finalTrim", "finalCut", "generate", "done"}

(* The type invariant of the launch.                                       *)
TypeOK ==
  /\ pc \in [Block -> Location]
  /\ outpos \in [Block -> 0 .. NumOutpos]
  /\ todo \in [Block -> SUBSET ({"next", "selected"} \X Beam)]
  /\ cont \in [{"A", "B", "selected"} -> Container]
  /\ beams \in Seq(Beam)
  /\ fault \in BOOLEAN
  /\ pushed \subseteq Path

(* The asserts on the room of the buffers hold (candidates-gpu.h:52 and    *)
(* 431), so that the build without them overruns neither the slots of a    *)
(* container nor the array of beams.                                       *)
NoFault == ~fault

(* Two blocks that wait, wait at the same barrier of the same output       *)
(* position: every decision taken between two barriers is taken alike by   *)
(* all the blocks, whatever the others have done in the meantime.          *)
BarriersAgree ==
  \A u, v \in Block :
     pc[u] \in SyncPoint /\ pc[v] \in SyncPoint
       => pc[u] = pc[v] /\ outpos[u] = outpos[v]

(* While a block reads its parents from cur_, no block clears, sorts,      *)
(* shrinks or renumbers a container: the barriers keep the phases apart.   *)
PhasesApart ==
  \A u, v \in Block :
     pc[u] = "expand"
       => pc[v] \notin {"trim", "trimSync", "shrink", "save", "saveSync",
                       "selectedSync", "selectedCut", "proactiveSync",
                       "finalTrim", "finalSync", "finalCut"}

(* Each beam that is on the way to the answer, or was saved, names as its  *)
(* parent the saved beam one token shorter than itself, although beams are *)
(* renumbered, trimmed and overwritten at every output position.           *)
ParentSaved(b) ==
  b.path # Root =>
    /\ b.parent + 1 \in DOMAIN beams
    /\ \E k \in Token : b.path = Append(beams[b.parent + 1].path, k)

ParentsSaved ==
  pc[Leader] # "init" =>
    \A c \in {"A", "B", "selected"} : \A b \in Contents(cont[c]) : ParentSaved(b)

(* One root and the beam widths of the first n output positions.           *)
SavedBy[n \in 0 .. NumOutpos] == IF n = 0 THEN 1 ELSE SavedBy[n - 1] + BeamWidth[n - 1]

(* The array of beams never outgrows the beams that the root and the       *)
(* positions searched so far may save.                                     *)
BeamsBounded == Len(beams) <= SavedBy[Least(outpos[Leader] + 1, NumOutpos)]

(* The answer: the sentences that the backtrace wrote are the paths of the *)
(* best complete keys met, none of them twice, the best one last.          *)
BestAnswer ==
  pc[Leader] = "done" =>
    /\ {out[i] : i \in DOMAIN out} \subseteq pushed
    /\ Len(out) = Least(Cardinality(pushed), FinalBeam)
    /\ \A i, j \in DOMAIN out :
          i < j => out[i] # out[j] /\ Score[out[i]] <= Score[out[j]]
    /\ \A p \in pushed \ {out[i] : i \in DOMAIN out} :
          \A i \in DOMAIN out : Score[p] <= Score[out[i]]

(* Every block runs the loop to its end and leaves the kernel.             *)
Termination == <>(\A u \in Block : pc[u] = "done")

(* The kernel implements the abstract search.  An abstract step happens    *)
(* when the leader has saved the surviving beams of an output position.    *)
PastSave == {"saveSync", "check", "selectedSync", "selectedCut", "proactiveSync", "swap"}

Level == IF pc[Leader] \in PastSave THEN outpos[Leader] + 1 ELSE outpos[Leader]

Frontier ==
  IF pc[Leader] = "init" THEN {<< >>}
  ELSE LET c == IF pc[Leader] \in PastSave THEN Nxt(Leader) ELSE Cur(Leader)
       IN  {b.path : b \in Contents(cont[c])}

Search ==
  INSTANCE BeamSearch WITH
    level    <- Level,
    frontier <- Frontier,
    selected <- {p \in pushed : Len(p) <= Level},
    answers  <- IF pc[Leader] = "done" THEN {{out[i] : i \in DOMAIN out}} ELSE {}

ImplementsSearch == Search!Spec

-----------------------------------------------------------------------------
(* Two conditions on the parameters of a launch, under which the theorems  *)
(* about the kernel hold that do so for every grid, trie and score.  Roomy:*)
(* the buffers are large enough.  Each beam of cur_ has at most one child  *)
(* for each token; room[n] bounds the complete keys met before output      *)
(* position n, saves[n] the beams saved before it.                         *)
Parents(n) == IF n = 0 THEN 1 ELSE BeamWidth[n - 1]

Children(n) == Parents(n) * Cardinality(Token)

Rooms(room) ==
  /\ room \in [0 .. NumOutpos -> 0 .. Buffer \div 4]
  /\ \A n \in 0 .. NumOutpos - 1 : room[n] + Children(n) <= room[n + 1]

Saves(saves) ==
  /\ saves \in [0 .. NumOutpos -> 1 .. MaxBeamId - 1]
  /\ \A n \in 0 .. NumOutpos - 1 : saves[n] + BeamWidth[n] <= saves[n + 1]

Roomy ==
  /\ ~EarlyExit
  /\ IsFiniteSet(Token)
  /\ \E room : Rooms(room)
  /\ \E saves : Saves(saves)

(* No output position is left to the radix path of trim.                   *)
Sortable == \A n \in 0 .. NumOutpos - 1 : BeamWidth[n] <= RadixThreshold
=============================================================================
