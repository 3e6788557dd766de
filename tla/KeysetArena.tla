---------------------------- MODULE KeysetArena -----------------------------
(***************************************************************************)
(* The keyset (keyset.cc): keys are copied into blocks of labels, short    *)
(* ones one behind the other, a long one into a block of its own; a record *)
(* per key, in blocks of records, points to its labels.  Arrays of blocks  *)
(* double when full and the blocks are swapped over, so that pointers into *)
(* them hold.  reset keeps the base blocks and the records for reuse.      *)
(*                                                                         *)
(* heap is the memory of label blocks: a block is the key that each of its *)
(* labels was last written for.  An array of blocks is the sequence of its *)
(* slots, each with a block of the heap or with Null.                      *)
(***************************************************************************)
EXTENDS Integers, SequencesExt

CONSTANTS
  BaseBlockSize,   (* BASE_BLOCK_SIZE,                                     *)
  ExtraBlockSize,  (* EXTRA_BLOCK_SIZE and                                 *)
  KeyBlockSize,    (* KEY_BLOCK_SIZE of the code                           *)
  Lengths,         (* lengths of keys                                      *)
  MaxPushes,       (* bound: keys pushed, with those that failed           *)
  MaxResets        (* bound: resets                                        *)

ASSUME ArenaAssumption ==
  /\ BaseBlockSize \in Nat /\ ExtraBlockSize \in 0 .. BaseBlockSize /\ KeyBlockSize \in Nat \ {0}
  /\ Lengths \subseteq Nat

Null == 0

NoPtr == [block |-> Null, offset |-> 0]

VARIABLES
  heap,       (* label blocks: content, or Null once freed                 *)
  base,       (* base_blocks_[.. capacity - 1]                             *)
  baseSize,   (* base_blocks_size_                                         *)
  extra,      (* extra_blocks_                                             *)
  extraSize,
  keyBlocks,  (* key_blocks_size_                                          *)
  keyRoom,    (* key_blocks_capacity_                                      *)
  records,    (* the records of all key blocks, in one                     *)
  ptr,        (* ptr_                                                      *)
  avail,      (* avail_                                                    *)
  size,       (* size_                                                     *)
  pushes,     (* keys pushed ever: the next key's name                     *)
  resets,
  pushed      (* what size_ keys have to be: name and length               *)

arena == [heap |-> heap, base |-> base, baseSize |-> baseSize, extra |-> extra,
          extraSize |-> extraSize, keyBlocks |-> keyBlocks, keyRoom |-> keyRoom,
          records |-> records, ptr |-> ptr, avail |-> avail]

keysetVars == <<heap, base, baseSize, extra, extraSize, keyBlocks, keyRoom, records,
                ptr, avail, size, pushes, resets, pushed>>

Emptied ==
  [heap |-> << >>, base |-> << >>, baseSize |-> 0, extra |-> << >>, extraSize |-> 0,
   keyBlocks |-> 0, keyRoom |-> 0, records |-> << >>, ptr |-> NoPtr, avail |-> 0]

SetTo(a) ==
  /\ heap' = a.heap /\ base' = a.base /\ baseSize' = a.baseSize
  /\ extra' = a.extra /\ extraSize' = a.extraSize
  /\ keyBlocks' = a.keyBlocks /\ keyRoom' = a.keyRoom /\ records' = a.records
  /\ ptr' = a.ptr /\ avail' = a.avail

KeysetInit ==
  /\ heap = << >> /\ base = << >> /\ baseSize = 0 /\ extra = << >> /\ extraSize = 0
  /\ keyBlocks = 0 /\ keyRoom = 0 /\ records = << >> /\ ptr = NoPtr /\ avail = 0
  /\ size = 0 /\ pushes = 0 /\ resets = 0 /\ pushed = << >>

-----------------------------------------------------------------------------
Doubled(n) == IF n = 0 THEN 1 ELSE 2 * n

Grown(blocks, used) ==
  IF used = Len(blocks) THEN SubSeq(blocks, 1, used) \o [k \in 1 .. Doubled(used) - used |-> Null]
  ELSE blocks

Fresh(n) == [k \in 1 .. n |-> Null]

(* The arena after each allocation of a call, in order; an allocation that *)
(* fails leaves the one before it.  append_base_block:                     *)
BaseSteps(a) ==
  LET grown == [a EXCEPT !.base = Grown(a.base, a.baseSize)]
      slot == a.baseSize + 1
      filled == IF grown.base[slot] # Null THEN grown
                ELSE [grown EXCEPT !.heap = Append(@, Fresh(BaseBlockSize)),
                                   !.base[slot] = Len(a.heap) + 1]
  IN <<grown, [filled EXCEPT !.ptr = [block |-> filled.base[slot], offset |-> 0],
                             !.avail = BaseBlockSize, !.baseSize = slot]>>

(* append_extra_block: the block that a slot had from before a reset goes. *)
ExtraSteps(a, length) ==
  LET grown == [a EXCEPT !.extra = Grown(a.extra, a.extraSize)]
      slot == a.extraSize + 1
      freed == [k \in DOMAIN a.heap |-> IF k = grown.extra[slot] THEN << >> ELSE a.heap[k]]
  IN <<grown, [grown EXCEPT !.heap = Append(freed, Fresh(length)),
                            !.extra[slot] = Len(a.heap) + 1, !.extraSize = slot]>>

(* append_key_block.                                                       *)
KeySteps(a) ==
  LET grown == [a EXCEPT !.keyRoom = IF a.keyBlocks = @ THEN Doubled(@) ELSE @]
  IN <<grown, [grown EXCEPT !.keyBlocks = @ + 1,
                            !.records = @ \o [k \in 1 .. KeyBlockSize |-> [at |-> NoPtr, length |-> 0]]]>>

(* reserve: the allocations it makes, as the arena after each.             *)
ReserveSteps(a, n, length) ==
  LET keyed == IF n \div KeyBlockSize = a.keyBlocks THEN <<a>> \o KeySteps(a) ELSE <<a>>
  IN IF length > ExtraBlockSize THEN keyed \o ExtraSteps(Last(keyed), length)
     ELSE IF length > a.avail THEN keyed \o BaseSteps(Last(keyed))
     ELSE keyed

(* Where the labels go, and the arena with their place taken.              *)
Place(a, length) ==
  IF length > ExtraBlockSize THEN [block |-> a.extra[a.extraSize], offset |-> 0] ELSE a.ptr

Taken(a, length) ==
  IF length > ExtraBlockSize THEN a
  ELSE [a EXCEPT !.ptr.offset = @ + length, !.avail = @ - length]

(* The copy of a key, of copied labels, of which length are the key's.     *)
Written(a, place, copied, length, n, key) ==
  LET labels == [k \in DOMAIN a.heap[place.block] |->
                   IF k \in place.offset + 1 .. place.offset + copied THEN key
                   ELSE a.heap[place.block][k]]
  IN [a EXCEPT !.heap = IF copied = 0 THEN @ ELSE [@ EXCEPT ![place.block] = labels],
               !.records[n + 1] = [at |-> place, length |-> length]]

(* push_back, of a key or, with one label more, of a key and an end marker.*)
PushBackKey ==
  /\ pushes < MaxPushes
  /\ pushes' = pushes + 1
  /\ \E length \in Lengths, marker \in {0, 1} :
       LET copied == length + marker
           steps == ReserveSteps(arena, size, copied)
           place == Place(Last(steps), copied)
       IN SetTo(Written(Taken(Last(steps), copied), place, copied, length, size, pushes'))
          /\ pushed' = Append(pushed, [key |-> pushes', length |-> length])
  /\ size' = size + 1
  /\ UNCHANGED resets

(* push_back that throws MARISA_MEMORY_ERROR from one of its allocations.  *)
PushBackThrows ==
  /\ pushes < MaxPushes
  /\ pushes' = pushes + 1
  /\ \E length \in Lengths, marker \in {0, 1} :
       \E k \in 1 .. Len(ReserveSteps(arena, size, length + marker)) - 1 :
         SetTo(ReserveSteps(arena, size, length + marker)[k])
  /\ UNCHANGED <<size, resets, pushed>>

(* A slip: the room left in the last block is kept, as the blocks are.     *)
RewoundInPlace(a) == [a EXCEPT !.baseSize = 0, !.extraSize = 0]

Rewound(a) == [a EXCEPT !.baseSize = 0, !.extraSize = 0, !.ptr = NoPtr, !.avail = 0]

Reset ==
  /\ resets < MaxResets
  /\ resets' = resets + 1
  /\ SetTo(Rewound(arena))
  /\ size' = 0 /\ pushed' = << >>
  /\ UNCHANGED pushes

Clear ==
  /\ resets < MaxResets
  /\ resets' = resets + 1
  /\ SetTo(Emptied)
  /\ size' = 0 /\ pushed' = << >>
  /\ UNCHANGED pushes

KeysetNext == PushBackKey \/ PushBackThrows \/ Reset \/ Clear

KeysetSpec == KeysetInit /\ [][KeysetNext]_keysetVars

-----------------------------------------------------------------------------
(* The keys pushed since the last reset read back: each record has its     *)
(* length, points into a block that is still there, and the labels there   *)
(* are those of the key and of no key pushed later, whatever was allocated,*)
(* reused or failed to be allocated in between.                            *)
KeysReadBack ==
  \A n \in 1 .. size :
    LET r == records[n]
    IN /\ r.length = pushed[n].length
       /\ \A k \in r.at.offset + 1 .. r.at.offset + r.length :
            /\ r.at.block \in DOMAIN heap
            /\ k \in DOMAIN heap[r.at.block]
            /\ heap[r.at.block][k] = pushed[n].key
=============================================================================
