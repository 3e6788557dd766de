------------------------------ MODULE TrieFile ------------------------------
(***************************************************************************)
(* Tries in files (trie.cc, louds-trie.cc, the io directory): a trie is    *)
(* written item by item, the tries nested in it between its own parts, and *)
(* read back by the same walk, which finds out from what it has read       *)
(* whether another trie follows.  save and load take a file from its start;*)
(* write and read take an open stream, where tries stand one behind the    *)
(* other.  A write may fail, and the process may die, between two items.   *)
(*                                                                         *)
(* An item is a number and does not say what it is, as bytes do not.  The  *)
(* data of a vector are one item, 0 when it is empty; padding is left out. *)
(***************************************************************************)
EXTENDS Integers, Sequences

CONSTANTS
  Tries,     (* the tries there are to build                               *)
  Burst,     (* bound: items written before a failure is looked at again   *)
  MaxWrites, (* bound: tries whose writing is begun                        *)
  MaxCrashes (* bound: deaths of the process                               *)

(* What write_ of each class writes, in order: units, size, num_1s, ranks, *)
(* select0s and select1s of a BitVector; units, value size, mask and size  *)
(* of a FlatVector.                                                        *)
BitVectorSlots == <<"vector", "number", "number", "vector", "vector", "vector">>

FlatVectorSlots == <<"vector", "number", "number", "number">>

TailSlots == <<"vector">> \o BitVectorSlots

(* LoudsTrie::write_ before and after it writes the next trie: louds,      *)
(* terminal_flags, link_flags, bases, extras, link_extras, tail; cache,    *)
(* num_l1_nodes, config flags.                                             *)
ForeSlots ==
  BitVectorSlots \o BitVectorSlots \o BitVectorSlots \o <<"vector">>
    \o FlatVectorSlots \o FlatVectorSlots \o TailSlots

AftSlots == <<"vector", "number", "number">>

LinkOnes == 15  (* link_flags_.num_1s() and                                *)
TailBuf == 28   (* tail_.buf_, in ForeSlots                                *)

-----------------------------------------------------------------------------
(* A trie is the sequence of its levels, a level the values of its slots.  *)
(* The builder leaves slots empty: the indexes it does not ask for, the    *)
(* terminals of an inner trie, the links' extras when there are none, the  *)
(* tail when the links lead to a trie.                                     *)
EmptySlots(first, linked, tail) ==
  (IF first THEN {11} ELSE {5} \cup 7 .. 12) \cup {17, 18}
    \cup (IF linked THEN {} ELSE {LinkOnes} \cup 24 .. 27)
    \cup (CASE tail = "none" -> TailBuf .. 34 [] tail = "text" -> 29 .. 34 [] tail = "binary" -> 32 .. 34)

Level(name, first, linked, tail) ==
  [fore |-> [s \in DOMAIN ForeSlots |-> IF s \in EmptySlots(first, linked, tail) THEN 0 ELSE 100 * name + s],
   aft |-> [s \in DOMAIN AftSlots |-> 100 * name + 50 + s]]

(* The levels of a trie, the last of which ends without links or in a tail.*)
TrieOf(names, tail) ==
  [d \in DOMAIN names |->
     IF d < Len(names) THEN Level(names[d], d = 1, TRUE, "none")
     ELSE Level(names[d], d = 1, tail # "none", tail)]

Levels == [fore : [DOMAIN ForeSlots -> Nat], aft : [DOMAIN AftSlots -> Nat]]

(* build_current_trie and build_next_trie: before the last level, links    *)
(* lead to a trie and not to a tail; in the last there are none, or they   *)
(* lead to a tail, which is then not empty.                                *)
ASSUME FileAssumption ==
  /\ Burst \in Nat \ {0} /\ MaxWrites \in Nat /\ MaxCrashes \in Nat
  /\ \A t \in Tries :
       /\ t \in Seq(Levels) /\ t # << >>
       /\ \A d \in DOMAIN t : (t[d].fore[LinkOnes] # 0 /\ t[d].fore[TailBuf] = 0) <=> d < Len(t)

NoTrie == << >>

HeaderItem == 1
ForeignItem == 2

(* Vector::write_ and Writer::write.                                       *)
SlotItems(slot, value) ==
  IF slot = "number" THEN <<value>> ELSE IF value = 0 THEN <<0>> ELSE <<1, value>>

Items(slots, values) ==
  LET upTo[n \in 0 .. Len(slots)] == IF n = 0 THEN << >> ELSE upTo[n - 1] \o SlotItems(slots[n], values[n])
  IN  upTo[Len(slots)]

(* LoudsTrie::write_ from its level d on.                                  *)
TrieItems(levels) ==
  LET from[d \in 1 .. Len(levels) + 1] ==
        IF d > Len(levels) THEN << >>
        ELSE Items(ForeSlots, levels[d].fore) \o from[d + 1] \o Items(AftSlots, levels[d].aft)
  IN  from[1]

-----------------------------------------------------------------------------
(* A reading: what was read, where it stands and whether it went well.     *)
Reading(pos, ok) == [values |-> << >>, pos |-> pos, ok |-> ok]

(* Vector::read_, map_, and read of a number, past the end an IO error.    *)
ReadSlot(r, file, slot) ==
  LET full == slot = "vector" /\ r.pos <= Len(file) /\ file[r.pos] # 0
      at == IF full THEN r.pos + 1 ELSE r.pos
  IN IF r.ok /\ at <= Len(file)
     THEN [values |-> Append(r.values, file[at]), pos |-> at + 1, ok |-> TRUE]
     ELSE [values |-> r.values, pos |-> r.pos, ok |-> FALSE]

ReadSlots(file, slots, pos, ok) ==
  LET upTo[n \in 0 .. Len(slots)] == IF n = 0 THEN Reading(pos, ok) ELSE ReadSlot(upTo[n - 1], file, slots[n])
  IN  upTo[Len(slots)]

(* A slip: an empty tail alone says that another trie follows.             *)
NextFollowsEmptyTail(values) == values[TailBuf] = 0

NextFollows(values) == values[LinkOnes] # 0 /\ values[TailBuf] = 0

(* LoudsTrie::read_, map_ at a position.                                   *)
ReadLevels(file, pos) ==
  LET from[p \in 1 .. Len(file) + 1] ==
        LET fore == ReadSlots(file, ForeSlots, p, TRUE)
            next == IF fore.ok /\ NextFollows(fore.values) THEN from[fore.pos]
                    ELSE [levels |-> << >>, pos |-> fore.pos, ok |-> fore.ok]
            aft == ReadSlots(file, AftSlots, next.pos, next.ok)
        IN  [levels |-> <<[fore |-> fore.values, aft |-> aft.values]>> \o next.levels,
             pos |-> aft.pos, ok |-> aft.ok]
  IN  from[pos]

(* LoudsTrie::read, map: the header first.                                 *)
ReadTrie(file, pos) ==
  IF pos <= Len(file) /\ file[pos] = HeaderItem THEN ReadLevels(file, pos + 1)
  ELSE [levels |-> NoTrie, pos |-> pos, ok |-> FALSE]

-----------------------------------------------------------------------------
VARIABLES
  trie,     (* Trie::trie_                                                 *)
  file,     (* what the file holds                                         *)
  toWrite,  (* the items still to be written of the save under way         *)
  cursor,   (* where the open stream is read                               *)
  whole,    (* the tries that were written to the end, in their order      *)
  torn,     (* what follows them in the file is not a whole trie           *)
  taken,    (* how many of them the stream has given back                  *)
  last,     (* the call that returned last, and whether it threw           *)
  writes,
  crashes

fileVars == <<trie, file, toWrite, cursor, whole, torn, taken, last, writes, crashes>>

Called(call, ok) == [call |-> call, ok |-> ok]

FileInit ==
  /\ trie = NoTrie /\ toWrite = << >> /\ cursor = 1 /\ taken = 0 /\ writes = 0 /\ crashes = 0
  /\ file \in {<< >>, <<ForeignItem>>} /\ torn = (file # << >>) /\ whole = << >>
  /\ last = Called("none", TRUE)

Idle == toWrite = << >>

(* Trie::build swaps a new trie in.                                        *)
BuildTrie ==
  /\ Idle /\ trie' \in Tries /\ last' = Called("build", TRUE)
  /\ UNCHANGED <<file, toWrite, cursor, whole, torn, taken, writes, crashes>>

Begin ==
  /\ Idle /\ writes < MaxWrites /\ writes' = writes + 1
  /\ trie # NoTrie
  /\ toWrite' = <<HeaderItem>> \o TrieItems(trie)
  /\ torn' = TRUE /\ last' = Called("save", FALSE)
  /\ UNCHANGED <<trie, crashes>>

(* Trie::save opens the file with "wb", which truncates it.                *)
Save ==
  /\ Begin
  /\ file' = << >> /\ cursor' = 1 /\ whole' = << >> /\ taken' = 0

(* Trie::write appends to a stream; what a failed write left there nobody  *)
(* writes behind.                                                          *)
WriteStream == Begin /\ ~torn /\ UNCHANGED <<file, cursor, whole, taken>>

(* Writer::write_data, each item flushed.                                  *)
WriteItems ==
  /\ ~Idle
  /\ file' = file \o SubSeq(toWrite, 1, IF Len(toWrite) < Burst THEN Len(toWrite) ELSE Burst)
  /\ toWrite' = SubSeq(toWrite, Burst + 1, Len(toWrite))
  /\ IF toWrite' = << >>
     THEN whole' = Append(whole, trie) /\ torn' = FALSE /\ last' = Called("save", TRUE)
     ELSE UNCHANGED <<whole, torn, last>>
  /\ UNCHANGED <<trie, cursor, taken, writes, crashes>>

(* Writer::write_data throws MARISA_IO_ERROR.                              *)
WriteFails ==
  /\ ~Idle
  /\ toWrite' = << >>
  /\ UNCHANGED <<trie, file, cursor, whole, torn, taken, last, writes, crashes>>

Crash ==
  /\ crashes < MaxCrashes /\ crashes' = crashes + 1
  /\ trie' = NoTrie /\ toWrite' = << >> /\ cursor' = 1 /\ taken' = 0
  /\ last' = Called("none", TRUE)
  /\ UNCHANGED <<file, whole, torn, writes>>

(* A slip: the trie is read where it is, not into a temporary.             *)
SwappedInPlace(reading, old) == reading.levels

(* A failed reading throws before the temporary is swapped in.             *)
Swapped(reading, old) == IF reading.ok THEN reading.levels ELSE old

(* Trie::load and, as far as the file stays as it is, Trie::mmap.          *)
Load ==
  /\ Idle
  /\ LET reading == ReadTrie(file, 1)
     IN trie' = Swapped(reading, trie) /\ last' = Called("load", reading.ok)
  /\ UNCHANGED <<file, toWrite, cursor, whole, torn, taken, writes, crashes>>

(* Trie::read.  Where a failed reading leaves the stream nobody reads on.  *)
ReadStream ==
  /\ Idle
  /\ LET reading == ReadTrie(file, cursor)
     IN /\ trie' = Swapped(reading, trie) /\ last' = Called("read", reading.ok)
        /\ IF reading.ok THEN cursor' = reading.pos /\ taken' = taken + 1 ELSE UNCHANGED <<cursor, taken>>
  /\ UNCHANGED <<file, toWrite, whole, torn, writes, crashes>>

FileNext ==
  BuildTrie \/ Save \/ WriteStream \/ WriteItems \/ WriteFails \/ Crash \/ Load \/ ReadStream

FileSpec == FileInit /\ [][FileNext]_fileVars

-----------------------------------------------------------------------------
(* A load gives the first trie that was written to its end, and throws if  *)
(* there is none; each read of a stream gives the next.  A trie that was   *)
(* not written to its end, by a full disk or a crash, is never taken for   *)
(* one, and a reading stops exactly where the next trie begins.            *)
ReadsWhatWasWritten ==
  /\ last.call = "load" => /\ last.ok <=> whole # << >>
                           /\ last.ok => trie = whole[1]
  /\ last = Called("read", TRUE) => taken <= Len(whole) /\ trie = whole[taken]
  /\ last = Called("read", FALSE) => taken = Len(whole)

(* A call that throws leaves the trie in use as it was.                    *)
FailureKeepsTrie == [][~last'.ok => trie' = trie]_fileVars
=============================================================================
