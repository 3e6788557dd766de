----------------------------- MODULE LoudsBuild -----------------------------
(***************************************************************************)
(* LoudsTrie::build: a keyset becomes a trie of up to numTries levels.     *)
(* Level 1 holds the keys; the strings of its links, read backwards, are   *)
(* the keys of level 2, and so on; the links of the last level lie in the  *)
(* tail.  A level is opened breadth first, one range of sorted keys after  *)
(* the other, and encoded as it is opened.  When all levels stand, each    *)
(* link is given the node of the next level, or the offset in the tail, at *)
(* which its string ends.                                                  *)
(***************************************************************************)
EXTENDS TailOps, FiniteSets

CONSTANTS
  Keysets,     (* what may be built: sequences of records [str, weight]      *)
  Configs,     (* flags: records [numTries, text, labelOrder]                *)
  BaseSize,    (* a label or link is split into low bits and an extra        *)
  CacheSize,   (* entries of the cache of the first level (256)              *)
  CacheLevel   (* keys per entry above which the cache grows                 *)

ASSUME BuildAssumption ==
  /\ BaseSize \in Nat \ {0, 1}
  /\ CacheSize \in Nat \ {0} /\ CacheLevel \in Nat \ {0}
  /\ \A c \in Configs : c.numTries \in 1 .. 127

VARIABLES
  phase,       (* what build does next                                       *)
  keyset, conf,
  keys,        (* the keys of the level being opened, sorted                 *)
  queue,       (* ranges of keys still to be opened                          *)
  nextKeys,    (* the strings of the links met so far                        *)
  terminals,   (* per level: the node of each of its keys; last: the offsets *)
  tries,       (* the levels                                                 *)
  tail,
  termFlags,   (* terminal_flags_ of level 1                                 *)
  ids          (* the id of each key of the keyset                           *)

buildVars == <<phase, keyset, conf, keys, queue, nextKeys, terminals, tries, tail, termFlags, ids>>

-----------------------------------------------------------------------------
(* get_cache_id without the mixing of the bits: which entry, by any hash.  *)
CacheId(level, size, parent, child, label) ==
  (IF level = 1 THEN parent + label ELSE child) % size

(* reserve_cache: doubled until it holds a share of the distinct keys.     *)
CacheReserved(level, numKeys) ==
  LET start   == IF level = 1 THEN CacheSize ELSE 1
      enough  == {n \in 0 .. numKeys : start * 2 ^ n >= numKeys \div CacheLevel}
  IN  start * 2 ^ (CHOOSE n \in enough : \A m \in enough : n <= m)

EmptyEntry == [parent |-> 0, child |-> 0, weight |-> 0]

(* cache<T>: the edge takes the entry when it is heavier than what is there.*)
Cached(cache, level, parent, child, weight, label) ==
  LET i == CacheId(level, Len(cache), parent, child, label) + 1
  IN  IF weight > cache[i].weight
      THEN [cache EXCEPT ![i] = [parent |-> parent, child |-> child, weight |-> weight]]
      ELSE cache

EmptyLevel(level, numKeys) ==
  [ louds |-> <<TRUE, FALSE>>, links |-> <<FALSE>>, bases |-> <<0>>, extras |-> <<0>>,
    linkExtras |-> << >>, numL1 |-> 0, numTries |-> 0, text |-> TRUE, labelOrder |-> FALSE,
    cache |-> [i \in 1 .. CacheReserved(level, numKeys) |-> EmptyEntry] ]

-----------------------------------------------------------------------------
(* Key and ReverseKey: a string, read forwards or backwards, and a union   *)
(* that is its weight until the node it ends at is known.                  *)
Key(str, weight) == [str |-> str, union |-> weight]

ReverseKey(key) == [key EXCEPT !.str = Reverse(@)]

KeyAt(i) == keys[i + 1]

WeightedRange(begin, end, pos, weight) == [begin |-> begin, end |-> end, pos |-> pos, weight |-> weight]

(* The ranges into which begin .. end - 1 falls by the label at pos.       *)
Ranges(begin, end, pos) ==
  LET starts   == {i \in begin .. end - 1 :
                     i = begin \/ KeyAt(i).str[pos + 1] # KeyAt(i - 1).str[pos + 1]}
      endOf(i) == CHOOSE j \in i + 1 .. end : (j \in starts \/ j = end)
                                              /\ \A m \in i + 1 .. j - 1 : m \notin starts
      weigh(i) == FoldLeft(LAMBDA w, k : w + k.union, 0, SubSeq(keys, i + 1, endOf(i)))
  IN  [i \in starts |-> WeightedRange(i, endOf(i), pos, weigh(i))]

(* A slip: heavier ranges first, whatever the order asked for.             *)
ChildRangesByWeight(begin, end, pos) ==
  LET ranges == Ranges(begin, end, pos)
  IN  SetToSortSeq({ranges[i] : i \in DOMAIN ranges},
                   LAMBDA r, s : IF r.weight = s.weight THEN r.begin < s.begin ELSE r.weight > s.weight)

(* Children in label order, or heavier ranges first (a stable sort).       *)
ChildRanges(begin, end, pos) ==
  LET ranges == Ranges(begin, end, pos)
  IN  SetToSortSeq({ranges[i] : i \in DOMAIN ranges},
                   LAMBDA r, s : IF conf.labelOrder \/ r.weight = s.weight
                                 THEN r.begin < s.begin ELSE r.weight > s.weight)

(* The child lies where the keys of its range part or the first one ends.  *)
ChildEnd(r) == Len(LongestCommonPrefix({KeyAt(i).str : i \in r.begin .. r.end - 1}))

(* One child of node: its label, or an empty place for its link.           *)
AddChild(level, node, t, r) ==
  LET label == KeyAt(r.begin).str[r.pos + 1]
      isLink == ChildEnd(r) # r.pos + 1
  IN  [t EXCEPT !.louds  = Append(@, TRUE),
                !.links  = Append(@, isLink),
                !.bases  = Append(@, IF isLink THEN 0 ELSE label % BaseSize),
                !.extras = Append(@, IF isLink THEN 0 ELSE label \div BaseSize),
                !.cache  = Cached(@, level, node, Len(t.bases), r.weight, label)]

LinkKey(r) == Key(SubSeq(KeyAt(r.begin).str, r.pos + 1, ChildEnd(r)), r.weight)

-----------------------------------------------------------------------------
InitBuild ==
  /\ phase = "sort"
  /\ keyset \in Keysets
  /\ conf \in Configs
  /\ keys = [i \in DOMAIN keyset |-> Key(keyset[i].str, keyset[i].weight)]
  /\ queue = << >> /\ nextKeys = << >> /\ terminals = << >> /\ tries = << >>
  /\ tail = EmptyTail /\ termFlags = << >> /\ ids = << >>

(* build_current_trie up to its loop: the keys get numbers, are sorted, and*)
(* the root is there to be opened.                                         *)
Sort ==
  /\ phase = "sort"
  /\ keys' = SortSeq([i \in DOMAIN keys |-> keys[i] @@ [id |-> i]],
                     LAMBDA k, m : Before(k.str, m.str))
  /\ tries' = Append(tries, EmptyLevel(Len(tries) + 1, Cardinality({keys[i].str : i \in DOMAIN keys})))
  /\ queue' = <<[begin |-> 0, end |-> Len(keys), pos |-> 0]>>
  /\ phase' = "open"
  /\ UNCHANGED <<keyset, conf, nextKeys, terminals, tail, termFlags, ids>>

(* One turn of the loop: the keys that end at this node, then its children.*)
OpenNode ==
  /\ phase = "open" /\ queue # << >>
  /\ LET level    == Len(tries)
         t        == tries[level]
         node     == Len(t.links) - Len(queue)
         r        == Head(queue)
         begin    == CHOOSE i \in r.begin .. r.end :
                       /\ \A j \in r.begin .. i - 1 : Len(KeyAt(j).str) = r.pos
                       /\ i < r.end => Len(KeyAt(i).str) # r.pos
         children == IF begin = r.end THEN << >> ELSE ChildRanges(begin, r.end, r.pos)
         opened   == FoldLeft(LAMBDA u, c : AddChild(level, node, u, c), t, children)
         isLink(c) == ChildEnd(c) # c.pos + 1
     IN  /\ keys' = [i \in DOMAIN keys |-> IF i - 1 \in r.begin .. begin - 1
                                           THEN [keys[i] EXCEPT !.union = node] ELSE keys[i]]
         /\ tries' = [tries EXCEPT ![level] =
                        [opened EXCEPT !.louds = Append(@, FALSE),
                                       !.numL1 = IF node = 0 /\ begin # r.end THEN Len(children) ELSE @]]
         /\ nextKeys' = nextKeys \o [i \in DOMAIN SelectSeq(children, isLink) |->
                                       LinkKey(SelectSeq(children, isLink)[i])]
         /\ queue' = Tail(queue) \o [i \in DOMAIN children |->
                                       [begin |-> children[i].begin, end |-> children[i].end,
                                        pos |-> ChildEnd(children[i])]]
  /\ UNCHANGED <<phase, keyset, conf, terminals, tail, termFlags, ids>>

(* The queue is empty: the nodes of the keys go to the level above, in the *)
(* order in which it passed the keys, and the strings of the links become  *)
(* the keys of the next level (or entries of the tail), read backwards.    *)
EndTrie ==
  /\ phase = "open" /\ queue = << >>
  /\ tries' = [tries EXCEPT ![Len(tries)].louds = Append(@, FALSE)]
  /\ terminals' = Append(terminals, [i \in DOMAIN keys |->
                                       (CHOOSE k \in ToSet(keys) : k.id = i).union])
  /\ keys' = [i \in DOMAIN nextKeys |->
                IF Len(tries) = 1 THEN ReverseKey(nextKeys[i]) ELSE nextKeys[i]]
  /\ nextKeys' = << >>
  /\ phase' = IF nextKeys = << >> THEN "link"
              ELSE IF Len(tries) = conf.numTries THEN "tail" ELSE "sort"
  /\ UNCHANGED <<keyset, conf, queue, tail, termFlags, ids>>

(* The links of the last level go to the tail.                             *)
EndInTail ==
  /\ phase = "tail"
  /\ LET built == BuildTail([i \in DOMAIN keys |-> keys[i].str], conf.text)
     IN  /\ tail' = [buf |-> built.buf, ends |-> built.ends]
         /\ terminals' = Append(terminals, built.offsets)
  /\ phase' = "link"
  /\ UNCHANGED <<keyset, conf, keys, queue, nextKeys, tries, termFlags, ids>>

(* fill_cache: an entry names an edge and what the child stands for.       *)
Filled(entry, t) ==
  IF entry.child = 0
  THEN [parent |-> -1, child |-> -1]
  ELSE [parent |-> entry.parent, child |-> entry.child,
        base   |-> At(t.bases, entry.child), isLink |-> At(t.links, entry.child),
        extra  |-> IF At(t.links, entry.child)
                   THEN At(t.linkExtras, Rank1(t.links, entry.child))
                   ELSE At(t.extras, entry.child)]

(* A slip: what is left of a link is not shifted down.                     *)
LinkExtraUnshifted(link) == link

LinkExtra(link) == link \div BaseSize

(* A slip: the cache is filled before the links are written.               *)
LinkedLate(t, next) ==
  LET linked == [t EXCEPT
        !.bases = [i \in DOMAIN t.bases |->
                     IF t.links[i] THEN At(next, Rank1(t.links, i - 1)) % BaseSize ELSE t.bases[i]],
        !.linkExtras = [i \in DOMAIN next |-> LinkExtra(next[i])]]
  IN  [linked EXCEPT !.cache = [i \in DOMAIN t.cache |-> Filled(t.cache[i], [linked EXCEPT !.bases = t.bases])]]

(* The i-th link of a level is the i-th string it passed on.               *)
Linked(t, next) ==
  LET linked == [t EXCEPT
        !.bases = [i \in DOMAIN t.bases |->
                     IF t.links[i] THEN At(next, Rank1(t.links, i - 1)) % BaseSize ELSE t.bases[i]],
        !.linkExtras = [i \in DOMAIN next |-> LinkExtra(next[i])]]
  IN  [linked EXCEPT !.cache = [i \in DOMAIN t.cache |-> Filled(t.cache[i], linked)]]

(* The rest of build_trie, from the last level back to the first.          *)
LinkTrie ==
  /\ phase = "link" /\ \E n \in DOMAIN tries : tries[n].numTries = 0
  /\ LET level == CHOOSE n \in DOMAIN tries : tries[n].numTries = 0
                                            /\ \A m \in n + 1 .. Len(tries) : tries[m].numTries # 0
         last  == level = Len(tries)
         next  == IF level < Len(terminals) THEN terminals[level + 1] ELSE << >>
     IN  tries' = [tries EXCEPT ![level] =
           [Linked(@, next) EXCEPT
              !.numTries   = IF last THEN 1 ELSE tries[level + 1].numTries + 1,
              !.text       = IF last THEN tail.ends = << >> ELSE tries[level + 1].text,
              !.labelOrder = IF last THEN conf.labelOrder ELSE tries[level + 1].labelOrder]]
  /\ UNCHANGED <<phase, keyset, conf, keys, queue, nextKeys, terminals, tail, termFlags, ids>>

(* The rest of build_: terminal_flags_, and the id of each key.            *)
SetIds ==
  /\ phase = "link" /\ \A n \in DOMAIN tries : tries[n].numTries # 0
  /\ LET flags == [i \in 1 .. Len(tries[1].bases) + 1 |-> Contains(terminals[1], i - 1)]
     IN  /\ termFlags' = flags
         /\ ids' = [i \in DOMAIN keyset |-> Rank1(flags, terminals[1][i])]
  /\ phase' = "built"
  /\ UNCHANGED <<keyset, conf, keys, queue, nextKeys, terminals, tries, tail>>

NextBuild == Sort \/ OpenNode \/ EndTrie \/ EndInTail \/ LinkTrie \/ SetIds
=============================================================================
