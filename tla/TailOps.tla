------------------------------ MODULE TailOps -------------------------------
(***************************************************************************)
(* grimoire::trie::Tail: the labels of the links of the last trie, stored  *)
(* one after the other, a string that is the end of another inside it.  In *)
(* text mode a terminator closes a string, in binary mode a flag on its    *)
(* last label.                                                             *)
(***************************************************************************)
EXTENDS BitOps

TERMINAL == -1

(* Lexicographic order, a prefix first: compare of sort.h.                 *)
Before(s, t) ==
  \/ IsStrictPrefix(s, t)
  \/ \E i \in 1 .. Len(s) :
       /\ i <= Len(t) /\ s[i] < t[i]
       /\ SubSeq(s, 1, i - 1) = SubSeq(t, 1, i - 1)

(* A slip: a string that is a suffix of another is looked for at its start.*)
SharedAtStart(readings, t, i) == t.offsets[t.last]

(* An entry that is a suffix of the one before it shares its labels.       *)
SharedOffset(readings, t, i) ==
  t.offsets[t.last] + Len(readings[t.last]) - Len(readings[i])

(* An Entry is read from its last label to its first; readings[i] is how   *)
(* the i-th one reads.                                                     *)
AddEntry(readings, text, t, i) ==
  LET current == readings[i]
  IN  IF t.last # 0 /\ IsPrefix(current, readings[t.last])
      THEN [t EXCEPT !.offsets[i] = SharedOffset(readings, t, i), !.last = i]
      ELSE [t EXCEPT !.buf = @ \o Reverse(current) \o (IF text THEN <<TERMINAL>> ELSE << >>),
                     !.ends = IF text THEN @ ELSE @ \o [j \in DOMAIN current |-> j = Len(current)],
                     !.offsets[i] = Len(t.buf),
                     !.last = i]

(* A label that is the terminator rules text mode out.                     *)
TailText(readings, text) ==
  text /\ \A i \in DOMAIN readings : ~ Contains(readings[i], TERMINAL)

(* build_: from the last entry in order to the first.                      *)
BuildTail(readings, text) ==
  LET order == SortSeq([i \in DOMAIN readings |-> i], LAMBDA i, j : Before(readings[i], readings[j]))
  IN  FoldLeft(LAMBDA t, i : AddEntry(readings, TailText(readings, text), t, i),
               [buf |-> << >>, ends |-> << >>, offsets |-> [i \in DOMAIN readings |-> 0], last |-> 0],
               Reverse(order))

EmptyTail == [buf |-> << >>, ends |-> << >>]

(* The labels stored from an offset to the end of a string: restore.       *)
TailRestore(tail, offset) ==
  LET ends(i) == IF tail.ends = << >> THEN At(tail.buf, i + 1) = TERMINAL ELSE At(tail.ends, i)
      last == CHOOSE i \in offset .. Len(tail.buf) - 1 :
                ends(i) /\ \A j \in offset .. i - 1 : ~ ends(j)
  IN  SubSeq(tail.buf, offset + 1, last + 1)

(* How many labels of s, from its start, the query goes on with at pos.    *)
Agreeing(s, query, pos) ==
  Len(LongestCommonPrefix({s, SubSeq(query, pos + 1, Len(query))}))

(* match: all of the string must be in the query.                          *)
TailMatch(tail, query, pos, offset) ==
  LET s == TailRestore(tail, offset)
      n == Agreeing(s, query, pos)
  IN  [ok |-> n = Len(s), pos |-> pos + n]

(* prefix_match: the query may end inside the string; what follows is      *)
(* restored.                                                               *)
TailPrefixMatch(tail, query, pos, offset) ==
  LET s  == TailRestore(tail, offset)
      n  == Agreeing(s, query, pos)
      ok == n = Len(s) \/ pos + n = Len(query)
  IN  [ok |-> ok, pos |-> pos + n, buf |-> IF ok THEN s ELSE SubSeq(s, 1, n)]
=============================================================================
