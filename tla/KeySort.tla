------------------------------ MODULE KeySort -------------------------------
(***************************************************************************)
(* algorithm/sort.h: the sort of keys and entries before a trie or a tail  *)
(* is built of them, and the count of distinct ones by which the cache is  *)
(* dimensioned.  A multikey quicksort parts a stretch of keys by their     *)
(* label at one depth into less, equal and greater; the equal part is      *)
(* sorted by the next label; a short stretch is left to an insertion sort. *)
(* Positions count from 0.  stack is the stack of recursive calls with the *)
(* l, r and depth that each has come to.                                   *)
(***************************************************************************)
EXTENDS Integers, Sequences, FiniteSets, Functions

CONSTANTS
  Strings,   (* the strings to sort, in sequences                          *)
  MaxSorted, (* bound: their number                                        *)
  MaxInt,    (* the largest int                                            *)
  Threshold  (* MARISA_INSERTION_SORT_THRESHOLD                            *)

(* The labels that an int holds: a larger one is read as negative, and the *)
(* largest of all as the mark of the end.                                  *)
Labels == 0 .. MaxInt

ASSUME KeySortAssumption ==
  /\ Strings \subseteq Seq(Labels)
  /\ MaxSorted \in Nat /\ MaxInt \in Nat
  /\ Threshold \in Nat \ {0}

VARIABLES
  unsorted,  (* the keys as they came                                      *)
  order,     (* the keys as they are now                                   *)
  stack,     (* the calls, the innermost first                             *)
  scan,      (* pl, pr, pivot_l, pivot_r, pivot of the pass under way      *)
  count      (* what the calls that are over have counted                  *)

sortVars == <<unsorted, order, stack, scan, count>>

EndMark == -1
NoScan == << >>
Frame(l, r, depth) == [l |-> l, r |-> r, depth |-> depth]

KeySortInit ==
  /\ \E n \in 0 .. MaxSorted : unsorted \in [1 .. n -> Strings]
  /\ order = unsorted
  /\ stack = <<Frame(0, Len(unsorted), 0)>>
  /\ scan = NoScan /\ count = 0

(* get_label.                                                              *)
Label(s, depth) == IF depth < Len(s) THEN s[depth + 1] ELSE EndMark

(* compare: by the labels at the first depth at which they differ.         *)
Less(s, t, depth) ==
  \E d \in depth .. Len(s) :
    /\ \A e \in depth .. d - 1 : Label(s, e) = Label(t, e)
    /\ Label(s, d) < Label(t, d)

Exchanged(keys, i, j) == [keys EXCEPT ![i + 1] = keys[j + 1], ![j + 1] = keys[i + 1]]

Median(x, y, z) == CHOOSE m \in {x, y, z} : \E a, b \in {x, y, z} :
                     a <= m /\ m <= b /\ {a, m, b} = {x, y, z}

(* The keys from l up to r.                                                *)
Stretch(l, r) == l + 1 .. r

(* How often each string is there.                                         *)
BagOf(keys) == [s \in Range(keys) |-> Cardinality({i \in DOMAIN keys : keys[i] = s})]

Top == Head(stack)

Return == stack' = Tail(stack)

-----------------------------------------------------------------------------
(* What is left of a stretch, by insertion; a lone key was counted before. *)
InsertionSort ==
  /\ stack # << >> /\ scan = NoScan /\ Top.r - Top.l <= Threshold
  /\ LET stretch == Stretch(Top.l, Top.r)
     IN  /\ \E p \in Bijection(stretch, stretch) :
              order' = [i \in DOMAIN order |-> IF i \in stretch THEN order[p[i]] ELSE order[i]]
         /\ \A i, j \in stretch : i < j => ~ Less(order'[j], order'[i], Top.depth)
         /\ count' = IF Top.r - Top.l > 1 THEN count + Cardinality({order[i] : i \in stretch}) ELSE count
  /\ Return
  /\ UNCHANGED <<unsorted, scan>>

(* A pass of the quicksort: keys equal to the pivot gather at both ends.   *)
BeginPass ==
  /\ stack # << >> /\ scan = NoScan /\ Top.r - Top.l > Threshold
  /\ LET at(i) == Label(order[i + 1], Top.depth)
     IN  scan' = [ up |-> TRUE, pl |-> Top.l, pr |-> Top.r, left |-> Top.l, right |-> Top.r,
                   pivot |-> Median(at(Top.l), at(Top.l + (Top.r - Top.l) \div 2), at(Top.r - 1)) ]
  /\ UNCHANGED <<unsorted, order, stack, count>>

Scanning(up) == stack # << >> /\ scan # NoScan /\ scan.up = up /\ scan.pl < scan.pr

ScanUp ==
  /\ Scanning(TRUE)
  /\ LET label == Label(order[scan.pl + 1], Top.depth)
     IN  IF label > scan.pivot THEN scan' = [scan EXCEPT !.up = FALSE] /\ UNCHANGED order
         ELSE IF label = scan.pivot
              THEN /\ order' = Exchanged(order, scan.pl, scan.left)
                   /\ scan' = [scan EXCEPT !.left = @ + 1, !.pl = @ + 1]
              ELSE scan' = [scan EXCEPT !.pl = @ + 1] /\ UNCHANGED order
  /\ UNCHANGED <<unsorted, stack, count>>

(* A label below the pivot changes places with the one found on the way up.*)
ScanDown ==
  /\ Scanning(FALSE)
  /\ LET pr    == scan.pr - 1
         label == Label(order[pr + 1], Top.depth)
     IN  IF label < scan.pivot
         THEN /\ order' = Exchanged(order, scan.pl, pr)
              /\ scan' = [scan EXCEPT !.pr = pr, !.pl = @ + 1, !.up = TRUE]
         ELSE IF label = scan.pivot
              THEN /\ order' = Exchanged(order, pr, scan.right - 1)
                   /\ scan' = [scan EXCEPT !.pr = pr, !.right = @ - 1]
              ELSE scan' = [scan EXCEPT !.pr = pr] /\ UNCHANGED order
  /\ UNCHANGED <<unsorted, stack, count>>

(* A slip: the equal keys of the upper end are moved one place too far.    *)
GatheredBeyond ==
  LET left  == scan.left - Top.l
      right == Top.r - scan.right
      lower[k \in 0 .. left] == IF k = 0 THEN order ELSE Exchanged(lower[k - 1], scan.left - k, scan.pl - k)
      upper[k \in 0 .. right] ==
        IF k = 0 THEN lower[left]
        ELSE Exchanged(upper[k - 1], scan.right + k - 1,
                       IF scan.pr + k < Top.r THEN scan.pr + k ELSE Top.r - 1)
  IN  upper[right]

(* The equal keys of both ends, moved to the middle.                       *)
Gathered ==
  LET left  == scan.left - Top.l
      right == Top.r - scan.right
      lower[k \in 0 .. left] == IF k = 0 THEN order ELSE Exchanged(lower[k - 1], scan.left - k, scan.pl - k)
      upper[k \in 0 .. right] ==
        IF k = 0 THEN lower[left] ELSE Exchanged(upper[k - 1], scan.right + k - 1, scan.pr + k - 1)
  IN  upper[right]

(* Less, equal and greater in the order in which they are sorted: equal    *)
(* first and the longest last, or equal last when it is the longest.       *)
Parts(pl, pr) ==
  LET less    == Frame(Top.l, pl, Top.depth)
      equal   == Frame(pl, pr, Top.depth + 1)
      greater == Frame(pr, Top.r, Top.depth)
      size(f) == f.r - f.l
  IN  IF size(less) <= size(equal) /\ size(greater) <= size(equal) THEN <<less, greater, equal>>
      ELSE IF size(less) < size(greater) THEN <<equal, less, greater>>
      ELSE <<equal, greater, less>>

(* A part of two keys or more is sorted in turn, unless its keys have all  *)
(* ended and are one and the same; then, or when it is one key, it counts. *)
Open(part, ended) == part.r - part.l > 1 /\ ~ ended

Resumed(part, ended, calls) == IF Open(part, ended) THEN <<part>> \o calls ELSE calls

Counted(part, ended) == IF part.r > part.l /\ ~ Open(part, ended) THEN 1 ELSE 0

(* The end of a pass.                                                      *)
Split ==
  /\ stack # << >> /\ scan # NoScan /\ scan.pl >= scan.pr
  /\ LET pl == scan.pl - (scan.left - Top.l)
         pr == scan.pr + (Top.r - scan.right)
         parts == Parts(pl, pr)
         ended(f) == f.depth > Top.depth /\ scan.pivot = EndMark
     IN  /\ order' = Gathered
         /\ count' = count + Counted(parts[1], ended(parts[1])) + Counted(parts[2], ended(parts[2]))
                           + Counted(parts[3], ended(parts[3]))
         /\ stack' = Resumed(parts[1], ended(parts[1]), Resumed(parts[2], ended(parts[2]),
                       Resumed(parts[3], ended(parts[3]), Tail(stack))))
  /\ scan' = NoScan
  /\ UNCHANGED unsorted

SortStep == InsertionSort \/ BeginPass \/ ScanUp \/ ScanDown \/ Split

KeySortSpec == KeySortInit /\ [][SortStep]_sortVars

-----------------------------------------------------------------------------
(* Whatever the passes and the threshold, no key is lost or doubled on the *)
(* way, and in the end the keys are in order; of two keys or more the sort *)
(* returns how many are distinct (of one it returns none).                 *)
SortsKeys ==
  /\ BagOf(order) = BagOf(unsorted)
  /\ stack = << >> =>
       /\ \A i \in 1 .. Len(order) - 1 : ~ Less(order[i + 1], order[i], 0)
       /\ Len(order) > 1 => count = Cardinality(Range(order))
=============================================================================
