----------------------------- MODULE Dictionary -----------------------------
(***************************************************************************)
(* What a trie promises to the user of an Agent, free of how it is stored: *)
(* the strings offered at the build get the ids 0 .. n-1; a lookup finds   *)
(* the id of a string and a reverse lookup the string of an id; a common   *)
(* prefix search answers the keys the query begins with, shorter ones      *)
(* first; a predictive search answers the keys that begin with the query,  *)
(* each once, a key before the keys that go on from it.  The two searches  *)
(* answer one key per call and begin anew when another search or another   *)
(* query came in between.                                                  *)
(***************************************************************************)
EXTENDS Integers, SequencesExt, FiniteSets

CONSTANTS Queries, QueryIds

VARIABLES
  offered,     (* the strings given to the build                             *)
  dict,        (* id of each key                                             *)
  query,       (* [str, id]                                                  *)
  mode,        (* the search in progress: all, cps, ps, or cps_end, ps_end   *)
  given,       (* the keys it has answered                                   *)
  answer,      (* [str, id]                                                  *)
  found

vars == <<offered, dict, query, mode, given, answer, found>>

Keys == DOMAIN dict
Entry(k) == [str |-> k, id |-> dict[k]]

Init ==
  /\ dict = << >> /\ query = [str |-> << >>, id |-> 0]
  /\ mode = "all" /\ given = {} /\ answer = [str |-> << >>, id |-> 0] /\ found = FALSE

Build ==
  /\ dict = << >>
  /\ DOMAIN dict' = offered
  /\ {dict'[k] : k \in offered} = 0 .. Cardinality(offered) - 1
  /\ UNCHANGED <<offered, query, mode, given, answer, found>>

SetQuery ==
  /\ query' \in {[query EXCEPT !.str = q] : q \in Queries}
                  \cup {[query EXCEPT !.id = i] : i \in QueryIds}
  /\ mode' = "all" /\ given' = {}
  /\ UNCHANGED <<offered, dict, answer, found>>

(* One more key is answered, or there is none left.                        *)
Answer(k, m) ==
  /\ found' = TRUE /\ answer' = Entry(k) /\ mode' = m
  /\ UNCHANGED <<offered, dict, query>>

NoAnswer(m) ==
  /\ found' = FALSE /\ mode' = m
  /\ UNCHANGED <<offered, dict, query, answer>>

Lookup ==
  /\ IF query.str \in Keys THEN Answer(query.str, "all") ELSE NoAnswer("all")
  /\ given' = {}

ReverseLookup ==
  \/ /\ query.id \notin 0 .. Cardinality(Keys) - 1
     /\ NoAnswer(mode) /\ UNCHANGED given
  \/ /\ \E k \in Keys : dict[k] = query.id /\ Answer(k, "all")
     /\ given' = {}

(* A search goes on with what it has not answered yet.                     *)
Search(m, end, candidates, comesBefore(_, _)) ==
  LET before == IF mode = m THEN given ELSE {}
      left   == candidates \ before
  IN  IF mode = end \/ left = {}
      THEN NoAnswer(end) /\ given' = {}
      ELSE \E k \in left : /\ \A j \in left : ~ comesBefore(j, k)
                           /\ Answer(k, m) /\ given' = before \cup {k}

CommonPrefixSearch ==
  Search("cps", "cps_end", {k \in Keys : IsPrefix(k, query.str)}, IsStrictPrefix)

PredictiveSearch ==
  Search("ps", "ps_end", {k \in Keys : IsPrefix(query.str, k)}, IsStrictPrefix)

Use == SetQuery \/ Lookup \/ ReverseLookup \/ CommonPrefixSearch \/ PredictiveSearch

Next == Build \/ (Keys = offered /\ Use)

Spec == Init /\ [][Next]_vars
=============================================================================
