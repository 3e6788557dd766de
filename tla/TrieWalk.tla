------------------------------ MODULE TrieWalk ------------------------------
(***************************************************************************)
(* A GPU beam and a CPU agent that walk one trie side by side, token after *)
(* token: every path that a search can decode is one behaviour.  What they *)
(* find on the way must be the keys, all of them, and the same for both.   *)
(***************************************************************************)
EXTENDS BeamExtend, FiniteSets

CONSTANTS
  Label,       (* the labels proposed                                        *)
  KeySets,     (* the sets of keys of which a trie is built                  *)
  MaxDepth     (* bound: the number of tokens decoded                        *)

ASSUME WalkAssumption ==
  /\ MaxDepth \in Nat
  /\ \A keys \in KeySets : keys # {} /\ \A key \in keys : key \in Seq(Label) /\ key # << >>

VARIABLES
  keys,        (* the keys in the trie                                       *)
  path,        (* the tokens decoded                                         *)
  gpu,         (* the GPU beam, while one is alive                           *)
  cpu,         (* the CPU agent, while one is alive                          *)
  gpuFound,    (* the last token completed a key that the GPU selects        *)
  cpuFound     (* the same for the CPU                                       *)

walkVars == <<keys, path, gpu, cpu, gpuFound, cpuFound>>

WalkInit ==
  /\ keys \in KeySets
  /\ path = << >>
  /\ gpu = {GpuRoot}
  /\ cpu = {CpuRoot}
  /\ gpuFound = FALSE
  /\ cpuFound = FALSE

Decode(k) ==
  /\ Len(path) < MaxDepth
  /\ path' = Append(path, k)
  /\ LET kids == UNION {GpuKids(keys, b, k) : b \in gpu}
     IN  /\ gpu' = {b \in kids : GpuGoesOn(b)}
         /\ gpuFound' = (\E b \in kids : GpuSelects(keys, b))
  /\ LET kids == UNION {{a} \X CpuKids(keys, a, k) : a \in cpu}
     IN  /\ cpu' = {ac[2] : ac \in {pair \in kids : CpuGoesOn(keys, pair[1], pair[2])}}
         /\ cpuFound' = (\E pair \in kids : CpuSelects(keys, pair[1], pair[2]))
  /\ UNCHANGED keys

WalkNext == \E k \in Label : Decode(k)

WalkSpec == WalkInit /\ [][WalkNext]_walkVars

-----------------------------------------------------------------------------
(* Bookkeeping of the two searches: a token finds one child at most; the   *)
(* GPU beam stands as far before its node as there is link left; the agent *)
(* has looked up all of its query unless it is inside a link, so that each *)
(* child lookup is for the token just proposed.                            *)
TypeOK ==
  /\ path \in Seq(Label)
  /\ Cardinality(gpu) <= 1 /\ Cardinality(cpu) <= 1
  /\ \A b \in gpu : b.path = path /\ b.path \o b.rest = b.node
  /\ \A a \in cpu : a.query = path /\ (CpuLinkParent(keys, a) \/ a.pos = Len(path))

(* On the way lies a link from which keys go on: its end is an inner node. *)
OnInnerLink ==
  \E p \in Prefixes(path) :
    /\ Below(keys, p) # {}
    /\ LET n == Opened(keys, p)
       IN  n # << >> /\ Opened(keys, Front(n)) = n /\ Below(keys, n) # {n}

(* Whatever the trie, the GPU search decodes nothing but prefixes of keys  *)
(* and selects nothing but keys.                                           *)
GpuStaysOnKeys ==
  /\ gpuFound => path \in keys
  /\ gpu # {} => Below(keys, path) # {}

(* As long as links end in leaves, the GPU search selects every key ...    *)
KeysFound == path \in keys /\ ~OnInnerLink => gpuFound

(* ... no search gives up a path below which there still are keys ...      *)
PrefixesKept ==
  (\E key \in keys : IsStrictPrefix(path, key)) /\ ~OnInnerLink => gpu # {} /\ cpu # {}

(* ... and the CPU and the GPU search select the same.                     *)
SearchesAgree == cpuFound # gpuFound => OnInnerLink

(* The CPU search, too, selects nothing but keys.                          *)
CpuOnlyKeys == cpuFound => path \in keys
=============================================================================
