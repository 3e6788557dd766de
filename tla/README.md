# Formal models of FlashTrie

FlashTrie extends the `marisa` trie library with *constrained beam search*: a
language model proposes, for each output position, the best `num_topk` tokens
with their log probabilities; the search keeps the best prefixes that the trie
contains, gathers the complete keys it meets and returns the best of them.  The
search runs on the CPU (`louds-trie.cc`) or in one persistent cooperative CUDA
kernel (`tbs-kernels.cu`).  This directory holds TLA+ models of the code under
`src/`, TLC configurations that check them on small instances, and TLAPS proofs
of theorems that hold for every value of the constants.

`PROJECT.json` ties every definition to the source lines it models, lists the
runs, the mutants (a plausible slip in the code that each property must detect),
the findings and the hazards.

## 1. Inventory

| component | state | operations | how it meets the others |
|---|---|---|---|
| beam search kernel (`tbs-kernels.cu:140-598`) | each thread's position and loop counter; the thread's own `cur_`/`next_` pointers; in device memory the output buffer | one pass per output position: exit test, `process_outpos`, `next_.trim`, `next_.save`, recycling of `cur_`, proactive trim of `selected_`, swap; then the final trim and `generate_result` | every thread runs the loop for itself; blocks share the containers, `beams_` and its counter and meet only at `cg::sync(grid)` |
| GPU candidate container (`candidates-gpu.h`, `beam-state.h`) | `cand_`, `sort_state_`, `topk_cand_`, histogram, `size_`, `capacity_` | `push`, `clear`, `set_capacity`, `at`, `trim` (comparison sort or radix selection), `save` | called by all threads of the kernel at once; a trim holds grid barriers on some of its paths |
| GPU driver and workspace (`tbs-kernels.cu:600-832`, `beam-search-state.h`) | streams, pinned and device buffers, containers per batch entry | `init_tbs_gpu`, `tbs_gpu`, `tbs_gpu_batched` | called by `Trie`; launches the kernel; one workspace per batch entry is reused by every request |
| CPU beam search (`louds-trie.cc:44-210`, `candidates.h`) | two bounded priority queues and the selected queue | `tbs`, `tbs_lookup_` | reads the LOUDS trie; promises what the kernel promises |
| LOUDS trie, construction (`louds-trie.cc`, `key.h`, `entry.h`, `range.h`, `cache.h`) | bit vectors, bases, extras, tail, next trie, cache | `build_`, `build_trie`, `build_current_trie`, `build_next_trie`, `fill_cache` | sorts the keys, builds a trie of the links recursively |
| LOUDS trie, queries (`louds-trie.cc`, `state.h`, `history.h`, `agent.cc`) | the state an `Agent` carries between calls | `lookup`, `reverse_lookup`, `common_prefix_search`, `predictive_search` | one trie is shared read-only; an agent belongs to one caller |
| tail (`tail.cc`) | buffer and end flags | `build`, `restore`, `match`, `prefix_match`, `next_token` | the deepest trie keeps its suffixes there |
| bit vector (`bit-vector.cc`) | units, ranks, select samples | `push_back`, `build`, `rank1`, `select0`, `select1` | the shape of the trie |
| flat vector (`flat-vector.h`) | packed units, value size, mask | `build`, `operator[]` | links and offsets |
| vector (`vector.h`, `cuda_allocator.h`) | owned or borrowed buffer, size, capacity, fixed flag | growth, `map`, `read`, `write`, `fix` | under every other container |
| keyset (`keyset.cc`) | blocks of keys and of bytes, position in them | `push_back`, `reset`, `clear` | input of a build, output of a search |
| persistence (`trie.cc`, `writer.cc`, `reader.cc`, `mapper.cc`, `header.h`) | the file, a position in it | `save`, `load`, `mmap`, `write`, `read` | loads into a temporary and swaps |
| sorting of keys (`sort.h`) | an array of keys | multikey quicksort, insertion sort | construction |
| configuration and errors (`config.h`, `base.h`, `exception.h`) | tables of flags | parsing | everywhere |
| tools, bindings, examples | none of their own | argument and file handling | around the library |

What makes each of them correct, and what is hard about it:

* **Kernel.**  All blocks take every decision that leads to or past a grid
  barrier alike; no block changes a container while another still reads it;
  parents are found by number although beams are renumbered, trimmed and
  overwritten; the answer is the best complete keys, best last; the kernel ends.
  Hard: blocks run freely between barriers and read sizes that others change;
  the workspace is what the last request left.
* **Container.**  A trim leaves exactly the best `capacity_` beams in front, in
  order, none lost and none doubled, within `buffer_size_`.  Hard: the sort is
  spread over blocks that overwrite each other's halves between barriers; sort
  entries name slots that a sort itself rewrites.
* **Driver.**  Every request whose launch went well holds its own answer, in the
  trie of today; the grids of a batch fit on the device together; every call
  returns.  Hard: asynchronous streams, failures that are printed only, the
  division of the resident blocks over a batch, workspaces that outlive a trie.
* **CPU search.**  Same answer as the abstract search.  Hard: links of several
  tokens, early exit in the middle of a parent, bounded queues.
* **LOUDS construction and queries.**  Every key is found, no other; ids are a
  bijection; next-trie links line up with the terminals they were built from; an
  agent's state resumes the search that left it.  Hard: two orders that must
  agree, the cache, resumable searches.
* **Bit vector, flat vector, tail, keyset, vector.**  Same value as the plain
  definition.  Hard: boundaries of units and blocks, sampled positions, reuse.
* **Persistence.**  What is loaded is what was saved; a failed load leaves the old
  trie; a torn file is never taken for a trie.  Hard: an interrupted save.
* **Sorting.**  A permutation in order, and the count of distinct keys by which the
  cache is dimensioned.  Hard: equal keys gathered at both ends of a stretch.

Per line the hazards are listed in `PROJECT.json` under `hazards`, each with the
properties that catch it or a note why none does.

## 2. Modules

| module | role |
|---|---|
| **GPU search** | |
| `BeamSearch` | abstract specification of one constrained search: frontier, selected keys, one answer |
| `CandidateOps` | the GPU container as a value with the operators `Pushed`, `Cleared`, `WithCapacity`, `Sorted`, `Shrunk`, ... |
| `BeamKernel` | `beam_search_kernel`: one process per thread block, barriers, pushes one at a time; refinement mapping to `BeamSearch` |
| `SortTopK` | `sort_topk_executor`: the comparison sort over many sort blocks and thread blocks, step by step |
| `OutputLayout` | the output buffer, unit by unit: how `generate_result` fills it and `copy_output_to_cpu` takes it apart |
| `BatchDriver` | `init_tbs_gpu`, `tbs_gpu_batched`, the threads that serve a batch, streams and device |
| **CPU search and the shape of the trie** | |
| `PatriciaTrie` | the shape of the trie that `build_current_trie` opens for a set of keys: nodes, children, links, terminals |
| `BeamExtend` | one step of a GPU beam (`extend_beam_*`) and of a CPU agent (`tbs_lookup_`, `predictive_find_child`) down that trie |
| `TrieWalk` | a GPU beam and a CPU agent that decode the same tokens side by side |
| `CpuBeamSearch` | `tbs` and `tbs_lookup_`: queues, thresholds, early exit; refinement mapping to `BeamSearch` |
| **The trie as it is stored** | |
| `BitOps`, `TailOps` | rank and select by their meaning; the tail as a value |
| `LoudsBuild` | `build_`: a keyset becomes a trie of up to `numTries` levels, node by node |
| `LoudsQuery` | the four searches on it through an `Agent`; refinement mapping to `Dictionary` |
| `Dictionary` | abstract specification: strings, ids and the two resumable searches |
| `KeySort` | `algorithm/sort.h`: the multikey quicksort |
| **Containers and files** | |
| `Words`, `BitVector`, `FlatVector` | units, the index of ranks and samples, packed values: pure operators |
| `VectorBuild` | how the two vectors come about: push, build, read |
| `KeysetArena` | `keyset.cc`: blocks of labels and records, reset, failing allocations |
| `TrieFile` | `save`, `load`, `write`, `read` item by item, failures and deaths in between |
| **Theorems** | |
| `BeamKernelProofs` | the type invariant of the kernel; barriers met together, phases kept apart; parameters under which no array overruns; every beam names a saved parent |
| `AnswerProofs` | the answer of the kernel is the best there is; the kernel implements `BeamSearch` |
| `SortProofs` | the sort over many blocks leaves the best in front, in order; the sort of keys is one |
| `TrieProofs` | lemmas: least and greatest numbers; the operators of `PatriciaTrie` and `BeamExtend` |
| `SearchProofs` | theorems about `TrieWalk` and `CpuBeamSearch` |
| `BatchDriverProofs` | theorems about `BatchDriver` |
| `VectorProofs` | a bit vector counts and finds its bits, a flat vector keeps its values |
| `StorageProofs` | the keys of a keyset and the tries of a file read back |
| **Instances** | `MCBeamKernel`, `MCBeamKernelDense`, `MCSortTopK`, `MCTrieWalk`, `MCCpuBeamSearch`, `MCBatchDriver`, `MCLouds`, `MCStorage`: values of the constants for TLC |

How they are composed: `BeamKernel` and `CpuBeamSearch` both implement
`BeamSearch`; `BeamExtend` gives the children that the one takes as constants and
the other computes; `BatchDriver` EXTENDS `OutputLayout` and takes what a kernel
selects as a constant of the request and the trie; `LoudsBuild` takes the order
of sorted keys and rank and select by their meaning, which `KeySort` and
`BitVector` are checked against; `LoudsQuery` reads what `LoudsBuild` made.

`BeamKernel` EXTENDS `CandidateOps` and uses the containers as the values of one
variable, `cont`; it INSTANCEs `BeamSearch` with a mapping of its state.  In
`BeamKernel` the array work of a sort is one step of block 0, which is what
happens while a container fits one sort block; `SortTopK` opens that step up for
containers of several sort blocks and shows that the outcome is the same: the
best beams in front, in descending order (`TopKInFront`).  The kernel knows the
trie only as two relations on paths, `ToNext` and `ToSelected`; `BeamExtend`
computes them from a set of keys (`PathsToNext`, `PathsToSelected`), and the MC
modules of the kernel assert that their values are those of a given set of keys.

### State and actions of `BeamKernel`

| model | code |
|---|---|
| `cont["A"]`, `cont["B"]`, `cont["selected"]` | the two containers passed as `cur_` and `next_`, and `selected_` |
| `Cur(u)`, `Nxt(u)` | a thread's own `cur_`, `next_` pointers, swapped at the end of a position (line 569) |
| `outpos[u]` | the loop counter of the threads of block `u` |
| `todo[u]` | the children that the threads of block `u` have found and not yet pushed |
| `beams` | `beams_[0 .. next_beam_id_ - 1]` |
| `out` | the sentences in the output buffer |
| `fault` | a write past the end of a container or of `beams_`; nothing moves afterwards |
| `pushed` | history variable: every path pushed to `selected_` |

| action | code |
|---|---|
| `Prepare` | lines 485-508: thread 0 clears the containers and pushes the root |
| `Top` | lines 510-525: the exit tests of one output position, and which parents the block gets |
| `Push`, `Expanded` | `process_outpos` and the `extend_beam_*` functions: `push` to `selected_` first, then to `next_`; arrival at line 528 |
| `TrimNext`, `CutNext` | `next_.trim(false)`: decision and array work, then `size_ = min(size_, capacity_)` |
| `Save` | `next_.save()` and the recycling of `cur_` by thread 0 |
| `CheckSelected`, `CutSelected` | the proactive trim of `selected_` |
| `Swap` | line 569 and the increment of the loop |
| `TrimFinal`, `CutFinal` | `selected_.trim(true)` |
| `GenerateResult` | the backtrace over `parent_beam_id_` and the output order |
| `Release` | the grid barrier: it counts arrivals, whichever call they came from |

Abstractions: a key is its sequence of tokens; a score is an integer that is
given per path (only the order of scores matters); the trie is the constants
`ToNext` and `ToSelected`, the paths that `extend_beam_binary_child_search` and
`extend_beam_in_link` push to either container.  The threads of a block are
merged: they only push between two barriers, and the pushes of a block are taken
one at a time in any order.  A slot is claimed and written in one step: nobody
reads a slot before the next barrier.

`fault` stops the model because writing past a device buffer leaves nothing to
promise; `NoFault` says that it never happens.

### State and actions of `SortTopK`

A beam is the slot it was pushed to; `score` gives its score, `meta` is the
position field of `sort_state_`, `cand` and `topk` are the two arrays of beams,
`rem` is `remaining_blocks`, `blk` the loop variable of the two inner loops and
`reg` what a thread block holds in registers between load and store.
`LoadBlock`/`StoreBlock` sort one sort block (block radix or merge sort is
modelled by what it does, with equal scores in any order), `CopyBlock` overwrites
the lower half of a sort block with the upper half of another one, `Collect` and
`Front` are the last round's two passes, `Release` is the grid barrier, of which a
round has two.

### State and actions of `TrieWalk`

`keys` is the set the trie was built from, `path` the tokens decoded, `gpu` and
`cpu` the beam and the agent (empty once nothing was pushed to `next`),
`gpuFound` and `cpuFound` whether the last token was pushed to `selected`.
`Decode(k)` is one output position with the single proposal `k`: `GpuKids` and
`CpuKids` give the child, `GpuSelects`/`GpuGoesOn` and `CpuSelects`/`CpuGoesOn`
where it is pushed.  A node is named by the tokens on the way to it.  A GPU beam
carries the rest of the link it is in (`link_offset_`, `end_link_`); a CPU agent
carries `query`, `query_pos` and `key_buf`, to which `prefix_match` copies the
whole of a link once its first token matches.  Children are found by their first
token: the linear search of the CPU and, on children in label order, the binary
search of the GPU.  The model is of tries of a single level (`-n 1`), which the
GPU search requires; links are then in the tail.  Widths, scores and thresholds
are left out here: they decide which children survive, not what a child is.

### State and actions of `BatchDriver`

| model | code |
|---|---|
| `version` | which trie the `Trie` object holds |
| `maxBatch`, `ws` | `max_batch_size_`, `bs_state_`; a workspace has its pinned input and output, their device copies, the trie that was copied to the device, a stream and its share of the thread blocks |
| `batch`, `todo`, `pc` | the call in progress, the places each OpenMP thread has to serve, and where it is in the first of them |
| `free` | thread blocks that can still become resident |
| `out`, `failed` | the caller's vectors; the places whose launch failed |

| action | code |
|---|---|
| `Replace`, `InitTbsGpu`, `Call` | `Trie::build`/`load`/`mmap` with the swap that drops the workspaces; `init_tbs_gpu`; a single or batched request |
| `Skip`, `CopyInput`, `Launch`, `CopyOutput`, `Parse` | what a thread does for one place (lines 650-834): a request for no beams returns, the trie and the input go into the stream, the launch succeeds or is printed as failed, the copy back, and after the stream has run dry the reading of the buffer |
| `CopyTrie`, `CopyIn`, `StartKernel`, `EndKernel`, `CopyOut` | the device works off the head of one stream; a kernel starts when all its blocks are free |

A buffer is a function on units of four bytes; a `size_t` or a `double` takes two,
each with its half, so that a read across two writes yields `Garbage`.

### State and actions of `CpuBeamSearch`

`cur`, `next` and `selected` are the three queues, sets of agents; `parent` the
agent popped last, `index` the proposal it is tried with, `met` (history) what was
offered to the queues.  `LoopHead` is the head of the loop over output
positions, `PopParent` and `Propose` the two loops of `tbs_lookup_` (with early
exit the size of `selected` is asked before each proposal), `EndParent` and
`EndPosition` their ends.  Equal scores may be popped and displaced in any order.

### State and actions of `LoudsBuild` and `LoudsQuery`

| action | code |
|---|---|
| `Sort` | the sort of the keys of a level and the reservation of its cache |
| `OpenNode` | one range of `build_current_trie`: its children by first label, links, LOUDS bits, `cache<T>` |
| `EndTrie`, `EndInTail` | `build_next_trie`: the links become the keys of the next level, or go to the tail |
| `LinkTrie` | after the recursion: bases and extras of the links, `fill_cache` |
| `SetIds` | terminal flags and the ids of the keyset |
| `SetQuery` | `Agent::set_query` |
| `Lookup`, `ReverseLookup`, `CommonPrefixSearch`, `PredictiveSearch` | one call of each search, node by node |

`tries`, `tail` and `termFlags` are the trie; `state` is the `State` of the agent
with its history, `answer` its key; `given` (history) what the search in progress
has answered.  A label or link is split in low bits and extra at `BaseSize`, 256
in the code.  The cache is filled but not looked at: in this fork the look-up in
`find_child` and `predictive_find_child` is compiled out, as the model has it.

### State and actions of the storage modules

* `VectorBuild`: `PushRun`, `Build`, `DisableSelect` for bits, `PushValue`, `Pack` for
  values.  A unit is the set of its bits that are 1.
* `KeysetArena`: `PushBackKey`, `PushBackThrows` (an allocation fails at any of the
  places where one is made), `Reset`, `Clear`.  The labels of a block are the key
  they were last written for.
* `TrieFile`: `BuildTrie`, `Save`, `WriteStream`, `WriteItems` (up to `Burst` items),
  `WriteFails`, `Crash`, `Load`, `ReadStream`.  An item is a number that does not say
  what it is: a reading finds out from what it has read whether another trie
  follows (`NextFollows`).
* `KeySort`: `BeginPass`, `ScanUp`, `ScanDown`, `Split`, `InsertionSort`; `stack` is the
  stack of recursive calls.

`MCStorage` puts the four together; a behaviour is about one of them.

## 3. Runs

| run | instance | shows |
|---|---|---|
| `kernel` | 3 blocks, 3 output positions, 7 complete keys of which 3 are returned, equal scores, beam width below the number of prefixes | all properties of the kernel, in every interleaving, and that it implements `BeamSearch` |
| `kernel_crowded` | 2 blocks, buffer of 4 | proactive trim with its barriers, on containers filled to the last slot |
| `sort_topk` | 2 blocks, sort blocks of 4, 1 to 9 entries | no entry of the answer is overwritten in the halving; the winners end in front, ordered, once each; the sort ends |
| `trie_walk` | all sets of up to 4 keys of up to 3 tokens over 2 labels | the GPU search decodes prefixes of keys only and selects keys only; where links end in leaves both searches find every key and the same |
| `cpu_search` | 9 keys, 4 output positions, 3 proposals, both limits, every order of the proposals at three of the positions, with and without early exit | bounded queues, early exit, order of the answer, and that the search implements `BeamSearch` |
| `driver` | 2 threads, 2 places, 3 multiprocessors, 3 calls, one failed launch, one change of the trie | every request gets its own answer and has a workspace, grids fit, calls return |
| `dictionary` | 5 keysets in 3 modes of the builder, 4 strings and 3 ids asked | the encoding, the cache, label order, and that the stored trie implements `Dictionary` |
| `storage` | see the bounds | bit vectors, flat vectors, the keyset, files and the quicksort answer what their plain definitions do |
| `kernel_early_exit` | 2 blocks, early exit | finding 1 |
| `kernel_two_trims` | 1 block, buffer of 8 | finding 2 |
| `trie_walk_cpu` | as `trie_walk` | finding 3 |
| `kernel_benchmark_room` | 2 blocks, 2 output positions of 2 beams, `beams_` of 4 | finding 4 |

Properties of the kernel:

* `BarriersAgree`, blocks that wait, wait at the same barrier of the same output
  position.  Each block computes its path itself, from sizes other blocks change.
* `PhasesApart`, while one block reads parents from `cur_` no other block trims,
  numbers or clears a container.
* `ParentsSaved`, every beam in a container names a saved beam one token shorter.
* `BeamsBounded`, the saved beams stay within one root plus the beam widths.
* `BestAnswer`, the sentences written are the best complete keys that were met,
  no key twice, best last; with more keys than places no better key is left out.
* `ImplementsSearch`, the refinement: the answer is one the abstract search can
  give, position by position.
* `NoFault`, no container overruns, and no save fails the assert of `save()`, which wants
  a place of `beams_` left when the beams have been written; `Termination`, every block ends.

Properties of the sort: `BestStayInFront` (the loop invariant of the halving
rounds), `TopKInFront`, `NoLostEntry`, `SortEnds`.

Properties of the walk: `GpuStaysOnKeys` in every trie; `KeysFound`, `PrefixesKept`
(no search gives up a path below which there are keys) and `SearchesAgree` on every
path on which no link ends at an inner node (`OnInnerLink`).

Properties of the CPU search: `QueuesKeepBest`, after every proposal each bounded
queue holds the best of what it was offered; `NoneDisplaced`, with early exit no key
that was met is displaced; `Ascending`; `ImplementsSearch`, without early exit.

Properties of the driver: `OwnAnswers`, when a call returns each request of it
whose launch went well holds its own answer, read from the buffer, in the trie of
today, whatever the workspace served before; `WorkspacesExist`, a place that is
served has a workspace, also when a trie was built, loaded or swapped in since the last
`init_tbs_gpu`: what a constructor leaves must be refused; `GridsFit`, no kernel waits for the
thread blocks of another workspace; `CallsReturn`.

Properties of the stored trie: `IdsAgree`, through all levels and the tail every
id leads back to its string; `CacheTrue`, an entry of the cache says what the nodes
say; `AnswersInLabelOrder`, with label order a predictive search answers in that
order, which the binary search of the GPU needs; `ImplementsDictionary`, the
refinement: call by call the agent answers as a dictionary of strings would, also
when searches are left and taken up again.

Properties of the storage: `IndexAnswers`, `ValuesKept`, `KeysReadBack`;
`ReadsWhatWasWritten`, a load gives the first trie that was written to its end and
throws when there is none, reads of a stream give one after the other;
`FailureKeepsTrie`, a call that throws leaves the trie as it was; `SortsKeys`.

### Bounds and why they are enough

* Three blocks are the least number with a fast, a slow and a middle block at one
  barrier; every hazard of the barriers needs two.
* Three output positions: `cur_` and `next_` swap twice, so each container is once
  read, once recycled and once filled again, and a stale name would show.
* `Buffer = 40` in `kernel`: a quarter of it, 10, is what the three positions may push
  to `selected_` (2 + 4 + 4), so that the instance meets `Roomy` of section 5 with
  nothing to spare, and the proactive trim never starts; `kernel_crowded` is where it
  does.  `MaxBeamId = 9` is one more than the root and the beam widths, 1 + 2 + 2 + 3: the
  assert of `save()` is strict.
* `StaleSizes`: the sizes that a previous request may have left.
* `kernel_crowded` has one token per key and an answer of one key, so that the containers
  are filled to the last slot and no further and the final trim sorts nothing twice.
* `kernel_benchmark_room` has the room that `flashtrie_bench.py` asks for: beam width
  times positions.
* Sort blocks of four entries; nine entries are three sort blocks, the last one
  with a single entry: the rounds have 3, 2 and 1 sort blocks, an odd and an even
  halving.  All arrays of five entries over two scores cover ties; selected arrays
  of nine entries put the best entries into the first, the last and the middle.

* Three tokens are the least with a link of two tokens and a key behind it, four
  keys the least with two links below one branch; `MaxDepth = 4` lets a walk go one
  token beyond every key.
* `cpu_search`: links of two and three tokens, keys within keys, widths 3, 4, 3, 2
  below the number of prefixes and of keys, so that every queue is full and
  displaces; proposals under the token limit (-9) and the sentence limit (-8).
* `driver`: three multiprocessors over two places leave a remainder; answers of no,
  one, two and three sentences with thread blocks of two, so that the prefix sum
  writes beyond the beams; three calls are the least for init, request, change of
  the trie and request on the same workspace (`MaxVersion = 2`).  `TypeOK` there
  also counts the blocks held.  `MaxBatchLimit = 2` stands for `kMaxBatchSizeLimit`.
* `dictionary`: labels up to 5 with `BaseSize = 4` have an extra; three levels are
  the least with a trie between the first and the last; a string offered twice,
  the empty string, and the label that text mode ends strings with; two entries of
  the cache (`CacheSize = 2`, `CacheLevel = 1`), so that edges collide.
* `storage`: units of four bits, a block of 32, runs of 1, 7 and 33 bits, up to four:
  every offset in a unit and a block, samples one and several blocks apart
  (`LinearBlocks = 1` has both the linear and the binary search).  Values of three
  bits straddle units of four.  Blocks of 3, 2 and 2 for labels, extras and records:
  keys that fit exactly, that need a new block and a block of their own.  Files:
  two writes, `Burst = 7` items between two looks at a failure, which does not divide
  a trie's length, and one death.  Sort: up to four of six strings, `Threshold = 2`
  has both passes and insertion sorts of two.

`CHECK_DEADLOCK FALSE` is set in the runs whose system ends: after the last block
is done nothing moves.  A block that is stuck before that is what `Termination`
and `SortEnds` exclude; `CallsReturn` does so for the driver.  A walk ends at
`MaxDepth` or when both searches gave up, a search when it has answered, a container
at its bounds.

### Fairness

The launch is cooperative (`cudaLaunchCooperativeKernel`): all blocks of the grid
are resident at once, so each of them is scheduled again and again: weak fairness
of the steps of each block.  A barrier that all blocks have reached opens: weak
fairness of `Release`.  Nothing is assumed about relative speed.

In `driver` each OpenMP thread goes on (weak fairness of `HostStep`) and the device
works off each stream (weak fairness of `StreamStep`); that a kernel can start is
not assumed, it has to follow from `free`.  The program need not call.  The other
modules are sequential and state no liveness.

## 4. Findings

1. *Early exit can hang the grid* (`kernel_early_exit`, `tbs-kernels.cu:516`).
   Each block tests `selected_->size()` at the head of the loop with no barrier
   before the pushes of faster blocks.  A late block may leave the loop while the
   others stay in it; they wait at different barriers and the grid comes apart.
2. *A second sort follows stale slots* (`kernel_two_trims`, `candidates-gpu.h:401`).
   After a proactive trim `sort_state_` names the slots beams had before they were
   moved; the final trim returns a key twice and loses a better one.
3. *The CPU search answers sequences that are no keys* (`trie_walk_cpu`,
   `louds-trie.cc:103`).  At a link to an inner node that is no key the rest of the
   link is skipped.
4. *The benchmark asks for one place too few in `beams_`* (`kernel_benchmark_room`,
   `candidates-gpu.h:431`).  `beams_` holds the root and what every position saves, and
   `save()` asserts that a place is left behind.  `flashtrie_bench.py:139-145` sizes it
   "for the widest call this run can make" as `beam_size * max_seq_length`: a request of
   that many positions without a forced prefix step, which keeps a full beam at each,
   fails the assert, or without asserts writes past the array.

What the models also show or leave out on purpose, and a reader should know:

* *Proactive trim entered by some blocks only* (`tbs-kernels.cu:557`): the shape of
  finding 1; a slow block reads a size that a fast block has already raised for the
  next output position.  `Undisturbed` in `BeamKernelProofs` excludes both.
* *The proactive trim does not prevent the overflow it is there for*
  (`candidates-gpu.h:52`): below a quarter of the buffer nothing is trimmed, and one
  position may add a full buffer.  The bounds of `kernel` and `kernel_crowded` keep
  clear of it.
* *The radix path does not select* (`candidates-gpu.h:165`): its winners stay in
  `topk_cand_`; `cand_`, which everybody reads, keeps push order.
* *The root is never initialised* (`tbs-kernels.cu:497`): only the number and the
  length norm of `beams_[0]` are set; its node is what `cudaMalloc` returned.  The
  models take zeroed memory, `Root = << >>`.
* *Keys below a link are lost on the GPU* (`tbs-kernels.cu:312`): a beam at the end
  of a link is not pushed to `next`, although a link may end where keys part.  The
  properties of `trie_walk` exempt such paths (`OnInnerLink`), and only those.
* *Early exit differs*: the CPU asks before every proposal, the kernel at the head
  of an output position, so that their answers may differ with it.
* *A GPU search needs one level and label order* (`tbs-kernels.cu:255`, the binary
  search): `init_tbs_gpu` asserts both (`trie.cc:122-123`) and the bindings build that
  way (`bindings.cpp:19`).  A Release build has no asserts, and weight order is the
  default of the library.
* *Asserts are guards*: the driver's asserts (batch sizes, places) are the guards of the
  actions of `BatchDriver`; a request they would stop does not happen in the model.
* *The sort counts none for a single key* (`sort.h`), and reads labels from 2^31 on
  as negative: `SortsKeys` is about two keys or more, `Labels` are those an
  `int` holds.

## 5. Proofs

`TypeCorrect` (in `BeamKernelProofs`): `Spec => []TypeOK`, for any number of
blocks, trie, widths and buffer sizes.  `TypeOK` is not inductive: that the loop
counter stays in range and the beam widths are only read where they are defined needs
`LoopRange`, by which a block inside the loop has a counter below `NumOutpos`; the
inductive invariant `TypeInv` is `TypeOK /\ LoopRange`.

`BarriersMeet` and `PhasesMeet` (in `BeamKernelProofs`): for any grid,

    Spec /\ []Undisturbed => []BarriersAgree
    Spec /\ []Undisturbed => []PhasesApart

`Undisturbed` says that no block is about to act on a size of `selected_` above
the proactive threshold, nor above the early exit threshold.  It is exactly what
finding 1 and its like at the proactive trim break; without it both are false.  It holds in every
search whose complete keys fit a quarter of the buffer and that does not use
early exit.  The inductive invariant `BarrierInv` is `TypeInv /\ Aligned`: all
blocks are in one of nine phases of a common level `n`, where blocks at the end of
position `n - 1` and blocks at the head of `n` share a level because no barrier
lies between them, and the decision that leads to the phase's barrier (does the
loop end, does the trim sort) is an invariant of the phase.  The proof shows for
each phase and action that the block stays in the phase or, at `Release`, that all
of them pass to the next one.

`RoomyNeverOverruns` (in `BeamKernelProofs`) replaces `Undisturbed`, which speaks of behaviours,
by a condition on the parameters:

    ASSUME Roomy  PROVE  Spec => [](NoFault /\ BarriersAgree /\ PhasesApart /\ Undisturbed)

`Roomy` asks for no early exit, finitely many tokens, a quarter of the buffer for the
sum over the output positions of parents times tokens, and a beam table for the sum
of the beam widths and the root with one place to spare, which `save()` asserts.  The sums are given by functions `room` and `saves` of
the output position, so that no recursion is needed.  The invariant `RoomInv` counts
what is still to come: `Debts("selected")` and `Debts("next")` are the pushes that the
blocks still owe at the present position, those of a block that expands and those of a
block on its way to its share of the parents.  The size of a container and its debts
together stay below the bound of the position; a push takes one debt away for each
entry, the parents, dealt out by `i % NumCtas`, are owed once, and at most one child
per token and parent is owed.  `init_tbs_gpu` allocates
`max_num_out_beams * max_num_topk` entries, enough for the children of one position with
that many parents, but not for four times those of all of them: a caller that wants the guarantee
has to ask for larger limits than its requests use.  `kernel` is an instance of `Roomy`;
`kernel_early_exit` and `kernel_two_trims` break it.

`BacktraceSound` and `BacktraceWithRoom` (in `BeamKernelProofs`):

    Spec /\ []Undisturbed => []ParentsSaved
    ASSUME Roomy  PROVE  Spec => []ParentsSaved

`generate_result` walks from a beam to its parents through `beams_`, whatever numbers it finds
there.  `ParentsSaved` is not inductive: a child takes the number its parent has in `cur_`, so
`ParentInv` adds that the beams of `cur_` are themselves saved under their own numbers
(`CurSaved`), that the children still to be pushed have saved parents (`ChildrenSaved`),
and that until the sort each score still stands beside its own beam (`NextFresh`,
`SelectedFresh`), without which the trim would bring other beams to the front.  That nobody
expands while the leader saves and recycles is where `PhasesApart` is needed.

`AnswerIsBest`, `BeamsWithinWidths` and `KernelRefines` (in `AnswerProofs`):

    ASSUME Roomy, Sortable, Root = << >>   PROVE  Spec => []BestAnswer
    ASSUME Roomy                           PROVE  Spec => []BeamsBounded
    ASSUME Roomy, Sortable, Root = << >>   PROVE  Spec => ImplementsSearch

for any grid, trie, proposals, scores and widths.  `Sortable` leaves no output position
to the radix path of `trim`, which does not select (section 4), and `Root = << >>` is the
zeroed memory of `beams_[0]`.  `MCRoomAssumption` has TLC confirm that the run `kernel`
meets all three.

Between two barriers the blocks push children in any order, so the invariant
`SearchInv` says what is there *and still to come*: the paths in `next_` and
those the blocks still owe (`Debts`, from the proof of `Roomy`) are together the children in
`ToNext` of the beams in `cur_`, each once (`NextGathers`), and the like for what
is pushed to `selected_` (`SelectedGathers`).  `Dealt` is the lemma that dealing the parents
out by `i % NumCtas` neither leaves one out nor takes one twice.  Once nothing is
owed, the sort and the cut leave a best selection of that set in front (`NextWinners`,
`SortedWinners`, `ShrunkWinners`); the trim has two forms, with barriers when there is more than fits
and without when there is not, where a fast block may have cut already what a
slow one is about to look at (`NextGathered`).  `Chain`, every saved beam has a
saved parent, leads the backtrace of `generate_result` from a beam to its sentence
(`SentenceIsPath`).

In the refinement the leader's `Save` is the `Step` of the abstract search and
`GenerateResult` its answer; everything else stutters (`StepShown`).  What shows is
`frontier`, the beams of the container that is about to be read, and the
selected keys up to the output position of the leader: a fast block that is already
pushing keys of the next position does not show.  `HopMoves` and `MovesShown` say that
no step of another block moves what shows.  `BeamsBounded` follows from `SpanInv`, an
invariant for every `saves` that `Roomy` admits, of which `SavedBy` is the least.

`EntriesKept`, `BestInFront` and `WinnersInFront` (in `SortProofs`): for any number of
thread blocks, size of sort blocks, array and capacity of at most half a sort block,

    Spec => []NoLostEntry,   Spec => []BestStayInFront,   Spec => []TopKInFront

`BestStayInFront` speaks of the moment a round begins and is not inductive.  `SortInv` says that
all thread blocks are in one round, in its sorting or in its copying half
(`Sorting(r)`, `Copying(r)`), or through.  While sort blocks are copied over one another, some
entries stand twice and others are gone: the invariant is about the slots that are
`Live`, all in front but the sort blocks that have been copied to an earlier one (`Gone`), and these
are `Good`: no beam twice, and for every score either all beams with as much or as many as the trim keeps.
A copy takes the upper half of one block for the lower half of another, of which each is sorted: the
half that is lost has `Half >= Capacity` better ones above it.  That two thread blocks never
work on the same pair follows from `Owner(b) = b % NumCtas` (`Stride`).

`GpuPrefixes` (in `SearchProofs`): for any sets of keys over any tokens,

    WalkSpec => []GpuStaysOnKeys

A beam is alive only while its path is a prefix of a key, and what it selects is
a key.  `GpuStaysOnKeys` says nothing of the rest of the link a beam is in; the
invariant `WalkInv` adds that this rest leads from the path to the beam's node
(`node = path \o rest`) and that keys lie below that node.  The lemmas of
`TrieProofs` say what a child of `PatriciaTrie` is: a node with keys below it, one
at most for each first token.

`WalkTypes`, `GpuFindsKeys`, `PathsStayOpen` and `SameKeys` (in `SearchProofs`): under the same assumptions

    WalkSpec => []TypeOK,          WalkSpec => []KeysFound
    WalkSpec => []PrefixesKept,    WalkSpec => []SearchesAgree

The invariant `PairInv` has at most one beam and one agent, each as far before its node as there is
link left (`ToLinkEnd`, `AgentOnTheWay`), and, unless a link on the way ends at an inner node,
both at the same node (`Together`) and neither gone while there are keys below the path (`Complete`).
A longer path has fewer keys below it, so that what is `OnInnerLink` once stays so.
`OnInnerLink` is what section 4 says of keys below a link; without it the three last are false.

`EarlyExitKeepsAll` (in `SearchProofs`): for any trie, proposals, limits and widths

    Spec => []NoneDisplaced

The invariant `CpuInv` says that with early exit `selected` is all that was met and
no more than fits: a push with room displaces nothing (`PushedWithRoom`), and a
proposal is only tried while there is room.

`QueuesBest` (in `SearchProofs`): under the same assumptions

    Spec => []QueuesKeepBest

Three lemmas carry it.  `NodeOrder`: the numbering of the nodes is a strict order, so
that (`TopIsLeast`) every queue that is not empty has a top and the top has the least
score.  `BestPushed`: a push to a queue that holds the best of what it was offered
leaves it so, whether the agent finds room, is turned away, displaces the top, or is
in the queue already.  The invariant `QueueInv` adds what makes the scores
numbers: at position `n` the agents at hand have queries of `n` tokens.

`AnswerAscends` (in `SearchProofs`): if no list of proposals has a token twice (`OneEach`)

    Spec => []Ascending

Every way of emptying a queue from its top is ascending (`EmptyingsAscend`).  The invariant
`AscInv` says why an answer has one score for each of its sentences: what was met and what
is still to come has queries of its own (`Apart`), a child of the parent at hand only
by a proposal that was tried already.  With a token twice a sentence may be met twice.

`CpuRefines` (in `SearchProofs`): if the paths and scores of `BeamSearch` are those of the agents
that this trie and these proposals lead to (`Charted`)

    Spec => ImplementsSearch

`Charted(agent, final)` has an agent for every path that goes on and for every path that is
selected, and says of single steps only that proposals make of the agent of a path those of its
children; `MCChartAssumption` has TLC evaluate it, and `OneEach`, on the instance.  The invariant
`SimInv` is about the loops: what was met in this position and what the agents in `cur` and
`parent` have still to yield (`StillOn`, `StillComplete`) is, all the time, the children of the
frontier, so that at `EndPosition` the queues, which hold the best of what they were offered,
hold the best children (`BestPaths`).

`GridsAlwaysFit` (in `BatchDriverProofs`): for any device, threads and requests

    Spec => []GridsFit

with at most as many workspaces as multiprocessors, as `init_tbs_gpu` demands.  The
invariant `DriverInv` has a bound `q` on the share of each of the `n` workspaces with
`n * q <= TotalCtas`, the partial sums `f` of the blocks held, from which the number
of free blocks follows, and that only a running kernel holds blocks and a stream
with something in it has a thread that waits for it, so that a new
`init_tbs_gpu`, which needs idle threads, throws no running kernel away.

`EachItsOwn` and `DriverTypes` (in `BatchDriverProofs`): under the same assumptions

    Spec => []OwnAnswers,   Spec => []TypeOK

The first has two halves.  The buffer: `ResultInMemory` says what `generate_result` leaves
in memory, unit by unit, for any number of beams of any lengths (`InMemory`), although
the scan writes past its array first, into the place of the tokens; `InMemoryKept`, that
a copy of as many units as `copy_output_to_cpu` asks for carries all of it; and
`ParsedAnswer`, that the reading of it gives the beams back, the worst first.  The time: `DataInv`
says of each thread that has begun to serve a place what is done and what is still in the
stream of its workspace (`Serving`): operations stand in a stream in the one order
trie, input, kernel, output, each at most once (`StreamFor`), so that when the kernel comes to the head both
copies before it are made, and when the output does the kernel has written, whatever was in the
buffers before.  `TrieCopied` is the same for the flag that spares a workspace the copy of
the trie: it holds the trie of today or is about to.  `ServesOne`, that
`b % Cardinality(Thread)` gives each place one thread, keeps the others away.  In `DriverTypes` the
sums of `DriverInv` turn out to be those of `TypeOK` (`FreeCounted`): no thread block is lost
or returned twice.

`WorkspacesServed` (in `BatchDriverProofs`): under the same assumptions

    Spec => []WorkspacesExist

What keeps a request away from a trie without workspaces is a number alone, `maxBatch`, which
`init_tbs_gpu` sets, a constructor zeroes and `swap` takes along with `bs_state_`; `Ranges` says that
it is always the number of workspaces, `Asked` that what is still to be served is below it.

`KeysStayReadable` (in `StorageProofs`): for any sizes of blocks, keys and resets

    KeysetSpec => []KeysReadBack

`KeysReadBack` says nothing of the memory that no record points to, and it is there that the
next key goes.  The invariant `ArenaInv` says that a block is in one slot only, of one of the two
arrays, and this also of the slots behind those in use, whose blocks a reset has left there to
be used again (`BlocksApart`); that the slots in use have a block (`SlotsUsed`); that
what `avail_` counts is really left of the last block in use (`RoomLeft`); and of each record that its
labels are its key's (`Labelled`) and lie in a block in use, before what is still to be given
away (`Given`).  A key takes the next labels of the last block, a block of the base that nobody has
used since the reset, or an extra block that is new, and in each case no record points there.
When an allocation fails, the slots that are already there may have grown but what is in use has not.

`IndexTrusted` (in `VectorProofs`): for units of any size, runs of any lengths and any number of lanes

    VectorsSpec => []IndexAnswers

The invariant `IndexInv` says what a vector is before and after its index is built: one that is still
pushed to has just enough units and nothing but 0 behind its end (`Pushing`), which the ranks
rely on; one that has its index has the tables that counting gives (`IndexTrue`): in a rank entry
the 1s before the block and, in fields of a few bits, those between the block and the unit, which
fit because a block has no more (`CountInBlock`); in a sample the place of every `BlockBits`-th 1 or 0.
Everything is said by one number, `Count(X, p)`, how many members of `X` lie before `p`: it grows by one at
members and not elsewhere, so that a select is the only `p` in `X` with the count asked for.  `UnitIndexed` is one turn of
`build_index`, `BlockFound` the linear or binary search between two samples, `PlaceFound` the step from the
block to the unit.  The warp's search for the next 0 looks at `Lanes` units at a time and stops at
the first that has one; what lies behind the last unit may be anything (`beyond`).

`ValuesStay` (in `VectorProofs`): for units of any size, any values that fit a unit and any number of them

    VectorsSpec => []ValuesKept

The proof counts the bits of all units through (`Has(f, p)`).  `PartIs` and `FieldSetIs` say that
what `set` writes to one or two units is the field at its place and nothing else, `FlatAtIs` that what
`operator[]` puts together from one or two units is that field; fields of one width do not meet
(`FieldsApart`), and behind the last one only the last unit has room, which was zeroed
(`ResizedIs`).  `Width` is the loop of `build_`, so that a larger value needs no fewer bits
(`WidthGrows`) and every value fits the fields of the largest.  `RecursionExists` is what both the
loop of `Width` and the one over the values rest on: a step from smaller numbers makes a function.

`KeysSorted` (in `SortProofs`): for any number of strings over labels that an `int` holds and any
threshold above zero

    KeySortSpec => []SortsKeys

`SortsKeys` says nothing of order or count while calls are open.  The invariant `SortSound` does:
no call stands on the stack twice and no two overlap; the keys of a call are alike up to its
depth, so that it may part them by the next label alone, and none of them is found outside it; of
two keys that are not of one call the earlier is not the larger; and the count so far is the number of
distinct keys that are of no call (`Settled`).  `InPass` is the state of one pass: equal, less, yet unseen,
greater and again equal keys, in that order.  The two loops that gather the equal keys in the middle
(`LoweredStep`, `RaisedStep`) are proved by the least step that would go wrong, also where there are more
equal keys than others and the places they change overlap.  Every step only exchanges keys of its own
stretch (`Rearranged`), so that no other call is disturbed and no key is lost or doubled.

`WholeTriesRead` and `FailureKeeps` (in `StorageProofs`): for any tries of any number of levels, and any
number of writes, failures and deaths

    FileSpec => []ReadsWhatWasWritten,   FileSpec => FailureKeepsTrie

An item does not say what it is, so that everything hangs on the reading being the inverse of the
writing.  `SlotRead` says it of one slot, `SlotsRead` of the slots of a level: where the file agrees with what
was written of them as far as it goes (`Agrees`), the reading gives the values back and stops behind them
if all of it is there (`FitsAt`), and fails otherwise.  `LevelRead` adds what lies between the two parts of a
level, and `LevelsRead` goes from the last level to the first; that it takes the same turn as the
writing, one level deeper or not, is what `FileAssumption` says of the levels of a trie and what
`build_current_trie` and `build_next_trie` make of them: links and no tail, exactly where another trie follows.
What a reading that fails has read nobody uses, but it must fail, in whichever level the trie was cut off.

`ReadsWhatWasWritten` speaks of the calls that returned last and is not inductive.  The invariant
`FileSound` says what the file holds: the whole tries stand one behind the other from its start
(`Placed`), the cursor is where the one behind those taken begins, and behind the last one there is nothing, something
that is no trie, or one that was cut short (`NoneAt`), while a save is under way what was written and
what is still to be written are together the trie in use (`EndsIn`).  A write that ends early leaves
a proper part (`CutShort`), and one that begins behind it would go unread: `WriteStream` asks for a
file that is not `torn`.

The assumptions are those on the domains of the constants (`ContainerAssumption`,
`KernelAssumption`, `SortAssumption`, `WalkAssumption`, `CpuAssumption`,
`LayoutAssumption`, `DriverAssumption`, `ArenaAssumption`, `WordsAssumption`, `BitVectorAssumption`,
`VectorsAssumption`,
`KeySortAssumption`, `FileAssumption`), and the conditions on parameters that the theorems name,
nothing else.  `SortAssumption` has a trim of at most `Half` beams, as the
template parameter is chosen, and scores above the padding of the last sort block; `KeySortAssumption` has labels
that an `int` holds; `FileAssumption` has tries as the builder makes them.
Where a proof needs an induction over numbers it takes the least number that fails
(`LeastNatural`, `LeastOne`, `LeastNumber`).

Checked by TLC only:

* Liveness (`Termination`, `SortEnds`, `CallsReturn`): fairness and ENABLED are out of the prover's reach.
* The properties of `LoudsQuery`: it goes through nested tries by recursive operators, which the
  prover does not take.
* The kernel beyond `Roomy`: with the proactive trim the answer may be wrong (finding 2), and `NoFault`
  there is a question of the instance (`kernel_crowded`).

## 6. Not modelled, and why

* The inside of `radix_topk`: its result is read by nobody; what it does to `cand_`
  and `size_` is in `CandidateOps`.
* The binary search over children: by its result on children in label order.
* Of the uninitialised root only the node is discussed; its score, depth and link
  state are taken as zero.
* Two host threads of the caller's own that use one place of the batch: nothing in
  the code forbids them, nothing orders them.
* `mmap` reads by the same walk as `load`; a file that is overwritten while it is
  mapped, writing on behind a torn stream, and whether a vector owns its memory are left out.
* The mixing of bits in `get_cache_id`: any hash does.
* The insertion sort below the threshold: by its result.
* Flag tables and error codes (`config.h`, `base.h`, `exception.h`), tools, bindings,
  examples: no behaviour over time.  How the bindings and the tool call the driver is
  in `Program` and `Call`.

## 7. What is left

| step | modules | about |
|---|---|---|
| 1 | `RadixTopK` | histogram rounds of the selection, once its result is read by somebody |
