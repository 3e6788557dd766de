----------------------------- MODULE BatchDriver ----------------------------
(***************************************************************************)
(* The host side of the GPU search (tbs-kernels.cu): init_tbs_gpu makes one*)
(* workspace (BeamSearchState) per place of a batch, tbs_gpu_batched hands *)
(* the requests of a batch to OpenMP threads, and each thread copies its   *)
(* input to the device, launches the kernel and copies the output back, all*)
(* through the stream of the workspace.                                    *)
(*                                                                         *)
(* The streams and the multiprocessors are actors of their own: what a     *)
(* thread puts into a stream is done later, one after the other.  A kernel *)
(* takes its thread blocks when it starts and returns them when it ends;   *)
(* what it selects is a constant of the request and of the trie that its   *)
(* device copy holds (BeamKernel is the model of how).  The output buffer  *)
(* is the one of OutputLayout.                                             *)
(***************************************************************************)
EXTENDS OutputLayout, FiniteSets

CONSTANTS
  Thread,         (* OpenMP threads, numbered from 0                        *)
  Request,        (* requests the program makes                             *)
  FinalBeam,      (* the last beam width of each request                    *)
  NumOutpos,      (* output positions of each request                       *)
  Answer,         (* Answer[r][v]: what the kernel selects for r in trie v  *)
  Sms,            (* multiprocessors of the device                          *)
  BlocksPerSm,    (* thread blocks of the kernel resident on each of them   *)
  MaxBatchLimit,  (* kMaxBatchSizeLimit                                     *)
  MaxVersion,     (* bound: tries that are built or loaded                  *)
  MaxCalls,       (* bound: calls of init_tbs_gpu and tbs_gpu_batched       *)
  MaxFailures     (* bound: launches that fail                              *)

ASSUME DriverAssumption ==
  /\ IsFiniteSet(Thread) /\ Thread # {} /\ Thread = 0 .. Cardinality(Thread) - 1
  /\ FinalBeam \in [Request -> 0 .. MaxOutBeams]
  /\ NumOutpos \in [Request -> Nat \ {0}]
  /\ \A r \in Request : FinalBeam[r] * NumOutpos[r] <= MaxOutTokens
  /\ \A r \in Request : \A v \in 1 .. MaxVersion :
       /\ Answer[r][v] \in Seq([tokens : Seq(Int), logp : Int])
       /\ Len(Answer[r][v]) <= FinalBeam[r]
       /\ \A i \in 1 .. Len(Answer[r][v]) : Len(Answer[r][v][i].tokens) <= NumOutpos[r]
       /\ UnitsTouched(Len(Answer[r][v]), 0) <= OutUnits(MaxOutBeams, MaxOutTokens)
  /\ Sms \in Nat \ {0} /\ BlocksPerSm \in Nat \ {0}
  /\ MaxBatchLimit \in Nat
  /\ MaxVersion \in Nat \ {0} /\ MaxCalls \in Nat /\ MaxFailures \in Nat

VARIABLES
  version,     (* which trie the Trie object holds                          *)
  maxBatch,    (* max_batch_size_                                           *)
  ws,          (* bs_state_: the workspaces by their number                 *)
  batch,       (* the requests of the call in progress, by workspace        *)
  todo,        (* the workspaces each thread has still to serve             *)
  pc,          (* where each thread is in serving the lowest of them        *)
  free,        (* thread blocks that can still become resident              *)
  out,         (* the caller's output vectors, by place in the batch        *)
  failed,      (* the places of the batch whose launch failed               *)
  calls,       (* calls so far                                              *)
  failures     (* failed launches so far                                    *)

vars == <<version, maxBatch, ws, batch, todo, pc, free, out, failed, calls, failures>>
host == <<version, maxBatch, batch, calls>>

-----------------------------------------------------------------------------
(* The thread blocks of the device, and the share of each workspace.       *)
TotalCtas == BlocksPerSm * Sms

CtasPerBatch(max) == IF TotalCtas \div max < 1 THEN 1 ELSE TotalCtas \div max

(* A slip: the remainder goes to every workspace.                          *)
NumCtasRoundedUp(max, b) == (Sms \div max) + (IF Sms % max = 0 THEN 0 ELSE 1)

NumCtas(max, b) ==
  LET share == (Sms \div max) + (IF b < Sms % max THEN 1 ELSE 0)
      capped == IF share > CtasPerBatch(max) THEN CtasPerBatch(max) ELSE share
  IN IF capped < 1 THEN 1 ELSE capped

(* A workspace after its construction: memory as it comes, an empty stream.*)
NewWorkspace(max, b) ==
  [ hostIn |-> Garbage, devIn |-> Garbage, dTrie |-> 0, setupDone |-> FALSE,
    devOut |-> BlankBuffer, hostOut |-> BlankBuffer,
    stream |-> << >>, running |-> FALSE, numCtas |-> NumCtas(max, b) ]

(* A slip: a new trie keeps the workspaces, and with them the flag that the*)
(* device holds a copy.                                                    *)
WorkspacesKept == ws

(* LoudsTrie::swap takes the workspaces along: the new trie has none.      *)
Workspaces == << >>

(* A slip: the value of the declaration (louds-trie.h:109), which the      *)
(* constructor overrides.                                                  *)
DeclaredBatch == 4

(* max_batch_size_ of a trie as its constructor leaves it.                 *)
ConstructedBatch == 0

Place == 0 .. MaxBatchLimit - 1

(* The output vectors of a caller that starts with empty ones.             *)
NoOutput == [b \in Place |-> << >>]

Init ==
  /\ version = 1
  /\ maxBatch = ConstructedBatch
  /\ ws = << >>
  /\ batch = << >>
  /\ todo = [t \in Thread |-> {}]
  /\ pc = [t \in Thread |-> "next"]
  /\ free = TotalCtas
  /\ out = NoOutput
  /\ failed = {}
  /\ calls = 0
  /\ failures = 0

Idle == \A t \in Thread : todo[t] = {}

(* Trie::build, load, mmap: a new LoudsTrie is swapped in, and with it its *)
(* batch size and workspaces.                                              *)
Replace ==
  /\ Idle
  /\ version < MaxVersion
  /\ version' = version + 1
  /\ maxBatch' = ConstructedBatch
  /\ ws' = Workspaces
  /\ batch' = << >>
  /\ UNCHANGED <<todo, pc, free, out, failed, calls, failures>>

(* init_tbs_gpu: the workspaces of before are destroyed, new ones made.    *)
InitTbsGpu(max) ==
  /\ Idle
  /\ calls < MaxCalls
  /\ max <= MaxBatchLimit
  /\ max <= Sms
  /\ maxBatch' = max
  /\ ws' = [b \in 0 .. max - 1 |-> NewWorkspace(max, b)]
  /\ calls' = calls + 1
  /\ batch' = << >>
  /\ UNCHANGED <<version, todo, pc, free, out, failed, failures>>

(* The places that thread t of an OpenMP team serves: schedule(static, 1). *)
ServedBy(t, places) == {b \in places : b % Cardinality(Thread) = t}

(* A call of tbs_gpu_batched, or of tbs_gpu for one place, with the output *)
(* vectors empty.  The asserts ask that the number of a place be below     *)
(* max_batch_size_; a build without them takes a caller who heeds them.    *)
Call(places, requests) ==
  /\ Idle
  /\ calls < MaxCalls
  /\ \A b \in places : b < maxBatch
  /\ batch' = requests
  /\ todo' = [t \in Thread |-> ServedBy(t, places)]
  /\ out' = NoOutput
  /\ failed' = {}
  /\ calls' = calls + 1
  /\ UNCHANGED <<version, maxBatch, ws, pc, free, failures>>

-----------------------------------------------------------------------------
(* A thread t that serves the place b.                                     *)
Serves(t, b) == b \in todo[t] /\ \A c \in todo[t] : b <= c

Enqueued(w, ops) == [w EXCEPT !.stream = @ \o ops]

(* A slip: a request that asks for no beams is passed over but never left. *)
SkipInPlace(t, b) ==
  /\ pc[t] = "next" /\ Serves(t, b)
  /\ FinalBeam[batch[b]] = 0
  /\ UNCHANGED vars

(* A request that asks for no beams returns without touching its output.   *)
Skip(t, b) ==
  /\ pc[t] = "next" /\ Serves(t, b)
  /\ FinalBeam[batch[b]] = 0
  /\ todo' = [todo EXCEPT ![t] = @ \ {b}]
  /\ UNCHANGED <<host, ws, pc, free, out, failed, failures>>

(* setup_device_ptr: the trie goes to the device the first time only.      *)
DevicePtrSet(w) ==
  IF w.setupDone THEN w
  ELSE [Enqueued(w, << [op |-> "trie", trie |-> version] >>) EXCEPT !.setupDone = TRUE]

(* setup_device_ptr and copy_input_to_gpu.                                 *)
CopyInput(t, b) ==
  /\ pc[t] = "next" /\ Serves(t, b)
  /\ FinalBeam[batch[b]] # 0
  /\ b \in DOMAIN ws
  /\ ws' = [ws EXCEPT ![b] =
              Enqueued([DevicePtrSet(@) EXCEPT !.hostIn = batch[b]], << [op |-> "in"] >>)]
  /\ pc' = [pc EXCEPT ![t] = "launch"]
  /\ UNCHANGED <<host, todo, free, out, failed, failures>>

(* The cooperative launch; an error is printed and nothing else.           *)
Launch(t, b) ==
  /\ pc[t] = "launch" /\ Serves(t, b)
  /\ \/ /\ ws' = [ws EXCEPT ![b] = Enqueued(@, << [op |-> "kernel"] >>)]
        /\ UNCHANGED <<failed, failures>>
     \/ /\ failures < MaxFailures
        /\ failures' = failures + 1
        /\ failed' = failed \cup {b}
        /\ UNCHANGED ws
  /\ pc' = [pc EXCEPT ![t] = "output"]
  /\ UNCHANGED <<host, todo, free, out>>

(* The units that copy_output_to_cpu asks for.                             *)
ExpectedUnits(r) == OutUnits(FinalBeam[r], FinalBeam[r] * NumOutpos[r])

CopyOutput(t, b) ==
  /\ pc[t] = "output" /\ Serves(t, b)
  /\ ws' = [ws EXCEPT ![b] = Enqueued(@, << [op |-> "out", units |-> ExpectedUnits(batch[b])] >>)]
  /\ pc' = [pc EXCEPT ![t] = "sync"]
  /\ UNCHANGED <<host, todo, free, out, failed, failures>>

(* cudaStreamSynchronize returns when the stream has nothing left to do.   *)
Synchronized(b) == ws[b].stream = << >>

(* The rest of copy_output_to_cpu: the output goes to the caller's vectors.*)
Parse(t, b) ==
  /\ pc[t] = "sync" /\ Serves(t, b)
  /\ Synchronized(b)
  /\ out' = [out EXCEPT ![b] = Parsed(ws[b].hostOut)]
  /\ pc' = [pc EXCEPT ![t] = "next"]
  /\ todo' = [todo EXCEPT ![t] = @ \ {b}]
  /\ UNCHANGED <<host, ws, free, failed, failures>>

-----------------------------------------------------------------------------
(* The device: the first operation of the stream of workspace b.           *)
Pending(b, op) == b \in DOMAIN ws /\ ws[b].stream # << >> /\ Head(ws[b].stream).op = op

Done(w) == [w EXCEPT !.stream = Tail(@)]

CopyTrie(b) ==
  /\ Pending(b, "trie")
  /\ ws' = [ws EXCEPT ![b] = Done([@ EXCEPT !.dTrie = Head(ws[b].stream).trie])]
  /\ UNCHANGED <<host, todo, pc, free, out, failed, failures>>

CopyIn(b) ==
  /\ Pending(b, "in")
  /\ ws' = [ws EXCEPT ![b] = Done([@ EXCEPT !.devIn = ws[b].hostIn])]
  /\ UNCHANGED <<host, todo, pc, free, out, failed, failures>>

(* A cooperative kernel starts when all of its blocks can be resident.     *)
StartKernel(b) ==
  /\ Pending(b, "kernel") /\ ~ws[b].running
  /\ ws[b].numCtas <= free
  /\ free' = free - ws[b].numCtas
  /\ ws' = [ws EXCEPT ![b].running = TRUE]
  /\ UNCHANGED <<host, todo, pc, out, failed, failures>>

(* What it writes into the output buffer for each request and trie.        *)
Output == [r \in Request |-> [v \in 1 .. MaxVersion |-> GenerateResult(Answer[r][v])]]

EndKernel(b) ==
  /\ Pending(b, "kernel") /\ ws[b].running
  /\ free' = free + ws[b].numCtas
  /\ ws' = [ws EXCEPT ![b] =
              Done([@ EXCEPT !.running = FALSE,
                             !.devOut = Over(Output[ws[b].devIn][ws[b].dTrie], ws[b].devOut)])]
  /\ UNCHANGED <<host, todo, pc, out, failed, failures>>

CopyOut(b) ==
  /\ Pending(b, "out")
  /\ ws' = [ws EXCEPT ![b] =
              Done([@ EXCEPT !.hostOut = CopiedBack(ws[b].hostOut, ws[b].devOut, Head(ws[b].stream).units)])]
  /\ UNCHANGED <<host, todo, pc, free, out, failed, failures>>

HostStep(t) ==
  \E b \in Place : Skip(t, b) \/ CopyInput(t, b) \/ Launch(t, b) \/ CopyOutput(t, b) \/ Parse(t, b)

StreamStep(b) == CopyTrie(b) \/ CopyIn(b) \/ StartKernel(b) \/ EndKernel(b) \/ CopyOut(b)

(* The calls of the program, one at a time; a batch fills the first places.*)
Program ==
  \/ Replace
  \/ \E max \in 1 .. MaxBatchLimit : InitTbsGpu(max)
  \/ \E n \in 1 .. MaxBatchLimit : \E requests \in [0 .. n - 1 -> Request] : Call(0 .. n - 1, requests)
  \/ \E b \in Place, r \in Request : Call({b}, [p \in {b} |-> r])

Next == Program \/ (\E t \in Thread : HostStep(t)) \/ (\E b \in Place : StreamStep(b))

(* Host threads run, and the device works its streams off; the program     *)
(* need not call.                                                          *)
Fairness ==
  /\ \A t \in Thread : WF_vars(HostStep(t))
  /\ \A b \in Place : WF_vars(StreamStep(b))

Spec == Init /\ [][Next]_vars /\ Fairness

-----------------------------------------------------------------------------
(* The thread blocks that a workspace holds.                               *)
Held(w) == IF w.running THEN w.numCtas ELSE 0

(* The types of the variables, and that the blocks not free are held by    *)
(* running kernels.                                                        *)
TypeOK ==
  /\ version \in 1 .. MaxVersion
  /\ maxBatch \in 0 .. MaxBatchLimit
  /\ DOMAIN ws = 0 .. maxBatch - 1
  /\ pc \in [Thread -> {"next", "launch", "output", "sync"}]
  /\ failed \subseteq Place
  /\ calls \in 0 .. MaxCalls /\ failures \in 0 .. MaxFailures
  /\ free = TotalCtas - SumsOf([b \in Nat |-> IF b \in DOMAIN ws THEN Held(ws[b]) ELSE 0])[Cardinality(DOMAIN ws)]

(* The sentences of the kernel in ascending order of score.                *)
OwnAnswer(b) == Reverse(Answer[batch[b]][version])

(* When a call returns, every request of it whose launch went well holds   *)
(* its own answer in the trie of today, whatever the workspace served      *)
(* before, whatever failed before, and whichever thread served it; one that*)
(* asked for no beams holds nothing.                                       *)
OwnAnswers ==
  Idle => \A b \in DOMAIN batch :
            b \notin failed => out[b] = IF FinalBeam[batch[b]] = 0 THEN << >> ELSE OwnAnswer(b)

(* No kernel of a batch ever waits for the blocks of another: the grids of *)
(* all workspaces fit on the device together (tbs-kernels.cu:620-624).     *)
GridsFit == \A b \in DOMAIN ws : Pending(b, "kernel") /\ ~ws[b].running => ws[b].numCtas <= free

(* Every call returns.                                                     *)
CallsReturn == []<>Idle

(* A thread that serves a place finds the workspace of that place, whatever*)
(* order of init_tbs_gpu, build, load and requests the program took: the   *)
(* batch size that a request is compared with (tbs-kernels.cu:651) and the *)
(* workspaces are replaced together.                                       *)
WorkspacesExist ==
  \A t \in Thread, b \in Place : Serves(t, b) /\ FinalBeam[batch[b]] # 0 => b \in DOMAIN ws
=============================================================================
