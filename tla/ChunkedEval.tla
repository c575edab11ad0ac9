---------------------------- MODULE ChunkedEval ----------------------------
(***************************************************************************)
(* The chunked evaluation scripts of eval/: run_p2_transformers_chunked.sh *)
(* (one instance per shard of the chunk list), run_p2_gpu03_helper.sh and  *)
(* run_p2_gpu47_helper.sh (hand-picked chunks), run_frameshuffle_precheck  *)
(* .sh (the same run_chunk), and run_p2_vllm_chunked.sh (an older check).  *)
(*                                                                         *)
(* A process walks the chunk list.  For each chunk it owns it looks into   *)
(* the chunk's directory, skips the chunk when results are found, and      *)
(* otherwise clears the directory, waits until its GPUs are free and runs  *)
(* lmms_eval, which writes results.json and then appends the samples.  The *)
(* directories are all that survives a crash: they are the checkpoint.     *)
(*                                                                         *)
(* Time is abstracted: sleeps and polling intervals are interleavings.     *)
(***************************************************************************)
EXTENDS Naturals, FiniteSets

CONSTANTS
  Procs,         \* slots for invocations of a script
  Helpers,       \* the slots that run a helper script
  HandPicked,    \* [Helpers -> SUBSET Chunks]: the chunks a helper names
  NumShards,     \* NUM_SHARDS of the sharded script
  Shard,         \* [Procs \ Helpers -> 0..NumShards-1]: SHARD
  Groups,        \* disjoint groups of GPUs (0-3, 4-7)
  GroupOf,       \* [Procs -> Groups]: GPUS
  NumChunks,     \* length of the list of run_chunk calls (30)
  StrictCheck,   \* FALSE for run_p2_vllm_chunked.sh
  MaxCrashes,    \* bound: failed or killed evaluations in a behaviour
  MaxFaults      \* bound: NVML failures and foreign jobs in a behaviour

Chunks == 0 .. NumChunks - 1

ASSUME ConstantsAssumption ==
  /\ Helpers \subseteq Procs
  /\ HandPicked \in [Helpers -> SUBSET Chunks]
  /\ NumShards \in Nat \ {0}
  /\ Shard \in [Procs \ Helpers -> 0 .. NumShards - 1]
  /\ GroupOf \in [Procs -> Groups]
  /\ NumChunks \in Nat
  /\ StrictCheck \in BOOLEAN
  /\ MaxCrashes \in Nat
  /\ MaxFaults \in Nat

VARIABLES
  pc,        \* where each process is in run_chunk
  idx,       \* CHUNK_IDX: the chunk each process is at
  res,       \* res[c][p]: the results.json that p left in the directory of c
  smp,       \* smp[c][p]: the samples_*.jsonl that p left there
  leftover,  \* GPU memory of a group held by nobody of ours
  nvml,      \* does nvidia-smi answer
  crashes, faults

files == <<res, smp>>
gpu   == <<leftover, nvml>>
bounds == <<crashes, faults>>
vars  == <<pc, idx, res, smp, leftover, nvml, crashes, faults>>

(***************************************************************************)
(* The stages of run_chunk: the model occupies GPU memory in Loaded, and   *)
(* from "clear" to "exiting" the process considers the chunk its own.      *)
(***************************************************************************)
Stopped == {"idle", "aborted", "done"}
Loaded  == {"eval", "open", "saved", "samples", "exiting"}
Working == {"clear", "wait", "ready"} \union Loaded
Stages  == Stopped \union {"next"} \union Working

Leftovers == {"none", "first", "rest"}  \* on the first card, or on the others

TypeOK ==
  /\ pc \in [Procs -> Stages]
  /\ idx \in [Procs -> 0 .. NumChunks]
  /\ res \in [Chunks -> [Procs -> {"none", "empty", "full"}]]
  /\ smp \in [Chunks -> [Procs -> {"none", "part", "all"}]]
  /\ leftover \in [Groups -> Leftovers]
  /\ nvml \in BOOLEAN
  /\ crashes \in 0 .. MaxCrashes
  /\ faults \in 0 .. MaxFaults

Init ==
  /\ pc = [p \in Procs |-> "idle"]
  /\ idx = [p \in Procs |-> 0]
  /\ res = [c \in Chunks |-> [p \in Procs |-> "none"]]
  /\ smp = [c \in Chunks |-> [p \in Procs |-> "none"]]
  /\ leftover = [g \in Groups |-> "none"]
  /\ nvml = TRUE
  /\ crashes = 0
  /\ faults = 0

(***************************************************************************)
(* What the scripts read.                                                  *)
(***************************************************************************)
\* Mutant of Mine: shards that overlap.
MineOverlaps(p, c) ==
  IF p \in Helpers THEN c \in HandPicked[p] ELSE c % NumShards <= Shard[p]

\* Mutant of Mine: one shard too many, whose chunks nobody has.
MineLeavesGaps(p, c) ==
  IF p \in Helpers THEN c \in HandPicked[p] ELSE c % (NumShards + 1) = Shard[p]

Mine(p, c) ==
  IF p \in Helpers THEN c \in HandPicked[p] ELSE c % NumShards = Shard[p]

\* find ... -name "*results.json" -size +0c, and [ -s samples ]
HasResults(c) == \E p \in Procs : res[c][p] = "full"
HasSamples(c) == \E p \in Procs : smp[c][p] # "none"
Evaluated(c)  == HasResults(c) /\ HasSamples(c)

\* Mutant of Accepted: the samples file is not asked for.
AcceptsResultsAlone(c) == HasResults(c)

\* Mutant of Accepted: -size +0c forgotten.
AcceptsEmptyResults(c) == HasSamples(c) \/ \E p \in Procs : res[c][p] # "none"

\* Mutant of Accepted: only a samples file that was closed counts.
AcceptsClosedSamples(c) ==
  HasResults(c) /\ \E p \in Procs : smp[c][p] = "all"

\* the resume check; the vLLM script asks only that results.json exists
Accepted(c) ==
  IF StrictCheck THEN Evaluated(c) ELSE \E p \in Procs : res[c][p] # "none"

\* wait_for_gpu_ready: nvidia-smi answers and every card is below 1000 MiB
GpuReady(g) ==
  /\ nvml
  /\ leftover[g] = "none"
  /\ \A p \in Procs : GroupOf[p] = g => pc[p] \notin Loaded

Transition(p, from, to) ==
  /\ pc[p] = from
  /\ pc' = [pc EXCEPT ![p] = to]

(***************************************************************************)
(* One invocation of a script.                                             *)
(***************************************************************************)
Start(p) ==
  /\ pc[p] \in Stopped
  /\ pc' = [pc EXCEPT ![p] = "next"]
  /\ idx' = [idx EXCEPT ![p] = 0]
  /\ UNCHANGED <<files, gpu, bounds>>

Skip(p) ==
  /\ pc[p] = "next"
  /\ idx[p] < NumChunks
  /\ Mine(p, idx[p]) => Accepted(idx[p])
  /\ idx' = [idx EXCEPT ![p] = @ + 1]
  /\ UNCHANGED <<pc, files, gpu, bounds>>

\* The decision to evaluate is taken here and never reconsidered.  The vLLM
\* script goes straight to the wait: it removes nothing.
Decide(p) ==
  /\ idx[p] < NumChunks
  /\ Mine(p, idx[p])
  /\ ~Accepted(idx[p])
  /\ Transition(p, "next", IF StrictCheck THEN "clear" ELSE "wait")
  /\ UNCHANGED <<idx, files, gpu, bounds>>

\* Mutant of Clear: rm -rf of the results root, not of the chunk's directory.
ClearsEverything(p) ==
  /\ Transition(p, "clear", "wait")
  /\ res' = [c \in Chunks |-> [q \in Procs |-> "none"]]
  /\ smp' = [c \in Chunks |-> [q \in Procs |-> "none"]]
  /\ UNCHANGED <<idx, gpu, bounds>>

\* rm -rf "$chunkdir": whoever wrote the files
Clear(p) ==
  /\ Transition(p, "clear", "wait")
  /\ res' = [res EXCEPT ![idx[p]] = [q \in Procs |-> "none"]]
  /\ smp' = [smp EXCEPT ![idx[p]] = [q \in Procs |-> "none"]]
  /\ UNCHANGED <<idx, gpu, bounds>>

GpuFree(p) ==
  /\ GpuReady(GroupOf[p])
  /\ Transition(p, "wait", "ready")
  /\ UNCHANGED <<idx, files, gpu, bounds>>

\* 61 polls found the GPUs busy: exit 1.  The count of polls is abstracted.
GpuTimeout(p) ==
  /\ ~GpuReady(GroupOf[p])
  /\ Transition(p, "wait", "aborted")
  /\ UNCHANGED <<idx, files, gpu, bounds>>

(***************************************************************************)
(* accelerate launch -m lmms_eval: the model is loaded, results.json is    *)
(* created empty and then written, the samples are appended one by one.  A *)
(* file removed while it is written is gone: its writer does not notice.   *)
(***************************************************************************)
LoadModel(p) ==
  /\ Transition(p, "ready", "eval")
  /\ UNCHANGED <<idx, files, gpu, bounds>>

OpenResults(p) ==
  /\ Transition(p, "eval", "open")
  /\ res' = [res EXCEPT ![idx[p]][p] = "empty"]
  /\ UNCHANGED <<idx, smp, gpu, bounds>>

WriteResults(p) ==
  /\ Transition(p, "open", "saved")
  /\ res' = [res EXCEPT ![idx[p]][p] = IF @ = "empty" THEN "full" ELSE @]
  /\ UNCHANGED <<idx, smp, gpu, bounds>>

AppendSamples(p) ==
  /\ Transition(p, "saved", "samples")
  /\ smp' = [smp EXCEPT ![idx[p]][p] = "part"]
  /\ UNCHANGED <<idx, res, gpu, bounds>>

CloseSamples(p) ==
  /\ Transition(p, "samples", "exiting")
  /\ smp' = [smp EXCEPT ![idx[p]][p] = IF @ = "part" THEN "all" ELSE @]
  /\ UNCHANGED <<idx, res, gpu, bounds>>

\* Mutant of Finish: the list is advanced twice.
FinishSkipsOne(p) ==
  /\ Transition(p, "exiting", "next")
  /\ idx' = [idx EXCEPT ![p] = @ + 2]
  /\ UNCHANGED <<files, gpu, bounds>>

\* rc = 0 and no error in the log: DONE, on to the next run_chunk
Finish(p) ==
  /\ Transition(p, "exiting", "next")
  /\ idx' = [idx EXCEPT ![p] = @ + 1]
  /\ UNCHANGED <<files, gpu, bounds>>

\* rc # 0 or an error in the log: ABORT; or the session itself is killed.
\* A process that held GPU memory may leave some of it behind.
Crash(p) ==
  /\ pc[p] \notin Stopped
  /\ crashes < MaxCrashes
  /\ crashes' = crashes + 1
  /\ pc' = [pc EXCEPT ![p] = "aborted"]
  /\ \E left \in Leftovers :
       /\ left # "none" => pc[p] \in Loaded /\ leftover[GroupOf[p]] = "none"
       /\ leftover' = IF left = "none" THEN leftover
                      ELSE [leftover EXCEPT ![GroupOf[p]] = left]
  /\ UNCHANGED <<idx, files, nvml, faults>>

AllDone(p) ==
  /\ idx[p] = NumChunks
  /\ Transition(p, "next", "done")
  /\ UNCHANGED <<idx, files, gpu, bounds>>

(***************************************************************************)
(* The machine: NVML fails and is repaired by hand, somebody borrows the   *)
(* cards of a group, and leftover memory is released in the end.           *)
(***************************************************************************)
NvmlFail ==
  /\ nvml /\ nvml' = FALSE
  /\ faults < MaxFaults /\ faults' = faults + 1
  /\ UNCHANGED <<pc, idx, files, leftover, crashes>>

NvmlRepair ==
  /\ ~nvml /\ nvml' = TRUE
  /\ UNCHANGED <<pc, idx, files, leftover, bounds>>

Borrow(g) ==
  /\ leftover[g] = "none"
  /\ \E left \in {"first", "rest"} : leftover' = [leftover EXCEPT ![g] = left]
  /\ faults < MaxFaults /\ faults' = faults + 1
  /\ UNCHANGED <<pc, idx, files, nvml, crashes>>

Release(g) ==
  /\ leftover[g] # "none"
  /\ leftover' = [leftover EXCEPT ![g] = "none"]
  /\ UNCHANGED <<pc, idx, files, nvml, bounds>>

\* The steps a live process takes by itself.
Step(p) ==
  \/ Skip(p) \/ Decide(p) \/ Clear(p) \/ GpuFree(p) \/ GpuTimeout(p)
  \/ LoadModel(p) \/ OpenResults(p) \/ WriteResults(p)
  \/ AppendSamples(p) \/ CloseSamples(p) \/ Finish(p) \/ AllDone(p)

Machine ==
  \/ NvmlFail
  \/ NvmlRepair
  \/ \E g \in Groups : Borrow(g) \/ Release(g)

\* A script runs on unless it fails; the instance is repaired by hand, and
\* foreign memory does not stay for ever.
ScriptFairness == \A p \in Procs : WF_vars(Step(p))
MachineFairness == WF_vars(NvmlRepair) /\ \A g \in Groups : WF_vars(Release(g))
=============================================================================
