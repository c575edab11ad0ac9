# Verification of videoPerception

videoPerception evaluates and trains video language models on a shared machine
with eight GPUs. Its own logic is orchestration: scripts and drivers that keep
long jobs going over out-of-memory errors, NVML failures, preemption and
closed sessions. Nearly all of its state lies in files, which one invocation
leaves and the next one reads. Beside it stands the fully asynchronous training
of the verl recipe, where generation and training run at the same time and meet
in a queue. The modules here model both, TLC checks them on small instances,
and TLAPS proves the core for every size.

## 1. Inventory

| Component | State | Operations | What is hard | What makes it correct |
|---|---|---|---|---|
| Chunked evaluation, `eval/run_p2_transformers_chunked.sh`, `run_p2_gpu03_helper.sh`, `run_p2_gpu47_helper.sh`, `run_frameshuffle_precheck.sh`, `run_p2_vllm_chunked.sh` | position in the list of chunks; per chunk a directory with results.json and samples | check, `rm -rf`, wait for GPUs, evaluate, abort | parallel instances on one directory tree, crashes between two files | one writer per chunk; ALL_DONE means evaluated; no chunk redone |
| Supervisor, `eval/p2_supervisor.sh` | none but the files and `nvidia-smi` | health, count, start a helper | it cannot see helpers that hold no memory yet | claimed chunks get results; it leaves only when all are complete |
| Teacher rollout, `OPRD/scripts/infer/vllm_rollout.py` | `worker_<rank>.jsonl`, `DAPO.jsonl`; a pending pool per worker | share out, save, reject, join, merge | kill inside a line, failed workers, other number of GPUs | each sample once in the output, reruns get there |
| Training run, `ray_trainer.py`, `checkpoint_manager.py`, `fsdp_checkpoint_manager.py` in `OPRD/verl/verl` | step, dataloader position; shards, data.pt, tracker | load, step, save, rotate | crash anywhere in a save made by several ranks | the tracked checkpoint is whole; loss is bounded |
| Fully asynchronous training, `OPRD/verl/recipe/fully_async_policy/` | the rollouter's tasks, queues, lock, `paused`, `staleness_samples`; the message queue; the trainer's batch and version | feed, generate, cancel, consume, monitor, pause, update, resume, train | coroutines that test before they lock, counts read across an await, dropped and interrupted samples | bounded staleness, no generation under changing weights, every sample accounted for, an end |
| Auto-resume, `OPRD/verl/auto_resume_*.sh` | attempts | start, look at the tracker, give up | damaged tracker, runs that return early | training gets done |
| Handoff, `OPRD/verl/handoff_gpu_count.sh` | manifest of segments | merge, record, new segment | stopped inside a save; abort after the record | a whole checkpoint is handed over; the steps add up |
| P1 evaluation, `eval/run_eval.py`, `score.py` | one jsonl per shard | resume by uid, batch, fallback | cut rows, rows written twice, errors that count as done | one verdict per sample, failures stay alone |
| Aggregation, `eval/aggregate_chunks.py` | none | read samples, score | duplicates, missing chunks | totals over each sample once |
| Pass rate, `eval/passrate_filter.py`, `build_*.py` | one json file, rewritten | resume, append | kill inside the write | resume never blocked |
| OPSD-R, `eval/opsd_r_wait_and_launch.sh`, `run_opsd_r_sweep.sh` | results.json per configuration | four lanes | half-written result | one complete result each |
| Validation generation, `OPRD/scripts/val/eval/` | one file per task | workers, save, skip | swallowed errors, partial files | windows of one example, no response twice |
| Distillation losses, reward, probes, analysis | tensors | arithmetic | numerics | not a matter of states |
| Rest of verl, LlamaFactory | – | – | – | vendored |

The components meet in files and on the GPUs: the supervisor starts helpers and
reads their results; the aggregation reads what the chunks leave; the resume
loop starts trainers and reads their tracker; the handoff merges the checkpoint
that the tracker names; grading reads what the generation leaves. Only the fully
asynchronous training talks by calls (Ray actors) and by shared memory (the
coroutines of one actor).

## 2. Modules

| Module | What it is |
|---|---|
| `ChunkedEval` | state and actions of the evaluation scripts and of the machine |
| `EvalLedger` | abstract: a ledger in which chunks are taken, committed or given back |
| `ShardedEval` | parallel instances of the sharded script, reruns by hand; refines `EvalLedger` |
| `Aggregation` | what the aggregation reads of the files that `ShardedEval` leaves |
| `SupervisedEval` | the supervisor composed with the helpers |
| `RolloutResume` | the rollout program with its workers and reruns |
| `DurableProgress` | abstract: work that is done, kept and resumed |
| `CheckpointedTrainer` | one training run with its ranks and checkpoint directory |
| `AutoResume` | the loop composed with the training run; refines `DurableProgress` |
| `Handoff` | segments of that loop, stopped, merged, recorded and started anew |
| `FullyAsync` | rollouter, message queue, synchronizer and trainer |
| `EvalShard` | one shard of `run_eval.py` and what `score.py` reads of it |
| `PassrateResume` | the pass-rate filter and its one result file; refines `DurableProgress` |
| `ValGeneration` | validation generation with its pool of workers, and the windows of `grade.py` |
| `Listing` | filtered, sorted and grouped lists, said by rank; used by the last three |
| `MC_*` | instances for TLC; `MC_Jobs` runs the last four jobs, one per behaviour |
| `*_proofs` | theorems |

**ChunkedEval.** `pc[p]` is the place of a process in `run_chunk`, `idx[p]` its
index in the list, `res[c][p]` and `smp[c][p]` the two files that `p` left in
the directory of `c` (lmms_eval names files by time, so two writers leave two
files). `Decide` is the check, `Clear` the `rm -rf`, `GpuFree` and `GpuTimeout`
the ends of `wait_for_gpu_ready`, and the stages from `LoadModel` to
`CloseSamples` one lmms_eval process, which is external and modelled from what
the comments of the scripts say of its files: results.json is created empty and
then written, samples come last. Its open file survives `rm -rf` unlinked, so a
writer whose file is gone writes nothing that others see. GPU memory of a group
is held by live evaluations, or left over "first" (on the card the supervisor
looks at) or "rest". Time is abstracted; sixty polls are one choice.

**Aggregation.** `aggregate_chunks.py` keeps nothing: it is a function of the
samples files, whenever somebody runs it. `AddedTwice` are the chunks whose rows it
reads twice, `Cut` those with a samples file that ends too early, `Lacking` those
of which not all rows are there, for want of the file or of its end, and `Passed`
those the instances have gone past. What the scores make of the rows is not modelled,
nor is the exception: a cut inside a row makes `json.loads` (line 51) raise, and then
no total is printed at all.

**SupervisedEval.** `turn` is the place in the loop. `Launch` starts a helper
without waiting for it. `PassOn` is a test that does not start anything.

**RolloutResume.** A line of a file is a sample, `Torn` (no JSON) or `Garbled`
(not UTF-8). `unended` tells that the last line has no newline, so the next
record is glued to it. The code takes the pool in batches and puts what it rejects
back at the end; how the batches fall is left open, so any pending sample may be the
next to be saved or rejected. One rollout is made per sample, as `main` has it.
`Killed` ends the session with all its workers, any of which may be in the middle of
a line.

**CheckpointedTrainer.** A shard holds the attempt that wrote it, so that a
mixture of two attempts in one directory can be told from a checkpoint. `data`
holds the dataloader position. Every file is opened (and thereby truncated) and
closed in two steps, so that a crash may fall between. Rotation, shards, barrier,
dataloader state and tracker follow in the order of the code.

**AutoResume.** `Again` is the call of the training script; everything the run
does follows as `Run` or `Crash` until `Returned`.

**DurableProgress.** What a resumed job promises, in numbers: `live` pieces of work
done by the running process, `kept` the place where the next one goes on. A run
begins at `kept`, is never more than `Gap` ahead of it, and commits forwards only.
A commit that opens its file for writing throws the old content away, so it counts
from the moment of the truncation, and a crash before the new content is there is
the one way (`Lose`) to lose what was kept. For `AutoResume` kept is the tracked
step, live the batches behind the weights and `Gap` the save frequency; for
`PassrateResume` kept is the length of the list in the file, and `Gap` a chunk.

**Handoff.** `stage` is "train" while `AutoResume` runs and the place in the
script otherwise. `Stop` ends the training wherever it is, for the script says
nothing of when. `NewSegment` is a fresh `LoopInit` (new directory, step 0).
When there is no checkpoint yet, the script aborts and the old segment goes on;
its attempts keep counting, so that shards of different attempts stay distinct.

**FullyAsync.** A coroutine runs until an await that really waits. `loop` is
"proc" while the processor is between two such awaits; all other coroutines are
short enough to be one action each and need `loop = "idle"`. The asyncio lock is
the queue `lockq` whose head holds it. `ppc` and `pstep` are the place of
`_processor_worker`; `run`, `cut`, `done` and `bad` split `active_tasks` into
those that generate, those the servers have cancelled, those that are over, and
among these the ones that raised. A sample is only the version it was generated
with. `rpc` is the place in `sync_weights` with the calls it makes: `pause`
("pause" to "reset"), the queue's version ("mq"), the weights,
`update_param_version` ("update", "size", "count", "validate") and `resume`. The
size of the queue is read in two steps: the queue tells it (`QueueTellsSize`), and
the rollouter sums up when it has the answer (`UpdateCounts`). The monitor takes the
lock twice a round, to look at `running` ("look") and to clear `paused` ("lock").
`stirred` and `overcounted` are history: the monitor has cleared `paused` between
a pause and its resume, and `staleness_samples` was set above what is in flight.
`_feed_samples` fills `pending_queue` whenever it gets the event loop, and the
processor takes no more samples in a row than it may have in flight, so with the
last part of `ConfigAssumption` it never finds the queue empty. The recipe's queue
has room for 128.

**EvalShard, PassrateResume, ValGeneration.** Each is one program with its
files, killed and started again. A row, a result and a response are identities;
a cut row is "torn" (no JSON) or "garbled" (no UTF-8). `ValGeneration` keeps the
order in which results come back, because `grade.py` cuts the list of scores by
position; a score is the place of its response in the file. A broken pool
(`PoolBreaks`) takes the results that have not arrived; a worker that had finished
may have delivered before. In `EvalShard` a kill may fall into any of the three rows
the program writes, that of an error included. The writes themselves are taken not
to raise: they could on a full disk only, and then the row of the error could not be
written either.

**Listing.** The Python filters a list (`[e for e in data if ...]`), sorts places
and appends to one list per example. These lists are said by rank: the k-th element
is the one with k elements up to and including it. That says the same as a
`SelectSeq` and, being no recursion, can be reasoned about with the cardinalities
of finite sets.

## 3. Runs

Passing runs:

| Run | Instance | Shows |
|---|---|---|
| `sharded` | 2 instances, 3 chunks, 2 crashes, 1 fault | exclusion, completeness, no row read twice by the aggregation, at most one samples file cut and at most one passed chunk without all its rows for every crash, refinement of the ledger, eventual evaluation |
| `supervised` | 2 helpers with 2 and 1 chunks, 2 crashes, 1 fault | claimed chunks get results, the supervisor leaves, nothing redone |
| `rollout` | 3 samples, 2 workers, 2 attempts, 2 failures | nothing doubled or lost; merged unless a line was cut |
| `autoresume` | 2 ranks, 4 steps, save every 2 and whenever ESI asks, keep 2, 2 crashes | tracked checkpoint whole, batches in step, few checkpoints of one attempt, refinement of durable progress (loss bounded, no step back), training done unless the tracker was cut |
| `async` | 10 samples, batches of 3, a limit of 4, 2 concurrent, both modes, 1 failing generation | what is in flight and how stale it is stay bounded, no generation under changing weights but for the monitor, every sample accounted for, an end but for three named events |
| `jobs` | 4 samples in batches of 2 with one missing and one broken, 2 kills; 3 entries in chunks of 2, 2 kills; 2 tasks with 3 rollouts of 3 examples, 2 failing workers, 1 kill; an epoch of 3 batches for 3 steps, 4 attempts, 1 crash, 2 stops, 1 abort | one verdict per sample, results and responses once, windows of one example, whole checkpoints handed over, steps counted, and each job ends |

Runs that find what the code says of itself violated:

| Run | Violates | Because |
|---|---|---|
| `supervised_twice` | leaving means that all chunks have results | a waiting helper looks idle; a second one clears its directory |
| `supervised_samples` | complete means results and samples | the supervisor asks for results only |
| `rollout_cut` | reruns continue automatically | the merge does not pass over the torn line that the resume passed over |
| `autoresume_cut` | the loop goes on until the total is reached | the tracker is truncated before it is written |
| `async_stall` | interrupted samples continue after the synchronization | they count in `staleness_samples`; when that is at the limit it pauses the processor, which alone could continue them (5 samples, batches of 1, a limit of 2) |
| `async_quiet` | a synchronization adds no new tasks | the monitor, past its test, gets the lock behind `pause()` and undoes it |

Three more facts come from constants that no run uses. With `StrictCheck` FALSE
(`run_p2_vllm_chunked.sh`, which asks for a results.json only)
`AllDoneMeansEvaluated` is false: an empty file passes. With `Keep = 1`
`TrackedCheckpointWhole` is false: rotation removes the tracked checkpoint before
the new one is written. With two different `GpuCounts` in one rollout, the merge
collects only the files of the present number of workers.

Bounds. A chunk hazard needs two processes, a chunk, and a neighbour that must
stay untouched: three chunks give one instance a second chunk to resume at. Two
crashes allow a crash during the recovery from a crash. One fault is enough to
fail every wait once. Three samples over two workers make an uneven share that
changes when one is done. Four steps with a save every second give two regular
checkpoints, and ESI saves make the third that starts a rotation. Model values
`Torn`, `Garbled`, `Part`, `NoFile`, `Empty` stand for contents; identity is all
that matters of them. No symmetry is used.

In `async` the limit 4 is one above a batch of 3, so a stale sample exists; two
concurrent samples make the processor wait at its limit; ten samples give three
synchronizations, an incomplete batch at the end, and a last sample that arrives
in any phase of them. One failing generation is enough: it is collected by the
processor or by `pause()`. `Required` times `Trigger` is above 2 for
a reason: a synchronization leaves at most `MaxRequired + 2` minus that many
samples in flight, so only with a smaller product can interrupted samples reach
the limit by themselves and stop the processor with an exact count. That is the
instance of `async_stall`, and README.md:212 of the recipe is violated there without
any race. In `jobs`, two samples out of four
that cannot be answered let every batch be of either kind; two kills let one fall
into the recovery from the other; three entries give a short last chunk; three
rollouts over two workers give shares of different length. Four attempts
bring the training to its total after a crash and two stops, so the loop gives up
without it only if no attempt can load.

`supervised` is conditional: it bounds each helper to one live invocation.
The code does not guarantee that; `supervised_twice` allows a second one and
shows what follows. The pass run says that everything else is right.

`MergedUnlessCut` and `TrainedUnlessCut` are conditional on no crash falling
into one write; `rollout_cut` and `autoresume_cut` show the condition to be
needed. `TrainedUnlessCut` further needs more attempts than crashes: the loops
count an attempt before they look at the tracker, so a training that ends in
the last allowed attempt exits as given up. The default is 1000.

`AtMostKeep` over all attempts is not stated: `previous_saved_paths` is empty
after a restart, so the checkpoints of earlier attempts stay on disk, whatever
`max_actor_ckpt_to_keep` says. `AttemptKeeps` bounds those of one attempt.

`EventuallyEnds` of `async` names what may keep the training from its end: the
monitor has undone a pause, `staleness_samples` was set above what is in flight,
or a generation failed while the feed still had samples (the exception then
stays unseen until the feed is done, which it never is). The first is the race of
`async_quiet`. The second is needed too: without it TLC finds, without partial
rollout, a processor paused with `staleness_samples` at the limit of four while two
samples are collected and nothing else is there, because a sample went from
`result_queue` to the message queue while its size was asked. `VersionLag` and `InFlightBounded`
carry a slack of what is in somebody's hand (processor, consumer): README.md:134
of the recipe leaves that out, and with `MaxRequired` alone it would be false.
`VersionLag` has one batch more: `sync_weights` does not wait for
`update_param_version`, so the trainer may take a whole batch before the staleness
is set, and the processor then produces up to the limit on top of it. The bound is
reached: with `Required = Trigger = 1` and `MaxRequired = 2` TLC finds a sample
trained four versions late. In `async` it says two versions; the theorem covers
the rest.
`NeverUnbound` says that `done_tasks` is never read before it is assigned, which
in the code hangs on the first-come-first-served order of the lock.

`DoneMeansAnswered`, `EvalAnswered` and `VerdictStays` except what a cut row
does: the resume appends behind it, so the first new row becomes part of it; a
row cut inside a character makes every later start raise. `RowsPerSample` allows
two rows for a sample without frames, whose row is written again when its batch
is repeated. `ErrorsIsolated` counts a failed sample among those that are done,
as the code does: it is not tried again. `PassrateFinishes` excepts a kill
between the truncation of the file and its last byte. `WindowsAligned` holds
however many workers fail, because a worker returns whole rollouts only, and it
speaks of files that were closed: a file cut by a kill may have any length, and is
skipped by the next start as if it were whole. `ManifestCounts` says that the
cumulative count is exact unless a handoff was aborted after its record; then it
is too high. `HandoffFinishes` says that the last segment comes to its end, and that
its tracker then names the last step, unless a tracker was cut.

Deadlock is checked for `sharded`. Elsewhere the system may stop: the supervisor
leaves and its helpers end; a checkpoint file that does not decode ends every
rerun of the rollout; the resume loop exits; the trainer ends, or waits for ever
in the cases above; the jobs are over, or their file cannot be read.

Fairness. Weak fairness of each process: a script runs on unless it fails.
Crashes and faults are never fair and are bounded, so that "as long as failures
end" has a meaning. `NvmlRepair` and `Release` are fair because the scripts
themselves are written for instances repaired by hand and cards given back. In
`ShardedEval` and `RolloutResume` the operator reruns the command, which both
programs ask for; in `SupervisedEval` and `AutoResume` the loop is what reruns.
In `FullyAsync` the event loop runs every coroutine that is ready, Ray delivers
the calls, a generation ends, and the monitor wakes up every ten seconds: weak
fairness of each, and none of a generation that raises. The synchronizer's calls have
strong fairness: a delivered call waits for the lock or for the end of a stretch of
the processor, and stays where it is while the processor runs, so the event loop
gets to it; with weak fairness, a processor that starts requests which the paused
servers give back at once could keep `resume()` away for ever. In `MC_Jobs` each program
runs on and whoever ran it starts it again, as the resume code of each expects;
kills, failing workers, stops and aborts are bounded and never fair.

## 4. Proofs

`ShardedEval_proofs` proves, for every number of instances, chunks, shards and
failures: `TypeCorrect`, `OneWriter`, and under `StrictCheck` (the scripts other
than the vLLM one) `Progress` and `AllDoneComplete`. `OneWriterPerChunk` is not
inductive: it follows from `AtOwnChunk` (who works on a chunk owns it) and from
the modulo giving every chunk one owner. `ShardProgress` needs `FilesOfStage`:
what an instance finishes is on disk only because nobody removed its files since,
and nobody can because they would have to own the chunk. `IInv` is the
conjunction.

Its second part proves `Implementation`: under `StrictCheck` every step
maps to taking, committing or giving back one chunk, or to a stutter. It needs
`NotYetEvaluated` beside `IInv`: without it a chunk could become evaluated in the
hands of a process that has not finished it. The commit is the first sample, for
that is when the check of a rerun begins to accept the chunk.

Its third part proves `CutsBounded` from the invariant of that refinement:
a second samples file in a chunk would need a second process that found none there,
and a file is cut only by a crash while it is written, so that each crash adds one
chunk at most to those that are cut and not being written any more (`StepCuts`).
What an instance has passed is evaluated by `ShardProgress`, so it has a samples file
that is not empty, and if it lacks rows it is among the cut ones
(`PassedLackOnlyCuts`). It bounds files and says nothing of the chunks that no
instance has passed: they are missing from the totals without any crash.

`SupervisedEval_proofs` proves `LeftIsComplete` and `NeverRedone` under
`OneInvocation`: at most one live invocation of each helper (`supervised_twice`
shows it to be needed), no chunk of two helpers, the strict check, and a count that
is not below the number of chunks. It may count files, because a chunk has files of
its one helper only (`NoForeignFiles`, `CountIsTruthful`). That results stay after
it has left is less obvious, for a helper removes results without samples. `SInv`
says why that does not happen: a helper evaluates in the order of the list whatever
crashes (`Order1`, `Behind`, `Ahead`), and it was started because results were
missing, so as long as it removes anything some chunk still has none (`Needed`).

`RolloutResume_proofs` proves `Typed` for any numbers of workers, and `Once` and
`Accounts` for any number of samples, attempts, failures and workers, as long as all
runs have the same number of them (`OneCount`; without it a run does not read the
files of the others, section 3). `RInv` says that no two lines are of one sample
(`LinesOnce`), that pending samples are on no file and in one pool (`PendingOnce`),
that what was given up is neither (`GivenUp`), and that every sample of the run is
saved, given up or pending, unless some line is spoilt (`Covered`). A record that is
glued to a cut line takes a sample from the files, but it leaves a line there that
is no JSON, and then no run ever merges (`WriteLine`): that is why nothing is lost
unnoticed, and also why `rollout_cut` never comes to an end.

`AutoResume_proofs` proves, for every number of ranks, steps, crashes and
attempts and every save frequency, `LoopTyped`, `InStep`, `Loss` and `KeepsFew` for
any `Keep`, and `TrackedWhole` for `Keep # 1`. `BaseInv` carries the first two: a save
goes to a step beyond the tracked one, so it never overwrites it, and the
dataloader's state of the tracked step is that of the step. `Loss` adds
`SaveGap`: since the tracked step no multiple of `SaveFreq` went by without a
save, that is, the step is beyond the tracked one by at most its remainder;
`RemainderGrows` is the arithmetic it needs. `IInv` adds to `BaseInv` that the last
remembered checkpoint is the tracked one, which a rotation spares: that is false
for `Keep = 1` (section 3), so the assumption cannot be dropped. `KeepsFew` rests on
`KeepInv`: what an attempt wrote and did not remove is in `previous_saved_paths`, but
for the checkpoint in the making, for which the rotation left room.

`DurableImplementation` shows that the loop with its runs implements
`DurableProgress`, again for every `Keep`: each step maps to one step there or to
a stutter. A load begins at the tracked step because the dataloader's state of that
step is there (`TrackedData`); a batch stays within the gap by `SaveGap`
(`WithinGap`); truncating the tracker is the commit, which goes forwards by
`RunInv`; a crash falls, or loses if the tracker is empty. This says more than
the invariants do: the step a resume comes back to never goes back, and a run starts
at no other. `LossBounded` follows, and is proved of itself as `Loss`.

Its second part proves `Counts`, and under `Keep # 1` `HandedOverIsWhole`, again
for any number of everything. A stop is one more crash and a new segment one more
initial state, so the invariant of the loop carries over (`StopKeeps`,
`NewSegmentKeeps`, `NextBoth`). `HandoffInv` adds that between record and new
segment the manifest is ahead of the weights by exactly the segment handed over.

`FullyAsync_proofs` proves `Typed`, `Bounded`, `Quiet`, `Assigned`, `Ends` and `Lag`
for any number of samples, batch size, concurrency, limit, mode and failures. Each
part of `IInv` has one reason: `LockInv`, whoever is between two awaits under the
lock is its holder; `PhaseInv`, the order of the phases of synchronization and
shutdown; `CountInv`, the partial sum that `update_param_version` holds until the
queue has answered, and the sum until it is stored, miss at most one sample, without
which the bound on `staleness` says nothing of what is in flight; `QuietInv`, a pause holds unless
`stirred`; `BoundInv`, while `done_tasks` is unassigned the processor either was never
interrupted (`Alone`, `FirstTurn`) or waits under the lock, so nobody can empty
`active_tasks` at the wrong moment; `SumInv`, samples taken equal samples in
flight, collected, trained and dropped; `ShutInv`, the None is sent after
everything else; `PartialInv`, only partial mode interrupts. `Lag` (`VersionLag`)
needs `LagInv` on top: `ClockInv`, the trainer's version counts what it has trained
and is ahead of the rollouter's by the synchronizations under way; `FlowInv`, what
was taken or is in flight stays within the limit above the version after the
rollouter's; `AgeInv`, so does the turn of every sample by the version it was
finished under, at each place of the three queues. The products of the constants
are kept behind `Used` and `Part`, whose few laws are in `BatchFacts`.

`Listing_proofs` holds the facts about lists that the next two need: with ranks
that grow (`Orders`) `Listed` enumerates its set once, in order, and its
k-th element has k elements up to it. They follow from the cardinality of nested
finite sets, and a list cut in two at any place gives both parts and their ranges
(`CutInTwo`, `Joined`).

`Resume_proofs` proves the two jobs that resume by leaving out what their file
holds, for lists and batches of any length and any number of kills.
`NothingTwice`: `ResultsOnce` alone is not inductive, since a chunk is appended
without looking at what is there. `PrInv` is: the file is a prefix of the
dataset, and what is in memory is a prefix and all that comes behind it, which the
filter of a restart restores (`RemainingIsBack`).
`FilterImplementation` proves that the filter implements `DurableProgress`, with
`FileInStep` in addition: file and memory agree whenever a chunk begins, and the file
is behind until it is opened. This refinement is in no run.
For `run_eval.py` the invariant is `EvalInv`. `OneAtATime` and `Distinct` say where
a sample is: in the rest of the list, in the batch, or in the call, never twice.
`RowBounds` counts its rows by place, with one more allowed to a sample without
frames from the moment its batch may be repeated; this gives `OneRowPerSample`.
`Covered` (each sample has a row, will get one, or some row is torn) gives
`DoneIsComplete`; it needs `Readable`, that no start gets past a file that does not
decode. `ErrorsCounted` gives `NoErrorSpreads`: an error of a sample that is not
broken is written only in a repetition, with one memory error each. `VerdictsStand`
is an action property: a step changes the last row of a sample that has one only if
it writes "missing" behind "missing" (`MissingRows`), or if the last row was cut.
All steps that touch the file are put under two forms, `QuietStep` and `WriteStep`
(`WritingSteps`), so that each part of the invariant is proved twice and not
sixteen times.

`ValGeneration_proofs` proves `NoResponseTwice` and `WindowsHoldOneExample` for any
number of workers, rollouts, examples, tasks and failures. `GenInv` says of every
worker, of the collected list and of every closed file that it is `Complete`: it
holds each response once, and the responses of some set of rollouts to all
examples. `MadeWhole` has it for the first rollouts of the worker's share,
`CollectedWhole` joins workers, whose shares are disjoint by the modulo, and
`FilesWhole` keeps what was written. From completeness follow the windows: every
example has m responses, with m the number of rollouts in the file, so the score of
a response to example e has a rank from (e-1)m+1 to em (`ScoresInOrder`), and equal
windows are equal examples (`WindowOfExample`). A file with half a rollout would
shift them, and that a worker never returns one is `MadeWhole`.

Assumptions are those of the modules: `ConstantsAssumption`,
`ShardingAssumption` (one instance per shard, as the usage comment asks),
`SupervisorAssumption`, `RolloutAssumption`, `TrainerAssumption`,
`HandoffAssumption`, `ConfigAssumption`, `EvalAssumption`, `PassrateAssumption` and
`GenerationAssumption`. TLC evaluates them on the instances. `OneCount`,
`OneInvocation`, `StrictCheck` and `Keep # 1` are hypotheses of single theorems, and
section 3 says what happens without each.

Every invariant and every safety property of steps that a passing run checks is
stated by one of these theorems. Only model-checked is all liveness, which is out
of the prover's reach, with ENABLED: `EventuallyEvaluated`, `EveryClaimGetsResults`,
`EventuallyLeaves`, `MergedUnlessCut`, `TrainedUnlessCut`, `EventuallyEnds`,
`EvalAnswered`, `PassrateFinishes` and `HandoffFinishes`. `Resume_proofs` and
`ValGeneration_proofs` speak of `EvalSpec`, `PassrateSpec` and `GenSpec`, the parts
of `JobsSpec` that are run one per behaviour.

## 5. Not modelled

Rollout workers that outlive a killed `main`; a `rm -rf` or `rmtree` cut half
way; a samples file that is cut counts as present, as the code takes it; a write that
itself raises; several
epochs, the critic, HDFS, the HF export; the text filters of the rollout; a
killed supervisor or resume loop (the behaviour then just ends); ports, logs and
time. Of the fully asynchronous training: what validation computes,
checkpoints of the rollouter, the transfer of weights, a killed actor. The
parsing of answers and scores of `run_eval.py`, `score.py` and `grade.py`.
lmms_eval, NVML, the model merger and other users of the GPUs are external. The components
of section 1 without a module are listed in PROJECT.json with the reason.

## 6. Plan

1. The sharded script together with a helper (the comment at
   `run_p2_gpu03_helper.sh:94`).
2. Workers of the rollout that outlive `main`.
3. `DurableProgress` by identities instead of numbers, so that `EvalShard` and
   `RolloutResume`, which append to their files, can be held against it too.
