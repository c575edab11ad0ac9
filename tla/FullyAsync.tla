----------------------------- MODULE FullyAsync -----------------------------
(***************************************************************************)
(* OPRD/verl/recipe/fully_async_policy: the rollouter (an asyncio actor),  *)
(* the message queue, the parameter synchronizer and the trainer.          *)
(*                                                                         *)
(* A coroutine of the rollouter gives up the event loop only at an await   *)
(* that really waits: `loop' is "proc" while the processor runs between    *)
(* two such awaits, and every other coroutine of the rollouter needs it to *)
(* be "idle".  The lock is the first-come-first-served asyncio.Lock; its   *)
(* holder is the head of `lockq'.  The trainer, the queue and the servers  *)
(* are processes of their own and need neither.                            *)
(***************************************************************************)
EXTENDS Naturals, Sequences

CONSTANTS
  Total,          \* total_rollout_steps
  Required,       \* required_samples
  Trigger,        \* trigger_parameter_sync_step
  MaxRequired,    \* int(required_samples * (staleness_threshold + 1) * Trigger)
  Servers,        \* max_concurrent_samples before the min: 16 per server
  PendingCap,     \* maxsize of pending_queue
  Modes,          \* the values of partial_rollout to look at
  MaxFails        \* bound: generations that raise

\* The last line: the processor takes MaxConcurrent + 1 samples without giving
\* up the event loop, and the feed fills the queue whenever it gets it.
ASSUME ConfigAssumption ==
  /\ Total \in Nat /\ Required \in Nat \ {0} /\ Trigger \in Nat \ {0}
  /\ Servers \in Nat \ {0} /\ PendingCap \in Nat
  /\ MaxRequired \in Nat /\ MaxRequired >= Required * Trigger
  /\ Modes \subseteq BOOLEAN /\ MaxFails \in Nat
  /\ PendingCap > Servers \/ PendingCap > MaxRequired

VARIABLES
  partial,        \* async_training.partial_rollout
  \* the rollouter
  loop, lockq,
  paused, trigger,        \* monitor_loop_trigger
  staleness,              \* staleness_samples
  popped,                 \* what the processor has taken from pending_queue
  ppc, pstep, bound,      \* the processor; done_tasks has been assigned
  run, cut, done, bad,    \* active_tasks: generating, cancelled by the server,
                          \* finished, and how many of these have raised
  cancelled,              \* len(cancel_queue)
  resq, consumer,         \* result_queue and the sample being put, by version
  version,                \* current_param_version
  mon, main,              \* the monitor and _streaming_generation_main
  \* the other processes
  mq, endSignal,          \* the samples in the queue; whether the None is behind them
  dropped,                \* dropped_samples of the queue
  srvPaused,              \* the servers refuse requests
  rpc, snap,              \* the call from the synchronizer and its partial sum
  tpc, got, local, tversion, final, trained,   \* the trainer
  \* history
  fails,                  \* generations that raised
  stirred,                \* paused was cleared between a pause() and its resume()
  overcounted             \* staleness_samples was set above the samples in flight

procVars == <<ppc, pstep, bound>>
taskVars == <<run, cut, done, bad>>
flagVars == <<paused, trigger>>
outVars == <<resq, consumer>>
mqVars == <<mq, endSignal, dropped>>
histVars == <<fails, stirred, overcounted>>
trainVars == <<tpc, got, local, tversion, final, trained>>
rpcVars == <<rpc, snap, srvPaused, version>>
vars == <<partial, loop, lockq, flagVars, staleness, popped, procVars, taskVars,
          cancelled, outVars, mon, main, mqVars, rpcVars, trainVars, histVars>>

MaxConcurrent == IF Servers < MaxRequired THEN Servers ELSE MaxRequired

Active == run + cut + done
InHand == IF ppc \in {"limit", "submit", "submitWait"} THEN 1 ELSE 0
MqLen == Len(mq) + (IF endSignal THEN 1 ELSE 0)

\* Samples taken from pending_queue that the trainer has not received.
InFlight == InHand + run + cut + cancelled + Len(resq) + Len(consumer) + Len(mq)

\* one step of PEP-492 scheduling: an actor may enter the lock, or has to queue
MayEnter(a) == lockq # <<>> => Head(lockq) = a
Release == IF lockq = <<>> THEN lockq ELSE Tail(lockq)
Hold(a) == IF lockq = <<>> THEN <<a>> ELSE lockq
Queued(a) == \E i \in DOMAIN lockq : lockq[i] = a
Enqueue(a) == lockq # <<>> /\ ~Queued(a) /\ lockq' = Append(lockq, a)

\* Mutant of ShouldPause: only the queue is looked at.
QueueOnly == MqLen >= MaxRequired

ShouldPause == MqLen >= MaxRequired \/ staleness >= MaxRequired

\* Mutant of Notified: nobody is woken.
NotifiedNone == ppc

\* condition.notify_all: the processor is the only one that waits
Notified == IF ppc = "idleWait" THEN "idle" ELSE IF ppc = "submitWait" THEN "submit" ELSE ppc

Init ==
  /\ partial \in Modes
  /\ loop = "idle" /\ lockq = <<>>
  /\ paused = FALSE /\ trigger = TRUE
  /\ staleness = 0
  /\ popped = 0
  /\ ppc = "top" /\ pstep = "check" /\ bound = FALSE
  /\ run = 0 /\ cut = 0 /\ done = 0 /\ bad = 0 /\ cancelled = 0
  /\ resq = <<>> /\ consumer = <<>>
  /\ version = 0
  /\ mon = "sleep" /\ main = "stream"
  /\ mq = <<>> /\ endSignal = FALSE /\ dropped = 0
  /\ srvPaused = FALSE /\ rpc = "none" /\ snap = 0
  /\ tpc = "get" /\ got = 0 /\ local = 1 /\ tversion = 0 /\ final = FALSE /\ trained = 0
  /\ fails = 0 /\ stirred = FALSE /\ overcounted = FALSE

-----------------------------------------------------------------------------
(* _processor_worker. _feed_samples refills pending_queue whenever it gets  *)
(* the event loop, so by ConfigAssumption the processor never finds it      *)
(* empty.                                                                  *)

procRest == <<partial, outVars, mon, main, mqVars, rpcVars, trainVars, histVars>>

\* A processor that has been woken gets the event loop.
ProcResume ==
  /\ loop = "idle" /\ loop' = "proc"
  /\ ppc \in {"top", "idle", "submit"} /\ ~Queued("proc")
  /\ UNCHANGED <<procRest, lockq, flagVars, staleness, popped, procVars, taskVars, cancelled>>

\* Where the processor's next await is an acquire of the lock.
AtLock == ppc \in {"pauseLock", "idle", "submit"} \/ (ppc \in {"drain", "limit", "last"} /\ pstep = "lock")

ProcBlocks ==
  /\ loop = "proc" /\ loop' = "idle"
  /\ AtLock /\ Enqueue("proc")
  /\ UNCHANGED <<procRest, flagVars, staleness, popped, procVars, taskVars, cancelled>>

ProcHasLock ==
  \/ loop = "proc" /\ lockq = <<>>
  \/ loop = "idle" /\ lockq # <<>> /\ Head(lockq) = "proc"

ProcPauses ==
  /\ loop = "proc" /\ ppc = "top"
  /\ paused \/ ShouldPause
  /\ ppc' = "pauseLock"
  /\ UNCHANGED <<procRest, loop, lockq, flagVars, staleness, popped, pstep, bound, taskVars, cancelled>>

\* cancel_queue first, and without counting; then pending_queue, which holds
\* Total samples and, as the last item, "DONE"
ProcTakes ==
  /\ loop = "proc" /\ ppc = "top"
  /\ ~paused /\ ~ShouldPause
  /\ \/ /\ cancelled > 0 /\ cancelled' = cancelled - 1
        /\ ppc' = "limit"
        /\ UNCHANGED <<staleness, popped>>
     \/ /\ cancelled = 0
        /\ popped' = popped + 1 /\ staleness' = staleness + 1
        /\ ppc' = IF popped = Total THEN "last" ELSE "limit"
        /\ UNCHANGED cancelled
  /\ pstep' = "check"
  /\ UNCHANGED <<procRest, loop, lockq, flagVars, bound, taskVars>>

\* `async with self.lock: self.paused = True'
ProcSetsPaused ==
  /\ ppc = "pauseLock" /\ ProcHasLock
  /\ paused' = TRUE /\ lockq' = Release /\ loop' = "proc"
  /\ ppc' = "drain" /\ pstep' = "check"
  /\ UNCHANGED <<procRest, trigger, staleness, popped, bound, taskVars, cancelled>>

\* The three loops that wait for tasks: while pausing ("drain"), at the
\* limit of concurrent samples ("limit"), after "DONE" ("last").
LoopGoesOn == IF ppc = "limit" THEN Active >= MaxConcurrent ELSE Active > 0

ProcLoop ==
  /\ loop = "proc" /\ ppc \in {"drain", "limit", "last"} /\ pstep = "check"
  /\ IF LoopGoesOn
       THEN pstep' = "lock" /\ UNCHANGED ppc
       ELSE /\ ppc' = CASE ppc = "drain" -> "idle" [] ppc = "limit" -> "submit" [] ppc = "last" -> "ended"
            /\ UNCHANGED pstep
  /\ loop' = IF ppc' = "ended" THEN "idle" ELSE "proc"
  /\ UNCHANGED <<procRest, lockq, flagVars, staleness, popped, bound, taskVars, cancelled>>

\* With the lock: wait for a task, or none is left. Then done_tasks is what
\* an earlier round left in it, or has never been assigned.
ProcLoopLocked ==
  /\ ppc \in {"drain", "limit", "last"} /\ pstep = "lock" /\ ProcHasLock
  /\ IF Active > 0
       THEN pstep' = "wait" /\ lockq' = Hold("proc") /\ loop' = "idle" /\ UNCHANGED ppc
       ELSE /\ pstep' = "check" /\ lockq' = Release
            /\ IF bound THEN UNCHANGED ppc /\ loop' = "proc"
                        ELSE ppc' = "failed" /\ loop' = "idle"
  /\ UNCHANGED <<procRest, flagVars, staleness, popped, bound, taskVars, cancelled>>

\* Mutant of ProcTaskReturns: the finished tasks get another name.
ProcTaskReturnsRenamed ==
  /\ loop = "idle" /\ pstep = "wait" /\ done > 0
  /\ done' = 0 /\ bad' = 0
  /\ pstep' = "check" /\ lockq' = Release
  /\ IF bad > 0 THEN ppc' = "failed" /\ loop' = "idle"
                ELSE UNCHANGED ppc /\ loop' = "proc"
  /\ UNCHANGED <<procRest, flagVars, staleness, popped, bound, run, cut, cancelled>>

\* asyncio.wait has returned: active_tasks keeps the others, and an exception
\* of a finished one ends the processor
ProcTaskReturns ==
  /\ loop = "idle" /\ pstep = "wait" /\ done > 0
  /\ done' = 0 /\ bad' = 0 /\ bound' = TRUE
  /\ pstep' = "check" /\ lockq' = Release
  /\ IF bad > 0 THEN ppc' = "failed" /\ loop' = "idle"
                ELSE UNCHANGED ppc /\ loop' = "proc"
  /\ UNCHANGED <<procRest, flagVars, staleness, popped, run, cut, cancelled>>

\* Mutant of MustWait: paused is not looked at again.
WaitsNever == FALSE

MustWait == paused

ProcIdles ==
  /\ ppc = "idle" /\ ProcHasLock
  /\ lockq' = Release
  /\ IF MustWait THEN ppc' = "idleWait" /\ loop' = "idle"
               ELSE ppc' = "top" /\ loop' = "proc"
  /\ UNCHANGED <<procRest, flagVars, staleness, popped, pstep, bound, taskVars, cancelled>>

\* Servers that have been told to cancel return a new request as cancelled.
ProcSubmits ==
  /\ ppc = "submit" /\ ProcHasLock
  /\ lockq' = Release
  /\ IF MustWait
       THEN ppc' = "submitWait" /\ loop' = "idle" /\ UNCHANGED <<run, cut>>
       ELSE /\ ppc' = "top" /\ loop' = "proc"
            /\ IF srvPaused THEN cut' = cut + 1 /\ UNCHANGED run
                            ELSE run' = run + 1 /\ UNCHANGED cut
  /\ UNCHANGED <<procRest, flagVars, staleness, popped, pstep, bound, done, bad, cancelled>>

Processor ==
  \/ ProcResume \/ ProcBlocks \/ ProcPauses \/ ProcTakes \/ ProcSetsPaused
  \/ ProcLoop \/ ProcLoopLocked \/ ProcTaskReturns \/ ProcIdles \/ ProcSubmits

-----------------------------------------------------------------------------
(* _process_single_sample_streaming, _consumer_worker.                     *)

taskRest == <<partial, loop, lockq, flagVars, staleness, popped, procVars, mon, main, rpcVars,
              trainVars, stirred, overcounted>>

TaskFinishes ==
  /\ loop = "idle" /\ run > 0
  /\ run' = run - 1 /\ done' = done + 1
  /\ resq' = Append(resq, version)
  /\ UNCHANGED <<taskRest, cut, bad, cancelled, consumer, mqVars, fails>>

TaskCancelled ==
  /\ loop = "idle" /\ cut > 0
  /\ cut' = cut - 1 /\ done' = done + 1
  /\ cancelled' = cancelled + 1
  /\ UNCHANGED <<taskRest, run, bad, outVars, mqVars, fails>>

\* the sample is gone with its task
TaskFails ==
  /\ loop = "idle" /\ run > 0 /\ fails < MaxFails
  /\ run' = run - 1 /\ done' = done + 1 /\ bad' = bad + 1 /\ fails' = fails + 1
  /\ UNCHANGED <<taskRest, cut, cancelled, outVars, mqVars>>

ConsumerTakes ==
  /\ loop = "idle" /\ main = "stream"
  /\ consumer = <<>> /\ resq # <<>>
  /\ consumer' = <<Head(resq)>> /\ resq' = Tail(resq)
  /\ UNCHANGED <<taskRest, taskVars, cancelled, mqVars, fails>>

\* put_sample: a full queue loses its oldest sample
QueueFull == MqLen >= MaxRequired

\* Mutant of Kept: the oldest sample stays.
KeptAll == mq

Kept == IF QueueFull THEN Tail(mq) ELSE mq

CountDrop == dropped' = IF QueueFull THEN dropped + 1 ELSE dropped

ConsumerPuts ==
  /\ consumer # <<>>
  /\ mq' = Append(Kept, Head(consumer)) /\ CountDrop
  /\ consumer' = <<>>
  /\ UNCHANGED <<taskRest, taskVars, cancelled, resq, endSignal, fails>>

-----------------------------------------------------------------------------
(* _streaming_generation_main after the start, _async_monitor_loop.        *)

FeedDone == popped + PendingCap >= Total + 1

\* Mutant of Joined: the join is left out.
JoinedNever == TRUE

Joined == resq = <<>> /\ consumer = <<>>

mainRest == <<partial, loop, flagVars, staleness, popped, procVars, taskVars, cancelled, outVars,
              rpcVars, trainVars, histVars>>

\* The result queue has been joined, or the processor's exception has been
\* seen, which is not before the feed is done.
StreamEnds ==
  /\ loop = "idle" /\ main = "stream" /\ FeedDone
  /\ \/ ppc = "ended" /\ Joined
     \/ ppc = "failed"
  /\ main' = "send"
  /\ UNCHANGED <<mainRest, lockq, mon, mqVars>>

\* put_sample(None), behind what the consumer has put
SendNone ==
  /\ loop = "idle" /\ main = "send" /\ consumer = <<>>
  /\ main' = "lock"
  /\ mq' = Kept /\ CountDrop
  /\ endSignal' = TRUE
  /\ UNCHANGED <<mainRest, lockq, mon>>

\* running = False, which ends the monitor
Close ==
  /\ loop = "idle" /\ main = "lock"
  /\ \/ MayEnter("main") /\ lockq' = Release /\ main' = "closed"
     \/ Enqueue("main") /\ UNCHANGED main
  /\ UNCHANGED <<mainRest, mon, mqVars>>

monRest == <<partial, loop, trigger, staleness, popped, pstep, bound, taskVars, cancelled, outVars,
             main, mqVars, rpcVars, trainVars, fails, overcounted>>

\* between the end of pause() and resume()
SyncPhases == {"mq", "weights", "update", "size", "count", "validate", "resume"}

Unpause ==
  /\ paused' = FALSE /\ ppc' = Notified
  /\ stirred' = (stirred \/ rpc \in SyncPhases)

\* Every 10 seconds, with a look at running in between, for which it needs the
\* lock too; what it has tested may be stale when it gets the lock.
MonitorTests ==
  /\ loop = "idle" /\ mon = "sleep" /\ main # "closed"
  /\ \/ trigger /\ ~ShouldPause /\ lockq = <<>> /\ Unpause /\ UNCHANGED <<mon, lockq>>
     \/ /\ Enqueue("mon")
        /\ mon' = IF trigger /\ ~ShouldPause THEN "lock" ELSE "look"
        /\ UNCHANGED <<paused, ppc, stirred>>
  /\ UNCHANGED monRest

\* Whoever waits by now is before the monitor when it needs the lock again.
MonitorUnpauses ==
  /\ loop = "idle" /\ mon = "lock" /\ lockq # <<>> /\ Head(lockq) = "mon"
  /\ Unpause
  /\ IF Tail(lockq) = <<>> THEN lockq' = <<>> /\ mon' = "sleep"
                           ELSE lockq' = Append(Tail(lockq), "mon") /\ mon' = "look"
  /\ UNCHANGED monRest

MonitorLooks ==
  /\ loop = "idle" /\ mon = "look" /\ lockq # <<>> /\ Head(lockq) = "mon"
  /\ lockq' = Tail(lockq) /\ mon' = "sleep"
  /\ UNCHANGED <<monRest, paused, ppc, stirred>>

-----------------------------------------------------------------------------
(* sync_weights: pause(), the weights, update_param_version(), resume().   *)

rpcRest == <<partial, loop, popped, pstep, bound, outVars, mon, main, mqVars, fails, cancelled>>

RpcQueues ==
  /\ loop = "idle" /\ rpc \in {"pause", "update", "resume"}
  /\ Enqueue("rpc")
  /\ UNCHANGED <<rpcRest, flagVars, staleness, ppc, taskVars, rpcVars, trainVars, stirred, overcounted>>

PauseEnters ==
  /\ loop = "idle" /\ rpc = "pause" /\ MayEnter("rpc")
  /\ lockq' = Hold("rpc") /\ paused' = TRUE /\ stirred' = FALSE
  /\ rpc' = IF partial THEN "cancel" ELSE "gather"
  /\ UNCHANGED <<rpcRest, trigger, staleness, ppc, taskVars, snap, srvPaused, version, trainVars, overcounted>>

ServersCancel ==
  /\ rpc = "cancel" /\ rpc' = "gather"
  /\ srvPaused' = TRUE /\ cut' = cut + run /\ run' = 0
  /\ UNCHANGED <<rpcRest, lockq, flagVars, staleness, ppc, done, bad, snap, version, trainVars, stirred, overcounted>>

\* gather(..., return_exceptions=True): a failed sample goes unnoticed
PauseGathers ==
  /\ loop = "idle" /\ rpc = "gather" /\ run + cut = 0
  /\ done' = 0 /\ bad' = 0 /\ rpc' = "reset"
  /\ UNCHANGED <<rpcRest, lockq, flagVars, staleness, ppc, run, cut, snap, srvPaused, version,
                 trainVars, stirred, overcounted>>

\* only now, after reset_prefix_cache, does the monitor have to keep still
PauseEnds ==
  /\ loop = "idle" /\ rpc = "reset" /\ rpc' = "mq"
  /\ trigger' = FALSE /\ lockq' = Release
  /\ UNCHANGED <<rpcRest, paused, staleness, ppc, taskVars, snap, srvPaused, version, trainVars, stirred, overcounted>>

SyncStarts ==
  /\ rpc = "mq" /\ rpc' = "weights"
  /\ UNCHANGED <<rpcRest, lockq, flagVars, staleness, ppc, taskVars, snap, srvPaused, version,
                 trainVars, stirred, overcounted>>

\* the two calls are left to themselves and the trainer goes on
SyncDone ==
  /\ rpc = "weights" /\ rpc' = "update"
  /\ tpc' = IF final THEN "waitFinal" ELSE "get"
  /\ UNCHANGED <<rpcRest, lockq, flagVars, staleness, ppc, taskVars, snap, srvPaused, version,
                 got, local, tversion, final, trained, stirred, overcounted>>

Counted == Active + Len(resq) + cancelled

\* Mutant of UpdateEnters: the rollouter keeps its version.
UpdateEntersOld ==
  /\ loop = "idle" /\ rpc = "update" /\ MayEnter("rpc")
  /\ lockq' = Hold("rpc") /\ rpc' = "size"
  /\ version' = version /\ snap' = Counted
  /\ UNCHANGED <<rpcRest, flagVars, staleness, ppc, taskVars, srvPaused, trainVars, stirred, overcounted>>

\* The version is the argument of the call, one above the last call's, however
\* far the trainer is by now. Counted: the terms before the await of
\* get_queue_size.
UpdateEnters ==
  /\ loop = "idle" /\ rpc = "update" /\ MayEnter("rpc")
  /\ lockq' = Hold("rpc") /\ rpc' = "size"
  /\ version' = version + 1 /\ snap' = Counted
  /\ UNCHANGED <<rpcRest, flagVars, staleness, ppc, taskVars, srvPaused, trainVars, stirred, overcounted>>

\* get_queue_size: answered by the queue, whatever the rollouter is at
QueueTellsSize ==
  /\ rpc = "size" /\ rpc' = "count"
  /\ snap' = snap + MqLen
  /\ UNCHANGED <<rpcRest, lockq, flagVars, staleness, ppc, taskVars, srvPaused, version, trainVars,
                 stirred, overcounted>>

UpdateCounts ==
  /\ loop = "idle" /\ rpc = "count" /\ rpc' = "validate"
  /\ staleness' = snap
  /\ snap' = 0
  /\ overcounted' = (overcounted \/ staleness' > InFlight)
  /\ UNCHANGED <<rpcRest, lockq, flagVars, ppc, taskVars, srvPaused, version, trainVars, stirred>>

UpdateEnds ==
  /\ loop = "idle" /\ rpc = "validate" /\ rpc' = "resume"
  /\ lockq' = Release
  /\ UNCHANGED <<rpcRest, flagVars, staleness, ppc, taskVars, snap, srvPaused, version, trainVars, stirred, overcounted>>

ResumeEnters ==
  /\ loop = "idle" /\ rpc = "resume" /\ MayEnter("rpc")
  /\ paused' = FALSE /\ trigger' = TRUE /\ ppc' = Notified
  /\ IF partial THEN lockq' = Hold("rpc") /\ rpc' = "servers"
                ELSE lockq' = Release /\ rpc' = "none"
  /\ UNCHANGED <<rpcRest, staleness, taskVars, snap, srvPaused, version, trainVars, stirred, overcounted>>

ServersResume ==
  /\ loop = "idle" /\ rpc = "servers" /\ rpc' = "none"
  /\ srvPaused' = FALSE /\ lockq' = Release
  /\ UNCHANGED <<rpcRest, flagVars, staleness, ppc, taskVars, snap, version, trainVars, stirred, overcounted>>

Rpc ==
  \/ RpcQueues \/ PauseEnters \/ ServersCancel \/ PauseGathers \/ PauseEnds \/ SyncStarts \/ SyncDone
  \/ UpdateEnters \/ QueueTellsSize \/ UpdateCounts \/ UpdateEnds \/ ResumeEnters \/ ServersResume

-----------------------------------------------------------------------------
(* FullyAsyncTrainer.fit.                                                  *)

trainRest == <<partial, loop, lockq, flagVars, staleness, popped, procVars, taskVars, cancelled,
               outVars, mon, main, snap, srvPaused, version, histVars, dropped>>

\* None ends the collection; what has been collected is not trained
TrainerGets ==
  /\ tpc = "get"
  /\ \/ /\ mq # <<>> /\ mq' = Tail(mq)
        /\ got' = got + 1
        /\ tpc' = IF got + 1 = Required THEN "train" ELSE "get"
        /\ UNCHANGED endSignal
     \/ /\ mq = <<>> /\ endSignal
        /\ endSignal' = FALSE /\ tpc' = "finish"
        /\ UNCHANGED <<mq, got>>
  /\ UNCHANGED <<trainRest, local, tversion, final, trained, rpc>>

Trains ==
  /\ tpc = "train"
  /\ trained' = trained + Required /\ got' = 0
  /\ IF local < Trigger
       THEN local' = local + 1 /\ tpc' = "get" /\ UNCHANGED tversion
       ELSE local' = 1 /\ tpc' = "wait" /\ tversion' = tversion + 1
  /\ UNCHANGED <<trainRest, mq, endSignal, final, rpc>>

\* the last synchronization is left out if validation metrics are at hand
TrainerFinishes ==
  /\ tpc = "finish"
  /\ \/ tpc' = "end" /\ UNCHANGED <<local, tversion, final>>
     \/ tpc' = "wait" /\ local' = 1 /\ tversion' = tversion + 1 /\ final' = TRUE
  /\ UNCHANGED <<trainRest, mq, endSignal, got, trained, rpc>>

\* wait_last_valid, then sync_weights
TrainerSyncs ==
  /\ tpc = "wait" /\ rpc = "none"
  /\ rpc' = "pause" /\ tpc' = "sync"
  /\ UNCHANGED <<trainRest, mq, endSignal, got, local, tversion, final, trained>>

TrainerEnds ==
  /\ tpc = "waitFinal" /\ rpc = "none" /\ tpc' = "end"
  /\ UNCHANGED <<trainRest, mq, endSignal, got, local, tversion, final, trained, rpc>>

Trainer == TrainerGets \/ Trains \/ TrainerFinishes \/ TrainerSyncs \/ TrainerEnds

Consumer == ConsumerTakes \/ ConsumerPuts
Main == StreamEnds \/ SendNone \/ Close
Monitor == MonitorTests \/ MonitorUnpauses \/ MonitorLooks

Next ==
  \/ Processor \/ TaskFinishes \/ TaskCancelled \/ TaskFails \/ Consumer
  \/ Main \/ Monitor \/ Rpc \/ Trainer

\* The event loop runs every coroutine that is ready, generations end, the
\* monitor wakes up and the trainer goes on. Nothing says that one raises. A
\* call that is ready stays so while the processor runs, hence SF: requests that
\* come back cancelled at once must not keep resume() from the lock.
Spec ==
  /\ Init /\ [][Next]_vars
  /\ WF_vars(Processor) /\ WF_vars(TaskFinishes) /\ WF_vars(TaskCancelled)
  /\ WF_vars(Consumer) /\ WF_vars(Main) /\ WF_vars(Monitor) /\ SF_vars(Rpc) /\ WF_vars(Trainer)

(***************************************************************************)
(* Properties.                                                             *)
(***************************************************************************)

LockPoints == {"pauseLock", "idle", "submit", "drain", "limit", "last"}
Actors == {"proc", "rpc", "mon", "main"}

\* The state, with the length that the code promises: the queue never holds
\* more than max_queue_size items.
TypeOK ==
  /\ partial \in Modes /\ loop \in {"idle", "proc"}
  /\ lockq \in Seq(Actors)
  /\ paused \in BOOLEAN /\ trigger \in BOOLEAN
  /\ staleness \in Nat /\ popped \in 0..(Total + 1)
  /\ ppc \in LockPoints \cup {"top", "idleWait", "submitWait", "ended", "failed"}
  /\ pstep \in {"check", "lock", "wait"} /\ bound \in BOOLEAN
  /\ run \in Nat /\ cut \in Nat /\ done \in Nat /\ bad \in Nat /\ cancelled \in Nat
  /\ snap \in Nat /\ dropped \in Nat
  /\ version \in Nat /\ tversion \in Nat
  /\ resq \in Seq(Nat) /\ consumer \in Seq(Nat) /\ Len(consumer) <= 1
  /\ mq \in Seq(Nat) /\ endSignal \in BOOLEAN /\ MqLen <= MaxRequired
  /\ mon \in {"sleep", "lock", "look"} /\ main \in {"stream", "send", "lock", "closed"}
  /\ srvPaused \in BOOLEAN
  /\ rpc \in SyncPhases \cup {"none", "pause", "cancel", "gather", "reset", "servers"}
  /\ tpc \in {"get", "train", "wait", "sync", "finish", "waitFinal", "end"}
  /\ got \in 0..Required /\ local \in 1..Trigger /\ final \in BOOLEAN /\ trained \in Nat
  /\ fails \in 0..MaxFails /\ stirred \in BOOLEAN /\ overcounted \in BOOLEAN

\* fully_async_rollouter.py:585: the samples in flight exceed the limit on
\* staleness_samples by at most the one in the processor's hand and the one in
\* the consumer's, which update_param_version does not count.
InFlightBounded == InFlight <= MaxRequired + 2

\* param_sync.py:88: nothing is generated while the weights are replaced, unless
\* the monitor has undone the pause, and with partial rollout not even then.
QuietWeights == rpc = "weights" /\ run > 0 => stirred /\ ~partial

\* README.md:203: a synchronization waits for the tasks and adds no new ones.
NoNewTasks == rpc = "weights" => run = 0

\* fully_async_rollouter.py:351: done_tasks is assigned before it is read, in
\* whatever order the processor, pause() and the monitor get the lock.
NeverUnbound == fails = 0 => ppc # "failed"

\* fully_async_rollouter.py:484: when the trainer ends, every sample has been
\* trained, is left over from an incomplete batch, or was dropped by a full
\* queue; only the last drain in partial mode leaves samples in cancel_queue.
EverySampleEnds ==
  tpc = "end" /\ fails = 0 =>
    /\ trained + got + dropped + cancelled = Total
    /\ cancelled > 0 => partial

\* README.md:127: no sample is trained more versions late than staleness_threshold
\* plus one allows, with one batch that the trainer takes before the staleness is
\* reset and one sample in somebody's hand, however queues and synchronizations
\* interleave.
VersionLag ==
  [][TrainerGets /\ mq # <<>> =>
       (tversion - Head(mq)) * (Required * Trigger) <= MaxRequired + Required * Trigger + 1]_vars

\* The trainer comes to its end, unless the monitor has undone a pause(),
\* staleness_samples was set above what is in flight, or a generation failed
\* while _feed_samples still had samples to add.
Hung == ppc = "failed" /\ ~FeedDone

EventuallyEnds == <>(tpc = "end" \/ stirred \/ overcounted \/ Hung)

\* README.md:212: an interrupted sample continues after the synchronization.
InterruptedContinue == cancelled > 0 ~> (cancelled = 0 \/ popped > Total \/ fails > 0)
=============================================================================
