-------------------------- MODULE FullyAsync_proofs --------------------------
(***************************************************************************)
(* Safety of the fully asynchronous training, for any number of samples,   *)
(* batch size, concurrency, staleness limit and failures, with and without *)
(* partial rollout.                                                        *)
(***************************************************************************)
EXTENDS FullyAsync, TLAPS

(***************************************************************************)
(* The inductive invariant, one part for each reason.                      *)
(***************************************************************************)
Holder == IF lockq = <<>> THEN "none" ELSE Head(lockq)

\* Who is between two awaits inside the lock is its holder.
LockInv ==
  /\ rpc \in {"cancel", "gather", "reset", "size", "count", "validate", "servers"} => Holder = "rpc"
  /\ pstep = "wait" => ppc \in {"drain", "limit", "last"} /\ Holder = "proc"

\* The order of the phases: the trainer waits for the first half of a
\* synchronization, and the None follows everything else.
PhaseInv ==
  /\ rpc \in {"pause", "cancel", "gather", "reset", "mq", "weights"} => tpc = "sync"
  /\ tpc # "train" => got < Required
  /\ popped = Total + 1 => ppc \in {"last", "ended", "failed"}
  /\ main \in {"lock", "closed"} => consumer = <<>>
  /\ endSignal => main \in {"lock", "closed"}

\* While the size of the queue is awaited, the partial sum still counts all
\* but one of the samples outside the processor's hand, and of those in the
\* queue once the queue has told their number.
CountInv ==
  /\ InFlight <= staleness + 2
  /\ InFlight <= MaxRequired + 2
  /\ rpc = "size" => run + cut + cancelled + Len(resq) + Len(consumer) <= snap + 1
  /\ rpc = "count" => run + cut + cancelled + Len(resq) + Len(consumer) + Len(mq) <= snap + 1

\* A pause lasts until resume() unless the monitor ends it, and the servers of
\* partial mode refuse requests in between.
QuietInv ==
  /\ rpc \in {"cancel", "gather", "reset", "mq", "weights"} => paused \/ stirred
  /\ rpc \in {"gather", "reset", "mq", "weights"} /\ partial => srvPaused
  /\ rpc = "reset" => run = 0
  /\ rpc \in {"mq", "weights"} /\ run > 0 => stirred /\ ~partial

\* Until the first task returns, the processor has been alone: it has not yet
\* run, runs for the first time, or waits with the lock for that task.
Alone ==
  /\ cut = 0 /\ done = 0 /\ cancelled = 0
  /\ resq = <<>> /\ consumer = <<>> /\ mq = <<>> /\ ~endSignal
  /\ lockq = <<>> /\ mon = "sleep" /\ main = "stream" /\ rpc = "none" /\ tpc = "get"
  /\ ~srvPaused

FirstTurn ==
  /\ loop = "proc" /\ pstep \in {"check", "lock"}
  /\ paused => ppc = "drain"
  /\ \/ ppc = "top" /\ staleness = run
     \/ ppc \in {"pauseLock", "drain"} /\ run > 0
     \/ ppc = "limit" /\ staleness = run + 1 /\ (pstep = "lock" => run > 0)
     \/ ppc = "submit" /\ staleness = run + 1
     \/ ppc = "last" /\ (pstep = "lock" => run > 0)

BoundInv ==
  /\ fails = 0 => bad = 0
  /\ fails = 0 => ppc # "failed"
  /\ ~bound =>
       \/ Alone /\ loop = "idle" /\ ppc = "top" /\ staleness = 0 /\ run = 0 /\ ~paused
       \/ Alone /\ FirstTurn
       \/ pstep = "wait" /\ Active > 0
       \/ ppc \in {"ended", "failed"}

\* No sample is lost unless its generation has failed.
Accounted == InFlight + got + trained + dropped
Fed == IF popped > Total THEN Total ELSE popped

SumInv == fails = 0 => Accounted = Fed

\* The end: the processor is done before the None is sent, which is the last
\* thing the trainer takes; only partial mode interrupts samples.
ShutInv ==
  /\ tpc = "train" => got = Required
  /\ ppc \in {"last", "ended"} => popped > Total
  /\ ppc = "ended" => run <= 0 /\ cut <= 0 /\ done <= 0
  /\ main # "stream" => ppc \in {"ended", "failed"}
  /\ main # "stream" /\ ppc = "ended" => resq = <<>> /\ consumer = <<>>
  /\ final \/ tpc \in {"finish", "waitFinal", "end"} =>
       main \in {"lock", "closed"} /\ ~endSignal /\ mq = <<>>

PartialInv == cut > 0 \/ cancelled > 0 \/ srvPaused \/ rpc = "cancel" => partial

SafeInv == TypeOK /\ LockInv /\ PhaseInv
IInv == SafeInv /\ CountInv /\ QuietInv /\ BoundInv /\ SumInv /\ ShutInv /\ PartialInv

-----------------------------------------------------------------------------
(* The lock.                                                               *)

\* fully_async_rollouter.py:145: what entering, leaving and queuing for the
\* asyncio.Lock do to its holder.
LEMMA LockFacts ==
  ASSUME lockq \in Seq(Actors), NEW a \in Actors
  PROVE  /\ Release \in Seq(Actors)
         /\ Hold(a) \in Seq(Actors)
         /\ MayEnter(a) => Hold(a) # <<>> /\ Head(Hold(a)) = a /\ Holder \in {"none", a}
         /\ Enqueue(a) => /\ lockq' \in Seq(Actors)
                          /\ lockq' # <<>> /\ lockq # <<>>
                          /\ Head(lockq') = Head(lockq)
BY DEF Release, Hold, MayEnter, Enqueue, Holder

\* The processor acts inside the lock only when no other actor holds it.
LEMMA ProcHolds ==
  ASSUME ProcHasLock
  PROVE  Holder \in {"none", "proc"}
BY DEF ProcHasLock, Holder

-----------------------------------------------------------------------------
(* Types, the lock and the order of the phases.                            *)

LEMMA LockStep ==
  ASSUME TypeOK, LockInv, [Next]_vars
  PROVE  LockInv' /\ lockq' \in Seq(Actors)
<1> USE DEF LockInv
<1>0. /\ lockq \in Seq(Actors)
      /\ Release \in Seq(Actors)
      /\ lockq # <<>> => Release = Tail(lockq)
      /\ \A a \in Actors :
           /\ Hold(a) \in Seq(Actors)
           /\ MayEnter(a) => Hold(a) # <<>> /\ Head(Hold(a)) = a /\ Holder \in {"none", a}
           /\ Enqueue(a) => /\ lockq' \in Seq(Actors)
                            /\ lockq' # <<>> /\ lockq # <<>>
                            /\ Head(lockq') = Head(lockq)
  BY LockFacts DEF TypeOK, Release
<1>a. "proc" \in Actors /\ "rpc" \in Actors /\ "mon" \in Actors /\ "main" \in Actors
  BY DEF Actors
<1>b. ProcHasLock => Holder \in {"none", "proc"} /\ MayEnter("proc")
  BY ProcHolds DEF ProcHasLock, MayEnter
<1> USE DEF Holder, procRest, taskRest, mainRest, monRest, rpcRest, trainRest, procVars, taskVars, flagVars, outVars, mqVars, rpcVars, trainVars, histVars
<1>1. CASE ProcResume
  BY <1>1, <1>0, <1>a, <1>b DEF ProcResume
<1>2. CASE ProcBlocks
  BY <1>2, <1>0, <1>a, <1>b DEF ProcBlocks
<1>3. CASE ProcPauses
  BY <1>3, <1>0, <1>a, <1>b DEF ProcPauses
<1>4. CASE ProcTakes
  BY <1>4, <1>0, <1>a, <1>b DEF ProcTakes
<1>5. CASE ProcSetsPaused
  BY <1>5, <1>0, <1>a, <1>b DEF ProcSetsPaused
<1>6. CASE ProcLoop
  BY <1>6, <1>0, <1>a, <1>b DEF ProcLoop
<1>7. CASE ProcLoopLocked
  BY <1>7, <1>0, <1>a, <1>b DEF ProcLoopLocked
<1>8. CASE ProcTaskReturns
  BY <1>8, <1>0, <1>a, <1>b DEF ProcTaskReturns
<1>9. CASE ProcIdles
  BY <1>9, <1>0, <1>a, <1>b DEF ProcIdles
<1>10. CASE ProcSubmits
  BY <1>10, <1>0, <1>a, <1>b DEF ProcSubmits
<1>11. CASE TaskFinishes
  BY <1>11, <1>0, <1>a, <1>b DEF TaskFinishes
<1>12. CASE TaskCancelled
  BY <1>12, <1>0, <1>a, <1>b DEF TaskCancelled
<1>13. CASE TaskFails
  BY <1>13, <1>0, <1>a, <1>b DEF TaskFails
<1>14. CASE ConsumerTakes
  BY <1>14, <1>0, <1>a, <1>b DEF ConsumerTakes
<1>15. CASE ConsumerPuts
  BY <1>15, <1>0, <1>a, <1>b DEF ConsumerPuts
<1>16. CASE StreamEnds
  BY <1>16, <1>0, <1>a, <1>b DEF StreamEnds
<1>17. CASE SendNone
  BY <1>17, <1>0, <1>a, <1>b DEF SendNone
<1>18. CASE Close
  BY <1>18, <1>0, <1>a, <1>b DEF Close
<1>19. CASE MonitorTests
  BY <1>19, <1>0, <1>a, <1>b DEF MonitorTests, Unpause, Notified
<1>20. CASE MonitorUnpauses
  <2>1. lockq # <<>> /\ Head(lockq) = "mon" /\ UNCHANGED <<rpc, pstep>>
    BY <1>20 DEF MonitorUnpauses
  <2>2. pstep' # "wait" /\ rpc' \notin {"cancel", "gather", "reset", "size", "count", "validate", "servers"}
    BY <2>1
  <2>3. lockq' = <<>> \/ lockq' = Append(Tail(lockq), "mon")
    BY <1>20 DEF MonitorUnpauses
  <2>4. Append(Tail(lockq), "mon") \in Seq(Actors)
    <3>1. Tail(lockq) \in Seq(Actors)
      BY <2>1, <1>0
    <3> HIDE DEF Actors
    <3> QED
      BY <3>1, <1>a
  <2>5. lockq' \in Seq(Actors)
    <3>1. CASE lockq' = <<>>
      BY <3>1 DEF Actors
    <3>2. CASE lockq' = Append(Tail(lockq), "mon")
      BY ONLY <3>2, <2>4
    <3> QED
      BY ONLY <2>3, <3>1, <3>2
  <2> QED
    BY <2>2, <2>5
<1>20a. CASE MonitorLooks
  BY <1>20a, <1>0, <1>a, <1>b DEF MonitorLooks
<1>21. CASE RpcQueues
  BY <1>21, <1>0, <1>a, <1>b DEF RpcQueues
<1>22. CASE PauseEnters
  BY <1>22, <1>0, <1>a, <1>b DEF PauseEnters
<1>23. CASE ServersCancel
  BY <1>23, <1>0, <1>a, <1>b DEF ServersCancel
<1>24. CASE PauseGathers
  BY <1>24, <1>0, <1>a, <1>b DEF PauseGathers
<1>25. CASE PauseEnds
  BY <1>25, <1>0, <1>a, <1>b DEF PauseEnds
<1>26. CASE SyncStarts
  BY <1>26, <1>0, <1>a, <1>b DEF SyncStarts
<1>27. CASE SyncDone
  BY <1>27, <1>0, <1>a, <1>b DEF SyncDone
<1>28. CASE UpdateEnters
  BY <1>28, <1>0, <1>a, <1>b DEF UpdateEnters
<1>29. CASE UpdateCounts
  BY <1>29, <1>0, <1>a, <1>b DEF UpdateCounts
<1>29a. CASE QueueTellsSize
  BY <1>29a, <1>0, <1>a, <1>b DEF QueueTellsSize
<1>30. CASE UpdateEnds
  BY <1>30, <1>0, <1>a, <1>b DEF UpdateEnds
<1>31. CASE ResumeEnters
  BY <1>31, <1>0, <1>a, <1>b DEF ResumeEnters, Notified
<1>32. CASE ServersResume
  BY <1>32, <1>0, <1>a, <1>b DEF ServersResume
<1>33. CASE TrainerGets
  BY <1>33, <1>0, <1>a, <1>b DEF TrainerGets
<1>34. CASE Trains
  BY <1>34, <1>0, <1>a, <1>b DEF Trains
<1>35. CASE TrainerFinishes
  BY <1>35, <1>0, <1>a, <1>b DEF TrainerFinishes
<1>36. CASE TrainerSyncs
  BY <1>36, <1>0, <1>a, <1>b DEF TrainerSyncs
<1>37. CASE TrainerEnds
  BY <1>37, <1>0, <1>a, <1>b DEF TrainerEnds
<1>38. CASE UNCHANGED vars
  BY <1>38, <1>0, <1>a, <1>b DEF vars
<1> QED
  BY <1>1, <1>2, <1>3, <1>4, <1>5, <1>6, <1>7, <1>8, <1>9, <1>10, <1>11, <1>12, <1>13, <1>14, <1>15, <1>16, <1>17, <1>18, <1>19, <1>20, <1>20a, <1>21, <1>22, <1>23, <1>24, <1>25, <1>26, <1>27, <1>28, <1>29, <1>29a, <1>30, <1>31, <1>32, <1>33, <1>34, <1>35, <1>36, <1>37, <1>38
  DEF Next, Processor, Consumer, Main, Monitor, Rpc, Trainer

\* TypeOK in two halves, for provers that are good at one of them each.
FlagsOK ==
  /\ paused \in BOOLEAN /\ trigger \in BOOLEAN /\ bound \in BOOLEAN
  /\ endSignal \in BOOLEAN /\ srvPaused \in BOOLEAN /\ final \in BOOLEAN
  /\ stirred \in BOOLEAN /\ overcounted \in BOOLEAN

DataOK ==
  /\ partial \in Modes /\ loop \in {"idle", "proc"}
  /\ lockq \in Seq(Actors)
  /\ staleness \in Nat /\ popped \in 0..(Total + 1)
  /\ ppc \in LockPoints \cup {"top", "idleWait", "submitWait", "ended", "failed"}
  /\ pstep \in {"check", "lock", "wait"}
  /\ run \in Nat /\ cut \in Nat /\ done \in Nat /\ bad \in Nat /\ cancelled \in Nat
  /\ snap \in Nat /\ dropped \in Nat
  /\ version \in Nat /\ tversion \in Nat
  /\ resq \in Seq(Nat) /\ consumer \in Seq(Nat) /\ Len(consumer) <= 1
  /\ mq \in Seq(Nat) /\ MqLen <= MaxRequired
  /\ mon \in {"sleep", "lock", "look"} /\ main \in {"stream", "send", "lock", "closed"}
  /\ rpc \in SyncPhases \cup {"none", "pause", "cancel", "gather", "reset", "servers"}
  /\ tpc \in {"get", "train", "wait", "sync", "finish", "waitFinal", "end"}
  /\ got \in 0..Required /\ local \in 1..Trigger /\ trained \in Nat
  /\ fails \in 0..MaxFails

LEMMA TypeParts == TypeOK <=> FlagsOK /\ DataOK
BY Zenon DEF TypeOK, FlagsOK, DataOK

\* The constants, without the product that slows the provers down.
LEMMA ConstantFacts ==
  /\ Total \in Nat /\ Required \in Nat /\ Required > 0 /\ Trigger \in Nat /\ Trigger > 0
  /\ Servers \in Nat /\ Servers > 0 /\ PendingCap \in Nat
  /\ MaxRequired \in Nat /\ MaxRequired > 0 /\ Modes \subseteq BOOLEAN /\ MaxFails \in Nat
<1>1. \A a, b \in Nat \ {0} : a * b > 0
  BY SMT
<1> QED
  BY <1>1, ConfigAssumption

\* Sequences of versions.
LEMMA SeqFacts ==
  \A s \in Seq(Nat) :
    /\ Len(s) \in Nat
    /\ \A x \in Nat : Append(s, x) \in Seq(Nat) /\ Len(Append(s, x)) = Len(s) + 1
    /\ s # <<>> => Tail(s) \in Seq(Nat) /\ Len(Tail(s)) = Len(s) - 1 /\ Head(s) \in Nat /\ Len(s) > 0
    /\ Len(s) = 0 <=> s = <<>>
OBVIOUS

\* message_queue.py:81: what put_sample leaves of the queue.
LEMMA KeptFacts ==
  ASSUME TypeOK, ~endSignal
  PROVE  /\ Kept \in Seq(Nat) /\ Len(Kept) \in Nat /\ Len(Kept) < MaxRequired
         /\ QueueFull => Len(Kept) = Len(mq) - 1
         /\ ~QueueFull => Kept = mq
BY ConstantFacts DEF TypeOK, Kept, QueueFull, MqLen

LEMMA PhaseStep ==
  ASSUME TypeOK, PhaseInv, [Next]_vars
  PROVE  PhaseInv'
<1> USE ConstantFacts DEF PhaseInv, TypeOK
<1> USE DEF procRest, taskRest, mainRest, monRest, rpcRest, trainRest, procVars, taskVars, flagVars, outVars,
       mqVars, rpcVars, trainVars, histVars
<1>1. CASE ProcResume
  BY <1>1 DEF ProcResume
<1>2. CASE ProcBlocks
  BY <1>2 DEF ProcBlocks
<1>3. CASE ProcPauses
  BY <1>3 DEF ProcPauses
<1>4. CASE ProcTakes
  BY <1>4 DEF ProcTakes
<1>5. CASE ProcSetsPaused
  BY <1>5 DEF ProcSetsPaused
<1>6. CASE ProcLoop
  BY <1>6 DEF ProcLoop
<1>7. CASE ProcLoopLocked
  BY <1>7 DEF ProcLoopLocked
<1>8. CASE ProcTaskReturns
  BY <1>8 DEF ProcTaskReturns
<1>9. CASE ProcIdles
  BY <1>9 DEF ProcIdles
<1>10. CASE ProcSubmits
  BY <1>10 DEF ProcSubmits
<1>11. CASE TaskFinishes
  BY <1>11 DEF TaskFinishes
<1>12. CASE TaskCancelled
  BY <1>12 DEF TaskCancelled
<1>13. CASE TaskFails
  BY <1>13 DEF TaskFails
<1>14. CASE ConsumerTakes
  BY <1>14 DEF ConsumerTakes
<1>15. CASE ConsumerPuts
  BY <1>15 DEF ConsumerPuts
<1>16. CASE StreamEnds
  BY <1>16 DEF StreamEnds
<1>17. CASE SendNone
  BY <1>17 DEF SendNone
<1>18. CASE Close
  BY <1>18 DEF Close
<1>19. CASE MonitorTests
  BY <1>19 DEF MonitorTests, Unpause, Notified
<1>20. CASE MonitorUnpauses
  BY <1>20 DEF MonitorUnpauses, Unpause, Notified
<1>20a. CASE MonitorLooks
  BY <1>20a DEF MonitorLooks
<1>21. CASE RpcQueues
  BY <1>21 DEF RpcQueues
<1>22. CASE PauseEnters
  BY <1>22 DEF PauseEnters
<1>23. CASE ServersCancel
  BY <1>23 DEF ServersCancel
<1>24. CASE PauseGathers
  BY <1>24 DEF PauseGathers
<1>25. CASE PauseEnds
  BY <1>25 DEF PauseEnds
<1>26. CASE SyncStarts
  BY <1>26 DEF SyncStarts
<1>27. CASE SyncDone
  BY <1>27 DEF SyncDone
<1>28. CASE UpdateEnters
  BY <1>28 DEF UpdateEnters
<1>29. CASE UpdateCounts
  BY <1>29 DEF UpdateCounts
<1>29a. CASE QueueTellsSize
  BY <1>29a DEF QueueTellsSize
<1>30. CASE UpdateEnds
  BY <1>30 DEF UpdateEnds
<1>31. CASE ResumeEnters
  BY <1>31 DEF ResumeEnters, Notified
<1>32. CASE ServersResume
  BY <1>32 DEF ServersResume
<1>33. CASE TrainerGets
  BY <1>33 DEF TrainerGets
<1>34. CASE Trains
  BY <1>34 DEF Trains
<1>35. CASE TrainerFinishes
  BY <1>35 DEF TrainerFinishes
<1>36. CASE TrainerSyncs
  BY <1>36 DEF TrainerSyncs
<1>37. CASE TrainerEnds
  BY <1>37 DEF TrainerEnds
<1>38. CASE UNCHANGED vars
  BY <1>38 DEF vars
<1> QED
  BY <1>1, <1>2, <1>3, <1>4, <1>5, <1>6, <1>7, <1>8, <1>9, <1>10, <1>11, <1>12, <1>13, <1>14, <1>15, <1>16, <1>17, <1>18, <1>19, <1>20, <1>20a, <1>21, <1>22, <1>23, <1>24, <1>25, <1>26, <1>27, <1>28, <1>29, <1>29a, <1>30, <1>31, <1>32, <1>33, <1>34, <1>35, <1>36, <1>37, <1>38
  DEF Next, Processor, Consumer, Main, Monitor, Rpc, Trainer

LEMMA FlagsStep ==
  ASSUME FlagsOK, [Next]_vars
  PROVE  FlagsOK'
<1> USE DEF FlagsOK
<1> USE DEF procRest, taskRest, mainRest, monRest, rpcRest, trainRest, procVars, taskVars, flagVars, outVars,
       mqVars, rpcVars, trainVars, histVars
<1>1. CASE ProcResume
  BY <1>1, Zenon DEF ProcResume
<1>2. CASE ProcBlocks
  BY <1>2, Zenon DEF ProcBlocks
<1>3. CASE ProcPauses
  BY <1>3, Zenon DEF ProcPauses
<1>4. CASE ProcTakes
  BY <1>4, Zenon DEF ProcTakes
<1>5. CASE ProcSetsPaused
  BY <1>5, Zenon DEF ProcSetsPaused
<1>6. CASE ProcLoop
  BY <1>6, Zenon DEF ProcLoop
<1>7. CASE ProcLoopLocked
  BY <1>7, Zenon DEF ProcLoopLocked
<1>8. CASE ProcTaskReturns
  BY <1>8, Zenon DEF ProcTaskReturns
<1>9. CASE ProcIdles
  BY <1>9, Zenon DEF ProcIdles
<1>10. CASE ProcSubmits
  BY <1>10, Zenon DEF ProcSubmits
<1>11. CASE TaskFinishes
  BY <1>11, Zenon DEF TaskFinishes
<1>12. CASE TaskCancelled
  BY <1>12, Zenon DEF TaskCancelled
<1>13. CASE TaskFails
  BY <1>13, Zenon DEF TaskFails
<1>14. CASE ConsumerTakes
  BY <1>14, Zenon DEF ConsumerTakes
<1>15. CASE ConsumerPuts
  BY <1>15, Zenon DEF ConsumerPuts
<1>16. CASE StreamEnds
  BY <1>16, Zenon DEF StreamEnds
<1>17. CASE SendNone
  BY <1>17, Zenon DEF SendNone
<1>18. CASE Close
  BY <1>18, Zenon DEF Close
<1>19. CASE MonitorTests
  BY <1>19, Zenon DEF MonitorTests, Unpause
<1>20. CASE MonitorUnpauses
  BY <1>20, Zenon DEF MonitorUnpauses, Unpause
<1>20a. CASE MonitorLooks
  BY <1>20a, Zenon DEF MonitorLooks, Unpause
<1>21. CASE RpcQueues
  BY <1>21, Zenon DEF RpcQueues
<1>22. CASE PauseEnters
  BY <1>22, Zenon DEF PauseEnters
<1>23. CASE ServersCancel
  BY <1>23, Zenon DEF ServersCancel
<1>24. CASE PauseGathers
  BY <1>24, Zenon DEF PauseGathers
<1>25. CASE PauseEnds
  BY <1>25, Zenon DEF PauseEnds
<1>26. CASE SyncStarts
  BY <1>26, Zenon DEF SyncStarts
<1>27. CASE SyncDone
  BY <1>27, Zenon DEF SyncDone
<1>28. CASE UpdateEnters
  BY <1>28, Zenon DEF UpdateEnters
<1>29. CASE UpdateCounts
  BY <1>29, Zenon DEF UpdateCounts
<1>29a. CASE QueueTellsSize
  BY <1>29a, Zenon DEF QueueTellsSize
<1>30. CASE UpdateEnds
  BY <1>30, Zenon DEF UpdateEnds
<1>31. CASE ResumeEnters
  BY <1>31, Zenon DEF ResumeEnters
<1>32. CASE ServersResume
  BY <1>32, Zenon DEF ServersResume
<1>33. CASE TrainerGets
  BY <1>33, Zenon DEF TrainerGets
<1>34. CASE Trains
  BY <1>34, Zenon DEF Trains
<1>35. CASE TrainerFinishes
  BY <1>35, Zenon DEF TrainerFinishes
<1>36. CASE TrainerSyncs
  BY <1>36, Zenon DEF TrainerSyncs
<1>37. CASE TrainerEnds
  BY <1>37, Zenon DEF TrainerEnds
<1>38. CASE UNCHANGED vars
  BY <1>38, Zenon DEF vars
<1> QED
  BY <1>1, <1>2, <1>3, <1>4, <1>5, <1>6, <1>7, <1>8, <1>9, <1>10, <1>11, <1>12, <1>13, <1>14, <1>15, <1>16, <1>17, <1>18, <1>19, <1>20, <1>20a, <1>21, <1>22, <1>23, <1>24, <1>25, <1>26, <1>27, <1>28, <1>29, <1>29a, <1>30, <1>31, <1>32, <1>33, <1>34, <1>35, <1>36, <1>37, <1>38
  DEF Next, Processor, Consumer, Main, Monitor, Rpc, Trainer

LEMMA DataStep ==
  ASSUME TypeOK, PhaseInv, lockq' \in Seq(Actors), [Next]_vars
  PROVE  DataOK'
<1>d. DataOK
  BY TypeParts
<1> USE <1>d, ConstantFacts DEF DataOK, MqLen, LockPoints, SyncPhases
<1> USE DEF procRest, taskRest, mainRest, monRest, rpcRest, trainRest, procVars, taskVars, flagVars, outVars,
       mqVars, rpcVars, trainVars, histVars
<1>1. CASE ProcResume
  BY <1>1 DEF ProcResume
<1>2. CASE ProcBlocks
  BY <1>2 DEF ProcBlocks
<1>3. CASE ProcPauses
  BY <1>3 DEF ProcPauses
<1>4. CASE ProcTakes
  BY <1>4, SMTT(30) DEF ProcTakes, PhaseInv
<1>5. CASE ProcSetsPaused
  BY <1>5 DEF ProcSetsPaused
<1>6. CASE ProcLoop
  <2>1. ppc \in {"drain", "limit", "last"} /\ UNCHANGED <<procRest, lockq, staleness, popped, taskVars, cancelled>>
    BY <1>6, Zenon DEF ProcLoop
  <2>2. \/ ppc' = ppc /\ pstep' = "lock"
        \/ ppc' \in {"idle", "submit", "ended"} /\ pstep' = pstep
    <3>1. CASE LoopGoesOn
      BY <1>6, <3>1, Zenon DEF ProcLoop
    <3>2. CASE ~LoopGoesOn
      <4>1. /\ pstep' = pstep
            /\ ppc' = CASE ppc = "drain" -> "idle" [] ppc = "limit" -> "submit" [] ppc = "last" -> "ended"
        BY <1>6, <3>2, Zenon DEF ProcLoop
      <4> QED
        BY <2>1, <4>1
    <3> QED
      BY <3>1, <3>2
  <2>3. loop' \in {"idle", "proc"}
    BY <1>6 DEF ProcLoop
  <2> QED
    BY <2>1, <2>2, <2>3
<1>7. CASE ProcLoopLocked
  BY <1>7 DEF ProcLoopLocked
<1>8. CASE ProcTaskReturns
  BY <1>8 DEF ProcTaskReturns
<1>9. CASE ProcIdles
  BY <1>9 DEF ProcIdles
<1>10. CASE ProcSubmits
  BY <1>10 DEF ProcSubmits
<1>11. CASE TaskFinishes
  BY <1>11 DEF TaskFinishes
<1>12. CASE TaskCancelled
  BY <1>12 DEF TaskCancelled
<1>13. CASE TaskFails
  BY <1>13 DEF TaskFails
<1>14. CASE ConsumerTakes
  BY <1>14 DEF ConsumerTakes
<1>15. CASE ConsumerPuts
  <2>1. ~endSignal /\ Head(consumer) \in Nat
    BY <1>15 DEF ConsumerPuts, PhaseInv
  <2>2. /\ mq' = Append(Kept, Head(consumer)) /\ consumer' = <<>>
        /\ UNCHANGED <<taskRest, taskVars, cancelled, resq, endSignal, fails>>
        /\ dropped' \in Nat
    BY <1>15 DEF ConsumerPuts, CountDrop
  <2>3. Kept \in Seq(Nat) /\ Len(Kept) < MaxRequired
    BY <2>1, KeptFacts, Zenon
  <2>4. mq' \in Seq(Nat) /\ Len(mq') = Len(Kept) + 1 /\ endSignal' = endSignal
    BY <2>1, <2>2, <2>3, SeqFacts
  <2> QED
    BY <2>1, <2>2, <2>3, <2>4, SeqFacts
<1>16. CASE StreamEnds
  BY <1>16 DEF StreamEnds
<1>17. CASE SendNone
  <2>1. ~endSignal
    BY <1>17 DEF SendNone, PhaseInv
  <2>2. /\ main' = "lock" /\ mq' = Kept
        /\ UNCHANGED <<mainRest, lockq, mon>>
        /\ dropped' \in Nat
    BY <1>17 DEF SendNone, CountDrop
  <2>3. Kept \in Seq(Nat) /\ Len(Kept) < MaxRequired
    BY <2>1, KeptFacts, Zenon
  <2>4. mq' \in Seq(Nat) /\ MqLen' <= MaxRequired
    BY <2>2, <2>3, SeqFacts
  <2> QED
    BY <2>2, <2>4
<1>18. CASE Close
  BY <1>18 DEF Close
<1>19. CASE MonitorTests
  BY <1>19 DEF MonitorTests, Unpause, Notified
<1>20. CASE MonitorUnpauses
  BY <1>20 DEF MonitorUnpauses, Unpause, Notified
<1>20a. CASE MonitorLooks
  BY <1>20a DEF MonitorLooks
<1>21. CASE RpcQueues
  BY <1>21 DEF RpcQueues
<1>22. CASE PauseEnters
  BY <1>22 DEF PauseEnters
<1>23. CASE ServersCancel
  BY <1>23 DEF ServersCancel
<1>24. CASE PauseGathers
  BY <1>24 DEF PauseGathers
<1>25. CASE PauseEnds
  BY <1>25 DEF PauseEnds
<1>26. CASE SyncStarts
  BY <1>26 DEF SyncStarts
<1>27. CASE SyncDone
  BY <1>27 DEF SyncDone, PhaseInv
<1>28. CASE UpdateEnters
  BY <1>28 DEF UpdateEnters, Counted, Active
<1>29. CASE UpdateCounts
  BY <1>29 DEF UpdateCounts
<1>29a. CASE QueueTellsSize
  BY <1>29a DEF QueueTellsSize
<1>30. CASE UpdateEnds
  BY <1>30 DEF UpdateEnds
<1>31. CASE ResumeEnters
  BY <1>31 DEF ResumeEnters, Notified
<1>32. CASE ServersResume
  BY <1>32 DEF ServersResume
<1>33. CASE TrainerGets
  <2>1. UNCHANGED <<trainRest, local, tversion, final, trained, rpc>> /\ got < Required
    BY <1>33 DEF TrainerGets, PhaseInv
  <2>2. CASE mq # <<>>
    <3>1. mq' = Tail(mq) /\ endSignal' = endSignal
      BY <1>33, <2>2 DEF TrainerGets
    <3>3. mq' \in Seq(Nat) /\ Len(mq') = Len(mq) - 1
      BY <2>2, <3>1, SeqFacts
    <3>2. got' = got + 1 /\ tpc' \in {"get", "train"}
      BY <1>33, <2>2 DEF TrainerGets
    <3> QED
      BY <2>1, <3>1, <3>2, <3>3, SeqFacts
  <2>3. CASE mq = <<>>
    <3>1. mq' = mq /\ endSignal' = FALSE /\ got' = got /\ tpc' = "finish"
      BY <1>33, <2>3 DEF TrainerGets
    <3> QED
      BY <2>1, <3>1
  <2> QED
    BY <2>2, <2>3
<1>34. CASE Trains
  BY <1>34 DEF Trains
<1>35. CASE TrainerFinishes
  BY <1>35 DEF TrainerFinishes
<1>36. CASE TrainerSyncs
  BY <1>36 DEF TrainerSyncs
<1>37. CASE TrainerEnds
  BY <1>37 DEF TrainerEnds
<1>38. CASE UNCHANGED vars
  BY <1>38 DEF vars
<1> QED
  BY <1>1, <1>2, <1>3, <1>4, <1>5, <1>6, <1>7, <1>8, <1>9, <1>10, <1>11, <1>12, <1>13, <1>14, <1>15, <1>16, <1>17, <1>18, <1>19, <1>20, <1>20a, <1>21, <1>22, <1>23, <1>24, <1>25, <1>26, <1>27, <1>28, <1>29, <1>29a, <1>30, <1>31, <1>32, <1>33, <1>34, <1>35, <1>36, <1>37, <1>38
  DEF Next, Processor, Consumer, Main, Monitor, Rpc, Trainer

-----------------------------------------------------------------------------
(* The samples in flight.                                                  *)

LEMMA CountStep ==
  ASSUME TypeOK, LockInv, PhaseInv, CountInv, [Next]_vars
  PROVE  CountInv'
<1>t. /\ staleness \in Nat /\ snap \in Nat /\ popped \in 0..(Total + 1)
      /\ run \in Nat /\ cut \in Nat /\ done \in Nat /\ cancelled \in Nat
      /\ mq \in Seq(Nat) /\ resq \in Seq(Nat) /\ consumer \in Seq(Nat)
      /\ Len(consumer) <= 1
  BY Zenon DEF TypeOK
<1>l. /\ Len(mq) \in Nat /\ Len(resq) \in Nat /\ Len(consumer) \in Nat
      /\ MaxRequired \in Nat /\ Total \in Nat
  BY <1>t, ConstantFacts, SeqFacts
<1>h. ProcHasLock => rpc \notin {"size", "count"}
  BY ProcHolds DEF LockInv
<1> USE <1>t, <1>l DEF CountInv, InFlight, InHand
<1> USE DEF procRest, taskRest, mainRest, monRest, rpcRest, trainRest, procVars, taskVars, flagVars, outVars,
       mqVars, rpcVars, trainVars, histVars
<1>1. CASE ProcResume
  BY <1>1 DEF ProcResume
<1>2. CASE ProcBlocks
  BY <1>2 DEF ProcBlocks
<1>3. CASE ProcPauses
  BY <1>3 DEF ProcPauses
<1>4. CASE ProcTakes
  <2>1. /\ UNCHANGED procRest /\ UNCHANGED <<run, cut, done>>
        /\ staleness < MaxRequired /\ ppc = "top" /\ ppc' \in {"limit", "last"}
    BY <1>4 DEF ProcTakes, ShouldPause
  <2>2. CASE cancelled > 0
    <3>1. cancelled' = cancelled - 1 /\ staleness' = staleness
      BY <1>4, <2>2 DEF ProcTakes
    <3> QED
      BY <2>1, <2>2, <3>1
  <2>3. CASE cancelled = 0
    <3>1. cancelled' = cancelled /\ staleness' = staleness + 1
      BY <1>4, <2>3 DEF ProcTakes
    <3> QED
      BY <2>1, <2>3, <3>1
  <2> QED
    BY <2>2, <2>3
<1>5. CASE ProcSetsPaused
  BY <1>5 DEF ProcSetsPaused
<1>6. CASE ProcLoop
  BY <1>6 DEF ProcLoop
<1>7. CASE ProcLoopLocked
  BY <1>7 DEF ProcLoopLocked
<1>8. CASE ProcTaskReturns
  BY <1>8 DEF ProcTaskReturns
<1>9. CASE ProcIdles
  BY <1>9 DEF ProcIdles
<1>10. CASE ProcSubmits
  <2>1. ppc = "submit" /\ rpc \notin {"size", "count"} /\ UNCHANGED <<procRest, staleness, done, cancelled>>
    BY <1>10, <1>h DEF ProcSubmits
  <2>2. \/ ppc' = "submitWait" /\ UNCHANGED <<run, cut>>
        \/ ppc' = "top" /\ cut' = cut + 1 /\ run' = run
        \/ ppc' = "top" /\ run' = run + 1 /\ cut' = cut
    BY <1>10 DEF ProcSubmits
  <2> QED
    BY <2>1, <2>2, SMTT(30)
<1>11. CASE TaskFinishes
  BY <1>11, SeqFacts DEF TaskFinishes
<1>12. CASE TaskCancelled
  BY <1>12 DEF TaskCancelled
<1>13. CASE TaskFails
  BY <1>13 DEF TaskFails
<1>14. CASE ConsumerTakes
  BY <1>14, SeqFacts DEF ConsumerTakes
<1>15. CASE ConsumerPuts
  <2>0. consumer # <<>>
    BY <1>15 DEF ConsumerPuts
  <2>1. ~endSignal
    BY <2>0 DEF PhaseInv
  <2>6. Head(consumer) \in Nat /\ Len(consumer) > 0
    BY <2>0, SeqFacts
  <2>2. /\ mq' = Append(Kept, Head(consumer)) /\ consumer' = <<>>
        /\ UNCHANGED <<taskRest, taskVars, cancelled, resq>>
    BY <1>15 DEF ConsumerPuts
  <2>3. Kept \in Seq(Nat) /\ (Len(Kept) = Len(mq) - 1 \/ Kept = mq)
    BY <2>1, KeptFacts, Zenon
  <2>4. Len(mq') <= Len(mq) + 1 /\ Len(mq') \in Nat /\ Len(consumer') = 0
    BY <2>6, <2>2, <2>3, SeqFacts
  <2>5. UNCHANGED <<ppc, staleness, snap, rpc, run, cut, cancelled, resq>>
    BY <2>2
  <2> QED
    BY <2>6, <2>4, <2>5
<1>16. CASE StreamEnds
  BY <1>16 DEF StreamEnds
<1>17. CASE SendNone
  BY <1>17, SeqFacts, KeptFacts DEF SendNone, PhaseInv
<1>18. CASE Close
  BY <1>18 DEF Close
<1>19. CASE MonitorTests
  BY <1>19 DEF MonitorTests, Unpause, Notified
<1>20. CASE MonitorUnpauses
  BY <1>20 DEF MonitorUnpauses, Unpause, Notified
<1>20a. CASE MonitorLooks
  BY <1>20a DEF MonitorLooks
<1>21. CASE RpcQueues
  BY <1>21 DEF RpcQueues
<1>22. CASE PauseEnters
  BY <1>22 DEF PauseEnters
<1>23. CASE ServersCancel
  BY <1>23 DEF ServersCancel
<1>24. CASE PauseGathers
  BY <1>24 DEF PauseGathers
<1>25. CASE PauseEnds
  BY <1>25 DEF PauseEnds
<1>26. CASE SyncStarts
  BY <1>26 DEF SyncStarts
<1>27. CASE SyncDone
  BY <1>27 DEF SyncDone
<1>28. CASE UpdateEnters
  <2>1. rpc' = "size" /\ snap' = run + cut + done + Len(resq) + cancelled
    BY <1>28 DEF UpdateEnters, Counted, Active
  <2>2. UNCHANGED <<rpcRest, staleness, ppc, taskVars>>
    BY <1>28 DEF UpdateEnters
  <2> QED
    BY <2>1, <2>2
<1>29. CASE UpdateCounts
  <2>1. rpc = "count" /\ rpc' = "validate" /\ staleness' = snap
    BY <1>29 DEF UpdateCounts
  <2>2. UNCHANGED <<ppc, run, cut, cancelled, resq, consumer, mq>>
    BY <1>29 DEF UpdateCounts
  <2>3. InFlight' = InFlight /\ InFlight <= snap + 2
    BY <2>1, <2>2
  <2> QED
    BY <2>1, <2>3
<1>29a. CASE QueueTellsSize
  <2>1. rpc = "size" /\ rpc' = "count" /\ snap' = snap + MqLen
    BY <1>29a DEF QueueTellsSize
  <2>2. UNCHANGED <<ppc, staleness, run, cut, cancelled, resq, consumer, mq>>
    BY <1>29a DEF QueueTellsSize
  <2>3. MqLen >= Len(mq) /\ MqLen \in Nat
    BY DEF MqLen
  <2> HIDE DEF MqLen
  <2> QED
    BY <2>1, <2>2, <2>3
<1>30. CASE UpdateEnds
  BY <1>30 DEF UpdateEnds
<1>31. CASE ResumeEnters
  BY <1>31 DEF ResumeEnters, Notified
<1>32. CASE ServersResume
  BY <1>32 DEF ServersResume
<1>33. CASE TrainerGets
  BY <1>33, SeqFacts DEF TrainerGets
<1>34. CASE Trains
  BY <1>34 DEF Trains
<1>35. CASE TrainerFinishes
  BY <1>35 DEF TrainerFinishes
<1>36. CASE TrainerSyncs
  BY <1>36 DEF TrainerSyncs
<1>37. CASE TrainerEnds
  BY <1>37 DEF TrainerEnds
<1>38. CASE UNCHANGED vars
  BY <1>38 DEF vars
<1> QED
  BY <1>1, <1>2, <1>3, <1>4, <1>5, <1>6, <1>7, <1>8, <1>9, <1>10, <1>11, <1>12, <1>13, <1>14, <1>15, <1>16, <1>17, <1>18, <1>19, <1>20, <1>20a, <1>21, <1>22, <1>23, <1>24, <1>25, <1>26, <1>27, <1>28, <1>29, <1>29a, <1>30, <1>31, <1>32, <1>33, <1>34, <1>35, <1>36, <1>37, <1>38
  DEF Next, Processor, Consumer, Main, Monitor, Rpc, Trainer

-----------------------------------------------------------------------------
(* Generation during a synchronization.                                    *)

LEMMA QuietStep ==
  ASSUME TypeOK, LockInv, QuietInv, [Next]_vars
  PROVE  QuietInv'
<1>h. ProcHasLock => rpc \notin {"cancel", "gather", "reset"}
  BY ProcHolds DEF LockInv
<1>m. rpc \in {"cancel", "gather", "reset"} =>
        ~MayEnter("mon") /\ lockq # <<>> /\ Head(lockq) = "rpc"
  BY DEF LockInv, Holder, MayEnter
<1> USE DEF QuietInv, TypeOK, SyncPhases
<1> USE DEF procRest, taskRest, mainRest, monRest, rpcRest, trainRest, procVars, taskVars, flagVars, outVars,
       mqVars, rpcVars, trainVars, histVars
<1>1. CASE ProcResume
  BY <1>1 DEF ProcResume
<1>2. CASE ProcBlocks
  BY <1>2 DEF ProcBlocks
<1>3. CASE ProcPauses
  BY <1>3 DEF ProcPauses
<1>4. CASE ProcTakes
  BY <1>4 DEF ProcTakes
<1>5. CASE ProcSetsPaused
  BY <1>5, <1>h DEF ProcSetsPaused
<1>6. CASE ProcLoop
  BY <1>6 DEF ProcLoop
<1>7. CASE ProcLoopLocked
  BY <1>7 DEF ProcLoopLocked
<1>8. CASE ProcTaskReturns
  BY <1>8 DEF ProcTaskReturns
<1>9. CASE ProcIdles
  BY <1>9 DEF ProcIdles
<1>10. CASE ProcSubmits
  <2>1. UNCHANGED procRest /\ UNCHANGED flagVars /\ rpc \notin {"cancel", "gather", "reset"}
    BY <1>10, <1>h DEF ProcSubmits
  <2>2. \/ run' = run
        \/ ~paused /\ ~srvPaused
    BY <1>10 DEF ProcSubmits, MustWait
  <2> QED
    BY <2>1, <2>2
<1>11. CASE TaskFinishes
  BY <1>11 DEF TaskFinishes
<1>12. CASE TaskCancelled
  BY <1>12 DEF TaskCancelled
<1>13. CASE TaskFails
  BY <1>13 DEF TaskFails
<1>14. CASE ConsumerTakes
  BY <1>14 DEF ConsumerTakes
<1>15. CASE ConsumerPuts
  BY <1>15 DEF ConsumerPuts
<1>16. CASE StreamEnds
  BY <1>16 DEF StreamEnds
<1>17. CASE SendNone
  BY <1>17 DEF SendNone
<1>18. CASE Close
  BY <1>18 DEF Close
<1>19. CASE MonitorTests
  BY <1>19, <1>m DEF MonitorTests, Unpause, Notified
<1>20. CASE MonitorUnpauses
  BY <1>20, <1>m DEF MonitorUnpauses, Unpause, Notified
<1>20a. CASE MonitorLooks
  BY <1>20a, <1>m DEF MonitorLooks
<1>21. CASE RpcQueues
  BY <1>21 DEF RpcQueues
<1>22. CASE PauseEnters
  BY <1>22 DEF PauseEnters
<1>23. CASE ServersCancel
  BY <1>23 DEF ServersCancel
<1>24. CASE PauseGathers
  BY <1>24 DEF PauseGathers
<1>25. CASE PauseEnds
  BY <1>25 DEF PauseEnds
<1>26. CASE SyncStarts
  BY <1>26 DEF SyncStarts
<1>27. CASE SyncDone
  BY <1>27 DEF SyncDone
<1>28. CASE UpdateEnters
  BY <1>28 DEF UpdateEnters
<1>29. CASE UpdateCounts
  BY <1>29 DEF UpdateCounts
<1>29a. CASE QueueTellsSize
  BY <1>29a DEF QueueTellsSize
<1>30. CASE UpdateEnds
  BY <1>30 DEF UpdateEnds
<1>31. CASE ResumeEnters
  BY <1>31 DEF ResumeEnters, Notified
<1>32. CASE ServersResume
  BY <1>32 DEF ServersResume
<1>33. CASE TrainerGets
  BY <1>33 DEF TrainerGets
<1>34. CASE Trains
  BY <1>34 DEF Trains
<1>35. CASE TrainerFinishes
  BY <1>35 DEF TrainerFinishes
<1>36. CASE TrainerSyncs
  BY <1>36 DEF TrainerSyncs
<1>37. CASE TrainerEnds
  BY <1>37 DEF TrainerEnds
<1>38. CASE UNCHANGED vars
  BY <1>38 DEF vars
<1> QED
  BY <1>1, <1>2, <1>3, <1>4, <1>5, <1>6, <1>7, <1>8, <1>9, <1>10, <1>11, <1>12, <1>13, <1>14, <1>15, <1>16, <1>17, <1>18, <1>19, <1>20, <1>20a, <1>21, <1>22, <1>23, <1>24, <1>25, <1>26, <1>27, <1>28, <1>29, <1>29a, <1>30, <1>31, <1>32, <1>33, <1>34, <1>35, <1>36, <1>37, <1>38
  DEF Next, Processor, Consumer, Main, Monitor, Rpc, Trainer

-----------------------------------------------------------------------------
(* done_tasks.                                                             *)

LEMMA BoundStep ==
  ASSUME TypeOK, LockInv, PhaseInv, BoundInv, [Next]_vars
  PROVE  BoundInv'
<1>t. /\ staleness \in Nat /\ run \in Nat /\ cut \in Nat /\ done \in Nat /\ bad \in Nat /\ fails \in Nat
      /\ cancelled \in Nat /\ MaxRequired > 0 /\ MaxConcurrent > 0
      /\ MaxRequired \in Nat /\ MaxConcurrent \in Nat
      /\ pstep \in {"check", "lock", "wait"}
  BY ConstantFacts DEF TypeOK, MaxConcurrent
<1>h. ProcHasLock => rpc # "gather"
  BY ProcHolds DEF LockInv
<1>w. /\ rpc = "gather" => pstep # "wait"
      /\ pstep = "wait" => ppc \in {"drain", "limit", "last"} /\ lockq # <<>>
  BY DEF LockInv, Holder
<1> USE <1>t DEF BoundInv, Alone, FirstTurn, Active
<1> USE DEF procRest, taskRest, mainRest, monRest, rpcRest, trainRest, procVars, taskVars, flagVars, outVars,
       mqVars, rpcVars, trainVars, histVars
<1>1. CASE ProcResume
  BY <1>1, <1>w DEF ProcResume
<1>2. CASE ProcBlocks
  BY <1>2, <1>w DEF ProcBlocks, Enqueue, AtLock
<1>3. CASE ProcPauses
  BY <1>3, <1>w DEF ProcPauses, ShouldPause, MqLen
<1>4. CASE ProcTakes
  BY <1>4, <1>w DEF ProcTakes, ShouldPause, MqLen
<1>5. CASE ProcSetsPaused
  BY <1>5, <1>w DEF ProcSetsPaused, Release
<1>6. CASE ProcLoop
  BY <1>6, <1>w DEF ProcLoop, LoopGoesOn
<1>7. CASE ProcLoopLocked
  BY <1>7, <1>w DEF ProcLoopLocked
<1>8. CASE ProcTaskReturns
  BY <1>8, <1>w DEF ProcTaskReturns
<1>9. CASE ProcIdles
  BY <1>9, <1>w DEF ProcIdles, MustWait
<1>10. CASE ProcSubmits
  BY <1>10, <1>w DEF ProcSubmits, MustWait, Release
<1>11. CASE TaskFinishes
  BY <1>11, <1>w DEF TaskFinishes
<1>12. CASE TaskCancelled
  BY <1>12, <1>w DEF TaskCancelled
<1>13. CASE TaskFails
  BY <1>13, <1>w DEF TaskFails
<1>14. CASE ConsumerTakes
  BY <1>14, <1>w DEF ConsumerTakes
<1>15. CASE ConsumerPuts
  BY <1>15, <1>w DEF ConsumerPuts
<1>16. CASE StreamEnds
  BY <1>16, <1>w DEF StreamEnds
<1>17. CASE SendNone
  BY <1>17, <1>w DEF SendNone
<1>18. CASE Close
  BY <1>18, <1>w DEF Close
<1>19. CASE MonitorTests
  BY <1>19, <1>w DEF MonitorTests, Enqueue, Unpause, Notified
<1>20. CASE MonitorUnpauses
  BY <1>20, <1>w DEF MonitorUnpauses, Unpause, Notified
<1>20a. CASE MonitorLooks
  BY <1>20a, <1>w DEF MonitorLooks
<1>21. CASE RpcQueues
  BY <1>21, <1>w DEF RpcQueues
<1>22. CASE PauseEnters
  BY <1>22, <1>w DEF PauseEnters
<1>23. CASE ServersCancel
  BY <1>23, <1>w DEF ServersCancel
<1>24. CASE PauseGathers
  BY <1>24, <1>w DEF PauseGathers
<1>25. CASE PauseEnds
  BY <1>25, <1>w DEF PauseEnds
<1>26. CASE SyncStarts
  BY <1>26, <1>w DEF SyncStarts
<1>27. CASE SyncDone
  BY <1>27, <1>w DEF SyncDone
<1>28. CASE UpdateEnters
  BY <1>28, <1>w DEF UpdateEnters
<1>29. CASE UpdateCounts
  BY <1>29, <1>w DEF UpdateCounts
<1>29a. CASE QueueTellsSize
  BY <1>29a, <1>w DEF QueueTellsSize
<1>30. CASE UpdateEnds
  BY <1>30, <1>w DEF UpdateEnds
<1>31. CASE ResumeEnters
  BY <1>31, <1>w DEF ResumeEnters, Notified
<1>32. CASE ServersResume
  BY <1>32, <1>w DEF ServersResume
<1>33. CASE TrainerGets
  BY <1>33, <1>w DEF TrainerGets
<1>34. CASE Trains
  BY <1>34, <1>w DEF Trains
<1>35. CASE TrainerFinishes
  BY <1>35, <1>w DEF TrainerFinishes
<1>36. CASE TrainerSyncs
  BY <1>36, <1>w DEF TrainerSyncs
<1>37. CASE TrainerEnds
  BY <1>37, <1>w DEF TrainerEnds
<1>38. CASE UNCHANGED vars
  BY <1>38, <1>w DEF vars
<1> QED
  BY <1>1, <1>2, <1>3, <1>4, <1>5, <1>6, <1>7, <1>8, <1>9, <1>10, <1>11, <1>12, <1>13, <1>14, <1>15, <1>16, <1>17, <1>18, <1>19, <1>20, <1>20a, <1>21, <1>22, <1>23, <1>24, <1>25, <1>26, <1>27, <1>28, <1>29, <1>29a, <1>30, <1>31, <1>32, <1>33, <1>34, <1>35, <1>36, <1>37, <1>38
  DEF Next, Processor, Consumer, Main, Monitor, Rpc, Trainer

-----------------------------------------------------------------------------
(* No sample is lost.                                                      *)

LEMMA PartialStep ==
  ASSUME TypeOK, PartialInv, [Next]_vars
  PROVE  PartialInv'
<1> USE DEF PartialInv, TypeOK
<1> USE DEF procRest, taskRest, mainRest, monRest, rpcRest, trainRest, procVars, taskVars, flagVars, outVars,
       mqVars, rpcVars, trainVars, histVars
<1>1. CASE ProcResume
  BY <1>1 DEF ProcResume
<1>2. CASE ProcBlocks
  BY <1>2 DEF ProcBlocks
<1>3. CASE ProcPauses
  BY <1>3 DEF ProcPauses
<1>4. CASE ProcTakes
  BY <1>4 DEF ProcTakes
<1>5. CASE ProcSetsPaused
  BY <1>5 DEF ProcSetsPaused
<1>6. CASE ProcLoop
  BY <1>6 DEF ProcLoop
<1>7. CASE ProcLoopLocked
  BY <1>7 DEF ProcLoopLocked
<1>8. CASE ProcTaskReturns
  BY <1>8 DEF ProcTaskReturns
<1>9. CASE ProcIdles
  BY <1>9 DEF ProcIdles
<1>10. CASE ProcSubmits
  BY <1>10 DEF ProcSubmits
<1>11. CASE TaskFinishes
  BY <1>11 DEF TaskFinishes
<1>12. CASE TaskCancelled
  BY <1>12 DEF TaskCancelled
<1>13. CASE TaskFails
  BY <1>13 DEF TaskFails
<1>14. CASE ConsumerTakes
  BY <1>14 DEF ConsumerTakes
<1>15. CASE ConsumerPuts
  BY <1>15 DEF ConsumerPuts
<1>16. CASE StreamEnds
  BY <1>16 DEF StreamEnds
<1>17. CASE SendNone
  BY <1>17 DEF SendNone
<1>18. CASE Close
  BY <1>18 DEF Close
<1>19. CASE MonitorTests
  BY <1>19 DEF MonitorTests, Unpause, Notified
<1>20. CASE MonitorUnpauses
  BY <1>20 DEF MonitorUnpauses, Unpause, Notified
<1>20a. CASE MonitorLooks
  BY <1>20a DEF MonitorLooks
<1>21. CASE RpcQueues
  BY <1>21 DEF RpcQueues
<1>22. CASE PauseEnters
  BY <1>22 DEF PauseEnters
<1>23. CASE ServersCancel
  BY <1>23 DEF ServersCancel
<1>24. CASE PauseGathers
  BY <1>24 DEF PauseGathers
<1>25. CASE PauseEnds
  BY <1>25 DEF PauseEnds
<1>26. CASE SyncStarts
  BY <1>26 DEF SyncStarts
<1>27. CASE SyncDone
  BY <1>27 DEF SyncDone
<1>28. CASE UpdateEnters
  BY <1>28 DEF UpdateEnters
<1>29. CASE UpdateCounts
  BY <1>29 DEF UpdateCounts
<1>29a. CASE QueueTellsSize
  BY <1>29a DEF QueueTellsSize
<1>30. CASE UpdateEnds
  BY <1>30 DEF UpdateEnds
<1>31. CASE ResumeEnters
  BY <1>31 DEF ResumeEnters, Notified
<1>32. CASE ServersResume
  BY <1>32 DEF ServersResume
<1>33. CASE TrainerGets
  BY <1>33 DEF TrainerGets
<1>34. CASE Trains
  BY <1>34 DEF Trains
<1>35. CASE TrainerFinishes
  BY <1>35 DEF TrainerFinishes
<1>36. CASE TrainerSyncs
  BY <1>36 DEF TrainerSyncs
<1>37. CASE TrainerEnds
  BY <1>37 DEF TrainerEnds
<1>38. CASE UNCHANGED vars
  BY <1>38 DEF vars
<1> QED
  BY <1>1, <1>2, <1>3, <1>4, <1>5, <1>6, <1>7, <1>8, <1>9, <1>10, <1>11, <1>12, <1>13, <1>14, <1>15, <1>16, <1>17, <1>18, <1>19, <1>20, <1>20a, <1>21, <1>22, <1>23, <1>24, <1>25, <1>26, <1>27, <1>28, <1>29, <1>29a, <1>30, <1>31, <1>32, <1>33, <1>34, <1>35, <1>36, <1>37, <1>38
  DEF Next, Processor, Consumer, Main, Monitor, Rpc, Trainer

LEMMA ShutStep ==
  ASSUME TypeOK, PhaseInv, ShutInv, [Next]_vars
  PROVE  ShutInv'
<1>t. /\ popped \in 0..(Total + 1) /\ Total \in Nat /\ Required \in Nat
      /\ run \in Nat /\ cut \in Nat /\ done \in Nat /\ cancelled \in Nat /\ fails \in Nat
      /\ got \in Nat /\ trained \in Nat /\ dropped \in Nat
      /\ mq \in Seq(Nat) /\ resq \in Seq(Nat) /\ consumer \in Seq(Nat)
  BY ConstantFacts DEF TypeOK
<1>l. Len(mq) \in Nat /\ Len(resq) \in Nat /\ Len(consumer) \in Nat
  BY <1>t, SeqFacts
<1>p. popped > Total => ppc \in {"last", "ended", "failed"}
  BY <1>t DEF PhaseInv
<1> USE <1>t, <1>l DEF ShutInv
<1> USE DEF procRest, taskRest, mainRest, monRest, rpcRest, trainRest, procVars, taskVars, flagVars, outVars,
       mqVars, rpcVars, trainVars, histVars
<1>1. CASE ProcResume
  BY <1>1 DEF ProcResume
<1>2. CASE ProcBlocks
  BY <1>2 DEF ProcBlocks
<1>3. CASE ProcPauses
  BY <1>3 DEF ProcPauses
<1>4. CASE ProcTakes
  BY <1>4 DEF ProcTakes
<1>5. CASE ProcSetsPaused
  BY <1>5 DEF ProcSetsPaused
<1>6. CASE ProcLoop
  BY <1>6, SMTT(30) DEF ProcLoop, LoopGoesOn, Active
<1>7. CASE ProcLoopLocked
  BY <1>7 DEF ProcLoopLocked, Active
<1>8. CASE ProcTaskReturns
  BY <1>8 DEF ProcTaskReturns
<1>9. CASE ProcIdles
  BY <1>9 DEF ProcIdles
<1>10. CASE ProcSubmits
  BY <1>10 DEF ProcSubmits
<1>11. CASE TaskFinishes
  BY <1>11 DEF TaskFinishes
<1>12. CASE TaskCancelled
  BY <1>12 DEF TaskCancelled
<1>13. CASE TaskFails
  BY <1>13 DEF TaskFails
<1>14. CASE ConsumerTakes
  BY <1>14 DEF ConsumerTakes
<1>15. CASE ConsumerPuts
  BY <1>15 DEF ConsumerPuts, PhaseInv
<1>16. CASE StreamEnds
  BY <1>16 DEF StreamEnds, Joined
<1>17. CASE SendNone
  BY <1>17 DEF SendNone, PhaseInv
<1>18. CASE Close
  BY <1>18 DEF Close
<1>19. CASE MonitorTests
  BY <1>19 DEF MonitorTests, Unpause, Notified
<1>20. CASE MonitorUnpauses
  BY <1>20 DEF MonitorUnpauses, Unpause, Notified
<1>20a. CASE MonitorLooks
  BY <1>20a DEF MonitorLooks
<1>21. CASE RpcQueues
  BY <1>21 DEF RpcQueues
<1>22. CASE PauseEnters
  BY <1>22 DEF PauseEnters
<1>23. CASE ServersCancel
  BY <1>23 DEF ServersCancel
<1>24. CASE PauseGathers
  BY <1>24 DEF PauseGathers
<1>25. CASE PauseEnds
  BY <1>25 DEF PauseEnds
<1>26. CASE SyncStarts
  BY <1>26 DEF SyncStarts
<1>27. CASE SyncDone
  BY <1>27 DEF SyncDone
<1>28. CASE UpdateEnters
  BY <1>28 DEF UpdateEnters
<1>29. CASE UpdateCounts
  BY <1>29 DEF UpdateCounts
<1>29a. CASE QueueTellsSize
  BY <1>29a DEF QueueTellsSize
<1>30. CASE UpdateEnds
  BY <1>30 DEF UpdateEnds
<1>31. CASE ResumeEnters
  BY <1>31 DEF ResumeEnters, Notified
<1>32. CASE ServersResume
  BY <1>32 DEF ServersResume
<1>33. CASE TrainerGets
  <2>1. CASE mq # <<>>
    BY <1>33, <2>1 DEF TrainerGets
  <2>2. CASE mq = <<>>
    BY <1>33, <2>2 DEF TrainerGets, PhaseInv
  <2> QED
    BY <2>1, <2>2
<1>34. CASE Trains
  BY <1>34 DEF Trains
<1>35. CASE TrainerFinishes
  BY <1>35 DEF TrainerFinishes
<1>36. CASE TrainerSyncs
  BY <1>36 DEF TrainerSyncs
<1>37. CASE TrainerEnds
  BY <1>37 DEF TrainerEnds
<1>38. CASE UNCHANGED vars
  BY <1>38 DEF vars
<1> QED
  BY <1>1, <1>2, <1>3, <1>4, <1>5, <1>6, <1>7, <1>8, <1>9, <1>10, <1>11, <1>12, <1>13, <1>14, <1>15, <1>16, <1>17, <1>18, <1>19, <1>20, <1>20a, <1>21, <1>22, <1>23, <1>24, <1>25, <1>26, <1>27, <1>28, <1>29, <1>29a, <1>30, <1>31, <1>32, <1>33, <1>34, <1>35, <1>36, <1>37, <1>38
  DEF Next, Processor, Consumer, Main, Monitor, Rpc, Trainer

LEMMA SumStep ==
  ASSUME TypeOK, PhaseInv, SumInv, ShutInv, BoundInv', [Next]_vars
  PROVE  SumInv'
<1>t. /\ popped \in 0..(Total + 1) /\ Total \in Nat /\ Required \in Nat
      /\ run \in Nat /\ cut \in Nat /\ done \in Nat /\ cancelled \in Nat /\ fails \in Nat
      /\ got \in Nat /\ trained \in Nat /\ dropped \in Nat
      /\ mq \in Seq(Nat) /\ resq \in Seq(Nat) /\ consumer \in Seq(Nat)
  BY ConstantFacts DEF TypeOK
<1>l. Len(mq) \in Nat /\ Len(resq) \in Nat /\ Len(consumer) \in Nat
  BY <1>t, SeqFacts
<1>p. popped > Total => ppc \in {"last", "ended", "failed"}
  BY <1>t DEF PhaseInv
<1>s. ASSUME Accounted' = Accounted, Fed' = Fed, fails' = 0 => fails = 0
      PROVE  SumInv'
  BY <1>s DEF SumInv
<1>b. fails' = 0 => ppc' # "failed"
  BY DEF BoundInv
<1>i. InHand \in Nat
  BY DEF InHand
<1>k. ASSUME ppc' = ppc PROVE InHand' = InHand
  BY <1>k DEF InHand
<1> USE DEF Accounted, InFlight, Fed
<1> USE DEF procRest, taskRest, mainRest, monRest, rpcRest, trainRest, procVars, taskVars, flagVars, outVars,
       mqVars, rpcVars, trainVars, histVars
<1>1. CASE ProcResume
  BY <1>1, <1>s DEF ProcResume, InHand
<1>2. CASE ProcBlocks
  BY <1>2, <1>s DEF ProcBlocks, InHand
<1>3. CASE ProcPauses
  BY <1>3, <1>s DEF ProcPauses, InHand
<1>4. CASE ProcTakes
  <2>1. /\ ppc = "top" /\ popped <= Total
        /\ UNCHANGED <<fails, run, cut, resq, consumer, mq, got, trained, dropped>>
    BY <1>4, <1>p, <1>t DEF ProcTakes
  <2>2. CASE cancelled > 0
    <3>1. cancelled' = cancelled - 1 /\ ppc' = "limit" /\ popped' = popped
      BY <1>4, <2>2 DEF ProcTakes
    <3>2. Accounted' = Accounted
      BY <2>1, <3>1, <1>t, <1>l DEF InHand
    <3> QED
      BY <1>s, <2>1, <3>1, <3>2
  <2>3. CASE ~(cancelled > 0)
    <3>1. cancelled' = cancelled /\ popped' = popped + 1
      BY <1>4, <1>t, <2>3 DEF ProcTakes
    <3>2. CASE popped = Total
      <4>1. ppc' = "last"
        BY <1>4, <1>t, <2>3, <3>2 DEF ProcTakes
      <4>2. Accounted' = Accounted
        BY <2>1, <3>1, <4>1, <1>t, <1>l DEF InHand
      <4>3. Fed' = Fed
        BY <3>1, <3>2, <1>t
      <4> QED
        BY <1>s, <2>1, <4>2, <4>3
    <3>3. CASE popped # Total
      <4>1. ppc' = "limit" /\ popped < Total
        BY <1>4, <1>t, <2>1, <2>3, <3>3 DEF ProcTakes
      <4>2. Accounted' = Accounted + 1
        BY <2>1, <3>1, <4>1, <1>t, <1>l DEF InHand
      <4>3. Fed' = Fed + 1
        BY <3>1, <4>1, <1>t
      <4> QED
        BY <2>1, <4>2, <4>3 DEF SumInv
    <3> QED
      BY <3>2, <3>3
  <2> QED
    BY <2>2, <2>3
<1>5. CASE ProcSetsPaused
  BY <1>5, <1>s DEF ProcSetsPaused, InHand
<1>6. CASE ProcLoop
  BY <1>6, <1>s DEF ProcLoop, LoopGoesOn, InHand
<1>7. CASE ProcLoopLocked
  <2>1. UNCHANGED <<fails, run, cut, cancelled, resq, consumer, mq, got, trained, dropped, popped>>
    BY <1>7 DEF ProcLoopLocked
  <2>2. ppc' = ppc \/ ppc' = "failed"
    BY <1>7 DEF ProcLoopLocked
  <2>3. CASE ppc' = ppc
    BY <1>s, <1>k, <2>1, <2>3
  <2>4. CASE ppc' = "failed"
    BY <1>b, <2>4 DEF SumInv
  <2> QED
    BY <2>2, <2>3, <2>4
<1>8. CASE ProcTaskReturns
  <2>1. UNCHANGED <<fails, run, cut, cancelled, resq, consumer, mq, got, trained, dropped, popped>>
    BY <1>8 DEF ProcTaskReturns
  <2>2. ppc' = ppc \/ ppc' = "failed"
    BY <1>8 DEF ProcTaskReturns
  <2>3. CASE ppc' = ppc
    BY <1>s, <1>k, <2>1, <2>3
  <2>4. CASE ppc' = "failed"
    BY <1>b, <2>4 DEF SumInv
  <2> QED
    BY <2>2, <2>3, <2>4
<1>9. CASE ProcIdles
  BY <1>9, <1>s DEF ProcIdles, InHand
<1>10. CASE ProcSubmits
  <2>1. ppc = "submit" /\ UNCHANGED <<fails, cancelled, resq, consumer, mq, got, trained, dropped, popped>>
    BY <1>10 DEF ProcSubmits
  <2>2. \/ ppc' = "submitWait" /\ UNCHANGED <<run, cut>>
        \/ ppc' = "top" /\ cut' = cut + 1 /\ run' = run
        \/ ppc' = "top" /\ run' = run + 1 /\ cut' = cut
    BY <1>10 DEF ProcSubmits
  <2>3. InHand = 1 /\ InHand' = IF ppc' = "submitWait" THEN 1 ELSE 0
    BY <2>1, <2>2 DEF InHand
  <2>4. Accounted' = Accounted
    BY <2>1, <2>2, <2>3, <1>t, <1>l, SMTT(30)
  <2> QED
    BY <1>s, <2>1, <2>4
<1>11. CASE TaskFinishes
  <2>1. /\ run' = run - 1 /\ resq' = Append(resq, version) /\ version \in Nat
        /\ UNCHANGED <<ppc, fails, cut, cancelled, consumer, mq, got, trained, dropped, popped>>
    BY <1>11 DEF TaskFinishes, TypeOK
  <2>2. Len(resq') = Len(resq) + 1
    BY <2>1, <1>t, SeqFacts
  <2>3. Accounted' = Accounted
    BY <2>1, <2>2, <1>t, <1>l, <1>i, <1>k
  <2> QED
    BY <1>s, <2>1, <2>3
<1>12. CASE TaskCancelled
  <2>1. /\ cut' = cut - 1 /\ cancelled' = cancelled + 1
        /\ UNCHANGED <<ppc, fails, run, resq, consumer, mq, got, trained, dropped, popped>>
    BY <1>12 DEF TaskCancelled
  <2>2. Accounted' = Accounted
    BY <2>1, <1>t, <1>l, <1>i, <1>k
  <2> QED
    BY <1>s, <2>1, <2>2
<1>13. CASE TaskFails
  BY <1>13, <1>t DEF TaskFails, SumInv
<1>14. CASE ConsumerTakes
  <2>1. /\ consumer = <<>> /\ consumer' = <<Head(resq)>> /\ resq' = Tail(resq) /\ resq # <<>>
        /\ UNCHANGED <<ppc, fails, run, cut, cancelled, mq, got, trained, dropped, popped>>
    BY <1>14 DEF ConsumerTakes
  <2>2. Len(resq') = Len(resq) - 1 /\ Len(consumer') = Len(consumer) + 1
    BY <2>1, <1>t, SeqFacts
  <2>3. Accounted' = Accounted
    BY <2>1, <2>2, <1>t, <1>l, <1>i, <1>k
  <2> QED
    BY <1>s, <2>1, <2>3
<1>15. CASE ConsumerPuts
  <2>0. ~endSignal /\ consumer # <<>>
    BY <1>15 DEF ConsumerPuts, PhaseInv
  <2>1. /\ mq' = Append(Kept, Head(consumer)) /\ consumer' = <<>> /\ CountDrop
        /\ UNCHANGED <<ppc, fails, run, cut, cancelled, resq, got, trained, popped>>
    BY <1>15 DEF ConsumerPuts
  <2>2. Head(consumer) \in Nat /\ Len(consumer) > 0 /\ Len(consumer) <= 1
    BY <2>0, <1>t, SeqFacts DEF TypeOK
  <2>3. Kept \in Seq(Nat) /\ Len(Kept) \in Nat
    BY <2>0, KeptFacts, Zenon
  <2>6. Len(mq') = Len(Kept) + 1
    BY <2>1, <2>2, <2>3, SeqFacts
  <2>8. UNCHANGED <<ppc, fails, run, cut, cancelled, resq, got, trained, popped>>
    BY <2>1
  <2>7. /\ Len(consumer') \in Nat
        /\ Len(consumer') <= Len(consumer) - 1 /\ Len(consumer') >= Len(consumer) - 1
    BY <2>1, <2>2
  <2>4. CASE QueueFull
    <3>1. Len(Kept) = Len(mq) - 1
      BY <2>0, <2>4, KeptFacts, Zenon
    <3>2. dropped' = dropped + 1
      BY <2>1, <2>4 DEF CountDrop
    <3>4. Len(mq') \in Nat /\ Len(mq') <= Len(mq) /\ Len(mq') >= Len(mq)
      BY <2>3, <2>6, <3>1, <1>l
    <3>3. Accounted' = Accounted
      BY <2>8, <3>2, <3>4, <1>t, <1>l, <1>i, <1>k, <2>7, SMTT(60)
    <3> QED
      BY <1>s, <2>1, <3>3
  <2>5. CASE ~QueueFull
    <3>1. Kept = mq
      BY <2>0, <2>5, KeptFacts, Zenon
    <3>2. dropped' = dropped
      BY <2>1, <2>5 DEF CountDrop
    <3>3. Accounted' = Accounted
      BY <2>8, <2>3, <3>1, <3>2, <1>t, <1>l, <1>i, <1>k, <2>6, <2>7, SMTT(30)
    <3> QED
      BY <1>s, <2>1, <3>3
  <2> QED
    BY <2>4, <2>5
<1>16. CASE StreamEnds
  BY <1>16, <1>s DEF StreamEnds, InHand
<1>17. CASE SendNone
  <2>0. ~endSignal
    BY <1>17 DEF SendNone, PhaseInv
  <2>1. /\ mq' = Kept /\ CountDrop
        /\ UNCHANGED <<ppc, fails, run, cut, cancelled, resq, consumer, got, trained, popped>>
    BY <1>17 DEF SendNone
  <2>3. Kept \in Seq(Nat) /\ Len(Kept) \in Nat
    BY <2>0, KeptFacts, Zenon
  <2>4. CASE QueueFull
    <3>1. Len(Kept) = Len(mq) - 1
      BY <2>0, <2>4, KeptFacts, Zenon
    <3>2. dropped' = dropped + 1
      BY <2>1, <2>4 DEF CountDrop
    <3>3. Accounted' = Accounted
      BY <2>1, <2>3, <3>1, <3>2, <1>t, <1>l, <1>i, <1>k
    <3> QED
      BY <1>s, <2>1, <3>3
  <2>5. CASE ~QueueFull
    <3>1. Kept = mq
      BY <2>0, <2>5, KeptFacts, Zenon
    <3>2. dropped' = dropped
      BY <2>1, <2>5 DEF CountDrop
    <3>3. Accounted' = Accounted
      BY <2>1, <2>3, <3>1, <3>2, <1>t, <1>l, <1>i, <1>k
    <3> QED
      BY <1>s, <2>1, <3>3
  <2> QED
    BY <2>4, <2>5
<1>18. CASE Close
  BY <1>18, <1>s DEF Close, InHand
<1>19. CASE MonitorTests
  BY <1>19, <1>s DEF MonitorTests, Unpause, Notified, InHand
<1>20. CASE MonitorUnpauses
  BY <1>20, <1>s DEF MonitorUnpauses, Unpause, Notified, InHand
<1>20a. CASE MonitorLooks
  BY <1>20a, <1>s DEF MonitorLooks, InHand
<1>21. CASE RpcQueues
  BY <1>21, <1>s DEF RpcQueues, InHand
<1>22. CASE PauseEnters
  BY <1>22, <1>s DEF PauseEnters, InHand
<1>23. CASE ServersCancel
  <2>1. /\ cut' = cut + run /\ run' = 0
        /\ UNCHANGED <<ppc, fails, cancelled, resq, consumer, mq, got, trained, dropped, popped>>
    BY <1>23 DEF ServersCancel
  <2>2. Accounted' = Accounted
    BY <2>1, <1>t, <1>l, <1>i, <1>k
  <2> QED
    BY <1>s, <2>1, <2>2
<1>24. CASE PauseGathers
  BY <1>24, <1>s DEF PauseGathers, InHand
<1>25. CASE PauseEnds
  BY <1>25, <1>s DEF PauseEnds, InHand
<1>26. CASE SyncStarts
  BY <1>26, <1>s DEF SyncStarts, InHand
<1>27. CASE SyncDone
  BY <1>27, <1>s DEF SyncDone, InHand
<1>28. CASE UpdateEnters
  BY <1>28, <1>s DEF UpdateEnters, InHand
<1>29. CASE UpdateCounts
  BY <1>29, <1>s DEF UpdateCounts, InHand
<1>29a. CASE QueueTellsSize
  BY <1>29a, <1>s DEF QueueTellsSize, InHand
<1>30. CASE UpdateEnds
  BY <1>30, <1>s DEF UpdateEnds, InHand
<1>31. CASE ResumeEnters
  BY <1>31, <1>s DEF ResumeEnters, Notified, InHand
<1>32. CASE ServersResume
  BY <1>32, <1>s DEF ServersResume, InHand
<1>33. CASE TrainerGets
  <2>1. UNCHANGED <<ppc, fails, run, cut, cancelled, resq, consumer, trained, dropped, popped>>
    BY <1>33 DEF TrainerGets
  <2>2. CASE mq # <<>>
    <3>1. mq' = Tail(mq)
      BY <1>33, <2>2 DEF TrainerGets
    <3>2. Len(mq') = Len(mq) - 1
      BY <2>2, <3>1, <1>t, SeqFacts
    <3>4. got' = got + 1
      BY <1>33, <2>2 DEF TrainerGets
    <3>3. Accounted' = Accounted
      BY <2>1, <3>4, <3>2, <1>t, <1>l, <1>i, <1>k
    <3> QED
      BY <1>s, <2>1, <3>3
  <2>3. CASE mq = <<>>
    <3>1. mq' = mq /\ got' = got
      BY <1>33, <2>3 DEF TrainerGets
    <3> QED
      BY <1>s, <1>k, <2>1, <3>1
  <2> QED
    BY <2>2, <2>3
<1>34. CASE Trains
  <2>1. /\ trained' = trained + Required /\ got' = 0 /\ got = Required
        /\ UNCHANGED <<ppc, fails, run, cut, cancelled, resq, consumer, mq, dropped, popped>>
    BY <1>34 DEF Trains, ShutInv
  <2>2. Accounted' = Accounted
    BY <2>1, <1>t, <1>l, <1>i, <1>k
  <2> QED
    BY <1>s, <2>1, <2>2
<1>35. CASE TrainerFinishes
  BY <1>35, <1>s DEF TrainerFinishes, InHand
<1>36. CASE TrainerSyncs
  BY <1>36, <1>s DEF TrainerSyncs, InHand
<1>37. CASE TrainerEnds
  BY <1>37, <1>s DEF TrainerEnds, InHand
<1>38. CASE UNCHANGED vars
  BY <1>38, <1>s DEF vars, InHand
<1> QED
  BY <1>1, <1>2, <1>3, <1>4, <1>5, <1>6, <1>7, <1>8, <1>9, <1>10, <1>11, <1>12, <1>13, <1>14, <1>15, <1>16, <1>17, <1>18, <1>19, <1>20, <1>20a, <1>21, <1>22, <1>23, <1>24, <1>25, <1>26, <1>27, <1>28, <1>29, <1>29a, <1>30, <1>31, <1>32, <1>33, <1>34, <1>35, <1>36, <1>37, <1>38
  DEF Next, Processor, Consumer, Main, Monitor, Rpc, Trainer

-----------------------------------------------------------------------------
(* How late a sample is trained.                                           *)

Batch == Required * Trigger
\* what the trainer has used for n versions, and for l - 1 steps of one
Used(n) == n * Batch
Part(l) == Required * (l - 1)
Taken == trained + got

\* The calls that wait between the trainer's new version and the rollouter's.
Before == {"pause", "cancel", "gather", "reset", "mq", "weights", "update"}
WaitLag == IF tpc = "wait" THEN 1 ELSE 0
CallLag == IF rpc \in Before THEN 1 ELSE 0

\* The version counts the batches that were trained.
ClockInv ==
  /\ tversion = version + WaitLag + CallLag
  /\ ~final => trained = Used(tversion) + Part(local)
  /\ tpc = "wait" /\ ~final => got = 0 /\ local = 1
  /\ final => tpc \in {"wait", "sync", "waitFinal", "end"} /\ Taken <= Used(tversion)

\* What has been taken or is in flight is bounded by the rollouter's version.
Produced == Taken + InFlight
Roof == Used(version + 1)

FlowInv ==
  /\ Produced <= Roof + staleness + 2
  /\ Produced <= Roof + MaxRequired + 2

\* So is the turn of every sample by the version it was finished under.
Limit(v) == Used(v + 1) + MaxRequired + 2

AgeInv ==
  /\ \A i \in 1..Len(mq) : Taken + i <= Limit(mq[i])
  /\ \A i \in 1..Len(consumer) : Taken + Len(mq) + i <= Limit(consumer[i])
  /\ \A i \in 1..Len(resq) : Taken + Len(mq) + Len(consumer) + i <= Limit(resq[i])

LagInv == ClockInv /\ FlowInv /\ AgeInv

\* Multiples of a batch, with the products out of the provers' sight.
LEMMA BatchFacts ==
  /\ Batch \in Nat /\ Batch > 0 /\ Used(0) = 0 /\ Part(1) = 0
  /\ \A n \in Nat : Used(n) \in Nat /\ Used(n + 1) = Used(n) + Batch
  /\ \A m, n \in Nat : m <= n => Used(m) <= Used(n)
  /\ \A l \in 1..Trigger :
       /\ Part(l) \in Nat /\ Part(l) + Required <= Batch
       /\ Part(l + 1) = Part(l) + Required
  /\ Part(Trigger) + Required = Batch
<1>1. /\ \A a, b \in Nat \ {0} : a * b \in Nat /\ a * b > 0
      /\ \A n, b \in Nat : n * b \in Nat /\ 0 * b = 0 /\ (n + 1) * b = n * b + b
      /\ \A r, l \in Nat : l > 0 => r * (l - 1) \in Nat /\ r * ((l + 1) - 1) = r * (l - 1) + r
      /\ \A r, k \in Nat : k > 0 => r * (k - 1) + r = r * k /\ r * (1 - 1) = 0
  BY SMT
<1>2. \A m, n, b \in Nat : m <= n => m * b <= n * b
  BY SMT
<1>3. \A r, l, k \in Nat : l > 0 /\ l <= k => r * (l - 1) + r <= r * k
  BY SMT
<1>4. Required \in Nat \ {0} /\ Trigger \in Nat \ {0}
  BY ConfigAssumption
<1>5. Batch \in Nat /\ Batch > 0
  BY <1>1, <1>4 DEF Batch
<1>6. /\ Used(0) = 0
      /\ \A n \in Nat : Used(n) \in Nat /\ Used(n + 1) = Used(n) + Batch
  BY <1>1, <1>5, Zenon DEF Used
<1>7. \A m, n \in Nat : m <= n => Used(m) <= Used(n)
  BY <1>2, <1>5, Zenon DEF Used
<1>8. /\ Part(1) = 0
      /\ Part(Trigger) + Required = Batch
  BY <1>1, <1>4 DEF Part, Batch
<1>9. ASSUME NEW l \in 1..Trigger
      PROVE  /\ Part(l) \in Nat /\ Part(l) + Required <= Batch
             /\ Part(l + 1) = Part(l) + Required
  BY <1>1, <1>3, <1>4 DEF Part, Batch
<1> QED
  BY <1>5, <1>6, <1>7, <1>8, <1>9

\* What the steps that no version, queue or count of staleness depends on leave alone.
LagFrame ==
  /\ UNCHANGED <<version, tversion, trained, got, local, final, tpc, mq, resq, consumer, staleness>>
  /\ CallLag' = CallLag
  /\ InFlight' <= InFlight

LagSteps ==
  \/ ProcTakes \/ TaskFinishes \/ ConsumerTakes \/ ConsumerPuts \/ SendNone \/ SyncDone \/ UpdateEnters \/ UpdateCounts
  \/ TrainerGets \/ Trains \/ TrainerFinishes \/ TrainerSyncs \/ TrainerEnds

LEMMA FrameStep ==
  ASSUME TypeOK, [Next]_vars, ~LagSteps
  PROVE  LagFrame
<1>t. /\ run \in Nat /\ cut \in Nat /\ done \in Nat /\ cancelled \in Nat
      /\ mq \in Seq(Nat) /\ resq \in Seq(Nat) /\ consumer \in Seq(Nat)
  BY Zenon DEF TypeOK
<1>l. Len(mq) \in Nat /\ Len(resq) \in Nat /\ Len(consumer) \in Nat
  BY <1>t, SeqFacts
<1>i. InHand \in Nat
  BY DEF InHand
<1> USE <1>t, <1>l, <1>i DEF LagFrame, InFlight, InHand, CallLag, Before
<1> USE DEF procRest, taskRest, mainRest, monRest, rpcRest, trainRest, procVars, taskVars, flagVars, outVars,
       mqVars, rpcVars, trainVars, histVars
<1>1. CASE ProcResume
  BY <1>1 DEF ProcResume
<1>2. CASE ProcBlocks
  BY <1>2 DEF ProcBlocks
<1>3. CASE ProcPauses
  BY <1>3 DEF ProcPauses
<1>4. CASE ProcSetsPaused
  BY <1>4 DEF ProcSetsPaused
<1>5. CASE ProcLoop
  <2>1. UNCHANGED <<procRest, staleness, run, cut, cancelled>>
    BY <1>5 DEF ProcLoop
  <2>2. ppc = "limit" => ppc' \in {"limit", "submit"}
    BY <1>5 DEF ProcLoop
  <2>3. ppc # "limit" => ppc \in {"drain", "last"} /\ ppc' \in {"drain", "last", "idle", "ended"}
    BY <1>5 DEF ProcLoop
  <2>4. InHand' = InHand
    BY <2>2, <2>3
  <2> QED
    BY <2>1, <2>4
<1>6. CASE ProcLoopLocked
  BY <1>6 DEF ProcLoopLocked
<1>7. CASE ProcTaskReturns
  BY <1>7 DEF ProcTaskReturns
<1>8. CASE ProcIdles
  BY <1>8 DEF ProcIdles
<1>9. CASE ProcSubmits
  <2>1. ppc = "submit" /\ UNCHANGED <<procRest, staleness, done, cancelled>>
    BY <1>9 DEF ProcSubmits
  <2>2. \/ ppc' = "submitWait" /\ UNCHANGED <<run, cut>>
        \/ ppc' = "top" /\ cut' = cut + 1 /\ run' = run
        \/ ppc' = "top" /\ run' = run + 1 /\ cut' = cut
    BY <1>9 DEF ProcSubmits
  <2>3. InHand = 1 /\ InHand' = IF ppc' = "submitWait" THEN 1 ELSE 0
    BY <2>1, <2>2
  <2>4. UNCHANGED <<cancelled, resq, consumer, mq, version, tversion, trained, got, local, final, tpc, staleness, rpc>>
    BY <2>1
  <2> HIDE DEF InHand
  <2>5. InFlight' = InFlight
    BY <2>2, <2>3, <2>4
  <2> QED
    BY <2>4, <2>5
<1>10. CASE TaskCancelled
  BY <1>10 DEF TaskCancelled
<1>11. CASE TaskFails
  BY <1>11 DEF TaskFails
<1>12. CASE StreamEnds
  BY <1>12 DEF StreamEnds
<1>13. CASE Close
  BY <1>13 DEF Close
<1>14. CASE MonitorTests
  BY <1>14 DEF MonitorTests, Unpause, Notified
<1>15. CASE MonitorUnpauses
  BY <1>15 DEF MonitorUnpauses, Unpause, Notified
<1>15a. CASE MonitorLooks
  BY <1>15a DEF MonitorLooks
<1>16. CASE RpcQueues
  BY <1>16 DEF RpcQueues
<1>17. CASE PauseEnters
  BY <1>17 DEF PauseEnters
<1>18. CASE ServersCancel
  BY <1>18 DEF ServersCancel
<1>19. CASE PauseGathers
  BY <1>19 DEF PauseGathers
<1>20. CASE PauseEnds
  BY <1>20 DEF PauseEnds
<1>21. CASE SyncStarts
  BY <1>21 DEF SyncStarts
<1>22. CASE UpdateEnds
  BY <1>22 DEF UpdateEnds
<1>22a. CASE QueueTellsSize
  BY <1>22a DEF QueueTellsSize
<1>23. CASE ResumeEnters
  BY <1>23 DEF ResumeEnters, Notified
<1>24. CASE ServersResume
  BY <1>24 DEF ServersResume
<1>25. CASE UNCHANGED vars
  BY <1>25 DEF vars
<1> QED
  BY <1>1, <1>2, <1>3, <1>4, <1>5, <1>6, <1>7, <1>8, <1>9, <1>10, <1>11, <1>12, <1>13, <1>14, <1>15, <1>15a, <1>16, <1>17, <1>18, <1>19, <1>20, <1>21, <1>22, <1>22a, <1>23, <1>24, <1>25
  DEF LagSteps, Next, Processor, Consumer, Main, Monitor, Rpc, Trainer

\* fully_async_trainer.py:343: the trainer's version against the rollouter's, and
\* against what has been trained.
LEMMA ClockStep ==
  ASSUME TypeOK, PhaseInv, ShutInv, ClockInv, [Next]_vars
  PROVE  ClockInv'
<1>t. /\ version \in Nat /\ tversion \in Nat /\ trained \in Nat /\ got \in 0..Required
      /\ local \in 1..Trigger /\ final \in BOOLEAN
  BY Zenon DEF TypeOK
<1>c. /\ Required \in Nat /\ Trigger \in Nat /\ Trigger > 0 /\ MaxRequired \in Nat
  BY ConstantFacts
<1> USE <1>t, <1>c
<1>b. /\ Used(tversion) \in Nat /\ Used(tversion + 1) = Used(tversion) + Batch
      /\ Part(local) \in Nat /\ Part(local) + Required <= Batch
      /\ Part(local + 1) = Part(local) + Required
      /\ Part(Trigger) + Required = Batch /\ Part(1) = 0
      /\ Batch \in Nat
  BY BatchFacts
<1>f. ASSUME UNCHANGED <<version, tversion, trained, got, local, final, tpc>>, CallLag' = CallLag
      PROVE  ClockInv'
  BY <1>f DEF ClockInv, WaitLag, Taken
<1> USE DEF procRest, taskRest, mainRest, monRest, rpcRest, trainRest, procVars, taskVars, flagVars, outVars,
       mqVars, rpcVars, trainVars, histVars
<1>0. CASE ~LagSteps
  BY <1>0, <1>f, FrameStep DEF LagFrame
<1>1. CASE ProcTakes
  BY <1>1, <1>f DEF ProcTakes, CallLag
<1>2. CASE TaskFinishes
  BY <1>2, <1>f DEF TaskFinishes, CallLag
<1>3. CASE ConsumerTakes
  BY <1>3, <1>f DEF ConsumerTakes, CallLag
<1>4. CASE ConsumerPuts
  BY <1>4, <1>f DEF ConsumerPuts, CallLag
<1>5. CASE SendNone
  BY <1>5, <1>f DEF SendNone, CallLag
<1>6. CASE SyncDone
  BY <1>6 DEF SyncDone, PhaseInv, ClockInv, WaitLag, CallLag, Before, Taken
<1>7. CASE UpdateEnters
  BY <1>7 DEF UpdateEnters, ClockInv, WaitLag, CallLag, Before, Taken
<1>8. CASE UpdateCounts
  BY <1>8, <1>f DEF UpdateCounts, CallLag, Before
<1>9. CASE TrainerGets
  BY <1>9 DEF TrainerGets, ClockInv, WaitLag, CallLag, Taken
<1>10. CASE Trains
  <2>1. ~final /\ got = Required /\ trained' = trained + Required /\ got' = 0
    BY <1>10 DEF Trains, ClockInv, ShutInv
  <2>2. CASE local < Trigger
    <3>1. local' = local + 1 /\ UNCHANGED <<version, tversion, final, rpc>> /\ tpc = "train" /\ tpc' = "get"
      BY <1>10, <2>2 DEF Trains
    <3>2. trained' = Used(tversion') + Part(local')
      BY <2>1, <3>1, <1>b DEF ClockInv
    <3> QED
      BY <2>1, <3>1, <3>2 DEF ClockInv, WaitLag, CallLag
  <2>3. CASE ~(local < Trigger)
    <3>1. /\ local = Trigger /\ local' = 1 /\ tversion' = tversion + 1
          /\ UNCHANGED <<version, final, rpc>> /\ tpc = "train" /\ tpc' = "wait"
      BY <1>10, <2>3 DEF Trains
    <3>2. trained' = Used(tversion') + Part(local')
      BY <2>1, <3>1, <1>b DEF ClockInv
    <3> QED
      BY <2>1, <3>1, <3>2 DEF ClockInv, WaitLag, CallLag
  <2> QED
    BY <2>2, <2>3
<1>11. CASE TrainerFinishes
  <2>1. ~final /\ got < Required /\ UNCHANGED <<version, trained, got, rpc>> /\ tpc = "finish"
    BY <1>11 DEF TrainerFinishes, ClockInv, PhaseInv
  <2>2. trained + got <= Used(tversion + 1)
    BY <2>1, <1>b DEF ClockInv
  <2> QED
    BY <1>11, <2>1, <2>2 DEF TrainerFinishes, ClockInv, WaitLag, CallLag, Taken
<1>12. CASE TrainerSyncs
  BY <1>12 DEF TrainerSyncs, ClockInv, WaitLag, CallLag, Before, Taken
<1>13. CASE TrainerEnds
  BY <1>13 DEF TrainerEnds, ClockInv, WaitLag, CallLag, Taken
<1> QED
  BY <1>0, <1>1, <1>2, <1>3, <1>4, <1>5, <1>6, <1>7, <1>8, <1>9, <1>10, <1>11, <1>12, <1>13 DEF LagSteps

\* Sums of numbers, for primed terms.
LEMMA SumFacts ==
  \A x, u, v, r, s \in Nat :
    /\ x + u \in Nat
    /\ u <= v => x + u <= x + v
    /\ u <= v + 1 => x + u <= (x + v) + 1
    /\ x <= r /\ u <= s + 2 => x + u <= (r + s) + 2
BY SMT

\* Between two resets of staleness_samples what is produced is counted.
LEMMA FlowStep ==
  ASSUME TypeOK, TypeOK', PhaseInv, ClockInv, CountInv, CountInv', ShutInv, FlowInv, [Next]_vars
  PROVE  FlowInv'
<1>t. /\ version \in Nat /\ tversion \in Nat /\ trained \in Nat /\ got \in Nat /\ got <= Required
      /\ local \in 1..Trigger /\ staleness \in Nat /\ MaxRequired \in Nat /\ Required \in Nat
      /\ run \in Nat /\ cut \in Nat /\ cancelled \in Nat /\ popped \in Nat
      /\ mq \in Seq(Nat) /\ resq \in Seq(Nat) /\ consumer \in Seq(Nat)
  BY ConstantFacts DEF TypeOK
<1>l. Len(mq) \in Nat /\ Len(resq) \in Nat /\ Len(consumer) \in Nat
  BY <1>t, SeqFacts
<1>i. InHand \in Nat /\ InFlight \in Nat /\ Taken \in Nat
  BY <1>t, <1>l DEF InHand, InFlight, Taken
<1>n. InFlight' \in Nat /\ Taken' \in Nat
  <2>1. /\ run' \in Nat /\ cut' \in Nat /\ cancelled' \in Nat /\ trained' \in Nat /\ got' \in 0..Required
        /\ mq' \in Seq(Nat) /\ resq' \in Seq(Nat) /\ consumer' \in Seq(Nat)
    BY Zenon DEF TypeOK
  <2>2. Len(mq') \in Nat /\ Len(resq') \in Nat /\ Len(consumer') \in Nat
    BY <2>1, SeqFacts
  <2>3. InHand' \in Nat
    BY DEF InHand
  <2>4. InFlight' \in Nat
    <3> HIDE DEF InHand
    <3> QED
      BY <2>1, <2>2, <2>3, SMTT(30) DEF InFlight
  <2>5. got' \in Nat
    BY <2>1, <1>t
  <2>6. Taken' \in Nat
    BY <2>1, <2>5, SumFacts, Zenon DEF Taken
  <2> QED
    BY <2>4, <2>6
<1>p. Produced = Taken + InFlight /\ Produced' = Taken' + InFlight' /\ Produced \in Nat /\ Produced' \in Nat
  <2>1. Produced = Taken + InFlight /\ Produced' = Taken' + InFlight'
    BY DEF Produced
  <2> QED
    BY <2>1, <1>i, <1>n, SumFacts, Zenon
<1>b. Roof \in Nat /\ Used(tversion) \in Nat /\ Part(local) \in Nat
  <2>1. version + 1 \in Nat
    BY <1>t
  <2> QED
    BY <1>t, <2>1, BatchFacts, Zenon DEF Roof
<1>v. version' = version => Roof' = Roof
  BY DEF Roof
<1>f. ASSUME version' = version, staleness' = staleness, Produced' <= Produced
      PROVE  FlowInv'
  BY <1>f, <1>v, <1>t, <1>p, <1>b, ConstantFacts DEF FlowInv
<1>q. ASSUME version' = version, staleness' = staleness, Taken' = Taken, InFlight' <= InFlight
      PROVE  FlowInv'
  <2>1. Produced' <= Produced
    BY <1>q, <1>p, <1>i, <1>n, SumFacts, Zenon
  <2> QED
    BY <1>f, <1>q, <2>1
<1>g. ASSUME UNCHANGED <<trained, got>>
      PROVE  Taken' = Taken
  BY <1>g DEF Taken
<1>h. ASSUME UNCHANGED <<run, cut, cancelled, ppc, resq, consumer, mq>>
      PROVE  InFlight' = InFlight
  BY <1>h DEF InFlight, InHand
<1>k. ASSUME ppc' = ppc PROVE InHand' = InHand
  BY <1>k DEF InHand
<1> USE DEF procRest, taskRest, rpcRest, mainRest, trainRest, procVars, taskVars, flagVars, outVars,
       mqVars, rpcVars, trainVars, histVars
<1>0. CASE ~LagSteps
  <2>1. LagFrame
    BY <1>0, FrameStep
  <2>2. InFlight' <= InFlight /\ UNCHANGED <<version, staleness, trained, got>>
    BY <2>1 DEF LagFrame
  <2> QED
    BY <1>q, <1>g, <2>2
<1>1. CASE ProcTakes
  <2>0. staleness < MaxRequired
    <3>1. staleness < MaxRequired <=> ~(staleness >= MaxRequired)
      BY <1>t
    <3> QED
      BY <1>1, <3>1, Zenon DEF ProcTakes, ShouldPause
  <2>1. /\ UNCHANGED <<version, trained, got, run, cut, resq, consumer, mq>>
        /\ ppc = "top" /\ ppc' \in {"limit", "last"}
    BY <1>1 DEF ProcTakes
  <2>2. InHand = 0 /\ InHand' \in 0..1
    BY <2>1 DEF InHand
  <2>3. CASE cancelled > 0
    <3>1. cancelled' = cancelled - 1 /\ staleness' = staleness
      BY <1>1, <2>3 DEF ProcTakes
    <3>2. InFlight' <= InFlight /\ InFlight' \in Nat
      BY <2>1, <2>2, <2>3, <3>1, <1>t, <1>l, SMTT(30) DEF InFlight
    <3> QED
      BY <1>q, <1>g, <2>1, <3>1, <3>2
  <2>4. CASE ~(cancelled > 0)
    <3>1. cancelled' = cancelled /\ staleness' = staleness + 1
      BY <1>1, <1>t, <2>4 DEF ProcTakes
    <3>2. InFlight' <= InFlight + 1 /\ InFlight' \in Nat
      BY <2>1, <2>2, <3>1, <1>t, <1>l, SMTT(30) DEF InFlight
    <3>3. Produced' <= Produced + 1
      BY <1>g, <1>p, <1>i, <1>n, <2>1, <3>2, SumFacts, Zenon
    <3>4. Produced' <= Roof' + staleness' + 2 /\ Produced' <= Roof' + MaxRequired + 2
      BY <1>v, <1>b, <1>p, <1>t, <2>0, <2>1, <3>1, <3>3 DEF FlowInv
    <3> QED
      BY <3>4 DEF FlowInv
  <2> QED
    BY <2>3, <2>4
<1>2. CASE TaskFinishes
  <2>1. /\ run' = run - 1 /\ run > 0 /\ resq' = Append(resq, version)
        /\ UNCHANGED <<version, staleness, trained, got, ppc, cut, cancelled, consumer, mq>>
    BY <1>2 DEF TaskFinishes
  <2>2. Len(resq') = Len(resq) + 1
    BY <2>1, <1>t, SeqFacts
  <2>3. InFlight' = InFlight
    BY <2>1, <2>2, <1>k, <1>t, <1>l, <1>i DEF InFlight
  <2> QED
    BY <1>q, <1>g, <1>i, <2>1, <2>3
<1>3. CASE ConsumerTakes
  <2>1. /\ consumer = <<>> /\ consumer' = <<Head(resq)>> /\ resq' = Tail(resq) /\ resq # <<>>
        /\ UNCHANGED <<version, staleness, trained, got, ppc, run, cut, cancelled, mq>>
    BY <1>3 DEF ConsumerTakes
  <2>2. Len(resq') = Len(resq) - 1 /\ Len(consumer') = Len(consumer) + 1
    BY <2>1, <1>t, SeqFacts
  <2>3. InFlight' = InFlight
    BY <2>1, <2>2, <1>k, <1>t, <1>l, <1>i DEF InFlight
  <2> QED
    BY <1>q, <1>g, <1>i, <2>1, <2>3
<1>4. CASE ConsumerPuts
  <2>1. /\ mq' = Append(Kept, Head(consumer)) /\ consumer' = <<>> /\ consumer # <<>>
        /\ UNCHANGED <<version, staleness, trained, got, ppc, run, cut, cancelled, resq>>
    BY <1>4 DEF ConsumerPuts
  <2>2. ~endSignal
    BY <2>1 DEF PhaseInv
  <2>3. Kept \in Seq(Nat) /\ Len(Kept) \in Nat /\ (Len(Kept) = Len(mq) - 1 \/ Kept = mq)
    BY <2>2, KeptFacts, Zenon
  <2>4. Head(consumer) \in Nat /\ Len(consumer) > 0
    BY <2>1, <1>t, SeqFacts
  <2>5. Len(mq') \in Nat /\ Len(mq') <= Len(mq) + 1 /\ Len(consumer') = 0
    BY <2>1, <2>3, <2>4, <1>l, SeqFacts
  <2>6. InFlight' <= InFlight /\ InFlight' \in Nat
    BY <2>1, <2>4, <2>5, <1>k, <1>t, <1>l, <1>i DEF InFlight
  <2> QED
    BY <1>q, <1>g, <1>i, <2>1, <2>6
<1>5. CASE SendNone
  <2>1. mq' = Kept /\ UNCHANGED <<version, staleness, trained, got, ppc, run, cut, cancelled, resq, consumer>>
    BY <1>5 DEF SendNone
  <2>2. ~endSignal
    BY <1>5 DEF SendNone, PhaseInv
  <2>3. Len(Kept) \in Nat /\ (Len(Kept) = Len(mq) - 1 \/ Kept = mq)
    BY <2>2, KeptFacts, Zenon
  <2>4. InFlight' <= InFlight /\ InFlight' \in Nat
    BY <2>1, <2>3, <1>k, <1>t, <1>l, <1>i DEF InFlight
  <2> QED
    BY <1>q, <1>g, <1>i, <2>1, <2>4
<1>6. CASE SyncDone
  <2>1. UNCHANGED <<version, staleness, trained, got, ppc, run, cut, cancelled, resq, consumer, mq>>
    BY <1>6 DEF SyncDone
  <2> QED
    BY <1>q, <1>g, <1>h, <1>i, <2>1
<1>7. CASE UpdateEnters
  <2>1. /\ version' = version + 1
        /\ UNCHANGED <<staleness, trained, got, ppc, run, cut, cancelled, resq, consumer, mq>>
    BY <1>7 DEF UpdateEnters
  <2>2. Produced' = Produced
    BY <2>1, <1>g, <1>h, <1>p
  <2>3. Roof' \in Nat /\ Roof <= Roof'
    <3>1. version + 1 \in Nat /\ version' + 1 \in Nat /\ version + 1 <= version' + 1
      BY <2>1, <1>t
    <3> QED
      BY <3>1, BatchFacts, Zenon DEF Roof
  <2> QED
    BY <2>1, <2>2, <2>3, <1>t, <1>p, <1>b, ConstantFacts, SMTT(30) DEF FlowInv
<1>8. CASE UpdateCounts
  <2>1. /\ rpc = "count" /\ UNCHANGED <<version, trained, got, ppc, run, cut, cancelled, resq, consumer, mq>>
    BY <1>8 DEF UpdateCounts
  <2>2. InFlight' = InFlight /\ Taken' = Taken
    BY <2>1, <1>g, <1>h
  <2>3. tversion = version + WaitLag
    BY <2>1, <1>t DEF ClockInv, CallLag, Before, WaitLag
  <2>4. Taken <= Roof
    <3>1. CASE tpc = "wait"
      <4>1. Taken <= Used(tversion)
        BY <3>1, <1>t, <1>b, BatchFacts DEF ClockInv, Taken
      <4>2. tversion = version + 1
        BY <2>3, <3>1 DEF WaitLag
      <4> QED
        BY <4>1, <4>2 DEF Roof
    <3>2. CASE tpc # "wait"
      <4>1. tversion = version
        BY <2>3, <3>2, <1>t DEF WaitLag
      <4>2. Roof = Used(tversion) + Batch
        BY <4>1, <1>t, BatchFacts, Zenon DEF Roof
      <4>3. Part(local) + Required <= Batch /\ Batch \in Nat
        BY <1>t, BatchFacts
      <4> QED
        BY <4>2, <4>3, <1>t, <1>b, SMTT(30) DEF ClockInv, Taken
    <3> QED
      BY <3>1, <3>2
  <2>5. InFlight' <= staleness' + 2 /\ InFlight' <= MaxRequired + 2
    BY DEF CountInv
  <2>6. staleness' \in Nat
    <3>1. snap \in Nat /\ MqLen \in Nat
      BY <1>l DEF TypeOK, MqLen
    <3> QED
      BY <1>8, <3>1 DEF UpdateCounts
  <2>7. Roof' = Roof /\ MaxRequired \in Nat
    BY <2>1, <1>v, ConstantFacts
  <2>8. Produced' <= Roof' + staleness' + 2
    BY <2>2, <2>4, <2>5, <2>6, <2>7, <1>i, <1>n, <1>p, <1>b, SumFacts, Zenon
  <2>9. Produced' <= Roof' + MaxRequired + 2
    BY <2>2, <2>4, <2>5, <2>7, <1>i, <1>n, <1>p, <1>b
  <2> QED
    BY <2>8, <2>9 DEF FlowInv
<1>9. CASE TrainerGets
  <2>1. UNCHANGED <<version, staleness, trained, ppc, run, cut, cancelled, resq, consumer>>
    BY <1>9 DEF TrainerGets
  <2>2. CASE mq # <<>>
    <3>1. mq' = Tail(mq) /\ got' = got + 1
      BY <1>9, <2>2 DEF TrainerGets
    <3>2. Len(mq') = Len(mq) - 1 /\ Len(mq) > 0
      BY <2>2, <3>1, <1>t, SeqFacts
    <3>3. InFlight' = InFlight - 1 /\ InFlight > 0
      BY <2>1, <3>2, <1>k, <1>t, <1>l, <1>i DEF InFlight
    <3> QED
      <4>1. Taken' = Taken + 1
        BY <2>1, <3>1, <1>t DEF Taken
      <4> QED
        BY <1>f, <1>p, <1>i, <2>1, <3>3, <4>1
  <2>3. CASE mq = <<>>
    <3>1. mq' = mq /\ got' = got
      BY <1>9, <2>3 DEF TrainerGets
    <3> QED
      BY <1>q, <1>g, <1>h, <1>i, <2>1, <3>1
  <2> QED
    BY <2>2, <2>3
<1>10. CASE Trains
  <2>1. /\ trained' = trained + Required /\ got' = 0 /\ got = Required
        /\ UNCHANGED <<version, staleness, ppc, run, cut, cancelled, resq, consumer, mq>>
    BY <1>10 DEF Trains, ShutInv
  <2>2. InFlight' = InFlight
    BY <2>1, <1>h
  <2>3. Taken' = Taken
    BY <2>1, <1>t DEF Taken
  <2> QED
    BY <1>f, <1>p, <1>i, <2>1, <2>2, <2>3
<1>11. CASE TrainerFinishes \/ TrainerSyncs \/ TrainerEnds
  <2>1. UNCHANGED <<version, staleness, trained, got, ppc, run, cut, cancelled, resq, consumer, mq>>
    BY <1>11 DEF TrainerFinishes, TrainerSyncs, TrainerEnds
  <2> QED
    BY <1>q, <1>g, <1>h, <1>i, <2>1
<1> QED
  BY <1>0, <1>1, <1>2, <1>3, <1>4, <1>5, <1>6, <1>7, <1>8, <1>9, <1>10, <1>11 DEF LagSteps

\* Sequences of versions, element by element.
LEMMA PlaceFacts ==
  \A s \in Seq(Nat) :
    /\ \A i \in 1..Len(s) : s[i] \in Nat
    /\ \A x \in Nat : \A i \in 1..Len(Append(s, x)) :
         Append(s, x)[i] = IF i = Len(s) + 1 THEN x ELSE s[i]
    /\ s # <<>> => Head(s) = s[1] /\ \A i \in 1..Len(Tail(s)) : Tail(s)[i] = s[i + 1]
OBVIOUS

LEMMA LimitFacts ==
  \A v \in Nat : Limit(v) \in Nat /\ Limit(v) = Used(v) + Batch + MaxRequired + 2
<1> SUFFICES ASSUME NEW v \in Nat
             PROVE  Limit(v) \in Nat /\ Limit(v) = Used(v) + Batch + MaxRequired + 2
  OBVIOUS
<1>1. Used(v) \in Nat /\ Used(v + 1) = Used(v) + Batch /\ Batch \in Nat
  BY BatchFacts
<1> QED
  BY <1>1, ConstantFacts DEF Limit

\* Dropping the oldest sample brings the others forward.
LEMMA KeptAges ==
  ASSUME TypeOK, ~endSignal, AgeInv
  PROVE  /\ Kept \in Seq(Nat) /\ Len(Kept) \in Nat /\ Len(Kept) <= Len(mq)
         /\ \A i \in 1..Len(Kept) : Taken + i <= Limit(Kept[i])
<1>1. mq \in Seq(Nat) /\ Len(mq) \in Nat /\ Taken \in Nat
  BY ConstantFacts, SeqFacts DEF TypeOK, Taken
<1>2. Kept \in Seq(Nat) /\ Len(Kept) \in Nat
  BY KeptFacts, Zenon
<1>3. CASE Kept = mq
  BY <1>1, <1>2, <1>3 DEF AgeInv
<1>4. CASE Kept # mq
  <2>1. QueueFull /\ Kept = Tail(mq) /\ Len(Kept) = Len(mq) - 1
    BY <1>4, KeptFacts, Zenon DEF Kept
  <2>2. mq # <<>>
    BY <2>1, <1>1, <1>2
  <2>3. ASSUME NEW i \in 1..Len(Kept)
        PROVE  Taken + i <= Limit(Kept[i])
    <3>1. i + 1 \in 1..Len(mq) /\ i \in Nat
      BY <2>1, <1>1, <1>2
    <3>2. Kept[i] = mq[i + 1]
      BY <2>1, <2>2, <1>1, PlaceFacts
    <3>3. mq[i + 1] \in Nat
      BY <3>1, <1>1, PlaceFacts
    <3>4. Limit(mq[i + 1]) \in Nat
      BY <3>3, LimitFacts
    <3>5. Taken + (i + 1) <= Limit(mq[i + 1])
      BY <3>1 DEF AgeInv
    <3> QED
      BY <3>1, <3>2, <3>4, <3>5, <1>1
  <2> QED
    BY <1>1, <1>2, <2>1, <2>3
<1> QED
  BY <1>3, <1>4

\* fully_async_rollouter.py:430: a sample that is finished has its turn within
\* the limit of the version it is given, and only comes forward from there.
LEMMA AgeStep ==
  ASSUME TypeOK, TypeOK', PhaseInv, ShutInv, FlowInv, AgeInv, [Next]_vars
  PROVE  AgeInv'
<1>t. /\ version \in Nat /\ trained \in Nat /\ got \in Nat /\ run \in Nat /\ cut \in Nat /\ cancelled \in Nat
      /\ mq \in Seq(Nat) /\ resq \in Seq(Nat) /\ consumer \in Seq(Nat)
      /\ Len(consumer) <= 1 /\ Required \in Nat
  BY ConstantFacts DEF TypeOK
<1>l. Len(mq) \in Nat /\ Len(resq) \in Nat /\ Len(consumer) \in Nat /\ Taken \in Nat
  BY <1>t, SeqFacts DEF Taken
<1>p. /\ \A i \in 1..Len(mq) : mq[i] \in Nat /\ Limit(mq[i]) \in Nat
      /\ \A i \in 1..Len(consumer) : consumer[i] \in Nat /\ Limit(consumer[i]) \in Nat
      /\ \A i \in 1..Len(resq) : resq[i] \in Nat /\ Limit(resq[i]) \in Nat
  BY <1>t, PlaceFacts, LimitFacts
<1>f. ASSUME UNCHANGED <<mq, consumer, resq>>, Taken' = Taken
      PROVE  AgeInv'
  BY <1>f DEF AgeInv, Limit, Used, Batch
<1>g. ASSUME UNCHANGED <<trained, got>>
      PROVE  Taken' = Taken
  BY <1>g DEF Taken
<1> USE DEF procRest, taskRest, rpcRest, mainRest, trainRest, procVars, taskVars, flagVars, outVars,
       mqVars, rpcVars, trainVars, histVars
<1>0. CASE ~LagSteps
  <2>1. UNCHANGED <<mq, consumer, resq, trained, got>>
    BY <1>0, FrameStep DEF LagFrame
  <2> QED
    BY <1>f, <1>g, <2>1
<1>1. CASE ProcTakes \/ SyncDone \/ UpdateEnters \/ UpdateCounts \/ TrainerFinishes \/ TrainerSyncs \/ TrainerEnds
  <2>1. UNCHANGED <<mq, consumer, resq, trained, got>>
    BY <1>1 DEF ProcTakes, SyncDone, UpdateEnters, UpdateCounts, TrainerFinishes, TrainerSyncs, TrainerEnds
  <2> QED
    BY <1>f, <1>g, <2>1
<1>2. CASE Trains
  <2>1. UNCHANGED <<mq, consumer, resq>> /\ trained' = trained + Required /\ got' = 0 /\ got = Required
    BY <1>2 DEF Trains, ShutInv
  <2>2. Taken' = Taken
    BY <2>1, <1>t DEF Taken
  <2> QED
    BY <1>f, <2>1, <2>2
<1>3. CASE TaskFinishes
  <2>1. /\ resq' = Append(resq, version) /\ run > 0
        /\ UNCHANGED <<mq, consumer, trained, got>>
    BY <1>3 DEF TaskFinishes
  <2>2. Taken' = Taken /\ Len(resq') = Len(resq) + 1
    BY <1>g, <2>1, <1>t, SeqFacts
  <2>3. Taken + Len(mq) + Len(consumer) + (Len(resq) + 1) <= Limit(version)
    <3>1. InHand \in Nat
      BY DEF InHand
    <3>2. Taken + Len(mq) + Len(consumer) + (Len(resq) + 1) <= Produced
      BY <2>1, <3>1, <1>t, <1>l DEF Produced, InFlight
    <3>3. Limit(version) = Roof + MaxRequired + 2 /\ Roof \in Nat
      <4>1. version + 1 \in Nat
        BY <1>t
      <4> QED
        BY <4>1, BatchFacts, Zenon DEF Limit, Roof
    <3>4. Produced \in Nat
      BY <3>1, <1>t, <1>l DEF Produced, InFlight
    <3> QED
      BY <3>2, <3>3, <3>4, <1>l, ConstantFacts DEF FlowInv
  <2>4. ASSUME NEW i \in 1..Len(resq')
        PROVE  Taken + Len(mq) + Len(consumer) + i <= Limit(resq'[i])
    <3>1. CASE i = Len(resq) + 1
      <4>1. resq'[i] = version
        BY <2>1, <3>1, <1>t, PlaceFacts
      <4> QED
        BY <2>3, <3>1, <4>1
    <3>2. CASE i # Len(resq) + 1
      <4>1. resq'[i] = resq[i] /\ i \in 1..Len(resq)
        BY <2>1, <2>2, <3>2, <1>t, <1>l, PlaceFacts
      <4> QED
        BY <4>1 DEF AgeInv
    <3> QED
      BY <3>1, <3>2
  <2>5. UNCHANGED <<mq, consumer>>
    BY <2>1
  <2> QED
    BY <2>2, <2>4, <2>5 DEF AgeInv, Limit, Used, Batch
<1>4. CASE ConsumerTakes
  <2>1. /\ consumer = <<>> /\ consumer' = <<Head(resq)>> /\ resq' = Tail(resq) /\ resq # <<>>
        /\ UNCHANGED <<mq, trained, got>>
    BY <1>4 DEF ConsumerTakes
  <2>2. Taken' = Taken /\ Len(consumer) = 0 /\ Len(resq') = Len(resq) - 1 /\ Len(resq) > 0
    BY <1>g, <2>1, <1>t, SeqFacts
  <2>3. Len(consumer') = 1 /\ consumer'[1] = resq[1]
    BY <2>1, <1>t, PlaceFacts
  <2>4. ASSUME NEW i \in 1..Len(consumer')
        PROVE  Taken + Len(mq) + i <= Limit(consumer'[i])
    <3>1. i = 1 /\ 1 \in 1..Len(resq)
      BY <2>2, <2>3, <1>l
    <3>2. Taken + Len(mq) + Len(consumer) + 1 <= Limit(resq[1])
      BY <3>1 DEF AgeInv
    <3>3. Taken + Len(mq) + 1 <= Limit(resq[1])
      BY <3>2, <2>2, <1>l
    <3> QED
      BY <2>3, <3>1, <3>3
  <2>5. ASSUME NEW i \in 1..Len(resq')
        PROVE  Taken + Len(mq) + Len(consumer') + i <= Limit(resq'[i])
    <3>1. i + 1 \in 1..Len(resq) /\ i \in Nat /\ resq'[i] = resq[i + 1]
      BY <2>1, <2>2, <1>t, <1>l, PlaceFacts
    <3>2. Taken + Len(mq) + Len(consumer) + (i + 1) <= Limit(resq[i + 1])
      BY <3>1 DEF AgeInv
    <3>3. Taken + Len(mq) + 1 + i <= Limit(resq[i + 1])
      BY <2>2, <3>1, <3>2, <1>l, <1>p
    <3> QED
      BY <2>3, <3>1, <3>3
  <2> QED
    BY <2>1, <2>2, <2>4, <2>5 DEF AgeInv
<1>5. CASE ConsumerPuts
  <2>1. /\ mq' = Append(Kept, Head(consumer)) /\ consumer' = <<>> /\ consumer # <<>>
        /\ UNCHANGED <<resq, trained, got>>
    BY <1>5 DEF ConsumerPuts
  <2>2. /\ Kept \in Seq(Nat) /\ Len(Kept) \in Nat /\ Len(Kept) <= Len(mq)
        /\ \A i \in 1..Len(Kept) : Taken + i <= Limit(Kept[i])
    BY <2>1, KeptAges DEF PhaseInv
  <2>3. /\ Head(consumer) = consumer[1] /\ Head(consumer) \in Nat /\ Len(consumer) = 1
        /\ Len(mq') = Len(Kept) + 1 /\ Taken' = Taken /\ Len(consumer') = 0
    <3>1. Head(consumer) = consumer[1] /\ Head(consumer) \in Nat
      BY <2>1, <1>t, SeqFacts, PlaceFacts
    <3>2. Len(consumer) = 1
      <4>1. Len(consumer) > 0 /\ Len(consumer) <= 1 /\ Len(consumer) \in Nat
        BY <2>1, <1>t, <1>l, SeqFacts, Zenon
      <4>2. \A n \in Nat : n > 0 /\ n <= 1 => n = 1
        BY SMT
      <4> QED
        BY <4>1, <4>2, Zenon
    <3>3. Len(mq') = Len(Kept) + 1
      BY <2>1, <2>2, <3>1, SeqFacts
    <3>4. Taken' = Taken /\ Len(consumer') = 0
      BY <1>g, <2>1
    <3> QED
      BY <3>1, <3>2, <3>3, <3>4
  <2>4. ASSUME NEW i \in 1..Len(mq')
        PROVE  Taken + i <= Limit(mq'[i])
    <3>1. CASE i = Len(Kept) + 1
      <4>1. mq'[i] = consumer[1]
        BY <2>1, <2>2, <2>3, <3>1, PlaceFacts
      <4>2. 1 \in 1..Len(consumer)
        BY <2>3
      <4>3. Taken + Len(mq) + 1 <= Limit(consumer[1]) /\ Limit(consumer[1]) \in Nat
        BY <4>2, <1>p DEF AgeInv
      <4> QED
        BY <2>2, <3>1, <4>1, <4>3, <1>l
    <3>2. CASE i # Len(Kept) + 1
      <4>1. mq'[i] = Kept[i] /\ i \in 1..Len(Kept)
        BY <2>1, <2>2, <2>3, <3>2, PlaceFacts
      <4> QED
        BY <2>2, <4>1
    <3> QED
      BY <3>1, <3>2
  <2>5. ASSUME NEW i \in 1..Len(resq)
        PROVE  Taken + Len(mq') + Len(consumer') + i <= Limit(resq[i])
    <3>1. Taken + Len(mq) + Len(consumer) + i <= Limit(resq[i]) /\ Limit(resq[i]) \in Nat
      BY <1>p DEF AgeInv
    <3>2. Taken + (Len(Kept) + 1) + 0 + i <= Limit(resq[i])
      BY <2>2, <2>3, <3>1, <1>l
    <3> QED
      BY <2>3, <3>2
  <2>6. \A i \in 1..Len(consumer') : FALSE
    BY <2>3
  <2> QED
    BY <2>1, <2>3, <2>4, <2>5, <2>6 DEF AgeInv
<1>6. CASE SendNone
  <2>1. mq' = Kept /\ consumer = <<>> /\ UNCHANGED <<resq, consumer, trained, got>>
    BY <1>6 DEF SendNone
  <2>2. /\ Kept \in Seq(Nat) /\ Len(Kept) \in Nat /\ Len(Kept) <= Len(mq)
        /\ \A i \in 1..Len(Kept) : Taken + i <= Limit(Kept[i])
    BY <1>6, KeptAges DEF PhaseInv, SendNone
  <2>3. Taken' = Taken /\ Len(consumer') = 0 /\ Len(consumer) = 0 /\ Len(mq') = Len(Kept)
    BY <1>g, <2>1
  <2>4. ASSUME NEW i \in 1..Len(resq)
        PROVE  Taken + Len(mq') + Len(consumer') + i <= Limit(resq[i])
    <3>1. Taken + Len(mq) + Len(consumer) + i <= Limit(resq[i]) /\ Limit(resq[i]) \in Nat
      BY <1>p DEF AgeInv
    <3>2. Taken + Len(Kept) + 0 + i <= Limit(resq[i])
      BY <2>2, <2>3, <3>1, <1>l, SMTT(30)
    <3> QED
      BY <2>3, <3>2
  <2>5. \A i \in 1..Len(consumer') : FALSE
    BY <2>3
  <2> QED
    BY <2>1, <2>2, <2>3, <2>4, <2>5 DEF AgeInv
<1>7. CASE TrainerGets
  <2>1. UNCHANGED <<consumer, resq, trained>>
    BY <1>7 DEF TrainerGets
  <2>2. CASE mq # <<>>
    <3>1. mq' = Tail(mq) /\ got' = got + 1
      BY <1>7, <2>2 DEF TrainerGets
    <3>2. Len(mq') = Len(mq) - 1 /\ Len(mq) > 0 /\ Taken' = Taken + 1
      BY <2>1, <2>2, <3>1, <1>t, SeqFacts DEF Taken
    <3>3. ASSUME NEW i \in 1..Len(mq')
          PROVE  Taken' + i <= Limit(mq'[i])
      <4>1. i + 1 \in 1..Len(mq) /\ i \in Nat /\ mq'[i] = mq[i + 1]
        BY <2>2, <3>1, <3>2, <1>t, <1>l, PlaceFacts
      <4>2. Taken + (i + 1) <= Limit(mq[i + 1])
        BY <4>1 DEF AgeInv
      <4>3. (Taken + 1) + i <= Limit(mq[i + 1])
        BY <4>1, <4>2, <1>l, <1>p
      <4> QED
        BY <3>2, <4>1, <4>3
    <3>4. Taken' + Len(mq') = Taken + Len(mq)
      BY <3>2, <1>l
    <3> QED
      BY <2>1, <3>3, <3>4 DEF AgeInv
  <2>3. CASE mq = <<>>
    <3>1. mq' = mq /\ got' = got
      BY <1>7, <2>3 DEF TrainerGets
    <3> QED
      BY <1>f, <1>g, <2>1, <3>1
  <2> QED
    BY <2>2, <2>3
<1> QED
  BY <1>0, <1>1, <1>2, <1>3, <1>4, <1>5, <1>6, <1>7 DEF LagSteps

-----------------------------------------------------------------------------
(* The theorems.                                                           *)

LEMMA InitIInv == Init => IInv
<1> SUFFICES ASSUME Init PROVE IInv
  OBVIOUS
<1> USE ConstantFacts DEF Init
<1>1. TypeOK
  <2>1. FlagsOK
    BY Zenon DEF FlagsOK
  <2>2. DataOK
    BY DEF DataOK, MqLen, LockPoints, SyncPhases
  <2> QED
    BY <2>1, <2>2, TypeParts
<1>2. LockInv /\ PhaseInv
  BY DEF LockInv, PhaseInv
<1>3. CountInv
  BY DEF CountInv, InFlight, InHand
<1>4. QuietInv /\ PartialInv /\ ShutInv
  BY DEF QuietInv, PartialInv, ShutInv
<1>5. BoundInv
  BY DEF BoundInv, Alone
<1>6. SumInv
  BY DEF SumInv, Accounted, Fed, InFlight, InHand
<1> QED
  BY <1>1, <1>2, <1>3, <1>4, <1>5, <1>6 DEF IInv, SafeInv

LEMMA NextIInv == IInv /\ [Next]_vars => IInv'
<1> SUFFICES ASSUME TypeOK, LockInv, PhaseInv, CountInv, QuietInv, BoundInv, SumInv, ShutInv, PartialInv,
                    [Next]_vars
             PROVE  IInv'
  BY DEF IInv, SafeInv
<1>1. LockInv' /\ lockq' \in Seq(Actors)
  BY LockStep
<1>2. FlagsOK'
  BY FlagsStep, TypeParts
<1>3. DataOK'
  BY <1>1, DataStep
<1>4. TypeOK'
  BY <1>2, <1>3, TypeParts DEF TypeOK, FlagsOK, DataOK
<1>5. PhaseInv' /\ CountInv' /\ QuietInv' /\ PartialInv' /\ ShutInv'
  BY PhaseStep, CountStep, QuietStep, PartialStep, ShutStep
<1>6. BoundInv'
  BY BoundStep
<1>7. SumInv'
  BY <1>6, SumStep
<1> QED
  BY <1>1, <1>4, <1>5, <1>6, <1>7 DEF IInv, SafeInv

\* The inductive invariant holds in every reachable state.
THEOREM Invariant == Spec => []IInv
<1>1. Init => IInv
  BY InitIInv
<1>2. IInv /\ [Next]_vars => IInv'
  BY NextIInv
<1> QED
  BY <1>1, <1>2, PTL DEF Spec

\* The state keeps its types, and the message queue its bound
\* (message_queue.py:81), for every configuration.
THEOREM Typed == Spec => []TypeOK
<1>1. IInv => TypeOK
  BY DEF IInv, SafeInv
<1> QED
  BY <1>1, Invariant, PTL

\* fully_async_rollouter.py:585: never more than two samples beyond the limit
\* are in flight, for every configuration.
THEOREM Bounded == Spec => []InFlightBounded
<1>1. IInv => InFlightBounded
  BY DEF IInv, CountInv, InFlightBounded
<1> QED
  BY <1>1, Invariant, PTL

\* param_sync.py:88: only the monitor can bring generation into a
\* synchronization of the weights, and only without partial rollout.
THEOREM Quiet == Spec => []QuietWeights
<1>1. IInv => QuietWeights
  BY DEF IInv, QuietInv, QuietWeights
<1> QED
  BY <1>1, Invariant, PTL

\* fully_async_rollouter.py:351: done_tasks is never read before it is assigned.
THEOREM Assigned == Spec => []NeverUnbound
<1>1. IInv => NeverUnbound
  BY DEF IInv, BoundInv, NeverUnbound
<1> QED
  BY <1>1, Invariant, PTL

\* fully_async_rollouter.py:484: at the end every sample is accounted for.
THEOREM Ends == Spec => []EverySampleEnds
<1>1. ASSUME IInv PROVE EverySampleEnds
  <2> SUFFICES ASSUME tpc = "end", fails = 0
               PROVE  /\ trained + got + dropped + cancelled = Total
                      /\ cancelled > 0 => partial
    BY DEF EverySampleEnds
  <2>1. mq = <<>> /\ main # "stream"
    BY <1>1 DEF IInv, ShutInv
  <2>2. ppc = "ended"
    BY <1>1, <2>1 DEF IInv, ShutInv, BoundInv
  <2>3. resq = <<>> /\ consumer = <<>> /\ run <= 0 /\ cut <= 0 /\ popped > Total
    BY <1>1, <2>1, <2>2 DEF IInv, ShutInv
  <2>4. /\ run \in Nat /\ cut \in Nat /\ cancelled \in Nat /\ got \in Nat
        /\ trained \in Nat /\ dropped \in Nat /\ Total \in Nat
    BY <1>1, ConstantFacts DEF IInv, SafeInv, TypeOK
  <2>5. Accounted = Total
    BY <1>1, <2>3, <2>4 DEF IInv, SumInv, Fed
  <2>6. Accounted = run + cut + cancelled + got + trained + dropped
    BY <2>1, <2>2, <2>3, <2>4 DEF Accounted, InFlight, InHand
  <2>7. trained + got + dropped + cancelled = Total
    BY <2>3, <2>4, <2>5, <2>6
  <2>8. cancelled > 0 => partial
    BY <1>1 DEF IInv, PartialInv
  <2> QED
    BY <2>7, <2>8
<1> QED
  BY <1>1, Invariant, PTL

LEMMA InitLagInv == Init => LagInv
<1> SUFFICES ASSUME Init PROVE LagInv
  OBVIOUS
<1>1. /\ Used(0) = 0 /\ Part(1) = 0 /\ Used(0 + 1) \in Nat /\ MaxRequired \in Nat
  BY BatchFacts, ConstantFacts
<1>2. InFlight = 0 /\ Taken = 0 /\ WaitLag = 0 /\ CallLag = 0
  BY DEF Init, InFlight, InHand, Taken, WaitLag, CallLag, Before
<1>3. ClockInv
  BY <1>1, <1>2 DEF Init, ClockInv
<1>4. FlowInv
  BY <1>1, <1>2 DEF Init, FlowInv, Produced, Roof
<1>5. AgeInv
  BY DEF Init, AgeInv
<1> QED
  BY <1>3, <1>4, <1>5 DEF LagInv

\* The bound of VersionLag follows from the age of the head of the queue and the
\* batches that the trainer's version counts.
LEMMA LagBound ==
  ASSUME TypeOK, ClockInv, AgeInv, TrainerGets, mq # <<>>
  PROVE  (tversion - Head(mq)) * (Required * Trigger) <= MaxRequired + Required * Trigger + 1
<1>1. /\ mq \in Seq(Nat) /\ tversion \in Nat /\ trained \in Nat /\ got \in Nat /\ local \in 1..Trigger
  BY ConstantFacts DEF TypeOK
<1>2. 1 \in 1..Len(mq) /\ Head(mq) = mq[1] /\ Head(mq) \in Nat
  BY <1>1, SeqFacts, PlaceFacts
<1>3. Taken + 1 <= Limit(Head(mq))
  BY <1>2 DEF AgeInv
<1>4. Limit(Head(mq)) = Used(Head(mq)) + Batch + MaxRequired + 2
  BY <1>2, LimitFacts
<1>5. trained = Used(tversion) + Part(local)
  BY DEF TrainerGets, ClockInv
<1>6. /\ Used(tversion) \in Nat /\ Used(Head(mq)) \in Nat /\ Part(local) \in Nat
      /\ Batch \in Nat /\ MaxRequired \in Nat
  BY <1>1, <1>2, BatchFacts, ConstantFacts
<1>7. Used(tversion) - Used(Head(mq)) <= MaxRequired + Batch + 1
  <2>1. \A u, w, p, g, b, m \in Nat : ((u + p) + g) + 1 <= w + b + m + 2 => u - w <= m + b + 1
    BY SMT
  <2>2. ((Used(tversion) + Part(local)) + got) + 1 <= Used(Head(mq)) + Batch + MaxRequired + 2
    BY <1>3, <1>4, <1>5, Zenon DEF Taken
  <2> QED
    BY <2>1, <2>2, <1>1, <1>6, Zenon
<1>8. \A m, n, b \in Nat : (m - n) * b = m * b - n * b
  BY SMT
<1>9. (tversion - Head(mq)) * Batch = Used(tversion) - Used(Head(mq))
  <2>1. (tversion - Head(mq)) * Batch = tversion * Batch - Head(mq) * Batch
    BY <1>1, <1>2, <1>6, <1>8
  <2> QED
    BY <2>1 DEF Used
<1> QED
  BY <1>7, <1>9 DEF Batch

\* README.md:127 of the recipe: no sample is trained too many versions late, for
\* every batch size, trigger, limit and concurrency, with and without partial
\* rollout.
THEOREM Lag == Spec => VersionLag
<1>1. Init => LagInv
  BY InitLagInv
<1>2. IInv /\ IInv' /\ LagInv /\ [Next]_vars => LagInv'
  BY ClockStep, FlowStep, AgeStep DEF IInv, SafeInv, LagInv
<1>3. IInv /\ LagInv /\ [Next]_vars =>
        [TrainerGets /\ mq # <<>> =>
           (tversion - Head(mq)) * (Required * Trigger) <= MaxRequired + Required * Trigger + 1]_vars
  BY LagBound DEF IInv, SafeInv, LagInv
<1> QED
  BY <1>1, <1>2, <1>3, Invariant, PTL DEF Spec, VersionLag
=============================================================================
