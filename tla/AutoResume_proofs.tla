-------------------------- MODULE AutoResume_proofs ---------------------------
(***************************************************************************)
(* Proofs about AutoResume for any number of ranks, steps and attempts and *)
(* any save frequency: the dataloader is in step with the step counter,    *)
(* the run is never more than SaveFreq beyond what a resume comes back to, *)
(* and the checkpoint the tracker names is whole, this last one unless     *)
(* rotation keeps a single checkpoint.                                     *)
(***************************************************************************)
EXTENDS Handoff, Integers, SequenceTheorems, FiniteSetTheorems, TLAPS

USE TrainerAssumption DEF Steps

LEMMA NotNumbers == Empty \notin Nat /\ NoFile \notin Nat /\ Part \notin Nat
OBVIOUS

USE NotNumbers

(***************************************************************************)
(* The type invariant needs RunInv: step stays within 1..Total because a   *)
(* run is only started below Total.                                        *)
(***************************************************************************)
LEMMA InitIInv == LoopInit => IInv
BY DEF LoopInit, Init, IInv, BaseInv, TrackedData, LoopTypeOK, TypeOK, Phases, Saving, RunInv,
       SavedInv, Active, TrackedCheckpointWhole, BatchesInStep

LEMMA Rotated ==
  ASSUME TypeOK, Rotate
  PROVE  /\ saved' \in Seq(Steps)
         /\ Excess \in 0 .. Len(saved)
         /\ Len(saved') = Len(saved) - Excess
         /\ \A i \in 1 .. Len(saved') : saved'[i] = saved[i + Excess]
<1>1. saved \in Seq(Steps) /\ Len(saved) \in Nat
  BY DEF TypeOK
<1>2. Excess \in 0 .. Len(saved)
  BY <1>1 DEF Excess
<1>3. \A i \in Excess + 1 .. Len(saved) : saved[i] \in Steps
  BY <1>1, <1>2
<1>4. saved' = SubSeq(saved, Excess + 1, Len(saved))
  BY DEF Rotate
<1> HIDE DEF Steps
<1>5. /\ saved' \in Seq(Steps)
      /\ Len(saved') = IF Excess + 1 <= Len(saved)
                         THEN Len(saved) - (Excess + 1) + 1 ELSE 0
      /\ \A i \in 1 .. Len(saved) - (Excess + 1) + 1 :
           saved'[i] = saved[Excess + 1 + i - 1]
  BY <1>1, <1>2, <1>3, <1>4, SubSeqProperties
<1> QED
  BY <1>1, <1>2, <1>5

LEMMA RunTyped ==
  ASSUME TypeOK, RunInv, Run \/ Crash
  PROVE  TypeOK'
<1> USE DEF TypeOK, RunInv, Active, Phases, Saving, memory, disk
<1>1. CASE Load
  <2>1. saved' = <<>> /\ UNCHANGED <<attempt, disk, crashes>> /\ phase' = "step"
    BY <1>1 DEF Load
  <2>2. step' \in 0 .. Total /\ pos' \in 0 .. DataLen
    <3>1. CASE FromScratch /\ step' = 1 /\ pos' = 0
      BY <3>1
    <3>2. CASE tracker \in Steps /\ Loadable(tracker) /\ step' = tracker + 1
      BY <1>1, <3>2 DEF Load, Loadable, FromScratch
    <3> QED
      BY <1>1, <3>1, <3>2 DEF Load
  <2> QED
    BY <2>1, <2>2
<1>2. CASE LoadFails
  BY <1>2 DEF LoadFails
<1>3. CASE TrainStep
  BY <1>3 DEF TrainStep, SaveDue
<1>4. CASE EpochEnds
  BY <1>4 DEF EpochEnds
<1>5. CASE Rotate
  BY <1>5, Rotated DEF Rotate
<1>6. CASE Barrier
  BY <1>6 DEF Barrier
<1>7. CASE OpenData
  BY <1>7 DEF OpenData
<1>8. CASE CloseData
  BY <1>8 DEF CloseData
<1>9. CASE OpenTracker
  BY <1>9 DEF OpenTracker
<1>10. CASE CloseTracker
  BY <1>10 DEF CloseTracker
<1>11. CASE Crash
  BY <1>11 DEF Crash
<1>12. ASSUME NEW r \in Ranks, OpenShard(r)
      PROVE  TypeOK'
  BY <1>12 DEF OpenShard
<1>13. ASSUME NEW r \in Ranks, CloseShard(r)
      PROVE  TypeOK'
  BY <1>13 DEF CloseShard
<1> QED
  BY <1>1, <1>2, <1>3, <1>4, <1>5, <1>6, <1>7, <1>8, <1>9, <1>10, <1>11,
     <1>12, <1>13 DEF Run, Save

LEMMA RunKeepsRunInv ==
  ASSUME BaseInv, Run \/ Crash
  PROVE  RunInv'
<1> USE DEF BaseInv, TrackedData, LoopTypeOK, TypeOK, RunInv, BatchesInStep, Active, Phases, Saving, memory, disk
<1>1. CASE Load
  <2>1. /\ phase = "load" /\ phase' = "step"
        /\ UNCHANGED <<attempt, tracker>>
    BY <1>1 DEF Load
  <2>2. step' \in Steps /\ (tracker \in Steps => tracker < step')
    <3>1. CASE FromScratch /\ step' = 1
      <4>1. tracker \notin Steps
        BY <3>1 DEF FromScratch, FolderExists
      <4> QED
        BY <3>1, <4>1
    <3>2. CASE tracker \in Steps /\ step' = tracker + 1
      BY <2>1, <3>2
    <3> QED
      BY <1>1, <3>1, <3>2 DEF Load
  <2>3. tracker # Empty
    BY <1>1 DEF Load, FromScratch
  <2> QED
    BY <2>1, <2>2, <2>3
<1>2. CASE LoadFails
  BY <1>2 DEF LoadFails
<1>3. CASE TrainStep
  BY <1>3 DEF TrainStep, SaveDue
<1>4. CASE EpochEnds
  BY <1>4 DEF EpochEnds
<1>5. CASE Rotate
  BY <1>5, Rotated DEF Rotate
<1>6. CASE Barrier
  BY <1>6 DEF Barrier
<1>7. CASE OpenData
  BY <1>7 DEF OpenData
<1>8. CASE CloseData
  BY <1>8 DEF CloseData
<1>9. CASE OpenTracker
  BY <1>9 DEF OpenTracker
<1>10. CASE CloseTracker
  BY <1>10 DEF CloseTracker
<1>11. CASE Crash
  BY <1>11 DEF Crash
<1>12. ASSUME NEW r \in Ranks, OpenShard(r)
      PROVE  RunInv'
  BY <1>12 DEF OpenShard
<1>13. ASSUME NEW r \in Ranks, CloseShard(r)
      PROVE  RunInv'
  BY <1>13 DEF CloseShard
<1> QED
  BY <1>1, <1>2, <1>3, <1>4, <1>5, <1>6, <1>7, <1>8, <1>9, <1>10, <1>11,
     <1>12, <1>13 DEF Run, Save

LEMMA RunKeepsSaved ==
  ASSUME Keep # 1, IInv, Run \/ Crash
  PROVE  SavedInv'
<1> USE DEF IInv, BaseInv, LoopTypeOK, TypeOK, RunInv, SavedInv, Active, Phases, Saving, memory, disk
<1>1. CASE Load
  BY <1>1 DEF Load
<1>2. CASE LoadFails
  BY <1>2 DEF LoadFails
<1>3. CASE TrainStep
  BY <1>3 DEF TrainStep, SaveDue
<1>4. CASE EpochEnds
  BY <1>4 DEF EpochEnds
<1>5. CASE Rotate
  <2>1. /\ phase = "rotate" /\ phase' = "shards" /\ UNCHANGED tracker
        /\ Excess \in 0 .. Len(saved) /\ Len(saved) \in Nat
        /\ Len(saved') = Len(saved) - Excess
        /\ \A i \in 1 .. Len(saved') : saved'[i] = saved[i + Excess]
    BY <1>5, Rotated DEF Rotate
  <2>2. \A i, j \in 1 .. Len(saved') : i < j => saved'[i] < saved'[j]
    <3>1. \A i, j \in 1 .. Len(saved) : i < j => saved[i] < saved[j]
      BY <2>1
    <3> SUFFICES ASSUME NEW i \in 1 .. Len(saved'), NEW j \in 1 .. Len(saved'),
                        i < j
                 PROVE  saved'[i] < saved'[j]
      OBVIOUS
    <3>2. /\ i + Excess \in 1 .. Len(saved) /\ j + Excess \in 1 .. Len(saved)
          /\ i + Excess < j + Excess
      BY <2>1
    <3>3. saved[i + Excess] < saved[j + Excess]
      BY <3>1, <3>2
    <3> QED
      BY <2>1, <3>3
  <2>3. saved' # <<>> => saved'[Len(saved')] = tracker
    <3>1. Len(saved') \in Nat /\ (saved' # <<>> => Len(saved') > 0)
      BY <1>5, Rotated
    <3>2. CASE saved' # <<>>
      <4>1. saved # <<>> /\ Len(saved') \in 1 .. Len(saved')
        BY <2>1, <3>1, <3>2
      <4>2. saved'[Len(saved')] = saved[Len(saved)]
        <5> DEFINE k == Len(saved')
        <5>1. k \in 1 .. k /\ k + Excess = Len(saved)
          BY <2>1, <4>1
        <5>2. saved'[k] = saved[k + Excess]
          BY ONLY <2>1, <5>1
        <5> QED
          BY ONLY <5>1, <5>2
      <4>3. saved[Len(saved)] = tracker
        BY <2>1, <4>1
      <4> QED
        BY <4>2, <4>3
    <3> QED
      BY <3>2
  <2> QED
    BY <2>1, <2>2, <2>3
<1>6. CASE Barrier
  <2>1. /\ phase = "shards" /\ phase' = "data" /\ UNCHANGED <<step, tracker>>
        /\ saved' = Append(saved, step)
        /\ saved \in Seq(Steps) /\ Len(saved) \in Nat /\ step \in Steps
    BY <1>6 DEF Barrier
  <2>2. /\ Len(saved') = Len(saved) + 1 /\ saved'[Len(saved) + 1] = step
        /\ \A i \in 1 .. Len(saved) : saved'[i] = saved[i]
    BY <2>1
  <2>3. \A i \in 1 .. Len(saved) : saved[i] \in Steps /\ saved[i] < step
    <3> SUFFICES ASSUME NEW i \in 1 .. Len(saved)
                 PROVE  saved[i] \in Steps /\ saved[i] < step
      OBVIOUS
    <3>1. /\ saved # <<>> /\ saved[i] \in Steps
          /\ Len(saved) \in 1 .. Len(saved) /\ saved[Len(saved)] \in Steps
      BY <2>1
    <3>2. saved[Len(saved)] = tracker /\ tracker < step
      BY <2>1, <3>1
    <3>3. i = Len(saved) \/ saved[i] < saved[Len(saved)]
      BY <2>1, <3>1
    <3> QED
      BY <2>1, <3>1, <3>2, <3>3
  <2>4. saved' # <<>>
    BY <2>1
  <2> QED
    BY <2>1, <2>2, <2>3, <2>4
<1>7. CASE OpenData
  BY <1>7 DEF OpenData
<1>8. CASE CloseData
  BY <1>8 DEF CloseData
<1>9. CASE OpenTracker
  BY <1>9 DEF OpenTracker
<1>10. CASE CloseTracker
  BY <1>10 DEF CloseTracker
<1>11. CASE Crash
  BY <1>11 DEF Crash
<1>12. ASSUME NEW r \in Ranks, OpenShard(r)
      PROVE  SavedInv'
  BY <1>12 DEF OpenShard
<1>13. ASSUME NEW r \in Ranks, CloseShard(r)
      PROVE  SavedInv'
  BY <1>13 DEF CloseShard
<1> QED
  BY <1>1, <1>2, <1>3, <1>4, <1>5, <1>6, <1>7, <1>8, <1>9, <1>10, <1>11,
     <1>12, <1>13 DEF Run, Save

LEMMA RunKeepsBatches ==
  ASSUME BaseInv, Run \/ Crash
  PROVE  BatchesInStep'
<1> USE DEF BaseInv, TrackedData, LoopTypeOK, TypeOK, BatchesInStep, Phases, Saving, memory, disk
<1>1. CASE Load
  BY <1>1 DEF Load, FromScratch, FolderExists
<1>2. CASE LoadFails
  BY <1>2 DEF LoadFails
<1>3. CASE TrainStep
  BY <1>3 DEF TrainStep, SaveDue
<1>4. CASE EpochEnds
  BY <1>4 DEF EpochEnds
<1>5. CASE Rotate
  BY <1>5 DEF Rotate
<1>6. CASE Barrier
  BY <1>6 DEF Barrier
<1>7. CASE OpenData
  BY <1>7 DEF OpenData
<1>8. CASE CloseData
  BY <1>8 DEF CloseData
<1>9. CASE OpenTracker
  BY <1>9 DEF OpenTracker
<1>10. CASE CloseTracker
  BY <1>10 DEF CloseTracker
<1>11. CASE Crash
  BY <1>11 DEF Crash
<1>12. ASSUME NEW r \in Ranks, OpenShard(r)
      PROVE  BatchesInStep'
  BY <1>12 DEF OpenShard
<1>13. ASSUME NEW r \in Ranks, CloseShard(r)
      PROVE  BatchesInStep'
  BY <1>13 DEF CloseShard
<1> QED
  BY <1>1, <1>2, <1>3, <1>4, <1>5, <1>6, <1>7, <1>8, <1>9, <1>10, <1>11,
     <1>12, <1>13 DEF Run, Save

LEMMA RunKeepsData ==
  ASSUME BaseInv, Run \/ Crash
  PROVE  TrackedData'
<1> USE DEF BaseInv, TrackedData, LoopTypeOK, TypeOK, RunInv, BatchesInStep, Active, Phases, Saving, memory, disk
<1>1. CASE Load
  BY <1>1 DEF Load
<1>2. CASE LoadFails
  BY <1>2 DEF LoadFails
<1>3. CASE TrainStep
  BY <1>3 DEF TrainStep
<1>4. CASE EpochEnds
  BY <1>4 DEF EpochEnds
<1>5. CASE Rotate
  BY <1>5 DEF Rotate
<1>6. CASE Barrier
  BY <1>6 DEF Barrier
<1>7. CASE OpenData
  BY <1>7 DEF OpenData
<1>8. CASE CloseData
  BY <1>8 DEF CloseData
<1>9. CASE OpenTracker
  BY <1>9 DEF OpenTracker
<1>10. CASE CloseTracker
  BY <1>10 DEF CloseTracker
<1>11. CASE Crash
  BY <1>11 DEF Crash
<1>12. ASSUME NEW r \in Ranks, OpenShard(r)
      PROVE  TrackedData'
  BY <1>12 DEF OpenShard
<1>13. ASSUME NEW r \in Ranks, CloseShard(r)
      PROVE  TrackedData'
  BY <1>13 DEF CloseShard
<1> QED
  BY <1>1, <1>2, <1>3, <1>4, <1>5, <1>6, <1>7, <1>8, <1>9, <1>10, <1>11,
     <1>12, <1>13 DEF Run, Save

LEMMA RunKeepsWhole ==
  ASSUME Keep # 1, IInv, Run \/ Crash
  PROVE  TrackedCheckpointWhole'
<1> USE DEF IInv, BaseInv, LoopTypeOK, TypeOK, RunInv, SavedInv, TrackedCheckpointWhole, BatchesInStep, Active, Phases, Saving, memory, disk, Whole
<1>1. CASE Load
  BY <1>1 DEF Load
<1>2. CASE LoadFails
  BY <1>2 DEF LoadFails
<1>3. CASE TrainStep
  BY <1>3 DEF TrainStep
<1>4. CASE EpochEnds
  BY <1>4 DEF EpochEnds
<1>5. CASE Rotate
  <2>1. /\ phase = "rotate" /\ UNCHANGED <<tracker, data>>
        /\ saved \in Seq(Steps) /\ Len(saved) \in Nat
        /\ shard' = [s \in Steps |->
                      IF s \in {saved[i] : i \in 1 .. Excess}
                        THEN [r \in Ranks |-> NoFile] ELSE shard[s]]
    BY <1>5 DEF Rotate
  <2>2. ASSUME tracker \in Steps, NEW i \in 1 .. Excess
        PROVE  saved[i] # tracker
    <3>1. Keep \in Nat /\ Keep >= 2 /\ Len(saved) >= Keep
          /\ Excess = Len(saved) - Keep + 1
      BY <2>1, <2>2 DEF Excess
    <3>2. /\ i \in 1 .. Len(saved) /\ i < Len(saved) /\ saved # <<>>
          /\ Len(saved) \in 1 .. Len(saved)
      BY <2>1, <2>2, <3>1
    <3>3. saved[i] < saved[Len(saved)] /\ saved[Len(saved)] = tracker
      BY <2>1, <3>2
    <3> QED
      BY <2>2, <3>3
  <2>3. tracker \in Steps => shard'[tracker] = shard[tracker]
    BY <2>1, <2>2
  <2> QED
    BY <2>1, <2>3
<1>6. CASE Barrier
  BY <1>6 DEF Barrier
<1>7. CASE OpenData
  BY <1>7 DEF OpenData
<1>8. CASE CloseData
  BY <1>8 DEF CloseData
<1>9. CASE OpenTracker
  <2>1. tracker' = Empty
    BY <1>9 DEF OpenTracker
  <2> QED
    BY <2>1
<1>10. CASE CloseTracker
  BY <1>10 DEF CloseTracker
<1>11. CASE Crash
  BY <1>11 DEF Crash
<1>12. ASSUME NEW r \in Ranks, OpenShard(r)
      PROVE  TrackedCheckpointWhole'
  BY <1>12 DEF OpenShard
<1>13. ASSUME NEW r \in Ranks, CloseShard(r)
      PROVE  TrackedCheckpointWhole'
  BY <1>13 DEF CloseShard
<1> QED
  BY <1>1, <1>2, <1>3, <1>4, <1>5, <1>6, <1>7, <1>8, <1>9, <1>10, <1>11,
     <1>12, <1>13 DEF Run, Save

(***************************************************************************)
(* How far step gets beyond the tracked step.  RemainderGrows is all that  *)
(* is needed of arithmetic: from one save to the next the remainder of the *)
(* step by SaveFreq counts the steps.                                      *)
(***************************************************************************)
LEMMA SmallMultiple ==
  ASSUME NEW d \in Int, NEW F \in Int, F > 0, F * d < F, F * d > -F
  PROVE  d = 0
<1>1. d >= 1 => F * d >= F
  BY SMTT(20)
<1>2. d <= -1 => F * d <= -F
  BY SMTT(20)
<1> QED
  BY <1>1, <1>2

LEMMA RemainderGrows ==
  ASSUME NEW m \in Nat, NEW F \in Nat \ {0}, (m + 1) % F # 0
  PROVE  (m + 1) % F = (m % F) + 1
<1> DEFINE q == m \div F
           u == (m + 1) \div F
           r == m % F
           v == (m + 1) % F
<1>1. q \in Int /\ u \in Int
  BY Z3
<1>2. r \in 0 .. F - 1 /\ v \in 1 .. F - 1
  OBVIOUS
<1>3. m = F * q + r /\ m + 1 = F * u + v
  OBVIOUS
<1> HIDE DEF q, u, r, v
<1>4. F * (u - q) = r + 1 - v
  BY <1>1, <1>2, <1>3
<1>5. u - q = 0
  BY <1>1, <1>2, <1>4, SmallMultiple
<1> QED
  BY <1>1, <1>2, <1>4, <1>5 DEF r, v

LEMMA RunKeepsGap ==
  ASSUME BaseInv, SaveGap, Run \/ Crash
  PROVE  SaveGap'
<1> USE DEF SaveGap, Tracked, Active, Phases, Saving, memory, disk
<1>0. /\ step \in 0 .. Total /\ tracker \in {NoFile, Empty} \union Steps
      /\ (Active => step \in Steps)
  BY DEF BaseInv, LoopTypeOK, TypeOK, RunInv
<1>1. CASE Load
  <2>1. /\ UNCHANGED tracker /\ tracker # Empty
        /\ step' = Tracked + 1
    BY <1>0, <1>1 DEF Load, FromScratch, FolderExists, BaseInv, TrackedData
  <2>2. Tracked \in Nat /\ Tracked % SaveFreq \in Nat
    BY <1>0
  <2> QED
    BY <2>1, <2>2
<1>2. CASE TrainStep
  <2>1. CASE (SaveDue \/ Esi) /\ UNCHANGED step
    BY <1>2, <2>1 DEF TrainStep
  <2>2. CASE ~SaveDue /\ step' = step + 1
    <3>1. /\ phase = "step" /\ UNCHANGED tracker /\ step % SaveFreq # 0
          /\ step - 1 \in Nat /\ step = (step - 1) + 1
      BY <1>0, <1>2, <2>2 DEF TrainStep, SaveDue
    <3>2. step % SaveFreq = ((step - 1) % SaveFreq) + 1
      BY <3>1, RemainderGrows
    <3>3. (step - 1) % SaveFreq \in Nat
      BY <3>1
    <3>4. step - 1 <= Tracked + ((step - 1) % SaveFreq) \/ tracker = Empty
      BY <3>1
    <3> QED
      BY <1>0, <2>2, <3>1, <3>2, <3>3, <3>4
  <2> QED
    BY <1>2, <2>1, <2>2 DEF TrainStep
<1>3. CASE CloseTracker
  <2>1. /\ tracker' = step /\ step \in Steps
        /\ (phase' # "down" => step' = step + 1)
    BY <1>0, <1>3 DEF CloseTracker
  <2>2. step % SaveFreq \in Nat
    BY <2>1
  <2> QED
    BY <2>1, <2>2
<1>4. CASE LoadFails
  BY <1>4 DEF LoadFails
<1>5. CASE EpochEnds
  BY <1>5 DEF EpochEnds
<1>6. CASE Rotate
  BY <1>6 DEF Rotate
<1>7. CASE Barrier
  BY <1>7 DEF Barrier
<1>8. CASE OpenData
  BY <1>8 DEF OpenData
<1>9. CASE CloseData
  BY <1>9 DEF CloseData
<1>10. CASE OpenTracker
  BY <1>10 DEF OpenTracker
<1>11. CASE Crash
  BY <1>11 DEF Crash
<1>12. ASSUME NEW r \in Ranks, OpenShard(r)
      PROVE  SaveGap'
  BY <1>12 DEF OpenShard
<1>13. ASSUME NEW r \in Ranks, CloseShard(r)
      PROVE  SaveGap'
  BY <1>13 DEF CloseShard
<1> QED
  BY <1>1, <1>2, <1>3, <1>4, <1>5, <1>6, <1>7, <1>8, <1>9, <1>10, <1>11,
     <1>12, <1>13 DEF Run, Save

(***************************************************************************)
(* The loop touches nothing but its own state, or launches a run.          *)
(***************************************************************************)
LEMMA LoopKeepsBase ==
  ASSUME BaseInv, Loop
  PROVE  BaseInv'
<1> USE DEF BaseInv, TrackedData, LoopTypeOK, TypeOK, RunInv, BatchesInStep,
            Active, Phases, Saving
<1>1. CASE GiveUp
  BY <1>1 DEF GiveUp, vars
<1>2. CASE Done
  BY <1>2 DEF Done, vars
<1>3. CASE Again
  BY <1>3 DEF Again, Launch, Finished, memory, disk
<1>4. CASE Returned
  BY <1>4 DEF Returned, vars
<1> QED
  BY <1>1, <1>2, <1>3, <1>4 DEF Loop

LEMMA LoopKeepsRest ==
  ASSUME IInv, Loop
  PROVE  SavedInv' /\ TrackedCheckpointWhole'
<1> USE DEF IInv, SavedInv, TrackedCheckpointWhole, Whole, Active, Saving
<1>1. CASE GiveUp
  BY <1>1 DEF GiveUp, vars
<1>2. CASE Done
  BY <1>2 DEF Done, vars
<1>3. CASE Again
  BY <1>3 DEF Again, Launch, memory, disk
<1>4. CASE Returned
  BY <1>4 DEF Returned, vars
<1> QED
  BY <1>1, <1>2, <1>3, <1>4 DEF Loop

LEMMA NextBase == BaseInv /\ [LoopNext]_allVars => BaseInv'
<1> SUFFICES ASSUME BaseInv, [LoopNext]_allVars
             PROVE  BaseInv'
  OBVIOUS
<1>1. CASE Loop
  BY <1>1, LoopKeepsBase
<1>2. CASE (Run \/ Crash) /\ UNCHANGED loop
  <2>1. LoopTypeOK'
    BY <1>2, RunTyped DEF BaseInv, LoopTypeOK
  <2> QED
    BY <1>2, <2>1, RunKeepsRunInv, RunKeepsData, RunKeepsBatches DEF BaseInv
<1>3. CASE UNCHANGED allVars
  BY <1>3 DEF allVars, BaseInv, LoopTypeOK, TypeOK, RunInv, TrackedData, Active,
              BatchesInStep
<1> QED
  BY <1>1, <1>2, <1>3 DEF LoopNext

LEMMA NextGap == BaseInv /\ SaveGap /\ [LoopNext]_allVars => SaveGap'
<1> SUFFICES ASSUME BaseInv, SaveGap, [LoopNext]_allVars
             PROVE  SaveGap'
  OBVIOUS
<1> USE DEF SaveGap, Active, Saving, Tracked
<1>1. CASE GiveUp \/ Done \/ Returned \/ UNCHANGED allVars
  BY <1>1 DEF GiveUp, Done, Returned, vars, allVars
<1>2. CASE Again
  BY <1>2 DEF Again, Launch
<1>3. CASE Run \/ Crash
  BY <1>3, RunKeepsGap
<1> QED
  BY <1>1, <1>2, <1>3 DEF LoopNext, Loop

LEMMA NextIInv == Keep # 1 /\ IInv /\ [LoopNext]_allVars => IInv'
<1> SUFFICES ASSUME Keep # 1, IInv, [LoopNext]_allVars
             PROVE  SavedInv' /\ TrackedCheckpointWhole'
  BY NextBase DEF IInv
<1>1. CASE Loop
  BY <1>1, LoopKeepsRest
<1>2. CASE Run \/ Crash
  BY <1>2, RunKeepsSaved, RunKeepsWhole
<1>3. CASE UNCHANGED allVars
  BY <1>3 DEF allVars, IInv, SavedInv, Active, TrackedCheckpointWhole, Whole
<1> QED
  BY <1>1, <1>2, <1>3 DEF LoopNext

\* Whatever crashes there are, the step the tracker names has the shards of
\* one attempt and the dataloader's state of that step, for any number of
\* ranks and steps: unless a single checkpoint is kept.
THEOREM TrackedWhole ==
  ASSUME Keep # 1
  PROVE  LoopSpec => []TrackedCheckpointWhole
<1>1. LoopInit => IInv
  BY InitIInv
<1>2. IInv /\ [LoopNext]_allVars => IInv'
  BY NextIInv
<1>3. IInv => TrackedCheckpointWhole
  BY DEF IInv
<1> QED
  BY <1>1, <1>2, <1>3, PTL DEF LoopSpec

\* No batch is repeated or left out by a resume, however many checkpoints are
\* kept and whatever crashes there are.
THEOREM InStep == LoopSpec => []BatchesInStep
<1>1. LoopInit => BaseInv
  BY InitIInv DEF IInv
<1>2. BaseInv /\ [LoopNext]_allVars => BaseInv'
  BY NextBase
<1>3. BaseInv => BatchesInStep
  BY DEF BaseInv
<1> QED
  BY <1>1, <1>2, <1>3, PTL DEF LoopSpec

LEMMA WithinGap ==
  ASSUME BaseInv, SaveGap, Active, tracker # Empty
  PROVE  Tracked <= step /\ step <= Tracked + SaveFreq
<1>1. /\ step \in Steps /\ tracker \in {NoFile} \union Steps
      /\ (tracker \in Steps => tracker < step)
  BY DEF BaseInv, LoopTypeOK, TypeOK, RunInv
<1>2. (step - 1) % SaveFreq \in 0 .. SaveFreq - 1
  BY <1>1
<1>3. step - 1 <= Tracked + ((step - 1) % SaveFreq)
  BY DEF SaveGap
<1> QED
  BY <1>1, <1>2, <1>3 DEF Tracked

LEMMA AlwaysGap == LoopSpec => [](BaseInv /\ SaveGap)
<1>1. LoopInit => BaseInv /\ SaveGap
  BY InitIInv DEF IInv, LoopInit, Init, SaveGap, Active, Saving
<1>2. BaseInv /\ SaveGap /\ [LoopNext]_allVars => (BaseInv /\ SaveGap)'
  BY NextBase, NextGap
<1> QED
  BY <1>1, <1>2, PTL DEF LoopSpec

\* A run is never more than SAVE_FREQ steps beyond the step that a resume
\* would come back to, and never below it.
THEOREM Loss == LoopSpec => []LossBounded
<1>1. BaseInv /\ SaveGap => LossBounded
  BY WithinGap DEF LossBounded, Active
<1> QED
  BY <1>1, AlwaysGap, PTL

(***************************************************************************)
(* The loop implements DurableProgress: what each of its steps is there.   *)
(***************************************************************************)
Same == UNCHANGED <<Kept, Lost, Active, Live>>

LEMMA LoadBegins ==
  ASSUME BaseInv, Load
  PROVE  Durable!Begin
<1> USE DEF BaseInv, LoopTypeOK, TypeOK, RunInv, TrackedData
<1>1. /\ phase = "load" /\ phase' = "step" /\ UNCHANGED <<tracker, data>>
      /\ tracker # Empty
  BY DEF Load, FromScratch, disk
<1>2. /\ Active = FALSE /\ Active' = TRUE /\ Lost = FALSE /\ Lost' = FALSE
      /\ Kept = Tracked /\ Kept' = Tracked /\ Live' = pos'
  BY <1>1 DEF Active, Saving, Lost, Kept, Tracked, Live
<1>3. pos' = Tracked
  <2>1. CASE FromScratch /\ pos' = 0
    <3>1. tracker \notin Steps
      BY <2>1 DEF FromScratch, FolderExists
    <3> QED
      BY <2>1, <3>1 DEF Tracked
  <2>2. CASE tracker \in Steps /\ pos' = IF data[tracker] = NoFile THEN 0 ELSE data[tracker]
    BY <2>2 DEF Tracked
  <2> QED
    BY <2>1, <2>2 DEF Load
<1> QED
  BY ONLY <1>2, <1>3 DEF Durable!Begin

LEMMA BatchAdvances ==
  ASSUME BaseInv, SaveGap, TrainStep
  PROVE  Durable!Advance(1)
<1>1. /\ phase = "step" /\ phase' \in {"step", "rotate"} /\ pos' = pos + 1 /\ UNCHANGED tracker
      /\ step \in Steps /\ pos = step - 1 /\ tracker # Empty
  BY DEF TrainStep, disk, BaseInv, RunInv, BatchesInStep, Active
<1>2. /\ Active = TRUE /\ Active' = TRUE /\ Lost = FALSE /\ Lost' = FALSE
      /\ Kept = Tracked /\ Kept' = Tracked /\ Live = pos /\ Live' = pos + 1
  BY <1>1 DEF Active, Saving, Lost, Kept, Tracked, Live
<1>3. step <= Tracked + SaveFreq /\ Tracked \in Nat
  BY <1>1, <1>2, WithinGap DEF Tracked
<1>4. pos + 1 <= Total /\ pos + 1 <= Tracked + SaveFreq
  BY <1>1, <1>3
<1>5. Live + 1 <= Total /\ Live + 1 <= Kept + SaveFreq /\ Live' = Live + 1
  BY ONLY <1>2, <1>4
<1> QED
  BY <1>2, <1>5 DEF Durable!Advance

LEMMA TruncationCommits ==
  ASSUME BaseInv, OpenTracker
  PROVE  Durable!Commit
<1>1. /\ phase = "track" /\ tracker # Empty /\ tracker' = Empty
      /\ UNCHANGED <<phase, step, pos>>
      /\ step \in Steps /\ pos = step /\ (tracker \in Steps => tracker < step)
  BY DEF OpenTracker, memory, BaseInv, RunInv, BatchesInStep, Active, Saving
<1>2. /\ Active = TRUE /\ Active' = TRUE /\ Lost = FALSE /\ Lost' = FALSE
      /\ Kept = Tracked /\ Kept' = step /\ Live = step /\ Live' = step
  BY <1>1 DEF Active, Saving, Lost, Kept, Live
<1>3. Tracked < step
  BY <1>1 DEF Tracked
<1> QED
  BY <1>1, <1>2, <1>3 DEF Durable!Commit

LEMMA TrackerIsWritten ==
  ASSUME BaseInv, CloseTracker
  PROVE  Same \/ Durable!Fall
<1>1. /\ phase = "track" /\ tracker = Empty /\ tracker' = step /\ UNCHANGED pos
      /\ step \in Steps
  BY DEF CloseTracker, BaseInv, RunInv, Active, Saving
<1>2. step # Empty
  BY <1>1
<1>3. /\ Active = TRUE /\ Lost = FALSE /\ Lost' = FALSE /\ Kept = step /\ Kept' = step
      /\ Live = pos
  BY <1>1, <1>2 DEF Active, Saving, Lost, Kept, Tracked, Live
<1>4. CASE phase' = "step"
  <2>1. Active' = TRUE /\ Live' = pos
    BY <1>1, <1>4 DEF Active, Live
  <2> QED
    BY <1>3, <2>1 DEF Same
<1>5. CASE phase' = "down"
  <2>1. Active' = FALSE /\ Live' = 0
    BY <1>5 DEF Active, Saving, Live
  <2> QED
    BY <1>3, <2>1 DEF Durable!Fall
<1> QED
  BY <1>4, <1>5 DEF CloseTracker

LEMMA RunEndsOrFalls ==
  ASSUME BaseInv, Crash \/ EpochEnds \/ LoadFails
  PROVE  Same \/ Durable!Fall \/ Durable!Lose
<1>1. /\ phase # "down" /\ phase' = "down" /\ UNCHANGED <<step, pos, tracker>>
  BY DEF Crash, EpochEnds, LoadFails, memory, disk
<1>2. Active' = FALSE /\ Live' = 0
  BY <1>1 DEF Active, Saving, Live
<1>3. CASE phase = "track" /\ tracker = Empty
  <2>1. Active = TRUE /\ Live = pos /\ Kept = step /\ pos = step
    BY <1>3 DEF Active, Saving, Live, Kept, BaseInv, BatchesInStep
  <2>2. Lost' = TRUE /\ Kept' = 0
    BY <1>1, <1>3 DEF Lost, Kept
  <2> QED
    BY <1>2, <2>1, <2>2 DEF Durable!Lose
<1>4. CASE phase # "track" \/ tracker # Empty
  <2>1. Kept' = Kept /\ Lost' = Lost
    BY <1>1, <1>4 DEF Kept, Lost, Tracked
  <2>2. CASE Active = TRUE
    BY <1>2, <2>1, <2>2 DEF Durable!Fall
  <2>3. CASE Active = FALSE
    BY <1>2, <2>1, <2>3 DEF Same, Live
  <2>4. Active = TRUE \/ Active = FALSE
    BY DEF Active
  <2> QED
    BY <2>2, <2>3, <2>4
<1> QED
  BY <1>3, <1>4

\* Rotation, shards and the dataloader's state are nothing to come back to.
LEMMA SavingIsHidden ==
  ASSUME BaseInv,
         \/ Rotate \/ Barrier \/ OpenData \/ CloseData
         \/ \E r \in Ranks : OpenShard(r) \/ CloseShard(r)
  PROVE  Same
<1>1. /\ phase \in {"rotate", "shards", "data"} /\ phase' \in Saving
      /\ UNCHANGED <<step, pos, tracker>>
  BY DEF Rotate, Barrier, OpenData, CloseData, OpenShard, CloseShard, Saving, memory, disk
<1>2. tracker # Empty
  BY <1>1 DEF BaseInv, RunInv
<1> QED
  BY <1>1, <1>2 DEF Same, Kept, Lost, Tracked, Active, Saving, Live

LEMMA LoopIsHidden ==
  ASSUME BaseInv, Loop \/ UNCHANGED allVars
  PROVE  Same
<1>1. CASE Again
  <2>1. phase = "down" /\ phase' = "load" /\ UNCHANGED <<step, pos, tracker>>
    BY <1>1 DEF Again, Launch, memory, disk
  <2> QED
    BY <2>1 DEF Same, Kept, Lost, Tracked, Active, Saving, Live
<1>2. CASE UNCHANGED <<phase, step, pos, tracker>>
  BY <1>2 DEF Same, Kept, Lost, Tracked, Active, Saving, Live
<1>3. GiveUp \/ Done \/ Returned \/ UNCHANGED allVars => UNCHANGED <<phase, step, pos, tracker>>
  BY DEF GiveUp, Done, Returned, vars, allVars
<1> QED
  BY <1>1, <1>2, <1>3 DEF Loop

LEMMA StepImplements ==
  BaseInv /\ SaveGap /\ [LoopNext]_allVars => [Durable!DurableNext]_(Durable!durableVars)
<1> SUFFICES ASSUME BaseInv, SaveGap, [LoopNext]_allVars
             PROVE  Durable!DurableNext \/ Same
  BY DEF Same, Durable!durableVars
<1>1. CASE Loop \/ UNCHANGED allVars
  BY <1>1, LoopIsHidden
<1>2. CASE Load
  BY <1>2, LoadBegins DEF Durable!DurableNext
<1>3. CASE TrainStep
  <2>1. 1 \in 1 .. 1 /\ Durable!Advance(1)
    BY <1>3, BatchAdvances
  <2> QED
    BY <2>1 DEF Durable!DurableNext
<1>4. CASE OpenTracker
  BY <1>4, TruncationCommits DEF Durable!DurableNext
<1>5. CASE CloseTracker
  BY <1>5, TrackerIsWritten DEF Durable!DurableNext
<1>6. CASE Crash \/ EpochEnds \/ LoadFails
  BY <1>6, RunEndsOrFalls DEF Durable!DurableNext
<1>7. CASE \/ Rotate \/ Barrier \/ OpenData \/ CloseData
           \/ \E r \in Ranks : OpenShard(r) \/ CloseShard(r)
  BY <1>7, SavingIsHidden
<1> QED
  BY <1>1, <1>2, <1>3, <1>4, <1>5, <1>6, <1>7 DEF LoopNext, Run, Save

\* The loop with its runs implements durable progress, for every number of ranks,
\* steps, crashes and attempts, every save frequency and however many checkpoints
\* are kept: a run goes on from the tracked step, which never goes back, and only
\* a crash inside of the tracker write loses it.
THEOREM DurableImplementation == LoopSpec => ImplementsDurable
<1>1. LoopInit => Durable!DurableInit
  BY DEF LoopInit, Init, Durable!DurableInit, Kept, Lost, Tracked, Active, Saving, Live
<1>2. BaseInv /\ SaveGap /\ [LoopNext]_allVars => [Durable!DurableNext]_(Durable!durableVars)
  BY StepImplements
<1> QED
  BY <1>1, <1>2, AlwaysGap, PTL DEF LoopSpec, ImplementsDurable, Durable!DurableSpec

\* Every reachable state is well typed.
THEOREM LoopTyped == LoopSpec => []LoopTypeOK
<1>1. LoopInit => BaseInv
  BY InitIInv DEF IInv
<1>2. BaseInv /\ [LoopNext]_allVars => BaseInv'
  BY NextBase
<1>3. BaseInv => LoopTypeOK
  BY DEF BaseInv
<1> QED
  BY <1>1, <1>2, <1>3, PTL DEF LoopSpec

(***************************************************************************)
(* How many checkpoints one attempt leaves.  All that it wrote and did not *)
(* remove is in previous_saved_paths, but for the checkpoint whose shards  *)
(* are being written; rotation made room for that one before.              *)
(***************************************************************************)
Written    == {s \in Steps : \E r \in Ranks : shard[s][r] = attempt}
Remembered == {saved[i] : i \in 1 .. Len(saved)}

KeepInv ==
  /\ \A s \in Steps, r \in Ranks : shard[s][r] \in 1 .. MaxAttempts => shard[s][r] <= attempt
  /\ phase = "load" => Written = {}
  /\ Active => Written \subseteq Remembered \union (IF phase = "shards" THEN {step} ELSE {})
  /\ Active /\ Keep > 0 => Len(saved) <= IF phase \in {"shards"} THEN Keep - 1 ELSE Keep
  /\ AttemptKeeps

LEMMA FewWritten ==
  ASSUME NEW sv \in Seq(Steps), NEW st, NEW k \in Nat, Len(sv) <= k - 1,
         NEW W, W \subseteq {sv[i] : i \in 1 .. Len(sv)} \union {st}
  PROVE  Cardinality(W) <= k
<1> DEFINE I == 1 .. Len(sv)
           T == {sv[i] : i \in 1 .. Len(sv)}
           B == T \union {st}
           f == [i \in I |-> sv[i]]
<1>1. Len(sv) \in Nat /\ 1 \in Int /\ Len(sv) \in Int
  OBVIOUS
<1>2. IsFiniteSet(I) /\ Cardinality(I) = Len(sv)
  <2>1. IsFiniteSet(I) /\ Cardinality(I) = IF 1 > Len(sv) THEN 0 ELSE Len(sv) - 1 + 1
    BY <1>1, FS_Interval
  <2> QED
    BY <1>1, <2>1
<1>3. f \in Surjection(I, T)
  <2>1. f \in [I -> T]
    OBVIOUS
  <2>2. \A x \in T : \E i \in I : f[i] = x
    OBVIOUS
  <2> QED
    BY <2>1, <2>2 DEF Surjection
<1>4. W \in SUBSET B
  OBVIOUS
<1> HIDE DEF I, T, f
<1>5. IsFiniteSet(T) /\ Cardinality(T) <= Cardinality(I)
  BY <1>2, <1>3, FS_Surjection
<1>6. IsFiniteSet(B) /\ Cardinality(B) = IF st \in T THEN Cardinality(T) ELSE Cardinality(T) + 1
  BY <1>5, FS_AddElement
<1> HIDE DEF B
<1>7. IsFiniteSet(W) /\ Cardinality(W) <= Cardinality(B)
  BY <1>4, <1>6, FS_Subset
<1>8. Cardinality(W) \in Nat /\ Cardinality(B) \in Nat /\ Cardinality(T) \in Nat
  BY <1>5, <1>6, <1>7, FS_CardinalityType
<1> QED
  BY <1>1, <1>2, <1>5, <1>6, <1>7, <1>8

\* every step but the first of a run: the set of what is written stays or shrinks
LEMMA RunKeepsFew ==
  ASSUME BaseInv, BaseInv', KeepInv, Run \/ Crash
  PROVE  KeepInv'
<1> DEFINE Old == \A s \in Steps, r \in Ranks :
                    shard'[s][r] \in 1 .. MaxAttempts => shard'[s][r] <= attempt'
           Inside == Written' \subseteq Remembered' \union (IF phase' = "shards" THEN {step'} ELSE {})
           Room == Len(saved') <= IF phase' \in {"shards"} THEN Keep - 1 ELSE Keep
<1>0. /\ TypeOK /\ TypeOK' /\ Len(saved) \in Nat
      /\ shard \in [Steps -> [Ranks -> {NoFile, Part} \union 1 .. MaxAttempts]]
      /\ attempt \in 0 .. MaxAttempts /\ (phase # "down" => attempt \in 1 .. MaxAttempts)
      /\ (Active => step \in Steps)
  BY DEF BaseInv, LoopTypeOK, TypeOK, RunInv
<1>00. attempt \in Nat /\ (phase # "down" => attempt # Part /\ attempt # NoFile)
  BY <1>0
<1>1. CASE Load
  <2>1. phase = "load" /\ phase' = "step" /\ saved' = <<>> /\ UNCHANGED <<attempt, shard>>
    BY <1>1 DEF Load, disk
  <2>2. Written' = {} /\ Old
    BY <2>1 DEF KeepInv, Written
  <2>3. AttemptKeeps'
    BY <2>2, FS_EmptySet DEF AttemptKeeps, Written
  <2> QED
    BY <2>1, <2>2, <2>3 DEF KeepInv, Active
<1>2. CASE LoadFails \/ EpochEnds \/ Crash
  <2>1. phase' = "down" /\ UNCHANGED <<attempt, shard>>
    BY <1>2 DEF LoadFails, EpochEnds, Crash, disk
  <2>2. Written' = Written
    BY <2>1 DEF Written
  <2>3. AttemptKeeps'
    BY <2>1 DEF KeepInv, AttemptKeeps
  <2> QED
    BY <2>1, <2>3 DEF KeepInv, Active, Saving
<1>3. CASE TrainStep \/ OpenData \/ CloseData \/ OpenTracker \/ CloseTracker
  <2>1. /\ phase \in {"step", "data", "track"}
        /\ phase' \in {"step", "rotate", "data", "track", "down"}
        /\ UNCHANGED <<attempt, shard, saved>>
    BY <1>3 DEF TrainStep, OpenData, CloseData, OpenTracker, CloseTracker, memory, disk
  <2>2. Written' = Written /\ Remembered' = Remembered
    BY <2>1 DEF Written, Remembered
  <2>3. AttemptKeeps'
    BY <2>1 DEF KeepInv, AttemptKeeps
  <2>4. Old
    BY <2>1 DEF KeepInv
  <2>5. Inside /\ (Keep > 0 => Room)
    BY <2>1, <2>2 DEF KeepInv, Active, Saving
  <2> QED
    BY <2>1, <2>3, <2>4, <2>5 DEF KeepInv, Active, Saving
<1>4. CASE Rotate
  <2> DEFINE gone == {saved[i] : i \in 1 .. Excess}
  <2>1. /\ phase = "rotate" /\ phase' = "shards" /\ UNCHANGED <<attempt, step>>
        /\ shard' = [s \in Steps |-> IF s \in gone THEN [r \in Ranks |-> NoFile] ELSE shard[s]]
    BY <1>4 DEF Rotate
  <2>2. /\ saved' \in Seq(Steps) /\ Excess \in 0 .. Len(saved) /\ Len(saved') = Len(saved) - Excess
        /\ \A i \in 1 .. Len(saved') : saved'[i] = saved[i + Excess]
    BY <1>0, <1>4, Rotated
  <2>3. Written \subseteq Remembered
    BY <2>1 DEF KeepInv, Active, Saving
  <2>4. Written' = Written \ gone
    <3>1. \A s \in Steps : s \in gone => \A r \in Ranks : shard'[s][r] = NoFile
      BY <2>1
    <3>2. \A s \in Steps : s \notin gone => shard'[s] = shard[s]
      BY <2>1
    <3> HIDE DEF gone
    <3> QED
      BY <1>00, <2>1, <3>1, <3>2 DEF Written
  <2>5. ASSUME NEW x \in Remembered, x \notin gone PROVE x \in Remembered'
    <3>1. PICK i \in 1 .. Len(saved) : x = saved[i]
      BY DEF Remembered
    <3>2. i \notin 1 .. Excess
      BY <2>5, <3>1
    <3>3. i - Excess \in 1 .. Len(saved') /\ (i - Excess) + Excess = i
      BY <1>0, <2>2, <3>1, <3>2
    <3>4. saved'[i - Excess] = x
      BY <2>2, <3>1, <3>3
    <3> QED
      BY <3>3, <3>4 DEF Remembered
  <2>6. Inside
    BY <2>3, <2>4, <2>5
  <2>7. Keep > 0 => Room
    <3> SUFFICES ASSUME Keep > 0 PROVE Len(saved) - Excess <= Keep - 1
      BY <2>1, <2>2
    <3> QED
      BY <1>0 DEF Excess
  <2>8. Old
    BY <2>1 DEF KeepInv
  <2>9. AttemptKeeps'
    <3>1. CASE Keep > 0
      <4>1. saved' \in Seq(Steps) /\ Len(saved') <= Keep - 1
        BY <1>0, <2>1, <2>6, <2>7, <3>1 DEF TypeOK
      <4>2. Written' \subseteq {saved'[i] : i \in 1 .. Len(saved')} \union {step'}
        BY <2>1, <2>6, <2>7 DEF Remembered
      <4> HIDE DEF Steps
      <4>3. Cardinality(Written') <= Keep
        BY <4>1, <4>2, FewWritten
      <4> QED
        BY <4>3 DEF AttemptKeeps, Written
    <3>2. CASE ~(Keep > 0)
      BY <3>2 DEF AttemptKeeps
    <3> QED
      BY <3>1, <3>2
  <2> QED
    BY <2>1, <2>6, <2>7, <2>8, <2>9 DEF KeepInv
<1>5. ASSUME NEW r \in Ranks, OpenShard(r) \/ CloseShard(r)
      PROVE  KeepInv'
  <2>1. /\ phase = "shards" /\ phase' = "shards" /\ UNCHANGED <<attempt, saved, step>>
        /\ step \in Steps
    BY <1>0, <1>5 DEF OpenShard, CloseShard, memory, Active, Saving
  <2>2. /\ \A s \in Steps \ {step} : shard'[s] = shard[s]
        /\ \A q \in Ranks : shard'[step][q] \in {shard[step][q], Part, attempt}
    BY <1>0, <1>5, <2>1 DEF OpenShard, CloseShard
  <2>3. Remembered' = Remembered
    BY <2>1 DEF Remembered
  <2>4. Written' \subseteq Written \union {step}
    BY <2>1, <2>2 DEF Written
  <2>5. Inside /\ (Keep > 0 => Room)
    BY <2>1, <2>3, <2>4 DEF KeepInv, Active, Saving
  <2>6. Old
    <3> SUFFICES ASSUME NEW s \in Steps, NEW q \in Ranks, shard'[s][q] \in 1 .. MaxAttempts
                 PROVE  shard'[s][q] <= attempt
      BY <2>1
    <3>1. CASE s # step
      BY <2>2, <3>1 DEF KeepInv
    <3>2. CASE s = step
      <4>1. Part \notin 1 .. MaxAttempts
        OBVIOUS
      <4>2. shard'[s][q] = shard[s][q] \/ shard'[s][q] = attempt
        BY <2>2, <3>2, <4>1
      <4> QED
        BY <1>00, <4>2 DEF KeepInv
    <3> QED
      BY <3>1, <3>2
  <2>7. AttemptKeeps'
    <3>1. CASE Keep > 0
      <4>1. saved' \in Seq(Steps) /\ Len(saved') <= Keep - 1
        BY <1>0, <2>1, <2>5, <3>1 DEF TypeOK
      <4>2. Written' \subseteq {saved'[i] : i \in 1 .. Len(saved')} \union {step'}
        BY <2>1, <2>5 DEF Remembered
      <4> HIDE DEF Steps
      <4>3. Cardinality(Written') <= Keep
        BY <4>1, <4>2, FewWritten
      <4> QED
        BY <4>3 DEF AttemptKeeps, Written
    <3>2. CASE ~(Keep > 0)
      BY <3>2 DEF AttemptKeeps
    <3> QED
      BY <3>1, <3>2
  <2> QED
    BY <2>1, <2>5, <2>6, <2>7 DEF KeepInv
<1>6. CASE Barrier
  <2>1. /\ phase = "shards" /\ phase' = "data" /\ UNCHANGED <<attempt, shard, step>>
        /\ saved' = Append(saved, step) /\ step \in Steps /\ saved \in Seq(Steps)
    BY <1>0, <1>6 DEF Barrier, disk, Active, Saving, TypeOK
  <2>2. /\ Len(saved') = Len(saved) + 1 /\ saved'[Len(saved) + 1] = step
        /\ \A i \in 1 .. Len(saved) : saved'[i] = saved[i]
    BY <2>1
  <2>3. /\ Len(saved) + 1 \in 1 .. Len(saved')
        /\ \A i \in 1 .. Len(saved) : i \in 1 .. Len(saved')
    BY <1>0, <2>2
  <2>4. Remembered \union {step} \subseteq Remembered'
    BY <2>2, <2>3 DEF Remembered
  <2>5. Written' = Written
    BY <2>1 DEF Written
  <2>6. Inside
    BY <2>1, <2>4, <2>5 DEF KeepInv, Active, Saving
  <2>7. Keep > 0 => Room
    <3>1. Keep > 0 => Len(saved) <= Keep - 1
      BY <2>1 DEF KeepInv, Active, Saving
    <3> QED
      BY <1>0, <2>1, <2>2, <3>1
  <2>8. Old /\ AttemptKeeps'
    BY <2>1 DEF KeepInv, AttemptKeeps
  <2> QED
    BY <2>1, <2>6, <2>7, <2>8 DEF KeepInv
<1> QED
  BY <1>1, <1>2, <1>3, <1>4, <1>5, <1>6 DEF Run, Save

LEMMA LoopKeepsFew ==
  ASSUME BaseInv, KeepInv, Loop
  PROVE  KeepInv'
<1>1. CASE GiveUp \/ Done \/ Returned
  BY <1>1 DEF GiveUp, Done, Returned, vars, KeepInv, Active, Written, Remembered, AttemptKeeps
<1>2. CASE Again
  <2>1. phase' = "load" /\ attempt' = attempt + 1 /\ UNCHANGED shard /\ attempt \in Nat
    BY <1>2 DEF Again, Launch, disk, BaseInv, LoopTypeOK, TypeOK
  <2>2. ASSUME NEW s \in Steps, NEW r \in Ranks, shard[s][r] \in 1 .. MaxAttempts
        PROVE  shard[s][r] <= attempt /\ shard[s][r] # attempt + 1
    <3>1. shard[s][r] <= attempt
      BY <2>2 DEF KeepInv
    <3> QED
      BY <2>1, <2>2, <3>1
  <2>3. attempt + 1 \in 1 .. MaxAttempts
    BY <1>2 DEF Again, BaseInv, LoopTypeOK, TypeOK
  <2>4. Written' = {}
    BY <2>1, <2>2, <2>3 DEF Written
  <2>5. AttemptKeeps'
    BY <2>4, FS_EmptySet DEF AttemptKeeps, Written
  <2>6. \A s \in Steps, r \in Ranks : shard'[s][r] \in 1 .. MaxAttempts => shard'[s][r] <= attempt'
    <3> SUFFICES ASSUME NEW s \in Steps, NEW r \in Ranks, shard[s][r] \in 1 .. MaxAttempts
                 PROVE  shard[s][r] <= attempt + 1
      BY <2>1
    <3> QED
      BY <2>1, <2>2
  <2> QED
    BY <2>1, <2>4, <2>5, <2>6 DEF KeepInv, Active, Saving
<1> QED
  BY <1>1, <1>2 DEF Loop

LEMMA InitKeepInv == LoopInit => KeepInv
<1> SUFFICES ASSUME LoopInit PROVE KeepInv
  OBVIOUS
<1>1. /\ phase = "down" /\ attempt = 0 /\ \A s \in Steps, r \in Ranks : shard[s][r] = NoFile
  BY DEF LoopInit, Init
<1>2. Written = {}
  BY <1>1 DEF Written
<1>3. AttemptKeeps
  BY <1>2, FS_EmptySet DEF AttemptKeeps, Written
<1> QED
  BY <1>1, <1>2, <1>3 DEF KeepInv, Active, Saving

\* checkpoint_manager.py: one attempt leaves at most max_actor_ckpt_to_keep
\* checkpoints that it wrote, wherever it is cut.
THEOREM KeepsFew == LoopSpec => []AttemptKeeps
<1>1. LoopInit => BaseInv /\ KeepInv
  BY InitIInv, InitKeepInv DEF IInv
<1>2. BaseInv /\ KeepInv /\ [LoopNext]_allVars => (BaseInv /\ KeepInv)'
  <2> SUFFICES ASSUME BaseInv, KeepInv, [LoopNext]_allVars PROVE KeepInv'
    BY NextBase
  <2>1. CASE UNCHANGED allVars
    BY <2>1 DEF allVars, KeepInv, Active, Written, Remembered, AttemptKeeps
  <2>2. CASE Run \/ Crash
    BY <2>2, NextBase, RunKeepsFew
  <2>3. CASE Loop
    BY <2>3, LoopKeepsFew
  <2> QED
    BY <2>1, <2>2, <2>3 DEF LoopNext
<1>3. KeepInv => AttemptKeeps
  BY DEF KeepInv
<1> QED
  BY <1>1, <1>2, <1>3, PTL DEF LoopSpec

-----------------------------------------------------------------------------
(***************************************************************************)
(* Handoff, for any number of segments, stops and aborts: the manifest     *)
(* counts what is behind the weights, and what is handed over is a whole   *)
(* checkpoint, unless rotation keeps a single one.                         *)
(***************************************************************************)

(***************************************************************************)
(* HandoffInv holds for every Keep.                                        *)
(***************************************************************************)
LEMMA InitHandoffInv == HandoffInit => HandoffInv
BY DEF HandoffInit, HandoffInv, PrevCumulative, Ahead, Line

LEMMA PrevNumber ==
  ASSUME manifest \in Seq(Line)
  PROVE  PrevCumulative \in Nat
<1>1. CASE manifest = <<>>
  BY <1>1 DEF PrevCumulative
<1>2. CASE manifest # <<>>
  <2>1. manifest[Len(manifest)] \in Line
    BY <1>2
  <2> QED
    BY <1>2, <2>1 DEF PrevCumulative, Line
<1> QED
  BY <1>1, <1>2

\* the line that Record appends is the last
LEMMA Recorded ==
  ASSUME HandoffInv, Record
  PROVE  /\ manifest' \in Seq(Line)
         /\ PrevCumulative \in Nat
         /\ PrevCumulative' = PrevCumulative + tracker
<1>1. tracker \in Steps /\ manifest \in Seq(Line)
  BY DEF HandoffInv, Record
<1>2. PrevCumulative \in Nat
  BY <1>1, PrevNumber
<1> DEFINE line == [steps |-> tracker, cumulative |-> PrevCumulative + tracker]
<1>3. manifest' = Append(manifest, line)
  BY DEF Record
<1>4. line \in Line
  BY <1>1, <1>2 DEF Line
<1> HIDE DEF line
<1>5. /\ manifest' \in Seq(Line)
      /\ Len(manifest') = Len(manifest) + 1
      /\ manifest'[Len(manifest) + 1] = line
      /\ Len(manifest) \in Nat
  BY <1>1, <1>3, <1>4
<1>6. manifest' # <<>> /\ manifest'[Len(manifest')] = line
  BY <1>5
<1>7. line.cumulative = PrevCumulative + tracker
  BY DEF line
<1> QED
  BY <1>2, <1>5, <1>6, <1>7 DEF PrevCumulative

LEMMA NextHandoffInv == HandoffInv /\ [HandoffNext]_both => HandoffInv'
<1> SUFFICES ASSUME HandoffInv, [HandoffNext]_both
             PROVE  HandoffInv'
  OBVIOUS
<1>0. PrevCumulative \in Nat
  BY PrevNumber DEF HandoffInv
<1> USE DEF HandoffInv, Ahead
<1>1. CASE Trains
  BY <1>1 DEF Trains, handoffVars, PrevCumulative
<1>2. CASE Stop
  BY <1>2 DEF Stop, disk, PrevCumulative
<1>3. CASE HandoffStarts
  BY <1>3 DEF HandoffStarts, HandedOver, allVars, PrevCumulative
<1>4. CASE GoesBack
  BY <1>4 DEF GoesBack, allVars, PrevCumulative
<1>5. CASE Merge
  BY <1>5 DEF Merge, allVars, PrevCumulative
<1>6. CASE Record
  <2>1. UNCHANGED <<tracker, base, repeats>> /\ stage = "record" /\ stage' = "launch"
    BY <1>6 DEF Record, allVars
  <2> QED
    BY <1>0, <1>6, <2>1, Recorded
<1>7. CASE NewSegment
  BY <1>0, <1>7 DEF NewSegment, PrevCumulative
<1>8. CASE HandoffAborts
  BY <1>0, <1>8 DEF HandoffAborts, allVars, PrevCumulative
<1>9. CASE UNCHANGED both
  BY <1>9 DEF both, allVars, handoffVars, PrevCumulative
<1> QED
  BY <1>1, <1>2, <1>3, <1>4, <1>5, <1>6, <1>7, <1>8, <1>9 DEF HandoffNext, HandoffRuns

\* While a segment trains, the manifest counts the steps behind its weights.
THEOREM Counts == HandoffSpec => []ManifestCounts
<1>1. HandoffInv => ManifestCounts
  BY DEF HandoffInv, ManifestCounts, Ahead
<1> QED
  BY <1>1, InitHandoffInv, NextHandoffInv, PTL DEF HandoffSpec

(***************************************************************************)
(* The invariant of AutoResume survives a stop, which is one more crash,   *)
(* and a new segment, which begins as the first one did.                   *)
(***************************************************************************)
LEMMA StopKeeps ==
  ASSUME IInv, Stop
  PROVE  IInv'
<1> USE DEF Stop, memory, disk
<1>1. BaseInv'
  BY DEF IInv, BaseInv, LoopTypeOK, TypeOK, RunInv, TrackedData, BatchesInStep, Active, Saving, Phases
<1>2. SavedInv'
  BY DEF SavedInv, Active, Saving
<1>3. TrackedCheckpointWhole'
  BY DEF IInv, TrackedCheckpointWhole, Whole
<1> QED
  BY <1>1, <1>2, <1>3 DEF IInv

LEMMA NewSegmentKeeps ==
  ASSUME IInv, NewSegment
  PROVE  IInv'
<1>1. crashes' \in 0 .. MaxCrashes
  BY DEF NewSegment, IInv, BaseInv, LoopTypeOK, TypeOK
<1> QED
  BY <1>1 DEF NewSegment, IInv, BaseInv, TrackedData, LoopTypeOK, TypeOK, Phases, Saving, RunInv,
              SavedInv, Active, TrackedCheckpointWhole, BatchesInStep

LEMMA NextBoth == Keep # 1 /\ IInv /\ [HandoffNext]_both => IInv'
<1> SUFFICES ASSUME Keep # 1, IInv, [HandoffNext]_both
             PROVE  IInv'
  OBVIOUS
<1>1. CASE [LoopNext]_allVars
  BY <1>1, NextIInv
<1>2. CASE Stop
  BY <1>2, StopKeeps
<1>3. CASE NewSegment
  BY <1>3, NewSegmentKeeps
<1>4. Stop \/ NewSegment \/ [LoopNext]_allVars
  BY DEF HandoffNext, HandoffRuns, Trains, HandoffStarts, GoesBack, Merge, Record, HandoffAborts, both
<1> QED
  BY <1>1, <1>2, <1>3, <1>4

\* Unless one checkpoint is kept, what is handed over is whole.
THEOREM HandedOverIsWhole ==
  ASSUME Keep # 1
  PROVE  HandoffSpec => []HandedOverWhole
<1>1. HandoffInit => IInv
  BY InitIInv DEF HandoffInit
<1>2. IInv /\ [HandoffNext]_both => IInv'
  BY NextBoth
<1>3. IInv /\ HandoffInv => HandedOverWhole
  BY DEF IInv, HandoffInv, TrackedCheckpointWhole, HandedOverWhole
<1> QED
  BY <1>1, <1>2, <1>3, InitHandoffInv, NextHandoffInv, PTL DEF HandoffSpec
=============================================================================
