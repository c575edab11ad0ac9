----------------------------- MODULE AutoResume -----------------------------
(***************************************************************************)
(* OPRD/verl/auto_resume_distillation.sh and auto_resume_grpo.sh: the loop *)
(* that starts a training run of CheckpointedTrainer again and again until *)
(* the tracker has reached TOTAL_TRAINING_STEPS.                           *)
(***************************************************************************)
EXTENDS CheckpointedTrainer

VARIABLE loop   \* "check", "run", "done" (exit 0), "gaveup" (exit 1)

allVars == <<phase, attempt, step, pos, saved, shard, data, tracker, crashes, loop>>

LoopTypeOK == TypeOK /\ loop \in {"check", "run", "done", "gaveup"}

LoopInit == Init /\ loop = "check"

\* the count is looked at before the tracker
GiveUp ==
  /\ loop = "check" /\ loop' = "gaveup"
  /\ attempt >= MaxAttempts
  /\ UNCHANGED vars

\* Mutant of Finished: -gt in place of -ge.
FinishedBeyond == tracker \in Steps /\ tracker > Total

Finished == tracker \in Steps /\ tracker >= Total

Done ==
  /\ loop = "check" /\ loop' = "done"
  /\ attempt < MaxAttempts
  /\ Finished
  /\ UNCHANGED vars

\* an empty tracker makes the comparison fail, which counts as "not yet"
Again ==
  /\ loop = "check" /\ loop' = "run"
  /\ attempt < MaxAttempts
  /\ ~Finished
  /\ Launch

Returned ==
  /\ loop = "run" /\ loop' = "check"
  /\ phase = "down"
  /\ UNCHANGED vars

Loop == GiveUp \/ Done \/ Again \/ Returned

LoopNext ==
  \/ Loop
  \/ Run /\ UNCHANGED loop
  \/ Crash /\ UNCHANGED loop

\* The loop and the run it has started go on unless they fail.
LoopSpec == LoopInit /\ [][LoopNext]_allVars /\ WF_allVars(Loop) /\ WF_allVars(Run /\ UNCHANGED loop)

(***************************************************************************)
(* Properties.                                                             *)
(***************************************************************************)

\* ray_trainer.py:843: the tracker names a checkpoint only when all of it is
\* there: the shards of one and the same attempt and the dataloader's state
\* of that very step, whatever was written over or rotated away.
Whole(s) ==
  /\ \E a \in 1 .. MaxAttempts : \A r \in Ranks : shard[s][r] = a
  /\ data[s] = s

TrackedCheckpointWhole == tracker \in Steps => Whole(tracker)

\* The step counter and the dataloader come back together: no batch is
\* trained on twice between the start and the last step, and none is left out.
BatchesInStep ==
  /\ phase = "step" => pos = step - 1
  /\ phase \in Saving => pos = step

\* oprd-repro-env-recovery.md:152, UPLOAD_GUIDE.md:159: a crash loses at most
\* SAVE_FREQ steps, and no step below the tracked one is trained again.
Tracked == IF tracker \in Steps THEN tracker ELSE 0

LossBounded ==
  phase \in {"step"} \union Saving /\ tracker # Empty =>
    Tracked <= step /\ step <= Tracked + SaveFreq

\* a run that has loaded
Active == phase \in {"step"} \union Saving

\* The loop and its runs implement DurableProgress (oprd-repro-env-recovery.md:152,
\* auto_resume_distillation.sh:3): whatever crashes, a run goes on from the tracked
\* step, that step never goes back, and it is lost only with a crash between the
\* two halves of a tracker write (ray_trainer.py:847).  What the half-written
\* tracker is going to name counts as kept.
Kept ==
  IF tracker = Empty THEN IF phase = "track" THEN step ELSE 0 ELSE Tracked

Lost == tracker = Empty /\ phase # "track"

Live == IF Active THEN pos ELSE 0

Durable == INSTANCE DurableProgress WITH
  Goal <- Total, Gap <- SaveFreq, Stride <- 1,
  kept <- Kept, lost <- Lost, up <- Active, live <- Live

ImplementsDurable == Durable!DurableSpec

(***************************************************************************)
(* The inductive invariants behind these.  BaseInv holds for every Keep: a *)
(* save goes to a step beyond the tracked one, and the dataloader's state  *)
(* of the tracked one stays.  For Keep # 1, IInv adds that the tracked one *)
(* is the last this run remembers to have saved, which rotation spares.    *)
(***************************************************************************)
RunInv ==
  /\ phase # "down" => attempt \in 1 .. MaxAttempts
  /\ phase = "load" /\ tracker \in Steps => tracker < Total
  /\ tracker = Empty => phase \in {"down", "load", "track"}
  /\ Active => step \in Steps
  /\ Active /\ tracker \in Steps => tracker < step
  /\ phase \in {"data", "track"} => \A r \in Ranks : shard[step][r] = attempt
  /\ phase = "track" => data[step] = step

TrackedData == tracker \in Steps => data[tracker] = tracker

\* Since the tracked step no multiple of SaveFreq went by without a save.
SaveGap ==
  Active /\ tracker # Empty => step - 1 <= Tracked + ((step - 1) % SaveFreq)

BaseInv == LoopTypeOK /\ RunInv /\ TrackedData /\ BatchesInStep

SavedInv ==
  Active =>
    /\ \A i, j \in 1 .. Len(saved) : i < j => saved[i] < saved[j]
    /\ phase \in {"step", "rotate", "shards"} /\ saved # <<>>
         => saved[Len(saved)] = tracker
    /\ phase \in {"data", "track"} => saved # <<>> /\ saved[Len(saved)] = step

IInv == BaseInv /\ SavedInv /\ TrackedCheckpointWhole

\* The checkpoints one attempt leaves are at most Keep.  Over all attempts they
\* are not bounded: previous_saved_paths is lost with the process.
AttemptKeeps ==
  Keep > 0 =>
    Cardinality({s \in Steps : \E r \in Ranks : shard[s][r] = attempt}) <= Keep

\* Lines 2-4 of the loops: the training is resumed until it is complete ...
EventuallyTrained == <>(loop = "done")

\* ... as long as no crash falls between the two halves of a tracker write.
TrackerNotCut == [](phase = "down" => tracker # Empty)

TrainedUnlessCut == TrackerNotCut => EventuallyTrained
=============================================================================
