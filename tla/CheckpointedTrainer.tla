------------------------ MODULE CheckpointedTrainer -------------------------
(***************************************************************************)
(* One training run of RayPPOTrainer (OPRD/verl/verl/trainer/ppo/          *)
(* ray_trainer.py: fit, _save_checkpoint, _load_checkpoint) with its FSDP  *)
(* ranks (utils/checkpoint/fsdp_checkpoint_manager.py) and the checkpoint  *)
(* directory: per step and rank a shard, per step the dataloader's state,  *)
(* and one tracker file that names the latest step.                        *)
(*                                                                         *)
(* A shard stands for the model, optim and extra_state files of a rank; it *)
(* is marked with the attempt whose weights it holds.  total_epochs is 1,  *)
(* as in grpo.sh and on_policy_distillation.sh: a batch is used once.      *)
(***************************************************************************)
EXTENDS Naturals, Sequences, FiniteSets

CONSTANTS
  Ranks,        \* the FSDP ranks
  Total,        \* total_training_steps
  DataLen,      \* len(train_dataloader)
  SaveFreq,     \* save_freq
  Keep,         \* max_actor_ckpt_to_keep, 0 for null
  Esi,          \* can the instance be close to its expiration
  MaxAttempts,  \* MAX_RETRIES of the scripts that start a run
  MaxCrashes,   \* bound: crashes in a behaviour
  Part,         \* a file that is being written or was cut short
  NoFile,       \* a file that is not there
  Empty         \* a tracker that was truncated and not yet written

ASSUME TrainerAssumption ==
  /\ Ranks # {} /\ IsFiniteSet(Ranks)
  /\ Total \in Nat \ {0} /\ DataLen \in Nat /\ SaveFreq \in Nat \ {0}
  /\ Keep \in Nat /\ Esi \in BOOLEAN
  /\ MaxAttempts \in Nat /\ MaxCrashes \in Nat
  /\ {Part, NoFile, Empty} \intersect Nat = {}
  /\ Part # NoFile /\ Empty # NoFile

Steps == 1 .. Total

VARIABLES
  phase,    \* of the run: "down", "load", "step", then the parts of a save
  attempt,  \* the attempt the run belongs to
  step,     \* global_steps
  pos,      \* batches the dataloader has yielded
  saved,    \* previous_saved_paths of rank 0
  shard,    \* shard[s][r] in global_step_s/actor
  data,     \* data[s]: global_step_s/data.pt, the batches it counts
  tracker,  \* latest_checkpointed_iteration.txt, NoFile at first
  crashes

memory == <<step, pos, saved>>
disk   == <<shard, data, tracker>>
vars   == <<phase, attempt, step, pos, saved, shard, data, tracker, crashes>>

Saving == {"rotate", "shards", "data", "track"}
Phases == {"down", "load", "step"} \union Saving

TypeOK ==
  /\ phase \in Phases
  /\ attempt \in 0 .. MaxAttempts
  /\ step \in 0 .. Total
  /\ pos \in 0 .. DataLen
  /\ saved \in Seq(Steps)
  /\ shard \in [Steps -> [Ranks -> {NoFile, Part} \union 1 .. MaxAttempts]]
  /\ data \in [Steps -> {NoFile, Part} \union 0 .. DataLen]
  /\ tracker \in {NoFile, Empty} \union Steps
  /\ crashes \in 0 .. MaxCrashes

Init ==
  /\ phase = "down" /\ attempt = 0
  /\ step = 0 /\ pos = 0 /\ saved = <<>>
  /\ shard = [s \in Steps |-> [r \in Ranks |-> NoFile]]
  /\ data = [s \in Steps |-> NoFile]
  /\ tracker = NoFile
  /\ crashes = 0

Launch ==
  /\ phase = "down" /\ phase' = "load"
  /\ attempt' = attempt + 1
  /\ UNCHANGED <<memory, disk, crashes>>

(***************************************************************************)
(* _load_checkpoint                                                        *)
(***************************************************************************)
FolderExists(s) == data[s] # NoFile \/ \E r \in Ranks : shard[s][r] # NoFile

\* torch.load of every file, none of them checked before
Loadable(s) ==
  /\ \A r \in Ranks : shard[s][r] \notin {NoFile, Part}
  /\ data[s] # Part

FromScratch == tracker = NoFile \/ (tracker \in Steps /\ ~FolderExists(tracker))

\* Mutant of Load: the step counter is not advanced past the loaded step.
LoadRepeatsStep ==
  /\ phase = "load"
  /\ saved' = <<>>
  /\ \/ /\ FromScratch
        /\ phase' = "step" /\ step' = 1 /\ pos' = 0
     \/ /\ tracker \in Steps /\ FolderExists(tracker) /\ Loadable(tracker)
        /\ phase' = "step"
        /\ step' = tracker
        /\ pos' = IF data[tracker] = NoFile THEN 0 ELSE data[tracker]
  /\ UNCHANGED <<attempt, disk, crashes>>

\* step is that of the first batch: fit adds one after the load (line 1018)
Load ==
  /\ phase = "load"
  /\ saved' = <<>>
  /\ \/ /\ FromScratch
        /\ phase' = "step" /\ step' = 1 /\ pos' = 0
     \/ /\ tracker \in Steps /\ FolderExists(tracker) /\ Loadable(tracker)
        /\ phase' = "step"
        /\ step' = tracker + 1
        /\ pos' = IF data[tracker] = NoFile THEN 0 ELSE data[tracker]
  /\ UNCHANGED <<attempt, disk, crashes>>

\* int of an empty tracker, or torch.load of a file that is missing or cut
LoadFails ==
  /\ phase = "load"
  /\ ~FromScratch
  /\ tracker \in Steps => ~Loadable(tracker)
  /\ phase' = "down"
  /\ UNCHANGED <<attempt, memory, disk, crashes>>

(***************************************************************************)
(* fit                                                                     *)
(***************************************************************************)
\* Mutant of SaveDue: only the last step is saved.
SaveLastOnly == step >= Total

SaveDue == step >= Total \/ step % SaveFreq = 0

\* one batch: rollout, update; then a save, the next step, or both
TrainStep ==
  /\ phase = "step"
  /\ pos < DataLen
  /\ pos' = pos + 1
  /\ \/ /\ SaveDue \/ Esi
        /\ phase' = "rotate"
        /\ UNCHANGED step
     \/ /\ ~SaveDue
        /\ step' = step + 1
        /\ UNCHANGED phase
  /\ UNCHANGED <<attempt, saved, disk, crashes>>

\* the only epoch is over before the last step: fit returns
EpochEnds ==
  /\ phase = "step"
  /\ pos = DataLen
  /\ phase' = "down"
  /\ UNCHANGED <<attempt, memory, disk, crashes>>

(***************************************************************************)
(* _save_checkpoint.  Rank 0 removes what is too much before anything of   *)
(* the new checkpoint is written; between two barriers every rank writes   *)
(* its shard; then the driver writes data.pt and the tracker.              *)
(***************************************************************************)
\* Mutant of Excess: makes no room for the checkpoint that is to come.
ExcessTooFew == IF Keep > 0 /\ Len(saved) >= Keep THEN Len(saved) - Keep ELSE 0

\* Mutant of Excess: removes the checkpoint the tracker names as well.
ExcessAll == IF Keep > 0 /\ Len(saved) >= Keep THEN Len(saved) ELSE 0

Excess == IF Keep > 0 /\ Len(saved) >= Keep THEN Len(saved) - Keep + 1 ELSE 0

Rotate ==
  LET gone == {saved[i] : i \in 1 .. Excess}
  IN  /\ phase = "rotate" /\ phase' = "shards"
      /\ saved' = SubSeq(saved, Excess + 1, Len(saved))
      /\ shard' = [s \in Steps |-> IF s \in gone THEN [r \in Ranks |-> NoFile]
                                                 ELSE shard[s]]
      /\ UNCHANGED <<attempt, step, pos, data, tracker, crashes>>

OpenShard(r) ==
  /\ phase = "shards"
  /\ shard[step][r] \notin {Part, attempt}
  /\ shard' = [shard EXCEPT ![step][r] = Part]
  /\ UNCHANGED <<phase, attempt, memory, data, tracker, crashes>>

CloseShard(r) ==
  /\ phase = "shards"
  /\ shard[step][r] = Part
  /\ shard' = [shard EXCEPT ![step][r] = attempt]
  /\ UNCHANGED <<phase, attempt, memory, data, tracker, crashes>>

\* Mutant of Barrier: torch.distributed.barrier() dropped.
BarrierDropped ==
  /\ phase = "shards" /\ phase' = "data"
  /\ saved' = Append(saved, step)
  /\ UNCHANGED <<attempt, step, pos, disk, crashes>>

Barrier ==
  /\ phase = "shards" /\ phase' = "data"
  /\ \A r \in Ranks : shard[step][r] = attempt
  /\ saved' = Append(saved, step)
  /\ UNCHANGED <<attempt, step, pos, disk, crashes>>

OpenData ==
  /\ phase = "data"
  /\ data[step] # Part
  /\ data' = [data EXCEPT ![step] = Part]
  /\ UNCHANGED <<phase, attempt, memory, shard, tracker, crashes>>

CloseData ==
  /\ phase = "data" /\ phase' = "track"
  /\ data[step] = Part
  /\ data' = [data EXCEPT ![step] = pos]
  /\ UNCHANGED <<attempt, memory, shard, tracker, crashes>>

OpenTracker ==
  /\ phase = "track"
  /\ tracker # Empty
  /\ tracker' = Empty
  /\ UNCHANGED <<phase, attempt, memory, shard, data, crashes>>

\* the step is complete: the next one, or fit returns after the last
CloseTracker ==
  /\ phase = "track"
  /\ tracker = Empty
  /\ tracker' = step
  /\ IF step >= Total THEN phase' = "down" /\ UNCHANGED step
                      ELSE phase' = "step" /\ step' = step + 1
  /\ UNCHANGED <<attempt, pos, saved, shard, data, crashes>>

\* OOM, preemption, a NCCL timeout: any rank takes the whole run with it
Crash ==
  /\ phase # "down" /\ phase' = "down"
  /\ crashes < MaxCrashes /\ crashes' = crashes + 1
  /\ UNCHANGED <<attempt, memory, disk>>

Save ==
  \/ Rotate \/ Barrier
  \/ \E r \in Ranks : OpenShard(r) \/ CloseShard(r)
  \/ OpenData \/ CloseData \/ OpenTracker \/ CloseTracker

Run == Load \/ LoadFails \/ TrainStep \/ EpochEnds \/ Save
=============================================================================
