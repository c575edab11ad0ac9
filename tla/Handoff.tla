------------------------------ MODULE Handoff -------------------------------
(***************************************************************************)
(* OPRD/verl/handoff_gpu_count.sh: the training of AutoResume (grpo.sh) is *)
(* stopped from outside, its latest checkpoint is merged, and a new        *)
(* segment with another number of GPUs starts from the merged weights in a *)
(* directory of its own, at step 0.  The manifest adds up the steps.       *)
(***************************************************************************)
EXTENDS AutoResume

CONSTANTS
  MaxStops,      \* bound: how often the training is stopped
  MaxAborts      \* bound: handoffs that fail or are killed

ASSUME HandoffAssumption == MaxStops \in Nat /\ MaxAborts \in Nat

VARIABLES
  stage,      \* "train", "stopped", and in the script "merge", "record", "launch"
  manifest,   \* progress_manifest.txt: steps_this_segment and cumulative
  base,       \* the steps behind the weights this segment started from
  repeats,    \* records that no new segment followed
  stops, aborts

handoffVars == <<stage, manifest, base, repeats, stops, aborts>>
both == <<allVars, handoffVars>>

HandoffInit ==
  /\ LoopInit
  /\ stage = "train" /\ manifest = <<>> /\ base = 0
  /\ repeats = 0 /\ stops = 0 /\ aborts = 0

Trains == stage = "train" /\ LoopNext /\ UNCHANGED handoffVars

TrainGoesOn == stage = "train" /\ (Loop \/ (Run /\ UNCHANGED loop)) /\ UNCHANGED handoffVars

\* wherever the training is: in a step, in a save, between two attempts
Stop ==
  /\ stage = "train" /\ stage' = "stopped"
  /\ stops < MaxStops /\ stops' = stops + 1
  /\ phase' = "down" /\ loop' = "check"
  /\ UNCHANGED <<attempt, memory, disk, crashes, manifest, base, repeats, aborts>>

\* the tracker is there and the directory it names; an empty one names none
HandedOver == tracker \in Steps /\ \E r \in Ranks : shard[tracker][r] # NoFile

HandoffStarts ==
  /\ stage = "stopped" /\ stage' = "merge"
  /\ HandedOver
  /\ UNCHANGED <<allVars, manifest, base, repeats, stops, aborts>>

\* The script has aborted for want of a checkpoint: the segment goes on.  Its
\* attempts keep counting, so that the shards of each can be told apart.
GoesBack ==
  /\ stage = "stopped" /\ stage' = "train"
  /\ ~HandedOver
  /\ UNCHANGED <<allVars, manifest, base, repeats, stops, aborts>>

\* verl.model_merger reads the shards of all ranks
Merge ==
  /\ stage = "merge" /\ stage' = "record"
  /\ \A r \in Ranks : shard[tracker][r] \notin {NoFile, Part}
  /\ UNCHANGED <<allVars, manifest, base, repeats, stops, aborts>>

PrevCumulative == IF manifest = <<>> THEN 0 ELSE manifest[Len(manifest)].cumulative

\* Mutant of Record: the cumulative count is that of the segment.
RecordSegment ==
  /\ stage = "record" /\ stage' = "launch"
  /\ manifest' = Append(manifest, [steps |-> tracker, cumulative |-> tracker])
  /\ UNCHANGED <<allVars, base, repeats, stops, aborts>>

Record ==
  /\ stage = "record" /\ stage' = "launch"
  /\ manifest' = Append(manifest, [steps |-> tracker, cumulative |-> PrevCumulative + tracker])
  /\ UNCHANGED <<allVars, base, repeats, stops, aborts>>

\* a directory that is empty, and a loop that counts from 1
NewSegment ==
  /\ stage = "launch" /\ stage' = "train"
  /\ base' = base + tracker
  /\ phase' = "down" /\ attempt' = 0 /\ loop' = "check"
  /\ step' = 0 /\ pos' = 0 /\ saved' = <<>>
  /\ shard' = [s \in Steps |-> [r \in Ranks |-> NoFile]]
  /\ data' = [s \in Steps |-> NoFile]
  /\ tracker' = NoFile
  /\ UNCHANGED <<crashes, manifest, repeats, stops, aborts>>

\* set -e, a kill, or MAX_PROMPT_LENGTH that is not set (line 72, after the
\* record): the script is started anew
HandoffAborts ==
  /\ stage \in {"merge", "record", "launch"} /\ stage' = "stopped"
  /\ aborts < MaxAborts /\ aborts' = aborts + 1
  /\ repeats' = IF stage = "launch" THEN repeats + 1 ELSE repeats
  /\ UNCHANGED <<allVars, manifest, base, stops>>

HandoffRuns == HandoffStarts \/ GoesBack \/ Merge \/ Record \/ NewSegment

HandoffNext == Trains \/ Stop \/ HandoffRuns \/ HandoffAborts

\* The training goes on as in AutoResume, and so does a handoff.
HandoffSpec ==
  /\ HandoffInit /\ [][HandoffNext]_both
  /\ WF_both(TrainGoesOn) /\ WF_both(HandoffRuns)

(***************************************************************************)
(* Properties.                                                             *)
(***************************************************************************)

\* handoff_gpu_count.sh:34: what is handed over is a whole checkpoint of one
\* attempt, wherever in a save, a crash or a resume the training was stopped.
HandedOverWhole ==
  stage \in {"merge", "record", "launch"} => tracker \in Steps /\ Whole(tracker)

\* handoff_gpu_count.sh:13: while a segment trains, the last line of the
\* manifest counts the steps behind its weights; a record that is repeated makes
\* it too high and never too low.
ManifestCounts ==
  /\ stage = "train" => PrevCumulative >= base
  /\ stage = "train" /\ repeats = 0 => PrevCumulative = base

\* The inductive form of ManifestCounts: between the record and the new segment
\* the manifest is ahead of base by the steps of the segment that is handed over.
Line == [steps : Nat, cumulative : Nat]

Ahead == IF stage = "launch" THEN tracker ELSE 0

HandoffInv ==
  /\ stage \in {"train", "stopped", "merge", "record", "launch"}
  /\ stage \in {"merge", "record", "launch"} => tracker \in Steps
  /\ manifest \in Seq(Line)
  /\ base \in Nat /\ repeats \in Nat
  /\ PrevCumulative >= base + Ahead
  /\ repeats = 0 => PrevCumulative = base + Ahead

\* Every segment and every handoff comes to an end, whatever is stopped or
\* aborted: what is handed over can be merged, and the last segment trains to the
\* total unless a stop or a crash has cut a tracker write (ray_trainer.py:847).
HandoffStops ==
  <>[](/\ stage = "train" /\ phase = "down" /\ loop \in {"done", "gaveup"}
       /\ tracker \in {Total, Empty})
=============================================================================
