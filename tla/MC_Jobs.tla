------------------------------- MODULE MC_Jobs -------------------------------
(* The jobs that go on from their files share nothing: a behaviour runs one  *)
(* of them.                                                                  *)
EXTENDS EvalShard, PassrateResume, ValGeneration, Handoff
CONSTANTS r0, r1
VARIABLE job

ManifestOf4 == <<1, 2, 3, 4>>
EntriesOf3 == <<1, 2, 3>>

jobsVars == <<job, evalVars, prVars, genVars, allVars, handoffVars>>

JobsInit ==
  /\ job \in {"eval", "passrate", "generation", "handoff"}
  /\ EvalInit /\ PassrateInit /\ GenInit /\ HandoffInit

OnEval(A) == job = "eval" /\ A /\ UNCHANGED <<job, prVars, genVars, allVars, handoffVars>>
OnPassrate(A) == job = "passrate" /\ A /\ UNCHANGED <<job, evalVars, genVars, allVars, handoffVars>>
OnGeneration(A) == job = "generation" /\ A /\ UNCHANGED <<job, evalVars, prVars, allVars, handoffVars>>
OnHandoff(A) == job = "handoff" /\ A /\ UNCHANGED <<job, evalVars, prVars, genVars>>

JobsNext ==
  \/ OnEval(EvalNext) \/ OnPassrate(PassrateNext)
  \/ OnGeneration(GenNext) \/ OnHandoff(HandoffNext)

\* Every program runs on unless it fails, and whoever runs it starts it again.
JobsSpec ==
  /\ JobsInit /\ [][JobsNext]_jobsVars
  /\ WF_jobsVars(OnEval(EvalRuns)) /\ WF_jobsVars(OnPassrate(PassrateRuns))
  /\ WF_jobsVars(OnGeneration(GenRuns))
  /\ WF_jobsVars(OnHandoff(TrainGoesOn))
  /\ WF_jobsVars(OnHandoff(HandoffRuns))

\* run_eval.py:267: see EventuallyAnswered
EvalAnswered == job = "eval" => EventuallyAnswered

\* passrate_filter.py:111: see PassrateDone
PassrateFinishes == job = "passrate" => PassrateDone

\* handoff_gpu_count.sh:86: see HandoffStops
HandoffFinishes == job = "handoff" => HandoffStops
=============================================================================
