--------------------------- MODULE SupervisedEval ---------------------------
(***************************************************************************)
(* eval/p2_supervisor.sh: a loop that starts the helper scripts of         *)
(* ChunkedEval in the background whenever their results are missing and    *)
(* the first card of their GPU group looks idle, and that leaves when it   *)
(* counts enough results files.  It keeps no record of what it started: it *)
(* knows a helper is alive only by the GPU memory the helper holds.        *)
(***************************************************************************)
EXTENDS ChunkedEval, Sequences

CONSTANTS
  Order,        \* the GPU groups in the order of the loop: <<0-3, 4-7>>
  TotalChunks   \* TOTAL_CHUNKS, less the chunks that were done before

ASSUME SupervisorAssumption ==
  /\ Helpers = Procs
  /\ Order \in Seq(Groups)
  /\ TotalChunks \in Nat

VARIABLES
  turn,     \* 0 at the top of the loop, k when group Order[k] is looked at
  running   \* has the supervisor not left its loop

supervisor == <<turn, running>>
allVars == <<pc, idx, res, smp, leftover, nvml, crashes, faults, turn, running>>

SupInit == Init /\ turn = 0 /\ running = TRUE

Slots(g) == {p \in Procs : GroupOf[p] = g}

\* Mutant of CompletedFiles: -size +0c forgotten.
CountsEmptyFiles ==
  Cardinality({f \in Chunks \X Procs : res[f[1]][f[2]] # "none"})

\* Mutant of CompletedFiles: counts the chunks whose samples were closed.
CountsClosedSamples ==
  Cardinality({c \in Chunks : \E p \in Procs : smp[c][p] = "all"})

\* completed_chunks: find -name "*results.json" -size +0c | wc -l
CompletedFiles ==
  Cardinality({f \in Chunks \X Procs : res[f[1]][f[2]] = "full"})

\* Mutant of HelperDone: any one of the helper's chunks will do.
OneChunkDone(g) ==
  \E c \in Chunks : (\E p \in Slots(g) : Mine(p, c)) /\ HasResults(c)

\* gpu03_helper_done, gpu47_helper_done: results only, samples are not asked
HelperDone(g) ==
  \A c \in Chunks : (\E p \in Slots(g) : Mine(p, c)) => HasResults(c)

\* gpu_group_busy 0, gpu_group_busy 4: one card, and an empty answer of
\* nvidia-smi means not busy
GroupBusy(g) ==
  /\ nvml
  /\ leftover[g] = "first" \/ \E p \in Slots(g) : pc[p] \in Loaded

NextTurn == IF turn = Len(Order) THEN 0 ELSE turn + 1

\* gpu_healthy, then fewer than TOTAL_CHUNKS; while NVML is down the round is
\* skipped and nothing changes
BeginRound ==
  /\ running /\ turn = 0
  /\ nvml
  /\ CompletedFiles < TotalChunks
  /\ turn' = NextTurn
  /\ UNCHANGED <<vars, running>>

Leave ==
  /\ running /\ turn = 0
  /\ nvml
  /\ CompletedFiles >= TotalChunks
  /\ running' = FALSE
  /\ UNCHANGED <<vars, turn>>

\* The helper is started in the background.  Slots(g) bounds how many live
\* helpers of one group there are; a supervisor that finds every slot alive
\* passes on.
Launch(p) ==
  /\ running /\ turn # 0 /\ GroupOf[p] = Order[turn]
  /\ ~HelperDone(GroupOf[p])
  /\ ~GroupBusy(GroupOf[p])
  /\ Start(p)
  /\ turn' = NextTurn
  /\ UNCHANGED running

PassOn ==
  /\ running /\ turn # 0
  /\ \/ HelperDone(Order[turn])
     \/ GroupBusy(Order[turn])
     \/ \A p \in Slots(Order[turn]) : pc[p] \notin Stopped
  /\ turn' = NextTurn
  /\ UNCHANGED <<vars, running>>

Supervise == BeginRound \/ Leave \/ PassOn \/ \E p \in Procs : Launch(p)

SupNext ==
  \/ Supervise
  \/ /\ \/ \E p \in Procs : Step(p) \/ Crash(p)
        \/ Machine
     /\ UNCHANGED supervisor

SupSpec ==
  /\ SupInit /\ [][SupNext]_allVars
  /\ ScriptFairness /\ MachineFairness
  /\ WF_allVars(Supervise)

(***************************************************************************)
(* Properties.                                                             *)
(***************************************************************************)

\* The supervisor does its one job (lines 3-6): as long as failures end, the
\* chunks of every helper get their results without anybody's help.
EveryClaimGetsResults == \A c \in Chunks : <>[]HasResults(c)

\* It does not stay for ever either.
EventuallyLeaves == <>~running

\* When it leaves it has logged that all chunks are complete (line 68): none
\* of them lacks results then or later.
LeftMeansResults == ~running => \A c \in Chunks : HasResults(c)

\* run_p2_transformers_chunked.sh:130: a chunk is complete only when results
\* and samples are both there.  No chunk is left behind half complete: when the
\* supervisor is gone, what is not evaluated is still being worked on.
LeftMeansEvaluated ==
  ~running => \A c \in Chunks :
    Evaluated(c) \/ \E p \in Procs : pc[p] \in Working /\ idx[p] = c

\* Lines 3-4: a helper that is started again resumes from the checkpoint.  A
\* chunk that was evaluated is never computed once more and never loses its
\* files, not even to a helper that decided on it earlier.
NoRecompute ==
  [][\A c \in Chunks : Evaluated(c) =>
       /\ Evaluated(c)'
       /\ \A p \in Procs : pc[p] = "ready" /\ idx[p] = c => pc'[p] # "eval"]_allVars
=============================================================================
