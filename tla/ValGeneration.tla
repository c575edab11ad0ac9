---------------------------- MODULE ValGeneration ---------------------------
(***************************************************************************)
(* OPRD/scripts/val/eval/gen_vllm.py: for every task a pool of workers,    *)
(* one per GPU, generates N responses to each example; the main process    *)
(* collects what they return and writes one file, and a task whose file is *)
(* there is skipped.  grade.py reads the files.                            *)
(***************************************************************************)
EXTENDS Naturals, Sequences, Functions, FiniteSets, Listing

CONSTANTS
  Tasks,          \* the number of TASKS
  Workers,        \* num_workers
  Rollouts,       \* N
  Examples,       \* examples of a task
  WorkerFails,    \* bound: workers that raise or die
  GenKills        \* bound: kills of the main process

ASSUME GenerationAssumption ==
  /\ Tasks \in Nat /\ Rollouts \in Nat /\ Examples \in Nat \ {0}
  /\ Workers \in Nat \ {0}
  /\ WorkerFails \in Nat /\ GenKills \in Nat

Gpus == 0 .. Workers - 1

VARIABLES
  genAt,       \* "down", "pick", "work", "write", "over"
  task,        \* the task main() is at
  made,        \* made[w]: results of worker_process, or
  back,        \* back[w]: has its future been read
  collected,   \* all_results
  files,       \* per task: is the file there, its lines, is its end torn,
               \* and (history) was it closed
  workerFails, genKills

genVars == <<genAt, task, made, back, collected, files, workerFails, genKills>>

NoOutput == [there |-> FALSE, lines |-> <<>>, torn |-> FALSE, closed |-> FALSE]

GenInit ==
  /\ genAt = "down" /\ task = 1
  /\ made = [w \in Gpus |-> <<>>] /\ back = [w \in Gpus |-> TRUE]
  /\ collected = <<>>
  /\ files = [t \in 1 .. Tasks |-> NoOutput]
  /\ workerFails = 0 /\ genKills = 0

\* Mutant of ShareOf: the modulo is taken of one worker too few.
ShareOverlaps(w) ==
  Ascending({r \in 0 .. Rollouts - 1 :
               r % Workers = w \/ (w = 0 /\ r % Workers = Workers - 1)})

\* split_rollout_ids
ShareOf(w) == Ascending({r \in 0 .. Rollouts - 1 : r % Workers = w})

GenStarts ==
  /\ genAt \in {"down", "over"} /\ genAt' = "pick"
  /\ task' = 1
  /\ UNCHANGED <<made, back, collected, files, workerFails, genKills>>

SkipsTask ==
  /\ genAt = "pick" /\ task <= Tasks /\ files[task].there
  /\ task' = task + 1
  /\ UNCHANGED <<genAt, made, back, collected, files, workerFails, genKills>>

Submits ==
  /\ genAt = "pick" /\ task <= Tasks /\ ~files[task].there
  /\ genAt' = "work"
  /\ back' = [w \in Gpus |-> FALSE]
  /\ UNCHANGED <<task, made, collected, files, workerFails, genKills>>

\* Mutant of Responds: the responses come one by one.
RespondsSingly(w) ==
  /\ genAt = "work" /\ ~back[w] /\ Len(made[w]) < Len(ShareOf(w)) * Examples
  /\ LET n == Len(made[w])
     IN  made' = [made EXCEPT ![w] = Append(@, [example |-> 1 + (n % Examples),
                                                rollout |-> ShareOf(w)[1 + (n \div Examples)]])]
  /\ UNCHANGED <<genAt, task, back, collected, files, workerFails, genKills>>

\* one rollout of all examples is one call of generate
Responds(w) ==
  /\ genAt = "work" /\ ~back[w] /\ Len(made[w]) < Len(ShareOf(w)) * Examples
  /\ LET r == ShareOf(w)[1 + (Len(made[w]) \div Examples)]
     IN  made' = [made EXCEPT ![w] = @ \o [e \in 1 .. Examples |-> [example |-> e, rollout |-> r]]]
  /\ UNCHANGED <<genAt, task, back, collected, files, workerFails, genKills>>

\* a future is read: what the worker has is added, in the order they come
Reads(w) ==
  /\ genAt = "work" /\ ~back[w]
  /\ collected' = collected \o made[w]
  /\ back' = [back EXCEPT ![w] = TRUE] /\ made' = [made EXCEPT ![w] = <<>>]
  /\ UNCHANGED <<genAt, task, files, genKills>>

MadeAll(w) == Len(made[w]) = Len(ShareOf(w)) * Examples

Returns(w) ==
  /\ MadeAll(w)
  /\ Reads(w) /\ UNCHANGED workerFails

\* the exception is printed, and what there is is returned
WorkerRaises(w) ==
  /\ ~MadeAll(w)
  /\ workerFails < WorkerFails /\ workerFails' = workerFails + 1
  /\ Reads(w)

\* A worker that is killed breaks the pool: no future that is still open has a
\* result. Those of workers that have finished may have been set before.
PoolBreaks ==
  /\ genAt = "work"
  /\ workerFails < WorkerFails /\ workerFails' = workerFails + 1
  /\ \E lost \in SUBSET {w \in Gpus : ~back[w]} :
       /\ lost # {} /\ \A w \in Gpus : back[w] \/ MadeAll(w) \/ w \in lost
       /\ back' = [w \in Gpus |-> back[w] \/ w \in lost]
       /\ made' = [w \in Gpus |-> IF w \in lost THEN <<>> ELSE made[w]]
  /\ UNCHANGED <<genAt, task, collected, files, genKills>>

\* open(out_path, "w"), or no file if there is nothing to write
Saves ==
  /\ genAt = "work" /\ \A w \in Gpus : back[w]
  /\ IF collected = <<>>
       THEN genAt' = "pick" /\ task' = task + 1 /\ UNCHANGED files
       ELSE /\ genAt' = "write"
            /\ files' = [files EXCEPT ![task].there = TRUE]
            /\ UNCHANGED task
  /\ UNCHANGED <<made, back, collected, workerFails, genKills>>

ClosesOutput ==
  /\ genAt = "write" /\ genAt' = "pick"
  /\ files' = [files EXCEPT ![task] = [there |-> TRUE, lines |-> collected, torn |-> FALSE, closed |-> TRUE]]
  /\ collected' = <<>> /\ task' = task + 1
  /\ UNCHANGED <<made, back, workerFails, genKills>>

GenEnds ==
  /\ genAt = "pick" /\ task > Tasks
  /\ genAt' = "over"
  /\ UNCHANGED <<task, made, back, collected, files, workerFails, genKills>>

\* the main process goes with its workers; of the file there is what the
\* buffer had given away
GenKilled ==
  /\ genAt \in {"work", "write"} /\ genAt' = "down"
  /\ genKills < GenKills /\ genKills' = genKills + 1
  /\ \/ genAt = "work" /\ UNCHANGED files
     \/ /\ genAt = "write"
        /\ \E n \in 0 .. Len(collected) - 1, torn \in BOOLEAN :
             files' = [files EXCEPT ![task].lines = SubSeq(collected, 1, n), ![task].torn = torn]
  /\ made' = [w \in Gpus |-> <<>>] /\ back' = [w \in Gpus |-> TRUE]
  /\ collected' = <<>>
  /\ UNCHANGED <<task, workerFails>>

GenRuns ==
  \/ GenStarts \/ SkipsTask \/ Submits \/ Saves \/ ClosesOutput \/ GenEnds
  \/ \E w \in Gpus : Responds(w) \/ Returns(w)

GenNext == GenRuns \/ PoolBreaks \/ GenKilled \/ \E w \in Gpus : WorkerRaises(w)

GenSpec == GenInit /\ [][GenNext]_genVars

-----------------------------------------------------------------------------
(* grade.py: process_jsonl_file collects the responses of every example;   *)
(* grade_file scores them in one list and cuts that list into windows as   *)
(* long as the first example has responses.                                *)

ResponsesTo(t, e) == {p \in 1 .. Len(files[t].lines) : files[t].lines[p].example = e}

\* all lines of earlier examples, and those of this one that come before
ScoredUpTo(t) ==
  LET lines == files[t].lines
  IN  [p \in 1 .. Len(lines) |->
         {q \in 1 .. Len(lines) : \/ lines[q].example < lines[p].example
                                  \/ lines[q].example = lines[p].example /\ q <= p}]

\* the place in the file of every score
FinalScores(t) == Listed(1 .. Len(files[t].lines), ScoredUpTo(t))

NumPred(t) == Cardinality(ResponsesTo(t, 1))

Graded(t) == files[t].there /\ ~files[t].torn /\ NumPred(t) > 0

(***************************************************************************)
(* Properties.                                                             *)
(***************************************************************************)

\* grade.py:192: in a file that was closed, a window holds the responses to one
\* example, however many workers have failed.
WindowsAligned ==
  \A t \in 1 .. Tasks : Graded(t) /\ files[t].closed =>
    \A i, j \in 1 .. Len(FinalScores(t)) :
      (i - 1) \div NumPred(t) = (j - 1) \div NumPred(t)
        => files[t].lines[FinalScores(t)[i]].example
             = files[t].lines[FinalScores(t)[j]].example

\* gen_vllm.py:280: no response is in a file twice, and if no worker has failed
\* every file that was closed has all of them.
ResponsesOnce ==
  \A t \in 1 .. Tasks : LET lines == files[t].lines IN
    /\ IsInjective(lines)
    /\ files[t].closed /\ workerFails = 0 => Len(lines) = Rollouts * Examples
=============================================================================
