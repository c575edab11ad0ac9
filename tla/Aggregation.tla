---------------------------- MODULE Aggregation -----------------------------
(***************************************************************************)
(* eval/aggregate_chunks.py on the directories that the instances of       *)
(* ShardedEval leave: it reads every samples file of every chunk and adds  *)
(* up the rows.  For MVBench nothing removes rows that occur twice, and    *)
(* for no benchmark is a row that is missing noticed: both only show in    *)
(* the numbers of rows that the program prints.  A chunk without samples   *)
(* adds nothing, and neither do the rows behind a cut that lies between    *)
(* two rows; a cut inside of a row makes json.loads raise, and no total is *)
(* printed at all.                                                         *)
(***************************************************************************)
EXTENDS ShardedEval

\* glob of models__*/*samples_*.jsonl in the directory of a chunk; a file that
\* was opened and has no row is like none
Read(c) == {p \in Procs : smp[c][p] # "none"}

\* rows of a chunk that are appended to per_task_scores more than once
AddedTwice == {c \in Chunks : \E p, q \in Read(c) : p # q}

\* a file that is read ends before its last row, between two rows or in one
Cut == {c \in Chunks : \E p \in Read(c) : smp[c][p] = "part"}

\* not all rows of the chunk are in what is read: it has no samples file, or
\* only cut ones
Lacking == {c \in Chunks : \A p \in Read(c) : smp[c][p] = "part"}

BeingWritten == {idx[p] : p \in {q \in Procs : pc[q] = "samples"}}

\* the chunks of a running instance's shard that it has skipped or finished;
\* when all instances have printed ALL_DONE these are all chunks
Passed ==
  {c \in Chunks : \E p \in Procs :
     pc[p] \notin {"idle", "aborted"} /\ Mine(p, c) /\ c < idx[p]}

\* aggregate_chunks.py:47: whenever it is run, and whatever was killed and run
\* again before, no row is read twice, and besides the files that are just
\* written at most one file for every crash is cut.  Of the chunks that the
\* instances have passed, at most one for every crash lacks rows; a chunk that
\* none has passed may lack all of its rows without any crash.
CutWithinCrashes ==
  /\ AddedTwice = {}
  /\ Cardinality(Cut \ BeingWritten) <= crashes
  /\ Cardinality(Lacking \cap Passed) <= crashes
=============================================================================
