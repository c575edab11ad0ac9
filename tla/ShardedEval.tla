---------------------------- MODULE ShardedEval ----------------------------
(***************************************************************************)
(* run_p2_transformers_chunked.sh as its header tells to use it: one       *)
(* terminal per shard, SHARD = 0 .. NUM_SHARDS - 1, and an operator who    *)
(* runs the same command again when an instance has stopped.               *)
(***************************************************************************)
EXTENDS ChunkedEval

CONSTANT Nobody

ASSUME ShardingAssumption ==
  /\ Helpers = {}
  /\ \A p, q \in Procs : Shard[p] = Shard[q] => p = q
  /\ \A s \in 0 .. NumShards - 1 : \E p \in Procs : Shard[p] = s
  /\ Nobody \notin Procs

Next ==
  \/ \E p \in Procs : Start(p) \/ Step(p) \/ Crash(p)
  \/ Machine

\* The operator reruns a stopped instance.
Spec ==
  /\ Init /\ [][Next]_vars
  /\ ScriptFairness /\ MachineFairness
  /\ \A p \in Procs : WF_vars(Start(p))

(***************************************************************************)
(* Properties.                                                             *)
(***************************************************************************)

\* No two instances ever work on the same chunk: the modulo of run_chunk
\* (lines 119-123) is the only thing that keeps one instance's rm -rf away
\* from the directory another one writes.
OneWriterPerChunk ==
  \A p, q \in Procs :
    pc[p] \in Working /\ pc[q] \in Working /\ idx[p] = idx[q] => p = q

\* When every instance has printed ALL_DONE (line 184), every chunk of the
\* whole list has a non-empty results file and samples: none fell between the
\* shards, and none was skipped because of what a crash left behind.
AllDoneMeansEvaluated ==
  (\A p \in Procs : pc[p] = "done") => \A c \in Chunks : Evaluated(c)

\* An instance at "next", idx, has every earlier chunk of its shard on disk:
\* what it skipped or finished stays there whatever the others do.
ShardProgress ==
  \A p \in Procs : pc[p] \notin {"idle", "aborted"} =>
    \A c \in Chunks : c < idx[p] /\ Mine(p, c) => Evaluated(c)

(***************************************************************************)
(* The inductive invariant behind the properties above: a working process  *)
(* is at a chunk of its own, its files are as far as its stage says, and   *)
(* what lies behind it in its shard is on disk.                            *)
(***************************************************************************)
AtOwnChunk ==
  \A p \in Procs : pc[p] \in Working => idx[p] \in Chunks /\ Mine(p, idx[p])

FilesOfStage ==
  \A p \in Procs :
    /\ pc[p] = "open" => res[idx[p]][p] = "empty"
    /\ pc[p] \in {"saved", "samples", "exiting"} => res[idx[p]][p] = "full"
    /\ pc[p] \in {"samples", "exiting"} => smp[idx[p]][p] # "none"

DoneAtEnd == \A p \in Procs : pc[p] = "done" => idx[p] = NumChunks

IInv == TypeOK /\ AtOwnChunk /\ FilesOfStage /\ DoneAtEnd /\ ShardProgress

\* The instances implement the ledger: a chunk is held by at most one of them
\* and one that is evaluated is neither cleared nor computed again.
Holds(p, c) == pc[p] \in Working /\ idx[p] = c /\ ~Evaluated(c)

holder ==
  [c \in Chunks |->
     IF \E p \in Procs : Holds(p, c) THEN CHOOSE p \in Procs : Holds(p, c)
                                     ELSE Nobody]

Ledger == INSTANCE EvalLedger WITH
  Workers <- Procs, Jobs <- Chunks, Nobody <- Nobody,
  holder <- holder, evaluated <- {c \in Chunks : Evaluated(c)}

ImplementsLedger == Ledger!LedgerSpec

\* Needed for that beside IInv: a worker's chunk has no samples until the
\* worker itself appends them.
NotYetEvaluated ==
  \A p \in Procs :
    /\ pc[p] = "clear" => ~Evaluated(idx[p])
    /\ pc[p] \in {"wait", "ready", "eval", "open", "saved"}
         => ~HasSamples(idx[p])

\* Whatever crashes, NVML failures and borrowed cards there are, as long as
\* they end and the operator reruns what stopped, the list gets evaluated.
EventuallyEvaluated == \A c \in Chunks : <>[]Evaluated(c)
=============================================================================
