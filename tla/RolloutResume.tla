--------------------------- MODULE RolloutResume ----------------------------
(***************************************************************************)
(* OPRD/scripts/infer/vllm_rollout.py: the teacher rollouts for the whole  *)
(* prompt list, spread over one worker process per GPU.  Each worker       *)
(* appends its records to worker_<rank>.jsonl; those files are the         *)
(* checkpoint.  main() reads them, shares the remaining samples out, joins *)
(* the workers and, if none failed, merges the files into DAPO.jsonl.      *)
(*                                                                         *)
(* With num_rollouts = 1 a slot is a sample.  A kill may cut the line that *)
(* is being written anywhere: nothing of it, a prefix that is no JSON, a   *)
(* prefix that ends inside a character, or all of it but the newline.      *)
(*                                                                         *)
(* A worker takes its pool in batches and puts rejected samples back at    *)
(* the end.  How the batches fall is left open: any pending sample may be  *)
(* the next.                                                               *)
(***************************************************************************)
EXTENDS Naturals, Sequences, FiniteSets

CONSTANTS
  NumSamples,   \* rows of the parquet file
  GpuCounts,    \* the values of len(--gpu-ids) the runs use
  MaxAttempts,  \* max_attempts_per_rollout
  Torn,         \* a line json.loads rejects
  Garbled,      \* a line that is not even UTF-8
  MaxCrashes    \* bound: failed workers and killed sessions

Samples == 0 .. NumSamples - 1
Workers == UNION {0 .. n - 1 : n \in GpuCounts}
Lines   == Samples \union {Torn, Garbled}

ASSUME RolloutAssumption ==
  /\ NumSamples \in Nat
  /\ GpuCounts \subseteq Nat \ {0} /\ GpuCounts # {}
  /\ MaxAttempts \in Nat \ {0}
  /\ MaxCrashes \in Nat
  /\ Torn \notin Samples /\ Garbled \notin Samples

VARIABLES
  phase,      \* main(): "off", "join", "merge", "write"
  n,          \* num_workers of the present run
  file,       \* file[w]: the lines of worker_<w>.jsonl
  unended,    \* unended[w]: its last line has no newline
  wpc,        \* wpc[w]: "off", "run", "ok", "failed" (exitcode)
  pending,    \* pending[w]: pending_pool, samples with their attempts
  abandoned,  \* samples given up in the present run
  merged,     \* DAPO.jsonl: "none", "part", "whole"
  out,        \* how often each sample is in it
  crashes

workers == <<wpc, pending, abandoned>>
disk    == <<file, unended>>
output  == <<merged, out>>
vars    == <<phase, n, file, unended, wpc, pending, abandoned, merged, out, crashes>>

TypeOK ==
  /\ phase \in {"off", "join", "merge", "write"}
  /\ n \in GpuCounts
  /\ file \in [Workers -> Seq(Lines)]
  /\ unended \in [Workers -> BOOLEAN]
  /\ wpc \in [Workers -> {"off", "run", "ok", "failed"}]
  /\ pending \in [Workers -> SUBSET (Samples \X (0 .. MaxAttempts - 1))]
  /\ abandoned \subseteq Samples
  /\ merged \in {"none", "part", "whole"}
  /\ out \in [Samples -> Nat]
  /\ crashes \in 0 .. MaxCrashes

Init ==
  /\ phase = "off"
  /\ n \in GpuCounts
  /\ file = [w \in Workers |-> <<>>]
  /\ unended = [w \in Workers |-> FALSE]
  /\ wpc = [w \in Workers |-> "off"]
  /\ pending = [w \in Workers |-> {}]
  /\ abandoned = {}
  /\ merged = "none"
  /\ out = [s \in Samples |-> 0]
  /\ crashes = 0

(***************************************************************************)
(* What is read from the files of the workers 0 .. k-1.                    *)
(***************************************************************************)
On(w) == {file[w][i] : i \in 1 .. Len(file[w])}

Readable(k) == \A w \in 0 .. k - 1 : Garbled \notin On(w)

\* Mutant of Completed: the file of the last worker is not read.
CompletedButLast(k) == Samples \intersect UNION {On(w) : w \in 0 .. k - 2}

Completed(k) == Samples \intersect UNION {On(w) : w \in 0 .. k - 1}

\* worker w of k gets the remaining samples whose rank is w modulo k
Remaining(k) == Samples \ Completed(k)
Rank(s, k) == Cardinality({r \in Remaining(k) : r < s})
Share(w, k) == {<<s, 0>> : s \in {r \in Remaining(k) : Rank(r, k) % k = w}}

Copies(s, k) ==
  Cardinality(UNION {{<<w, i>> : i \in {i \in DOMAIN file[w] : file[w][i] = s}} :
                       w \in 0 .. k - 1})

(***************************************************************************)
(* f_out.write and flush.  A record that is appended to a line without a   *)
(* newline becomes part of that line, which is no JSON any more.           *)
(***************************************************************************)
Glued(w, line) ==
  IF line = Garbled \/ file[w][Len(file[w])] = Garbled THEN Garbled ELSE Torn

Appended(w, line) ==
  IF unended[w] THEN [file[w] EXCEPT ![Len(file[w])] = Glued(w, line)]
                ELSE Append(file[w], line)

Write(w, line, ended) ==
  /\ file' = [file EXCEPT ![w] = Appended(w, line)]
  /\ unended' = [unended EXCEPT ![w] = ~ended]

(***************************************************************************)
(* main()                                                                  *)
(***************************************************************************)

\* Lines 398-473: the statistics, the shares, the workers.  A file that does
\* not decode ends main() with an exception outside the try: nothing happens.
Begin(k) ==
  /\ phase = "off"
  /\ Readable(k)
  /\ n' = k
  /\ abandoned' = {}
  /\ IF Completed(k) = Samples
       THEN /\ phase' = "merge"
            /\ UNCHANGED <<wpc, pending>>
       ELSE /\ phase' = "join"
            /\ wpc' = [w \in Workers |-> IF w < k THEN "run" ELSE "off"]
            /\ pending' = [w \in Workers |-> IF w < k THEN Share(w, k) ELSE {}]
  /\ UNCHANGED <<disk, output, crashes>>

Joined == \A w \in Workers : wpc[w] # "run"

\* Mutant of Join: a sample that was given up counts as a failure.
JoinFailsAbandoned ==
  /\ phase = "join" /\ Joined
  /\ phase' = IF abandoned # {} \/ \E w \in Workers : wpc[w] = "failed" THEN "off" ELSE "merge"
  /\ UNCHANGED <<n, workers, disk, output, crashes>>

Join ==
  /\ phase = "join" /\ Joined
  /\ phase' = IF \E w \in Workers : wpc[w] = "failed" THEN "off" ELSE "merge"
  /\ UNCHANGED <<n, workers, disk, output, crashes>>

\* Mutant of Merge: lines that are no JSON are passed over.
MergeTolerant ==
  /\ phase = "merge"
  /\ phase' = "write"
  /\ merged' = "part"
  /\ out' = [s \in Samples |-> Copies(s, n)]
  /\ UNCHANGED <<n, workers, disk, crashes>>

\* json.loads of every line, with no try around it
Merge ==
  /\ phase = "merge"
  /\ IF \E w \in 0 .. n - 1 : On(w) \intersect {Torn, Garbled} # {}
       THEN phase' = "off" /\ UNCHANGED output
       ELSE /\ phase' = "write"
            /\ merged' = "part"
            /\ out' = [s \in Samples |-> Copies(s, n)]
  /\ UNCHANGED <<n, workers, disk, crashes>>

WriteOutput ==
  /\ phase = "write"
  /\ phase' = "off"
  /\ merged' = "whole"
  /\ UNCHANGED <<n, workers, disk, out, crashes>>

(***************************************************************************)
(* worker()                                                                *)
(***************************************************************************)
Save(w) ==
  /\ wpc[w] = "run"
  /\ \E item \in pending[w] :
       /\ Write(w, item[1], TRUE)
       /\ pending' = [pending EXCEPT ![w] = @ \ {item}]
  /\ UNCHANGED <<phase, n, wpc, abandoned, output, crashes>>

\* Mutant of PutBack: one attempt too many.
PutBackLate(w, s, tries) ==
  IF tries < MaxAttempts
    THEN /\ pending' = [pending EXCEPT ![w] = (@ \ {<<s, tries>>}) \union {<<s, tries + 1>>}]
         /\ UNCHANGED abandoned
    ELSE /\ pending' = [pending EXCEPT ![w] = @ \ {<<s, tries>>}]
         /\ abandoned' = abandoned \union {s}

\* an invalid generation goes back to the pool until its attempts end
PutBack(w, s, tries) ==
  IF tries + 1 < MaxAttempts
    THEN /\ pending' = [pending EXCEPT ![w] = (@ \ {<<s, tries>>}) \union {<<s, tries + 1>>}]
         /\ UNCHANGED abandoned
    ELSE /\ pending' = [pending EXCEPT ![w] = @ \ {<<s, tries>>}]
         /\ abandoned' = abandoned \union {s}

Reject(w) ==
  /\ wpc[w] = "run"
  /\ \E item \in pending[w] : PutBack(w, item[1], item[2])
  /\ UNCHANGED <<phase, n, wpc, disk, output, crashes>>

Exit(w) ==
  /\ wpc[w] = "run" /\ pending[w] = {}
  /\ wpc' = [wpc EXCEPT ![w] = "ok"]
  /\ UNCHANGED <<phase, n, pending, abandoned, disk, output, crashes>>

(***************************************************************************)
(* Failures.                                                               *)
(***************************************************************************)

\* what the end of w may leave of the line it was writing, if it leaves anything
CutLines(w) == UNION {{Torn, Garbled, item[1]} : item \in pending[w]}

CutShort(w) == UNCHANGED disk \/ \E line \in CutLines(w) : Write(w, line, FALSE)

\* an exception or the OOM killer: exitcode # 0
Die(w) ==
  /\ wpc[w] = "run"
  /\ crashes < MaxCrashes /\ crashes' = crashes + 1
  /\ wpc' = [wpc EXCEPT ![w] = "failed"]
  /\ CutShort(w)
  /\ UNCHANGED <<phase, n, pending, abandoned, output>>

\* the session ends with everything in it, whoever is writing a line
Killed ==
  /\ phase # "off"
  /\ crashes < MaxCrashes /\ crashes' = crashes + 1
  /\ phase' = "off"
  /\ wpc' = [w \in Workers |-> "off"]
  /\ \E cut \in SUBSET {w \in Workers : wpc[w] = "run"} : \E line \in [cut -> Lines] :
       /\ \A w \in cut : line[w] \in CutLines(w)
       /\ file' = [w \in Workers |-> IF w \in cut THEN Appended(w, line[w]) ELSE file[w]]
       /\ unended' = [w \in Workers |-> w \in cut \/ unended[w]]
  /\ UNCHANGED <<n, pending, abandoned, output>>

Main == Join \/ Merge \/ WriteOutput \/ \E k \in GpuCounts : Begin(k)

Next ==
  \/ Main
  \/ \E w \in Workers : Save(w) \/ Reject(w) \/ Exit(w) \/ Die(w)
  \/ Killed

\* main() and the workers run on, and the operator reruns the command.
Spec ==
  /\ Init /\ [][Next]_vars
  /\ WF_vars(Main)
  /\ \A w \in Workers : WF_vars(Save(w) \/ Reject(w) \/ Exit(w))

(***************************************************************************)
(* Properties.                                                             *)
(***************************************************************************)

\* Lines 398, 430: what some checkpoint file holds is collected and nobody
\* generates it again; and no sample is in two places of the pending pools.
PendingOnce ==
  \A w \in Workers : wpc[w] = "run" =>
    \A item \in pending[w], v \in Workers :
      /\ item[1] \notin On(v)
      /\ wpc[v] = "run" =>
           \A other \in pending[v] : other[1] = item[1] => v = w /\ other = item

\* What goes into DAPO.jsonl is every sample once, but for those this very run
\* gave up after MaxAttempts rejections: no kill, resume or re-sharding
\* doubled a record or lost one unnoticed.
MergeAccountsForAll ==
  phase = "write" =>
    \A s \in Samples : out[s] = IF s \in abandoned THEN 0 ELSE 1

NoLineCut == [](\A w \in Workers : ~unended[w])

\* Line 481: after a failure, rerunning the command continues and comes to the
\* merged file ...
EventuallyMerged == <>(merged = "whole")

\* ... which is so as long as no failure fell inside the write of a line.
MergedUnlessCut == NoLineCut => EventuallyMerged
=============================================================================
