----------------------------- MODULE EvalShard ------------------------------
(***************************************************************************)
(* eval/run_eval.py: the evaluation of one shard of a benchmark, and the   *)
(* reading of its rows by eval/score.py.  run_all.sh starts the shards in  *)
(* parallel; they share neither samples nor files, so this is one of them. *)
(*                                                                         *)
(* A sample is a uid, a row what is known of it: "ok" (a parsed answer,    *)
(* right or wrong), "missing" (MEDIA_MISSING) or "err" (ERR:...).  A kill  *)
(* may cut the row that is being written: inside its text ("torn"), inside *)
(* a character ("garbled"), or between its text and the newline.           *)
(***************************************************************************)
EXTENDS Naturals, Sequences, FiniteSets, Listing

CONSTANTS
  Manifest,      \* build_manifest(...)[shard::num_shards]
  BatchSize,     \* --batch-size
  NoFrames,      \* samples whose directory of frames is empty
  Broken,        \* samples whose generation always raises
  MaxOoms,       \* bound: generations that run out of memory
  EvalKills      \* bound: kills

Uids == {Manifest[i] : i \in 1 .. Len(Manifest)}

ASSUME EvalAssumption ==
  /\ Manifest \in Seq(Uids)
  /\ \A i, j \in 1 .. Len(Manifest) : Manifest[i] = Manifest[j] => i = j
  /\ BatchSize \in Nat \ {0} /\ NoFrames \cup Broken \subseteq Uids
  /\ NoFrames \cap Broken = {}
  /\ MaxOoms \in Nat /\ EvalKills \in Nat

VARIABLES
  rows,        \* the lines of --out
  unended,     \* the last of them has no newline
  place,       \* "down", "loop", in run_batch: "media", "generate", "write",
               \* then "next"; "returned"
  todo,        \* manifest[i:] behind the present batch
  batch, nth,  \* the batch; 0 or the sample it is repeated at
  unread,      \* of this run_batch: the samples whose media is still to come
  valid,       \* and those that have it
  ooms, evalKills

callVars == <<batch, nth, unread, valid>>
evalVars == <<rows, unended, place, todo, batch, nth, unread, valid, ooms, evalKills>>

EvalInit ==
  /\ rows = <<>> /\ unended = FALSE
  /\ place = "down" /\ todo = <<>>
  /\ batch = <<>> /\ nth = 0 /\ unread = <<>> /\ valid = <<>>
  /\ ooms = 0 /\ evalKills = 0

Parsed(i) == rows[i].raw \notin {"torn", "garbled"}

\* Iterating over the file raises outside of the try.
Undecodable == \E i \in 1 .. Len(rows) : rows[i].raw = "garbled"

RowsOf(u) == {i \in 1 .. Len(rows) : Parsed(i) /\ rows[i].uid = u}

\* Mutant of Answered: rows that say ERR are not done.
AnsweredButErrors == {u \in Uids : \E i \in RowsOf(u) : rows[i].raw # "err"}

Answered == {u \in Uids : RowsOf(u) # {}}

\* score.py: the last row of a uid counts
Verdict(u) ==
  IF RowsOf(u) = {} THEN "none"
  ELSE rows[CHOOSE i \in RowsOf(u) : \A j \in RowsOf(u) : j <= i].raw

\* Mutant of Prints: the newline of a row is lost with it.
PrintsOnOneLine(u, raw) ==
  /\ UNCHANGED unended
  /\ rows' = IF unended THEN [rows EXCEPT ![Len(rows)].raw = "torn"]
                        ELSE Append(rows, [uid |-> u, raw |-> raw])

\* A row behind a line without newline becomes part of that line.
Prints(u, raw) ==
  /\ unended' = FALSE
  /\ rows' = IF unended THEN [rows EXCEPT ![Len(rows)].raw = "torn"]
                        ELSE Append(rows, [uid |-> u, raw |-> raw])

\* Mutant of Begin: valid is not emptied.
BeginKeepsValid(samples) == unread' = samples /\ UNCHANGED valid /\ place' = "media"

Begin(samples) == unread' = samples /\ valid' = <<>> /\ place' = "media"

EvalStarts ==
  /\ place \in {"down", "returned"} /\ ~Undecodable
  /\ todo' = Picked(Manifest, {i \in 1 .. Len(Manifest) : Manifest[i] \notin Answered})
  /\ place' = IF todo' = <<>> THEN "returned" ELSE "loop"
  /\ batch' = <<>> /\ nth' = 0 /\ unread' = <<>> /\ valid' = <<>>
  /\ UNCHANGED <<rows, unended, ooms, evalKills>>

\* Mutant of TakesBatch: i += bs + 1.
TakesOneTooMany ==
  LET n == IF Len(todo) < BatchSize THEN Len(todo) ELSE BatchSize
  IN  /\ place = "loop" /\ todo # <<>>
      /\ batch' = SubSeq(todo, 1, n)
      /\ todo' = SubSeq(todo, n + 2, Len(todo))
      /\ nth' = 0 /\ Begin(batch')
      /\ UNCHANGED <<rows, unended, ooms, evalKills>>

TakesBatch ==
  LET n == IF Len(todo) < BatchSize THEN Len(todo) ELSE BatchSize
  IN  /\ place = "loop" /\ todo # <<>>
      /\ batch' = SubSeq(todo, 1, n)
      /\ todo' = SubSeq(todo, n + 1, Len(todo))
      /\ nth' = 0 /\ Begin(batch')
      /\ UNCHANGED <<rows, unended, ooms, evalKills>>

EvalReturns ==
  /\ place = "loop" /\ todo = <<>>
  /\ place' = "returned"
  /\ UNCHANGED <<rows, unended, todo, callVars, ooms, evalKills>>

\* Mutant of ReadsMedia: without the continue.
ReadsMediaOn ==
  /\ place = "media"
  /\ IF Head(unread) \in NoFrames
       THEN Prints(Head(unread), "missing") ELSE UNCHANGED <<rows, unended>>
  /\ valid' = Append(valid, Head(unread))
  /\ unread' = Tail(unread)
  /\ place' = IF unread' # <<>> THEN "media" ELSE "generate"
  /\ UNCHANGED <<todo, batch, nth, ooms, evalKills>>

\* the row of a sample without frames is written before the others are tried
ReadsMedia ==
  /\ place = "media"
  /\ IF Head(unread) \in NoFrames
       THEN Prints(Head(unread), "missing") /\ UNCHANGED valid
       ELSE valid' = Append(valid, Head(unread)) /\ UNCHANGED <<rows, unended>>
  /\ unread' = Tail(unread)
  /\ place' = IF unread' # <<>> THEN "media"
              ELSE IF valid' = <<>> THEN "next" ELSE "generate"
  /\ UNCHANGED <<todo, batch, nth, ooms, evalKills>>

HasBroken == \E i \in 1 .. Len(valid) : valid[i] \in Broken

Generates ==
  /\ place = "generate" /\ ~HasBroken
  /\ place' = "write"
  /\ UNCHANGED <<rows, unended, todo, callVars, ooms, evalKills>>

Raises ==
  \/ HasBroken /\ UNCHANGED ooms
  \/ ~HasBroken /\ ooms < MaxOoms /\ ooms' = ooms + 1

\* the whole batch is repeated sample by sample
BatchFails ==
  /\ place = "generate" /\ nth = 0 /\ Raises
  /\ nth' = 1 /\ Begin(<<batch[1]>>)
  /\ UNCHANGED <<rows, unended, todo, batch, evalKills>>

SampleFails ==
  /\ place = "generate" /\ nth > 0 /\ Raises
  /\ Prints(batch[nth], "err")
  /\ valid' = <<>> /\ place' = "next"
  /\ UNCHANGED <<todo, batch, nth, unread, evalKills>>

\* the row itself; its write is taken not to raise
WritesRow ==
  /\ place = "write"
  /\ Prints(Head(valid), "ok")
  /\ valid' = Tail(valid)
  /\ place' = IF valid' = <<>> THEN "next" ELSE "write"
  /\ UNCHANGED <<todo, batch, nth, unread, ooms, evalKills>>

NextCall ==
  /\ place = "next"
  /\ IF nth \in {0, Len(batch)}
       THEN place' = "loop" /\ batch' = <<>> /\ nth' = 0 /\ UNCHANGED <<unread, valid>>
       ELSE nth' = nth + 1 /\ Begin(<<batch[nth + 1]>>) /\ UNCHANGED batch
  /\ UNCHANGED <<rows, unended, todo, ooms, evalKills>>

\* A kill between two writes ...
EvalDies ==
  /\ place \notin {"down", "returned"} /\ place' = "down"
  /\ evalKills < EvalKills /\ evalKills' = evalKills + 1
  /\ todo' = <<>> /\ batch' = <<>> /\ nth' = 0 /\ unread' = <<>> /\ valid' = <<>>

EvalKilled == EvalDies /\ UNCHANGED <<rows, unended, ooms>>

\* The row that the program is about to write.
Writing(u, text) ==
  \/ place = "media" /\ u = Head(unread) /\ u \in NoFrames /\ text = "missing" /\ UNCHANGED ooms
  \/ place = "generate" /\ nth > 0 /\ Raises /\ u = batch[nth] /\ text = "err"
  \/ place = "write" /\ u = Head(valid) /\ text = "ok" /\ UNCHANGED ooms

\* ... or inside of one. A whole text behind a line without newline is part of it.
RowCut ==
  /\ EvalDies
  /\ unended' = TRUE
  /\ \E u \in Uids, text \in {"missing", "err", "ok"} :
       /\ Writing(u, text)
       /\ \E raw \in {"torn", "garbled", IF unended THEN "torn" ELSE text} :
            rows' = IF unended THEN [rows EXCEPT ![Len(rows)].raw = raw]
                               ELSE Append(rows, [uid |-> u, raw |-> raw])

EvalRuns ==
  \/ EvalStarts \/ TakesBatch \/ EvalReturns \/ ReadsMedia \/ Generates
  \/ BatchFails \/ SampleFails \/ WritesRow \/ NextCall

EvalNext == EvalRuns \/ EvalKilled \/ RowCut

EvalSpec == EvalInit /\ [][EvalNext]_evalVars

(***************************************************************************)
(* Properties.                                                             *)
(***************************************************************************)

\* score.py:19: whatever overlaps on resume, the rows of a sample agree.  A
\* verdict changes only when a row is glued to one that a kill has cut.
VerdictStays ==
  [][\A u \in Uids : Verdict(u) # "none" => Verdict(u)' = Verdict(u) \/ unended]_evalVars

\* aggregation that does not remove duplicates counts a sample once, unless it
\* has no frames: its row is written again when its batch is repeated.
RowsPerSample ==
  \A u \in Uids : Cardinality(RowsOf(u)) <= IF u \in NoFrames THEN 2 ELSE 1

\* run_eval.py:267: DONE means that every sample of the shard has a row, unless
\* a row was glued to one that a kill has cut.
DoneMeansAnswered ==
  place = "returned" =>
    Answered = Uids \/ \E i \in 1 .. Len(rows) : rows[i].raw = "torn"

\* run_eval.py:253: a sample that fails takes no other with it: an error is of a
\* sample that is broken, or alone ran out of memory.
ErrorsIsolated ==
  Cardinality({u \in Uids \ Broken : Verdict(u) = "err"}) <= ooms

\* Reruns get every sample answered, unless a kill cuts a character in two.
EventuallyAnswered == <>(Undecodable \/ (place = "returned" /\ Answered = Uids))
=============================================================================
