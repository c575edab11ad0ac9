--------------------------- MODULE PassrateResume ---------------------------
(***************************************************************************)
(* eval/passrate_filter.py: the pass rate of a model over a dataset.  All  *)
(* results live in one json file, read at the start and written anew after *)
(* every chunk.                                                            *)
(***************************************************************************)
EXTENDS Naturals, Sequences, Listing

CONSTANTS
  Entries,       \* the ids of the dataset (or of this shard of it)
  Chunk,         \* PR_CHUNK
  PassrateKills  \* bound: kills

EntryIds == {Entries[i] : i \in 1 .. Len(Entries)}

ASSUME PassrateAssumption ==
  /\ Entries \in Seq(EntryIds)
  /\ \A i, j \in 1 .. Len(Entries) : Entries[i] = Entries[j] => i = j
  /\ Chunk \in Nat \ {0} /\ PassrateKills \in Nat

VARIABLES
  prAt,       \* "down", "chunk", "open", "dump", "over"
  results,    \* the ids in results
  rest,       \* data[ci:]
  prFile,     \* out_path: "none", "cut" or "whole", and its ids
  prKills

prVars == <<prAt, results, rest, prFile, prKills>>

PassrateInit ==
  /\ prAt = "down" /\ results = <<>> /\ rest = <<>>
  /\ prFile = [is |-> "none", ids |-> <<>>]
  /\ prKills = 0

\* Mutant of Remaining: the whole dataset again.
RemainingAll(ids) == Entries

Remaining(ids) ==
  Picked(Entries, {k \in 1 .. Len(Entries) : \A i \in 1 .. Len(ids) : ids[i] # Entries[k]})

\* json.load of a file that was cut raises
PassrateStarts ==
  /\ prAt = "down" /\ prFile.is # "cut"
  /\ results' = prFile.ids /\ rest' = Remaining(prFile.ids)
  /\ prAt' = "chunk"
  /\ UNCHANGED <<prFile, prKills>>

\* Mutant of Chats: the last chunk is not written.
ChatsLastUnwritten ==
  LET n == IF Len(rest) < Chunk THEN Len(rest) ELSE Chunk
  IN  /\ prAt = "chunk" /\ rest # <<>>
      /\ results' = results \o SubSeq(rest, 1, n)
      /\ rest' = SubSeq(rest, n + 1, Len(rest))
      /\ prAt' = IF rest' = <<>> THEN "over" ELSE "open"
      /\ UNCHANGED <<prFile, prKills>>

Chats ==
  LET n == IF Len(rest) < Chunk THEN Len(rest) ELSE Chunk
  IN  /\ prAt = "chunk" /\ rest # <<>>
      /\ results' = results \o SubSeq(rest, 1, n)
      /\ rest' = SubSeq(rest, n + 1, Len(rest))
      /\ prAt' = "open"
      /\ UNCHANGED <<prFile, prKills>>

OpensResults ==
  /\ prAt = "open" /\ prAt' = "dump"
  /\ prFile' = [is |-> "cut", ids |-> <<>>]
  /\ UNCHANGED <<results, rest, prKills>>

DumpsResults ==
  /\ prAt = "dump" /\ prAt' = "chunk"
  /\ prFile' = [is |-> "whole", ids |-> results]
  /\ UNCHANGED <<results, rest, prKills>>

PassrateEnds ==
  /\ prAt = "chunk" /\ rest = <<>>
  /\ prAt' = "over"
  /\ UNCHANGED <<results, rest, prFile, prKills>>

PassrateKilled ==
  /\ prAt \notin {"down", "over"} /\ prAt' = "down"
  /\ prKills < PassrateKills /\ prKills' = prKills + 1
  /\ results' = <<>> /\ rest' = <<>>
  /\ UNCHANGED prFile

PassrateRuns == PassrateStarts \/ Chats \/ OpensResults \/ DumpsResults \/ PassrateEnds

PassrateNext == PassrateRuns \/ PassrateKilled

PassrateSpec == PassrateInit /\ [][PassrateNext]_prVars

(***************************************************************************)
(* Properties.                                                             *)
(***************************************************************************)

\* passrate_filter.py:119: what is on disk and what is left add up to the
\* dataset, each entry once and in order, whatever was killed before.
ResultsOnce ==
  /\ prAt \notin {"down", "over"} => results \o rest = Entries
  /\ prFile.is = "whole" => prFile.ids = SubSeq(Entries, 1, Len(prFile.ids))

\* The filter implements DurableProgress (passrate_filter.py:111): a run goes on
\* from what the file holds and is one chunk ahead of it at most, and what was
\* kept is lost only with a kill inside of the write (line 150).
PassrateUp == prAt \notin {"down", "over"}

ResultsLost == prFile.is = "cut" /\ prAt # "dump"

KeptResults ==
  IF prFile.is = "cut" /\ prAt = "dump" THEN Len(results) ELSE Len(prFile.ids)

LiveResults == IF PassrateUp THEN Len(results) ELSE 0

Filter == INSTANCE DurableProgress WITH
  Goal <- Len(Entries), Gap <- Chunk, Stride <- Chunk,
  kept <- KeptResults, lost <- ResultsLost,
  up <- PassrateUp, live <- LiveResults

ImplementsFilter == Filter!DurableSpec

\* The reruns end with the whole dataset in the file, unless a kill falls
\* between the truncation of the file and its last byte (line 150).
PassrateDone ==
  <>(\/ prAt = "over" /\ prFile.ids = Entries
     \/ prAt = "down" /\ prFile.is = "cut")
=============================================================================
