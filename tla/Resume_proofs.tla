---------------------------- MODULE Resume_proofs ----------------------------
(***************************************************************************)
(* Proofs about the two jobs that resume by leaving out what their file    *)
(* already holds, for lists of any length, any size of batch or chunk, and *)
(* any number of kills.                                                    *)
(***************************************************************************)
EXTENDS EvalShard, PassrateResume, Listing_proofs

-----------------------------------------------------------------------------
(***************************************************************************)
(* PassrateResume.  What is on disk is a prefix of the dataset, and what a *)
(* run has in memory is a prefix and what comes behind it.                 *)
(***************************************************************************)
Front(k) == SubSeq(Entries, 1, k)
Back(k) == SubSeq(Entries, k + 1, Len(Entries))

FileIsPrefix ==
  /\ prFile.is \in {"none", "cut", "whole"}
  /\ \E k \in 0 .. Len(Entries) : prFile.ids = Front(k)

MemoryIsSplit ==
  /\ prAt \in {"down", "chunk", "open", "dump", "over"}
  /\ prAt \notin {"down", "over"} =>
       \E k \in 0 .. Len(Entries) : results = Front(k) /\ rest = Back(k)

PrInv == FileIsPrefix /\ MemoryIsSplit

LEMMA EntriesTyped ==
  /\ Entries \in Seq(EntryIds) /\ Len(Entries) \in Nat
  /\ Chunk \in Nat \ {0}
  /\ \A i, j \in 1 .. Len(Entries) : Entries[i] = Entries[j] => i = j
BY PassrateAssumption

LEMMA FrontAndBack ==
  ASSUME NEW k \in 0 .. Len(Entries)
  PROVE  /\ Front(k) \in Seq(EntryIds) /\ Len(Front(k)) = k
         /\ \A i \in 1 .. k : Front(k)[i] = Entries[i]
         /\ Back(k) \in Seq(EntryIds) /\ Len(Back(k)) = Len(Entries) - k
         /\ Front(k) \o Back(k) = Entries
<1>1. Len(Entries) \in Nat /\ Entries \in Seq(EntryIds)
  BY EntriesTyped
<1>2. /\ Front(k) \in Seq(EntryIds) /\ Len(Front(k)) = k
      /\ \A i \in 1 .. k : Front(k)[i] = Entries[i]
  BY <1>1 DEF Front
<1>3. Back(k) \in Seq(EntryIds) /\ Len(Back(k)) = Len(Entries) - k
  BY <1>1 DEF Back
<1>4. /\ 1 \in 1 .. Len(Entries) + 1 /\ k \in 1 - 1 .. Len(Entries)
      /\ Len(Entries) \in k .. Len(Entries)
  BY <1>1
<1>5. Front(k) \o Back(k) = SubSeq(Entries, 1, Len(Entries))
  BY <1>1, <1>4, ConcatAdjacentSubSeq DEF Front, Back
<1> QED
  BY <1>1, <1>2, <1>3, <1>5, SubSeqFull

\* passrate_filter.py:117: the ids of a prefix leave exactly what is behind it.
LEMMA RemainingIsBack ==
  ASSUME NEW k \in 0 .. Len(Entries)
  PROVE  Remaining(Front(k)) = Back(k)
<1>1. Len(Entries) \in Nat /\ Entries \in Seq(EntryIds)
  BY EntriesTyped
<1> DEFINE Left == {j \in 1 .. Len(Entries) :
                      \A i \in 1 .. Len(Front(k)) : Front(k)[i] # Entries[j]}
<1>2. ASSUME NEW j \in 1 .. Len(Entries)
      PROVE  (\A i \in 1 .. k : Entries[i] # Entries[j]) <=> j > k
  <2>1. j > k => \A i \in 1 .. k : Entries[i] # Entries[j]
    BY <1>1, EntriesTyped
  <2>2. ~(j > k) => j \in 1 .. k
    BY <1>1
  <2> QED
    BY <2>1, <2>2
<1>3. \A j \in 1 .. Len(Entries) : j \in Left <=> j > k
  BY <1>2, FrontAndBack
<1>4. Left = k + 1 .. Len(Entries)
  <2>1. \A j \in k + 1 .. Len(Entries) : j \in 1 .. Len(Entries) /\ j > k
    BY <1>1
  <2>2. \A j \in 1 .. Len(Entries) : j > k => j \in k + 1 .. Len(Entries)
    BY <1>1
  <2>3. Left \subseteq 1 .. Len(Entries)
    OBVIOUS
  <2> HIDE DEF Left
  <2> QED
    BY <1>3, <2>1, <2>2, <2>3
<1>5. Remaining(Front(k)) = Picked(Entries, Left)
  BY DEF Remaining
<1> HIDE DEF Left
<1> QED
  BY <1>1, <1>4, <1>5, PickedEnd DEF Back

\* passrate_filter.py:121: a chunk moves from what is left to the results.
LEMMA ChunkMoves ==
  ASSUME NEW k \in 0 .. Len(Entries), Back(k) # <<>>,
         NEW n \in 1 .. Len(Entries) - k
  PROVE  /\ Front(k) \o SubSeq(Back(k), 1, n) = Front(k + n)
         /\ SubSeq(Back(k), n + 1, Len(Back(k))) = Back(k + n)
<1>1. /\ Len(Entries) \in Nat /\ Entries \in Seq(EntryIds)
      /\ k + n \in 0 .. Len(Entries)
  BY EntriesTyped
<1>2. /\ Front(k) \in Seq(EntryIds) /\ Len(Front(k)) = k
      /\ Back(k) \in Seq(EntryIds) /\ Len(Back(k)) = Len(Entries) - k
      /\ Front(k) \o Back(k) = Entries
  BY FrontAndBack
<1>3. SubSeq(Back(k), 1, n) = SubSeq(Entries, k + 1, k + n)
  <2>1. /\ SubSeq(Back(k), 1, n) \in Seq(EntryIds) /\ Len(SubSeq(Back(k), 1, n)) = n
        /\ \A i \in 1 .. n : SubSeq(Back(k), 1, n)[i] = Entries[k + i]
    BY <1>1, <1>2 DEF Back
  <2>2. /\ SubSeq(Entries, k + 1, k + n) \in Seq(EntryIds)
        /\ Len(SubSeq(Entries, k + 1, k + n)) = n
        /\ \A i \in 1 .. n : SubSeq(Entries, k + 1, k + n)[i] = Entries[k + i]
    BY <1>1
  <2> QED
    BY <2>1, <2>2, SeqEqual
<1>4. Front(k) \o SubSeq(Entries, k + 1, k + n) = Front(k + n)
  <2>1. /\ 1 \in 1 .. Len(Entries) + 1 /\ k \in 1 - 1 .. Len(Entries)
        /\ k + n \in k .. Len(Entries)
    BY <1>1
  <2> QED
    BY <1>1, <2>1, ConcatAdjacentSubSeq DEF Front
<1>5. SubSeq(Back(k), n + 1, Len(Back(k))) = Back(k + n)
  <2> DEFINE m == Len(Entries) - k - n
             s == SubSeq(Back(k), n + 1, Len(Back(k)))
  <2>1. /\ s \in Seq(EntryIds) /\ Len(s) = m
        /\ \A i \in 1 .. m : s[i] = Entries[k + n + i]
    BY <1>1, <1>2 DEF Back
  <2>2. /\ Back(k + n) \in Seq(EntryIds) /\ Len(Back(k + n)) = m
        /\ \A i \in 1 .. m : Back(k + n)[i] = Entries[k + n + i]
    BY <1>1 DEF Back
  <2> HIDE DEF s, m
  <2>3. s = Back(k + n)
    BY <2>1, <2>2, SeqEqual
  <2> QED
    BY <2>3 DEF s
<1> QED
  BY <1>3, <1>4, <1>5

LEMMA InitPrInv == PassrateInit => PrInv
<1> SUFFICES ASSUME PassrateInit
             PROVE  PrInv
  OBVIOUS
<1>1. Len(Entries) \in Nat /\ Front(0) = <<>>
  BY EntriesTyped DEF Front
<1>2. FileIsPrefix
  BY <1>1 DEF PassrateInit, FileIsPrefix
<1>3. MemoryIsSplit
  BY DEF PassrateInit, MemoryIsSplit
<1> QED
  BY <1>2, <1>3 DEF PrInv

LEMMA NextPrInv == PrInv /\ [PassrateNext]_prVars => PrInv'
<1> SUFFICES ASSUME PrInv, [PassrateNext]_prVars
             PROVE  PrInv'
  OBVIOUS
<1> USE DEF PrInv, FileIsPrefix, MemoryIsSplit
<1>1. CASE PassrateStarts
  <2>1. PICK k \in 0 .. Len(Entries) : prFile.ids = Front(k)
    OBVIOUS
  <2>2. results' = Front(k) /\ rest' = Back(k)
    BY <1>1, <2>1, RemainingIsBack DEF PassrateStarts
  <2> QED
    BY <1>1, <2>2 DEF PassrateStarts
<1>2. CASE Chats
  <2> DEFINE n == IF Len(rest) < Chunk THEN Len(rest) ELSE Chunk
  <2>1. PICK k \in 0 .. Len(Entries) : results = Front(k) /\ rest = Back(k)
    BY <1>2 DEF Chats
  <2>2. /\ Len(Entries) \in Nat /\ Chunk \in Nat \ {0}
        /\ rest \in Seq(EntryIds) /\ Len(rest) = Len(Entries) - k /\ rest # <<>>
    BY <1>2, <2>1, EntriesTyped, FrontAndBack DEF Chats
  <2>3. n \in 1 .. Len(Entries) - k
    BY <2>2
  <2>4. results' = results \o SubSeq(rest, 1, n) /\ rest' = SubSeq(rest, n + 1, Len(rest))
    BY <1>2 DEF Chats
  <2> HIDE DEF n
  <2>5. results' = Front(k + n) /\ rest' = Back(k + n)
    BY <2>1, <2>2, <2>3, <2>4, ChunkMoves
  <2>6. k + n \in 0 .. Len(Entries)
    BY <2>2, <2>3
  <2>7. MemoryIsSplit'
    BY <1>2, <2>5, <2>6 DEF Chats
  <2> QED
    BY <1>2, <2>7 DEF Chats
<1>3. CASE OpensResults
  <2>1. Len(Entries) \in Nat /\ Front(0) = <<>>
    BY EntriesTyped DEF Front
  <2> QED
    BY <1>3, <2>1 DEF OpensResults
<1>4. CASE DumpsResults
  <2>1. PICK k \in 0 .. Len(Entries) : results = Front(k) /\ rest = Back(k)
    BY <1>4 DEF DumpsResults
  <2>2. prFile' = [is |-> "whole", ids |-> Front(k)]
    BY <1>4, <2>1 DEF DumpsResults
  <2>3. FileIsPrefix'
    BY <2>2
  <2> QED
    BY <1>4, <2>1, <2>3 DEF DumpsResults
<1>5. CASE PassrateEnds
  BY <1>5 DEF PassrateEnds
<1>6. CASE PassrateKilled
  BY <1>6 DEF PassrateKilled
<1>7. CASE UNCHANGED prVars
  BY <1>7 DEF prVars
<1> QED
  BY <1>1, <1>2, <1>3, <1>4, <1>5, <1>6, <1>7 DEF PassrateNext, PassrateRuns

\* passrate_filter.py:119, however long the dataset, however large the chunks
\* and however many kills: disk and memory hold each entry once and in order.
THEOREM NothingTwice == PassrateSpec => []ResultsOnce
<1>1. PrInv => ResultsOnce
  <2> SUFFICES ASSUME PrInv
               PROVE  ResultsOnce
    OBVIOUS
  <2>1. PICK k \in 0 .. Len(Entries) : prFile.ids = Front(k)
    BY DEF PrInv, FileIsPrefix
  <2>2. prFile.ids = SubSeq(Entries, 1, Len(prFile.ids))
    BY <2>1, FrontAndBack DEF Front
  <2>3. prAt \notin {"down", "over"} => results \o rest = Entries
    BY FrontAndBack DEF PrInv, MemoryIsSplit
  <2> QED
    BY <2>2, <2>3 DEF ResultsOnce
<1> QED
  BY <1>1, InitPrInv, NextPrInv, PTL DEF PassrateSpec

(***************************************************************************)
(* The filter implements DurableProgress.                                  *)
(***************************************************************************)
FileInStep ==
  /\ prAt = "chunk" => prFile.is # "cut" /\ prFile.ids = results
  /\ prAt = "open" => prFile.is # "cut" /\ Len(prFile.ids) < Len(results)
  /\ prAt = "dump" => prFile.is = "cut" /\ prFile.ids = <<>>

SameProgress == UNCHANGED <<KeptResults, ResultsLost, PassrateUp, LiveResults>>

\* passrate_filter.py:121: what one pass of the loop adds.
LEMMA ChunkGrows ==
  ASSUME PrInv, Chats
  PROVE  \E n \in 1 .. Chunk : /\ Len(results') = Len(results) + n
                               /\ Len(results) + n <= Len(Entries)
                               /\ Len(results) \in Nat
<1> DEFINE n == IF Len(rest) < Chunk THEN Len(rest) ELSE Chunk
<1>1. PICK k \in 0 .. Len(Entries) : results = Front(k) /\ rest = Back(k)
  BY DEF Chats, PrInv, MemoryIsSplit
<1>2. /\ Len(Entries) \in Nat /\ Chunk \in Nat \ {0}
      /\ rest \in Seq(EntryIds) /\ Len(rest) = Len(Entries) - k /\ rest # <<>>
  BY <1>1, EntriesTyped, FrontAndBack DEF Chats
<1>3. n \in 1 .. Chunk /\ n \in 1 .. Len(Entries) - k
  BY <1>2
<1>4. results' = results \o SubSeq(rest, 1, n)
  BY DEF Chats
<1> HIDE DEF n
<1>5. results' = Front(k + n)
  BY <1>1, <1>2, <1>3, <1>4, ChunkMoves
<1>6. k + n \in 0 .. Len(Entries)
  BY <1>2, <1>3
<1>7. Len(results) = k /\ Len(results') = k + n
  BY <1>1, <1>5, <1>6, FrontAndBack
<1>8. Len(results') = Len(results) + n /\ Len(results) + n <= Len(Entries) /\ k \in Nat
  BY <1>2, <1>3, <1>7
<1> QED
  BY <1>3, <1>7, <1>8

LEMMA NextFileInStep == PrInv /\ FileInStep /\ [PassrateNext]_prVars => FileInStep'
<1> SUFFICES ASSUME PrInv, FileInStep, [PassrateNext]_prVars
             PROVE  FileInStep'
  OBVIOUS
<1> USE DEF FileInStep
<1>1. CASE PassrateStarts
  BY <1>1 DEF PassrateStarts
<1>2. CASE Chats
  <2>1. PICK n \in 1 .. Chunk : Len(results') = Len(results) + n /\ Len(results) \in Nat
    BY <1>2, ChunkGrows
  <2>2. Len(results) < Len(results')
    BY <2>1, EntriesTyped
  <2> QED
    BY <1>2, <2>2 DEF Chats
<1>3. CASE OpensResults
  BY <1>3 DEF OpensResults
<1>4. CASE DumpsResults
  BY <1>4 DEF DumpsResults
<1>5. CASE PassrateEnds
  BY <1>5 DEF PassrateEnds
<1>6. CASE PassrateKilled
  BY <1>6 DEF PassrateKilled
<1>7. CASE UNCHANGED prVars
  BY <1>7 DEF prVars
<1> QED
  BY <1>1, <1>2, <1>3, <1>4, <1>5, <1>6, <1>7 DEF PassrateNext, PassrateRuns

LEMMA FilterStep ==
  ASSUME PrInv, FileInStep, PassrateNext
  PROVE  Filter!DurableNext \/ SameProgress
<1>1. CASE PassrateStarts
  <2>1. /\ prAt = "down" /\ prAt' = "chunk" /\ prFile.is # "cut" /\ UNCHANGED prFile
        /\ results' = prFile.ids
    BY <1>1 DEF PassrateStarts
  <2>2. /\ PassrateUp = FALSE /\ PassrateUp' = TRUE
        /\ ResultsLost = FALSE /\ ResultsLost' = FALSE
        /\ KeptResults = Len(prFile.ids) /\ KeptResults' = Len(prFile.ids)
        /\ LiveResults' = Len(prFile.ids)
    BY <2>1 DEF PassrateUp, ResultsLost, KeptResults, LiveResults
  <2>3. Filter!Begin
    BY <2>2 DEF Filter!Begin
  <2> QED
    BY <2>3 DEF Filter!DurableNext
<1>2. CASE Chats
  <2>1. /\ prAt = "chunk" /\ prAt' = "open" /\ UNCHANGED prFile
        /\ prFile.is # "cut" /\ prFile.ids = results
    BY <1>2 DEF Chats, FileInStep
  <2>2. /\ PassrateUp = TRUE /\ PassrateUp' = TRUE
        /\ ResultsLost = FALSE /\ ResultsLost' = FALSE
        /\ KeptResults = Len(results) /\ KeptResults' = Len(results)
        /\ LiveResults = Len(results) /\ LiveResults' = Len(results')
    BY <2>1 DEF PassrateUp, ResultsLost, KeptResults, LiveResults
  <2>3. PICK n \in 1 .. Chunk : /\ Len(results') = Len(results) + n
                                /\ Len(results) + n <= Len(Entries)
                                /\ Len(results) \in Nat
    BY <1>2, ChunkGrows
  <2>4. Len(results) + n <= Len(results) + Chunk
    BY <2>3, EntriesTyped
  <2>5. Filter!Advance(n)
    BY <2>2, <2>3, <2>4 DEF Filter!Advance
  <2> QED
    BY <2>5 DEF Filter!DurableNext
<1>3. CASE OpensResults
  <2>1. /\ prAt = "open" /\ prAt' = "dump" /\ prFile.is # "cut" /\ prFile'.is = "cut"
        /\ UNCHANGED results /\ Len(prFile.ids) < Len(results)
    BY <1>3 DEF OpensResults, FileInStep
  <2>2. /\ PassrateUp = TRUE /\ PassrateUp' = TRUE
        /\ ResultsLost = FALSE /\ ResultsLost' = FALSE
        /\ KeptResults = Len(prFile.ids) /\ KeptResults' = Len(results)
        /\ LiveResults = Len(results) /\ LiveResults' = Len(results)
    BY <2>1 DEF PassrateUp, ResultsLost, KeptResults, LiveResults
  <2>3. Filter!Commit
    BY <2>1, <2>2 DEF Filter!Commit
  <2> QED
    BY <2>3 DEF Filter!DurableNext
<1>4. CASE DumpsResults
  <2>1. /\ prAt = "dump" /\ prAt' = "chunk" /\ prFile.is = "cut" /\ prFile'.is = "whole"
        /\ prFile'.ids = results /\ UNCHANGED results
    BY <1>4 DEF DumpsResults, FileInStep
  <2> QED
    BY <2>1 DEF SameProgress, PassrateUp, ResultsLost, KeptResults, LiveResults
<1>5. CASE PassrateEnds \/ PassrateKilled
  <2>1. /\ prAt \in {"chunk", "open", "dump"} /\ prAt' \in {"down", "over"}
        /\ UNCHANGED prFile
    BY <1>5 DEF PassrateEnds, PassrateKilled, PrInv, MemoryIsSplit
  <2>2. PassrateUp = TRUE /\ PassrateUp' = FALSE /\ LiveResults' = 0
    BY <2>1 DEF PassrateUp, LiveResults
  <2>3. CASE prAt = "dump" /\ prFile.is = "cut"
    <3>1. prFile.ids = <<>>
      BY <2>3 DEF FileInStep
    <3> QED
      BY <2>1, <2>2, <2>3, <3>1 DEF Filter!DurableNext, Filter!Lose, KeptResults,
         ResultsLost, LiveResults
  <2>4. CASE prAt \in {"chunk", "open"} /\ prFile.is # "cut"
    <3>1. KeptResults' = KeptResults /\ ResultsLost' = ResultsLost
      BY <2>1, <2>4 DEF KeptResults, ResultsLost
    <3> QED
      BY <2>2, <3>1 DEF Filter!DurableNext, Filter!Fall
  <2> QED
    BY <2>1, <2>3, <2>4 DEF FileInStep
<1> QED
  BY <1>1, <1>2, <1>3, <1>4, <1>5 DEF PassrateNext, PassrateRuns

\* passrate_filter.py:111, for datasets, chunks and kills of any number: a run goes
\* on from what the file holds, is one chunk ahead of it at most, and only a kill
\* inside of the write loses what was kept.
THEOREM FilterImplementation == PassrateSpec => ImplementsFilter
<1>1. PassrateInit => FileInStep /\ Filter!DurableInit
  BY DEF PassrateInit, FileInStep, Filter!DurableInit, KeptResults, ResultsLost, PassrateUp,
         LiveResults
<1>2. PrInv /\ FileInStep /\ [PassrateNext]_prVars
        => [Filter!DurableNext]_(Filter!durableVars)
  <2> SUFFICES ASSUME PrInv, FileInStep, [PassrateNext]_prVars
               PROVE  Filter!DurableNext \/ SameProgress
    BY DEF SameProgress, Filter!durableVars
  <2>1. UNCHANGED prVars => SameProgress
    BY DEF prVars, SameProgress, KeptResults, ResultsLost, PassrateUp, LiveResults
  <2> QED
    BY <2>1, FilterStep
<1> QED
  BY <1>1, <1>2, InitPrInv, NextPrInv, NextFileInStep, PTL
     DEF PassrateSpec, ImplementsFilter, Filter!DurableSpec

-----------------------------------------------------------------------------
(***************************************************************************)
(* EvalShard.  The inductive invariant.                                    *)
(***************************************************************************)
Raws == {"ok", "missing", "err", "torn", "garbled"}
Row == [uid : Uids, raw : Raws]
Places == {"down", "loop", "media", "generate", "write", "next", "returned"}

EvalTyped ==
  /\ rows \in Seq(Row) /\ unended \in BOOLEAN /\ (unended => rows # <<>>)
  /\ place \in Places
  /\ todo \in Seq(Uids) /\ batch \in Seq(Uids)
  /\ unread \in Seq(Uids) /\ valid \in Seq(Uids)
  /\ nth \in 0 .. Len(batch) /\ ooms \in Nat

\* the samples that run_batch still has in its hands
InHand == Range(unread) \cup Range(valid)

\* what the lists hold at every place of the code
CallShape ==
  /\ place \in {"down", "returned"} => todo = <<>>
  /\ place \in {"down", "returned", "loop"} => batch = <<>>
  /\ place \in {"down", "returned", "loop", "next"} => unread = <<>> /\ valid = <<>>
  /\ place = "media" => unread # <<>>
  /\ place \in {"generate", "write"} => unread = <<>> /\ valid # <<>>
  /\ place \notin {"down", "returned", "loop"} => batch # <<>>

OneAtATime ==
  /\ InHand \subseteq Range(batch)
  /\ nth > 0 => InHand \subseteq {batch[nth]}
  /\ Range(valid) \cap NoFrames = {}

Distinct ==
  /\ IsInjective(todo) /\ IsInjective(batch)
  /\ IsInjective(unread) /\ IsInjective(valid)
  /\ Range(todo) \cap Range(batch) = {}
  /\ Range(unread) \cap Range(valid) = {}

\* the samples whose turn in the repetition of the batch is still to come
ToRepeat == {batch[j] : j \in nth + 1 .. Len(batch)}

RowCount(u) == Cardinality(RowsOf(u))

\* the rows that a sample may have before the batch is repeated
Before(u) == IF u \in NoFrames THEN 1 ELSE 0

RowBounds ==
  /\ \A u \in Uids : RowCount(u) <= Before(u) + 1
  /\ \A u \in Range(todo) : RowCount(u) <= 0
  /\ nth = 0 => \A u \in InHand : RowCount(u) <= 0
  /\ nth = 0 /\ place \in {"media", "generate"} =>
       \A u \in Range(batch) : RowCount(u) <= Before(u)
  /\ nth > 0 => \A u \in InHand \cup ToRepeat : RowCount(u) <= Before(u)

MissingRows == \A u \in NoFrames : \A i \in RowsOf(u) : rows[i].raw = "missing"

\* the samples that have an error which is not theirs
Unlucky == {u \in Uids \ Broken : \E i \in RowsOf(u) : rows[i].raw = "err"}

ErrorsCounted == Cardinality(Unlucky) <= ooms

\* a start gets past a file only if it can be read
Readable == Undecodable => place = "down"

TornRow == \E i \in 1 .. Len(rows) : rows[i].raw = "torn"

\* every sample has a row or will get one, unless a row was spoilt
Covered ==
  place # "down" =>
    \A u \in Uids : \/ u \in Answered \/ TornRow
                    \/ u \in Range(todo) \cup InHand
                    \/ nth > 0 /\ u \in ToRepeat

EvalInv ==
  /\ EvalTyped /\ CallShape /\ OneAtATime /\ Distinct
  /\ RowBounds /\ MissingRows /\ ErrorsCounted /\ Readable /\ Covered

(***************************************************************************)
(* What a write does to the rows.                                          *)
(***************************************************************************)
Writes(u, raw) ==
  \/ ~unended /\ rows' = Append(rows, [uid |-> u, raw |-> raw])
  \/ unended /\ raw \in {"torn", "garbled"} /\ rows' = [rows EXCEPT ![Len(rows)].raw = raw]

\* A new row is of the sample that is written; a row that is spoilt is lost to
\* its sample; no other changes.
LEMMA WrittenRows ==
  ASSUME EvalTyped, NEW u \in Uids, NEW raw \in Raws, Writes(u, raw)
  PROVE  /\ rows' \in Seq(Row) /\ rows' # <<>>
         /\ \A v : \A i \in RowsOf(v)' :
              \/ i \in RowsOf(v) /\ rows'[i] = rows[i]
              \/ v = u /\ i = Len(rows) + 1 /\ ~unended /\ rows'[i].raw = raw
         /\ \E i \in 1 .. Len(rows') : rows'[i].raw = raw
         /\ \A i \in 1 .. Len(rows') :
              rows'[i].raw = raw \/ (i \in 1 .. Len(rows) /\ rows'[i] = rows[i])
         /\ ~unended =>
              /\ \A i \in 1 .. Len(rows) : i \in 1 .. Len(rows') /\ rows'[i] = rows[i]
              /\ \A v : RowsOf(v) \subseteq RowsOf(v)'
              /\ raw \notin {"torn", "garbled"} => Len(rows) + 1 \in RowsOf(u)'
<1>1. rows \in Seq(Row) /\ Len(rows) \in Nat
  BY DEF EvalTyped
<1> DEFINE line == [uid |-> u, raw |-> raw]
<1>2. line \in Row /\ line.raw = raw /\ line.uid = u
  BY DEF Row
<1>3. CASE ~unended
  <2>1. rows' = Append(rows, line)
    BY <1>3 DEF Writes
  <2> HIDE DEF line
  <2>2. /\ rows' \in Seq(Row) /\ rows' # <<>> /\ Len(rows') = Len(rows) + 1
        /\ \A i \in 1 .. Len(rows) : rows'[i] = rows[i]
        /\ rows'[Len(rows) + 1] = line
    BY <1>1, <1>2, <2>1
  <2>3. \A i : i \in 1 .. Len(rows') <=> i \in 1 .. Len(rows) \/ i = Len(rows) + 1
    BY <1>1, <2>2
  <2>4. /\ \E i \in 1 .. Len(rows') : rows'[i].raw = raw
        /\ \A i \in 1 .. Len(rows') :
             rows'[i].raw = raw \/ (i \in 1 .. Len(rows) /\ rows'[i] = rows[i])
    BY <1>1, <1>2, <2>2, <2>3
  <2>5. \A v : \A i \in RowsOf(v)' :
          \/ i \in RowsOf(v) /\ rows'[i] = rows[i]
          \/ v = u /\ i = Len(rows) + 1 /\ ~unended /\ rows'[i].raw = raw
    BY <1>2, <1>3, <2>2, <2>3 DEF RowsOf, Parsed
  <2>6. /\ \A v : RowsOf(v) \subseteq RowsOf(v)'
        /\ raw \notin {"torn", "garbled"} => Len(rows) + 1 \in RowsOf(u)'
    BY <1>2, <1>3, <2>2, <2>3 DEF RowsOf, Parsed
  <2> QED
    BY <1>3, <2>2, <2>3, <2>4, <2>5, <2>6
<1>4. CASE unended
  <2>1. raw \in {"torn", "garbled"} /\ rows' = [rows EXCEPT ![Len(rows)].raw = raw]
    BY <1>4 DEF Writes
  <2>2. rows # <<>> /\ Len(rows) \in 1 .. Len(rows)
    BY <1>1, <1>4 DEF EvalTyped
  <2> DEFINE cut == [rows[Len(rows)] EXCEPT !.raw = raw]
  <2>3. rows[Len(rows)] \in Row
    BY <1>1, <2>2
  <2>4. cut \in Row /\ cut.raw = raw
    BY <2>3 DEF Row
  <2>5. rows' = [rows EXCEPT ![Len(rows)] = cut]
    BY <2>1
  <2> HIDE DEF cut
  <2>6. /\ rows' \in Seq(Row) /\ Len(rows') = Len(rows)
        /\ rows'[Len(rows)] = cut
        /\ \A i \in 1 .. Len(rows) : i # Len(rows) => rows'[i] = rows[i]
    BY <1>1, <2>2, <2>4, <2>5, ExceptSeq
  <2>7. rows' # <<>>
    BY <1>1, <2>2, <2>6
  <2>8. /\ \E i \in 1 .. Len(rows') : rows'[i].raw = raw
        /\ \A i \in 1 .. Len(rows') :
             rows'[i].raw = raw \/ (i \in 1 .. Len(rows) /\ rows'[i] = rows[i])
    BY <2>2, <2>4, <2>6
  <2>9. \A v : \A i \in RowsOf(v)' : i \in RowsOf(v) /\ rows'[i] = rows[i]
    BY <2>1, <2>2, <2>4, <2>6 DEF RowsOf, Parsed
  <2> QED
    BY <1>4, <2>6, <2>7, <2>8, <2>9
<1> QED
  BY <1>3, <1>4

LEMMA CountTyped ==
  ASSUME EvalTyped
  PROVE  \A v : IsFiniteSet(RowsOf(v)) /\ RowCount(v) \in Nat
<1>1. Len(rows) \in Nat
  BY DEF EvalTyped
<1>2. IsFiniteSet(1 .. Len(rows))
  BY <1>1, FS_Interval
<1> SUFFICES ASSUME NEW v
             PROVE  IsFiniteSet(RowsOf(v)) /\ RowCount(v) \in Nat
  OBVIOUS
<1>3. RowsOf(v) \in SUBSET (1 .. Len(rows))
  BY DEF RowsOf
<1>4. IsFiniteSet(RowsOf(v))
  BY <1>2, <1>3, FS_Subset
<1> QED
  BY <1>4, FS_CardinalityType DEF RowCount

\* One sample has one row more at most, no other has more than it had.
LEMMA WrittenCount ==
  ASSUME EvalTyped, NEW u \in Uids, NEW raw \in Raws, Writes(u, raw)
  PROVE  /\ \A v : RowCount(v) \in Nat /\ RowCount(v)' \in Nat
         /\ \A v : v # u => RowCount(v)' <= RowCount(v)
         /\ RowCount(u)' <= RowCount(u) + 1
<1> SUFFICES ASSUME NEW v
             PROVE  /\ RowCount(v) \in Nat /\ RowCount(v)' \in Nat
                    /\ v # u => RowCount(v)' <= RowCount(v)
                    /\ RowCount(v)' <= RowCount(v) + 1
  OBVIOUS
<1>1. IsFiniteSet(RowsOf(v)) /\ RowCount(v) \in Nat
  BY CountTyped
<1> DEFINE new == RowsOf(v) \cup {Len(rows) + 1}
<1>2. IsFiniteSet(new) /\ Cardinality(new) \in {RowCount(v), RowCount(v) + 1}
  BY <1>1, FS_AddElement DEF RowCount
<1>3. RowsOf(v)' \in SUBSET new
  BY WrittenRows
<1>4. v # u => RowsOf(v)' \in SUBSET RowsOf(v)
  BY WrittenRows
<1> HIDE DEF new
<1>5. IsFiniteSet(RowsOf(v)') /\ Cardinality(RowsOf(v)') <= Cardinality(new)
  BY <1>2, <1>3, FS_Subset
<1>6. v # u => Cardinality(RowsOf(v)') <= Cardinality(RowsOf(v))
  BY <1>1, <1>4, FS_Subset
<1>7. Cardinality(RowsOf(v)') \in Nat
  BY <1>5, FS_CardinalityType
<1>8. RowCount(v)' = Cardinality(RowsOf(v)') /\ RowCount(v) = Cardinality(RowsOf(v))
  BY DEF RowCount
<1> HIDE DEF RowCount
<1>9. \A k, l, m \in Nat : m \in {l, l + 1} /\ k <= m => k <= l + 1
  OBVIOUS
<1>10. RowCount(v)' <= RowCount(v) + 1
  <2>1. Cardinality(new) \in Nat
    BY <1>2, FS_CardinalityType
  <2> QED
    BY <1>1, <1>2, <1>5, <1>7, <1>8, <1>9, <2>1, Zenon
<1> QED
  BY <1>1, <1>6, <1>7, <1>8, <1>10, Zenon

LEMMA PrintsWrites ==
  ASSUME NEW u, NEW raw, Prints(u, raw)
  PROVE  /\ unended' = FALSE
         /\ unended => Writes(u, "torn")
         /\ ~unended => Writes(u, raw)
BY DEF Prints, Writes

(***************************************************************************)
(* The lists at every place of the code.                                   *)
(***************************************************************************)
Shape == EvalTyped /\ CallShape /\ OneAtATime /\ Distinct

LEMMA ManifestTyped ==
  /\ Manifest \in Seq(Uids) /\ IsInjective(Manifest) /\ Range(Manifest) = Uids
  /\ BatchSize \in Nat \ {0} /\ NoFrames \cup Broken \subseteq Uids
<1>1. Manifest \in Seq(Uids) /\ DOMAIN Manifest = 1 .. Len(Manifest)
  BY EvalAssumption
<1> QED
  BY <1>1, EvalAssumption DEF IsInjective, Range, Uids

\* A write keeps the types, whatever else the step does.
LEMMA WriteTyped ==
  ASSUME EvalTyped, NEW u \in Uids, NEW raw \in Raws, Writes(u, raw)
  PROVE  rows' \in Seq(Row) /\ rows' # <<>>
BY WrittenRows

LEMMA PrintTyped ==
  ASSUME EvalTyped, NEW u \in Uids, NEW raw \in Raws, Prints(u, raw)
  PROVE  rows' \in Seq(Row) /\ unended' = FALSE
<1>1. "torn" \in Raws
  BY DEF Raws
<1>2. unended \in BOOLEAN
  BY DEF EvalTyped
<1> QED
  BY <1>1, <1>2, PrintsWrites, WriteTyped

\* run_eval.py:245: what of the manifest has no row yet.
LEMMA Filtered ==
  ASSUME EvalStarts
  PROVE  /\ todo' \in Seq(Uids) /\ IsInjective(todo')
         /\ Range(todo') = Uids \ Answered
<1> DEFINE I == {i \in 1 .. Len(Manifest) : Manifest[i] \notin Answered}
<1>1. todo' = Picked(Manifest, I)
  BY DEF EvalStarts
<1>2. Manifest \in Seq(Uids) /\ I \in SUBSET (1 .. Len(Manifest))
  BY ManifestTyped
<1>3. \A i, j \in 1 .. Len(Manifest) : Manifest[i] = Manifest[j] => i = j
  BY EvalAssumption
<1>4. \A i \in I : Manifest[i] \in Uids \ Answered
  BY DEF Uids
<1>5. \A u \in Uids \ Answered : \E i \in I : Manifest[i] = u
  BY DEF Uids
<1> HIDE DEF I
<1> DEFINE n == Cardinality(I)
<1>6. /\ n \in Nat /\ todo' \in Seq(Uids) /\ Len(todo') = n
      /\ \A k \in 1 .. n : \E i \in I : todo'[k] = Manifest[i]
      /\ \A i \in I : \E k \in 1 .. n : todo'[k] = Manifest[i]
      /\ \A j, k \in 1 .. n : todo'[j] = todo'[k] => j = k
  <2> DEFINE list == Picked(Manifest, I)
  <2>1. /\ n \in Nat /\ list \in Seq(Uids) /\ Len(list) = n
        /\ \A k \in 1 .. n : \E i \in I : list[k] = Manifest[i]
        /\ \A i \in I : \E k \in 1 .. n : list[k] = Manifest[i]
        /\ \A j, k \in 1 .. n : list[j] = list[k] => j = k
    BY ONLY <1>2, <1>3, PickedProperties
  <2>2. todo' = list
    BY <1>1
  <2> HIDE DEF list
  <2> QED
    BY <2>1, <2>2
<1> HIDE DEF n
<1>7. DOMAIN todo' = 1 .. n
  BY <1>6
<1>8. Range(todo') = {todo'[k] : k \in 1 .. n} /\ IsInjective(todo')
  BY <1>6, <1>7 DEF Range, IsInjective
<1> QED
  BY <1>4, <1>5, <1>6, <1>8

\* A write that a kill cuts short spoils its row, or leaves it whole: then it is
\* the row that the code was about to write.
LEMMA CutWrites ==
  ASSUME Shape, RowCut
  PROVE  \E u \in Uids, text \in {"missing", "err", "ok"}, raw \in Raws :
           Writing(u, text) /\ Writes(u, raw) /\ raw \in {"torn", "garbled", text}
<1>1. PICK u \in Uids, text \in {"missing", "err", "ok"} :
        /\ Writing(u, text)
        /\ \E raw \in {"torn", "garbled", IF unended THEN "torn" ELSE text} :
             rows' = IF unended THEN [rows EXCEPT ![Len(rows)].raw = raw]
                                ELSE Append(rows, [uid |-> u, raw |-> raw])
  BY Zenon DEF RowCut
<1>2. PICK raw \in {"torn", "garbled", IF unended THEN "torn" ELSE text} :
        rows' = IF unended THEN [rows EXCEPT ![Len(rows)].raw = raw]
                           ELSE Append(rows, [uid |-> u, raw |-> raw])
  BY <1>1
<1>3. unended \in BOOLEAN
  BY DEF Shape, EvalTyped
<1>4. raw \in Raws /\ raw \in {"torn", "garbled", text} /\ (unended => raw \in {"torn", "garbled"})
  BY <1>1, <1>2, <1>3 DEF Raws
<1>5. Writes(u, raw)
  BY <1>2, <1>3, <1>4 DEF Writes
<1> QED
  BY <1>1, <1>4, <1>5

LEMMA StepShape == Shape /\ [EvalNext]_evalVars => Shape'
<1> SUFFICES ASSUME Shape, [EvalNext]_evalVars
             PROVE  Shape'
  OBVIOUS
<1> USE DEF Shape, InHand
<1>0. /\ EvalTyped /\ CallShape /\ OneAtATime /\ Distinct
      /\ Range(<<>>) = {} /\ IsInjective(<<>>) /\ \A S : <<>> \in Seq(S)
      /\ Len(<<>>) = 0
  BY ShortSeqs
<1>1. CASE EvalStarts
  <2>1. /\ todo' \in Seq(Uids) /\ IsInjective(todo')
        /\ place' \in {"returned", "loop"} /\ (place' = "returned" => todo' = <<>>)
        /\ batch' = <<>> /\ nth' = 0 /\ unread' = <<>> /\ valid' = <<>>
        /\ UNCHANGED <<rows, unended, ooms>>
    BY <1>1, Filtered DEF EvalStarts
  <2>2. EvalTyped'
    BY <1>0, <2>1 DEF EvalTyped, Places
  <2>3. CallShape' /\ OneAtATime' /\ Distinct'
    BY <1>0, <2>1, Zenon DEF CallShape, OneAtATime, Distinct
  <2> QED
    BY <2>2, <2>3
<1>2. CASE TakesBatch
  <2> DEFINE n == IF Len(todo) < BatchSize THEN Len(todo) ELSE BatchSize
  <2>1. /\ todo \in Seq(Uids) /\ todo # <<>> /\ Len(todo) \in Nat
        /\ IsInjective(todo)
    BY <1>0, <1>2 DEF TakesBatch, EvalTyped, Distinct
  <2>2. n \in 1 .. Len(todo)
    BY <2>1, ManifestTyped
  <2>3. /\ batch' = SubSeq(todo, 1, n) /\ todo' = SubSeq(todo, n + 1, Len(todo))
        /\ unread' = batch' /\ nth' = 0 /\ valid' = <<>> /\ place' = "media"
        /\ UNCHANGED <<rows, unended, ooms>>
    BY <1>2 DEF TakesBatch, Begin
  <2> HIDE DEF n
  <2>4. /\ batch' \in Seq(Uids) /\ todo' \in Seq(Uids) /\ Len(batch') = n
        /\ IsInjective(batch') /\ IsInjective(todo')
        /\ Range(batch') \cap Range(todo') = {}
    BY <2>1, <2>2, <2>3, CutInTwo
  <2>5. batch' # <<>>
    BY <2>2, <2>4
  <2>6. EvalTyped'
    BY <1>0, <2>3, <2>4 DEF EvalTyped, Places
  <2>7. CallShape'
    BY <2>3, <2>5 DEF CallShape
  <2>8. OneAtATime' /\ Distinct'
    BY <1>0, <2>3, <2>4 DEF OneAtATime, Distinct
  <2> QED
    BY <2>6, <2>7, <2>8
<1>3. CASE EvalReturns
  <2>1. EvalTyped'
    BY <1>0, <1>3 DEF EvalReturns, EvalTyped, Places, callVars
  <2>2. CallShape' /\ OneAtATime' /\ Distinct'
    BY <1>0, <1>3 DEF EvalReturns, CallShape, OneAtATime, Distinct, callVars
  <2> QED
    BY <2>1, <2>2
<1>4. CASE ReadsMedia
  <2> DEFINE u == Head(unread)
  <2>1. /\ unread \in Seq(Uids) /\ unread # <<>> /\ IsInjective(unread)
        /\ valid \in Seq(Uids) /\ IsInjective(valid) /\ place = "media"
    BY <1>0, <1>4 DEF ReadsMedia, EvalTyped, CallShape, Distinct
  <2>2. /\ u \in Uids /\ u \in Range(unread) /\ Tail(unread) \in Seq(Uids)
        /\ Range(unread) = {u} \cup Range(Tail(unread))
        /\ IsInjective(Tail(unread)) /\ u \notin Range(Tail(unread))
    BY <2>1, HeadAndTail
  <2>3. /\ unread' = Tail(unread)
        /\ UNCHANGED <<todo, batch, nth, ooms>>
        /\ place' = IF unread' # <<>> THEN "media"
                    ELSE IF valid' = <<>> THEN "next" ELSE "generate"
    BY <1>4 DEF ReadsMedia
  <2>4. /\ rows' \in Seq(Row) /\ unended' \in BOOLEAN
        /\ unended' => rows' # <<>>
    <3>1. CASE u \in NoFrames
      <4>1. Prints(u, "missing") /\ "missing" \in Raws
        BY <1>4, <3>1 DEF ReadsMedia, Raws
      <4> QED
        BY <1>0, <2>2, <4>1, PrintTyped
    <3>2. CASE u \notin NoFrames
      BY <1>0, <1>4, <3>2 DEF ReadsMedia, EvalTyped
    <3> QED
      BY <3>1, <3>2
  <2>5. \/ valid' = valid
        \/ valid' = Append(valid, u) /\ u \notin NoFrames
    BY <1>4 DEF ReadsMedia
  <2>6. u \notin Range(valid)
    BY <1>0, <2>2 DEF Distinct
  <2>7. /\ valid' \in Seq(Uids) /\ IsInjective(valid')
        /\ Range(valid') \subseteq Range(valid) \cup {u}
        /\ Range(valid') \cap NoFrames = {}
    <3>1. Range(valid) \cap NoFrames = {}
      BY <1>0 DEF OneAtATime
    <3>2. /\ Append(valid, u) \in Seq(Uids) /\ IsInjective(Append(valid, u))
          /\ Range(Append(valid, u)) = Range(valid) \cup {u}
      BY <2>1, <2>2, <2>6, OneMore
    <3> HIDE DEF u
    <3> QED
      BY <2>1, <2>5, <3>1, <3>2
  <2>8. EvalTyped'
    BY <1>0, <2>1, <2>2, <2>3, <2>4, <2>7 DEF EvalTyped, Places
  <2>9. CallShape'
    BY <1>0, <2>1, <2>3 DEF CallShape
  <2>10. OneAtATime'
    BY <1>0, <2>2, <2>3, <2>7 DEF OneAtATime
  <2>11. Distinct'
    BY <1>0, <2>2, <2>3, <2>7 DEF Distinct
  <2> QED
    BY <2>8, <2>9, <2>10, <2>11
<1>5. CASE Generates
  <2>1. EvalTyped'
    BY <1>0, <1>5 DEF Generates, EvalTyped, Places, callVars
  <2>2. CallShape' /\ OneAtATime' /\ Distinct'
    BY <1>0, <1>5 DEF Generates, CallShape, OneAtATime, Distinct, callVars
  <2> QED
    BY <2>1, <2>2
<1>6. CASE BatchFails
  <2>1. /\ nth' = 1 /\ unread' = <<batch[1]>> /\ valid' = <<>> /\ place' = "media"
        /\ UNCHANGED <<rows, unended, todo, batch>> /\ ooms' \in Nat
        /\ place = "generate"
    BY <1>0, <1>6 DEF BatchFails, Begin, Raises, EvalTyped
  <2>2. batch \in Seq(Uids) /\ batch # <<>>
    BY <1>0, <2>1 DEF CallShape, EvalTyped
  <2>3. /\ 1 \in 1 .. Len(batch) /\ batch[1] \in Uids /\ batch[1] \in Range(batch)
        /\ 1 \in 0 .. Len(batch)
    BY <2>2 DEF Range
  <2>4. /\ Range(unread') = {batch[1]} /\ IsInjective(unread')
        /\ unread' \in Seq(Uids) /\ unread' # <<>>
    BY <2>1, <2>3, ShortSeqs
  <2>5. EvalTyped'
    BY <1>0, <2>1, <2>3, <2>4 DEF EvalTyped, Places
  <2>6. CallShape'
    BY <1>0, <2>1, <2>2, <2>4 DEF CallShape
  <2>7. OneAtATime' /\ Distinct'
    BY <1>0, <2>1, <2>3, <2>4 DEF OneAtATime, Distinct
  <2> QED
    BY <2>5, <2>6, <2>7
<1>7. CASE SampleFails
  <2>1. /\ nth > 0 /\ place = "generate" /\ place' = "next" /\ valid' = <<>>
        /\ UNCHANGED <<todo, batch, nth, unread>> /\ ooms' \in Nat
        /\ Prints(batch[nth], "err")
    BY <1>0, <1>7 DEF SampleFails, Raises, EvalTyped
  <2>2. batch[nth] \in Uids /\ "err" \in Raws
    BY <1>0, <2>1 DEF EvalTyped, Raws
  <2>3. rows' \in Seq(Row) /\ unended' = FALSE
    BY <1>0, <2>1, <2>2, PrintTyped
  <2>4. EvalTyped'
    BY <1>0, <2>1, <2>3 DEF EvalTyped, Places
  <2>5. CallShape' /\ OneAtATime' /\ Distinct'
    BY <1>0, <2>1 DEF CallShape, OneAtATime, Distinct
  <2> QED
    BY <2>4, <2>5
<1>8. CASE WritesRow
  <2>1. /\ place = "write" /\ valid' = Tail(valid)
        /\ place' = IF valid' = <<>> THEN "next" ELSE "write"
        /\ UNCHANGED <<todo, batch, nth, unread, ooms>>
        /\ Prints(Head(valid), "ok")
    BY <1>8 DEF WritesRow
  <2>2. /\ valid \in Seq(Uids) /\ valid # <<>> /\ IsInjective(valid)
    BY <1>0, <2>1 DEF EvalTyped, CallShape, Distinct
  <2>3. /\ Head(valid) \in Uids /\ valid' \in Seq(Uids) /\ IsInjective(valid')
        /\ Range(valid') \subseteq Range(valid)
    BY <2>1, <2>2, HeadAndTail
  <2>4. rows' \in Seq(Row) /\ unended' = FALSE
    <3>1. "ok" \in Raws
      BY DEF Raws
    <3> QED
      BY <1>0, <2>1, <2>3, <3>1, PrintTyped
  <2>5. EvalTyped'
    BY <1>0, <2>1, <2>3, <2>4 DEF EvalTyped, Places
  <2>6. CallShape'
    BY <1>0, <2>1 DEF CallShape
  <2>7. OneAtATime' /\ Distinct'
    BY <1>0, <2>1, <2>3 DEF OneAtATime, Distinct
  <2> QED
    BY <2>5, <2>6, <2>7
<1>9. CASE NextCall
  <2>1. /\ place = "next" /\ unread = <<>> /\ valid = <<>> /\ batch # <<>>
        /\ UNCHANGED <<rows, unended, todo, ooms>>
    BY <1>0, <1>9 DEF NextCall, CallShape
  <2>2. CASE nth \in {0, Len(batch)}
    <3>1. place' = "loop" /\ batch' = <<>> /\ nth' = 0 /\ UNCHANGED <<unread, valid>>
      BY <1>9, <2>2 DEF NextCall
    <3>2. EvalTyped'
      BY <1>0, <2>1, <3>1 DEF EvalTyped, Places
    <3>3. CallShape' /\ OneAtATime' /\ Distinct'
      BY <1>0, <2>1, <3>1 DEF CallShape, OneAtATime, Distinct
    <3> QED
      BY <3>2, <3>3
  <2>3. CASE nth \notin {0, Len(batch)}
    <3>1. /\ nth' = nth + 1 /\ unread' = <<batch[nth + 1]>> /\ valid' = <<>>
          /\ place' = "media" /\ UNCHANGED batch
      BY <1>9, <2>3 DEF NextCall, Begin
    <3>2. /\ nth + 1 \in 1 .. Len(batch) /\ batch[nth + 1] \in Uids
          /\ batch[nth + 1] \in Range(batch) /\ nth + 1 \in 0 .. Len(batch)
      BY <1>0, <2>3 DEF EvalTyped, Range
    <3>3. /\ Range(unread') = {batch[nth + 1]} /\ IsInjective(unread')
          /\ unread' \in Seq(Uids) /\ unread' # <<>>
      BY <3>1, <3>2, ShortSeqs
    <3>4. EvalTyped'
      BY <1>0, <2>1, <3>1, <3>2, <3>3 DEF EvalTyped, Places
    <3>5. CallShape'
      BY <1>0, <2>1, <3>1, <3>3 DEF CallShape
    <3>6. OneAtATime' /\ Distinct'
      BY <1>0, <2>1, <3>1, <3>2, <3>3 DEF OneAtATime, Distinct
    <3> QED
      BY <3>4, <3>5, <3>6
  <2> QED
    BY <2>2, <2>3
<1>10. ASSUME EvalDies, rows' \in Seq(Row), unended' \in BOOLEAN, unended' => rows' # <<>>,
              ooms' \in Nat
       PROVE  Shape'
  <2>1. /\ place' = "down" /\ todo' = <<>> /\ batch' = <<>> /\ nth' = 0
        /\ unread' = <<>> /\ valid' = <<>>
    BY <1>10 DEF EvalDies
  <2>2. EvalTyped'
    BY <1>0, <1>10, <2>1 DEF EvalTyped, Places
  <2>3. CallShape' /\ OneAtATime' /\ Distinct'
    BY <1>0, <2>1, Zenon DEF CallShape, OneAtATime, Distinct
  <2> QED
    BY <2>2, <2>3
<1>11. CASE EvalKilled
  BY <1>0, <1>10, <1>11 DEF EvalKilled, EvalTyped
<1>12. CASE RowCut
  <2>1. PICK u \in Uids, text \in {"missing", "err", "ok"}, raw \in Raws :
          Writing(u, text) /\ Writes(u, raw)
    BY <1>0, <1>12, CutWrites
  <2>2. ooms' \in Nat
    BY <1>0, <2>1 DEF Writing, Raises, EvalTyped
  <2>3. EvalDies /\ unended' = TRUE
    BY <1>12 DEF RowCut
  <2> QED
    BY <1>0, <1>10, <2>1, <2>2, <2>3, WriteTyped
<1>13. CASE UNCHANGED evalVars
  <2>1. EvalTyped'
    BY <1>0, <1>13 DEF evalVars, EvalTyped
  <2>2. CallShape' /\ OneAtATime' /\ Distinct'
    BY <1>0, <1>13 DEF evalVars, CallShape, OneAtATime, Distinct
  <2> QED
    BY <2>1, <2>2
<1> QED
  BY <1>1, <1>2, <1>3, <1>4, <1>5, <1>6, <1>7, <1>8, <1>9, <1>11, <1>12, <1>13
     DEF EvalNext, EvalRuns

(***************************************************************************)
(* Steps that write no row.                                                *)
(***************************************************************************)
LEMMA SameRows ==
  ASSUME UNCHANGED rows
  PROVE  /\ \A u : RowsOf(u)' = RowsOf(u) /\ RowCount(u)' = RowCount(u)
         /\ Answered' = Answered /\ Unlucky' = Unlucky
         /\ (TornRow <=> TornRow') /\ (Undecodable <=> Undecodable')
BY DEF RowsOf, Parsed, RowCount, Answered, Unlucky, TornRow, Undecodable

\* In a batch that is repeated, the sample in hand is the one of this call.
LEMMA InCall ==
  ASSUME Shape
  PROVE  /\ InHand \subseteq Uids /\ Range(batch) \subseteq Uids /\ ToRepeat \subseteq Range(batch)
         /\ place = "write" => Head(valid) \in Range(valid)
         /\ place = "media" => Head(unread) \in Range(unread)
         /\ place \in {"generate", "write"} /\ nth > 0 =>
              batch[nth] \in Range(valid) /\ Range(valid) = {batch[nth]}
<1>1. /\ unread \in Seq(Uids) /\ valid \in Seq(Uids) /\ batch \in Seq(Uids)
      /\ nth \in 0 .. Len(batch)
  BY DEF Shape, EvalTyped
<1>2. /\ place = "write" => Head(valid) \in Range(valid)
      /\ place = "media" => Head(unread) \in Range(unread)
      /\ place \in {"generate", "write"} => Range(valid) # {}
  BY <1>1, HeadAndTail DEF Shape, CallShape
<1>3. Range(batch) = {batch[j] : j \in 1 .. Len(batch)}
  BY <1>1, ElementsTyped
<1>4. ToRepeat \subseteq Range(batch)
  <2>1. \A j \in nth + 1 .. Len(batch) : j \in 1 .. Len(batch)
    BY <1>1
  <2> QED
    BY <1>3, <2>1 DEF ToRepeat
<1>5. InHand \subseteq Uids /\ Range(batch) \subseteq Uids
  BY <1>1, ElementsTyped DEF InHand
<1>6. nth > 0 => Range(valid) \subseteq {batch[nth]}
  BY DEF Shape, OneAtATime, InHand
<1> QED
  BY <1>2, <1>4, <1>5, <1>6

(***************************************************************************)
(* RowBounds.                                                              *)
(***************************************************************************)

\* Whoever writes a row had fewer than the bound, and more so in a first pass.
LEMMA BoundsAfterWrite ==
  ASSUME Shape, RowBounds, NEW u \in Uids, NEW raw \in Raws, Writes(u, raw),
         RowCount(u) <= Before(u)
  PROVE  /\ \A v \in Uids : RowCount(v)' <= Before(v) + 1
         /\ \A v : v # u => RowCount(v)' <= RowCount(v)
<1>1. /\ \A v : RowCount(v) \in Nat /\ RowCount(v)' \in Nat
      /\ \A v : v # u => RowCount(v)' <= RowCount(v)
      /\ RowCount(u)' <= RowCount(u) + 1
  BY WrittenCount DEF Shape
<1> SUFFICES ASSUME NEW v \in Uids
             PROVE  RowCount(v)' <= Before(v) + 1
  BY <1>1
<1>2. RowCount(v) <= Before(v) + 1
  BY DEF RowBounds
<1>3. Before(v) + 1 \in Nat /\ Before(v) \in Nat
  BY DEF Before
<1>4. \A k, l, m \in Nat : k <= l /\ l <= m => k <= m
  OBVIOUS
<1>5. \A k, l, m \in Nat : k <= l + 1 /\ l <= m => k <= m + 1
  OBVIOUS
<1>6. CASE v = u
  BY <1>1, <1>3, <1>5, <1>6, Zenon
<1>7. CASE v # u
  BY <1>1, <1>2, <1>3, <1>4, <1>7, Zenon
<1> QED
  BY <1>6, <1>7

LEMMA AtMost ==
  \A k, l, m \in Nat : k <= l /\ l <= m => k <= m
OBVIOUS

LEMMA HandBound ==
  ASSUME Shape, RowBounds, NEW u \in InHand
  PROVE  /\ RowCount(u) <= Before(u) /\ u \in Uids /\ u \in Range(batch) /\ u \notin Range(todo)
         /\ nth = 0 => RowCount(u) <= 0
         /\ nth > 0 => u = batch[nth] /\ u \notin ToRepeat
<1>1. u \in Uids /\ u \in Range(batch) /\ u \notin Range(todo)
  BY InCall DEF Shape, OneAtATime, Distinct
<1>2. nth \in Nat /\ RowCount(u) \in Nat /\ Before(u) \in Nat
  BY CountTyped DEF Shape, EvalTyped, Before
<1>3. (nth = 0 => RowCount(u) <= 0) /\ (nth > 0 => RowCount(u) <= Before(u))
  BY DEF RowBounds
<1>4. RowCount(u) <= Before(u)
  BY <1>2, <1>3
<1>5. ASSUME nth > 0
      PROVE  u = batch[nth] /\ u \notin ToRepeat
  <2>1. u = batch[nth]
    BY <1>5 DEF Shape, OneAtATime
  <2>2. batch \in Seq(Uids) /\ IsInjective(batch) /\ nth \in 0 .. Len(batch)
    BY DEF Shape, EvalTyped, Distinct
  <2>3. \A j \in nth + 1 .. Len(batch) : batch[j] # batch[nth]
    BY <1>5, <2>2 DEF IsInjective
  <2> QED
    BY <2>1, <2>3 DEF ToRepeat
<1> QED
  BY <1>1, <1>3, <1>4, <1>5

LEMMA BoundsOnWrite ==
  ASSUME Shape, RowBounds, NEW u \in InHand, NEW raw \in Raws, Writes(u, raw),
         UNCHANGED <<todo, batch, nth>>, InHand' \subseteq InHand \ {u},
         place' \in {"media", "generate"} => place = "media" /\ u \in NoFrames
  PROVE  RowBounds'
<1>1. /\ u \in Uids /\ RowCount(u) <= Before(u) /\ u \notin Range(todo)
      /\ nth = 0 => RowCount(u) <= 0
      /\ nth > 0 => u \notin ToRepeat
  BY HandBound
<1>2. /\ \A v \in Uids : RowCount(v)' <= Before(v) + 1
      /\ \A v : v # u => RowCount(v)' <= RowCount(v)
  BY <1>1, BoundsAfterWrite
<1>3. /\ \A v : RowCount(v) \in Nat /\ RowCount(v)' \in Nat /\ Before(v) \in Nat
      /\ RowCount(u)' <= RowCount(u) + 1
      /\ \A v : Before(v)' = Before(v)
  BY <1>1, WrittenCount DEF Shape, Before
<1>4. \A v : v # u /\ RowCount(v) <= 0 => RowCount(v)' <= 0
  BY <1>2, <1>3, AtMost, Zenon
<1>5. \A v : v # u /\ RowCount(v) <= Before(v) => RowCount(v)' <= Before(v)
  BY <1>2, <1>3, AtMost, Zenon
<1>6. \A v \in Range(todo)' : RowCount(v)' <= 0
  BY <1>1, <1>4 DEF RowBounds
<1>7. nth' = 0 => \A v \in InHand' : RowCount(v)' <= 0
  BY <1>4 DEF RowBounds
<1>8. ASSUME nth' = 0, place' \in {"media", "generate"}
      PROVE  \A v \in Range(batch)' : RowCount(v)' <= Before(v)'
  <2>1. place = "media" /\ u \in NoFrames /\ nth = 0
    BY <1>8
  <2>2. \A v \in Range(batch) : RowCount(v) <= Before(v)
    BY <2>1 DEF RowBounds
  <2>3. RowCount(u)' <= Before(u)
    <3>1. \A k, l \in Nat : k <= l + 1 /\ l <= 0 => k <= 1
      OBVIOUS
    <3>2. Before(u) = 1
      BY <2>1 DEF Before
    <3> QED
      BY <1>1, <1>3, <2>1, <3>1, <3>2, Zenon
  <2>4. \A v \in Range(batch) : RowCount(v)' <= Before(v)
    BY <1>5, <2>2, <2>3, Zenon
  <2> QED
    BY <1>3, <2>4
<1>9. nth' > 0 => \A v \in InHand' \cup ToRepeat' : RowCount(v)' <= Before(v)'
  <2>1. ToRepeat' = ToRepeat
    BY DEF ToRepeat
  <2>2. nth > 0 => \A v \in InHand \cup ToRepeat : RowCount(v) <= Before(v)
    BY DEF RowBounds
  <2>3. nth > 0 => \A v \in InHand' \cup ToRepeat' : v # u /\ RowCount(v) <= Before(v)
    BY <1>1, <2>1, <2>2
  <2> QED
    BY <1>3, <1>5, <2>3
<1>10. \A v \in Uids : RowCount(v)' <= Before(v)' + 1
  BY <1>2, <1>3
<1> QED
  BY <1>6, <1>7, <1>8, <1>9, <1>10 DEF RowBounds

\* What a step without a write must show.
LEMMA BoundsOnSameRows ==
  ASSUME Shape, RowBounds, UNCHANGED rows,
         Range(todo)' \subseteq Range(todo) \cup (Uids \ Answered),
         nth' = 0 => InHand' \subseteq Range(todo) \cup (IF nth = 0 THEN InHand ELSE {}),
         nth' = 0 /\ place' \in {"media", "generate"} =>
           \/ Range(batch)' \subseteq Range(todo)
           \/ nth = 0 /\ place \in {"media", "generate"} /\ batch' = batch,
         nth' > 0 =>
           \/ nth > 0 /\ (InHand \cup ToRepeat)' \subseteq InHand \cup ToRepeat
           \/ nth = 0 /\ place = "generate" /\ (InHand \cup ToRepeat)' \subseteq Range(batch)
  PROVE  RowBounds'
<1>1. /\ \A u : RowCount(u)' = RowCount(u) /\ Before(u)' = Before(u)
      /\ \A u : RowCount(u) \in Nat /\ Before(u) \in Nat
  BY SameRows, CountTyped DEF Before, Shape
<1>2. \A u \in Uids \ Answered : RowCount(u) <= 0
  <2> SUFFICES ASSUME NEW u \in Uids \ Answered
               PROVE  RowCount(u) <= 0
    OBVIOUS
  <2>1. RowsOf(u) = {}
    BY DEF Answered
  <2>2. RowCount(u) = 0
    BY <2>1, FS_EmptySet DEF RowCount
  <2> QED
    BY <2>2
<1>3. \A u \in Range(todo) : RowCount(u) <= 0
  BY DEF RowBounds
<1>4. \A u : RowCount(u) <= 0 => RowCount(u) <= Before(u)
  BY <1>1
<1>5. \A u \in Uids : RowCount(u)' <= Before(u)' + 1
  BY <1>1 DEF RowBounds
<1>6. \A u \in Range(todo)' : RowCount(u)' <= 0
  BY <1>1, <1>2, <1>3
<1>7. nth' = 0 => \A u \in InHand' : RowCount(u)' <= 0
  <2>1. nth = 0 => \A u \in InHand : RowCount(u) <= 0
    BY DEF RowBounds
  <2> QED
    BY <1>1, <1>3, <2>1
<1>8. nth' = 0 /\ place' \in {"media", "generate"} =>
        \A u \in Range(batch)' : RowCount(u)' <= Before(u)'
  <2>1. nth = 0 /\ place \in {"media", "generate"} =>
          \A u \in Range(batch) : RowCount(u) <= Before(u)
    BY DEF RowBounds
  <2> QED
    BY <1>1, <1>3, <1>4, <2>1
<1>9. nth' > 0 => \A u \in InHand' \cup ToRepeat' : RowCount(u)' <= Before(u)'
  <2>1. nth > 0 => \A u \in InHand \cup ToRepeat : RowCount(u) <= Before(u)
    BY DEF RowBounds
  <2>2. nth = 0 /\ place = "generate" => \A u \in Range(batch) : RowCount(u) <= Before(u)
    BY DEF RowBounds
  <2> QED
    BY <1>1, <2>1, <2>2
<1> QED
  BY <1>5, <1>6, <1>7, <1>8, <1>9 DEF RowBounds

(***************************************************************************)
(* The steps that write a row.                                             *)
(***************************************************************************)

\* the step hands the sample over to the file ...
HandsOver(u) ==
  /\ place' # "down" /\ UNCHANGED <<todo, batch, nth>>
  /\ InHand = InHand' \cup {u} /\ u \notin InHand'
  /\ place' \in {"media", "generate"} => place = "media" /\ u \in NoFrames

\* ... or dies over it
LosesAll ==
  /\ place' = "down" /\ nth' = 0
  /\ todo' = <<>> /\ batch' = <<>> /\ unread' = <<>> /\ valid' = <<>>

WriteStep(u, raw) ==
  /\ place # "down" /\ Writes(u, raw)
  /\ raw = "missing" => u \in NoFrames
  /\ raw \in {"ok", "err"} => u \notin NoFrames
  /\ raw = "err" => u \in Broken \/ ooms' = ooms + 1
  /\ raw = "garbled" => place' = "down"
  /\ HandsOver(u) \/ LosesAll

ReadsFrames == ReadsMedia /\ Head(unread) \notin NoFrames

QuietStep ==
  /\ UNCHANGED rows
  /\ \/ EvalStarts \/ TakesBatch \/ EvalReturns \/ ReadsFrames \/ Generates
     \/ BatchFails \/ NextCall \/ EvalKilled \/ UNCHANGED evalVars

\* A print of a row is a write of that row, or spoils the row it is glued to.
LEMMA PrintIsWrite ==
  ASSUME Shape, NEW u, NEW raw \in {"ok", "missing", "err"}, Prints(u, raw)
  PROVE  \E r \in {raw, "torn"} : r \in Raws /\ Writes(u, r)
<1>1. unended \in BOOLEAN /\ raw \in Raws /\ "torn" \in Raws
  BY DEF Shape, EvalTyped, Raws
<1> QED
  BY <1>1, PrintsWrites

\* What a sample raises that is alone in its call comes of itself or of the memory.
LEMMA RaisedFor ==
  ASSUME Shape, place = "generate", nth > 0, Raises
  PROVE  /\ batch[nth] \in Range(valid) /\ batch[nth] \notin NoFrames
         /\ (batch[nth] \in Broken /\ ooms' = ooms) \/ ooms' = ooms + 1
<1> DEFINE u == batch[nth]
<1>1. Range(valid) = {u} /\ u \notin NoFrames /\ valid \in Seq(Uids)
  BY InCall DEF Shape, OneAtATime, EvalTyped
<1>2. HasBroken => u \in Broken
  <2>1. Range(valid) = {valid[i] : i \in 1 .. Len(valid)}
    BY <1>1, ElementsTyped
  <2> HIDE DEF u
  <2> QED
    BY <1>1, <2>1 DEF HasBroken
<1> QED
  BY <1>1, <1>2 DEF Raises

LEMMA WritingSteps ==
  ASSUME Shape, [EvalNext]_evalVars
  PROVE  /\ QuietStep \/ \E u \in InHand, raw \in Raws : WriteStep(u, raw)
         /\ ooms' = ooms \/ ooms' = ooms + 1
<1>0. /\ EvalTyped /\ CallShape /\ OneAtATime /\ Distinct
      /\ Range(<<>>) = {}
  BY ShortSeqs DEF Shape
<1>1. CASE EvalStarts \/ TakesBatch \/ EvalReturns \/ Generates \/ NextCall
  BY <1>1 DEF QuietStep, EvalStarts, TakesBatch, EvalReturns, Generates, NextCall
<1>2. CASE BatchFails
  BY <1>2 DEF QuietStep, BatchFails, Raises
<1>3. CASE ReadsMedia
  <2> DEFINE u == Head(unread)
  <2>1. /\ unread \in Seq(Uids) /\ unread # <<>> /\ IsInjective(unread)
        /\ Range(unread) \cap Range(valid) = {} /\ place = "media" /\ ooms' = ooms
    BY <1>0, <1>3 DEF ReadsMedia, EvalTyped, CallShape, Distinct
  <2>2. /\ u \in Uids /\ u \in Range(unread) /\ u \notin Range(valid)
        /\ Range(unread) = {u} \cup Range(Tail(unread)) /\ u \notin Range(Tail(unread))
    BY <2>1, HeadAndTail
  <2>3. CASE u \notin NoFrames
    BY <1>3, <2>1, <2>3 DEF QuietStep, ReadsFrames, ReadsMedia
  <2>4. CASE u \in NoFrames
    <3>1. /\ Prints(u, "missing") /\ valid' = valid /\ unread' = Tail(unread)
          /\ place' \in {"media", "next", "generate"}
          /\ UNCHANGED <<todo, batch, nth>>
      BY <1>3, <2>4 DEF ReadsMedia
    <3> HIDE DEF u
    <3>2. PICK raw \in {"missing", "torn"} : raw \in Raws /\ Writes(u, raw)
      BY <3>1, PrintIsWrite
    <3>3. HandsOver(u)
      BY <2>1, <2>2, <2>4, <3>1 DEF HandsOver, InHand
    <3>4. WriteStep(u, raw)
      BY <2>1, <2>4, <3>2, <3>3 DEF WriteStep
    <3> QED
      BY <2>1, <2>2, <3>2, <3>4 DEF InHand
  <2> QED
    BY <2>3, <2>4
<1>4. CASE SampleFails
  <2> DEFINE u == batch[nth]
  <2>1. /\ nth > 0 /\ place = "generate" /\ place' = "next" /\ valid' = <<>>
        /\ UNCHANGED <<todo, batch, nth, unread>>
        /\ Prints(u, "err") /\ Raises
    BY <1>4 DEF SampleFails
  <2>2. Range(valid) = {u} /\ unread = <<>> /\ u \notin NoFrames /\ valid \in Seq(Uids)
    BY <1>0, <2>1, InCall DEF CallShape, OneAtATime, EvalTyped
  <2>3. (u \in Broken /\ ooms' = ooms) \/ ooms' = ooms + 1
    BY <2>1, RaisedFor
  <2> HIDE DEF u
  <2>4. PICK raw \in {"err", "torn"} : raw \in Raws /\ Writes(u, raw)
    BY <2>1, PrintIsWrite
  <2>5. HandsOver(u)
    BY <1>0, <2>1, <2>2 DEF HandsOver, InHand
  <2>6. WriteStep(u, raw)
    BY <2>1, <2>2, <2>3, <2>4, <2>5 DEF WriteStep
  <2> QED
    BY <2>2, <2>3, <2>4, <2>6 DEF InHand
<1>5. CASE WritesRow
  <2> DEFINE u == Head(valid)
  <2>1. /\ place = "write" /\ valid' = Tail(valid) /\ place' \in {"next", "write"}
        /\ UNCHANGED <<todo, batch, nth, unread, ooms>> /\ Prints(u, "ok")
    BY <1>5 DEF WritesRow
  <2>2. /\ valid \in Seq(Uids) /\ valid # <<>> /\ IsInjective(valid) /\ unread = <<>>
        /\ Range(valid) \cap NoFrames = {}
    BY <1>0, <2>1 DEF EvalTyped, CallShape, Distinct, OneAtATime
  <2>3. /\ u \in Range(valid) /\ Range(valid) = {u} \cup Range(Tail(valid))
        /\ u \notin Range(Tail(valid)) /\ u \notin NoFrames
    BY <2>2, HeadAndTail
  <2> HIDE DEF u
  <2>4. PICK raw \in {"ok", "torn"} : raw \in Raws /\ Writes(u, raw)
    BY <2>1, PrintIsWrite
  <2>5. HandsOver(u)
    BY <1>0, <2>1, <2>2, <2>3 DEF HandsOver, InHand
  <2>6. WriteStep(u, raw)
    BY <2>1, <2>3, <2>4, <2>5 DEF WriteStep
  <2> QED
    BY <2>1, <2>3, <2>4, <2>6 DEF InHand
<1>6. CASE EvalKilled
  BY <1>6 DEF QuietStep, EvalKilled, EvalDies
<1>7. CASE RowCut
  <2>1. PICK u \in Uids, text \in {"missing", "err", "ok"}, raw \in Raws :
          Writing(u, text) /\ Writes(u, raw) /\ raw \in {"torn", "garbled", text}
    BY <1>7, CutWrites
  <2>2. place # "down" /\ place' = "down" /\ LosesAll
    BY <1>7 DEF RowCut, EvalDies, LosesAll
  <2>3. \A v \in Range(valid) : v \notin NoFrames
    BY <1>0 DEF OneAtATime
  <2>4. CASE place = "media" /\ u = Head(unread) /\ u \in NoFrames /\ text = "missing" /\ UNCHANGED ooms
    <3>1. u \in InHand
      BY <2>4, InCall DEF InHand
    <3>2. WriteStep(u, raw)
      BY <2>1, <2>2, <2>4 DEF WriteStep
    <3> QED
      BY <2>4, <3>1, <3>2
  <2>5. CASE place = "generate" /\ nth > 0 /\ Raises /\ u = batch[nth] /\ text = "err"
    <3>1. /\ u \in Range(valid) /\ u \notin NoFrames
          /\ (u \in Broken /\ ooms' = ooms) \/ ooms' = ooms + 1
      BY <2>5, RaisedFor
    <3>2. WriteStep(u, raw)
      BY <2>1, <2>2, <2>5, <3>1 DEF WriteStep
    <3> QED
      BY <3>1, <3>2 DEF InHand
  <2>6. CASE place = "write" /\ u = Head(valid) /\ text = "ok" /\ UNCHANGED ooms
    <3>1. u \in Range(valid)
      BY <2>6, InCall
    <3>2. WriteStep(u, raw)
      BY <2>1, <2>2, <2>3, <2>6, <3>1 DEF WriteStep
    <3> QED
      BY <2>6, <3>1, <3>2 DEF InHand
  <2> QED
    BY <2>1, <2>4, <2>5, <2>6 DEF Writing
<1>8. CASE UNCHANGED evalVars
  BY <1>8 DEF QuietStep, evalVars
<1> QED
  BY <1>1, <1>2, <1>3, <1>4, <1>5, <1>6, <1>7, <1>8 DEF EvalNext, EvalRuns

LEMMA BoundsAtDeath ==
  ASSUME Shape, RowBounds, LosesAll,
         \A v \in Uids : RowCount(v)' <= Before(v)' + 1
  PROVE  RowBounds'
<1>1. Range(todo') = {} /\ InHand' = {} /\ Range(batch') = {} /\ nth' = 0
  BY ShortSeqs DEF LosesAll, InHand
<1> QED
  BY <1>1 DEF RowBounds

LEMMA StepBounds == Shape /\ RowBounds /\ [EvalNext]_evalVars => RowBounds'
<1> SUFFICES ASSUME Shape, RowBounds, [EvalNext]_evalVars
             PROVE  RowBounds'
  OBVIOUS
<1>0. /\ EvalTyped /\ CallShape /\ OneAtATime /\ Distinct
      /\ Range(<<>>) = {}
  BY ShortSeqs DEF Shape
<1>1. CASE \E u \in InHand, raw \in Raws : WriteStep(u, raw)
  <2>1. PICK u \in InHand, raw \in Raws : WriteStep(u, raw)
    BY <1>1
  <2>2. u \in Uids /\ RowCount(u) <= Before(u) /\ Writes(u, raw)
    BY <2>1, HandBound DEF WriteStep
  <2>3. CASE HandsOver(u)
    BY <2>2, <2>3, BoundsOnWrite DEF HandsOver
  <2>4. CASE LosesAll
    <3>1. \A v \in Uids : RowCount(v)' <= Before(v) + 1
      BY <2>2, BoundsAfterWrite
    <3>2. \A v : Before(v)' = Before(v)
      BY DEF Before
    <3> QED
      BY <2>4, <3>1, <3>2, BoundsAtDeath
  <2> QED
    BY <2>1, <2>3, <2>4 DEF WriteStep
<1> SUFFICES ASSUME QuietStep
             PROVE  RowBounds'
  BY <1>1, WritingSteps
<1> USE DEF QuietStep
<1>2. CASE EvalStarts
  <2>1. /\ place' \in {"returned", "loop"} /\ nth' = 0
        /\ batch' = <<>> /\ unread' = <<>> /\ valid' = <<>>
        /\ Range(todo') = Uids \ Answered
    BY <1>2, Filtered DEF EvalStarts
  <2>2. InHand' = {}
    BY <1>0, <2>1 DEF InHand
  <2> QED
    BY <2>1, <2>2, BoundsOnSameRows
<1>3. CASE TakesBatch
  <2> DEFINE n == IF Len(todo) < BatchSize THEN Len(todo) ELSE BatchSize
  <2>1. todo \in Seq(Uids) /\ todo # <<>> /\ Len(todo) \in Nat
    BY <1>0, <1>3 DEF TakesBatch, EvalTyped
  <2>2. n \in 0 .. Len(todo)
    BY <2>1, ManifestTyped
  <2>3. /\ batch' = SubSeq(todo, 1, n) /\ todo' = SubSeq(todo, n + 1, Len(todo))
        /\ unread' = batch' /\ nth' = 0 /\ valid' = <<>>
    BY <1>3 DEF TakesBatch, Begin
  <2> HIDE DEF n
  <2>4. Range(batch') \cup Range(todo') = Range(todo)
    BY <2>1, <2>2, <2>3, CutInTwo
  <2>5. InHand' \subseteq Range(todo) /\ Range(batch)' \subseteq Range(todo)
    BY <1>0, <2>3, <2>4 DEF InHand
  <2> QED
    BY <2>3, <2>4, <2>5, BoundsOnSameRows
<1>4. CASE EvalReturns \/ Generates
  <2>1. UNCHANGED <<todo, batch, nth, unread, valid>> /\ place' \in {"returned", "write"}
    BY <1>4 DEF EvalReturns, Generates, callVars
  <2>2. InHand' = InHand /\ ToRepeat' = ToRepeat
    BY <2>1 DEF InHand, ToRepeat
  <2>3. nth \in Nat
    BY <1>0 DEF EvalTyped
  <2> QED
    BY <2>1, <2>2, <2>3, BoundsOnSameRows
<1>5. CASE ReadsFrames
  <2>1. /\ unread' = Tail(unread) /\ valid' = Append(valid, Head(unread))
        /\ UNCHANGED <<todo, batch, nth>> /\ place = "media"
    BY <1>5 DEF ReadsFrames, ReadsMedia
  <2>2. /\ unread \in Seq(Uids) /\ unread # <<>> /\ valid \in Seq(Uids) /\ nth \in Nat
    BY <1>0, <2>1 DEF CallShape, EvalTyped
  <2>3. /\ Range(unread) = {Head(unread)} \cup Range(Tail(unread))
        /\ Range(Append(valid, Head(unread))) = Range(valid) \cup {Head(unread)}
    BY <2>2, HeadAndTail, OneMore
  <2>4. InHand' \subseteq InHand /\ ToRepeat' = ToRepeat
    BY <2>1, <2>3 DEF InHand, ToRepeat
  <2> QED
    BY <2>1, <2>2, <2>4, BoundsOnSameRows
<1>6. CASE BatchFails
  <2>1. /\ nth = 0 /\ nth' = 1 /\ unread' = <<batch[1]>> /\ valid' = <<>>
        /\ UNCHANGED <<todo, batch>> /\ place = "generate"
    BY <1>6 DEF BatchFails, Begin
  <2>2. batch \in Seq(Uids) /\ batch # <<>>
    BY <1>0, <2>1 DEF CallShape, EvalTyped
  <2>3. Range(batch) = {batch[j] : j \in 1 .. Len(batch)} /\ 1 \in 1 .. Len(batch)
    BY <2>2, ElementsTyped
  <2>4. InHand' = {batch[1]}
    BY <1>0, <2>1, ShortSeqs DEF InHand
  <2>5. ToRepeat' = {batch[j] : j \in 2 .. Len(batch)}
    BY <2>1 DEF ToRepeat
  <2>6. (InHand \cup ToRepeat)' \subseteq Range(batch)
    BY <2>2, <2>3, <2>4, <2>5
  <2> QED
    BY <2>1, <2>6, BoundsOnSameRows
<1>7. CASE NextCall
  <2>1. /\ place = "next" /\ unread = <<>> /\ valid = <<>> /\ todo' = todo
    BY <1>0, <1>7 DEF NextCall, CallShape
  <2>2. CASE nth \in {0, Len(batch)}
    <3>1. place' = "loop" /\ nth' = 0 /\ UNCHANGED <<unread, valid>>
      BY <1>7, <2>2 DEF NextCall
    <3>2. InHand' = {}
      BY <1>0, <2>1, <3>1 DEF InHand
    <3> QED
      BY <2>1, <3>1, <3>2, BoundsOnSameRows
  <2>3. CASE nth \notin {0, Len(batch)}
    <3>1. /\ nth' = nth + 1 /\ unread' = <<batch[nth + 1]>> /\ valid' = <<>>
          /\ UNCHANGED batch
      BY <1>7, <2>3 DEF NextCall, Begin
    <3>2. nth \in Nat /\ nth > 0 /\ nth + 1 \in nth + 1 .. Len(batch) /\ Len(batch) \in Nat
      BY <1>0, <2>3 DEF EvalTyped
    <3>3. InHand' = {batch[nth + 1]}
      BY <1>0, <3>1, ShortSeqs DEF InHand
    <3>4. ToRepeat' = {batch[j] : j \in nth + 2 .. Len(batch)}
      BY <3>1, <3>2 DEF ToRepeat
    <3>5. \A j \in nth + 2 .. Len(batch) : j \in nth + 1 .. Len(batch)
      BY <3>2
    <3>6. (InHand \cup ToRepeat)' \subseteq ToRepeat
      BY <3>2, <3>3, <3>4, <3>5 DEF ToRepeat
    <3> QED
      BY <2>1, <3>1, <3>2, <3>6, BoundsOnSameRows
  <2> QED
    BY <2>2, <2>3
<1>8. CASE EvalKilled
  <2>1. LosesAll
    BY <1>8 DEF EvalKilled, EvalDies, LosesAll
  <2>2. \A v \in Uids : RowCount(v)' <= Before(v)' + 1
    BY SameRows DEF RowBounds, Before
  <2> QED
    BY <2>1, <2>2, BoundsAtDeath
<1>9. CASE UNCHANGED evalVars
  <2>1. UNCHANGED <<todo, batch, nth, unread, valid, place>>
    BY <1>9 DEF evalVars
  <2>2. InHand' = InHand /\ ToRepeat' = ToRepeat
    BY <2>1 DEF InHand, ToRepeat
  <2>3. nth \in Nat
    BY <1>0 DEF EvalTyped
  <2> QED
    BY <2>1, <2>2, <2>3, BoundsOnSameRows
<1> QED
  BY <1>2, <1>3, <1>4, <1>5, <1>6, <1>7, <1>8, <1>9

(***************************************************************************)
(* The rest of the invariant.                                              *)
(***************************************************************************)

\* A row that a write adds is read back as what was written.
LEMMA NewRow ==
  ASSUME Shape, NEW u \in InHand, NEW raw \in Raws, WriteStep(u, raw),
         NEW v, NEW i \in RowsOf(v)', i \notin RowsOf(v) \/ rows'[i] # rows[i]
  PROVE  v = u /\ ~unended /\ rows'[i].raw = raw /\ raw \in {"ok", "missing", "err"}
<1>1. u \in Uids /\ EvalTyped
  BY InCall DEF Shape
<1>2. v = u /\ i = Len(rows) + 1 /\ ~unended /\ rows'[i].raw = raw
  BY <1>1, WrittenRows DEF WriteStep
<1>3. raw \notin {"torn", "garbled"}
  BY <1>2 DEF RowsOf, Parsed
<1> QED
  BY <1>2, <1>3 DEF Raws

LEMMA StepMissing == Shape /\ MissingRows /\ [EvalNext]_evalVars => MissingRows'
<1> SUFFICES ASSUME Shape, MissingRows, [EvalNext]_evalVars
             PROVE  MissingRows'
  OBVIOUS
<1>1. CASE UNCHANGED rows
  BY <1>1, SameRows DEF MissingRows
<1>2. CASE \E u \in InHand, raw \in Raws : WriteStep(u, raw)
  <2>1. PICK u \in InHand, raw \in Raws : WriteStep(u, raw)
    BY <1>2
  <2> SUFFICES ASSUME NEW v \in NoFrames, NEW i \in RowsOf(v)'
               PROVE  rows'[i].raw = "missing"
    BY DEF MissingRows
  <2>2. CASE i \in RowsOf(v) /\ rows'[i] = rows[i]
    BY <2>2 DEF MissingRows
  <2>3. CASE i \notin RowsOf(v) \/ rows'[i] # rows[i]
    BY <2>1, <2>3, NewRow DEF WriteStep
  <2> QED
    BY <2>2, <2>3
<1> QED
  BY <1>1, <1>2, WritingSteps DEF QuietStep

LEMMA UidsFinite == IsFiniteSet(Uids)
<1> DEFINE f == [i \in 1 .. Len(Manifest) |-> Manifest[i]]
<1>1. IsFiniteSet(1 .. Len(Manifest))
  BY ManifestTyped, FS_Interval
<1>2. f \in Surjection(1 .. Len(Manifest), Uids)
  BY DEF Surjection, Uids
<1> QED
  BY <1>1, <1>2, FS_Surjection

LEMMA StepErrors == Shape /\ ErrorsCounted /\ [EvalNext]_evalVars => ErrorsCounted'
<1> SUFFICES ASSUME Shape, ErrorsCounted, [EvalNext]_evalVars
             PROVE  ErrorsCounted'
  OBVIOUS
<1>1. /\ IsFiniteSet(Unlucky) /\ Cardinality(Unlucky) \in Nat /\ ooms \in Nat
      /\ Cardinality(Unlucky) <= ooms
  <2>1. Unlucky \in SUBSET Uids
    BY DEF Unlucky
  <2>2. IsFiniteSet(Unlucky)
    BY <2>1, UidsFinite, FS_Subset
  <2> QED
    BY <2>2, FS_CardinalityType DEF ErrorsCounted, Shape, EvalTyped
<1>2. ASSUME Unlucky' \subseteq Unlucky, ooms' = ooms \/ ooms' = ooms + 1
      PROVE  ErrorsCounted'
  <2>1. Unlucky' \in SUBSET Unlucky
    BY <1>2
  <2>2. IsFiniteSet(Unlucky') /\ Cardinality(Unlucky') <= Cardinality(Unlucky)
    BY <1>1, <2>1, FS_Subset
  <2>3. Cardinality(Unlucky') \in Nat
    BY <2>2, FS_CardinalityType
  <2>4. Cardinality(Unlucky') <= ooms
    BY <1>1, <2>2, <2>3, AtMost, Zenon
  <2>5. Cardinality(Unlucky') <= ooms'
    <3> DEFINE k == Cardinality(Unlucky')
    <3>1. k \in Nat /\ k <= ooms
      BY <2>3, <2>4
    <3> HIDE DEF k
    <3>2. k <= ooms'
      BY <1>1, <1>2, <3>1
    <3> QED
      BY <3>2 DEF k
  <2> QED
    BY <2>5 DEF ErrorsCounted
<1>3. CASE UNCHANGED rows
  BY <1>2, <1>3, SameRows, WritingSteps
<1>4. CASE \E u \in InHand, raw \in Raws : WriteStep(u, raw)
  <2>1. PICK u \in InHand, raw \in Raws : WriteStep(u, raw)
    BY <1>4
  <2>2. ASSUME NEW v \in Unlucky', v \notin Unlucky
        PROVE  v = u /\ u \notin Broken /\ raw = "err"
    <3>1. PICK i \in RowsOf(v)' : rows'[i].raw = "err"
      BY DEF Unlucky
    <3>2. v \in Uids \ Broken
      BY DEF Unlucky
    <3>3. i \notin RowsOf(v) \/ rows'[i] # rows[i]
      BY <2>2, <3>1, <3>2 DEF Unlucky
    <3>4. v = u /\ rows'[i].raw = raw
      BY <2>1, <3>3, NewRow
    <3> QED
      BY <3>1, <3>2, <3>4
  <2>3. CASE raw = "err" /\ u \notin Broken
    <3>1. ooms' = ooms + 1
      BY <2>1, <2>3 DEF WriteStep
    <3> DEFINE more == Unlucky \cup {u}
    <3>2. Unlucky' \in SUBSET more
      BY <2>2
    <3>3. IsFiniteSet(more) /\ Cardinality(more) \in {Cardinality(Unlucky), Cardinality(Unlucky) + 1}
      BY <1>1, FS_AddElement
    <3> HIDE DEF more
    <3>4. Cardinality(more) \in Nat
      BY <3>3, FS_CardinalityType
    <3>5. IsFiniteSet(Unlucky') /\ Cardinality(Unlucky') <= Cardinality(more)
      BY <3>2, <3>3, FS_Subset
    <3>6. Cardinality(Unlucky') \in Nat
      BY <3>5, FS_CardinalityType
    <3>7. \A k, l, m, o \in Nat : k <= m /\ m \in {l, l + 1} /\ l <= o => k <= o + 1
      OBVIOUS
    <3>8. Cardinality(Unlucky') <= ooms + 1
      BY <1>1, <3>3, <3>4, <3>5, <3>6, <3>7, Zenon
    <3> QED
      BY <3>1, <3>8 DEF ErrorsCounted
  <2>4. CASE ~(raw = "err" /\ u \notin Broken)
    BY <1>2, <2>2, <2>4, WritingSteps
  <2> QED
    BY <2>3, <2>4
<1> QED
  BY <1>3, <1>4, WritingSteps DEF QuietStep

\* Nothing but a start gets on from there, and a start reads the file first.
LEMMA StepReadable == Shape /\ Readable /\ [EvalNext]_evalVars => Readable'
<1> SUFFICES ASSUME Shape, Readable, [EvalNext]_evalVars, Undecodable'
             PROVE  place' = "down"
  BY DEF Readable
<1>1. CASE QuietStep
  <2>1. Undecodable
    BY <1>1, SameRows DEF QuietStep
  <2>2. place = "down"
    BY <2>1 DEF Readable
  <2> QED
    BY <1>1, <2>1, <2>2
       DEF QuietStep, EvalStarts, TakesBatch, EvalReturns, ReadsFrames, ReadsMedia,
           Generates, BatchFails, NextCall, EvalKilled, EvalDies, evalVars
<1>2. CASE \E u \in InHand, raw \in Raws : WriteStep(u, raw)
  <2>1. PICK u \in InHand, raw \in Raws : WriteStep(u, raw)
    BY <1>2
  <2>2. u \in Uids /\ EvalTyped /\ Writes(u, raw)
    BY <2>1, InCall DEF Shape, WriteStep
  <2>3. PICK i \in 1 .. Len(rows') : rows'[i].raw = "garbled"
    BY DEF Undecodable
  <2>4. rows'[i].raw = raw \/ (i \in 1 .. Len(rows) /\ rows'[i] = rows[i])
    BY <2>2, <2>3, WrittenRows
  <2>5. CASE i \in 1 .. Len(rows) /\ rows'[i] = rows[i]
    <3>1. Undecodable
      BY <2>3, <2>5 DEF Undecodable
    <3> QED
      BY <2>1, <3>1 DEF Readable, WriteStep
  <2>6. CASE rows'[i].raw = raw
    BY <2>1, <2>3, <2>6 DEF WriteStep
  <2> QED
    BY <2>4, <2>5, <2>6
<1> QED
  BY <1>1, <1>2, WritingSteps

\* the samples whose turn is still to come
ToCome == Range(todo) \cup InHand \cup (IF nth > 0 THEN ToRepeat ELSE {})

LEMMA CoveredSays ==
  Covered <=> (place # "down" => \A u \in Uids : u \in Answered \/ TornRow \/ u \in ToCome)
BY DEF Covered, ToCome

LEMMA WriteCovers ==
  ASSUME Shape, NEW u \in InHand, NEW raw \in Raws, WriteStep(u, raw), HandsOver(u)
  PROVE  /\ ToCome \subseteq ToCome' \cup {u}
         /\ TornRow => TornRow'
         /\ \A v \in Answered : v \in Answered' \/ TornRow'
         /\ u \in Answered' \/ TornRow'
<1>1. u \in Uids /\ EvalTyped /\ Writes(u, raw) /\ unended \in BOOLEAN /\ rows \in Seq(Row)
  BY InCall DEF Shape, WriteStep, EvalTyped
<1>2. ToCome \subseteq ToCome' \cup {u}
  <2>1. InHand = InHand' \cup {u} /\ todo' = todo /\ batch' = batch /\ nth' = nth
    BY DEF HandsOver
  <2>2. ToRepeat' = ToRepeat
    BY <2>1 DEF ToRepeat
  <2> QED
    BY <2>1, <2>2 DEF ToCome
<1>3. raw # "garbled"
  BY DEF WriteStep, HandsOver
<1>4. raw = "torn" => TornRow'
  BY <1>1, WrittenRows DEF TornRow
<1>5. CASE unended
  <2>1. raw = "torn"
    BY <1>1, <1>3, <1>5 DEF Writes
  <2> QED
    BY <1>2, <1>4, <2>1
<1>6. CASE ~unended
  <2>1. \A i \in 1 .. Len(rows) : i \in 1 .. Len(rows') /\ rows'[i] = rows[i]
    BY <1>1, <1>6, WrittenRows
  <2>2. TornRow => TornRow'
    BY <2>1 DEF TornRow
  <2>3. \A v : RowsOf(v) \subseteq RowsOf(v)'
    BY <1>1, <1>6, WrittenRows
  <2>4. Answered \subseteq Answered'
    BY <2>3 DEF Answered
  <2>5. raw # "torn" => u \in Answered'
    <3>1. raw # "torn" => Len(rows) + 1 \in RowsOf(u)'
      BY <1>1, <1>3, <1>6, WrittenRows
    <3> QED
      BY <1>1, <3>1 DEF Answered
  <2> QED
    BY <1>2, <1>4, <2>2, <2>4, <2>5
<1> QED
  BY <1>1, <1>5, <1>6

\* No step forgets a sample.
LEMMA StepCovered == Shape /\ Covered /\ [EvalNext]_evalVars => Covered'
<1> SUFFICES ASSUME Shape, Covered, [EvalNext]_evalVars, place' # "down"
             PROVE  \A v \in Uids : v \in Answered' \/ TornRow' \/ v \in ToCome'
  BY CoveredSays DEF Covered, ToCome
<1>0. /\ EvalTyped /\ CallShape /\ OneAtATime /\ Distinct
      /\ Range(<<>>) = {}
  BY ShortSeqs DEF Shape
<1>1. CASE \E u \in InHand, raw \in Raws : WriteStep(u, raw)
  <2>1. PICK u \in InHand, raw \in Raws : WriteStep(u, raw)
    BY <1>1
  <2>2. HandsOver(u) /\ place # "down"
    BY <2>1 DEF WriteStep, LosesAll
  <2>3. \A v \in Uids : v \in Answered \/ TornRow \/ v \in ToCome
    BY <2>2, CoveredSays
  <2> QED
    BY <2>1, <2>2, <2>3, WriteCovers
<1>2. ASSUME UNCHANGED rows, place # "down", ToCome \subseteq ToCome'
      PROVE  \A v \in Uids : v \in Answered' \/ TornRow' \/ v \in ToCome'
  BY <1>2, SameRows, CoveredSays
<1> SUFFICES ASSUME QuietStep
             PROVE  \A v \in Uids : v \in Answered' \/ TornRow' \/ v \in ToCome'
  BY <1>1, WritingSteps
<1> USE DEF QuietStep
<1>3. CASE EvalStarts
  <2>1. Range(todo') = Uids \ Answered
    BY <1>3, Filtered
  <2>2. Answered' = Answered
    BY SameRows
  <2> QED
    BY <2>1, <2>2 DEF ToCome
<1>4. CASE TakesBatch
  <2> DEFINE n == IF Len(todo) < BatchSize THEN Len(todo) ELSE BatchSize
  <2>1. todo \in Seq(Uids) /\ todo # <<>> /\ Len(todo) \in Nat /\ place = "loop"
    BY <1>0, <1>4 DEF TakesBatch, EvalTyped
  <2>2. n \in 0 .. Len(todo)
    BY <2>1, ManifestTyped
  <2>3. /\ batch' = SubSeq(todo, 1, n) /\ todo' = SubSeq(todo, n + 1, Len(todo))
        /\ unread' = batch' /\ nth' = 0 /\ valid' = <<>>
    BY <1>4 DEF TakesBatch, Begin
  <2> HIDE DEF n
  <2>4. Range(batch') \cup Range(todo') = Range(todo)
    BY <2>1, <2>2, <2>3, CutInTwo
  <2>5. InHand = {} /\ nth = 0
    <3>1. unread = <<>> /\ valid = <<>> /\ batch = <<>>
      BY <1>0, <2>1 DEF CallShape
    <3> QED
      BY <1>0, <3>1 DEF InHand, EvalTyped
  <2>6. ToCome \subseteq ToCome'
    BY <1>0, <2>3, <2>4, <2>5 DEF ToCome, InHand
  <2> QED
    BY <1>2, <2>1, <2>6
<1>5. CASE EvalReturns \/ Generates \/ UNCHANGED evalVars
  <2>1. UNCHANGED <<todo, batch, nth, unread, valid>> /\ (place = "down" => place' = place)
    BY <1>5 DEF EvalReturns, Generates, callVars, evalVars
  <2>2. InHand' = InHand /\ ToRepeat' = ToRepeat
    BY <2>1 DEF InHand, ToRepeat
  <2>3. ToCome \subseteq ToCome' /\ place # "down"
    BY <2>1, <2>2 DEF ToCome
  <2> QED
    BY <1>2, <2>3
<1>6. CASE ReadsFrames
  <2>1. /\ unread' = Tail(unread) /\ valid' = Append(valid, Head(unread))
        /\ UNCHANGED <<todo, batch, nth>> /\ place = "media"
    BY <1>6 DEF ReadsFrames, ReadsMedia
  <2>2. unread \in Seq(Uids) /\ unread # <<>> /\ valid \in Seq(Uids)
    BY <1>0, <2>1 DEF CallShape, EvalTyped
  <2>3. /\ Range(unread) = {Head(unread)} \cup Range(Tail(unread))
        /\ Range(Append(valid, Head(unread))) = Range(valid) \cup {Head(unread)}
    BY <2>2, HeadAndTail, OneMore
  <2>4. InHand' = InHand /\ ToRepeat' = ToRepeat
    BY <2>1, <2>3 DEF InHand, ToRepeat
  <2> QED
    BY <1>2, <2>1, <2>4 DEF ToCome
<1>7. CASE BatchFails
  <2>1. /\ nth = 0 /\ nth' = 1 /\ unread' = <<batch[1]>> /\ valid' = <<>>
        /\ UNCHANGED <<todo, batch>> /\ place = "generate"
    BY <1>7 DEF BatchFails, Begin
  <2>2. batch \in Seq(Uids) /\ Len(batch) \in Nat
    BY <1>0 DEF EvalTyped
  <2>3. Range(batch) = {batch[j] : j \in 1 .. Len(batch)}
    BY <2>2, ElementsTyped
  <2>4. InHand' = {batch[1]} /\ InHand \subseteq Range(batch)
    BY <1>0, <2>1, ShortSeqs DEF InHand, OneAtATime
  <2>5. ToRepeat' = {batch[j] : j \in 2 .. Len(batch)}
    BY <2>1 DEF ToRepeat
  <2>6. \A j \in 1 .. Len(batch) : j = 1 \/ j \in 2 .. Len(batch)
    BY <2>2
  <2>7. Range(batch) \subseteq InHand' \cup ToRepeat'
    BY <2>3, <2>4, <2>5, <2>6
  <2> QED
    BY <1>2, <2>1, <2>4, <2>7 DEF ToCome
<1>8. CASE NextCall
  <2>1. /\ place = "next" /\ unread = <<>> /\ valid = <<>> /\ todo' = todo
    BY <1>0, <1>8 DEF NextCall, CallShape
  <2>2. nth \in 0 .. Len(batch) /\ Len(batch) \in Nat /\ InHand = {}
    BY <1>0, <2>1 DEF EvalTyped, InHand
  <2>3. CASE nth \in {0, Len(batch)}
    <3>1. nth > 0 => ToRepeat = {}
      BY <2>2, <2>3 DEF ToRepeat
    <3> QED
      BY <1>2, <2>1, <2>2, <3>1 DEF ToCome
  <2>4. CASE nth \notin {0, Len(batch)}
    <3>1. /\ nth' = nth + 1 /\ unread' = <<batch[nth + 1]>> /\ batch' = batch
      BY <1>8, <2>4 DEF NextCall, Begin
    <3>2. batch[nth + 1] \in InHand'
      BY <3>1, ShortSeqs DEF InHand
    <3>3. ToRepeat' = {batch[j] : j \in nth + 2 .. Len(batch)}
      BY <2>2, <3>1 DEF ToRepeat
    <3>4. \A j \in nth + 1 .. Len(batch) : j = nth + 1 \/ j \in nth + 2 .. Len(batch)
      BY <2>2
    <3>5. ToRepeat \subseteq ToRepeat' \cup InHand'
      BY <3>2, <3>3, <3>4 DEF ToRepeat
    <3>6. nth' > 0
      BY <2>2, <3>1
    <3> QED
      BY <1>2, <2>1, <2>2, <3>5, <3>6 DEF ToCome
  <2> QED
    BY <2>3, <2>4
<1>9. CASE EvalKilled
  BY <1>9 DEF EvalKilled, EvalDies
<1> QED
  BY <1>3, <1>4, <1>5, <1>6, <1>7, <1>8, <1>9

LEMMA InitEvalInv == EvalInit => EvalInv
<1> SUFFICES ASSUME EvalInit
             PROVE  EvalInv
  OBVIOUS
<1>1. /\ rows = <<>> /\ unended = FALSE /\ place = "down" /\ todo = <<>> /\ batch = <<>>
      /\ nth = 0 /\ unread = <<>> /\ valid = <<>> /\ ooms = 0
  BY DEF EvalInit
<1>2. /\ Range(<<>>) = {} /\ IsInjective(<<>>) /\ Len(<<>>) = 0
      /\ \A S : <<>> \in Seq(S)
  BY ShortSeqs
<1>3. InHand = {} /\ Range(todo) = {} /\ Range(batch) = {} /\ Range(valid) = {}
  BY <1>1, <1>2 DEF InHand
<1>4. \A u : RowsOf(u) = {} /\ RowCount(u) = 0
  <2>1. \A u : RowsOf(u) = {}
    BY <1>1, <1>2 DEF RowsOf
  <2> QED
    BY <2>1, FS_EmptySet DEF RowCount
<1>5. EvalTyped
  <2>1. rows \in Seq(Row) /\ nth \in 0 .. Len(batch) /\ place \in Places /\ ooms \in Nat
    <3> HIDE DEF Row
    <3> QED
      BY <1>1, <1>2 DEF Places
  <2>2. todo \in Seq(Uids) /\ batch \in Seq(Uids) /\ unread \in Seq(Uids) /\ valid \in Seq(Uids)
    BY <1>1, <1>2
  <2> QED
    BY <1>1, <2>1, <2>2 DEF EvalTyped
<1>6. CallShape /\ OneAtATime /\ Distinct
  BY <1>1, <1>2, <1>3, Zenon DEF CallShape, OneAtATime, Distinct
<1>7. RowBounds
  BY <1>1, <1>3, <1>4 DEF RowBounds, Before
<1>8. MissingRows /\ Unlucky = {}
  BY <1>4 DEF MissingRows, Unlucky
<1>9. ErrorsCounted
  BY <1>1, <1>8, FS_EmptySet DEF ErrorsCounted
<1>10. Readable /\ Covered
  BY <1>1 DEF Readable, Covered
<1> QED
  BY <1>5, <1>6, <1>7, <1>8, <1>9, <1>10 DEF EvalInv

LEMMA NextEvalInv == EvalInv /\ [EvalNext]_evalVars => EvalInv'
BY StepShape, StepBounds, StepMissing, StepErrors, StepReadable, StepCovered
   DEF EvalInv, Shape

LEMMA AlwaysEvalInv == EvalSpec => []EvalInv
BY InitEvalInv, NextEvalInv, PTL DEF EvalSpec

\* eval/score.py:19: the last of the rows of a sample is one of them.
LEMMA LastRow ==
  ASSUME NEW n \in Nat, NEW S \in SUBSET (1 .. n), S # {}
  PROVE  (CHOOSE i \in S : \A j \in S : j <= i) \in S
<1> DEFINE list == Ascending(S)
           m == Cardinality(S)
<1>1. IsFiniteSet(S)
  <2>1. IsFiniteSet(1 .. n)
    BY FS_Interval
  <2> QED
    BY <2>1, FS_Subset
<1>2. S \in SUBSET Nat
  OBVIOUS
<1>3. /\ m \in Nat /\ list \in [1 .. m -> S]
      /\ \A j, k \in 1 .. m : j < k => list[j] < list[k]
      /\ \A x \in S : \E k \in 1 .. m : list[k] = x
  BY ONLY <1>1, <1>2, AscendingProperties
<1>4. m # 0
  BY <1>1, FS_EmptySet
<1> HIDE DEF list, m
<1>5. m \in 1 .. m /\ list[m] \in S
  BY <1>3, <1>4
<1>6. \A j \in S : j <= list[m]
  <2> SUFFICES ASSUME NEW j \in S
               PROVE  j <= list[m]
    OBVIOUS
  <2>1. PICK k \in 1 .. m : list[k] = j
    BY <1>3
  <2>2. k < m => list[k] < list[m]
    BY <1>3, <1>5
  <2>3. k = m \/ k < m
    BY <1>3
  <2>4. j \in Nat /\ list[m] \in Nat
    BY <1>2, <1>5
  <2> QED
    BY <2>1, <2>2, <2>3, <2>4
<1> QED
  BY <1>5, <1>6

\* Aggregation that does not remove duplicates counts a sample once, or twice
\* when it has no frames: for shards, batches, failures and kills of any number.
THEOREM OneRowPerSample == EvalSpec => []RowsPerSample
<1>1. EvalInv => RowsPerSample
  <2> SUFFICES ASSUME EvalInv, NEW u \in Uids
               PROVE  Cardinality(RowsOf(u)) <= IF u \in NoFrames THEN 2 ELSE 1
    BY DEF RowsPerSample
  <2>1. RowCount(u) <= Before(u) + 1
    BY DEF EvalInv, RowBounds
  <2>2. Before(u) + 1 = IF u \in NoFrames THEN 2 ELSE 1
    BY DEF Before
  <2> QED
    BY <2>1, <2>2 DEF RowCount
<1> QED
  BY <1>1, AlwaysEvalInv, PTL

\* run_eval.py:267: a shard that says DONE has left out no sample, however often
\* it was killed and resumed, unless a row was spoilt by a kill.
THEOREM DoneIsComplete == EvalSpec => []DoneMeansAnswered
<1>1. EvalInv => DoneMeansAnswered
  <2> SUFFICES ASSUME EvalInv, place = "returned", ~TornRow
               PROVE  Answered = Uids
    BY DEF DoneMeansAnswered, TornRow
  <2>1. todo = <<>> /\ batch = <<>> /\ unread = <<>> /\ valid = <<>> /\ nth = 0
    BY DEF EvalInv, CallShape, EvalTyped
  <2>2. Range(todo) = {} /\ InHand = {}
    BY <2>1, ShortSeqs DEF InHand
  <2>3. \A u \in Uids : u \in Answered
    BY <2>1, <2>2 DEF EvalInv, Covered
  <2> QED
    BY <2>3 DEF Answered
<1> QED
  BY <1>1, AlwaysEvalInv, PTL

\* run_eval.py:253: samples that score as errors and are not broken themselves
\* are no more than the times a call ran out of memory.
THEOREM NoErrorSpreads == EvalSpec => []ErrorsIsolated
<1>1. EvalInv => ErrorsIsolated
  <2> SUFFICES ASSUME EvalInv
               PROVE  ErrorsIsolated
    OBVIOUS
  <2> DEFINE bad == {u \in Uids \ Broken : Verdict(u) = "err"}
  <2>1. IsFiniteSet(Unlucky) /\ Cardinality(Unlucky) <= ooms /\ ooms \in Nat
    <3>1. Unlucky \in SUBSET Uids
      BY DEF Unlucky
    <3> QED
      BY <3>1, UidsFinite, FS_Subset DEF EvalInv, ErrorsCounted, EvalTyped
  <2>2. ASSUME NEW u \in bad
        PROVE  u \in Unlucky
    <3> DEFINE last == CHOOSE i \in RowsOf(u) : \A j \in RowsOf(u) : j <= i
    <3>1. RowsOf(u) # {} /\ rows[last].raw = "err"
      BY DEF Verdict
    <3>2. RowsOf(u) \in SUBSET (1 .. Len(rows)) /\ Len(rows) \in Nat
      BY DEF RowsOf, EvalInv, EvalTyped
    <3>3. last \in RowsOf(u)
      BY <3>1, <3>2, LastRow
    <3> HIDE DEF last
    <3> QED
      BY <3>1, <3>3 DEF Unlucky
  <2>3. bad \in SUBSET Unlucky
    BY <2>2
  <2> HIDE DEF bad
  <2>4. IsFiniteSet(bad) /\ Cardinality(bad) <= Cardinality(Unlucky)
    BY <2>1, <2>3, FS_Subset
  <2>5. Cardinality(bad) \in Nat /\ Cardinality(Unlucky) \in Nat
    BY <2>1, <2>4, FS_CardinalityType
  <2>6. Cardinality(bad) <= ooms
    BY <2>1, <2>4, <2>5, AtMost, Zenon
  <2> QED
    BY <2>6 DEF ErrorsIsolated, bad
<1> QED
  BY <1>1, AlwaysEvalInv, PTL

\* eval/score.py:19: "last wins" decides nothing, whatever overlaps on resume: a
\* sample that gets a second row has no frames, and both of its rows say so.
THEOREM VerdictsStand == EvalSpec => VerdictStays
<1>1. EvalInv /\ [EvalNext]_evalVars =>
        [\A u \in Uids : Verdict(u) # "none" => Verdict(u)' = Verdict(u) \/ unended]_evalVars
  <2> SUFFICES ASSUME EvalInv, [EvalNext]_evalVars, ~unended,
                      NEW v \in Uids, Verdict(v) # "none"
               PROVE  Verdict(v)' = Verdict(v)
    OBVIOUS
  <2>1. Shape /\ MissingRows /\ RowBounds
    BY DEF EvalInv, Shape
  <2>2. MissingRows'
    BY <2>1, StepMissing
  <2>3. rows \in Seq(Row) /\ rows' \in Seq(Row)
    BY <2>1, StepShape DEF Shape, EvalTyped
  <2> DEFINE last == CHOOSE i \in RowsOf(v) : \A j \in RowsOf(v) : j <= i
  <2>4. RowsOf(v) # {} /\ last \in RowsOf(v) /\ Verdict(v) = rows[last].raw
    <3>1. RowsOf(v) # {}
      BY DEF Verdict
    <3>2. RowsOf(v) \in SUBSET (1 .. Len(rows)) /\ Len(rows) \in Nat
      BY <2>3 DEF RowsOf
    <3> QED
      BY <3>1, <3>2, LastRow DEF Verdict
  <2>5. ASSUME UNCHANGED rows
        PROVE  Verdict(v)' = Verdict(v)
    BY <2>5 DEF Verdict, RowsOf, Parsed
  <2>6. ASSUME NEW u \in InHand, NEW raw \in Raws, WriteStep(u, raw)
        PROVE  Verdict(v)' = Verdict(v)
    <3>1. /\ u \in Uids /\ EvalTyped
          /\ \A i \in 1 .. Len(rows) : rows'[i] = rows[i]
          /\ RowsOf(v) \subseteq RowsOf(v)'
      BY <2>1, <2>6, InCall, WrittenRows DEF Shape, WriteStep
    <3> DEFINE new == CHOOSE i \in RowsOf(v)' : \A j \in RowsOf(v)' : j <= i
    <3>2. RowsOf(v)' # {} /\ new \in RowsOf(v)' /\ Verdict(v)' = rows'[new].raw
      <4>1. RowsOf(v)' # {}
        BY <2>4, <3>1
      <4>2. RowsOf(v)' \in SUBSET (1 .. Len(rows')) /\ Len(rows') \in Nat
        BY <2>3 DEF RowsOf
      <4> QED
        BY <4>1, <4>2, LastRow DEF Verdict
    <3>3. CASE RowsOf(v)' = RowsOf(v)
      <4>1. new = last
        BY <3>3
      <4>2. last \in 1 .. Len(rows)
        BY <2>4 DEF RowsOf
      <4> HIDE DEF new, last
      <4> QED
        BY <2>4, <3>1, <3>2, <4>1, <4>2
    <3>4. CASE RowsOf(v)' # RowsOf(v)
      <4>1. PICK i \in RowsOf(v)' : i \notin RowsOf(v)
        BY <3>1, <3>4
      <4>2. v = u
        BY <2>1, <2>6, <4>1, NewRow
      <4>3. RowCount(v) <= Before(v) /\ RowCount(v) # 0
        <5>1. RowCount(v) <= Before(v)
          BY <2>1, <2>6, <4>2, HandBound
        <5>2. IsFiniteSet(RowsOf(v))
          BY <3>1, CountTyped
        <5> QED
          BY <2>4, <5>1, <5>2, FS_EmptySet DEF RowCount
      <4>4. v \in NoFrames
        <5>1. RowCount(v) \in Nat
          BY <3>1, CountTyped
        <5> QED
          BY <4>3, <5>1 DEF Before
      <4> HIDE DEF new, last
      <4>5. rows[last].raw = "missing"
        BY <2>1, <2>4, <4>4 DEF MissingRows
      <4>6. rows'[new].raw = "missing"
        BY <2>2, <3>2, <4>4 DEF MissingRows
      <4> QED
        BY <2>4, <3>2, <4>5, <4>6
    <3> QED
      BY <3>3, <3>4
  <2> QED
    BY <2>1, <2>5, <2>6, WritingSteps DEF QuietStep
<1> QED
  BY <1>1, AlwaysEvalInv, PTL DEF EvalSpec, VerdictStays
=============================================================================
