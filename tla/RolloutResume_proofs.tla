------------------------ MODULE RolloutResume_proofs ------------------------
(***************************************************************************)
(* Safety of the teacher rollouts for every number of samples, attempts    *)
(* and failures, as long as all runs use the same number of workers.       *)
(***************************************************************************)
EXTENDS RolloutResume, FiniteSetTheorems, TLAPS

(***************************************************************************)
(* The inductive invariant.                                                *)
(***************************************************************************)

\* main() starts every worker, and only while it waits for them do they run
OnlyJoining ==
  \A w \in Workers : /\ wpc[w] = "run" => phase = "join"
                     /\ phase = "join" => wpc[w] # "off"

\* a finished worker has an empty pool
DoneEmpty == \A w \in Workers : wpc[w] = "ok" => pending[w] = {}

\* no two lines of the files are of one sample
LinesOnce ==
  \A w, v \in Workers : \A i \in DOMAIN file[w], j \in DOMAIN file[v] :
    file[w][i] = file[v][j] /\ file[w][i] \in Samples => w = v /\ i = j

\* a file whose last line has no newline has a last line
UnendedLine == \A w \in Workers : unended[w] => file[w] # <<>>

\* lines that are no JSON stay in the files, and main() then never merges
Spoilt == \E w \in Workers : Torn \in On(w) \/ Garbled \in On(w)

Saved(s) == \E w \in Workers : s \in On(w)
Pending(s) == \E w \in Workers : \E item \in pending[w] : item[1] = s

\* each sample of the run is somewhere, unless a line was spoilt
Covered ==
  /\ phase = "join" => \A s \in Samples : Spoilt \/ Saved(s) \/ s \in abandoned \/ Pending(s)
  /\ phase = "merge" => \A s \in Samples : Spoilt \/ Saved(s) \/ s \in abandoned

\* what is given up is given up for the whole run
GivenUp ==
  phase # "off" => \A s \in abandoned :
    /\ ~Saved(s)
    /\ \A w \in Workers : wpc[w] = "run" => \A item \in pending[w] : item[1] # s

RInv ==
  /\ OnlyJoining /\ DoneEmpty /\ LinesOnce /\ PendingOnce
  /\ Covered /\ GivenUp /\ MergeAccountsForAll

\* vllm_rollout.py:385: every run has the same number of workers.
OneCount == \E k \in Nat \ {0} : GpuCounts = {k}

LEMMA FixedWorkers ==
  ASSUME OneCount
  PROVE  \A k \in GpuCounts : Workers = 0 .. k - 1 /\ k \in Nat \ {0}
BY DEF OneCount, Workers

(***************************************************************************)
(* What a write does to a file.                                            *)
(***************************************************************************)

LEMMA AppendLine ==
  ASSUME NEW S, NEW seq \in Seq(S), NEW e \in S
  PROVE  /\ Append(seq, e) \in Seq(S) /\ Len(Append(seq, e)) = Len(seq) + 1
         /\ Append(seq, e) # <<>> /\ Append(seq, e)[Len(seq) + 1] = e
         /\ DOMAIN Append(seq, e) = 1 .. Len(seq) + 1 /\ DOMAIN seq = 1 .. Len(seq)
         /\ \A i \in 1 .. Len(seq) : Append(seq, e)[i] = seq[i]
<1>1. Len(seq) \in Nat
  OBVIOUS
<1>2. Append(seq, e) \in Seq(S) /\ Len(Append(seq, e)) = Len(seq) + 1
  OBVIOUS
<1>3. Append(seq, e)[Len(seq) + 1] = e
  OBVIOUS
<1>4. \A i \in 1 .. Len(seq) : Append(seq, e)[i] = seq[i]
  OBVIOUS
<1> QED
  BY <1>1, <1>2, <1>3, <1>4

LEMMA LinesOn ==
  ASSUME TypeOK
  PROVE  \A x \in Workers : \A k \in DOMAIN file[x] : file[x][k] \in On(x)
<1> SUFFICES ASSUME NEW x \in Workers, NEW k \in DOMAIN file[x]
             PROVE  file[x][k] \in On(x)
  OBVIOUS
<1>1. file[x] \in Seq(Lines)
  BY DEF TypeOK
<1>2. DOMAIN file[x] = 1 .. Len(file[x])
  BY <1>1
<1> QED
  BY <1>2 DEF On

\* Line 302: a write adds one line at most, and loses one only by spoiling it.
LEMMA WriteLine ==
  ASSUME TypeOK, UnendedLine, NEW w \in Workers, NEW line \in Lines, NEW e \in BOOLEAN,
         Write(w, line, e)
  PROVE  /\ file' \in [Workers -> Seq(Lines)] /\ unended' \in [Workers -> BOOLEAN]
         /\ UnendedLine'
         /\ \A v \in Workers \ {w} : file'[v] = file[v]
         /\ \A s \in Samples : s \in On(w)' => s \in On(w) \/ s = line
         /\ \A s \in Samples : s \in On(w) \/ s = line => s \in On(w)' \/ Spoilt'
         /\ Spoilt => Spoilt'
         /\ LinesOnce /\ (line \in Samples => ~Saved(line)) => LinesOnce'
<1> USE DEF TypeOK
<1>0. /\ file[w] \in Seq(Lines) /\ Len(file[w]) \in Nat
      /\ Torn \in Lines /\ Garbled \in Lines
      /\ Torn \notin Samples /\ Garbled \notin Samples
  BY RolloutAssumption DEF Lines
<1>1. file' = [file EXCEPT ![w] = Appended(w, line)] /\ unended' = [unended EXCEPT ![w] = ~e]
  BY DEF Write
<1>2. CASE unended[w]
  <2> DEFINE last == Len(file[w])
             glued == Glued(w, line)
  <2>1. last \in 1 .. Len(file[w]) /\ glued \in {Torn, Garbled}
    BY <1>0, <1>2 DEF UnendedLine, Glued
  <2>2. file'[w] = [file[w] EXCEPT ![last] = glued]
    BY <1>1, <1>2 DEF Appended
  <2>3. /\ file'[w] \in Seq(Lines) /\ Len(file'[w]) = Len(file[w]) /\ file'[w] # <<>>
        /\ DOMAIN file'[w] = DOMAIN file[w] /\ DOMAIN file[w] = 1 .. Len(file[w])
        /\ file'[w][last] = glued
        /\ \A i \in DOMAIN file[w] : i # last => file'[w][i] = file[w][i]
    BY <1>0, <2>1, <2>2
  <2> HIDE DEF glued
  <2>4. file' \in [Workers -> Seq(Lines)] /\ unended' \in [Workers -> BOOLEAN]
    BY <1>1, <2>3
  <2>5. \A v \in Workers \ {w} : file'[v] = file[v] /\ unended'[v] = unended[v]
    BY <1>1
  <2>6. Spoilt'
    BY <2>1, <2>3 DEF Spoilt, On
  <2>7. \A s \in Samples : s \in On(w)' => s \in On(w)
    BY <1>0, <2>1, <2>3 DEF On
  <2>8. LinesOnce => LinesOnce'
    <3> SUFFICES ASSUME LinesOnce, NEW v \in Workers, NEW u \in Workers,
                        NEW i \in DOMAIN file'[v], NEW j \in DOMAIN file'[u],
                        file'[v][i] = file'[u][j], file'[v][i] \in Samples
                 PROVE  v = u /\ i = j
      BY DEF LinesOnce
    <3>1. i \in DOMAIN file[v] /\ file'[v][i] = file[v][i]
      BY <1>0, <2>1, <2>3, <2>5
    <3>2. j \in DOMAIN file[u] /\ file'[u][j] = file[u][j]
      BY <1>0, <2>1, <2>3, <2>5
    <3> QED
      BY <3>1, <3>2 DEF LinesOnce
  <2>9. UnendedLine'
    BY <2>3, <2>5 DEF UnendedLine
  <2> QED
    BY <2>4, <2>5, <2>6, <2>7, <2>8, <2>9
<1>3. CASE ~unended[w]
  <2>2. file'[w] = Append(file[w], line)
    BY <1>1, <1>3 DEF Appended
  <2>3. /\ file'[w] \in Seq(Lines) /\ Len(file'[w]) = Len(file[w]) + 1 /\ file'[w] # <<>>
        /\ DOMAIN file'[w] = 1 .. Len(file[w]) + 1 /\ DOMAIN file[w] = 1 .. Len(file[w])
        /\ file'[w][Len(file[w]) + 1] = line
        /\ \A i \in DOMAIN file[w] : file'[w][i] = file[w][i]
    BY <1>0, <2>2, AppendLine
  <2>4. file' \in [Workers -> Seq(Lines)] /\ unended' \in [Workers -> BOOLEAN]
    BY <1>1, <2>3
  <2>5. \A v \in Workers \ {w} : file'[v] = file[v] /\ unended'[v] = unended[v]
    BY <1>1
  <2>6. On(w)' = On(w) \union {line}
    <3>1. \A i \in 1 .. Len(file[w]) + 1 : i \in 1 .. Len(file[w]) \/ i = Len(file[w]) + 1
      BY <1>0
    <3>2. 1 .. Len(file[w]) \subseteq 1 .. Len(file[w]) + 1
      BY <1>0
    <3>3. Len(file[w]) + 1 \in 1 .. Len(file[w]) + 1
      BY <1>0
    <3> QED
      BY <2>3, <3>1, <3>2, <3>3 DEF On
  <2>7. Spoilt => Spoilt'
    <3>1. \A v \in Workers \ {w} : On(v)' = On(v)
      BY <2>5 DEF On
    <3> QED
      BY <2>6, <3>1 DEF Spoilt
  <2>8. LinesOnce /\ (line \in Samples => ~Saved(line)) => LinesOnce'
    <3> SUFFICES ASSUME LinesOnce, line \in Samples => ~Saved(line),
                        NEW v \in Workers, NEW u \in Workers,
                        NEW i \in DOMAIN file'[v], NEW j \in DOMAIN file'[u],
                        file'[v][i] = file'[u][j], file'[v][i] \in Samples
                 PROVE  v = u /\ i = j
      BY DEF LinesOnce
    <3>7. \A x \in Workers : \A k \in DOMAIN file[x] : file[x][k] \in On(x)
      BY LinesOn
    <3>8. \A k \in DOMAIN file'[w] : k \in DOMAIN file[w] \/ k = Len(file[w]) + 1
      BY <1>0, <2>3
    <3> DEFINE new(x, k) == x = w /\ k = Len(file[w]) + 1
    <3>1. new(v, i) \/ (i \in DOMAIN file[v] /\ file'[v][i] = file[v][i] /\ file[v][i] \in On(v))
      BY <2>3, <2>5, <3>7, <3>8
    <3>2. new(u, j) \/ (j \in DOMAIN file[u] /\ file'[u][j] = file[u][j] /\ file[u][j] \in On(u))
      BY <2>3, <2>5, <3>7, <3>8
    <3>3. CASE new(v, i) /\ new(u, j)
      BY <3>3
    <3>4. CASE ~new(v, i) /\ ~new(u, j)
      BY <3>1, <3>2, <3>4 DEF LinesOnce
    <3>5. CASE new(v, i) /\ ~new(u, j)
      BY <2>3, <3>2, <3>5 DEF Saved
    <3>6. CASE ~new(v, i) /\ new(u, j)
      BY <2>3, <3>1, <3>6 DEF Saved
    <3> QED
      BY <3>3, <3>4, <3>5, <3>6
  <2>9. UnendedLine'
    BY <2>3, <2>5 DEF UnendedLine
  <2> QED
    BY <2>4, <2>5, <2>6, <2>7, <2>8, <2>9
<1> QED
  BY <1>2, <1>3

(***************************************************************************)
(* Types, whatever the numbers of workers of the runs.                     *)
(***************************************************************************)
LEMMA RankIsNat ==
  ASSUME TypeOK, NEW k \in GpuCounts, NEW s \in Samples
  PROVE  Rank(s, k) \in Nat
<1>1. IsFiniteSet(Samples)
  BY RolloutAssumption, FS_Interval DEF Samples
<1>2. {r \in Remaining(k) : r < s} \subseteq Samples
  BY DEF Remaining
<1> QED
  BY <1>1, <1>2, FS_Subset, FS_CardinalityType DEF Rank

LEMMA FiniteImage ==
  ASSUME NEW S, IsFiniteSet(S), NEW f
  PROVE  IsFiniteSet({f[x] : x \in S})
<1> DEFINE T == {f[x] : x \in S}
           g == [x \in S |-> f[x]]
<1>1. g \in Surjection(S, T)
  <2>1. g \in [S -> T]
    OBVIOUS
  <2>2. \A t \in T : \E x \in S : g[x] = t
    OBVIOUS
  <2> QED
    BY <2>1, <2>2 DEF Surjection
<1>2. IsFiniteSet(T)
  BY <1>1, FS_Surjection
<1> QED
  BY <1>2

LEMMA CopiesIsNat ==
  ASSUME TypeOK, NEW s \in Samples
  PROVE  Copies(s, n) \in Nat
<1> DEFINE Of(w) == {<<w, i>> : i \in {i \in DOMAIN file[w] : file[w][i] = s}}
           All == {Of(w) : w \in 0 .. n - 1}
<1>1. n \in Nat \ {0} /\ n \in GpuCounts
  BY RolloutAssumption DEF TypeOK
<1>2. \A w \in 0 .. n - 1 : IsFiniteSet(Of(w))
  <2> SUFFICES ASSUME NEW w \in 0 .. n - 1 PROVE IsFiniteSet(Of(w))
    OBVIOUS
  <2>1. file[w] \in Seq(Lines)
    BY <1>1 DEF TypeOK, Workers
  <2>2. Len(file[w]) \in Nat /\ DOMAIN file[w] = 1 .. Len(file[w])
    BY <2>1
  <2>3. IsFiniteSet(1 .. Len(file[w]))
    BY <2>2, FS_Interval
  <2>4. IsFiniteSet({i \in DOMAIN file[w] : file[w][i] = s})
    BY <2>2, <2>3, FS_Subset
  <2> DEFINE I == {i \in DOMAIN file[w] : file[w][i] = s}
             f == [i \in I |-> <<w, i>>]
  <2>5. IsFiniteSet({f[i] : i \in I})
    BY <2>4, FiniteImage
  <2>6. Of(w) = {f[i] : i \in I}
    OBVIOUS
  <2> QED
    BY <2>5, <2>6
<1>3. IsFiniteSet(0 .. n - 1)
  BY <1>1, FS_Interval
<1>4. IsFiniteSet(All)
  <2> DEFINE g == [w \in 0 .. n - 1 |-> Of(w)]
  <2>1. IsFiniteSet({g[w] : w \in 0 .. n - 1})
    BY <1>3, FiniteImage
  <2>2. All = {g[w] : w \in 0 .. n - 1}
    OBVIOUS
  <2> QED
    BY <2>1, <2>2
<1>5. \A T \in All : IsFiniteSet(T)
  BY <1>2
<1>6. IsFiniteSet(UNION All)
  BY <1>4, <1>5, FS_UNION
<1>7. Copies(s, n) = Cardinality(UNION All)
  BY DEF Copies
<1> QED
  BY <1>6, <1>7, FS_CardinalityType

LEMMA InitTypes == Init => TypeOK /\ UnendedLine
<1> SUFFICES ASSUME Init PROVE TypeOK /\ UnendedLine
  OBVIOUS
<1>1. <<>> \in Seq(Lines) /\ 0 \in Nat /\ 0 \in 0 .. MaxCrashes
  BY RolloutAssumption
<1> QED
  BY <1>1 DEF Init, TypeOK, UnendedLine

LEMMA CutShortWrites ==
  ASSUME TypeOK, NEW w \in Workers, CutShort(w)
  PROVE  \/ UNCHANGED disk
         \/ \E item \in pending[w] : \E line \in {Torn, Garbled, item[1]} :
              item[1] \in Samples /\ line \in Lines /\ Write(w, line, FALSE)
<1>1. \A item \in pending[w] : item[1] \in Samples
  BY DEF TypeOK
<1> QED
  BY <1>1 DEF CutShort, CutLines, Lines

LEMMA CutShortTypes ==
  ASSUME TypeOK, UnendedLine, NEW w \in Workers, CutShort(w)
  PROVE  file' \in [Workers -> Seq(Lines)] /\ unended' \in [Workers -> BOOLEAN] /\ UnendedLine'
<1>1. CASE UNCHANGED disk
  BY <1>1 DEF disk, TypeOK, UnendedLine
<1>2. CASE \E line \in Lines : Write(w, line, FALSE)
  BY <1>2, WriteLine
<1> QED
  BY <1>1, <1>2, CutShortWrites

\* A line with or without the end of the last one: what is a sample in the file
\* afterwards was so before, or is the line itself.
LEMMA AppendedLine ==
  ASSUME TypeOK, UnendedLine, NEW w \in Workers, NEW line \in Lines
  PROVE  /\ Appended(w, line) \in Seq(Lines) /\ Appended(w, line) # <<>>
         /\ \A i \in DOMAIN Appended(w, line) :
              Appended(w, line)[i] \in Samples =>
                \/ i \in DOMAIN file[w] /\ Appended(w, line)[i] = file[w][i]
                \/ i = Len(file[w]) + 1 /\ Appended(w, line)[i] = line
<1>0. /\ file[w] \in Seq(Lines) /\ Len(file[w]) \in Nat /\ DOMAIN file[w] = 1 .. Len(file[w])
      /\ Torn \in Lines /\ Garbled \in Lines /\ Torn \notin Samples /\ Garbled \notin Samples
  BY RolloutAssumption DEF TypeOK, Lines
<1>1. CASE unended[w]
  <2> DEFINE last == Len(file[w])
             glued == Glued(w, line)
  <2>1. last \in 1 .. Len(file[w]) /\ glued \in {Torn, Garbled}
    BY <1>0, <1>1 DEF UnendedLine, Glued
  <2>2. Appended(w, line) = [file[w] EXCEPT ![last] = glued]
    BY <1>1 DEF Appended
  <2> HIDE DEF glued
  <2> QED
    BY <1>0, <2>1, <2>2
<1>2. CASE ~unended[w]
  <2>1. Appended(w, line) = Append(file[w], line)
    BY <1>2 DEF Appended
  <2>2. \A i \in 1 .. Len(file[w]) + 1 : i \in 1 .. Len(file[w]) \/ i = Len(file[w]) + 1
    BY <1>0
  <2> QED
    BY <1>0, <2>1, <2>2, AppendLine
<1>3. unended[w] \in BOOLEAN
  BY DEF TypeOK
<1> QED
  BY <1>1, <1>2, <1>3

\* A kill of the session may add to each running worker's file one line.
LEMMA KilledFiles ==
  ASSUME TypeOK, UnendedLine, Killed
  PROVE  /\ file' \in [Workers -> Seq(Lines)] /\ unended' \in [Workers -> BOOLEAN]
         /\ UnendedLine'
         /\ \A w \in Workers : \A i \in DOMAIN file'[w] :
              file'[w][i] \in Samples =>
                \/ i \in DOMAIN file[w] /\ file'[w][i] = file[w][i]
                \/ /\ wpc[w] = "run" /\ i = Len(file[w]) + 1
                   /\ \E item \in pending[w] : file'[w][i] = item[1]
<1>1. PICK cut \in SUBSET {w \in Workers : wpc[w] = "run"} :
        \E line \in [cut -> Lines] :
          /\ \A w \in cut : line[w] \in CutLines(w)
          /\ file' = [w \in Workers |-> IF w \in cut THEN Appended(w, line[w]) ELSE file[w]]
          /\ unended' = [w \in Workers |-> w \in cut \/ unended[w]]
  BY Zenon DEF Killed
<1>2. PICK line \in [cut -> Lines] :
          /\ \A w \in cut : line[w] \in CutLines(w)
          /\ file' = [w \in Workers |-> IF w \in cut THEN Appended(w, line[w]) ELSE file[w]]
          /\ unended' = [w \in Workers |-> w \in cut \/ unended[w]]
  BY <1>1
<1>3. ASSUME NEW w \in Workers
      PROVE  /\ file'[w] \in Seq(Lines) /\ (unended'[w] => file'[w] # <<>>)
             /\ \A i \in DOMAIN file'[w] :
                  file'[w][i] \in Samples =>
                    \/ i \in DOMAIN file[w] /\ file'[w][i] = file[w][i]
                    \/ /\ wpc[w] = "run" /\ i = Len(file[w]) + 1
                       /\ \E item \in pending[w] : file'[w][i] = item[1]
  <2>1. CASE w \in cut
    <3>1. file'[w] = Appended(w, line[w]) /\ line[w] \in Lines /\ wpc[w] = "run"
      BY <1>1, <1>2, <2>1
    <3>2. line[w] \in Samples => \E item \in pending[w] : line[w] = item[1]
      BY <1>2, <2>1, RolloutAssumption DEF CutLines
    <3> QED
      BY <3>1, <3>2, AppendedLine
  <2>2. CASE w \notin cut
    <3>1. file'[w] = file[w] /\ (unended'[w] <=> unended[w])
      BY <1>2, <2>2
    <3> QED
      BY <3>1 DEF TypeOK, UnendedLine
  <2> QED
    BY <2>1, <2>2
<1>4. file' \in [Workers -> Seq(Lines)]
  BY <1>2, <1>3
<1>5. unended' \in [Workers -> BOOLEAN]
  BY <1>2 DEF TypeOK
<1> QED
  BY <1>3, <1>4, <1>5 DEF UnendedLine

LEMMA TypesStep == TypeOK /\ UnendedLine /\ [Next]_vars => TypeOK' /\ UnendedLine'
<1> SUFFICES ASSUME TypeOK, UnendedLine, [Next]_vars PROVE TypeOK' /\ UnendedLine'
  OBVIOUS
<1>1. ASSUME NEW k \in GpuCounts, Begin(k) PROVE TypeOK' /\ UnendedLine'
  <2>1. 0 \in 0 .. MaxAttempts - 1
    BY RolloutAssumption
  <2>2. \A w \in Workers : Share(w, k) \subseteq Samples \X (0 .. MaxAttempts - 1)
    BY <2>1 DEF Share, Remaining
  <2>3. /\ wpc' \in [Workers -> {"off", "run", "ok", "failed"}]
        /\ pending' \in [Workers -> SUBSET (Samples \X (0 .. MaxAttempts - 1))]
        /\ phase' \in {"off", "join", "merge", "write"}
    <3>1. CASE Completed(k) = Samples
      BY <1>1, <3>1 DEF Begin, TypeOK
    <3>2. CASE Completed(k) # Samples
      <4>1. pending' = [w \in Workers |-> IF w < k THEN Share(w, k) ELSE {}]
        BY <1>1, <3>2 DEF Begin
      <4>2. wpc' = [w \in Workers |-> IF w < k THEN "run" ELSE "off"] /\ phase' = "join"
        BY <1>1, <3>2 DEF Begin
      <4> QED
        BY <2>2, <4>1, <4>2
    <3> QED
      BY <3>1, <3>2
  <2> QED
    BY <1>1, <2>3 DEF Begin, TypeOK, UnendedLine, disk, output
<1>2. CASE Join
  BY <1>2 DEF Join, TypeOK, UnendedLine, workers, disk, output
<1>3. CASE Merge
  <2>1. \A s \in Samples : Copies(s, n) \in Nat
    BY CopiesIsNat
  <2> QED
    BY <1>3, <2>1 DEF Merge, TypeOK, UnendedLine, workers, disk, output
<1>4. CASE WriteOutput
  BY <1>4 DEF WriteOutput, TypeOK, UnendedLine, workers, disk
<1>5. ASSUME NEW w \in Workers, Save(w) PROVE TypeOK' /\ UnendedLine'
  <2>1. PICK item \in pending[w] : /\ Write(w, item[1], TRUE)
                                   /\ pending' = [pending EXCEPT ![w] = @ \ {item}]
    BY <1>5 DEF Save
  <2>2. item[1] \in Lines
    BY DEF TypeOK, Lines
  <2>3. file' \in [Workers -> Seq(Lines)] /\ unended' \in [Workers -> BOOLEAN] /\ UnendedLine'
    BY <2>1, <2>2, WriteLine
  <2>4. pending' \in [Workers -> SUBSET (Samples \X (0 .. MaxAttempts - 1))]
    BY <2>1 DEF TypeOK
  <2> QED
    BY <1>5, <2>3, <2>4 DEF Save, TypeOK, output
<1>6. ASSUME NEW w \in Workers, Reject(w) PROVE TypeOK' /\ UnendedLine'
  <2>1. PICK item \in pending[w] : PutBack(w, item[1], item[2])
    BY <1>6 DEF Reject
  <2>2. item[1] \in Samples /\ item[2] \in 0 .. MaxAttempts - 1
    BY DEF TypeOK
  <2>3. item[2] + 1 < MaxAttempts => item[2] + 1 \in 0 .. MaxAttempts - 1
    BY <2>2, RolloutAssumption
  <2>4. pending' \in [Workers -> SUBSET (Samples \X (0 .. MaxAttempts - 1))]
    <3> DEFINE P == Samples \X (0 .. MaxAttempts - 1)
    <3>1. PICK Q : Q \subseteq P /\ pending' = [pending EXCEPT ![w] = Q]
      <4>1. CASE item[2] + 1 < MaxAttempts
        <5>1. <<item[1], item[2] + 1>> \in P
          BY <2>2, <2>3, <4>1
        <5> QED
          BY <2>1, <4>1, <5>1 DEF PutBack, TypeOK
      <4>2. CASE ~(item[2] + 1 < MaxAttempts)
        BY <2>1, <4>2 DEF PutBack, TypeOK
      <4> QED
        BY <4>1, <4>2
    <3> QED
      BY <3>1 DEF TypeOK
  <2>5. abandoned' \subseteq Samples
    BY <2>1, <2>2 DEF PutBack, TypeOK
  <2> QED
    BY <1>6, <2>4, <2>5 DEF Reject, TypeOK, UnendedLine, disk, output
<1>7. ASSUME NEW w \in Workers, Exit(w) PROVE TypeOK' /\ UnendedLine'
  BY <1>7 DEF Exit, TypeOK, UnendedLine, disk, output
<1>8. ASSUME NEW w \in Workers, Die(w) PROVE TypeOK' /\ UnendedLine'
  <2>1. crashes' \in 0 .. MaxCrashes
    BY <1>8, RolloutAssumption DEF Die, TypeOK
  <2>2. wpc' \in [Workers -> {"off", "run", "ok", "failed"}]
    BY <1>8 DEF Die, TypeOK
  <2>3. file' \in [Workers -> Seq(Lines)] /\ unended' \in [Workers -> BOOLEAN] /\ UnendedLine'
    BY <1>8, CutShortTypes DEF Die
  <2> QED
    BY <1>8, <2>1, <2>2, <2>3 DEF Die, TypeOK, output
<1>9. CASE Killed
  <2>1. crashes' \in 0 .. MaxCrashes
    BY <1>9, RolloutAssumption DEF Killed, TypeOK
  <2>2. wpc' \in [Workers -> {"off", "run", "ok", "failed"}]
    BY <1>9 DEF Killed, TypeOK
  <2>3. file' \in [Workers -> Seq(Lines)] /\ unended' \in [Workers -> BOOLEAN] /\ UnendedLine'
    BY <1>9, KilledFiles
  <2> QED
    BY <1>9, <2>1, <2>2, <2>3 DEF Killed, TypeOK, output
<1>10. CASE UNCHANGED vars
  BY <1>10 DEF vars, TypeOK, UnendedLine
<1> QED
  BY <1>1, <1>2, <1>3, <1>4, <1>5, <1>6, <1>7, <1>8, <1>9, <1>10 DEF Next, Main

\* Every value stays in its type, however many workers each run has; no pending
\* sample has used up its attempts (vllm_rollout.py:316).
THEOREM Typed == Spec => []TypeOK
<1>1. TypeOK /\ UnendedLine /\ [Next]_vars => (TypeOK /\ UnendedLine)'
  BY TypesStep
<1>2. Init => TypeOK /\ UnendedLine
  BY InitTypes
<1> QED
  BY <1>1, <1>2, PTL DEF Spec

(***************************************************************************)
(* The ledger of samples, when all runs have the same number of workers.   *)
(***************************************************************************)
LEMMA CompletedIsSaved ==
  ASSUME OneCount, NEW k \in GpuCounts, NEW s \in Samples
  PROVE  s \in Completed(k) <=> Saved(s)
<1>1. Workers = 0 .. k - 1
  BY FixedWorkers
<1> QED
  BY <1>1 DEF Completed, Saved

LEMMA SameDisk ==
  ASSUME UNCHANGED disk
  PROVE  /\ \A w \in Workers : On(w)' = On(w)
         /\ Spoilt' <=> Spoilt
         /\ \A s \in Samples : Saved(s)' <=> Saved(s)
         /\ LinesOnce => LinesOnce'
<1>1. \A w \in Workers : On(w)' = On(w)
  BY DEF disk, On
<1>2. LinesOnce => LinesOnce'
  BY DEF disk, LinesOnce
<1> QED
  BY <1>1, <1>2 DEF Spoilt, Saved

\* the line of a pending sample, whole or cut
LEMMA PendingLine ==
  ASSUME TypeOK, UnendedLine, LinesOnce, PendingOnce,
         NEW w \in Workers, wpc[w] = "run", NEW item \in pending[w],
         NEW line \in {Torn, Garbled, item[1]}, NEW e \in BOOLEAN, Write(w, line, e)
  PROVE  /\ LinesOnce'
         /\ \A v \in Workers \ {w} : On(v)' = On(v)
         /\ \A s \in Samples : s \in On(w)' => s \in On(w) \/ s = item[1]
         /\ \A s \in Samples : Saved(s) \/ s = line => Saved(s)' \/ Spoilt'
         /\ Spoilt => Spoilt'
<1>1. item[1] \in Samples /\ line \in Lines
  BY DEF TypeOK, Lines
<1>2. line \in Samples => ~Saved(line)
  BY RolloutAssumption DEF PendingOnce, Saved
<1>3. /\ LinesOnce'
      /\ \A v \in Workers \ {w} : file'[v] = file[v]
      /\ \A s \in Samples : s \in On(w)' => s \in On(w) \/ s = line
      /\ \A s \in Samples : s \in On(w) \/ s = line => s \in On(w)' \/ Spoilt'
      /\ Spoilt => Spoilt'
  BY <1>1, <1>2, WriteLine
<1>4. \A v \in Workers \ {w} : On(v)' = On(v)
  BY <1>3 DEF On
<1>5. \A s \in Samples : s \in On(w)' => s \in On(w) \/ s = item[1]
  BY <1>3, RolloutAssumption
<1>6. ASSUME NEW s \in Samples, Saved(s) \/ s = line PROVE Saved(s)' \/ Spoilt'
  <2>1. CASE s \in On(w) \/ s = line
    BY <2>1, <1>3 DEF Saved
  <2>2. CASE \E v \in Workers \ {w} : s \in On(v)
    BY <2>2, <1>4 DEF Saved
  <2> QED
    BY <1>6, <2>1, <2>2 DEF Saved
<1> QED
  BY <1>3, <1>4, <1>5, <1>6

LEMMA LostLine ==
  ASSUME TypeOK, UnendedLine, LinesOnce, PendingOnce,
         NEW w \in Workers, wpc[w] = "run", CutShort(w)
  PROVE  /\ LinesOnce'
         /\ \A v \in Workers \ {w} : On(v)' = On(v)
         /\ \A s \in Samples : s \in On(w)' => s \in On(w) \/ \E item \in pending[w] : s = item[1]
         /\ \A s \in Samples : Saved(s) => Saved(s)' \/ Spoilt'
         /\ Spoilt => Spoilt'
<1>1. CASE UNCHANGED disk
  BY <1>1, SameDisk
<1>2. CASE \E item \in pending[w] : \E line \in {Torn, Garbled, item[1]} : Write(w, line, FALSE)
  <2>1. PICK item \in pending[w] : \E line \in {Torn, Garbled, item[1]} : Write(w, line, FALSE)
    BY <1>2
  <2>2. PICK line \in {Torn, Garbled, item[1]} : Write(w, line, FALSE)
    BY <2>1
  <2> QED
    BY <2>2, PendingLine
<1> QED
  BY <1>1, <1>2, CutShortWrites

LEMMA InitRInv == Init => RInv
<1> SUFFICES ASSUME Init PROVE RInv
  OBVIOUS
<1>1. \A w \in Workers : file[w] = <<>> /\ wpc[w] = "off" /\ pending[w] = {}
  BY DEF Init
<1>2. phase = "off"
  BY DEF Init
<1> QED
  BY <1>1, <1>2 DEF RInv, OnlyJoining, DoneEmpty, LinesOnce, PendingOnce, Covered, GivenUp,
                    MergeAccountsForAll

LEMMA BeginKeeps ==
  ASSUME OneCount, TypeOK, RInv, NEW k \in GpuCounts, Begin(k)
  PROVE  RInv'
<1>0. Workers = 0 .. k - 1 /\ k \in Nat \ {0}
  BY FixedWorkers
<1>1. /\ \A w \in Workers : On(w)' = On(w)
      /\ \A s \in Samples : Saved(s)' <=> Saved(s)
      /\ LinesOnce'
  BY SameDisk DEF Begin, RInv
<1>2. phase = "off" /\ abandoned' = {}
  BY DEF Begin
<1>3. \A w \in Workers : wpc[w] # "run"
  BY <1>2 DEF RInv, OnlyJoining
<1>4. GivenUp'
  BY <1>2 DEF GivenUp
<1>5. CASE Completed(k) = Samples
  <2>1. phase' = "merge" /\ UNCHANGED <<wpc, pending>>
    BY <1>5 DEF Begin
  <2>2. \A s \in Samples : Saved(s)'
    BY <1>1, <1>5, CompletedIsSaved
  <2>3. OnlyJoining' /\ DoneEmpty' /\ PendingOnce' /\ Covered' /\ MergeAccountsForAll'
    BY <1>3, <2>1, <2>2 DEF RInv, OnlyJoining, DoneEmpty, PendingOnce, Covered, MergeAccountsForAll
  <2> QED
    BY <1>1, <1>4, <2>3 DEF RInv
<1>6. CASE Completed(k) # Samples
  <2>1. /\ phase' = "join"
        /\ wpc' = [w \in Workers |-> IF w < k THEN "run" ELSE "off"]
        /\ pending' = [w \in Workers |-> IF w < k THEN Share(w, k) ELSE {}]
    BY <1>6 DEF Begin
  <2>2. \A w \in Workers : w < k
    BY <1>0
  <2>3. \A w \in Workers : wpc'[w] = "run" /\ pending'[w] = Share(w, k)
    BY <2>1, <2>2
  <2>4. \A w \in Workers : \A item \in Share(w, k) :
          /\ item[1] \in Samples /\ item[1] \notin Completed(k)
          /\ item = <<item[1], 0>> /\ Rank(item[1], k) % k = w
    BY DEF Share, Remaining
  <2>5. PendingOnce'
    <3>1. \A w \in Workers : \A item \in Share(w, k) : \A v \in Workers : item[1] \notin On(v)
      BY <2>4, CompletedIsSaved DEF Saved
    <3>2. \A w, v \in Workers : \A item \in Share(w, k) : \A other \in Share(v, k) :
            other[1] = item[1] => v = w /\ other = item
      BY <2>4
    <3> QED
      BY <1>1, <2>3, <3>1, <3>2 DEF PendingOnce
  <2>6. ASSUME NEW s \in Samples PROVE Saved(s)' \/ Pending(s)'
    <3>1. CASE Saved(s)
      BY <1>1, <3>1
    <3>2. CASE ~Saved(s)
      <4>1. s \in Remaining(k)
        BY <3>2, CompletedIsSaved DEF Remaining
      <4>2. Rank(s, k) \in Nat
        BY RankIsNat
      <4>3. Rank(s, k) % k \in 0 .. k - 1
        BY <1>0, <4>2
      <4>4. <<s, 0>> \in Share(Rank(s, k) % k, k)
        BY <4>1 DEF Share
      <4>5. PICK w \in Workers : <<s, 0>> \in pending'[w]
        BY <1>0, <2>3, <4>3, <4>4
      <4> QED
        BY <4>5 DEF Pending
    <3> QED
      BY <3>1, <3>2
  <2>7. OnlyJoining' /\ DoneEmpty' /\ MergeAccountsForAll'
    BY <2>1, <2>3 DEF OnlyJoining, DoneEmpty, MergeAccountsForAll
  <2>8. Covered'
    BY <2>1, <2>6 DEF Covered
  <2> QED
    BY <1>1, <1>4, <2>5, <2>7, <2>8 DEF RInv
<1> QED
  BY <1>5, <1>6

LEMMA JoinKeeps ==
  ASSUME TypeOK, RInv, Join
  PROVE  RInv'
<1>1. /\ \A w \in Workers : On(w)' = On(w)
      /\ Spoilt' <=> Spoilt
      /\ \A s \in Samples : Saved(s)' <=> Saved(s)
      /\ LinesOnce'
  BY SameDisk DEF Join, RInv
<1>2. phase = "join" /\ UNCHANGED <<wpc, pending, abandoned>>
  BY DEF Join, workers
<1>3. \A w \in Workers : wpc[w] # "run" /\ wpc[w] # "off"
  BY <1>2 DEF Join, Joined, RInv, OnlyJoining
<1>4. phase' \in {"off", "merge"}
  BY DEF Join
<1>5. OnlyJoining' /\ DoneEmpty' /\ PendingOnce' /\ MergeAccountsForAll'
  BY <1>2, <1>3, <1>4 DEF RInv, OnlyJoining, DoneEmpty, PendingOnce, MergeAccountsForAll
<1>6. GivenUp'
  BY <1>1, <1>2, <1>3 DEF RInv, GivenUp, TypeOK
<1>7. Covered'
  <2>1. CASE phase' = "off"
    BY <2>1 DEF Covered
  <2>2. CASE phase' = "merge"
    <3>1. \A w \in Workers : wpc[w] = "ok"
      BY <1>3, <2>2 DEF Join, TypeOK
    <3>2. \A s \in Samples : ~Pending(s)
      BY <3>1 DEF RInv, DoneEmpty, Pending
    <3> QED
      BY <1>1, <1>2, <2>2, <3>2 DEF RInv, Covered
  <2> QED
    BY <1>4, <2>1, <2>2
<1> QED
  BY <1>1, <1>5, <1>6, <1>7 DEF RInv

\* lines are of a sample at most once, so it is counted at most once
LEMMA OneCopy ==
  ASSUME OneCount, TypeOK, LinesOnce, NEW s \in Samples
  PROVE  Copies(s, n) = IF Saved(s) THEN 1 ELSE 0
<1> DEFINE Of(w) == {<<w, i>> : i \in {i \in DOMAIN file[w] : file[w][i] = s}}
           All == UNION {Of(w) : w \in 0 .. n - 1}
<1>1. Workers = 0 .. n - 1
  BY FixedWorkers DEF TypeOK
<1>2. Copies(s, n) = Cardinality(All)
  BY DEF Copies
<1>3. \A w \in Workers : file[w] \in Seq(Lines) /\ DOMAIN file[w] = 1 .. Len(file[w])
  BY DEF TypeOK
<1>4. CASE Saved(s)
  <2>1. PICK w \in Workers : \E i \in DOMAIN file[w] : file[w][i] = s
    BY <1>3, <1>4 DEF Saved, On
  <2>7. PICK i \in DOMAIN file[w] : file[w][i] = s
    BY <2>1
  <2>2. <<w, i>> \in Of(w)
    BY <2>7
  <2>3. <<w, i>> \in All
    BY <1>1, <2>2
  <2>4. ASSUME NEW x \in All PROVE x = <<w, i>>
    <3>1. PICK v \in Workers : x \in Of(v)
      BY <1>1, <2>4
    <3>2. PICK j \in DOMAIN file[v] : x = <<v, j>> /\ file[v][j] = s
      BY <3>1
    <3> QED
      BY <2>7, <3>2 DEF LinesOnce
  <2>5. All = {<<w, i>>}
    BY <2>3, <2>4
  <2>6. Cardinality({<<w, i>>}) = 1
    BY FS_Singleton
  <2> QED
    BY <1>2, <1>4, <2>5, <2>6
<1>5. CASE ~Saved(s)
  <2>1. \A w \in Workers : Of(w) = {}
    BY <1>3, <1>5 DEF Saved, On
  <2>2. All = {}
    BY <1>1, <2>1
  <2> QED
    BY <1>2, <1>5, <2>2, FS_EmptySet
<1> QED
  BY <1>4, <1>5

LEMMA MergeKeeps ==
  ASSUME OneCount, TypeOK, RInv, Merge
  PROVE  RInv'
<1>1. /\ \A w \in Workers : On(w)' = On(w)
      /\ Spoilt' <=> Spoilt
      /\ \A s \in Samples : Saved(s)' <=> Saved(s)
      /\ LinesOnce'
  BY SameDisk DEF Merge, RInv
<1>2. phase = "merge" /\ UNCHANGED <<wpc, pending, abandoned>> /\ phase' \in {"off", "write"}
  BY DEF Merge, workers
<1>3. \A w \in Workers : wpc[w] # "run"
  BY <1>2 DEF RInv, OnlyJoining
<1>4. OnlyJoining' /\ DoneEmpty' /\ PendingOnce' /\ Covered'
  BY <1>2, <1>3 DEF RInv, OnlyJoining, DoneEmpty, PendingOnce, Covered
<1>5. GivenUp'
  BY <1>1, <1>2, <1>3 DEF RInv, GivenUp, TypeOK
<1>6. MergeAccountsForAll'
  <2>1. CASE phase' = "off"
    BY <2>1 DEF MergeAccountsForAll
  <2>2. CASE phase' = "write"
    <3>1. \A w \in 0 .. n - 1 : On(w) \intersect {Torn, Garbled} = {}
      BY <2>2 DEF Merge
    <3>2. ~Spoilt
      BY <3>1, FixedWorkers DEF Spoilt, TypeOK
    <3>3. out' = [s \in Samples |-> Copies(s, n)]
      BY <2>2 DEF Merge
    <3>4. ASSUME NEW s \in Samples PROVE out'[s] = IF s \in abandoned' THEN 0 ELSE 1
      <4>1. out'[s] = IF Saved(s) THEN 1 ELSE 0
        BY <3>3, OneCopy DEF RInv
      <4>2. Saved(s) \/ s \in abandoned
        BY <1>2, <3>2 DEF RInv, Covered
      <4>3. s \in abandoned => ~Saved(s)
        BY <1>2 DEF RInv, GivenUp
      <4> QED
        BY <1>2, <4>1, <4>2, <4>3
    <3> QED
      BY <3>4 DEF MergeAccountsForAll
  <2> QED
    BY <1>2, <2>1, <2>2
<1> QED
  BY <1>1, <1>4, <1>5, <1>6 DEF RInv

LEMMA WriteOutputKeeps ==
  ASSUME TypeOK, RInv, WriteOutput
  PROVE  RInv'
<1>1. LinesOnce'
  BY SameDisk DEF WriteOutput, RInv
<1>2. phase = "write" /\ phase' = "off" /\ UNCHANGED <<wpc, pending>>
  BY DEF WriteOutput, workers
<1>3. \A w \in Workers : wpc[w] # "run"
  BY <1>2 DEF RInv, OnlyJoining
<1>4. OnlyJoining' /\ DoneEmpty' /\ PendingOnce' /\ Covered' /\ GivenUp' /\ MergeAccountsForAll'
  BY <1>2, <1>3 DEF RInv, OnlyJoining, DoneEmpty, PendingOnce, Covered, GivenUp, MergeAccountsForAll
<1> QED
  BY <1>1, <1>4 DEF RInv

LEMMA SaveKeeps ==
  ASSUME TypeOK, UnendedLine, RInv, NEW w \in Workers, Save(w)
  PROVE  RInv'
<1>1. PICK item \in pending[w] : /\ Write(w, item[1], TRUE)
                                 /\ pending' = [pending EXCEPT ![w] = @ \ {item}]
  BY DEF Save
<1>2. wpc[w] = "run" /\ phase = "join" /\ UNCHANGED <<phase, wpc, abandoned>>
  BY DEF Save, RInv, OnlyJoining
<1>3. /\ LinesOnce'
      /\ \A v \in Workers \ {w} : On(v)' = On(v)
      /\ \A s \in Samples : s \in On(w)' => s \in On(w) \/ s = item[1]
      /\ \A s \in Samples : Saved(s) \/ s = item[1] => Saved(s)' \/ Spoilt'
      /\ Spoilt => Spoilt'
  BY <1>1, <1>2, PendingLine DEF RInv
<1>4. /\ pending'[w] = pending[w] \ {item}
      /\ \A v \in Workers \ {w} : pending'[v] = pending[v]
  BY <1>1 DEF TypeOK
<1>5. \A v \in Workers : pending'[v] \subseteq pending[v]
  BY <1>4
<1>6. \A v \in Workers : \A x \in pending[v] : x[1] \in Samples
  BY DEF TypeOK
<1>7. ASSUME NEW u \in Workers, wpc[u] = "run", NEW x \in pending'[u]
      PROVE  x[1] # item[1] /\ x \in pending[u] /\ x[1] \in Samples
  <2>1. x \in pending[u]
    BY <1>5
  <2>2. x[1] = item[1] => u = w /\ x = item
    BY <1>2, <1>7, <2>1 DEF RInv, PendingOnce
  <2> QED
    BY <1>4, <1>6, <2>1, <2>2
<1>8. PendingOnce'
  <2> SUFFICES ASSUME NEW u \in Workers, wpc'[u] = "run", NEW x \in pending'[u], NEW v \in Workers
               PROVE  /\ x[1] \notin On(v)'
                      /\ wpc'[v] = "run" =>
                           \A other \in pending'[v] : other[1] = x[1] => v = u /\ other = x
    BY DEF PendingOnce
  <2>1. x[1] # item[1] /\ x \in pending[u] /\ x[1] \in Samples /\ wpc[u] = "run"
    BY <1>2, <1>7
  <2>2. x[1] \notin On(v)
    BY <2>1 DEF RInv, PendingOnce
  <2>3. x[1] \notin On(v)'
    BY <1>3, <2>1, <2>2
  <2>4. wpc'[v] = "run" => \A other \in pending'[v] : other[1] = x[1] => v = u /\ other = x
    BY <1>2, <1>5, <2>1 DEF RInv, PendingOnce
  <2> QED
    BY <2>3, <2>4
<1>9. GivenUp'
  <2> SUFFICES ASSUME NEW s \in abandoned
               PROVE  ~Saved(s)' /\ \A v \in Workers : wpc[v] = "run" => \A x \in pending'[v] : x[1] # s
    BY <1>2 DEF GivenUp
  <2>1. /\ s \in Samples /\ ~Saved(s)
        /\ \A v \in Workers : wpc[v] = "run" => \A x \in pending[v] : x[1] # s
    BY <1>2 DEF RInv, GivenUp, TypeOK
  <2>2. s # item[1]
    BY <1>2, <2>1
  <2>3. \A v \in Workers : s \notin On(v)'
    BY <1>3, <2>1, <2>2 DEF Saved
  <2> QED
    BY <1>5, <2>1, <2>3 DEF Saved
<1>10. Covered'
  <2> SUFFICES ASSUME NEW s \in Samples
               PROVE  Spoilt' \/ Saved(s)' \/ s \in abandoned' \/ Pending(s)'
    BY <1>2 DEF Covered
  <2>1. Spoilt \/ Saved(s) \/ s \in abandoned \/ Pending(s)
    BY <1>2 DEF RInv, Covered
  <2>2. CASE s # item[1] /\ Pending(s)
    <3>1. PICK v \in Workers : \E x \in pending[v] : x[1] = s
      BY <2>2 DEF Pending
    <3>2. PICK x \in pending[v] : x[1] = s
      BY <3>1
    <3>3. x \in pending'[v]
      BY <1>4, <2>2, <3>2
    <3> QED
      BY <3>2, <3>3 DEF Pending
  <2> QED
    BY <1>2, <1>3, <2>1, <2>2
<1>11. OnlyJoining' /\ DoneEmpty' /\ MergeAccountsForAll'
  BY <1>2, <1>5 DEF RInv, OnlyJoining, DoneEmpty, MergeAccountsForAll
<1> QED
  BY <1>3, <1>8, <1>9, <1>10, <1>11 DEF RInv

LEMMA RejectKeeps ==
  ASSUME TypeOK, RInv, NEW w \in Workers, Reject(w)
  PROVE  RInv'
<1>1. PICK item \in pending[w] : PutBack(w, item[1], item[2])
  BY DEF Reject
<1>2. wpc[w] = "run" /\ phase = "join" /\ UNCHANGED <<phase, wpc>>
  BY DEF Reject, RInv, OnlyJoining
<1>3. /\ \A v \in Workers : On(v)' = On(v)
      /\ Spoilt' <=> Spoilt
      /\ \A s \in Samples : Saved(s)' <=> Saved(s)
      /\ LinesOnce'
  BY SameDisk DEF Reject, RInv
<1>4. item = <<item[1], item[2]>> /\ item[1] \in Samples
  BY DEF TypeOK
<1>5. \A v \in Workers : \A x \in pending[v] : x[1] \in Samples
  BY DEF TypeOK
<1>6. \A u \in Workers : wpc[u] = "run" => \A x \in pending[u] :
        x[1] = item[1] => u = w /\ x = item
  BY <1>2 DEF RInv, PendingOnce
<1>7. CASE item[2] + 1 < MaxAttempts
  <2> DEFINE again == <<item[1], item[2] + 1>>
  <2>1. pending' = [pending EXCEPT ![w] = (@ \ {item}) \union {again}] /\ abandoned' = abandoned
    BY <1>1, <1>4, <1>7 DEF PutBack
  <2>2. /\ pending'[w] = (pending[w] \ {item}) \union {again}
        /\ \A v \in Workers \ {w} : pending'[v] = pending[v]
    BY <2>1 DEF TypeOK
  <2>3. again[1] = item[1]
    OBVIOUS
  <2> HIDE DEF again
  <2>4. \A u \in Workers : \A x \in pending'[u] : x \in pending[u] \/ (u = w /\ x = again)
    BY <2>2
  <2>5. \A u \in Workers : wpc[u] = "run" => \A x \in pending'[u] :
          /\ x[1] \in Samples
          /\ x[1] = item[1] => u = w /\ x = again
          /\ x[1] # item[1] => x \in pending[u]
    BY <1>4, <1>5, <1>6, <2>2, <2>3, <2>4
  <2>6. PendingOnce'
    <3> SUFFICES ASSUME NEW u \in Workers, wpc[u] = "run", NEW x \in pending'[u], NEW v \in Workers
                 PROVE  /\ x[1] \notin On(v)
                        /\ wpc[v] = "run" =>
                             \A other \in pending'[v] : other[1] = x[1] => v = u /\ other = x
      BY <1>2, <1>3 DEF PendingOnce
    <3>1. item[1] \notin On(v)
      BY <1>2 DEF RInv, PendingOnce
    <3>2. CASE x[1] = item[1]
      BY <2>5, <3>1, <3>2
    <3>3. CASE x[1] # item[1]
      <4>1. x \in pending[u]
        BY <2>5, <3>3
      <4>2. \A other \in pending'[v] : wpc[v] = "run" /\ other[1] = x[1] => other \in pending[v]
        BY <2>5, <3>3
      <4> QED
        BY <4>1, <4>2 DEF RInv, PendingOnce
    <3> QED
      BY <3>2, <3>3
  <2>7. Covered'
    <3> SUFFICES ASSUME NEW s \in Samples, Pending(s) PROVE Pending(s)'
      BY <1>2, <1>3, <2>1 DEF RInv, Covered
    <3>1. CASE s = item[1]
      BY <2>2, <2>3, <3>1 DEF Pending
    <3>2. CASE s # item[1]
      <4>1. PICK v \in Workers : \E x \in pending[v] : x[1] = s
        BY DEF Pending
      <4>2. PICK x \in pending[v] : x[1] = s
        BY <4>1
      <4>3. x \in pending'[v]
        BY <2>2, <3>2, <4>2
      <4> QED
        BY <4>2, <4>3 DEF Pending
    <3> QED
      BY <3>1, <3>2
  <2>8. GivenUp'
    <3> SUFFICES ASSUME NEW s \in abandoned
                 PROVE  /\ ~Saved(s)'
                        /\ \A v \in Workers : wpc[v] = "run" => \A x \in pending'[v] : x[1] # s
      BY <1>2, <2>1 DEF GivenUp
    <3>1. /\ s \in Samples /\ ~Saved(s)
          /\ \A v \in Workers : wpc[v] = "run" => \A x \in pending[v] : x[1] # s
      BY <1>2 DEF RInv, GivenUp, TypeOK
    <3>2. s # item[1]
      BY <1>2, <3>1
    <3> QED
      BY <1>3, <2>5, <3>1, <3>2
  <2>9. DoneEmpty'
    BY <1>2, <2>2 DEF RInv, DoneEmpty
  <2> QED
    BY <1>2, <1>3, <2>6, <2>7, <2>8, <2>9 DEF RInv, OnlyJoining, MergeAccountsForAll
<1>8. CASE ~(item[2] + 1 < MaxAttempts)
  <2>1. /\ pending' = [pending EXCEPT ![w] = @ \ {item}]
        /\ abandoned' = abandoned \union {item[1]}
    BY <1>1, <1>4, <1>8 DEF PutBack
  <2>2. /\ pending'[w] = pending[w] \ {item}
        /\ \A v \in Workers \ {w} : pending'[v] = pending[v]
    BY <2>1 DEF TypeOK
  <2>3. \A v \in Workers : pending'[v] \subseteq pending[v]
    BY <2>2
  <2>4. PendingOnce'
    BY <1>2, <1>3, <2>3 DEF RInv, PendingOnce
  <2>5. Covered'
    <3> SUFFICES ASSUME NEW s \in Samples, s # item[1], Pending(s) PROVE Pending(s)'
      BY <1>2, <1>3, <2>1 DEF RInv, Covered
    <3>1. PICK v \in Workers : \E x \in pending[v] : x[1] = s
      BY DEF Pending
    <3>2. PICK x \in pending[v] : x[1] = s
      BY <3>1
    <3>3. x \in pending'[v]
      BY <2>2, <3>2
    <3> QED
      BY <3>2, <3>3 DEF Pending
  <2>6. GivenUp'
    <3> SUFFICES ASSUME NEW s \in abandoned \union {item[1]}
                 PROVE  /\ ~Saved(s)'
                        /\ \A v \in Workers : wpc[v] = "run" => \A x \in pending'[v] : x[1] # s
      BY <1>2, <2>1 DEF GivenUp
    <3>1. CASE s \in abandoned
      <4>1. /\ s \in Samples /\ ~Saved(s)
            /\ \A v \in Workers : wpc[v] = "run" => \A x \in pending[v] : x[1] # s
        BY <1>2, <3>1 DEF RInv, GivenUp, TypeOK
      <4> QED
        BY <1>3, <2>3, <4>1
    <3>2. CASE s = item[1]
      <4>1. ~Saved(s)
        BY <1>2, <3>2 DEF RInv, PendingOnce, Saved
      <4>2. \A v \in Workers : wpc[v] = "run" => \A x \in pending'[v] : x[1] # s
        BY <1>6, <2>2, <2>3, <3>2
      <4> QED
        BY <1>3, <1>4, <3>2, <4>1, <4>2
    <3> QED
      BY <3>1, <3>2
  <2>7. DoneEmpty'
    BY <1>2, <2>3 DEF RInv, DoneEmpty
  <2> QED
    BY <1>2, <1>3, <2>4, <2>5, <2>6, <2>7 DEF RInv, OnlyJoining, MergeAccountsForAll
<1> QED
  BY <1>7, <1>8

LEMMA ExitKeeps ==
  ASSUME TypeOK, RInv, NEW w \in Workers, Exit(w)
  PROVE  RInv'
<1>1. /\ Spoilt' <=> Spoilt
      /\ \A v \in Workers : On(v)' = On(v)
      /\ \A s \in Samples : Saved(s)' <=> Saved(s)
      /\ LinesOnce'
  BY SameDisk DEF Exit, RInv
<1>2. /\ phase = "join" /\ UNCHANGED <<phase, pending, abandoned>> /\ pending[w] = {}
      /\ wpc'[w] = "ok" /\ \A v \in Workers \ {w} : wpc'[v] = wpc[v]
  BY DEF Exit, RInv, OnlyJoining, TypeOK
<1>3. \A v \in Workers : wpc'[v] = "run" => wpc[v] = "run"
  BY <1>2
<1>4. PendingOnce'
  BY <1>1, <1>2, <1>3 DEF RInv, PendingOnce
<1>5. OnlyJoining' /\ DoneEmpty' /\ MergeAccountsForAll'
  BY <1>2 DEF RInv, OnlyJoining, DoneEmpty, MergeAccountsForAll
<1>6. Covered'
  BY <1>1, <1>2 DEF RInv, Covered, Pending
<1>7. GivenUp'
  BY <1>1, <1>2, <1>3 DEF RInv, GivenUp, TypeOK
<1> QED
  BY <1>1, <1>4, <1>5, <1>6, <1>7 DEF RInv

LEMMA DieKeeps ==
  ASSUME TypeOK, UnendedLine, RInv, NEW w \in Workers, Die(w)
  PROVE  RInv'
<1>1. /\ wpc[w] = "run" /\ phase = "join" /\ CutShort(w)
      /\ UNCHANGED <<phase, pending, abandoned>>
      /\ wpc'[w] = "failed" /\ \A v \in Workers \ {w} : wpc'[v] = wpc[v]
  BY DEF Die, RInv, OnlyJoining, TypeOK
<1>2. /\ LinesOnce'
      /\ \A v \in Workers \ {w} : On(v)' = On(v)
      /\ \A s \in Samples : s \in On(w)' => s \in On(w) \/ \E item \in pending[w] : s = item[1]
      /\ \A s \in Samples : Saved(s) => Saved(s)' \/ Spoilt'
      /\ Spoilt => Spoilt'
  BY <1>1, LostLine DEF RInv
<1>3. PendingOnce'
  <2> SUFFICES ASSUME NEW u \in Workers, wpc'[u] = "run", NEW x \in pending[u], NEW v \in Workers
               PROVE  /\ x[1] \notin On(v)'
                      /\ wpc'[v] = "run" =>
                           \A other \in pending[v] : other[1] = x[1] => v = u /\ other = x
    BY <1>1 DEF PendingOnce
  <2>1. u # w /\ wpc[u] = "run" /\ x[1] \in Samples
    BY <1>1 DEF TypeOK
  <2>2. x[1] \notin On(v) /\ \A item \in pending[w] : item[1] # x[1]
    BY <1>1, <2>1 DEF RInv, PendingOnce
  <2>3. x[1] \notin On(v)'
    BY <1>2, <2>1, <2>2
  <2>4. wpc'[v] = "run" => \A other \in pending[v] : other[1] = x[1] => v = u /\ other = x
    BY <1>1, <2>1 DEF RInv, PendingOnce
  <2> QED
    BY <2>3, <2>4
<1>4. GivenUp'
  <2> SUFFICES ASSUME NEW s \in abandoned
               PROVE  ~Saved(s)' /\ \A v \in Workers : wpc'[v] = "run" => \A x \in pending[v] : x[1] # s
    BY <1>1 DEF GivenUp
  <2>1. /\ s \in Samples /\ ~Saved(s)
        /\ \A v \in Workers : wpc[v] = "run" => \A x \in pending[v] : x[1] # s
    BY <1>1 DEF RInv, GivenUp, TypeOK
  <2>2. \A v \in Workers : s \notin On(v)'
    BY <1>1, <1>2, <2>1 DEF Saved
  <2> QED
    BY <1>1, <2>1, <2>2 DEF Saved
<1>5. OnlyJoining' /\ DoneEmpty' /\ MergeAccountsForAll'
  BY <1>1 DEF RInv, OnlyJoining, DoneEmpty, MergeAccountsForAll
<1>6. Covered'
  BY <1>1, <1>2 DEF RInv, Covered, Pending
<1> QED
  BY <1>2, <1>3, <1>4, <1>5, <1>6 DEF RInv

LEMMA KilledKeeps ==
  ASSUME TypeOK, UnendedLine, RInv, Killed
  PROVE  RInv'
<1>1. phase' = "off" /\ UNCHANGED pending /\ \A w \in Workers : wpc'[w] = "off"
  BY DEF Killed
<1>2. LinesOnce'
  <2> SUFFICES ASSUME NEW v \in Workers, NEW u \in Workers,
                      NEW i \in DOMAIN file'[v], NEW j \in DOMAIN file'[u],
                      file'[v][i] = file'[u][j], file'[v][i] \in Samples
               PROVE  v = u /\ i = j
    BY DEF LinesOnce
  <2> DEFINE old(w, k) == k \in DOMAIN file[w] /\ file'[w][k] = file[w][k] /\ file[w][k] \in On(w)
             new(w, k) == /\ wpc[w] = "run" /\ k = Len(file[w]) + 1
                          /\ \E item \in pending[w] : file'[w][k] = item[1]
  <2>1. old(v, i) \/ new(v, i)
    BY KilledFiles, LinesOn
  <2>2. old(u, j) \/ new(u, j)
    BY KilledFiles, LinesOn
  <2>3. CASE old(v, i) /\ old(u, j)
    BY <2>3 DEF RInv, LinesOnce
  <2>4. ~(new(v, i) /\ old(u, j)) /\ ~(old(v, i) /\ new(u, j))
    BY DEF RInv, PendingOnce
  <2>5. CASE new(v, i) /\ new(u, j)
    BY <2>5 DEF RInv, PendingOnce
  <2> QED
    BY <2>1, <2>2, <2>3, <2>4, <2>5
<1>3. OnlyJoining' /\ DoneEmpty' /\ PendingOnce' /\ Covered' /\ GivenUp' /\ MergeAccountsForAll'
  BY <1>1 DEF OnlyJoining, DoneEmpty, PendingOnce, Covered, GivenUp, MergeAccountsForAll
<1> QED
  BY <1>2, <1>3 DEF RInv

LEMMA RInvStep ==
  ASSUME OneCount, TypeOK, UnendedLine, RInv, [Next]_vars
  PROVE  RInv'
<1>1. CASE UNCHANGED vars
  <2>1. LinesOnce' /\ \A s \in Samples : Saved(s)' <=> Saved(s)
    BY <1>1, SameDisk DEF vars, disk, RInv
  <2>2. PendingOnce'
    BY <1>1 DEF vars, RInv, PendingOnce, On
  <2>3. Covered'
    BY <1>1 DEF vars, RInv, Covered, Spoilt, Saved, On, Pending
  <2>4. OnlyJoining' /\ DoneEmpty' /\ MergeAccountsForAll'
    BY <1>1 DEF vars, RInv, OnlyJoining, DoneEmpty, MergeAccountsForAll
  <2>5. GivenUp'
    BY <1>1, <2>1 DEF vars, RInv, GivenUp, TypeOK
  <2> QED
    BY <2>1, <2>2, <2>3, <2>4, <2>5 DEF RInv
<1>2. CASE Main
  BY <1>2, BeginKeeps, JoinKeeps, MergeKeeps, WriteOutputKeeps DEF Main
<1>3. ASSUME NEW w \in Workers, Save(w) \/ Reject(w) \/ Exit(w) \/ Die(w) PROVE RInv'
  BY <1>3, SaveKeeps, RejectKeeps, ExitKeeps, DieKeeps
<1>4. CASE Killed
  BY <1>4, KilledKeeps
<1> QED
  BY <1>1, <1>2, <1>3, <1>4 DEF Next

LEMMA RunsKeepRInv ==
  ASSUME OneCount
  PROVE  Spec => []RInv
<1>1. TypeOK /\ UnendedLine /\ RInv /\ [Next]_vars => (TypeOK /\ UnendedLine /\ RInv)'
  BY TypesStep, RInvStep
<1>2. Init => TypeOK /\ UnendedLine /\ RInv
  BY InitTypes, InitRInv
<1> QED
  BY <1>1, <1>2, PTL DEF Spec

\* With one number of workers, no sample is generated that a file already
\* holds or another worker has (vllm_rollout.py:398, 430).
THEOREM Once ==
  ASSUME OneCount
  PROVE  Spec => []PendingOnce
<1>1. RInv => PendingOnce
  BY DEF RInv
<1> QED
  BY <1>1, RunsKeepRInv, PTL

\* With one number of workers, the merge (vllm_rollout.py:492) writes each
\* sample once, but for those this very run gave up.
THEOREM Accounts ==
  ASSUME OneCount
  PROVE  Spec => []MergeAccountsForAll
<1>1. RInv => MergeAccountsForAll
  BY DEF RInv
<1> QED
  BY <1>1, RunsKeepRInv, PTL
=============================================================================
