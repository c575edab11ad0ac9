-------------------------- MODULE ValGeneration_proofs -----------------------
(***************************************************************************)
(* Proofs about the generation of validation responses, for any numbers of *)
(* tasks, workers, rollouts and examples, and any number of workers that   *)
(* fail and of kills of the main process.                                  *)
(***************************************************************************)
EXTENDS ValGeneration, Listing_proofs

-----------------------------------------------------------------------------
(***************************************************************************)
(* The inductive invariant: what a worker has made, what the main process  *)
(* has collected and what a closed file holds are whole rollouts, each     *)
(* with one response to every example.                                     *)
(***************************************************************************)
AllRollouts == 0 .. Rollouts - 1
Response == [example : 1 .. Examples, rollout : AllRollouts]
Output == [there : BOOLEAN, lines : Seq(Response), torn : BOOLEAN, closed : BOOLEAN]

Complete(s, R) ==
  /\ s \in Seq(Response) /\ IsInjective(s)
  /\ R \subseteq AllRollouts
  /\ Range(s) = [example : 1 .. Examples, rollout : R]

GenTyped ==
  /\ genAt \in {"down", "pick", "work", "write", "over"}
  /\ task \in Nat \ {0}
  /\ made \in [Gpus -> Seq(Response)] /\ back \in [Gpus -> BOOLEAN]
  /\ files \in [1 .. Tasks -> Output]
  /\ workerFails \in Nat

\* what there is at every place of main()
GenShape ==
  /\ genAt # "work" => \A w \in Gpus : back[w]
  /\ \A w \in Gpus : back[w] => made[w] = <<>>
  /\ genAt \notin {"work", "write"} => collected = <<>>
  /\ genAt \in {"work", "write"} => task \in 1 .. Tasks /\ ~files[task].closed

\* the first k rollouts of a worker
FirstOf(w, k) == {ShareOf(w)[j] : j \in 1 .. k}

MadeWhole ==
  \A w \in Gpus : \E k \in 0 .. Len(ShareOf(w)) :
    Len(made[w]) = k * Examples /\ Complete(made[w], FirstOf(w, k))

\* Rollouts are collected once their worker is back, and all of them then are,
\* unless a worker has failed.
CollectedWhole ==
  \E R \in SUBSET AllRollouts :
    /\ Complete(collected, R)
    /\ \A r \in R : back[r % Workers]
    /\ workerFails = 0 /\ genAt \in {"work", "write"} =>
         \A r \in AllRollouts : back[r % Workers] => r \in R

FilesWhole ==
  \A t \in 1 .. Tasks :
    /\ IsInjective(files[t].lines)
    /\ files[t].closed =>
         /\ files[t].there
         /\ \E R \in SUBSET AllRollouts :
              Complete(files[t].lines, R) /\ (workerFails = 0 => R = AllRollouts)

GenInv == GenTyped /\ GenShape /\ MadeWhole /\ CollectedWhole /\ FilesWhole

-----------------------------------------------------------------------------
(***************************************************************************)
(* Arithmetic of rows and columns.                                         *)
(***************************************************************************)
LEMMA TimesMonotone ==
  ASSUME NEW a \in Nat, NEW b \in Nat, NEW n \in Nat \ {0}
  PROVE  /\ a <= b => a * n <= b * n
         /\ a * n = b * n => a = b
         /\ a * n < b * n => a < b
         /\ a * n \in Nat
OBVIOUS

LEMMA InWindow ==
  ASSUME NEW a \in Nat, NEW d \in Nat, NEW n \in Nat \ {0}, d * n <= a, a < (d + 1) * n
  PROVE  a \div n = d
OBVIOUS

LEMMA Remainders ==
  ASSUME NEW r \in Nat, NEW n \in Nat \ {0}
  PROVE  r % n \in 0 .. n - 1
OBVIOUS

(***************************************************************************)
(* Complete sequences.                                                     *)
(***************************************************************************)
LEMMA GenConstants ==
  /\ Tasks \in Nat /\ Rollouts \in Nat /\ Examples \in Nat \ {0} /\ Workers \in Nat \ {0}
  /\ AllRollouts \in SUBSET Nat /\ IsFiniteSet(AllRollouts)
  /\ Cardinality(AllRollouts) = Rollouts
<1>1. /\ Tasks \in Nat /\ Rollouts \in Nat /\ Examples \in Nat \ {0} /\ Workers \in Nat \ {0}
      /\ AllRollouts \in SUBSET Nat
  BY GenerationAssumption DEF AllRollouts
<1>2. 0 \in Int /\ Rollouts - 1 \in Int
  BY <1>1
<1>3. /\ IsFiniteSet(AllRollouts)
      /\ Cardinality(AllRollouts)
           = IF 0 > Rollouts - 1 THEN 0 ELSE Rollouts - 1 - 0 + 1
  BY ONLY <1>2, FS_Interval DEF AllRollouts
<1>4. (IF 0 > Rollouts - 1 THEN 0 ELSE Rollouts - 1 - 0 + 1) = Rollouts
  BY <1>1
<1> QED
  BY <1>1, <1>3, <1>4

LEMMA NothingComplete ==
  Complete(<<>>, {}) /\ \A R : Complete(<<>>, R) => R = {}
<1>1. Range(<<>>) = {} /\ IsInjective(<<>>)
  BY ShortSeqs
<1>2. <<>> \in Seq(Response)
  OBVIOUS
<1>3. Complete(<<>>, {})
  BY <1>1, <1>2 DEF Complete
<1>4. ASSUME NEW R, NEW r \in R, Complete(<<>>, R)
      PROVE  FALSE
  <2>1. [example |-> 1, rollout |-> r] \in [example : 1 .. Examples, rollout : R]
    BY <1>4, GenConstants
  <2> QED
    BY <1>1, <1>4, <2>1 DEF Complete
<1> QED
  BY <1>3, <1>4

LEMMA CompleteTyped ==
  ASSUME NEW s, NEW R, Complete(s, R)
  PROVE  /\ s \in Seq(Response) /\ Len(s) \in Nat
         /\ \A q \in 1 .. Len(s) : s[q].example \in 1 .. Examples
<1>1. s \in Seq(Response) /\ Len(s) \in Nat
  BY DEF Complete
<1>2. \A q \in 1 .. Len(s) : s[q] \in Response
  BY <1>1
<1>3. \A x \in Response : x.example \in 1 .. Examples
  BY DEF Response
<1> QED
  BY <1>1, <1>2, <1>3

\* gen_vllm.py: one call of generate answers every example once.
LEMMA RoundComplete ==
  ASSUME NEW r \in AllRollouts
  PROVE  LET round == [e \in 1 .. Examples |-> [example |-> e, rollout |-> r]]
         IN  Complete(round, {r}) /\ Len(round) = Examples
<1> DEFINE round == [e \in 1 .. Examples |-> [example |-> e, rollout |-> r]]
<1>1. Examples \in Nat
  BY GenConstants
<1>2. \A e \in 1 .. Examples : round[e] \in Response /\ round[e].example = e
  BY DEF Response
<1>3. round \in Seq(Response) /\ Len(round) = Examples /\ DOMAIN round = 1 .. Examples
  BY <1>1, <1>2
<1>4. Range(round) = [example : 1 .. Examples, rollout : {r}]
  <2>1. Range(round) = {[example |-> e, rollout |-> r] : e \in 1 .. Examples}
    BY DEF Range
  <2>2. ASSUME NEW x \in [example : 1 .. Examples, rollout : {r}]
        PROVE  x = [example |-> x.example, rollout |-> r] /\ x.example \in 1 .. Examples
    OBVIOUS
  <2>3. [example : 1 .. Examples, rollout : {r}] \subseteq Range(round)
    BY <2>1, <2>2
  <2>4. Range(round) \subseteq [example : 1 .. Examples, rollout : {r}]
    BY <2>1
  <2> QED
    BY <2>3, <2>4
<1>5. IsInjective(round)
  BY <1>2, <1>3 DEF IsInjective
<1> QED
  BY <1>3, <1>4, <1>5 DEF Complete

LEMMA CompleteJoined ==
  ASSUME NEW s, NEW t, NEW R, NEW T, Complete(s, R), Complete(t, T), R \cap T = {}
  PROVE  Complete(s \o t, R \cup T) /\ Len(s \o t) = Len(s) + Len(t)
<1>1. /\ s \in Seq(Response) /\ IsInjective(s) /\ R \subseteq AllRollouts
      /\ t \in Seq(Response) /\ IsInjective(t) /\ T \subseteq AllRollouts
      /\ Range(s) = [example : 1 .. Examples, rollout : R]
      /\ Range(t) = [example : 1 .. Examples, rollout : T]
  BY DEF Complete
<1>2. Range(s) \cap Range(t) = {}
  BY <1>1
<1> DEFINE cells(S) == [example : 1 .. Examples, rollout : S]
<1>3. Range(s) \cup Range(t) = cells(R \cup T)
  <2>1. \A x \in cells(R \cup T) : x \in cells(R) \/ x \in cells(T)
    OBVIOUS
  <2>2. \A x \in cells(R) \cup cells(T) : x \in cells(R \cup T)
    OBVIOUS
  <2>3. Range(s) = cells(R) /\ Range(t) = cells(T)
    BY <1>1
  <2> HIDE DEF cells
  <2> QED
    BY <2>1, <2>2, <2>3
<1>4. /\ s \o t \in Seq(Response) /\ Len(s \o t) = Len(s) + Len(t)
      /\ Range(s \o t) = Range(s) \cup Range(t) /\ IsInjective(s \o t)
  <2>1. s \in Seq(Response) /\ t \in Seq(Response)
    BY <1>1
  <2> HIDE DEF cells
  <2>2. /\ s \o t \in Seq(Response) /\ Len(s \o t) = Len(s) + Len(t)
        /\ Range(s \o t) = Range(s) \cup Range(t)
        /\ IsInjective(s) /\ IsInjective(t) /\ Range(s) \cap Range(t) = {} =>
             IsInjective(s \o t)
    BY ONLY <2>1, Joined
  <2> QED
    BY <1>1, <1>2, <2>2
<1> QED
  BY <1>1, <1>3, <1>4 DEF Complete

\* In a complete sequence e examples have e responses to every rollout.
LEMMA CompleteUpTo ==
  ASSUME NEW s, NEW R, Complete(s, R), NEW e \in 0 .. Examples
  PROVE  /\ Cardinality({q \in 1 .. Len(s) : s[q].example <= e}) = e * Cardinality(R)
         /\ Cardinality(R) \in Nat
<1> DEFINE Q == {q \in 1 .. Len(s) : s[q].example <= e}
           f == [q \in Q |-> <<s[q].example, s[q].rollout>>]
           cells == (1 .. e) \X R
<1>1. /\ s \in Seq(Response) /\ DOMAIN s = 1 .. Len(s) /\ Len(s) \in Nat
      /\ IsInjective(s) /\ R \subseteq AllRollouts
      /\ Range(s) = [example : 1 .. Examples, rollout : R]
      /\ Examples \in Nat
  BY GenConstants DEF Complete
<1>2. ASSUME NEW q \in 1 .. Len(s)
      PROVE  s[q] \in [example : 1 .. Examples, rollout : R]
  BY <1>1 DEF Range
<1>3. ASSUME NEW q \in Q
      PROVE  f[q] \in cells
  BY <1>1, <1>2
<1>4. ASSUME NEW p \in Q, NEW q \in Q, f[p] = f[q]
      PROVE  p = q
  <2>1. s[p].example = s[q].example /\ s[p].rollout = s[q].rollout
    BY <1>4
  <2>2. s[p] = s[q]
    BY <1>2, <2>1
  <2> QED
    BY <1>1, <2>2 DEF IsInjective
<1>5. ASSUME NEW c \in cells
      PROVE  \E q \in Q : f[q] = c
  <2>1. PICK d \in 1 .. e, r \in R : c = <<d, r>>
    OBVIOUS
  <2>2. [example |-> d, rollout |-> r] \in Range(s)
    BY <1>1
  <2>3. PICK q \in 1 .. Len(s) : s[q] = [example |-> d, rollout |-> r]
    BY <1>1, <2>2 DEF Range
  <2>4. q \in Q
    BY <2>3
  <2> QED
    BY <2>1, <2>3, <2>4
<1> HIDE DEF cells
<1>6. f \in Bijection(Q, cells)
  BY <1>3, <1>4, <1>5 DEF Bijection, Injection, Surjection, IsInjective
<1> HIDE DEF f
<1>7. IsFiniteSet(Q)
  <2>1. IsFiniteSet(1 .. Len(s)) /\ Q \in SUBSET (1 .. Len(s))
    BY <1>1, FS_Interval
  <2> HIDE DEF Q
  <2> QED
    BY <2>1, FS_Subset
<1> HIDE DEF Q
<1>8. Cardinality(cells) = Cardinality(Q)
  BY <1>6, <1>7, FS_Bijection DEF ExistsBijection
<1>9. IsFiniteSet(R) /\ Cardinality(R) \in Nat
  BY <1>1, GenConstants, FS_Subset, FS_CardinalityType
<1>10. IsFiniteSet(1 .. e) /\ Cardinality(1 .. e) = e
  <2>1. 1 \in Int /\ e \in Int
    OBVIOUS
  <2>2. IsFiniteSet(1 .. e) /\ Cardinality(1 .. e) = IF 1 > e THEN 0 ELSE e - 1 + 1
    BY ONLY <2>1, FS_Interval
  <2> QED
    BY <2>2
<1>11. Cardinality(cells) = e * Cardinality(R)
  BY <1>9, <1>10, FS_Product DEF cells
<1> QED
  BY <1>8, <1>9, <1>11 DEF Q

(***************************************************************************)
(* The shares of the workers.                                              *)
(***************************************************************************)

\* split_rollout_ids: the worker gets the rollouts of its remainder, each once.
LEMMA ShareProperties ==
  ASSUME NEW w \in Gpus
  PROVE  /\ ShareOf(w) \in Seq(AllRollouts) /\ Len(ShareOf(w)) \in Nat
         /\ \A j \in 1 .. Len(ShareOf(w)) : ShareOf(w)[j] % Workers = w
         /\ \A i, j \in 1 .. Len(ShareOf(w)) : ShareOf(w)[i] = ShareOf(w)[j] => i = j
         /\ \A r \in AllRollouts : r % Workers = w =>
              r \in FirstOf(w, Len(ShareOf(w)))
<1> DEFINE S == {r \in AllRollouts : r % Workers = w}
           n == Cardinality(S)
<1>1. S \in SUBSET Nat /\ S \in SUBSET AllRollouts
  BY GenConstants
<1>2. ShareOf(w) = Ascending(S)
  BY DEF ShareOf, AllRollouts
<1>3. \A r \in S : r \in AllRollouts /\ r % Workers = w
  OBVIOUS
<1>4. \A r \in AllRollouts : r % Workers = w => r \in S
  OBVIOUS
<1> HIDE DEF S
<1>5. IsFiniteSet(S)
  BY <1>1, GenConstants, FS_Subset
<1>6. /\ n \in Nat /\ Ascending(S) \in Seq(S) /\ Len(Ascending(S)) = n
      /\ \A j, k \in 1 .. n : Ascending(S)[j] = Ascending(S)[k] => j = k
      /\ \A x \in S : \E k \in 1 .. n : Ascending(S)[k] = x
  BY ONLY <1>1, <1>5, AscendingProperties
<1> HIDE DEF n
<1>7. /\ ShareOf(w) \in Seq(S) /\ Len(ShareOf(w)) = n
      /\ \A j \in 1 .. n : ShareOf(w)[j] \in S
      /\ \A j, k \in 1 .. n : ShareOf(w)[j] = ShareOf(w)[k] => j = k
      /\ \A x \in S : \E k \in 1 .. n : ShareOf(w)[k] = x
  BY <1>2, <1>6
<1>8. ShareOf(w) \in Seq(AllRollouts)
  <2> DEFINE share == ShareOf(w)
  <2>1. share \in Seq(S) /\ S \subseteq AllRollouts
    BY <1>1, <1>7
  <2> HIDE DEF share
  <2>2. share \in Seq(AllRollouts)
    BY ONLY <2>1
  <2> QED
    BY <2>2 DEF share
<1>9. \A x \in S : x \in FirstOf(w, n)
  BY <1>7 DEF FirstOf
<1> QED
  BY <1>3, <1>4, <1>6, <1>7, <1>8, <1>9

LEMMA FirstOfProperties ==
  ASSUME NEW w \in Gpus, NEW k \in 0 .. Len(ShareOf(w))
  PROVE  /\ FirstOf(w, k) \subseteq AllRollouts
         /\ \A r \in FirstOf(w, k) : r % Workers = w
         /\ FirstOf(w, 0) = {}
         /\ k < Len(ShareOf(w)) =>
              /\ FirstOf(w, k + 1) = FirstOf(w, k) \cup {ShareOf(w)[k + 1]}
              /\ ShareOf(w)[k + 1] \in AllRollouts \ FirstOf(w, k)
<1>1. /\ ShareOf(w) \in Seq(AllRollouts) /\ Len(ShareOf(w)) \in Nat
      /\ \A j \in 1 .. Len(ShareOf(w)) : ShareOf(w)[j] \in AllRollouts
      /\ \A j \in 1 .. Len(ShareOf(w)) : ShareOf(w)[j] % Workers = w
      /\ \A i, j \in 1 .. Len(ShareOf(w)) : ShareOf(w)[i] = ShareOf(w)[j] => i = j
  BY ShareProperties
<1>2. \A j \in 1 .. k : j \in 1 .. Len(ShareOf(w)) /\ j # k + 1
  BY <1>1
<1>3. ASSUME k < Len(ShareOf(w))
      PROVE  /\ FirstOf(w, k + 1) = FirstOf(w, k) \cup {ShareOf(w)[k + 1]}
             /\ ShareOf(w)[k + 1] \in AllRollouts \ FirstOf(w, k)
  <2>1. k + 1 \in 1 .. Len(ShareOf(w))
    BY <1>1, <1>3
  <2>2. \A j : j \in 1 .. k + 1 <=> j \in 1 .. k \/ j = k + 1
    BY <1>1
  <2>3. ShareOf(w)[k + 1] \notin FirstOf(w, k)
    BY <1>1, <1>2, <2>1 DEF FirstOf
  <2> QED
    BY <1>1, <2>1, <2>2, <2>3 DEF FirstOf
<1>4. FirstOf(w, 0) = {}
  BY DEF FirstOf
<1> QED
  BY <1>1, <1>2, <1>3, <1>4 DEF FirstOf

(***************************************************************************)
(* The steps, one lemma per part.                                          *)
(***************************************************************************)
LEMMA EmptyResults ==
  ASSUME NEW w \in Gpus
  PROVE  \E k \in 0 .. Len(ShareOf(w)) :
           Len(<<>>) = k * Examples /\ Complete(<<>>, FirstOf(w, k))
<1>1. 0 \in 0 .. Len(ShareOf(w)) /\ 0 * Examples = 0
  BY ShareProperties, GenConstants
<1>2. FirstOf(w, 0) = {} /\ Len(<<>>) = 0
  BY DEF FirstOf
<1> QED
  BY <1>1, <1>2, NothingComplete

\* One call more of a worker.
LEMMA RespondsWhole ==
  ASSUME GenTyped, MadeWhole, NEW w \in Gpus, Responds(w)
  PROVE  /\ made' = [made EXCEPT ![w] = made'[w]]
         /\ made'[w] \in Seq(Response)
         /\ \E k \in 0 .. Len(ShareOf(w)) :
              Len(made'[w]) = k * Examples /\ Complete(made'[w], FirstOf(w, k))
<1>1. PICK k \in 0 .. Len(ShareOf(w)) :
        Len(made[w]) = k * Examples /\ Complete(made[w], FirstOf(w, k))
  BY DEF MadeWhole
<1>2. k \in Nat /\ Len(ShareOf(w)) \in Nat /\ Examples \in Nat \ {0}
  BY ShareProperties, GenConstants
<1>3. k < Len(ShareOf(w))
  <2>1. k * Examples < Len(ShareOf(w)) * Examples
    BY <1>1 DEF Responds
  <2> QED
    BY <1>2, <2>1, TimesMonotone
<1>4. Len(made[w]) \div Examples = k
  <2>1. k * Examples <= k * Examples /\ k * Examples < (k + 1) * Examples /\ k * Examples \in Nat
    BY <1>2
  <2> QED
    BY <1>1, <1>2, <2>1, InWindow
<1> DEFINE r == ShareOf(w)[1 + k]
           round == [e \in 1 .. Examples |-> [example |-> e, rollout |-> r]]
<1>5. made' = [made EXCEPT ![w] = made[w] \o round]
  BY <1>4 DEF Responds
<1>6. made'[w] = made[w] \o round
  BY <1>5 DEF GenTyped
<1>7. 1 + k = k + 1
  BY <1>2
<1>8. r \in AllRollouts \ FirstOf(w, k) /\ FirstOf(w, k + 1) = FirstOf(w, k) \cup {r}
  BY <1>3, <1>7, FirstOfProperties
<1>9. Complete(round, {r}) /\ Len(round) = Examples
  BY <1>8, RoundComplete
<1> HIDE DEF round, r
<1>10. FirstOf(w, k) \cap {r} = {}
  BY <1>8
<1>11. /\ Complete(made'[w], FirstOf(w, k + 1))
       /\ Len(made'[w]) = Len(made[w]) + Len(round)
  <2>1. /\ Complete(made[w] \o round, FirstOf(w, k) \cup {r})
        /\ Len(made[w] \o round) = Len(made[w]) + Len(round)
    BY <1>1, <1>9, <1>10, CompleteJoined
  <2> QED
    BY <1>6, <1>8, <2>1
<1>12. k + 1 \in 0 .. Len(ShareOf(w)) /\ Len(made'[w]) = (k + 1) * Examples
  BY <1>1, <1>2, <1>3, <1>9, <1>11
<1> QED
  BY <1>5, <1>6, <1>11, <1>12 DEF Complete

\* A worker without results, whose future is read or not there, leaves none.
LEMMA NobodyWorks ==
  ASSUME GenTyped, made' = [w \in Gpus |-> <<>>], back' = [w \in Gpus |-> TRUE]
  PROVE  /\ made' \in [Gpus -> Seq(Response)] /\ back' \in [Gpus -> BOOLEAN]
         /\ \A w \in Gpus : back'[w] /\ made'[w] = <<>>
         /\ MadeWhole'
<1>1. <<>> \in Seq(Response)
  OBVIOUS
<1>2. \A w \in Gpus : made'[w] = <<>>
  OBVIOUS
<1>3. MadeWhole'
  BY <1>2, EmptyResults DEF MadeWhole
<1> QED
  BY <1>1, <1>3

\* A future is read: the rollouts that its worker has come to all the others.
LEMMA ReadsWhole ==
  ASSUME GenInv, NEW w \in Gpus, Reads(w),
         workerFails' = 0 => Len(made[w]) = Len(ShareOf(w)) * Examples,
         workerFails' = 0 => workerFails = 0
  PROVE  MadeWhole' /\ CollectedWhole'
<1>0. /\ GenTyped /\ GenShape /\ MadeWhole /\ CollectedWhole
  BY DEF GenInv
<1>1. /\ made' = [made EXCEPT ![w] = <<>>] /\ back' = [back EXCEPT ![w] = TRUE]
      /\ collected' = collected \o made[w] /\ ~back[w] /\ genAt = "work" /\ genAt' = "work"
  BY DEF Reads
<1>2. /\ made'[w] = <<>> /\ back'[w] = TRUE
      /\ \A v \in Gpus : v # w => made'[v] = made[v] /\ back'[v] = back[v]
  BY <1>0, <1>1 DEF GenTyped
<1>3. MadeWhole'
  <2> SUFFICES ASSUME NEW v \in Gpus
               PROVE  \E k \in 0 .. Len(ShareOf(v)) :
                        Len(made'[v]) = k * Examples /\ Complete(made'[v], FirstOf(v, k))
    BY DEF MadeWhole
  <2>1. CASE v = w
    BY <1>2, <2>1, EmptyResults
  <2>2. CASE v # w
    BY <1>0, <1>2, <2>2 DEF MadeWhole
  <2> QED
    BY <2>1, <2>2
<1>4. PICK k \in 0 .. Len(ShareOf(w)) :
        Len(made[w]) = k * Examples /\ Complete(made[w], FirstOf(w, k))
  BY <1>0 DEF MadeWhole
<1>5. PICK R \in SUBSET AllRollouts :
        /\ Complete(collected, R)
        /\ \A r \in R : back[r % Workers]
        /\ workerFails = 0 => \A r \in AllRollouts : back[r % Workers] => r \in R
  BY <1>0, <1>1 DEF CollectedWhole
<1> DEFINE all == R \cup FirstOf(w, k)
<1>6. FirstOf(w, k) \subseteq AllRollouts /\ \A r \in FirstOf(w, k) : r % Workers = w
  BY FirstOfProperties
<1>7. R \cap FirstOf(w, k) = {}
  BY <1>1, <1>5, <1>6
<1>8. Complete(collected', all)
  BY <1>1, <1>4, <1>5, <1>7, CompleteJoined
<1>9. \A r \in AllRollouts : r % Workers \in Gpus
  BY GenConstants, Remainders DEF Gpus
<1>10. \A r \in all : back'[r % Workers]
  BY <1>2, <1>5, <1>6, <1>9
<1>11. ASSUME workerFails' = 0, NEW r \in AllRollouts, back'[r % Workers]
       PROVE  r \in all
  <2>1. CASE r % Workers = w
    <3>1. k * Examples = Len(ShareOf(w)) * Examples
      BY <1>4, <1>11
    <3>2. k = Len(ShareOf(w))
      <4>1. k \in Nat /\ Len(ShareOf(w)) \in Nat /\ Examples \in Nat \ {0}
        BY ShareProperties, GenConstants
      <4> QED
        BY <3>1, <4>1, TimesMonotone
    <3> QED
      BY <2>1, <3>2, ShareProperties
  <2>2. CASE r % Workers # w
    BY <1>2, <1>5, <1>9, <1>11, <2>2
  <2> QED
    BY <2>1, <2>2
<1>12. all \in SUBSET AllRollouts
  BY <1>6
<1> HIDE DEF all
<1>13. CollectedWhole'
  BY <1>8, <1>10, <1>11, <1>12 DEF CollectedWhole
<1> QED
  BY <1>3, <1>13

LEMMA FilesKept ==
  ASSUME FilesWhole, UNCHANGED files, workerFails' = 0 => workerFails = 0
  PROVE  FilesWhole'
BY DEF FilesWhole

LEMMA InitGenInv == GenInit => GenInv
<1> SUFFICES ASSUME GenInit
             PROVE  GenInv
  OBVIOUS
<1>1. /\ genAt = "down" /\ task = 1 /\ collected = <<>> /\ workerFails = 0
      /\ \A w \in Gpus : made[w] = <<>> /\ back[w]
      /\ \A t \in 1 .. Tasks : files[t] = NoOutput
  BY DEF GenInit
<1>2. <<>> \in Seq(Response) /\ IsInjective(<<>>)
  BY ShortSeqs
<1>3. NoOutput \in Output
  BY <1>2 DEF NoOutput, Output
<1>4. GenTyped
  <2>1. made \in [Gpus -> Seq(Response)] /\ back \in [Gpus -> BOOLEAN]
    BY <1>2 DEF GenInit
  <2>2. files \in [1 .. Tasks -> Output]
    <3> HIDE DEF Output, NoOutput
    <3> QED
      BY <1>3 DEF GenInit
  <2> QED
    BY <1>1, <2>1, <2>2 DEF GenTyped
<1>5. GenShape
  BY <1>1 DEF GenShape
<1>6. MadeWhole
  BY <1>1, EmptyResults DEF MadeWhole
<1>7. CollectedWhole
  BY <1>1, NothingComplete DEF CollectedWhole
<1>8. FilesWhole
  BY <1>1, <1>2 DEF FilesWhole, NoOutput
<1> QED
  BY <1>4, <1>5, <1>6, <1>7, <1>8 DEF GenInv

LEMMA NextGenInv == GenInv /\ [GenNext]_genVars => GenInv'
<1> SUFFICES ASSUME GenInv, [GenNext]_genVars
             PROVE  GenInv'
  OBVIOUS
<1>0. /\ GenTyped /\ GenShape /\ MadeWhole /\ CollectedWhole /\ FilesWhole
      /\ workerFails \in Nat
  BY DEF GenInv, GenTyped
<1>a. ASSUME UNCHANGED <<made, back, collected, workerFails>>,
             genAt' \in {"work", "write"} => genAt \in {"work", "write"}
      PROVE  MadeWhole' /\ CollectedWhole'
  BY <1>0, <1>a DEF MadeWhole, CollectedWhole
<1>1. CASE GenStarts \/ SkipsTask \/ GenEnds
  <2>1. /\ UNCHANGED <<made, back, collected, files, workerFails>>
        /\ genAt' \in {"pick", "over"} /\ task' \in Nat \ {0}
        /\ genAt \in {"down", "over", "pick"}
    BY <1>0, <1>1 DEF GenStarts, SkipsTask, GenEnds, GenTyped
  <2>2. GenTyped' /\ GenShape'
    BY <1>0, <2>1 DEF GenTyped, GenShape
  <2>3. MadeWhole' /\ CollectedWhole' /\ FilesWhole'
    BY <1>0, <1>a, <2>1, FilesKept
  <2> QED
    BY <2>2, <2>3 DEF GenInv
<1>2. CASE Submits
  <2>1. /\ UNCHANGED <<task, made, collected, files, workerFails>>
        /\ genAt = "pick" /\ genAt' = "work" /\ task <= Tasks /\ ~files[task].there
        /\ back' = [w \in Gpus |-> FALSE]
    BY <1>2 DEF Submits
  <2>2. task \in 1 .. Tasks
    BY <1>0, <2>1, GenConstants DEF GenTyped
  <2>3. ~files[task].closed
    BY <1>0, <2>1, <2>2 DEF FilesWhole
  <2>4. back' \in [Gpus -> BOOLEAN] /\ \A w \in Gpus : ~back'[w]
    BY <2>1
  <2>5. GenTyped'
    BY <1>0, <2>1, <2>4 DEF GenTyped
  <2>6. GenShape'
    BY <1>0, <2>1, <2>2, <2>3, <2>4 DEF GenShape
  <2>7. MadeWhole' /\ FilesWhole'
    BY <1>0, <2>1, FilesKept DEF MadeWhole
  <2>8. CollectedWhole'
    <3>1. collected' = <<>>
      BY <1>0, <2>1 DEF GenShape
    <3>2. \A r \in AllRollouts : ~back'[r % Workers]
      BY <2>4, GenConstants, Remainders DEF Gpus
    <3> QED
      BY <3>1, <3>2, NothingComplete DEF CollectedWhole
  <2> QED
    BY <2>5, <2>6, <2>7, <2>8 DEF GenInv
<1>3. ASSUME NEW w \in Gpus, Responds(w)
      PROVE  GenInv'
  <2>1. /\ UNCHANGED <<genAt, task, back, collected, files, workerFails>>
        /\ genAt = "work" /\ ~back[w]
    BY <1>3 DEF Responds
  <2>2. /\ made' = [made EXCEPT ![w] = made'[w]] /\ made'[w] \in Seq(Response)
        /\ \E k \in 0 .. Len(ShareOf(w)) :
             Len(made'[w]) = k * Examples /\ Complete(made'[w], FirstOf(w, k))
    BY <1>0, <1>3, RespondsWhole
  <2>3. made' \in [Gpus -> Seq(Response)] /\ \A v \in Gpus : v # w => made'[v] = made[v]
    BY <1>0, <2>2 DEF GenTyped
  <2>4. GenTyped'
    BY <1>0, <2>1, <2>3 DEF GenTyped
  <2>5. GenShape'
    BY <1>0, <2>1, <2>3 DEF GenShape
  <2>6. MadeWhole'
    BY <1>0, <2>2, <2>3 DEF MadeWhole
  <2>7. CollectedWhole' /\ FilesWhole'
    BY <1>0, <2>1, FilesKept DEF CollectedWhole
  <2> QED
    BY <2>4, <2>5, <2>6, <2>7 DEF GenInv
<1>4. ASSUME NEW w \in Gpus, Returns(w) \/ WorkerRaises(w)
      PROVE  GenInv'
  <2>1. /\ Reads(w) /\ workerFails' \in Nat
        /\ workerFails' = 0 => workerFails = 0
        /\ workerFails' = 0 => Len(made[w]) = Len(ShareOf(w)) * Examples
    BY <1>0, <1>4 DEF Returns, WorkerRaises, MadeAll
  <2>2. /\ genAt = "work" /\ UNCHANGED <<genAt, task, files>>
        /\ made' = [made EXCEPT ![w] = <<>>] /\ back' = [back EXCEPT ![w] = TRUE]
    BY <2>1 DEF Reads
  <2>3. /\ made' \in [Gpus -> Seq(Response)] /\ back' \in [Gpus -> BOOLEAN]
        /\ \A v \in Gpus : back'[v] => made'[v] = <<>>
    <3>1. <<>> \in Seq(Response)
      OBVIOUS
    <3> QED
      BY <1>0, <2>2, <3>1 DEF GenTyped, GenShape
  <2>4. GenTyped'
    BY <1>0, <2>1, <2>2, <2>3 DEF GenTyped
  <2>5. GenShape'
    BY <1>0, <2>2, <2>3 DEF GenShape
  <2>6. MadeWhole' /\ CollectedWhole'
    BY <2>1, ReadsWhole
  <2>7. FilesWhole'
    BY <1>0, <2>1, <2>2, FilesKept
  <2> QED
    BY <2>4, <2>5, <2>6, <2>7 DEF GenInv
<1>5. CASE PoolBreaks
  <2>1. /\ genAt = "work" /\ UNCHANGED <<genAt, task, collected, files>>
        /\ workerFails' \in Nat \ {0}
    BY <1>0, <1>5 DEF PoolBreaks
  <2>2. PICK lost \in SUBSET {w \in Gpus : ~back[w]} :
          /\ back' = [w \in Gpus |-> back[w] \/ w \in lost]
          /\ made' = [w \in Gpus |-> IF w \in lost THEN <<>> ELSE made[w]]
    BY <1>5 DEF PoolBreaks
  <2>3. back' \in [Gpus -> BOOLEAN] /\ \A w \in Gpus : back[w] => back'[w]
    BY <2>2, <1>0 DEF GenTyped
  <2>4. \A w \in Gpus : made'[w] = <<>> \/ made'[w] = made[w]
    BY <2>2
  <2>5. made' \in [Gpus -> Seq(Response)]
    <3>1. <<>> \in Seq(Response)
      OBVIOUS
    <3> QED
      BY <1>0, <2>2, <3>1 DEF GenTyped
  <2>6. MadeWhole'
    BY <1>0, <2>4, EmptyResults DEF MadeWhole
  <2>7. \A w \in Gpus : back'[w] => made'[w] = <<>>
    BY <1>0, <2>2 DEF GenShape
  <2>8. GenTyped'
    BY <1>0, <2>1, <2>3, <2>5 DEF GenTyped
  <2>9. GenShape'
    BY <1>0, <2>1, <2>7 DEF GenShape
  <2>10. CollectedWhole'
    <3>1. \A r \in AllRollouts : back[r % Workers] => back'[r % Workers]
      BY <2>3, GenConstants, Remainders DEF Gpus
    <3> QED
      BY <1>0, <2>1, <3>1 DEF CollectedWhole
  <2>11. FilesWhole'
    BY <1>0, <2>1, FilesKept
  <2> QED
    BY <2>6, <2>8, <2>9, <2>10, <2>11 DEF GenInv
<1>6. CASE Saves
  <2>1. /\ genAt = "work" /\ \A w \in Gpus : back[w]
        /\ UNCHANGED <<made, back, collected, workerFails>>
        /\ task \in 1 .. Tasks /\ ~files[task].closed /\ files[task] \in Output
    BY <1>0, <1>6 DEF Saves, GenShape, GenTyped
  <2>2. MadeWhole' /\ CollectedWhole'
    BY <1>0, <2>1 DEF MadeWhole, CollectedWhole
  <2>3. CASE collected = <<>>
    <3>1. genAt' = "pick" /\ task' = task + 1 /\ UNCHANGED files
      BY <1>6, <2>3 DEF Saves
    <3>2. GenTyped' /\ GenShape'
      BY <1>0, <2>1, <2>3, <3>1 DEF GenTyped, GenShape
    <3>3. FilesWhole'
      BY <1>0, <2>1, <3>1, FilesKept
    <3> QED
      BY <2>2, <3>2, <3>3 DEF GenInv
  <2>4. CASE collected # <<>>
    <3> DEFINE opened == [files[task] EXCEPT !.there = TRUE]
    <3>1. genAt' = "write" /\ task' = task /\ files' = [files EXCEPT ![task] = opened]
      BY <1>6, <2>4 DEF Saves
    <3>2. opened \in Output /\ opened.lines = files[task].lines /\ ~opened.closed
      BY <2>1 DEF Output
    <3> HIDE DEF opened
    <3>3. /\ files' \in [1 .. Tasks -> Output] /\ files'[task] = opened
          /\ \A t \in 1 .. Tasks : t # task => files'[t] = files[t]
      BY <1>0, <2>1, <3>1, <3>2 DEF GenTyped
    <3>4. GenTyped' /\ GenShape'
      BY <1>0, <2>1, <3>1, <3>2, <3>3 DEF GenTyped, GenShape
    <3>5. FilesWhole'
      BY <1>0, <2>1, <3>2, <3>3 DEF FilesWhole
    <3> QED
      BY <2>2, <3>4, <3>5 DEF GenInv
  <2> QED
    BY <2>3, <2>4
<1>7. CASE ClosesOutput
  <2> DEFINE whole == [there |-> TRUE, lines |-> collected, torn |-> FALSE, closed |-> TRUE]
  <2>1. /\ genAt = "write" /\ genAt' = "pick" /\ files' = [files EXCEPT ![task] = whole]
        /\ collected' = <<>> /\ task' = task + 1 /\ UNCHANGED <<made, back, workerFails>>
        /\ \A w \in Gpus : back[w]
        /\ task \in 1 .. Tasks
    BY <1>0, <1>7 DEF ClosesOutput, GenShape
  <2>2. PICK R \in SUBSET AllRollouts :
          /\ Complete(collected, R)
          /\ workerFails = 0 => \A r \in AllRollouts : back[r % Workers] => r \in R
    BY <1>0, <2>1 DEF CollectedWhole
  <2>3. \A r \in AllRollouts : back[r % Workers]
    BY <2>1, GenConstants, Remainders DEF Gpus
  <2>4. workerFails = 0 => R = AllRollouts
    BY <2>2, <2>3
  <2>5. /\ whole \in Output /\ IsInjective(whole.lines) /\ whole.there
        /\ whole.lines = collected
    BY <2>2 DEF Complete, Output
  <2> HIDE DEF whole
  <2>6. /\ files' \in [1 .. Tasks -> Output] /\ files'[task] = whole
        /\ \A t \in 1 .. Tasks : t # task => files'[t] = files[t]
    BY <1>0, <2>1, <2>5 DEF GenTyped
  <2>7. GenTyped' /\ GenShape'
    BY <1>0, <2>1, <2>6 DEF GenTyped, GenShape
  <2>8. MadeWhole' /\ CollectedWhole'
    BY <1>0, <2>1, NothingComplete DEF MadeWhole, CollectedWhole
  <2>9. FilesWhole'
    BY <1>0, <2>1, <2>2, <2>4, <2>5, <2>6 DEF FilesWhole
  <2> QED
    BY <2>7, <2>8, <2>9 DEF GenInv
<1>8. CASE GenKilled
  <2>1. /\ genAt \in {"work", "write"} /\ genAt' = "down" /\ collected' = <<>>
        /\ made' = [w \in Gpus |-> <<>>] /\ back' = [w \in Gpus |-> TRUE]
        /\ UNCHANGED <<task, workerFails>>
        /\ task \in 1 .. Tasks /\ ~files[task].closed /\ files[task] \in Output
    BY <1>0, <1>8 DEF GenKilled, GenShape, GenTyped
  <2>2. /\ made' \in [Gpus -> Seq(Response)] /\ back' \in [Gpus -> BOOLEAN]
        /\ \A w \in Gpus : back'[w] /\ made'[w] = <<>>
        /\ MadeWhole'
    BY <1>0, <2>1, NobodyWorks
  <2>3. collected \in Seq(Response) /\ IsInjective(collected)
    BY <1>0 DEF CollectedWhole, Complete
  <2>4. /\ files' \in [1 .. Tasks -> Output]
        /\ FilesWhole'
    <3>1. CASE UNCHANGED files
      BY <1>0, <2>1, <3>1, FilesKept DEF GenTyped
    <3>2. ASSUME NEW n \in 0 .. Len(collected) - 1, NEW torn \in BOOLEAN,
                 files' = [files EXCEPT ![task].lines = SubSeq(collected, 1, n),
                                        ![task].torn = torn]
          PROVE  files' \in [1 .. Tasks -> Output] /\ FilesWhole'
      <4> DEFINE some == SubSeq(collected, 1, n)
                 left == [files[task] EXCEPT !.lines = some, !.torn = torn]
      <4>1. some \in Seq(Response) /\ IsInjective(some)
        <5>1. n \in 0 .. Len(collected)
          BY <2>3
        <5> QED
          BY <2>3, <5>1, CutInTwo
      <4> HIDE DEF some
      <4>2. left \in Output /\ left.lines = some /\ ~left.closed
        BY <2>1, <4>1 DEF Output
      <4>3. files' = [files EXCEPT ![task] = left]
        <5>1. files' = [files EXCEPT ![task].lines = some, ![task].torn = torn]
          BY <3>2 DEF some
        <5> QED
          BY <1>0, <2>1, <5>1 DEF GenTyped
      <4> HIDE DEF left
      <4>4. /\ files' \in [1 .. Tasks -> Output] /\ files'[task] = left
            /\ \A t \in 1 .. Tasks : t # task => files'[t] = files[t]
        BY <1>0, <2>1, <4>2, <4>3 DEF GenTyped
      <4>5. FilesWhole'
        BY <1>0, <2>1, <4>1, <4>2, <4>4 DEF FilesWhole
      <4> QED
        BY <4>4, <4>5
    <3> QED
      BY <1>8, <3>1, <3>2 DEF GenKilled
  <2>5. GenTyped' /\ GenShape'
    BY <1>0, <2>1, <2>2, <2>4 DEF GenTyped, GenShape
  <2>6. CollectedWhole'
    BY <2>1, NothingComplete DEF CollectedWhole
  <2> QED
    BY <2>2, <2>4, <2>5, <2>6 DEF GenInv
<1>9. CASE UNCHANGED genVars
  <2>1. UNCHANGED <<genAt, task, made, back, collected, files, workerFails>>
    BY <1>9 DEF genVars
  <2>2. GenTyped' /\ GenShape'
    BY <1>0, <2>1 DEF GenTyped, GenShape
  <2>3. MadeWhole' /\ CollectedWhole' /\ FilesWhole'
    BY <1>0, <1>a, <2>1, FilesKept
  <2> QED
    BY <2>2, <2>3 DEF GenInv
<1> QED
  BY <1>1, <1>2, <1>3, <1>4, <1>5, <1>6, <1>7, <1>8, <1>9 DEF GenNext, GenRuns

LEMMA AlwaysGenInv == GenSpec => []GenInv
BY InitGenInv, NextGenInv, PTL DEF GenSpec

\* gen_vllm.py:280: no response comes into a file twice, through kills, retries
\* and workers that fail; a file that was closed while no worker has ever failed
\* has a response to every example from every rollout, for any split of the
\* rollouts over the workers.
THEOREM NoResponseTwice == GenSpec => []ResponsesOnce
<1>1. GenInv => ResponsesOnce
  <2> SUFFICES ASSUME GenInv, NEW t \in 1 .. Tasks
               PROVE  LET lines == files[t].lines IN
                        /\ IsInjective(lines)
                        /\ files[t].closed /\ workerFails = 0 => Len(lines) = Rollouts * Examples
    BY DEF ResponsesOnce
  <2> DEFINE lines == files[t].lines
  <2>1. IsInjective(lines)
    BY DEF GenInv, FilesWhole
  <2>2. ASSUME files[t].closed, workerFails = 0
        PROVE  Len(lines) = Rollouts * Examples
    <3>1. Complete(lines, AllRollouts)
      BY <2>2 DEF GenInv, FilesWhole
    <3> HIDE DEF lines
    <3>2. /\ lines \in Seq(Response) /\ Len(lines) \in Nat
          /\ \A q \in 1 .. Len(lines) : lines[q].example \in 1 .. Examples
      BY <3>1, CompleteTyped
    <3>3. Examples \in 0 .. Examples /\ Examples \in Nat /\ Rollouts \in Nat
      BY GenConstants
    <3>4. {q \in 1 .. Len(lines) : lines[q].example <= Examples} = 1 .. Len(lines)
      BY <3>2, <3>3
    <3>5. Cardinality(1 .. Len(lines)) = Examples * Cardinality(AllRollouts)
      BY <3>1, <3>3, <3>4, CompleteUpTo
    <3>6. Cardinality(1 .. Len(lines)) = Len(lines)
      <4>1. 1 \in Int /\ Len(lines) \in Int
        BY <3>2
      <4>2. Cardinality(1 .. Len(lines)) = IF 1 > Len(lines) THEN 0 ELSE Len(lines) - 1 + 1
        BY ONLY <4>1, FS_Interval
      <4> QED
        BY <3>2, <4>2
    <3>7. Len(lines) = Examples * Rollouts
      BY <3>5, <3>6, GenConstants
    <3> QED
      BY <3>3, <3>7
  <2> QED
    BY <2>1, <2>2
<1> QED
  BY <1>1, AlwaysGenInv, PTL

-----------------------------------------------------------------------------
(***************************************************************************)
(* grade.py.  The rank of a score lies in the window of its example.       *)
(***************************************************************************)

\* process_jsonl_file keeps the examples in order, and their responses in that
\* of the file: the order in which ScoredUpTo counts is linear.
LEMMA ScoresInOrder ==
  ASSUME NEW t, NEW n \in Nat, n = Len(files[t].lines),
         \A p \in 1 .. n : files[t].lines[p].example \in Nat
  PROVE  Orders(1 .. n, ScoredUpTo(t))
<1> DEFINE ex(p) == files[t].lines[p].example
           upto == ScoredUpTo(t)
           before(q, p) == ex(q) < ex(p) \/ (ex(q) = ex(p) /\ q <= p)
<1>1. upto = [p \in 1 .. n |-> {q \in 1 .. n : before(q, p)}]
  BY DEF ScoredUpTo
<1>2. \A p \in 1 .. n : ex(p) \in Nat
  OBVIOUS
<1> HIDE DEF upto, ex
<1>3. upto \in [1 .. n -> SUBSET (1 .. n)]
  BY <1>1
<1>4. \A p, q \in 1 .. n : q \in upto[p] <=> before(q, p)
  BY <1>1
<1>5. \A p \in 1 .. n : before(p, p)
  BY <1>2
<1>6. \A p, q, r \in 1 .. n : before(r, q) /\ before(q, p) => before(r, p)
  BY <1>2
<1>7. \A p, q \in 1 .. n : /\ before(p, q) \/ before(q, p)
                           /\ before(p, q) /\ before(q, p) => p = q
  BY <1>2
<1> HIDE DEF before
<1>8. \A p, q \in 1 .. n : before(q, p) => upto[q] \subseteq upto[p]
  <2> SUFFICES ASSUME NEW p \in 1 .. n, NEW q \in 1 .. n, before(q, p), NEW r \in upto[q]
               PROVE  r \in upto[p]
    OBVIOUS
  <2>1. r \in 1 .. n
    BY <1>3
  <2> QED
    BY <1>4, <1>6, <2>1
<1>9. \A p, q \in 1 .. n : upto[p] = upto[q] => p = q
  BY <1>4, <1>5, <1>7
<1>10. \A p, q \in 1 .. n : upto[p] \subseteq upto[q] \/ upto[q] \subseteq upto[p]
  BY <1>7, <1>8
<1>11. \A p \in 1 .. n : p \in upto[p]
  BY <1>4, <1>5
<1> QED
  BY <1>3, <1>9, <1>10, <1>11 DEF Orders, upto

\* The number of a window is that of an example.
LEMMA WindowOfExample ==
  ASSUME NEW t, NEW R, Complete(files[t].lines, R),
         NEW k \in 1 .. Len(FinalScores(t)), NumPred(t) > 0
  PROVE  /\ FinalScores(t)[k] \in 1 .. Len(files[t].lines)
         /\ files[t].lines[FinalScores(t)[k]].example \in Nat \ {0}
         /\ (k - 1) \div NumPred(t) = files[t].lines[FinalScores(t)[k]].example - 1
<1> DEFINE lines == files[t].lines
           n == Len(lines)
           upto == ScoredUpTo(t)
           list == FinalScores(t)
           S == 1 .. n
           m == Cardinality(R)
           Upto(e) == {q \in S : lines[q].example <= e}
<1>1. /\ n \in Nat /\ Examples \in Nat \ {0}
      /\ \A q \in S : lines[q].example \in 1 .. Examples
  BY CompleteTyped, GenConstants
<1>2. /\ m \in Nat
      /\ \A e \in 0 .. Examples : Cardinality(Upto(e)) = e * m
  <2>1. Complete(lines, R) /\ 0 \in 0 .. Examples
    BY <1>1
  <2> HIDE DEF lines
  <2>2. ASSUME NEW e \in 0 .. Examples
        PROVE  Cardinality(Upto(e)) = e * m /\ m \in Nat
    BY <2>1, CompleteUpTo
  <2> HIDE DEF m, Upto
  <2> QED
    BY <2>1, <2>2
<1>3. NumPred(t) = m
  <2>1. ResponsesTo(t, 1) = Upto(1)
    BY <1>1 DEF ResponsesTo
  <2>2. 1 \in 0 .. Examples /\ 1 * m = m
    BY <1>1, <1>2
  <2> HIDE DEF Upto, m
  <2> QED
    BY <1>2, <2>1, <2>2 DEF NumPred
<1>4. Orders(S, upto)
  BY <1>1, ScoresInOrder
<1>5. IsFiniteSet(S) /\ Cardinality(S) = n
  <2>1. 1 \in Int /\ n \in Int
    BY <1>1
  <2> HIDE DEF n
  <2>2. IsFiniteSet(S) /\ Cardinality(S) = IF 1 > n THEN 0 ELSE n - 1 + 1
    BY ONLY <2>1, FS_Interval
  <2> QED
    BY <1>1, <2>2
<1>6. list = Listed(S, upto)
  BY DEF FinalScores
<1> HIDE DEF upto, list, m
<1>7. /\ list \in [1 .. n -> S]
      /\ \A j \in 1 .. n : Cardinality(upto[list[j]]) = j
  <2> HIDE DEF S, n
  <2>1. /\ Listed(S, upto) \in [1 .. Cardinality(S) -> S]
        /\ \A j \in 1 .. Cardinality(S) : Cardinality(upto[Listed(S, upto)[j]]) = j
    BY ONLY <1>4, <1>5, ListedProperties
  <2> QED
    BY <1>5, <1>6, <2>1
<1>8. k \in 1 .. n
  <2>1. Len(list) = n
    BY <1>1, <1>7
  <2> QED
    BY <2>1 DEF list
<1> DEFINE p == list[k]
           d == lines[p].example - 1
<1>9. p \in S /\ lines[p].example = d + 1 /\ d \in Nat /\ d \in 0 .. Examples /\ d + 1 \in 0 .. Examples
  <2>1. p \in S
    BY <1>7, <1>8
  <2> HIDE DEF p, S
  <2>2. lines[p].example \in 1 .. Examples
    BY <1>1, <2>1
  <2>3. \A x \in 1 .. Examples : /\ x = (x - 1) + 1 /\ x - 1 \in Nat
                                 /\ x - 1 \in 0 .. Examples /\ (x - 1) + 1 \in 0 .. Examples
    BY <1>1
  <2> HIDE DEF lines
  <2> QED
    BY <2>1, <2>2, <2>3, Zenon
<1>10. Cardinality(upto[p]) = k
  BY <1>7, <1>8
<1> HIDE DEF p, d
<1>11. upto[p] = {q \in S : \/ lines[q].example < lines[p].example
                            \/ lines[q].example = lines[p].example /\ q <= p}
  BY <1>9 DEF upto, ScoredUpTo
<1>12. d * m + 1 <= k
  <2> DEFINE less == Upto(d) \cup {p}
  <2>1. /\ \A q \in S : q \in Upto(d) => q \in upto[p]
        /\ p \in upto[p] /\ p \notin Upto(d)
    BY <1>1, <1>9, <1>11
  <2>2. less \in SUBSET upto[p] /\ Upto(d) \in SUBSET S /\ upto[p] \in SUBSET S
    BY <2>1, <1>11
  <2> HIDE DEF Upto, S
  <2>3. IsFiniteSet(Upto(d)) /\ IsFiniteSet(upto[p])
    BY <1>5, <2>2, FS_Subset
  <2>4. IsFiniteSet(less) /\ Cardinality(less) = Cardinality(Upto(d)) + 1
    BY <2>1, <2>3, FS_AddElement
  <2> HIDE DEF less
  <2>5. Cardinality(less) <= Cardinality(upto[p])
    BY <2>2, <2>3, FS_Subset
  <2>6. Cardinality(Upto(d)) = d * m
    BY <1>2, <1>9
  <2> QED
    BY <1>10, <2>4, <2>5, <2>6
<1>13. k <= (d + 1) * m
  <2>1. \A q \in upto[p] : q \in Upto(d + 1)
    BY <1>1, <1>9, <1>11
  <2>2. upto[p] \in SUBSET Upto(d + 1) /\ Upto(d + 1) \in SUBSET S
    BY <2>1
  <2> HIDE DEF Upto, S
  <2>3. IsFiniteSet(Upto(d + 1))
    BY <1>5, <2>2, FS_Subset
  <2>4. Cardinality(upto[p]) <= Cardinality(Upto(d + 1))
    BY <2>2, <2>3, FS_Subset
  <2>5. Cardinality(Upto(d + 1)) = (d + 1) * m
    BY <1>2, <1>9
  <2> QED
    BY <1>10, <2>4, <2>5
<1>14. m \in Nat \ {0} /\ k - 1 \in Nat
  BY <1>1, <1>2, <1>3, <1>8
<1>15. (k - 1) \div m = d
  <2>1. d * m \in Nat /\ (d + 1) * m \in Nat
    BY <1>9, <1>14
  <2>2. d * m <= k - 1 /\ k - 1 < (d + 1) * m
    BY <1>8, <1>12, <1>13, <2>1
  <2> QED
    BY <1>9, <1>14, <2>2, InWindow
<1> QED
  BY <1>3, <1>9, <1>15 DEF p, list, S, n, d

\* grade.py:192: scores are cut into windows as long as the first example has
\* responses.  In every file that was closed a window is one example, for any
\* number of examples, rollouts and workers, and whichever workers have failed:
\* what a failure loses is whole rollouts, the same for every example.
THEOREM WindowsHoldOneExample == GenSpec => []WindowsAligned
<1>1. GenInv => WindowsAligned
  <2> SUFFICES ASSUME GenInv, NEW t \in 1 .. Tasks, Graded(t), files[t].closed,
                      NEW i \in 1 .. Len(FinalScores(t)), NEW j \in 1 .. Len(FinalScores(t)),
                      (i - 1) \div NumPred(t) = (j - 1) \div NumPred(t)
               PROVE  files[t].lines[FinalScores(t)[i]].example
                        = files[t].lines[FinalScores(t)[j]].example
    BY DEF WindowsAligned
  <2>1. PICK R \in SUBSET AllRollouts : Complete(files[t].lines, R)
    BY DEF GenInv, FilesWhole
  <2>2. NumPred(t) > 0
    BY DEF Graded
  <2> DEFINE a == files[t].lines[FinalScores(t)[i]].example
             b == files[t].lines[FinalScores(t)[j]].example
  <2>3. a \in Nat \ {0} /\ (i - 1) \div NumPred(t) = a - 1
    BY <2>1, <2>2, WindowOfExample
  <2>4. b \in Nat \ {0} /\ (j - 1) \div NumPred(t) = b - 1
    BY <2>1, <2>2, WindowOfExample
  <2>5. a - 1 = b - 1
    BY <2>3, <2>4
  <2> HIDE DEF a, b
  <2>6. a = b
    BY <2>3, <2>4, <2>5
  <2> QED
    BY <2>6 DEF a, b
<1> QED
  BY <1>1, AlwaysGenInv, PTL
=============================================================================
