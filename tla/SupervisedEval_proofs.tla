----------------------- MODULE SupervisedEval_proofs ------------------------
(***************************************************************************)
(* What the supervisor may trust as long as each helper lives once at a    *)
(* time: for every number of helpers, chunks, crashes and faults it leaves *)
(* only when every chunk has results, and no evaluated chunk is redone.    *)
(***************************************************************************)
EXTENDS SupervisedEval, FiniteSetTheorems, TLAPS

Own(p) == {c \in Chunks : Mine(p, c)}

\* One live invocation of each helper (not what the code ensures: it looks at
\* the memory of one card), helpers with different chunks, the check of the
\* scripts that the supervisor starts, and a count that is not too low.
OneInvocation ==
  /\ \A p, q \in Procs : GroupOf[p] = GroupOf[q] => p = q
  /\ \A p, q \in Procs : p # q => HandPicked[p] \intersect HandPicked[q] = {}
  /\ StrictCheck
  /\ TotalChunks >= NumChunks

(***************************************************************************)
(* The inductive invariant.                                                *)
(***************************************************************************)
Got(p, c)   == res[c][p] = "full"
Whole(p, c) == Got(p, c) /\ smp[c][p] # "none"

\* only the helper that names a chunk leaves files in its directory
NoForeignFiles ==
  \A p \in Procs, c \in Chunks : c \notin Own(p) => res[c][p] = "none" /\ smp[c][p] = "none"

\* the files of the chunk a helper is at
FilesOfStage(stage, r, s) ==
  /\ stage = "clear" => ~(r = "full" /\ s # "none")
  /\ stage \in {"wait", "ready", "eval"} => r = "none" /\ s = "none"
  /\ stage = "open" => r = "empty" /\ s = "none"
  /\ stage = "saved" => r = "full" /\ s = "none"
  /\ stage = "samples" => r = "full" /\ s = "part"
  /\ stage = "exiting" => r = "full" /\ s = "all"

\* A helper evaluates its chunks in the order of the list, whatever crashed
\* before: when a chunk has results, the chunks before it are evaluated.
Order1(p) == \A c, d \in Own(p) : c < d /\ Got(p, d) => Whole(p, c)
Behind(p) == pc[p] \notin Stopped => \A c \in Own(p) : c < idx[p] => Whole(p, c)
Ahead(p)  == pc[p] \in Working => \A c \in Own(p) : c > idx[p] => ~Got(p, c)

\* It was started because results were missing, so it never removes results
\* when all are there.
Lacks(p)  == \E c \in Own(p) : ~Got(p, c)
Needed(p) == /\ pc[p] = "clear" => Lacks(p)
             /\ pc[p] = "next" => Lacks(p) \/ \A c \in Own(p) : Whole(p, c)

AtOwn(p) == pc[p] \in Working =>
  idx[p] \in Own(p) /\ FilesOfStage(pc[p], res[idx[p]][p], smp[idx[p]][p])

ProcInv(p) == AtOwn(p) /\ Order1(p) /\ Behind(p) /\ Ahead(p) /\ Needed(p)

SInv ==
  /\ TypeOK /\ turn \in 0 .. Len(Order)
  /\ NoForeignFiles
  /\ \A p \in Procs : ProcInv(p)
  /\ LeftMeansResults

(***************************************************************************)
(* Files have one owner.                                                   *)
(***************************************************************************)
LEMMA OwnDisjoint ==
  ASSUME OneInvocation, NEW p \in Procs, NEW q \in Procs, NEW c \in Own(p), c \in Own(q)
  PROVE  p = q
BY SupervisorAssumption DEF OneInvocation, Own, Mine

LEMMA OwnFiles ==
  ASSUME OneInvocation, NoForeignFiles, NEW p \in Procs, NEW c \in Own(p)
  PROVE  /\ HasResults(c) <=> Got(p, c)
         /\ Evaluated(c) <=> Whole(p, c)
<1>1. c \in Chunks
  BY DEF Own
<1>2. \A q \in Procs : q # p => res[c][q] = "none" /\ smp[c][q] = "none"
  BY <1>1, OwnDisjoint DEF NoForeignFiles
<1> QED
  BY <1>2 DEF HasResults, HasSamples, Evaluated, Got, Whole

LEMMA ResultsHaveOwner ==
  ASSUME NoForeignFiles, NEW c \in Chunks, HasResults(c)
  PROVE  \E p \in Procs : c \in Own(p) /\ Got(p, c)
BY DEF NoForeignFiles, HasResults, Got

(***************************************************************************)
(* What a step of one helper leaves alone.                                 *)
(***************************************************************************)
ProcStep(p) == Start(p) \/ Step(p) \/ Crash(p)

\* the actions as they change types, places and files
LEMMA Effect ==
  ASSUME TypeOK, NEW p \in Procs, AtOwn(p), ProcStep(p)
  PROVE  /\ TypeOK'
         /\ \A q \in Procs \ {p} : pc'[q] = pc[q] /\ idx'[q] = idx[q]
         /\ \A c \in Chunks : c # idx[p] \/ pc[p] \notin Working =>
              res'[c] = res[c] /\ smp'[c] = smp[c]
         /\ \A c \in Chunks, q \in Procs \ {p} :
              res'[c][q] \in {res[c][q], "none"} /\ smp'[c][q] \in {smp[c][q], "none"}
<1> DEFINE Places == /\ pc' \in [Procs -> Stages] /\ idx' \in [Procs -> 0 .. NumChunks]
                     /\ \A q \in Procs \ {p} : pc'[q] = pc[q] /\ idx'[q] = idx[q]
           Files  == /\ res' \in [Chunks -> [Procs -> {"none", "empty", "full"}]]
                     /\ smp' \in [Chunks -> [Procs -> {"none", "part", "all"}]]
                     /\ \A c \in Chunks : c # idx[p] \/ pc[p] \notin Working =>
                          res'[c] = res[c] /\ smp'[c] = smp[c]
                     /\ \A c \in Chunks, q \in Procs \ {p} :
                          res'[c][q] \in {res[c][q], "none"} /\ smp'[c][q] \in {smp[c][q], "none"}
           Rest   == /\ leftover' \in [Groups -> Leftovers] /\ nvml' \in BOOLEAN
                     /\ crashes' \in 0 .. MaxCrashes /\ faults' \in 0 .. MaxFaults
<1>1. pc[p] \in Working => idx[p] \in Chunks
  BY DEF AtOwn, Own
<1>2. Places
  <2> USE ConstantsAssumption
      DEF TypeOK, Transition, Stages, Stopped, Working, Loaded, Chunks
  <2>1. CASE Start(p)
    BY <2>1 DEF Start
  <2>2. CASE Skip(p)
    BY <2>2 DEF Skip
  <2>3. CASE Decide(p) \/ Clear(p) \/ GpuFree(p) \/ GpuTimeout(p) \/ LoadModel(p)
    BY <2>3 DEF Decide, Clear, GpuFree, GpuTimeout, LoadModel
  <2>4. CASE OpenResults(p) \/ WriteResults(p) \/ AppendSamples(p) \/ CloseSamples(p) \/ AllDone(p)
    BY <2>4 DEF OpenResults, WriteResults, AppendSamples, CloseSamples, AllDone
  <2>5. CASE Finish(p)
    BY <1>1, <2>5 DEF Finish
  <2>6. CASE Crash(p)
    BY <2>6 DEF Crash
  <2> QED
    BY <2>1, <2>2, <2>3, <2>4, <2>5, <2>6 DEF ProcStep, Step
<1>3. Files
  <2>1. CASE UNCHANGED files
    BY <2>1 DEF files, TypeOK
  <2>2. CASE Clear(p)
    <3>1. pc[p] \in Working /\ idx[p] \in Chunks
      BY <1>1, <2>2 DEF Clear, Transition, Working
    <3>2. /\ res' = [res EXCEPT ![idx[p]] = [q \in Procs |-> "none"]]
          /\ smp' = [smp EXCEPT ![idx[p]] = [q \in Procs |-> "none"]]
      BY <2>2 DEF Clear
    <3> QED
      BY <3>1, <3>2 DEF TypeOK
  <2>3. CASE OpenResults(p)
    <3>1. pc[p] \in Working /\ idx[p] \in Chunks
      BY <1>1, <2>3 DEF OpenResults, Transition, Working, Loaded
    <3>2. res' = [res EXCEPT ![idx[p]][p] = "empty"] /\ smp' = smp
      BY <2>3 DEF OpenResults
    <3> QED
      BY <3>1, <3>2 DEF TypeOK
  <2>4. CASE WriteResults(p)
    <3>1. pc[p] \in Working /\ idx[p] \in Chunks
      BY <1>1, <2>4 DEF WriteResults, Transition, Working, Loaded
    <3> DEFINE r == IF res[idx[p]][p] = "empty" THEN "full" ELSE res[idx[p]][p]
    <3>2. r \in {"none", "empty", "full"} /\ res' = [res EXCEPT ![idx[p]][p] = r]
      <4>1. res[idx[p]][p] \in {"none", "empty", "full"}
        BY <3>1 DEF TypeOK
      <4> QED
        BY <2>4, <4>1 DEF WriteResults
    <3>3. smp' = smp
      BY <2>4 DEF WriteResults
    <3> HIDE DEF r
    <3> QED
      BY <3>1, <3>2, <3>3 DEF TypeOK
  <2>5. CASE AppendSamples(p)
    <3>1. pc[p] \in Working /\ idx[p] \in Chunks
      BY <1>1, <2>5 DEF AppendSamples, Transition, Working, Loaded
    <3>2. smp' = [smp EXCEPT ![idx[p]][p] = "part"] /\ res' = res
      BY <2>5 DEF AppendSamples
    <3> QED
      BY <3>1, <3>2 DEF TypeOK
  <2>6. CASE CloseSamples(p)
    <3>1. pc[p] \in Working /\ idx[p] \in Chunks
      BY <1>1, <2>6 DEF CloseSamples, Transition, Working, Loaded
    <3> DEFINE s == IF smp[idx[p]][p] = "part" THEN "all" ELSE smp[idx[p]][p]
    <3>2. s \in {"none", "part", "all"} /\ smp' = [smp EXCEPT ![idx[p]][p] = s]
      <4>1. smp[idx[p]][p] \in {"none", "part", "all"}
        BY <3>1 DEF TypeOK
      <4> QED
        BY <2>6, <4>1 DEF CloseSamples
    <3>3. res' = res
      BY <2>6 DEF CloseSamples
    <3> HIDE DEF s
    <3> QED
      BY <3>1, <3>2, <3>3 DEF TypeOK
  <2> QED
    BY <2>1, <2>2, <2>3, <2>4, <2>5, <2>6
       DEF ProcStep, Step, Start, Skip, Decide, GpuFree, GpuTimeout, LoadModel, Finish, Crash, AllDone
<1>4. Rest
  <2>1. CASE Crash(p)
    <3>1. crashes' \in 0 .. MaxCrashes
      BY <2>1, ConstantsAssumption DEF Crash, TypeOK
    <3>2. leftover' \in [Groups -> Leftovers]
      BY <2>1 DEF Crash, TypeOK
    <3> QED
      BY <2>1, <3>1, <3>2 DEF Crash, TypeOK
  <2>2. CASE UNCHANGED <<gpu, bounds>>
    BY <2>2 DEF gpu, bounds, TypeOK
  <2> QED
    BY <2>1, <2>2
       DEF ProcStep, Step, Start, Skip, Decide, Clear, GpuFree, GpuTimeout, LoadModel, OpenResults,
           WriteResults, AppendSamples, CloseSamples, Finish, AllDone
<1> QED
  BY <1>2, <1>3, <1>4 DEF TypeOK

LEMMA Others ==
  ASSUME OneInvocation, TypeOK, NEW p \in Procs, AtOwn(p), ProcStep(p),
         NEW q \in Procs \ {p}, ProcInv(q)
  PROVE  ProcInv(q)'
<1>1. pc'[q] = pc[q] /\ idx'[q] = idx[q]
  BY Effect
<1>2. \A c \in Own(q) : res'[c] = res[c] /\ smp'[c] = smp[c]
  <2>1. pc[p] \in Working => idx[p] \notin Own(q)
    BY OwnDisjoint DEF AtOwn
  <2> QED
    BY <2>1, Effect DEF Own
<1>3. Own(q)' = Own(q)
  BY DEF Own, Mine
<1>4. /\ \A c \in Own(q) : Got(q, c)' <=> Got(q, c)
      /\ \A c \in Own(q) : Whole(q, c)' <=> Whole(q, c)
  BY <1>2 DEF Got, Whole
<1>5. AtOwn(q)'
  BY <1>1, <1>2, <1>3 DEF ProcInv, AtOwn
<1>6. Order1(q)'
  BY <1>3, <1>4 DEF ProcInv, Order1
<1>7. Behind(q)' /\ Ahead(q)'
  BY <1>1, <1>3, <1>4 DEF ProcInv, Behind, Ahead
<1>8. Needed(q)'
  BY <1>1, <1>3, <1>4 DEF ProcInv, Needed, Lacks
<1> QED
  BY <1>5, <1>6, <1>7, <1>8 DEF ProcInv

LEMMA ForeignFilesStep ==
  ASSUME OneInvocation, TypeOK, NoForeignFiles, NEW p \in Procs, AtOwn(p), ProcStep(p)
  PROVE  NoForeignFiles'
<1> SUFFICES ASSUME NEW q \in Procs, NEW c \in Chunks, c \notin Own(q)
             PROVE  res'[c][q] = "none" /\ smp'[c][q] = "none"
  BY DEF NoForeignFiles, Own, Mine
<1>1. res[c][q] = "none" /\ smp[c][q] = "none"
  BY DEF NoForeignFiles
<1>2. CASE q # p
  BY <1>1, <1>2, Effect
<1>3. CASE q = p
  <2>1. c # idx[p] \/ pc[p] \notin Working
    BY <1>3 DEF AtOwn
  <2> QED
    BY <1>1, <1>3, <2>1, Effect
<1> QED
  BY <1>2, <1>3

(***************************************************************************)
(* What a helper does to its own part of the invariant.                    *)
(***************************************************************************)
LEMMA SameFiles ==
  ASSUME NEW p \in Procs, ProcInv(p), \A c \in Own(p) : res'[c] = res[c] /\ smp'[c] = smp[c]
  PROVE  /\ \A c \in Own(p) : (Got(p, c)' <=> Got(p, c)) /\ (Whole(p, c)' <=> Whole(p, c))
         /\ Order1(p)' /\ Own(p)' = Own(p) /\ (Lacks(p)' <=> Lacks(p))
<1>1. Own(p)' = Own(p)
  BY DEF Own, Mine
<1>2. \A c \in Own(p) : (Got(p, c)' <=> Got(p, c)) /\ (Whole(p, c)' <=> Whole(p, c))
  BY DEF Got, Whole
<1> QED
  BY <1>1, <1>2 DEF ProcInv, Order1, Lacks

\* Start is taken only for a helper whose results are missing.
LEMMA StartKeeps ==
  ASSUME TypeOK, NEW p \in Procs, ProcInv(p), Start(p), Lacks(p)
  PROVE  ProcInv(p)'
<1>1. UNCHANGED files /\ pc'[p] = "next" /\ idx'[p] = 0
  BY DEF Start, TypeOK
<1>2. /\ Order1(p)' /\ Own(p)' = Own(p) /\ Lacks(p)'
  BY <1>1, SameFiles DEF files
<1>3. \A c \in Own(p) : ~(c < 0)
  BY ConstantsAssumption DEF Own, Chunks
<1> QED
  BY <1>1, <1>2, <1>3
     DEF ProcInv, AtOwn, Behind, Ahead, Needed, Working, Loaded

LEMMA PlainKeeps ==
  ASSUME OneInvocation, TypeOK, NoForeignFiles, NEW p \in Procs, ProcInv(p),
         Skip(p) \/ Decide(p) \/ GpuFree(p) \/ GpuTimeout(p) \/ LoadModel(p) \/ Finish(p)
           \/ AllDone(p) \/ Crash(p)
  PROVE  ProcInv(p)'
<1>1. UNCHANGED files
  BY DEF Skip, Decide, GpuFree, GpuTimeout, LoadModel, Finish, AllDone, Crash, files
<1>2. /\ \A c \in Own(p) : (Got(p, c)' <=> Got(p, c)) /\ (Whole(p, c)' <=> Whole(p, c))
      /\ Order1(p)' /\ Own(p)' = Own(p) /\ (Lacks(p)' <=> Lacks(p))
      /\ res' = res /\ smp' = smp
  BY <1>1, SameFiles DEF files
<1>3. \A c \in Own(p) : c \in Nat /\ c \in Chunks
  BY ConstantsAssumption DEF Own, Chunks
<1>4. idx[p] \in Nat
  BY ConstantsAssumption DEF TypeOK
<1>5. CASE Skip(p)
  <2>1. pc[p] = "next" /\ pc'[p] = "next" /\ idx'[p] = idx[p] + 1 /\ idx[p] < NumChunks
    BY <1>5 DEF Skip, TypeOK
  <2>2. idx[p] \in Own(p) => Whole(p, idx[p])
    BY <1>5, OwnFiles DEF Skip, Accepted, Own, OneInvocation
  <2>3. \A c \in Own(p) : c < idx[p] + 1 => c < idx[p] \/ c = idx[p]
    BY <1>3, <1>4
  <2>4. Behind(p)'
    BY <1>2, <2>1, <2>2, <2>3 DEF ProcInv, Behind, Stopped
  <2>5. AtOwn(p)' /\ Ahead(p)'
    BY <2>1 DEF AtOwn, Ahead, Working, Loaded
  <2>6. Needed(p)'
    BY <1>2, <2>1 DEF ProcInv, Needed
  <2> QED
    BY <1>2, <2>4, <2>5, <2>6 DEF ProcInv
<1>6. CASE Decide(p)
  <2>1. pc[p] = "next" /\ pc'[p] = "clear" /\ idx'[p] = idx[p] /\ idx[p] \in Own(p)
    <3>1. idx[p] \in Chunks
      BY <1>4, <1>6, ConstantsAssumption DEF Decide, Chunks
    <3> QED
      BY <1>6, <3>1 DEF Decide, Transition, TypeOK, Own, OneInvocation
  <2>2. ~Whole(p, idx[p])
    BY <1>6, <2>1, OwnFiles DEF Decide, Accepted, OneInvocation
  <2>3. AtOwn(p)'
    BY <1>2, <2>1, <2>2 DEF AtOwn, FilesOfStage, Whole, Got
  <2>4. Behind(p)'
    BY <1>2, <2>1 DEF ProcInv, Behind, Stopped
  <2>5. Ahead(p)'
    <3>1. \A c \in Own(p) : c > idx[p] => idx[p] < c
      BY <1>3, <1>4
    <3>2. \A c \in Own(p) : c > idx[p] => ~Got(p, c)
      BY <2>1, <2>2, <3>1 DEF ProcInv, Order1
    <3> QED
      BY <1>2, <2>1, <3>2 DEF Ahead
  <2>6. Needed(p)'
    BY <1>2, <2>1, <2>2 DEF ProcInv, Needed
  <2> QED
    BY <1>2, <2>3, <2>4, <2>5, <2>6 DEF ProcInv
<1>7. CASE GpuFree(p) \/ LoadModel(p)
  <2>1. /\ pc[p] \in {"wait", "ready"} /\ pc'[p] \in {"ready", "eval"} /\ idx'[p] = idx[p]
    BY <1>7 DEF GpuFree, LoadModel, Transition, TypeOK
  <2>2. AtOwn(p)'
    BY <1>2, <2>1 DEF ProcInv, AtOwn, FilesOfStage, Working, Loaded
  <2>3. Behind(p)' /\ Ahead(p)' /\ Needed(p)'
    BY <1>2, <2>1 DEF ProcInv, Behind, Ahead, Needed, Working, Loaded, Stopped
  <2> QED
    BY <1>2, <2>2, <2>3 DEF ProcInv
<1>8. CASE GpuTimeout(p) \/ AllDone(p) \/ Crash(p)
  <2>1. pc'[p] \in {"aborted", "done"}
    BY <1>8 DEF GpuTimeout, AllDone, Crash, Transition, TypeOK
  <2> QED
    BY <1>2, <2>1 DEF ProcInv, AtOwn, Behind, Ahead, Needed, Working, Loaded, Stopped
<1>9. CASE Finish(p)
  <2>1. pc[p] = "exiting" /\ pc'[p] = "next" /\ idx'[p] = idx[p] + 1
    BY <1>9 DEF Finish, Transition, TypeOK
  <2>2. idx[p] \in Own(p) /\ Whole(p, idx[p])
    BY <2>1 DEF ProcInv, AtOwn, FilesOfStage, Whole, Got, Working, Loaded
  <2>3. \A c \in Own(p) : c < idx[p] \/ c = idx[p] \/ c > idx[p]
    BY <1>3, <1>4
  <2>4. \A c \in Own(p) : c < idx[p] + 1 => c < idx[p] \/ c = idx[p]
    BY <1>3, <1>4
  <2>5. \A c \in Own(p) : c < idx[p] => Whole(p, c)
    BY <2>1 DEF ProcInv, Behind, Stopped
  <2>6. \A c \in Own(p) : c > idx[p] => ~Got(p, c)
    BY <2>1 DEF ProcInv, Ahead, Working, Loaded
  <2>7. Behind(p)'
    BY <1>2, <2>1, <2>2, <2>4, <2>5 DEF Behind
  <2>8. Needed(p)'
    BY <1>2, <2>1, <2>2, <2>3, <2>5, <2>6 DEF Needed, Lacks
  <2>9. AtOwn(p)' /\ Ahead(p)'
    BY <2>1 DEF AtOwn, Ahead, Working, Loaded
  <2> QED
    BY <1>2, <2>7, <2>8, <2>9 DEF ProcInv
<1> QED
  BY <1>5, <1>6, <1>7, <1>8, <1>9

\* the steps that change the files of the chunk a helper is at
LEMMA FileStepKeeps ==
  ASSUME TypeOK, NEW p \in Procs, ProcInv(p),
         Clear(p) \/ OpenResults(p) \/ WriteResults(p) \/ AppendSamples(p) \/ CloseSamples(p)
  PROVE  ProcInv(p)'
<1> DEFINE at == idx[p]
<1>1. pc[p] \in Working /\ at \in Own(p) /\ at \in Chunks
  BY DEF ProcInv, AtOwn, Own, Clear, OpenResults, WriteResults, AppendSamples, CloseSamples,
         Transition, Working, Loaded
<1>2. /\ pc'[p] \in {"wait", "open", "saved", "samples", "exiting"} /\ idx'[p] = at
      /\ pc'[p] \in Working /\ pc'[p] \notin Stopped
  BY DEF Clear, OpenResults, WriteResults, AppendSamples, CloseSamples, Transition, TypeOK,
         Working, Loaded, Stopped
<1>3. FilesOfStage(pc[p], res[at][p], smp[at][p])
  BY <1>1 DEF ProcInv, AtOwn
<1>4. FilesOfStage(pc'[p], res'[at][p], smp'[at][p])
  <2>1. CASE Clear(p)
    <3>1. res'[at][p] = "none" /\ smp'[at][p] = "none" /\ pc'[p] = "wait"
      BY <1>1, <2>1 DEF Clear, Transition, TypeOK
    <3> QED
      BY <3>1 DEF FilesOfStage
  <2>2. CASE OpenResults(p)
    <3>1. res'[at][p] = "empty" /\ smp'[at][p] = "none" /\ pc'[p] = "open"
      BY <1>1, <1>3, <2>2 DEF OpenResults, Transition, TypeOK, FilesOfStage
    <3> QED
      BY <3>1 DEF FilesOfStage
  <2>3. CASE WriteResults(p)
    <3>1. res[at][p] = "empty" /\ smp[at][p] = "none"
      BY <1>3, <2>3 DEF WriteResults, Transition, FilesOfStage
    <3>2. res'[at][p] = "full" /\ smp'[at][p] = "none" /\ pc'[p] = "saved"
      BY <1>1, <2>3, <3>1 DEF WriteResults, Transition, TypeOK
    <3> QED
      BY <3>2 DEF FilesOfStage
  <2>4. CASE AppendSamples(p)
    <3>1. res'[at][p] = "full" /\ smp'[at][p] = "part" /\ pc'[p] = "samples"
      BY <1>1, <1>3, <2>4 DEF AppendSamples, Transition, TypeOK, FilesOfStage
    <3> QED
      BY <3>1 DEF FilesOfStage
  <2>5. CASE CloseSamples(p)
    <3>1. res[at][p] = "full" /\ smp[at][p] = "part"
      BY <1>3, <2>5 DEF CloseSamples, Transition, FilesOfStage
    <3>2. res'[at][p] = "full" /\ smp'[at][p] = "all" /\ pc'[p] = "exiting"
      BY <1>1, <2>5, <3>1 DEF CloseSamples, Transition, TypeOK
    <3> QED
      BY <3>2 DEF FilesOfStage
  <2> QED
    BY <2>1, <2>2, <2>3, <2>4, <2>5
<1>5. Own(p)' = Own(p)
  BY DEF Own, Mine
<1>6. \A c \in Own(p) \ {at} : (Got(p, c)' <=> Got(p, c)) /\ (Whole(p, c)' <=> Whole(p, c))
  <2>1. ProcStep(p) /\ AtOwn(p)
    BY DEF ProcStep, Step, ProcInv
  <2>2. \A c \in Own(p) \ {at} : res'[c] = res[c] /\ smp'[c] = smp[c]
    BY <2>1, Effect DEF Own
  <2> QED
    BY <2>2 DEF Got, Whole
<1>7. \A c \in Own(p) : c \in Nat
  BY ConstantsAssumption DEF Own, Chunks
<1>8. \A c \in Own(p) : c < at => Whole(p, c)
  BY <1>1, <1>2 DEF ProcInv, Behind, Working, Loaded, Stopped
<1>9. \A c \in Own(p) : c > at => ~Got(p, c)
  BY <1>1 DEF ProcInv, Ahead
<1>10. \A c \in Own(p) : (c < at => c # at) /\ (c > at => c # at)
  BY <1>1, <1>7
<1>11. AtOwn(p)'
  BY <1>1, <1>2, <1>4, <1>5 DEF AtOwn
<1>12. Behind(p)'
  BY <1>2, <1>5, <1>6, <1>8, <1>10 DEF Behind
<1>13. Ahead(p)'
  BY <1>2, <1>5, <1>6, <1>9, <1>10 DEF Ahead
<1>14. Needed(p)'
  BY <1>2 DEF Needed
<1>15. Order1(p)'
  <2> SUFFICES ASSUME NEW c \in Own(p), NEW d \in Own(p), c < d, Got(p, d)'
               PROVE  Whole(p, c)'
    BY <1>5 DEF Order1
  <2>1. c < at \/ c = at \/ c > at
    BY <1>1, <1>7
  <2>2. CASE c < at
    BY <1>6, <1>8, <1>10, <2>2
  <2>3. CASE c = at \/ c > at
    <3>1. d > at
      BY <1>1, <1>7, <2>3
    <3> QED
      BY <1>6, <1>9, <1>10, <3>1
  <2> QED
    BY <2>1, <2>2, <2>3
<1> QED
  BY <1>11, <1>12, <1>13, <1>14, <1>15 DEF ProcInv

(***************************************************************************)
(* Results and samples, once there, stay.                                  *)
(***************************************************************************)
LEMMA AtIncomplete ==
  ASSUME OneInvocation, NoForeignFiles, NEW p \in Procs, ProcInv(p)
  PROVE  /\ pc[p] \in {"clear", "wait", "ready", "eval", "open"} =>
              idx[p] \in Chunks /\ ~Evaluated(idx[p])
         /\ pc[p] \in {"clear", "wait", "ready", "eval", "open"} =>
              \E c \in Chunks : ~HasResults(c)
<1> SUFFICES ASSUME pc[p] \in {"clear", "wait", "ready", "eval", "open"}
             PROVE  /\ idx[p] \in Chunks /\ ~Evaluated(idx[p])
                    /\ \E c \in Chunks : ~HasResults(c)
  OBVIOUS
<1>1. idx[p] \in Own(p) /\ FilesOfStage(pc[p], res[idx[p]][p], smp[idx[p]][p])
  BY DEF ProcInv, AtOwn, Working, Loaded
<1>2. ~Whole(p, idx[p])
  BY <1>1 DEF FilesOfStage, Whole, Got
<1>3. \E c \in Own(p) : ~Got(p, c)
  <2>1. CASE pc[p] = "clear"
    BY <2>1 DEF ProcInv, Needed, Lacks
  <2>2. CASE pc[p] # "clear"
    BY <1>1, <2>2 DEF FilesOfStage, Got
  <2> QED
    BY <2>1, <2>2
<1> QED
  BY <1>1, <1>2, <1>3, OwnFiles DEF Own

LEMMA ResultsStay ==
  ASSUME OneInvocation, NoForeignFiles, NEW p \in Procs, ProcInv(p), ProcStep(p),
         \A c \in Chunks : HasResults(c)
  PROVE  \A c \in Chunks : HasResults(c)'
<1>1. pc[p] \notin {"clear", "wait", "ready", "eval", "open"}
  BY AtIncomplete
<1>2. res' = res
  BY <1>1 DEF ProcStep, Step, Start, Skip, Decide, Clear, GpuFree, GpuTimeout, LoadModel, OpenResults,
              WriteResults, AppendSamples, CloseSamples, Finish, AllDone, Crash, files, Transition
<1> QED
  BY <1>2 DEF HasResults

LEMMA EvaluatedStays ==
  ASSUME OneInvocation, TypeOK, NoForeignFiles, NEW p \in Procs, ProcInv(p), ProcStep(p),
         NEW c \in Chunks, Evaluated(c)
  PROVE  Evaluated(c)'
<1>0. AtOwn(p)
  BY DEF ProcInv
<1>1. CASE c # idx[p] \/ pc[p] \notin Working
  <2>1. res'[c] = res[c] /\ smp'[c] = smp[c]
    BY <1>0, <1>1, Effect
  <2> QED
    BY <2>1 DEF Evaluated, HasResults, HasSamples
<1>2. CASE c = idx[p] /\ pc[p] \in Working
  <2>1. pc[p] \notin {"clear", "wait", "ready", "eval", "open"}
    BY <1>2, AtIncomplete
  <2>2. res' = res
    BY <2>1 DEF ProcStep, Step, Start, Skip, Decide, Clear, GpuFree, GpuTimeout, LoadModel, OpenResults,
                WriteResults, AppendSamples, CloseSamples, Finish, AllDone, Crash, files, Transition
  <2>3. c \in Own(p) /\ HasResults(c)
    BY <1>0, <1>2 DEF AtOwn, Evaluated
  <2>4. smp'[c][p] # "none" \/ smp' = smp
    <3>1. CASE AppendSamples(p)
      BY <1>2, <3>1 DEF AppendSamples, TypeOK
    <3>2. CASE CloseSamples(p)
      <4>1. smp[c][p] = "part"
        BY <1>0, <1>2, <3>2 DEF AtOwn, FilesOfStage, CloseSamples, Transition
      <4> QED
        BY <1>2, <3>2, <4>1 DEF CloseSamples, TypeOK
    <3> QED
      BY <2>1, <3>1, <3>2
         DEF ProcStep, Step, Start, Skip, Decide, Clear, GpuFree, GpuTimeout, LoadModel, OpenResults,
             WriteResults, Finish, AllDone, Crash, files, Transition
  <2> QED
    BY <2>2, <2>3, <2>4 DEF Evaluated, HasResults, HasSamples
<1> QED
  BY <1>1, <1>2

\* Line 40: one results file per chunk, so enough files are all chunks.
LEMMA CountIsTruthful ==
  ASSUME OneInvocation, TypeOK, NoForeignFiles, CompletedFiles >= TotalChunks
  PROVE  \A c \in Chunks : HasResults(c)
<1> DEFINE F == {f \in Chunks \X Procs : res[f[1]][f[2]] = "full"}
           S == {c \in Chunks : HasResults(c)}
           first == [f \in F |-> f[1]]
<1>1. IsFiniteSet(Chunks) /\ Cardinality(Chunks) = NumChunks
  <2>1. 0 \in Int /\ NumChunks - 1 \in Int /\ NumChunks \in Nat
    BY ConstantsAssumption
  <2>2. IsFiniteSet(Chunks) /\ Cardinality(Chunks) = IF 0 > NumChunks - 1 THEN 0 ELSE NumChunks - 1 - 0 + 1
    BY <2>1, FS_Interval DEF Chunks
  <2> QED
    BY <2>1, <2>2
<1>2. S \in SUBSET Chunks
  OBVIOUS
<1>3. IsFiniteSet(S) /\ Cardinality(S) <= Cardinality(Chunks)
      /\ (Cardinality(Chunks) = Cardinality(S) => Chunks = S)
  BY <1>1, <1>2, FS_Subset
<1>4. first \in Injection(F, S)
  <2>1. ASSUME NEW f \in F PROVE f = <<f[1], f[2]>> /\ f[2] \in Procs /\ f[1] \in S /\ f[1] \in Own(f[2])
    <3>1. f = <<f[1], f[2]>> /\ f[1] \in Chunks /\ f[2] \in Procs /\ res[f[1]][f[2]] = "full"
      OBVIOUS
    <3>2. HasResults(f[1])
      BY <3>1 DEF HasResults
    <3>3. f[1] \in Own(f[2])
      BY <3>1 DEF NoForeignFiles
    <3> QED
      BY <3>1, <3>2, <3>3
  <2>2. ASSUME NEW f \in F, NEW g \in F, f[1] = g[1] PROVE f = g
    BY <2>1, <2>2, OwnDisjoint
  <2>3. first \in [F -> S]
    BY <2>1
  <2>4. \A f, g \in F : first[f] = first[g] => f = g
    BY <2>2
  <2> HIDE DEF F, S, first
  <2> QED
    BY <2>3, <2>4 DEF Injection, IsInjective
<1>5. Cardinality(F) <= Cardinality(S)
  BY <1>3, <1>4, FS_Injection
<1>6. Cardinality(S) \in Nat /\ Cardinality(F) \in Nat
  <2>1. IsFiniteSet(F)
    BY <1>3, <1>4, FS_Injection
  <2> QED
    BY <1>3, <2>1, FS_CardinalityType
<1>7. Cardinality(F) >= NumChunks
  BY <1>6, ConstantsAssumption, SupervisorAssumption DEF CompletedFiles, OneInvocation
<1>8. Cardinality(S) = NumChunks
  BY <1>1, <1>3, <1>5, <1>6, <1>7, ConstantsAssumption
<1> QED
  BY <1>1, <1>3, <1>8

(***************************************************************************)
(* The composition.                                                        *)
(***************************************************************************)
LEMMA InitSInv ==
  ASSUME OneInvocation, SupInit
  PROVE  SInv
<1>1. TypeOK
  BY ConstantsAssumption DEF SupInit, Init, TypeOK, Stages, Stopped, Leftovers
<1>2. Len(Order) \in Nat
  BY SupervisorAssumption
<1>3. \A p \in Procs : pc[p] = "idle" /\ \A c \in Own(p) : ~Got(p, c)
  BY DEF SupInit, Init, Own, Got
<1>4. \A p \in Procs : ProcInv(p)
  BY <1>3 DEF ProcInv, AtOwn, Order1, Behind, Ahead, Needed, Working, Loaded, Stopped
<1>5. NoForeignFiles
  BY DEF SupInit, Init, NoForeignFiles
<1> QED
  BY <1>1, <1>2, <1>4, <1>5 DEF SupInit, SInv, LeftMeansResults

\* a step of one helper
LEMMA HelperStep ==
  ASSUME OneInvocation, SInv, NEW p \in Procs, ProcStep(p), Start(p) => Lacks(p)
  PROVE  /\ TypeOK' /\ NoForeignFiles' /\ \A q \in Procs : ProcInv(q)'
         /\ ~running => \A c \in Chunks : HasResults(c)'
         /\ \A c \in Chunks : Evaluated(c) => Evaluated(c)'
<1>1. TypeOK /\ NoForeignFiles /\ ProcInv(p) /\ AtOwn(p) /\ \A q \in Procs : ProcInv(q)
  BY DEF SInv, ProcInv
<1>2. TypeOK'
  BY <1>1, Effect
<1>3. NoForeignFiles'
  BY <1>1, ForeignFilesStep
<1>4. ProcInv(p)'
  BY <1>1, StartKeeps, PlainKeeps, FileStepKeeps DEF ProcStep, Step
<1>5. \A q \in Procs \ {p} : ProcInv(q)'
  BY <1>1, Others
<1>6. ~running => \A c \in Chunks : HasResults(c)'
  BY <1>1, ResultsStay DEF SInv, LeftMeansResults
<1>7. \A c \in Chunks : Evaluated(c) => Evaluated(c)'
  BY <1>1, EvaluatedStays
<1> QED
  BY <1>2, <1>3, <1>4, <1>5, <1>6, <1>7

\* a step that touches no process and no file
LEMMA ElsewhereStep ==
  ASSUME SInv, UNCHANGED <<pc, idx, res, smp>>
  PROVE  /\ NoForeignFiles' /\ \A q \in Procs : ProcInv(q)'
         /\ \A c \in Chunks : (HasResults(c)' <=> HasResults(c)) /\ (Evaluated(c)' <=> Evaluated(c))
<1>1. NoForeignFiles'
  BY DEF SInv, NoForeignFiles, Own, Mine
<1>2. ASSUME NEW q \in Procs PROVE ProcInv(q)'
  <2>1. /\ \A c \in Own(q) : (Got(q, c)' <=> Got(q, c)) /\ (Whole(q, c)' <=> Whole(q, c))
        /\ Order1(q)' /\ Own(q)' = Own(q) /\ (Lacks(q)' <=> Lacks(q))
    BY SameFiles DEF SInv
  <2>2. AtOwn(q)'
    BY <2>1 DEF SInv, ProcInv, AtOwn
  <2>3. Behind(q)' /\ Ahead(q)' /\ Needed(q)'
    BY <2>1 DEF SInv, ProcInv, Behind, Ahead, Needed
  <2> QED
    BY <2>1, <2>2, <2>3 DEF ProcInv
<1>3. \A c \in Chunks : (HasResults(c)' <=> HasResults(c)) /\ (Evaluated(c)' <=> Evaluated(c))
  BY DEF HasResults, HasSamples, Evaluated
<1> QED
  BY <1>1, <1>2, <1>3

LEMMA SupStep ==
  ASSUME OneInvocation, SInv, [SupNext]_allVars
  PROVE  SInv' /\ \A c \in Chunks : Evaluated(c) => Evaluated(c)'
<1> DEFINE Goal == SInv' /\ \A c \in Chunks : Evaluated(c) => Evaluated(c)'
<1>1. Len(Order) \in Nat /\ turn \in 0 .. Len(Order)
  BY SupervisorAssumption DEF SInv
<1>2. NextTurn \in 0 .. Len(Order)
  BY <1>1 DEF NextTurn
<1>3. CASE BeginRound \/ PassOn \/ UNCHANGED allVars
  <2>1. UNCHANGED vars /\ running' = running /\ turn' \in 0 .. Len(Order)
    BY <1>1, <1>2, <1>3 DEF BeginRound, PassOn, allVars, vars
  <2>2. TypeOK'
    BY <2>1 DEF SInv, vars, TypeOK
  <2> QED
    BY <2>1, <2>2, ElsewhereStep DEF SInv, LeftMeansResults, vars
<1>4. CASE Leave
  <2>1. UNCHANGED vars /\ turn' = turn /\ CompletedFiles >= TotalChunks
    BY <1>4 DEF Leave
  <2>2. TypeOK'
    BY <2>1 DEF SInv, vars, TypeOK
  <2>3. \A c \in Chunks : HasResults(c)
    BY <2>1, CountIsTruthful DEF SInv
  <2> QED
    BY <1>1, <2>1, <2>2, <2>3, ElsewhereStep DEF SInv, LeftMeansResults, vars
<1>5. ASSUME NEW p \in Procs, Launch(p) PROVE Goal
  <2>1. Start(p) /\ running /\ running' = running /\ turn' \in 0 .. Len(Order)
    BY <1>2, <1>5 DEF Launch
  <2>2. PICK c \in Chunks : (\E q \in Slots(GroupOf[p]) : Mine(q, c)) /\ ~HasResults(c)
    BY <1>5 DEF Launch, HelperDone
  <2>3. c \in Own(p)
    BY <2>2 DEF Slots, OneInvocation, Own
  <2>4. Lacks(p)
    BY <2>2, <2>3, OwnFiles DEF SInv, Lacks
  <2>5. ProcStep(p)
    BY <2>1 DEF ProcStep
  <2> QED
    BY <2>1, <2>4, <2>5, HelperStep DEF SInv, LeftMeansResults
<1>6. ASSUME NEW p \in Procs, Step(p) \/ Crash(p), UNCHANGED supervisor PROVE Goal
  <2>1. ProcStep(p) /\ running' = running /\ turn' = turn
    BY <1>6 DEF ProcStep, supervisor
  <2>2. ~Start(p) \/ Lacks(p)
    <3>1. ASSUME Start(p) PROVE FALSE
      <4>1. pc[p] \in Stopped /\ pc'[p] = "next"
        BY <3>1 DEF Start, SInv, TypeOK
      <4>2. pc[p] \notin Stopped
        BY <1>6, <4>1 DEF Step, Crash, Skip, Decide, Clear, GpuFree, GpuTimeout, LoadModel, OpenResults,
             WriteResults, AppendSamples, CloseSamples, Finish, AllDone, Transition, Stopped
      <4> QED
        BY <4>1, <4>2
    <3> QED
      BY <3>1
  <2> QED
    BY <1>1, <2>1, <2>2, HelperStep DEF SInv, LeftMeansResults
<1>7. CASE Machine /\ UNCHANGED supervisor
  <2>1. UNCHANGED <<pc, idx, res, smp>>
    BY <1>7 DEF Machine, NvmlFail, NvmlRepair, Borrow, Release, files
  <2>2. TypeOK'
    <3>1. faults' \in 0 .. MaxFaults /\ crashes' \in 0 .. MaxCrashes
      BY <1>7, ConstantsAssumption
         DEF Machine, NvmlFail, NvmlRepair, Borrow, Release, bounds, SInv, TypeOK
    <3>2. leftover' \in [Groups -> Leftovers] /\ nvml' \in BOOLEAN
      BY <1>7 DEF Machine, NvmlFail, NvmlRepair, Borrow, Release, SInv, TypeOK, Leftovers
    <3> QED
      BY <2>1, <3>1, <3>2 DEF SInv, TypeOK
  <2> QED
    BY <1>1, <1>7, <2>1, <2>2, ElsewhereStep DEF SInv, LeftMeansResults, supervisor
<1> QED
  BY <1>3, <1>4, <1>5, <1>6, <1>7 DEF SupNext, Supervise

LEMMA ReadyIncomplete ==
  ASSUME OneInvocation, SInv, NEW p \in Procs, pc[p] = "ready", Evaluated(idx[p])
  PROVE  FALSE
BY AtIncomplete DEF SInv

\* p2_supervisor.sh:68, with one live invocation of each helper: when the
\* supervisor has left, every chunk has results and keeps them.
THEOREM LeftIsComplete ==
  ASSUME OneInvocation
  PROVE  SupSpec => []LeftMeansResults
<1>1. SupInit => SInv
  BY InitSInv
<1>2. SInv /\ [SupNext]_allVars => SInv'
  BY SupStep
<1>3. SInv => LeftMeansResults
  BY DEF SInv
<1> QED
  BY <1>1, <1>2, <1>3, PTL DEF SupSpec

\* p2_supervisor.sh:3, with one live invocation of each helper: a chunk that was
\* evaluated keeps its files, and no helper computes it again.
THEOREM NeverRedone ==
  ASSUME OneInvocation
  PROVE  SupSpec => NoRecompute
<1> DEFINE Redo == \A c \in Chunks : Evaluated(c) =>
             /\ Evaluated(c)'
             /\ \A p \in Procs : pc[p] = "ready" /\ idx[p] = c => pc'[p] # "eval"
<1>1. SupInit => SInv
  BY InitSInv
<1>2. SInv /\ [SupNext]_allVars => SInv'
  BY SupStep
<1>3. SInv /\ [SupNext]_allVars => [Redo]_allVars
  BY SupStep, ReadyIncomplete
<1> QED
  BY <1>1, <1>2, <1>3, PTL DEF SupSpec, NoRecompute
=============================================================================
