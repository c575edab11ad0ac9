-------------------------- MODULE ShardedEval_proofs --------------------------
(***************************************************************************)
(* Proofs about ShardedEval for every list of chunks, number of shards and *)
(* bound: the type invariant, the exclusion of two writers on one chunk,   *)
(* that ALL_DONE everywhere means that the whole list is evaluated, that   *)
(* the instances implement the ledger of EvalLedger, and how many of the   *)
(* files that aggregate_chunks.py reads are cut.                           *)
(***************************************************************************)
EXTENDS Aggregation, FiniteSetTheorems, TLAPS

ProcStep(p) == Start(p) \/ Step(p) \/ Crash(p)

(***************************************************************************)
(* The shards: no chunk belongs to two instances, every chunk to one.      *)
(***************************************************************************)
LEMMA ShardsDisjoint ==
  ASSUME NEW p \in Procs, NEW q \in Procs, NEW c, Mine(p, c), Mine(q, c)
  PROVE  p = q
BY ShardingAssumption DEF Mine

LEMMA ShardsCover ==
  ASSUME NEW c \in Chunks
  PROVE  \E p \in Procs : Mine(p, c)
<1>1. c % NumShards \in 0 .. NumShards - 1
  BY ConstantsAssumption DEF Chunks
<1> QED
  BY <1>1, ShardingAssumption DEF Mine

(***************************************************************************)
(* The type invariant and AtOwnChunk, which it needs: idx stays inside the *)
(* list because a working process is at a chunk of the list.               *)
(***************************************************************************)
LEMMA InitTyped == Init => TypeOK /\ AtOwnChunk
BY ConstantsAssumption
   DEF Init, TypeOK, AtOwnChunk, Stages, Stopped, Working, Loaded, Leftovers

LEMMA StepTypeOK ==
  ASSUME TypeOK, AtOwnChunk, NEW p \in Procs, ProcStep(p)
  PROVE  TypeOK'
<1> USE ConstantsAssumption
    DEF TypeOK, Transition, Stages, Stopped, Working, Loaded, Leftovers,
        files, gpu, bounds
<1>1. CASE Start(p)
  BY <1>1 DEF Start
<1>2. CASE Skip(p)
  BY <1>2 DEF Skip
<1>3. CASE Decide(p)
  BY <1>3 DEF Decide
<1>4. CASE Clear(p)
  BY <1>4 DEF Clear
<1>5. CASE GpuFree(p)
  BY <1>5 DEF GpuFree
<1>6. CASE GpuTimeout(p)
  BY <1>6 DEF GpuTimeout
<1>7. CASE LoadModel(p)
  BY <1>7 DEF LoadModel
<1>8. CASE OpenResults(p)
  BY <1>8 DEF OpenResults
<1>9. CASE WriteResults(p)
  BY <1>9 DEF WriteResults
<1>10. CASE AppendSamples(p)
  BY <1>10 DEF AppendSamples
<1>11. CASE CloseSamples(p)
  BY <1>11 DEF CloseSamples
<1>12. CASE Finish(p)
  <2>1. idx[p] \in Chunks
    BY <1>12 DEF Finish, AtOwnChunk
  <2> QED
    BY <1>12, <2>1 DEF Finish, Chunks
<1>13. CASE AllDone(p)
  BY <1>13 DEF AllDone
<1>14. CASE Crash(p)
  BY <1>14 DEF Crash
<1> QED
  BY <1>1, <1>2, <1>3, <1>4, <1>5, <1>6, <1>7, <1>8, <1>9, <1>10, <1>11,
     <1>12, <1>13, <1>14 DEF Step, ProcStep

LEMMA MachineTypeOK ==
  ASSUME TypeOK, Machine
  PROVE  TypeOK'
<1> USE ConstantsAssumption DEF TypeOK, Leftovers, files, bounds
<1>1. CASE NvmlFail
  <2>1. nvml' \in BOOLEAN
    BY <1>1, Zenon DEF NvmlFail
  <2> QED
    BY <1>1, <2>1 DEF NvmlFail
<1>2. CASE NvmlRepair
  BY <1>2 DEF NvmlRepair
<1>3. ASSUME NEW g \in Groups, Borrow(g)
      PROVE  TypeOK'
  BY <1>3 DEF Borrow
<1>4. ASSUME NEW g \in Groups, Release(g)
      PROVE  TypeOK'
  BY <1>4 DEF Release
<1> QED
  BY <1>1, <1>2, <1>3, <1>4 DEF Machine

(***************************************************************************)
(* What a step of one process leaves alone.                                *)
(***************************************************************************)
LEMMA StepFrame ==
  ASSUME TypeOK, NEW p \in Procs, ProcStep(p)
  PROVE  /\ \A q \in Procs \ {p} : pc'[q] = pc[q] /\ idx'[q] = idx[q]
         /\ \A c \in Chunks \ {idx[p]} : res'[c] = res[c] /\ smp'[c] = smp[c]
         /\ pc[p] \notin Working => UNCHANGED files
BY DEF ProcStep, Step, Start, Skip, Decide, Clear, GpuFree, GpuTimeout,
       LoadModel, OpenResults, WriteResults, AppendSamples, CloseSamples,
       Finish, Crash, AllDone, TypeOK, Transition, files, gpu, bounds,
       Working, Loaded, Stopped

LEMMA MachineFrame == Machine => UNCHANGED <<pc, idx, res, smp>>
BY DEF Machine, NvmlFail, NvmlRepair, Borrow, Release, files

(***************************************************************************)
(* AtOwnChunk.  A process becomes a worker only in Decide, at a chunk of   *)
(* its own, and moves on only when it stops being one.                     *)
(***************************************************************************)
LEMMA StepAtOwnChunk ==
  ASSUME TypeOK, AtOwnChunk, NEW p \in Procs, ProcStep(p)
  PROVE  AtOwnChunk'
<1> SUFFICES ASSUME NEW q \in Procs, pc'[q] \in Working
             PROVE  idx'[q] \in Chunks /\ Mine(q, idx'[q])
  BY DEF AtOwnChunk, Mine
<1>1. CASE q # p
  BY <1>1, StepFrame DEF AtOwnChunk
<1>2. CASE q = p
  <2>1. CASE Decide(p)
    BY <1>2, <2>1, ConstantsAssumption DEF Decide, TypeOK, Chunks
  <2>2. CASE pc[p] \in Working /\ idx' = idx
    BY <1>2, <2>2 DEF AtOwnChunk
  <2>3. Decide(p) \/ (pc[p] \in Working /\ idx' = idx)
    BY <1>2 DEF ProcStep, Step, Start, Skip, GpuFree, GpuTimeout, Clear,
                LoadModel, OpenResults, WriteResults, AppendSamples,
                CloseSamples, Finish, Crash, AllDone, TypeOK, Transition,
                Working, Loaded, Stopped
  <2> QED
    BY <2>1, <2>2, <2>3
<1> QED
  BY <1>1, <1>2

LEMMA NextTyped == TypeOK /\ AtOwnChunk /\ [Next]_vars => TypeOK' /\ AtOwnChunk'
<1> SUFFICES ASSUME TypeOK, AtOwnChunk, [Next]_vars
             PROVE  TypeOK' /\ AtOwnChunk'
  OBVIOUS
<1>1. ASSUME NEW p \in Procs, ProcStep(p)
      PROVE  TypeOK' /\ AtOwnChunk'
  BY <1>1, StepTypeOK, StepAtOwnChunk
<1>2. CASE Machine
  BY <1>2, MachineTypeOK, MachineFrame DEF AtOwnChunk, Mine
<1>3. CASE UNCHANGED vars
  BY <1>3 DEF vars, TypeOK, AtOwnChunk, Mine
<1> QED
  BY <1>1, <1>2, <1>3 DEF Next, ProcStep

\* Every reachable state is well typed.
THEOREM TypeCorrect == Spec => []TypeOK
<1>1. Init => TypeOK /\ AtOwnChunk
  BY InitTyped
<1>2. TypeOK /\ AtOwnChunk /\ [Next]_vars => (TypeOK /\ AtOwnChunk)'
  BY NextTyped
<1> QED
  BY <1>1, <1>2, PTL DEF Spec

\* No two instances work on the same chunk, whatever their number and speed:
\* the modulo of run_chunk excludes it.
THEOREM OneWriter == Spec => []OneWriterPerChunk
<1>1. Init => TypeOK /\ AtOwnChunk
  BY InitTyped
<1>2. TypeOK /\ AtOwnChunk /\ [Next]_vars => (TypeOK /\ AtOwnChunk)'
  BY NextTyped
<1>3. AtOwnChunk => OneWriterPerChunk
  BY ShardsDisjoint DEF AtOwnChunk, OneWriterPerChunk
<1> QED
  BY <1>1, <1>2, <1>3, PTL DEF Spec

(***************************************************************************)
(* FilesOfStage.  The other processes leave the directory alone because    *)
(* they are at another chunk or at none.                                   *)
(***************************************************************************)
LEMMA OthersElsewhere ==
  ASSUME TypeOK, AtOwnChunk, NEW p \in Procs, ProcStep(p),
         NEW q \in Procs \ {p}, NEW c \in Chunks, Mine(q, c)
  PROVE  res'[c] = res[c] /\ smp'[c] = smp[c]
<1>1. CASE pc[p] \in Working
  <2>1. c # idx[p]
    BY <1>1, ShardsDisjoint DEF AtOwnChunk
  <2> QED
    BY <2>1, StepFrame
<1>2. CASE pc[p] \notin Working
  BY <1>2, StepFrame DEF files
<1> QED
  BY <1>1, <1>2

LEMMA StepFilesOfStage ==
  ASSUME TypeOK, AtOwnChunk, FilesOfStage, NEW p \in Procs, ProcStep(p)
  PROVE  FilesOfStage'
<1> DEFINE Stage(q) ==
      /\ pc[q] = "open" => res[idx[q]][q] = "empty"
      /\ pc[q] \in {"saved", "samples", "exiting"} => res[idx[q]][q] = "full"
      /\ pc[q] \in {"samples", "exiting"} => smp[idx[q]][q] # "none"
<1> SUFFICES ASSUME NEW q \in Procs
             PROVE  Stage(q)'
  BY DEF FilesOfStage
<1>1. Stage(q)
  BY DEF FilesOfStage
<1>2. CASE q # p
  <2>1. pc'[q] = pc[q] /\ idx'[q] = idx[q]
    BY <1>2, StepFrame
  <2>2. pc[q] \in Working => res'[idx[q]] = res[idx[q]] /\ smp'[idx[q]] = smp[idx[q]]
    BY <1>2, OthersElsewhere DEF AtOwnChunk
  <2> QED
    BY <1>1, <2>1, <2>2 DEF Working, Loaded
<1>3. CASE q = p
  <2> USE DEF Transition, TypeOK
  <2>1. CASE OpenResults(p)
    <3>1. idx[p] \in Chunks
      BY <2>1 DEF OpenResults, AtOwnChunk, Working, Loaded
    <3> QED
      BY <1>3, <2>1, <3>1 DEF OpenResults
  <2>2. CASE WriteResults(p)
    <3>1. idx[p] \in Chunks
      BY <2>2 DEF WriteResults, AtOwnChunk, Working, Loaded
    <3> QED
      BY <1>1, <1>3, <2>2, <3>1 DEF WriteResults
  <2>3. CASE AppendSamples(p)
    <3>1. idx[p] \in Chunks
      BY <2>3 DEF AppendSamples, AtOwnChunk, Working, Loaded
    <3> QED
      BY <1>1, <1>3, <2>3, <3>1 DEF AppendSamples
  <2>4. CASE CloseSamples(p)
    <3>1. idx[p] \in Chunks
      BY <2>4 DEF CloseSamples, AtOwnChunk, Working, Loaded
    <3> QED
      BY <1>1, <1>3, <2>4, <3>1 DEF CloseSamples
  <2>5. CASE pc'[p] \notin {"open", "saved", "samples", "exiting"}
    BY <1>3, <2>5
  <2>6. \/ OpenResults(p) \/ WriteResults(p) \/ AppendSamples(p)
        \/ CloseSamples(p)
        \/ pc'[p] \notin {"open", "saved", "samples", "exiting"}
    BY DEF ProcStep, Step, Start, Skip, Decide, Clear, GpuFree, GpuTimeout,
           LoadModel, Finish, Crash, AllDone
  <2> QED
    BY <2>1, <2>2, <2>3, <2>4, <2>5, <2>6
<1> QED
  BY <1>2, <1>3

(***************************************************************************)
(* ShardProgress.  A step of p changes what is behind p only by adding the *)
(* chunk p skips or has finished, and nothing behind the others.           *)
(***************************************************************************)
LEMMA EvaluatedFrame ==
  ASSUME NEW c, res'[c] = res[c], smp'[c] = smp[c], Evaluated(c)
  PROVE  Evaluated(c)'
BY DEF Evaluated, HasResults, HasSamples

LEMMA StepShardProgress ==
  ASSUME StrictCheck, IInv, NEW p \in Procs, ProcStep(p)
  PROVE  ShardProgress'
<1> USE DEF IInv
<1> SUFFICES ASSUME NEW q \in Procs, pc'[q] \notin {"idle", "aborted"},
                    NEW c \in Chunks, c < idx'[q], Mine(q, c)
             PROVE  Evaluated(c)'
  BY DEF ShardProgress, Mine
<1>1. CASE q # p
  <2>1. pc'[q] = pc[q] /\ idx'[q] = idx[q]
    BY <1>1, StepFrame
  <2>2. Evaluated(c)
    BY <2>1 DEF ShardProgress
  <2> QED
    BY <1>1, <2>2, OthersElsewhere, EvaluatedFrame
<1>2. CASE q = p
  <2>1. CASE Start(p)
    BY <1>2, <2>1 DEF Start, TypeOK, Chunks
  <2>2. CASE Crash(p)
    BY <1>2, <2>2 DEF Crash, TypeOK
  <2>3. CASE Skip(p)
    <3>1. Evaluated(c)
      <4>1. CASE c = idx[p]
        BY <1>2, <2>3, <4>1 DEF Skip, Accepted
      <4>2. CASE c # idx[p]
        <5>1. c < idx[p]
          BY <1>2, <2>3, <4>2 DEF Skip, TypeOK, Chunks
        <5> QED
          BY <1>2, <2>3, <5>1 DEF Skip, ShardProgress
      <4> QED
        BY <4>1, <4>2
    <3> QED
      BY <2>3, <3>1, EvaluatedFrame DEF Skip, files
  <2>4. CASE Finish(p)
    <3>1. idx[p] \in Chunks /\ pc[p] = "exiting"
      BY <2>4 DEF Finish, Transition, AtOwnChunk, Working, Loaded
    <3>2. Evaluated(c)
      <4>1. CASE c = idx[p]
        BY <1>2, <3>1, <4>1 DEF FilesOfStage, Evaluated, HasResults, HasSamples
      <4>2. CASE c # idx[p]
        <5>1. c < idx[p]
          BY <1>2, <2>4, <4>2 DEF Finish, TypeOK, Chunks
        <5> QED
          BY <1>2, <3>1, <5>1 DEF ShardProgress
      <4> QED
        BY <4>1, <4>2
    <3> QED
      BY <2>4, <3>2, EvaluatedFrame DEF Finish, files
  <2>5. CASE Step(p) /\ ~Skip(p) /\ ~Finish(p)
    <3>1. idx' = idx /\ pc[p] \notin Stopped
      BY <2>5 DEF Step, Decide, Clear, GpuFree, GpuTimeout, LoadModel,
                  OpenResults, WriteResults, AppendSamples, CloseSamples,
                  AllDone, Transition, Stopped
    <3>2. Evaluated(c) /\ c # idx[p]
      BY <1>2, <3>1 DEF ShardProgress, Stopped, TypeOK, Chunks
    <3> QED
      BY <1>2, <3>2, StepFrame, EvaluatedFrame
  <2> QED
    BY <2>1, <2>2, <2>3, <2>4, <2>5 DEF ProcStep
<1> QED
  BY <1>1, <1>2

LEMMA StepDoneAtEnd ==
  ASSUME TypeOK, DoneAtEnd, NEW p \in Procs, ProcStep(p)
  PROVE  DoneAtEnd'
BY DEF DoneAtEnd, ProcStep, Step, Start, Skip, Decide, Clear, GpuFree,
       GpuTimeout, LoadModel, OpenResults, WriteResults, AppendSamples,
       CloseSamples, Finish, Crash, AllDone, TypeOK, Transition, Stopped

(***************************************************************************)
(* The inductive invariant and its consequences.                           *)
(***************************************************************************)
LEMMA InitIInv == Init => IInv
BY InitTyped, ConstantsAssumption
   DEF Init, IInv, FilesOfStage, DoneAtEnd, ShardProgress

LEMMA NextIInv == StrictCheck /\ IInv /\ [Next]_vars => IInv'
<1> SUFFICES ASSUME StrictCheck, IInv, [Next]_vars
             PROVE  IInv'
  OBVIOUS
<1>1. TypeOK' /\ AtOwnChunk'
  BY NextTyped DEF IInv
<1>2. ASSUME NEW p \in Procs, ProcStep(p)
      PROVE  FilesOfStage' /\ DoneAtEnd' /\ ShardProgress'
  BY <1>2, StepFilesOfStage, StepDoneAtEnd, StepShardProgress DEF IInv
<1>3. ASSUME UNCHANGED <<pc, idx, res, smp>>
      PROVE  FilesOfStage' /\ DoneAtEnd' /\ ShardProgress'
  BY <1>3 DEF IInv, FilesOfStage, DoneAtEnd, ShardProgress, Mine, Evaluated,
              HasResults, HasSamples
<1> QED
  BY <1>1, <1>2, <1>3, MachineFrame DEF IInv, Next, ProcStep, vars

LEMMA IInvAllDone == IInv => AllDoneMeansEvaluated
<1> SUFFICES ASSUME IInv, \A p \in Procs : pc[p] = "done", NEW c \in Chunks
             PROVE  Evaluated(c)
  BY DEF AllDoneMeansEvaluated
<1>1. PICK p \in Procs : Mine(p, c)
  BY ShardsCover
<1>2. idx[p] = NumChunks /\ c < NumChunks
  BY ConstantsAssumption DEF IInv, DoneAtEnd, Chunks
<1> QED
  BY <1>1, <1>2 DEF IInv, ShardProgress

\* With the strict check, an instance never leaves a chunk of its shard
\* behind it unevaluated, through any crash and rerun.
THEOREM Progress ==
  ASSUME StrictCheck
  PROVE  Spec => []ShardProgress
<1>1. Init => IInv
  BY InitIInv
<1>2. IInv /\ [Next]_vars => IInv'
  BY NextIInv
<1>3. IInv => ShardProgress
  BY DEF IInv
<1> QED
  BY <1>1, <1>2, <1>3, PTL DEF Spec

\* With the strict check, ALL_DONE from every instance means that the whole
\* list has its results and samples.
THEOREM AllDoneComplete ==
  ASSUME StrictCheck
  PROVE  Spec => []AllDoneMeansEvaluated
<1>1. Init => IInv
  BY InitIInv
<1>2. IInv /\ [Next]_vars => IInv'
  BY NextIInv
<1>3. IInv => AllDoneMeansEvaluated
  BY IInvAllDone
<1> QED
  BY <1>1, <1>2, <1>3, PTL DEF Spec

-----------------------------------------------------------------------------
(***************************************************************************)
(* The ledger: with the strict check, no chunk is held by two instances    *)
(* and no evaluated chunk is ever taken again.                             *)
(***************************************************************************)

LInv == IInv /\ NotYetEvaluated

(***************************************************************************)
(* NotYetEvaluated is inductive together with IInv.                        *)
(***************************************************************************)
LEMMA StepNotYet ==
  ASSUME StrictCheck, LInv, NEW p \in Procs, ProcStep(p)
  PROVE  NotYetEvaluated'
<1> USE DEF LInv, IInv
<1> DEFINE Early == {"wait", "ready", "eval", "open", "saved"}
           Stage(q) == /\ pc[q] = "clear" => ~Evaluated(idx[q])
                       /\ pc[q] \in Early => ~HasSamples(idx[q])
<1> SUFFICES ASSUME NEW q \in Procs
             PROVE  Stage(q)'
  BY DEF NotYetEvaluated, Evaluated, HasResults, HasSamples
<1>0. Stage(q)
  BY DEF NotYetEvaluated
<1> USE DEF Evaluated, HasResults, HasSamples
<1>1. CASE q # p
  <2>1. pc'[q] = pc[q] /\ idx'[q] = idx[q]
    BY <1>1, StepFrame
  <2>2. pc[q] \in Working => res'[idx[q]] = res[idx[q]] /\ smp'[idx[q]] = smp[idx[q]]
    BY <1>1, OthersElsewhere DEF AtOwnChunk
  <2> QED
    BY <1>0, <2>1, <2>2 DEF Working, Loaded
<1>2. CASE q = p
  <2> USE DEF Transition, TypeOK
  <2>1. CASE Decide(p)
    BY <1>2, <2>1 DEF Decide, Accepted, files
  <2>2. CASE Clear(p)
    <3>1. idx[p] \in Chunks
      BY <2>2 DEF Clear, AtOwnChunk, Working
    <3>2. idx' = idx /\ pc'[p] = "wait" /\ smp'[idx[p]] = [r \in Procs |-> "none"]
      BY <2>2, <3>1 DEF Clear
    <3> QED
      BY <1>2, <3>2
  <2>3. CASE pc[p] \in Early /\ UNCHANGED <<idx, smp>> /\ pc'[p] # "clear"
    BY <1>0, <1>2, <2>3
  <2>4. CASE pc'[p] \notin Early \union {"clear"}
    BY <1>2, <2>4
  <2>5. \/ Decide(p) \/ Clear(p)
        \/ pc[p] \in Early /\ UNCHANGED <<idx, smp>> /\ pc'[p] # "clear"
        \/ pc'[p] \notin Early \union {"clear"}
    BY DEF ProcStep, Step, Start, Skip, GpuFree, GpuTimeout, LoadModel,
           OpenResults, WriteResults, AppendSamples, CloseSamples, Finish,
           Crash, AllDone, Stopped, files
  <2> QED
    BY <2>1, <2>2, <2>3, <2>4, <2>5
<1> QED
  BY <1>1, <1>2

LEMMA NextLInv ==
  ASSUME StrictCheck, LInv, [Next]_vars
  PROVE  LInv'
<1>1. IInv'
  BY NextIInv DEF LInv
<1>2. ASSUME NEW p \in Procs, ProcStep(p)
      PROVE  NotYetEvaluated'
  BY <1>2, StepNotYet
<1>3. ASSUME UNCHANGED <<pc, idx, res, smp>>
      PROVE  NotYetEvaluated'
  BY <1>3 DEF LInv, NotYetEvaluated, Evaluated, HasResults, HasSamples
<1> QED
  BY <1>1, <1>2, <1>3, MachineFrame DEF LInv, Next, ProcStep, vars

(***************************************************************************)
(* holder says which process holds a chunk: there is at most one.          *)
(***************************************************************************)
HolderTable ==
  /\ holder = [c \in Chunks |-> holder[c]]
  /\ \A c \in Chunks :
       /\ holder[c] \in Procs \union {Nobody}
       /\ \A p \in Procs : holder[c] = p <=> Holds(p, c)

LEMMA HolderIsTable == AtOwnChunk => HolderTable
<1> SUFFICES ASSUME AtOwnChunk, NEW c \in Chunks
             PROVE  /\ holder[c] \in Procs \union {Nobody}
                    /\ \A p \in Procs : holder[c] = p <=> Holds(p, c)
  BY DEF HolderTable, holder
<1>1. \A p, q \in Procs : Holds(p, c) /\ Holds(q, c) => p = q
  BY ShardsDisjoint DEF Holds, AtOwnChunk
<1>2. CASE \E p \in Procs : Holds(p, c)
  <2>1. holder[c] = CHOOSE p \in Procs : Holds(p, c)
    BY <1>2 DEF holder
  <2>2. holder[c] \in Procs /\ Holds(holder[c], c)
    BY <1>2, <2>1, Zenon
  <2> QED
    BY <1>1, <2>2
<1>3. CASE ~ \E p \in Procs : Holds(p, c)
  <2>1. holder[c] = Nobody
    BY <1>3 DEF holder
  <2> QED
    BY <1>3, <2>1, ShardingAssumption
<1> QED
  BY <1>2, <1>3

LEMMA HolderIsTableNext == AtOwnChunk' => HolderTable'
BY HolderIsTable, PTL

(***************************************************************************)
(* Only the chunk p works on can change hands in a step of p.              *)
(***************************************************************************)
LEMMA OthersHold ==
  ASSUME TypeOK, AtOwnChunk, NEW p \in Procs, ProcStep(p),
         NEW q \in Procs \ {p}, NEW c \in Chunks
  PROVE  Holds(q, c)' <=> Holds(q, c)
<1>1. pc'[q] = pc[q] /\ idx'[q] = idx[q]
  BY StepFrame
<1>2. CASE pc[q] \in Working /\ idx[q] = c
  <2>1. res'[c] = res[c] /\ smp'[c] = smp[c]
    BY <1>2, OthersElsewhere DEF AtOwnChunk
  <2> QED
    BY <1>1, <2>1 DEF Holds, Evaluated, HasResults, HasSamples
<1>3. CASE ~(pc[q] \in Working /\ idx[q] = c)
  BY <1>1, <1>3 DEF Holds
<1> QED
  BY <1>2, <1>3

(***************************************************************************)
(* What a step of p does to p's own hold and to the evaluated chunks.      *)
(***************************************************************************)
HoldsKept(p) ==
  \A c \in Chunks : /\ Holds(p, c)' <=> Holds(p, c)
                    /\ Evaluated(c)' <=> Evaluated(c)

TakesChunk(p) ==
  /\ idx[p] \in Chunks /\ Mine(p, idx[p]) /\ ~Evaluated(idx[p])
  /\ \A c \in Chunks : /\ ~Holds(p, c)
                       /\ Holds(p, c)' <=> c = idx[p]
                       /\ Evaluated(c)' <=> Evaluated(c)

Commits(p) ==
  /\ Holds(p, idx[p])
  /\ \A c \in Chunks : /\ ~Holds(p, c)'
                       /\ Evaluated(c)' <=> (Evaluated(c) \/ c = idx[p])

GivesBack(p) ==
  /\ Holds(p, idx[p])
  /\ \A c \in Chunks : /\ ~Holds(p, c)'
                       /\ Evaluated(c)' <=> Evaluated(c)

LEMMA StepOnHold ==
  ASSUME StrictCheck, LInv, NEW p \in Procs, ProcStep(p)
  PROVE  HoldsKept(p) \/ TakesChunk(p) \/ Commits(p) \/ GivesBack(p)
<1> USE DEF LInv, IInv
<1>0. pc[p] \in Working => idx[p] \in Chunks
  BY DEF AtOwnChunk
<1> USE <1>0 DEF Transition, TypeOK
<1>1. CASE Decide(p)
  <2>1. idx[p] \in Chunks
    BY <1>1, ConstantsAssumption DEF Decide, Chunks
  <2> QED
    BY <1>1, <2>1 DEF Decide, TakesChunk, Holds, Accepted, Evaluated,
                      HasResults, HasSamples, Working, Loaded, files
<1>2. CASE AppendSamples(p)
  <2>1. idx[p] \in Chunks
    BY <1>2 DEF AppendSamples, Working, Loaded
  <2>2. /\ pc[p] = "saved" /\ pc'[p] = "samples" /\ idx' = idx /\ res' = res
        /\ smp'[idx[p]][p] = "part"
        /\ \A c \in Chunks \ {idx[p]} : smp'[c] = smp[c]
    BY <1>2, <2>1 DEF AppendSamples
  <2>3. res[idx[p]][p] = "full" /\ ~HasSamples(idx[p])
    BY <2>2 DEF FilesOfStage, NotYetEvaluated
  <2>4. Evaluated(idx[p])' /\ ~Evaluated(idx[p])
    BY <2>2, <2>3 DEF Evaluated, HasResults, HasSamples
  <2>5. \A c \in Chunks \ {idx[p]} : Evaluated(c)' <=> Evaluated(c)
    BY <2>2 DEF Evaluated, HasResults, HasSamples
  <2> QED
    BY <2>1, <2>2, <2>4, <2>5 DEF Commits, Holds, Working, Loaded
<1>3. CASE /\ UNCHANGED files
           /\ pc[p] \in Working /\ ~Evaluated(idx[p])
           /\ pc'[p] \notin Working
  <2>1. \A c \in Chunks : Evaluated(c)' <=> Evaluated(c)
    BY <1>3 DEF Evaluated, HasResults, HasSamples, files
  <2> QED
    BY <1>3, <2>1 DEF GivesBack, Holds
<1>4. CASE /\ UNCHANGED files
           /\ pc[p] \notin Working \/ Evaluated(idx[p])
           /\ pc'[p] \notin Working
  <2>1. \A c \in Chunks : Evaluated(c)' <=> Evaluated(c)
    BY <1>4 DEF Evaluated, HasResults, HasSamples, files
  <2> QED
    BY <1>4, <2>1 DEF HoldsKept, Holds
<1>5. CASE /\ UNCHANGED idx
           /\ pc[p] \in Working /\ pc'[p] \in Working
           /\ Evaluated(idx[p])' <=> Evaluated(idx[p])
  <2>1. \A c \in Chunks : Evaluated(c)' <=> Evaluated(c)
    <3>1. \A c \in Chunks \ {idx[p]} : Evaluated(c)' <=> Evaluated(c)
      BY StepFrame DEF Evaluated, HasResults, HasSamples
    <3> QED
      BY <1>5, <3>1
  <2> QED
    BY <1>5, <2>1 DEF HoldsKept, Holds
<1>6. CASE Clear(p)
  <2>1. /\ smp'[idx[p]] = [q \in Procs |-> "none"] /\ UNCHANGED idx
        /\ pc[p] = "clear" /\ pc'[p] = "wait"
    BY <1>6 DEF Clear, Working
  <2>2. ~Evaluated(idx[p])
    BY <2>1 DEF NotYetEvaluated
  <2>3. ~Evaluated(idx[p])'
    BY <2>1 DEF Evaluated, HasSamples
  <2> QED
    BY <1>5, <2>1, <2>2, <2>3 DEF Working
<1>7. CASE OpenResults(p) \/ WriteResults(p)
  <2>1. /\ UNCHANGED <<idx, smp>> /\ pc[p] \in {"eval", "open"}
        /\ pc'[p] \in {"open", "saved"}
    BY <1>7 DEF OpenResults, WriteResults
  <2>2. ~HasSamples(idx[p])
    BY <2>1 DEF NotYetEvaluated
  <2>3. ~HasSamples(idx[p])'
    BY <2>1, <2>2 DEF HasSamples
  <2> QED
    BY <1>5, <2>1, <2>2, <2>3 DEF Evaluated, Working, Loaded
<1>8. CASE CloseSamples(p)
  <2>1. /\ UNCHANGED <<idx, res>> /\ pc[p] = "samples" /\ pc'[p] = "exiting"
        /\ smp'[idx[p]][p] # "none"
    BY <1>8 DEF CloseSamples, FilesOfStage, Working, Loaded
  <2>2. Evaluated(idx[p])
    BY <2>1 DEF FilesOfStage, Evaluated, HasResults, HasSamples
  <2>3. Evaluated(idx[p])'
    BY <2>1, <2>2 DEF Evaluated, HasResults, HasSamples
  <2> QED
    BY <1>5, <2>1, <2>2, <2>3 DEF Working, Loaded
<1>9. CASE GpuFree(p) \/ LoadModel(p)
  <2>1. /\ UNCHANGED <<idx, files>> /\ pc[p] \in {"wait", "ready"}
        /\ pc'[p] \in {"ready", "eval"}
    BY <1>9 DEF GpuFree, LoadModel
  <2>2. Evaluated(idx[p])' <=> Evaluated(idx[p])
    BY <2>1 DEF Evaluated, HasResults, HasSamples, files
  <2> QED
    BY <1>5, <2>1, <2>2 DEF Working, Loaded
<1>10. CASE \/ Start(p) \/ Skip(p) \/ AllDone(p) \/ Crash(p) \/ GpuTimeout(p)
            \/ Finish(p)
  <2>1. UNCHANGED files /\ pc'[p] \notin Working
    BY <1>10 DEF Start, Skip, AllDone, Crash, GpuTimeout, Finish, Working,
                 Loaded, files
  <2> QED
    BY <1>3, <1>4, <2>1
<1> QED
  BY <1>1, <1>2, <1>6, <1>7, <1>8, <1>9, <1>10 DEF ProcStep, Step

(***************************************************************************)
(* Every step is a step of the ledger or leaves it as it is.               *)
(***************************************************************************)
ledgerEvaluated == {c \in Chunks : Evaluated(c)}

LEMMA StepSimulates ==
  ASSUME StrictCheck, LInv, NEW p \in Procs, ProcStep(p)
  PROVE  [Ledger!LedgerNext]_<<holder, ledgerEvaluated>>
<1> USE DEF LInv, IInv
<1>1. HolderTable /\ HolderTable'
  BY NextIInv, HolderIsTable, HolderIsTableNext DEF Next, ProcStep
<1>2. \A q \in Procs \ {p}, c \in Chunks : Holds(q, c)' <=> Holds(q, c)
  BY OthersHold
<1>3. CASE HoldsKept(p)
  <2>1. ledgerEvaluated' = ledgerEvaluated
    BY <1>3 DEF HoldsKept, ledgerEvaluated
  <2>2. \A q \in Procs, c \in Chunks : Holds(q, c)' <=> Holds(q, c)
    BY <1>2, <1>3 DEF HoldsKept
  <2>3. \A c \in Chunks : holder'[c] = holder[c]
    BY <1>1, <2>2, ShardingAssumption DEF HolderTable
  <2>4. holder' = holder
    BY <1>1, <2>3 DEF HolderTable
  <2> QED
    BY <2>1, <2>4
<1>4. CASE TakesChunk(p)
  <2>1. ledgerEvaluated' = ledgerEvaluated /\ idx[p] \notin ledgerEvaluated
    BY <1>4 DEF TakesChunk, ledgerEvaluated
  <2>2. \A d \in Chunks : holder[d] # p
    BY <1>1, <1>4 DEF TakesChunk, HolderTable
  <2>3. holder[idx[p]] = Nobody
    <3>1. \A q \in Procs : ~Holds(q, idx[p])
      BY <1>4, ShardsDisjoint DEF TakesChunk, Holds, AtOwnChunk
    <3> QED
      BY <1>1, <1>4, <3>1 DEF TakesChunk, HolderTable
  <2>4. \A c \in Chunks : holder'[c] = IF c = idx[p] THEN p ELSE holder[c]
    <3> SUFFICES ASSUME NEW c \in Chunks
                 PROVE  holder'[c] = IF c = idx[p] THEN p ELSE holder[c]
      OBVIOUS
    <3>1. CASE c = idx[p]
      BY <1>1, <1>4, <3>1 DEF TakesChunk, HolderTable
    <3>2. CASE c # idx[p]
      <4>1. ~Holds(p, c)' /\ ~Holds(p, c)
        BY <1>4, <3>2 DEF TakesChunk
      <4>2. \A q \in Procs : Holds(q, c)' <=> Holds(q, c)
        BY <1>2, <4>1
      <4> QED
        BY <1>1, <3>2, <4>2, ShardingAssumption DEF HolderTable
    <3> QED
      BY <3>1, <3>2
  <2>5. holder' = [holder EXCEPT ![idx[p]] = p]
    BY <1>1, <2>4 DEF HolderTable
  <2>6. Ledger!Take(p, idx[p])
    BY <2>1, <2>2, <2>3, <2>5 DEF Ledger!Take, ledgerEvaluated
  <2> QED
    BY <1>4, <2>6 DEF Ledger!LedgerNext, TakesChunk
<1>5. ASSUME Holds(p, idx[p]), \A c \in Chunks : ~Holds(p, c)'
      PROVE  /\ idx[p] \in Chunks /\ holder[idx[p]] = p
             /\ holder' = [holder EXCEPT ![idx[p]] = Nobody]
  <2>1. idx[p] \in Chunks /\ holder[idx[p]] = p
    BY <1>1, <1>5 DEF Holds, AtOwnChunk, HolderTable
  <2>2. \A c \in Chunks : holder'[c] = IF c = idx[p] THEN Nobody ELSE holder[c]
    <3> SUFFICES ASSUME NEW c \in Chunks
                 PROVE  holder'[c] = IF c = idx[p] THEN Nobody ELSE holder[c]
      OBVIOUS
    <3>1. CASE c = idx[p]
      <4>1. \A q \in Procs \ {p} : ~Holds(q, c)
        BY <1>1, <2>1, <3>1 DEF HolderTable
      <4> QED
        BY <1>1, <1>2, <1>5, <3>1, <4>1 DEF HolderTable
    <3>2. CASE c # idx[p]
      <4>1. ~Holds(p, c)
        BY <3>2 DEF Holds
      <4>2. \A q \in Procs : Holds(q, c)' <=> Holds(q, c)
        BY <1>2, <1>5, <4>1
      <4> QED
        BY <1>1, <3>2, <4>2, ShardingAssumption DEF HolderTable
    <3> QED
      BY <3>1, <3>2
  <2> QED
    BY <1>1, <2>1, <2>2 DEF HolderTable
<1>6. CASE Commits(p)
  <2>1. ledgerEvaluated' = ledgerEvaluated \union {idx[p]}
    BY <1>5, <1>6 DEF Commits, ledgerEvaluated
  <2>2. Ledger!Commit(p, idx[p])
    BY <1>5, <1>6, <2>1 DEF Commits, Ledger!Commit, ledgerEvaluated
  <2> QED
    BY <1>5, <1>6, <2>2 DEF Ledger!LedgerNext, Commits
<1>7. CASE GivesBack(p)
  <2>1. ledgerEvaluated' = ledgerEvaluated
    BY <1>7 DEF GivesBack, ledgerEvaluated
  <2>2. Ledger!GiveBack(p, idx[p])
    BY <1>5, <1>7, <2>1 DEF GivesBack, Ledger!GiveBack, ledgerEvaluated
  <2> QED
    BY <1>5, <1>7, <2>2 DEF Ledger!LedgerNext, GivesBack
<1> QED
  BY <1>3, <1>4, <1>6, <1>7, StepOnHold

\* The sharded instances implement the ledger, for every list of chunks and
\* number of shards: nobody takes a chunk that is held or evaluated.
THEOREM Implementation ==
  ASSUME StrictCheck
  PROVE  Spec => ImplementsLedger
<1>1. Init => LInv
  BY InitIInv DEF LInv, Init, NotYetEvaluated
<1>2. LInv /\ [Next]_vars => LInv'
  BY NextLInv
<1>3. Init => Ledger!LedgerInit
  <2> SUFFICES ASSUME Init
               PROVE  Ledger!LedgerInit
    OBVIOUS
  <2>1. \A p \in Procs, c \in Chunks : ~Holds(p, c)
    BY DEF Init, Holds, Working, Loaded
  <2>2. \A c \in Chunks : ~Evaluated(c)
    BY DEF Init, Evaluated, HasResults
  <2> QED
    BY <2>1, <2>2 DEF Ledger!LedgerInit, holder
<1>4. LInv /\ [Next]_vars => [Ledger!LedgerNext]_<<holder, ledgerEvaluated>>
  <2> SUFFICES ASSUME LInv, [Next]_vars
               PROVE  [Ledger!LedgerNext]_<<holder, ledgerEvaluated>>
    OBVIOUS
  <2>1. ASSUME NEW p \in Procs, ProcStep(p)
        PROVE  [Ledger!LedgerNext]_<<holder, ledgerEvaluated>>
    BY <2>1, StepSimulates
  <2>2. ASSUME UNCHANGED <<pc, idx, res, smp>>
        PROVE  UNCHANGED <<holder, ledgerEvaluated>>
    BY <2>2 DEF holder, ledgerEvaluated, Holds, Evaluated, HasResults,
                HasSamples
  <2> QED
    BY <2>1, <2>2, MachineFrame DEF Next, ProcStep, vars
<1> QED
  BY <1>1, <1>2, <1>3, <1>4, PTL
     DEF Spec, ImplementsLedger, Ledger!LedgerSpec, Ledger!ledgerVars,
         ledgerEvaluated

-----------------------------------------------------------------------------
(***************************************************************************)
(* What aggregate_chunks.py reads: with the strict check, no row twice,    *)
(* and every crash leaves at most one file that is cut.  A chunk that an   *)
(* instance has passed has samples, so it lacks rows only when its file is *)
(* cut.                                                                    *)
(***************************************************************************)

CutChunks == Cut \ BeingWritten

CutsCounted == AddedTwice = {} /\ Cardinality(CutChunks) <= crashes

AInv == LInv /\ CutsCounted

\* aggregate_chunks.py:47: the chunks of the list are finitely many, so their
\* number can be compared.
LEMMA CutFinite == IsFiniteSet(CutChunks)
<1>1. 0 \in Int /\ NumChunks - 1 \in Int
  BY ConstantsAssumption
<1>2. IsFiniteSet(Chunks)
  BY <1>1, FS_Interval DEF Chunks
<1>3. CutChunks \subseteq Chunks
  BY DEF CutChunks, Cut
<1> QED
  BY <1>2, <1>3, FS_Subset

\* run_chunk, line 146: samples are appended by the one process at the chunk, and
\* only where there are none.
LEMMA StepAddedOnce ==
  ASSUME StrictCheck, LInv, AddedTwice = {}, NEW p \in Procs, ProcStep(p)
  PROVE  AddedTwice' = {}
<1> USE DEF LInv, IInv, AddedTwice, Read
<1>1. CASE AppendSamples(p)
  <2>1. idx[p] \in Chunks /\ \A q \in Procs : smp[idx[p]][q] = "none"
    BY <1>1 DEF AppendSamples, Transition, AtOwnChunk, Working, Loaded, NotYetEvaluated, HasSamples
  <2>2. smp' = [smp EXCEPT ![idx[p]][p] = "part"]
    BY <1>1 DEF AppendSamples
  <2> QED
    BY <2>1, <2>2 DEF TypeOK
<1>2. CASE Clear(p)
  BY <1>2 DEF Clear, TypeOK
<1>3. CASE CloseSamples(p)
  <2>1. smp' = [smp EXCEPT ![idx[p]][p] = IF @ = "part" THEN "all" ELSE @]
    BY <1>3 DEF CloseSamples
  <2>2. \A c \in Chunks, q \in Procs : smp[c][q] = "none" => smp'[c][q] = "none"
    BY <2>1 DEF TypeOK
  <2> QED
    BY <2>2
<1>4. CASE smp' = smp
  BY <1>4
<1> QED
  BY <1>1, <1>2, <1>3, <1>4
     DEF ProcStep, Step, Start, Skip, Decide, GpuFree, GpuTimeout, LoadModel,
         OpenResults, WriteResults, Finish, Crash, AllDone, files

\* Lines 158-163: only a crash adds to the chunks that are cut, and only the one
\* at which it happens.
LEMMA StepCuts ==
  ASSUME StrictCheck, LInv, AddedTwice = {}, NEW p \in Procs, ProcStep(p)
  PROVE  \/ crashes' = crashes /\ CutChunks' \subseteq CutChunks
         \/ crashes' = crashes + 1 /\ CutChunks' \subseteq CutChunks \union {idx[p]}
<1> USE DEF LInv, IInv, Transition
<1>0. /\ \A q \in Procs \ {p} : pc'[q] = pc[q] /\ idx'[q] = idx[q]
      /\ \A c \in Chunks \ {idx[p]} : smp'[c] = smp[c]
  BY StepFrame
<1>1. \A c \in Chunks \ {idx[p]} : c \in CutChunks' => c \in CutChunks
  <2>1. ASSUME NEW c \in Chunks \ {idx[p]}, c \in BeingWritten
        PROVE  c \in BeingWritten'
    BY <1>0, <2>1 DEF BeingWritten
  <2>2. ASSUME NEW c \in Chunks \ {idx[p]}, c \in Cut'
        PROVE  c \in Cut
    BY <1>0, <2>2 DEF Cut, Read
  <2> QED
    BY <2>1, <2>2 DEF CutChunks
<1>2. CutChunks' \subseteq Chunks
  BY DEF CutChunks, Cut
<1>3. CASE Crash(p)
  BY <1>1, <1>2, <1>3 DEF Crash
<1>4. CASE AppendSamples(p)
  <2>1. idx[p] \in BeingWritten' /\ crashes' = crashes
    BY <1>4 DEF AppendSamples, BeingWritten, TypeOK, bounds
  <2> QED
    BY <1>1, <1>2, <2>1 DEF CutChunks
<1>5. CASE CloseSamples(p)
  <2>1. idx[p] \in Chunks /\ smp[idx[p]][p] # "none"
    BY <1>5 DEF CloseSamples, AtOwnChunk, FilesOfStage, Working, Loaded
  <2>2. smp' = [smp EXCEPT ![idx[p]][p] = IF @ = "part" THEN "all" ELSE @] /\ crashes' = crashes
    BY <1>5 DEF CloseSamples, bounds
  <2>3. \A q \in Procs \ {p} : smp[idx[p]][q] = "none"
    BY <2>1 DEF AddedTwice, Read
  <2>4. idx[p] \notin Cut'
    BY <2>1, <2>2, <2>3 DEF Cut, Read, TypeOK
  <2> QED
    BY <1>1, <1>2, <2>2, <2>4 DEF CutChunks
<1>6. CASE Clear(p)
  <2>1. idx[p] \notin Cut' /\ crashes' = crashes
    BY <1>6 DEF Clear, Cut, Read, TypeOK, bounds
  <2> QED
    BY <1>1, <1>2, <2>1 DEF CutChunks
<1>7. CASE /\ smp' = smp /\ crashes' = crashes
           /\ pc[p] # "samples" /\ pc'[p] # "samples"
  <2>1. Cut' = Cut
    BY <1>7 DEF Cut, Read
  <2>2. BeingWritten' = BeingWritten
    BY <1>0, <1>7 DEF BeingWritten
  <2> QED
    BY <1>7, <2>1, <2>2 DEF CutChunks
<1> QED
  BY <1>3, <1>4, <1>5, <1>6, <1>7
     DEF ProcStep, Step, Start, Skip, Decide, GpuFree, GpuTimeout, LoadModel,
         OpenResults, WriteResults, Finish, AllDone, files, bounds, TypeOK, Stopped

\* run_p2_transformers_chunked.sh:119-139: a chunk that an instance has passed
\* has a samples file, and nobody writes it any more; it lacks rows only when its
\* file was cut.
LEMMA PassedLackOnlyCuts ==
  ASSUME LInv
  PROVE  Lacking \cap Passed \subseteq CutChunks
<1> USE DEF LInv, IInv
<1> SUFFICES ASSUME NEW c \in Lacking, c \in Passed
             PROVE  c \in CutChunks
  OBVIOUS
<1>1. c \in Chunks /\ \A r \in Read(c) : smp[c][r] = "part"
  BY DEF Lacking
<1>2. PICK p \in Procs : pc[p] \notin {"idle", "aborted"} /\ Mine(p, c) /\ c < idx[p]
  BY DEF Passed
<1>3. Evaluated(c)
  BY <1>1, <1>2 DEF ShardProgress
<1>4. PICK r \in Procs : smp[c][r] # "none"
  BY <1>3 DEF Evaluated, HasSamples
<1>5. c \in Cut
  BY <1>1, <1>4 DEF Cut, Read
<1>6. ASSUME NEW q \in Procs, pc[q] = "samples", idx[q] = c
      PROVE  FALSE
  <2>1. Mine(q, c)
    BY <1>6 DEF AtOwnChunk, Working, Loaded
  <2>2. q = p
    BY <1>1, <1>2, <2>1, ShardsDisjoint
  <2>3. idx[p] \in Nat /\ c \in Nat
    BY <1>1, ConstantsAssumption DEF TypeOK, Chunks
  <2> QED
    BY <1>2, <1>6, <2>2, <2>3
<1> QED
  BY <1>5, <1>6 DEF CutChunks, BeingWritten

LEMMA NextAInv ==
  ASSUME StrictCheck, AInv, [Next]_vars
  PROVE  AInv'
<1> USE DEF AInv
<1>0. LInv' /\ crashes \in Nat
  BY NextLInv, ConstantsAssumption DEF LInv, IInv, TypeOK
<1>1. ASSUME NEW p \in Procs, ProcStep(p)
      PROVE  CutsCounted'
  <2>1. AddedTwice' = {}
    BY <1>1, StepAddedOnce DEF CutsCounted
  <2>2. \/ crashes' = crashes /\ CutChunks' \subseteq CutChunks
        \/ crashes' = crashes + 1 /\ CutChunks' \subseteq CutChunks \union {idx[p]}
    BY <1>1, StepCuts DEF CutsCounted
  <2>3. IsFiniteSet(CutChunks) /\ IsFiniteSet(CutChunks \union {idx[p]})
    BY CutFinite, FS_AddElement
  <2>4. Cardinality(CutChunks) \in Nat /\ Cardinality(CutChunks) <= crashes
    BY CutFinite, FS_CardinalityType DEF CutsCounted
  <2>a. Cardinality(CutChunks \union {idx[p]}) <= Cardinality(CutChunks) + 1
    <3>1. \/ Cardinality(CutChunks \union {idx[p]}) = Cardinality(CutChunks)
          \/ Cardinality(CutChunks \union {idx[p]}) = Cardinality(CutChunks) + 1
      BY CutFinite, FS_AddElement
    <3> QED
      BY <2>4, <3>1
  <2>5. \A S, U : IsFiniteSet(U) /\ S \subseteq U =>
          Cardinality(S) <= Cardinality(U) /\ Cardinality(S) \in Nat /\ Cardinality(U) \in Nat
    BY FS_Subset, FS_CardinalityType
  <2>6. Cardinality(CutChunks') <= crashes'
    BY <1>0, <2>2, <2>3, <2>4, <2>a, <2>5
  <2> QED
    BY <2>1, <2>6 DEF CutsCounted
<1>2. ASSUME UNCHANGED <<pc, idx, res, smp, crashes>>
      PROVE  CutsCounted'
  BY <1>2 DEF CutsCounted, CutChunks, AddedTwice, Cut, Read, BeingWritten
<1>3. Machine => UNCHANGED <<pc, idx, res, smp, crashes>>
  BY DEF Machine, NvmlFail, NvmlRepair, Borrow, Release, files, bounds
<1> QED
  BY <1>0, <1>1, <1>2, <1>3 DEF Next, ProcStep, vars

LEMMA AInvCounts ==
  ASSUME AInv
  PROVE  CutWithinCrashes
<1>1. Lacking \cap Passed \subseteq CutChunks
  BY PassedLackOnlyCuts DEF AInv
<1>2. /\ Cardinality(Lacking \cap Passed) <= Cardinality(CutChunks)
      /\ Cardinality(Lacking \cap Passed) \in Nat
  BY <1>1, CutFinite, FS_Subset, FS_CardinalityType
<1>3. Cardinality(CutChunks) \in Nat /\ crashes \in Nat
  BY CutFinite, FS_CardinalityType, ConstantsAssumption DEF AInv, LInv, IInv, TypeOK
<1>4. Cardinality(CutChunks) <= crashes
  BY DEF AInv, CutsCounted
<1>5. Cardinality(Lacking \cap Passed) <= crashes
  BY <1>2, <1>3, <1>4
<1> QED
  BY <1>4, <1>5 DEF AInv, CutsCounted, CutWithinCrashes, CutChunks

\* aggregate_chunks.py:47: no row is read twice, at most one file for every crash
\* is cut, and of the chunks that the instances have passed at most one for every
\* crash lacks rows.
THEOREM CutsBounded ==
  ASSUME StrictCheck
  PROVE  Spec => []CutWithinCrashes
<1>1. Init => AInv
  <2>1. ASSUME Init
        PROVE  LInv
    BY <2>1, InitIInv DEF LInv, Init, NotYetEvaluated
  <2>2. ASSUME Init
        PROVE  AddedTwice = {} /\ CutChunks = {} /\ crashes = 0
    BY <2>2 DEF Init, AddedTwice, CutChunks, Cut, Read
  <2> QED
    BY <2>1, <2>2, FS_EmptySet DEF AInv, CutsCounted
<1>2. AInv /\ [Next]_vars => AInv'
  BY NextAInv
<1>3. AInv => CutWithinCrashes
  BY AInvCounts
<1> QED
  BY <1>1, <1>2, <1>3, PTL DEF Spec
=============================================================================
