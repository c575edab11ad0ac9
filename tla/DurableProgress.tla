--------------------------- MODULE DurableProgress ---------------------------
(***************************************************************************)
(* What a job promises that is resumed from what it has saved.  It counts  *)
(* the pieces of its work: live is what a running job has done, kept what  *)
(* the next run will come back to.  A run begins exactly where the last    *)
(* commit was, does at most Stride pieces at a time, is never more than    *)
(* Gap of them ahead, and commits only what lies further on.  Only a run   *)
(* that falls in the middle of a commit may lose what was kept; then       *)
(* nothing runs any more.                                                  *)
(***************************************************************************)
EXTENDS Naturals

CONSTANTS Goal, Gap, Stride

VARIABLES kept, lost, up, live

durableVars == <<kept, lost, up, live>>

DurableInit == kept = 0 /\ lost = FALSE /\ up = FALSE /\ live = 0

Begin ==
  /\ ~up /\ ~lost
  /\ up' = TRUE /\ live' = kept
  /\ UNCHANGED <<kept, lost>>

Advance(n) ==
  /\ up /\ live + n <= Goal /\ live + n <= kept + Gap
  /\ live' = live + n
  /\ UNCHANGED <<kept, lost, up>>

Commit ==
  /\ up /\ kept < live
  /\ kept' = live
  /\ UNCHANGED <<lost, up, live>>

\* a crash, or the end of the run
Fall ==
  /\ up /\ up' = FALSE /\ live' = 0
  /\ UNCHANGED <<kept, lost>>

\* a crash inside of the commit
Lose ==
  /\ up /\ live = kept
  /\ up' = FALSE /\ live' = 0
  /\ lost' = TRUE /\ kept' = 0

DurableNext ==
  \/ Begin \/ Commit \/ Fall \/ Lose
  \/ \E n \in 1 .. Stride : Advance(n)

DurableSpec == DurableInit /\ [][DurableNext]_durableVars
=============================================================================
