------------------------- MODULE MC_SupervisedEval --------------------------
(* gpu03_helper with two chunks and gpu47_helper with one.  a1 and b1 are   *)
(* one live invocation of each; with a2, gpu03_helper can live twice.       *)
EXTENDS SupervisedEval, TLC

CONSTANTS a1, a2, b1, g03, g47

MCHandPicked == [p \in Procs |-> IF p = b1 THEN {1} ELSE {0, 2}]
MCGroupOf == [p \in Procs |-> IF p = b1 THEN g47 ELSE g03]
MCOrder == <<g03, g47>>
MCShard == [p \in {} |-> 0]
=============================================================================
