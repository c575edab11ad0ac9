--------------------------- MODULE MC_AutoResume ----------------------------
(* Two ranks and four steps, saved at least every second step.             *)
EXTENDS AutoResume
CONSTANTS r0, r1
=============================================================================
