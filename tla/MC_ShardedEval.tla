--------------------------- MODULE MC_ShardedEval ---------------------------
(* Two instances, as in the header of run_p2_transformers_chunked.sh, on a *)
(* list of three chunks: one shard has two of them, the other has one.     *)
EXTENDS Aggregation, TLC

CONSTANTS s0, s1, g03, g47

MCShard == (s0 :> 0) @@ (s1 :> 1)
MCGroupOf == (s0 :> g03) @@ (s1 :> g47)
MCHandPicked == [p \in {} |-> {}]
=============================================================================
