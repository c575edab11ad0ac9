----------------------------- MODULE EvalLedger -----------------------------
(***************************************************************************)
(* What chunked evaluation promises: a ledger of chunks.  A worker takes a *)
(* chunk that is neither evaluated nor held, and gives it back evaluated   *)
(* or, if it fails, as it was.  An evaluated chunk is never taken again.   *)
(***************************************************************************)
CONSTANTS Workers, Jobs, Nobody

VARIABLES holder, evaluated

ledgerVars == <<holder, evaluated>>

LedgerInit ==
  /\ holder = [c \in Jobs |-> Nobody]
  /\ evaluated = {}

Take(w, c) ==
  /\ c \notin evaluated
  /\ \A d \in Jobs : holder[d] # w
  /\ holder[c] = Nobody
  /\ holder' = [holder EXCEPT ![c] = w]
  /\ UNCHANGED evaluated

Commit(w, c) ==
  /\ holder[c] = w
  /\ holder' = [holder EXCEPT ![c] = Nobody]
  /\ evaluated' = evaluated \union {c}

GiveBack(w, c) ==
  /\ holder[c] = w
  /\ holder' = [holder EXCEPT ![c] = Nobody]
  /\ UNCHANGED evaluated

LedgerNext ==
  \E w \in Workers, c \in Jobs : Take(w, c) \/ Commit(w, c) \/ GiveBack(w, c)

LedgerSpec == LedgerInit /\ [][LedgerNext]_ledgerVars
=============================================================================
