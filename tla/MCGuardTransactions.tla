------------------------ MODULE MCGuardTransactions ------------------------
(* Up to three wrappers, all started with the same XDG_RUNTIME_DIR.          *)
EXTENDS GuardTransactions
CONSTANTS w1, w2, w3
OneLock == [w \in Wrappers |-> "runtime"]
=============================================================================
