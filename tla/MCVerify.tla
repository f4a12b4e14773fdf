------------------------------ MODULE MCVerify ------------------------------
(* Model-checking instance of Verify.  Durations keep the code's order     *)
(* (1 min < 300 s < 24 h) at 1 < 2 < 3 ticks; the rate limit (100) and     *)
(* the licence cap (1000) are 1, so the first request past either limit   *)
(* is reachable.                                                           *)
EXTENDS Verify, TLC

\* the goroutines run the same code (safety runs only)
Symmetric == Permutations(Procs)
=============================================================================
