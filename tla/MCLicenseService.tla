------------------------- MODULE MCLicenseService --------------------------
(* Model-checking instance of LicenseService.  Durations keep the code's   *)
(* order (10 min < 24 h < 30 days) at 1 < 2 < 4 ticks, so a 24-hour entry  *)
(* can lapse while a 30-day licence is still running.  The cfg files set   *)
(* the 100-call free tier and the 1000-call licence to 1 call, so the      *)
(* first call past either limit is reachable; two goroutines; one or two   *)
(* licence requests; three heap cells (one cached licence plus one held by *)
(* each goroutine).                                                        *)
EXTENDS LicenseService, TLC

\* Heap addresses are only compared for equality, and the goroutines run
\* the same code: both may be permuted (safety runs only).
Symmetric == Permutations(ObjIds) \cup Permutations(Procs)
=============================================================================
