------------------------------ MODULE MCMetrics ------------------------------
(* Metrics with two goroutines: two Incs can overlap each other and a      *)
(* report on one key, and a second key is reported along with it.          *)
EXTENDS Metrics, TLC

CONSTANTS bypass, ban

TwoKeys == (bypass :> 2) @@ (ban :> 2)
OneKey  == ban :> 2
=============================================================================
