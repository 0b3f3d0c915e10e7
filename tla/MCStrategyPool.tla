--------------------------- MODULE MCStrategyPool ---------------------------
(* Instances of StrategyPool: a run for each user. *)
EXTENDS StrategyPool, TLC

CONSTANTS r1, r2, u1, u2

TwoOwners == (r1 :> u1) @@ (r2 :> u2)
=============================================================================
