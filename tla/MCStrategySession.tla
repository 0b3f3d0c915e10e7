------------------------- MODULE MCStrategySession -------------------------
(* Small instances of StrategySession: every run is on the main network and *)
(* the runs quote different products.                                       *)
EXTENDS StrategySession

CONSTANTS main, test, r1, r2

MCNetOf == [r \in Runs |-> main]
MCProductOf == [r \in Runs |-> IF r = r1 THEN "BTC" ELSE "ETH"]
=============================================================================
