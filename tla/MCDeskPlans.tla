---------------------------- MODULE MCDeskPlans ----------------------------
(* Instances of DeskPlans: one or two plans, their entries fixed by the cfg. *)
EXTENDS DeskPlans, TLC

CONSTANTS p1, p2

LimitAndMaker == (p1 :> "limit") @@ (p2 :> "maker")
MarketAndTaker == (p1 :> "market") @@ (p2 :> "taker")
============================================================================
