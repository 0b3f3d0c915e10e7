----------------------------- MODULE MCEngineLegs -----------------------------
EXTENDS EngineLegs, TLC

CONSTANTS o1, o2, p1, p2, p3, q1, q2

Quoting == "q" :> <<q1, q2>>
OrderSet == {o1, o2, q1, q2}
PositionSet == {p1, p2, p3}
Keepers == {p2, p3}
LegSet == OrderSet \cup PositionSet
Bound == p1 :> 3 @@ [l \in {o1, o2, p2} |-> 2] @@ [l \in {p3, q1, q2} |-> 1]
LegFaults == o1 :> (FaultKinds \ {"lag", "split"}) @@ o2 :> {"lag"} @@ [l \in {p2, p3} |-> {}]
             @@ p1 :> {"reject", "cancel", "drop", "throttle", "feed_denied"}
             @@ q1 :> {"cancel", "denied", "drop"} @@ q2 :> {"split", "throttle", "reject", "unknown"}

\* o1, p1 and p2 each on their own, o2 together with the entry of p3, and a slot with its quote and the next one.
SessionSets == {{o1}, {p1}, {p2}, {o2, p3}, {q1, q2}}
=============================================================================
