------------------------------- MODULE OrderLeg -------------------------------
(* What an order executor promises its controller, whatever the venue and    *)
(* the adapter do: a leg works one order; while it works, the order trades   *)
(* and the leg counts what it learns of; a leg that settles has nothing on   *)
(* the book and has counted every unit it traded, for good; a leg that gives *)
(* up promises neither, but says so.                                         *)
EXTENDS Naturals

CONSTANTS Legs, Size

VARIABLES phase,   \* idle, working, settled, given_up
          rests,   \* whether the leg's order may still trade
          traded,  \* units the order traded
          counted  \* units the leg counted

vars == <<phase, rests, traded, counted>>

TypeOK == /\ phase \in [Legs -> {"idle", "working", "settled", "given_up"}]
          /\ rests \in [Legs -> BOOLEAN]
          /\ traded \in [Legs -> 0..Size] /\ counted \in [Legs -> 0..Size]

Init == /\ phase = [l \in Legs |-> "idle"] /\ rests = [l \in Legs |-> FALSE]
        /\ traded = [l \in Legs |-> 0] /\ counted = [l \in Legs |-> 0]

\* The order is on the book.
Open(l) ==
    /\ phase[l] = "idle"
    /\ phase' = [phase EXCEPT ![l] = "working"] /\ rests' = [rests EXCEPT ![l] = TRUE]
    /\ UNCHANGED <<traded, counted>>

\* No order of the leg is known to be on the book.
Decline(l) ==
    /\ phase[l] = "idle"
    /\ phase' = [phase EXCEPT ![l] = "given_up"]
    /\ UNCHANGED <<rests, traded, counted>>

Trade(l) ==
    /\ rests[l] /\ traded[l] < Size
    /\ traded' = [traded EXCEPT ![l] = @ + 1]
    /\ rests' \in {rests, [rests EXCEPT ![l] = FALSE]}
    /\ UNCHANGED <<phase, counted>>

Leave(l) ==
    /\ rests[l]
    /\ rests' = [rests EXCEPT ![l] = FALSE]
    /\ UNCHANGED <<phase, traded, counted>>

\* The leg learns of trades, and may settle or give up with what it learns.
Learn(l) ==
    /\ phase[l] \in {"working", "given_up"}
    /\ \E c \in counted[l]..traded[l] : counted' = [counted EXCEPT ![l] = c]
    /\ \/ UNCHANGED phase
       \/ phase' = [phase EXCEPT ![l] = "given_up"]
       \/ phase[l] = "working" /\ ~rests[l] /\ counted'[l] = traded[l]
          /\ phase' = [phase EXCEPT ![l] = "settled"]
    /\ UNCHANGED <<rests, traded>>

\* The order of l makes room for that of k in one step of the venue.
Replace(l, k) ==
    /\ rests[l] /\ phase[k] = "idle"
    /\ phase' = [phase EXCEPT ![k] = "working"] /\ rests' = [rests EXCEPT ![l] = FALSE, ![k] = TRUE]
    /\ UNCHANGED <<traded, counted>>

Next == \E l \in Legs : Open(l) \/ Decline(l) \/ Trade(l) \/ Leave(l) \/ Learn(l)
                         \/ \E k \in Legs \ {l} : Replace(l, k)

Spec == Init /\ [][Next]_vars
=============================================================================
