------------------------------ MODULE EngineLegs ------------------------------
(* The executors of one session over one adapter: order legs, those of the   *)
(* quote slots of market making, and position legs in one product, every     *)
(* adapter call interleaved with the venue and with the calls of the others. *)
EXTENDS QuoteSlot, PositionExecutor

CONSTANT Sessions      \* sets of legs: each is one session, a behaviour has the legs of one of them
ASSUME SessionsAssumption == Sessions \subseteq SUBSET Legs /\ OrderLegs \cap PositionLegs = {}

VARIABLE session       \* the legs of the session

vars == <<adapterAll, oe, slot, pe, session>>

TypeOK == AdapterTypeOK /\ OeTypeOK /\ SlotTypeOK /\ PeTypeOK /\ session \in Sessions

Init == AdapterInit /\ OeInit /\ SlotInit /\ PeInit /\ session \in Sessions

Next ==
    /\ \/ \E l \in session : AdapterStep(l) /\ UNCHANGED <<oe, slot, pe>>
       \/ \E l \in session \cap (OrderLegs \ QuoteLegs) : OeStep(l) /\ UNCHANGED <<slot, pe>>
       \/ \E s \in Slots : LegsOf(s) \subseteq session /\ SlotStep(s) /\ UNCHANGED pe
       \/ \E l \in session \cap PositionLegs : PeStep(l) /\ UNCHANGED <<oe, slot>>
       \/ VenueStep /\ UNCHANGED <<oe, slot, pe>>
    /\ UNCHANGED session

Spec == Init /\ [][Next]_vars

-----------------------------------------------------------------------------
\* Units a leg bought with orders it knows of, and units it sold.
Bought(l) == MapThenSumSet(LAMBDA o : filled[o], {o \in Orders \ (reduce \cup lost) : o[1] = l})
Sold(l) == MapThenSumSet(LAMBDA o : filled[o], {o \in reduce : o[1] = l})

\* An order that a status answer calls finished is not on the book: a denied or stale read of the book never
\* turns a resting order into a cancelled one (order_status, "DENIED-vs-EMPTY"; a controller that believes it
\* quotes the same level again).
NoFalseGone ==
    /\ \A l \in Legs : ret[l].kind = "ok" /\ ret[l].st \in Terminal => ret[l].order \notin book
    /\ \A o \in book : cache[o].st \notin Terminal

\* An executor the orchestrator has dropped left no order of its own on the book, except one whose placement
\* was never answered (prune_terminated keeps those _order_may_still_rest names).
DroppedLeavesNothing ==
    \A l \in OrderLegs : oe[l].st = "pruned" => \A o \in book : o[1] = l => o \in lost

\* A level is never quoted behind its slot's back: every order of a level that rests is that of the executor its
\* slot names, or of the one the controller is placing, replacing or stopping right now, whatever was refused,
\* denied or throttled and however often a stop is retried (_reconcile, _replace_quote, _stop_and_release). Excepted
\* are orders the adapter has no reference of: a placement that was never answered, and an order that outlived its
\* settlement ("a resting order may remain; the venue sync sweep must reconcile it").
SlotNamesItsQuote ==
    \A s \in Slots : \A o \in book \cap refs : o[1] \in LegsOf(s) => o[1] \in {slot[s].leg, slot[s].other}

\* An order leg never counts a unit that did not trade, nor more than one order's worth, however often a
\* status is repeated, stale or held.
CountsOnlyTrades ==
    \A l \in OrderLegs : oe[l].rec <= IF oe[l].order = None THEN 0 ELSE filled[oe[l].order]

\* A position leg that reports itself completed has nothing on the book and holds nothing of what it bought,
\* whatever mix of limit closes, venue cancellations, escalations and stops closed it. An order whose placement
\* was never answered is outside of what it can know; a fills feed that lags behind the book is excluded. It is a
\* promise of a leg that is the only position leg of its session: reduce-only orders reduce the account's position.
CompletedIsFlat ==
    \A l \in PositionLegs :
        "lag" \notin Faults[l] /\ pe[l].st = "TERMINATED" /\ pe[l].close = "COMPLETED" =>
            /\ \A o \in book : o[1] = l => o \in lost
            /\ Bought(l) <= Sold(l)

-----------------------------------------------------------------------------
(* Every order leg whose fills feed does not lag behind the book implements  *)
(* the abstract leg.                                                         *)

LegGaveUp(l) == oe[l].close = "FAILED" \/ (oe[l].st = "TERMINATED" /\ MayStillRest(oe[l]))
LegPhase(l) ==
    IF LegGaveUp(l) THEN "given_up"
    ELSE IF oe[l].st \in {"TERMINATED", "pruned"} THEN "settled"
    ELSE IF oe[l].order # None \/ (call[l].op = "none" /\ ret[l].kind = "ok") THEN "working" ELSE "idle"
LegOrder(l) == IF oe[l].order # None THEN oe[l].order ELSE ret[l].order
PromptLegs == {l \in OrderLegs : "lag" \notin Faults[l]}

Leg == INSTANCE OrderLeg WITH
    Legs <- PromptLegs,
    phase <- [l \in PromptLegs |-> LegPhase(l)],
    rests <- [l \in PromptLegs |-> LegOrder(l) \in book],
    traded <- [l \in PromptLegs |-> IF LegOrder(l) = None THEN 0 ELSE filled[LegOrder(l)]],
    counted <- [l \in PromptLegs |-> oe[l].rec]

\* An order executor keeps the promise of OrderLeg: it never says settled while its order rests or a fill of it
\* is uncounted, and nothing trades or is counted after it settled (on_stop, _check_complete, _ingest).
LegImplemented == Leg!Spec
=============================================================================
