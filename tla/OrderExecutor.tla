---------------------------- MODULE OrderExecutor ----------------------------
(* engine/executors/order_executor.py as the orchestrator drives it: an      *)
(* executor that works one limit order. Spawn, tick, stop, the stop retried  *)
(* on an executor whose order may still rest, adoption and settlement around *)
(* a cancel_and_place, and the pruning of terminated executors               *)
(* (engine/orchestrator.py).                                                 *)
EXTENDS VenueAdapter

CONSTANT OrderLegs
ASSUME OrderLegsAssumption == OrderLegs \subseteq Legs

VARIABLE oe

OeStates == {"new", "ACTIVE", "TERMINATED", "pruned"}
OeFresh == [st |-> "new", close |-> "none", order |-> None, seen |-> "none", rec |-> 0, doing |-> "none"]
OeTypeOK ==
    \A l \in OrderLegs : /\ oe[l].st \in OeStates /\ oe[l].rec \in Nat /\ oe[l].order \in Orders \cup {None}
                         /\ oe[l].close \in {"none", "COMPLETED", "EARLY_STOP", "FAILED"}
                         /\ oe[l].doing \in {"none", "create", "tick", "stop_cancel", "stop_status",
                                                          "settle", "settle_cancel", "settle_check"}
OeInit == oe = [l \in OrderLegs |-> OeFresh]

\* _terminate is idempotent: the first close type stays.
Terminated(e, close) == IF e.st = "TERMINATED" THEN e ELSE [e EXCEPT !.st = "TERMINATED", !.close = close]
\* mutant: keeps the difference in place of the total
IngestedDifference(e, r) == [e EXCEPT !.order = r.order, !.seen = r.st, !.rec = r.base - @]
\* mutant: every status adds what it reports
IngestedAdds(e, r) == [e EXCEPT !.order = r.order, !.seen = r.st, !.rec = @ + r.base]
\* mutant: fills of an order that did not fill completely are passed over
IngestedFilledOnly(e, r) == [e EXCEPT !.order = r.order, !.seen = r.st, !.rec = IF r.st = "FILLED" THEN r.base ELSE @]
\* _ingest: fills beyond what is recorded; an older status counts nothing.
Ingested(e, r) == [e EXCEPT !.order = r.order, !.seen = r.st, !.rec = IF r.base > @ THEN r.base ELSE @]
\* _check_complete
Completed(e) == CASE e.seen = "FILLED" -> Terminated(e, "COMPLETED")
                  [] e.seen \in {"CANCELLED", "REJECTED"} -> Terminated(e, "EARLY_STOP")
                  [] OTHER -> e

Take(l) == ret' = [ret EXCEPT ![l] = NoRet]
OeQuiet == UNCHANGED <<venueVars, adapterVars, lost>>

OeSpawn(l) ==
    /\ oe[l].st = "new" /\ Idle(l)
    /\ oe' = [oe EXCEPT ![l].st = "ACTIVE", ![l].doing = "create"]
    /\ Start(l, Place(Size, FALSE, FALSE))
    /\ UNCHANGED ret /\ OeQuiet

\* A throttled placement removes the executor; the controller spawns another one later.
OeSpawned(l) ==
    /\ oe[l].doing = "create" /\ ret[l].kind # "none"
    /\ oe' = [oe EXCEPT ![l] = CASE ret[l].kind = "throttled" -> OeFresh
                                 [] ret[l].kind = "failed" -> [Terminated(@, "FAILED") EXCEPT !.doing = "none"]
                                 [] OTHER -> [Completed(Ingested(@, ret[l])) EXCEPT !.doing = "none"]]
    /\ Take(l) /\ UNCHANGED call /\ OeQuiet

OeTick(l) ==
    /\ oe[l].st = "ACTIVE" /\ oe[l].order # None /\ oe[l].doing = "none" /\ Idle(l)
    /\ oe' = [oe EXCEPT ![l].doing = "tick"]
    /\ Start(l, OrderStatus(oe[l].order))
    /\ UNCHANGED ret /\ OeQuiet

OeTicked(l) ==
    /\ oe[l].doing = "tick" /\ ret[l].kind # "none"
    /\ oe' = [oe EXCEPT ![l] = [(IF ret[l].kind = "failed" THEN Terminated(@, "FAILED")
                                 ELSE Completed(Ingested(@, ret[l]))) EXCEPT !.doing = "none"]]
    /\ Take(l) /\ UNCHANGED call /\ OeQuiet

\* mutant: a partly filled order is taken for done
MayStillRestUntouched(e) == e.order # None /\ e.seen = "OPEN"
\* _order_may_still_rest: such an executor is kept, and its stop is retried.
MayStillRest(e) == e.order # None /\ e.seen \notin Terminal

OeStop(l) ==
    /\ oe[l].doing = "none" /\ Idle(l)
    /\ oe[l].st = "ACTIVE" \/ (oe[l].st = "TERMINATED" /\ oe[l].close = "FAILED" /\ MayStillRest(oe[l]))
    /\ IF MayStillRest(oe[l])
       THEN oe' = [oe EXCEPT ![l].doing = "stop_cancel"] /\ Start(l, CancelOrder(oe[l].order))
       ELSE oe' = [oe EXCEPT ![l] = Terminated(@, "EARLY_STOP")] /\ UNCHANGED call
    /\ UNCHANGED ret /\ OeQuiet

\* A cancel that failed has terminated the executor; the status is read all the same.
OeStopCancelled(l) ==
    /\ oe[l].doing = "stop_cancel" /\ ret[l].kind # "none"
    /\ oe' = [oe EXCEPT ![l] = [(IF ret[l].kind = "failed" THEN Terminated(@, "FAILED") ELSE @)
                                EXCEPT !.doing = "stop_status"]]
    /\ Take(l) /\ Start(l, OrderStatus(oe[l].order)) /\ OeQuiet

OeStopped(l) ==
    /\ oe[l].doing = "stop_status" /\ ret[l].kind # "none"
    /\ oe' = [oe EXCEPT ![l] =
         LET e == IF ret[l].kind = "ok" THEN Ingested(@, ret[l]) ELSE @
         IN [Terminated(e, IF ret[l].kind = "ok" /\ e.seen \in Terminal THEN "EARLY_STOP" ELSE "FAILED")
             EXCEPT !.doing = "none"]]
    /\ Take(l) /\ UNCHANGED call /\ OeQuiet

\* adopt_order: the executor of an order that was placed by a replace.
Adopted(r) == Ingested([OeFresh EXCEPT !.st = "ACTIVE"], r)

\* _ingest of a status that is not kept as the order's.
Credited(e, r) == [e EXCEPT !.rec = Ingested(e, r).rec]

\* settle_after_external_cancel reads the order once; one that seems to rest still is cancelled.
Settling(l, r) ==
    LET e == IF r.kind = "ok" THEN Ingested(oe[l], r) ELSE Terminated(oe[l], "FAILED")
    IN IF e.seen \in Terminal THEN [Terminated(e, "EARLY_STOP") EXCEPT !.doing = "none"]
                              ELSE [e EXCEPT !.doing = "settle_cancel"]

OeSettleRead(l) ==
    /\ oe[l].doing = "settle" /\ ret[l].kind # "none"
    /\ oe' = [oe EXCEPT ![l] = Settling(l, ret[l])]
    /\ Take(l)
    /\ IF oe'[l].doing = "none" THEN UNCHANGED call ELSE Start(l, CancelOrder(oe[l].order))

\* The executor terminates whether or not the cancel succeeds; its order keeps the status of the first read.
OeSettleCancelled(l) ==
    /\ oe[l].doing = "settle_cancel" /\ ret[l].kind # "none"
    /\ Take(l)
    /\ IF ret[l].kind = "ok"
       THEN oe' = [oe EXCEPT ![l].doing = "settle_check"] /\ Start(l, OrderStatus(oe[l].order))
       ELSE oe' = [oe EXCEPT ![l] = [Terminated(@, "FAILED") EXCEPT !.doing = "none"]] /\ UNCHANGED call

OeSettleChecked(l) ==
    /\ oe[l].doing = "settle_check" /\ ret[l].kind # "none"
    /\ oe' = [oe EXCEPT ![l] = [(IF ret[l].kind = "ok" THEN Terminated(Credited(@, ret[l]), "EARLY_STOP")
                                 ELSE Terminated(@, "FAILED")) EXCEPT !.doing = "none"]]
    /\ Take(l) /\ UNCHANGED call

OeSettle(l) == OeSettleRead(l) \/ OeSettleCancelled(l) \/ OeSettleChecked(l)

OePrune(l) ==
    /\ oe[l].st = "TERMINATED" /\ oe[l].doing = "none" /\ ~MayStillRest(oe[l])
    /\ oe' = [oe EXCEPT ![l].st = "pruned"]
    /\ UNCHANGED <<call, ret>> /\ OeQuiet

OeStep(l) == OeSpawn(l) \/ OeSpawned(l) \/ OeTick(l) \/ OeTicked(l) \/ OeStop(l) \/ OeStopCancelled(l)
             \/ OeStopped(l) \/ OePrune(l)
=============================================================================
