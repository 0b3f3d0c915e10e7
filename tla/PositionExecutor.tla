--------------------------- MODULE PositionExecutor ---------------------------
(* engine/executors/position_executor.py: an entry order, the position it    *)
(* opens, and the close a barrier or a stop asks for. Which barrier is hit,  *)
(* and when, is nondeterministic; a close is a limit at the barrier's level  *)
(* or a market order.                                                        *)
EXTENDS VenueAdapter

CONSTANTS PositionLegs,
          KeepPosition  \* the executors with keep_position
ASSUME PositionLegsAssumption == PositionLegs \subseteq Legs /\ KeepPosition \subseteq PositionLegs

VARIABLE pe

PeDoing == {"none", "create", "entry_status", "close", "escalate", "poll",
            "stop_cancel", "stop_status", "stop_close_cancel", "stop_close_status"}
PeFresh == [st |-> "new", close |-> "none", pos |-> "OPENING", entry |-> None, eseen |-> "none", eb |-> 0,
            exit |-> None, xseen |-> "none", xb |-> 0, doing |-> "none"]
PeTypeOK ==
    \A l \in PositionLegs :
        /\ pe[l].st \in {"new", "ACTIVE", "TERMINATED"} /\ pe[l].doing \in PeDoing
        /\ pe[l].pos \in {"OPENING", "ACTIVE_POSITION", "CLOSING", "TERMINATED"}
        /\ pe[l].entry \in Orders \cup {None} /\ pe[l].exit \in Orders \cup {None}
        /\ pe[l].eb \in Nat /\ pe[l].xb \in Nat
        /\ pe[l].close \in {"none", "COMPLETED", "EARLY_STOP", "FAILED"}
PeInit == pe = [l \in PositionLegs |-> PeFresh]

PeTerminated(e, close) == IF e.st = "TERMINATED" THEN e ELSE [e EXCEPT !.st = "TERMINATED", !.close = close]
\* _ingest_entry and _ingest_exit: the status of one order against what is recorded of the side.
PeEntry(e, r) == [e EXCEPT !.entry = r.order, !.eseen = r.st, !.eb = IF r.base > @ THEN r.base ELSE @]
PeExit(e, r) == [e EXCEPT !.exit = r.order, !.xseen = r.st, !.xb = IF r.base > @ THEN r.base ELSE @]
\* _finalize: COMPLETED stands for the close type of the barrier or of the stop that asked for the close.
Finalized(e) == PeTerminated([e EXCEPT !.pos = "TERMINATED", !.doing = "none"], "COMPLETED")
\* _on_entry_filled
Opened(e) == IF e.eb > 0 THEN [e EXCEPT !.pos = "ACTIVE_POSITION"] ELSE e
Done(e) == [e EXCEPT !.doing = "none"]
Failed(e) == Done(PeTerminated(e, "FAILED"))

PeTake(l) == ret' = [ret EXCEPT ![l] = NoRet]
PeQuiet == UNCHANGED <<venueVars, adapterVars, lost>>
PeFree(l) == pe[l].doing = "none" /\ Idle(l)
PeBack(l, what) == pe[l].doing = what /\ ret[l].kind # "none" /\ PeTake(l) /\ PeQuiet

\* Place what is left to close, or finish when nothing is.
Closing(l, e, market, doing) ==
    IF e.eb - e.xb > 0
    THEN /\ pe' = [pe EXCEPT ![l] = [e EXCEPT !.pos = "CLOSING", !.doing = doing]]
         /\ Start(l, Place(e.eb - e.xb, market, TRUE))
    ELSE pe' = [pe EXCEPT ![l] = Finalized(e)] /\ UNCHANGED call

PeSpawn(l) ==
    /\ pe[l].st = "new" /\ Idle(l)
    /\ pe' = [pe EXCEPT ![l].st = "ACTIVE", ![l].doing = "create"]
    /\ Start(l, Place(Size, FALSE, FALSE))
    /\ UNCHANGED ret /\ PeQuiet

PeSpawned(l) ==
    /\ PeBack(l, "create")
    /\ pe' = [pe EXCEPT ![l] = CASE ret[l].kind = "throttled" -> PeFresh
                                 [] ret[l].kind = "failed" -> Failed(@)
                                 [] OTHER -> LET e == Done(PeEntry(@, ret[l]))
                                             IN IF e.eseen = "FILLED" THEN Opened(e) ELSE e]
    /\ UNCHANGED call

\* on_tick while OPENING
PeTickOpening(l) ==
    /\ PeFree(l) /\ pe[l].st = "ACTIVE" /\ pe[l].pos = "OPENING" /\ pe[l].entry # None
    /\ pe' = [pe EXCEPT ![l].doing = "entry_status"]
    /\ Start(l, OrderStatus(pe[l].entry))
    /\ UNCHANGED ret /\ PeQuiet

PeTickedOpening(l) ==
    /\ PeBack(l, "entry_status")
    /\ pe' = [pe EXCEPT ![l] =
         IF ret[l].kind = "failed" THEN Failed(@)
         ELSE LET e == Done(PeEntry(@, ret[l])) IN
              CASE e.eseen = "FILLED" -> Opened(e)
                [] e.eseen \in {"CANCELLED", "REJECTED"} -> IF e.eb > 0 THEN Opened(e) ELSE Failed(e)
                [] OTHER -> e]
    /\ UNCHANGED call

\* on_tick while ACTIVE_POSITION, a barrier being hit
PeBarrier(l) ==
    /\ PeFree(l) /\ pe[l].st = "ACTIVE" /\ pe[l].pos = "ACTIVE_POSITION"
    /\ \E market \in BOOLEAN : Closing(l, pe[l], market, "close")
    /\ UNCHANGED ret /\ PeQuiet

\* on_tick while CLOSING: _poll_close
PePoll(l) ==
    /\ PeFree(l) /\ pe[l].st = "ACTIVE" /\ pe[l].pos = "CLOSING" /\ pe[l].exit # None
    /\ pe' = [pe EXCEPT ![l].doing = "poll"]
    /\ Start(l, OrderStatus(pe[l].exit))
    /\ UNCHANGED ret /\ PeQuiet

\* mutant: a close that is gone from the book is taken for filled
CloseDoneGone(e) == e.xseen \in Terminal
CloseDone(e) == e.xseen = "FILLED"

\* A close order's answer, from _open_close or _poll_close: filled, still working, or gone and
\* then escalated to a market order. A throttled close leaves the executor CLOSING without an order.
PeCloseAnswered(l) ==
    /\ PeBack(l, "close") \/ PeBack(l, "poll")
    /\ LET e == PeExit(pe[l], ret[l]) IN
       CASE ret[l].kind = "failed" -> pe' = [pe EXCEPT ![l] = Failed(@)] /\ UNCHANGED call
         [] ret[l].kind = "throttled" -> pe' = [pe EXCEPT ![l] = Done(@)] /\ UNCHANGED call
         [] CloseDone(e) -> pe' = [pe EXCEPT ![l] = Finalized(e)] /\ UNCHANGED call
         [] e.xseen \in {"CANCELLED", "REJECTED"} -> Closing(l, e, TRUE, "escalate")
         [] OTHER -> pe' = [pe EXCEPT ![l] = Done(e)] /\ UNCHANGED call

\* _escalate_close: any exception, a throttle too, fails the executor.
PeEscalated(l) ==
    /\ PeBack(l, "escalate")
    /\ pe' = [pe EXCEPT ![l] = IF ret[l].kind # "ok" THEN Failed(@)
                               ELSE LET e == PeExit(@, ret[l])
                                    IN IF CloseDone(e) THEN Finalized(e) ELSE Done(e)]
    /\ UNCHANGED call

-----------------------------------------------------------------------------
(* on_stop.                                                                  *)

PeStopOpening(l) ==
    /\ PeFree(l) /\ pe[l].st = "ACTIVE" /\ pe[l].pos = "OPENING"
    /\ IF pe[l].entry # None /\ pe[l].eseen = "OPEN"
       THEN pe' = [pe EXCEPT ![l].doing = "stop_cancel"] /\ Start(l, CancelOrder(pe[l].entry))
       ELSE pe' = [pe EXCEPT ![l] = PeTerminated(@, "EARLY_STOP")] /\ UNCHANGED call
    /\ UNCHANGED ret /\ PeQuiet

PeStopCancelled(l) ==
    /\ PeBack(l, "stop_cancel")
    /\ pe' = [pe EXCEPT ![l] = [(IF ret[l].kind = "failed" THEN PeTerminated(@, "FAILED") ELSE @)
                                EXCEPT !.doing = "stop_status"]]
    /\ Start(l, OrderStatus(pe[l].entry))

\* An entry that filled before the cancel landed becomes a position; the barriers close it.
PeStopped(l) ==
    /\ PeBack(l, "stop_status")
    /\ pe' = [pe EXCEPT ![l] =
         IF ret[l].kind # "ok" THEN Failed(@)
         ELSE LET e == Done(PeEntry(@, ret[l])) IN
              IF e.eseen = "FILLED" /\ e.eb > 0 THEN Opened(e)
              ELSE IF e.eseen \in Terminal THEN PeTerminated(e, "EARLY_STOP") ELSE Failed(e)]
    /\ UNCHANGED call

PeStopPosition(l) ==
    /\ PeFree(l) /\ pe[l].st = "ACTIVE" /\ pe[l].pos = "ACTIVE_POSITION"
    /\ IF l \in KeepPosition
       THEN pe' = [pe EXCEPT ![l] = PeTerminated([@ EXCEPT !.pos = "TERMINATED"], "EARLY_STOP")] /\ UNCHANGED call
       ELSE Closing(l, pe[l], TRUE, "close")
    /\ UNCHANGED ret /\ PeQuiet

PeStopClosing(l) ==
    /\ PeFree(l) /\ pe[l].st = "ACTIVE" /\ pe[l].pos = "CLOSING"
    /\ IF pe[l].exit # None /\ pe[l].xseen \in {"OPEN", "PARTIALLY_FILLED"}
       THEN pe' = [pe EXCEPT ![l].doing = "stop_close_cancel"] /\ Start(l, CancelOrder(pe[l].exit))
       ELSE Closing(l, pe[l], TRUE, "escalate")
    /\ UNCHANGED ret /\ PeQuiet

PeStopCloseCancelled(l) ==
    /\ PeBack(l, "stop_close_cancel")
    /\ pe' = [pe EXCEPT ![l] = [(IF ret[l].kind = "failed" THEN PeTerminated(@, "FAILED") ELSE @)
                                EXCEPT !.doing = "stop_close_status"]]
    /\ Start(l, OrderStatus(pe[l].exit))

\* Whatever the refresh says, an executor that is not terminated escalates.
PeStopCloseRefreshed(l) ==
    /\ PeBack(l, "stop_close_status")
    /\ LET e == IF ret[l].kind = "ok" THEN PeExit(pe[l], ret[l]) ELSE PeTerminated(pe[l], "FAILED") IN
       IF e.st = "TERMINATED" THEN pe' = [pe EXCEPT ![l] = Done(e)] /\ UNCHANGED call
       ELSE Closing(l, e, TRUE, "escalate")

PeStep(l) == PeSpawn(l) \/ PeSpawned(l) \/ PeTickOpening(l) \/ PeTickedOpening(l) \/ PeBarrier(l) \/ PePoll(l)
             \/ PeCloseAnswered(l) \/ PeEscalated(l) \/ PeStopOpening(l) \/ PeStopCancelled(l) \/ PeStopped(l)
             \/ PeStopPosition(l) \/ PeStopClosing(l) \/ PeStopCloseCancelled(l) \/ PeStopCloseRefreshed(l)
=============================================================================
