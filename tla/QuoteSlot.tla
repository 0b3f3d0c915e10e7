------------------------------ MODULE QuoteSlot ------------------------------
(* A level of engine/controllers/market_making.py: the slot that names the   *)
(* executor of the level's resting quote, and what _reconcile does with it   *)
(* in a tick: leave it, quote an empty level, stop, replace by one           *)
(* cancel_and_place, or retry a stop that failed. Targets, holds, budgets    *)
(* and exposure only decide which; any of them may be decided at any time.   *)
(* A tick is one coroutine, so a slot does one thing at a time.              *)
EXTENDS OrderExecutor, Sequences, Functions

CONSTANT SlotLegs      \* the executors each slot goes through, in the order they are spawned
ASSUME SlotAssumption ==
    /\ \A s \in DOMAIN SlotLegs : SlotLegs[s] \in Seq(OrderLegs)
    /\ \A s, r \in DOMAIN SlotLegs : s # r => Range(SlotLegs[s]) \cap Range(SlotLegs[r]) = {}
    /\ None \notin OrderLegs

VARIABLE slot          \* the executor a slot names, what is done to it, and the other executor of that

Slots == DOMAIN SlotLegs
LegsOf(s) == Range(SlotLegs[s])
QuoteLegs == UNION {LegsOf(s) : s \in Slots}
EmptySlot == [leg |-> None, at |-> "idle", other |-> None]
SlotTypeOK ==
    \A s \in Slots : /\ slot[s].leg \in LegsOf(s) \cup {None} /\ slot[s].other \in LegsOf(s) \cup {None}
                     /\ slot[s].at \in {"idle", "spawn", "stop", "replace", "fallback", "settle"}
SlotInit == slot = [s \in Slots |-> EmptySlot]

At(s, where) == slot[s].at = where
Quiet(s) == \A l \in LegsOf(s) : oe[l].doing = "none" /\ Idle(l)
\* The executor spawned next: the first one not spawned yet.
NextLeg(s) == {SlotLegs[s][i] : i \in {i \in DOMAIN SlotLegs[s] :
                  oe[SlotLegs[s][i]].st = "new" /\ \A j \in 1..(i - 1) : oe[SlotLegs[s][j]].st # "new"}}

\* mutant: a slot is freed by a stop, whatever its outcome
LeftRestingNever(e) == FALSE
\* _failed_stop_left_order_resting: a slot with such an executor stays bound.
LeftResting(e) == e.close = "FAILED" /\ MayStillRest(e)
\* _set_quote after a stop.
AfterStop(s, e) == slot' = [slot EXCEPT ![s] = IF LeftResting(e) THEN [@ EXCEPT !.at = "idle"] ELSE EmptySlot]

\* my_executors are ticked first, and old ones pruned.
TickExecutors(s) ==
    /\ At(s, "idle")
    /\ \E l \in LegsOf(s) : OeTick(l) \/ OeTicked(l) \/ OePrune(l)
    /\ UNCHANGED slot

\* An empty level is quoted by the classic spawn.
Quote(s) ==
    /\ At(s, "idle") /\ slot[s].leg = None /\ Quiet(s)
    /\ \E m \in NextLeg(s) : OeSpawn(m) /\ slot' = [slot EXCEPT ![s].at = "spawn", ![s].other = m]

\* The slot is bound only if the spawn succeeded.
Quoted(s) ==
    LET l == slot[s].other IN
    /\ At(s, "spawn")
    /\ OeSpawned(l)
    /\ slot' = [slot EXCEPT ![s] = IF ret[l].kind = "ok" THEN [EmptySlot EXCEPT !.leg = l] ELSE EmptySlot]

\* The executor of the slot has terminated, or is gone.
Release(s) ==
    LET l == slot[s].leg IN
    /\ At(s, "idle") /\ l # None /\ Quiet(s)
    /\ oe[l].st \in {"TERMINATED", "pruned"} /\ ~LeftResting(oe[l])
    /\ slot' = [slot EXCEPT ![s] = EmptySlot]
    /\ UNCHANGED <<oe, call, ret>> /\ OeQuiet

\* A quote is not allowed, not in the plan or to be moved, or a stop that failed is retried.
Stop(s) ==
    LET l == slot[s].leg IN
    /\ slot[s].at \in {"idle", "fallback"} /\ l # None /\ Quiet(s)
    /\ OeStop(l)
    /\ IF oe'[l].doing = "none" THEN AfterStop(s, oe'[l]) ELSE slot' = [slot EXCEPT ![s].at = "stop"]

Stopping(s) ==
    LET l == slot[s].leg IN
    /\ At(s, "stop")
    /\ \/ OeStopCancelled(l) /\ UNCHANGED slot
       \/ OeStopped(l) /\ AfterStop(s, oe'[l])

\* The fused replace of a live quote.
Replace(s) ==
    LET l == slot[s].leg IN
    /\ At(s, "idle") /\ l # None /\ Quiet(s)
    /\ oe[l].st = "ACTIVE" /\ oe[l].order # None
    /\ \E m \in NextLeg(s) : /\ Start(m, CancelAndPlace(oe[l].order, Size))
                             /\ slot' = [slot EXCEPT ![s].at = "replace", ![s].other = m]
    /\ UNCHANGED <<oe, ret>> /\ OeQuiet

\* Throttled: the old quote is kept. Failed: stop and spawn.
ReplaceFailed(s) ==
    LET m == slot[s].other IN
    /\ At(s, "replace") /\ ret[m].kind \in {"throttled", "failed"}
    /\ slot' = [slot EXCEPT ![s].at = IF ret[m].kind = "throttled" THEN "idle" ELSE "fallback", ![s].other = None]
    /\ Take(m) /\ UNCHANGED <<oe, call>> /\ OeQuiet

\* The new order is adopted and the slot repointed before the old executor is settled.
ReplaceDone(s) ==
    LET m == slot[s].other
        l == slot[s].leg IN
    /\ At(s, "replace") /\ ret[m].kind = "ok"
    /\ oe' = [oe EXCEPT ![m] = Adopted(ret[m]), ![l].doing = "settle"]
    /\ slot' = [slot EXCEPT ![s] = [leg |-> m, at |-> "settle", other |-> l]]
    /\ Take(m) /\ Start(l, OrderStatus(oe[l].order)) /\ OeQuiet

\* The old executor is settled, and its order forgotten.
Settle(s) ==
    LET l == slot[s].other IN
    /\ At(s, "settle")
    /\ OeSettle(l)
    /\ IF oe'[l].doing = "none"
       THEN ForgetCancelled(oe[l].order) /\ slot' = [slot EXCEPT ![s].at = "idle", ![s].other = None]
       ELSE UNCHANGED <<adapterVars, slot>>
    /\ UNCHANGED <<venueVars, lost>>

SlotStep(s) == TickExecutors(s) \/ Quote(s) \/ Quoted(s) \/ Release(s) \/ Stop(s) \/ Stopping(s)
               \/ Replace(s) \/ ReplaceFailed(s) \/ ReplaceDone(s) \/ Settle(s)
=============================================================================
