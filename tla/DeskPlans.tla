------------------------------ MODULE DeskPlans ------------------------------
(***************************************************************************)
(* One user's desk plans (text-to-trade execution plans) on one network:   *)
(* the plan table and its checkpoints, the runner job that ticks the desk  *)
(* controller, the executors of the entry and exit legs, and the venue.    *)
(* The user confirms and cancels between any two database or venue calls   *)
(* of the runner; the process may die between any two steps.  Amounts are  *)
(* whole units of the product: a one-shot entry (market, limit) orders     *)
(* Size of them, a TWAP (maker, taker) one per slice.  Exits are those of  *)
(* a spot plan: a plain market order, which the venue does not cap.        *)
(***************************************************************************)
EXTENDS Naturals

CONSTANTS
    Plans,
    NoPlan,
    Algo,         \* the entry of a plan: "market", "limit", "maker", "taker"
    WithExit,     \* the plans with a take-profit or stop-loss exit
    Size,         \* units of a plan's entry
    Resume,       \* NADO_DESK_RESUME_ON_RESTART
    Faults,       \* the calls that may fail: see Succeeds
    MaxRestarts,  \* bound on process restarts
    MaxUnits      \* bound on the units a plan buys and sells

ASSUME PlansAssumption == NoPlan \notin Plans /\ WithExit \subseteq Plans
ASSUME AlgoAssumption == Algo \in [Plans -> {"market", "limit", "maker", "taker"}]
ASSUME SizeAssumption == Size \in Nat \ {0} /\ MaxUnits \in Nat /\ Size <= MaxUnits
ASSUME ResumeAssumption == Resume \in BOOLEAN /\ MaxRestarts \in Nat

VARIABLES
    status,    \* desk_plans.status
    ckpt,      \* desk_plans.state_json, what recovery reads of it
    run,       \* the controller's _PlanRun of each plan
    ex,        \* the executor of the run's current leg
    resting,   \* units of the plan's entry orders on the book
    bought,    \* units the venue filled of its entries
    sold,      \* units the venue filled of its exits
    session,   \* the user's desk controller: "none", "live" or "failed"
    stood,     \* _boot_standdown_done
    tick,      \* the runner job
    earlier,   \* history: plans confirmed in an earlier life of the process
    restarts

vars == <<status, ckpt, run, ex, resting, bought, sold, session, stood, tick,
          earlier, restarts>>
venue == <<resting, bought, sold>>
process == <<session, stood, earlier, restarts>>

ACTIVE_STATUSES == {"awaiting_trigger", "running"}
Statuses == {"none", "draft", "completed", "cancelled", "failed"} \cup ACTIVE_STATUSES
Phases == {"none", "waiting", "entry", "suspended", "exit_watch", "exiting", "doomed"}
Stages == {"idle", "boot", "reconcile", "drive", "advance", "prespawn",
           "spawn", "checkpoint"}
Units == 0..MaxUnits

Ckpt == [started : BOOLEAN, done : BOOLEAN, base : Nat]
Run == [phase : Phases, started : BOOLEAN, done : BOOLEAN, base : Nat]
\* left: slices not placed yet; rest, unseen: what the current order has resting
\* and what it filled that the executor has not ingested; seen: what it ingested
Executor == [leg : {"none", "entry", "exit"}, left : Units, rest : Units,
             unseen : Units, seen : Units, dead : BOOLEAN]

NoCkpt == [started |-> FALSE, done |-> FALSE, base |-> 0]
NoRun == [phase |-> "none", started |-> FALSE, done |-> FALSE, base |-> 0]
NoEx == [leg |-> "none", left |-> 0, rest |-> 0, unseen |-> 0, seen |-> 0,
         dead |-> TRUE]
IdleTick == [pc |-> "idle", todo |-> {}, plan |-> NoPlan]

TypeOK ==
    /\ status \in [Plans -> Statuses]
    /\ ckpt \in [Plans -> Ckpt]
    /\ run \in [Plans -> Run]
    /\ ex \in [Plans -> Executor]
    /\ resting \in [Plans -> Units]
    /\ bought \in [Plans -> Units]
    /\ sold \in [Plans -> Units]
    /\ session \in {"none", "live", "failed"} /\ stood \in BOOLEAN
    /\ tick \in [pc : Stages, todo : SUBSET Plans, plan : Plans \cup {NoPlan}]
    /\ earlier \in SUBSET Plans
    /\ restarts \in 0..MaxRestarts

Init ==
    /\ status = [p \in Plans |-> "none"]
    /\ ckpt = [p \in Plans |-> NoCkpt]
    /\ run = [p \in Plans |-> NoRun]
    /\ ex = [p \in Plans |-> NoEx]
    /\ resting = [p \in Plans |-> 0]
    /\ bought = [p \in Plans |-> 0]
    /\ sold = [p \in Plans |-> 0]
    /\ session = "none" /\ stood = FALSE
    /\ tick = IdleTick
    /\ earlier = {}
    /\ restarts = 0

OneShots == {p \in Plans : Algo[p] \in {"market", "limit"}}
Active == {p \in Plans : status[p] \in ACTIVE_STATUSES}
HasRun == {p \in Plans : run[p].phase # "none"}
Alive == {p \in Plans : ~ex[p].dead}
\* A call of kind k succeeds, or fails where Faults allows it: "db" the plan
\* table, "status" a venue read, "cancel" a cancel, "place" a placement, each
\* after its retries; "hold" the inventory write of a fill.
Succeeds(k) == IF k \in Faults THEN BOOLEAN ELSE {TRUE}

-----------------------------------------------------------------------------
(* The user: the preview card and /desk cancel *)

insert_draft(p) ==
    /\ status[p] = "none"
    /\ status' = [status EXCEPT ![p] = "draft"]
    /\ UNCHANGED <<ckpt, run, ex, venue, process, tick>>

confirm_plan(p) ==
    /\ status[p] = "draft"
    /\ status' = [status EXCEPT ![p] = "awaiting_trigger"]
    /\ UNCHANGED <<ckpt, run, ex, venue, process, tick>>

discard_draft(p) ==
    /\ status[p] = "draft"
    /\ status' = [status EXCEPT ![p] = "none"]
    /\ UNCHANGED <<ckpt, run, ex, venue, process, tick>>

\* the row only: pulling the resting orders is left to the runner
cancel_plan(p) ==
    /\ status[p] \in ACTIVE_STATUSES
    /\ status' = [status EXCEPT ![p] = "cancelled"]
    /\ UNCHANGED <<ckpt, run, ex, venue, process, tick>>

-----------------------------------------------------------------------------
(* Executors *)

\* on_stop: cancel the current order, then read it once more; the executor ends
\* whatever came of either, and an order it could not cancel keeps resting.  A
\* taker TWAP only ends: it never reads an order again.
OnStop(p, read) ==
    [ex[p] EXCEPT !.rest = 0, !.unseen = 0, !.dead = TRUE,
                  !.seen = IF read /\ Algo[p] # "taker" THEN ex[p].seen + ex[p].unseen
                           ELSE ex[p].seen]
StopOutcomes(p) ==
    IF ex[p].dead THEN {[x |-> ex[p], pulled |-> 0, ok |-> TRUE]}
    ELSE {[x |-> OnStop(p, read), pulled |-> IF cancelled THEN ex[p].rest ELSE 0,
           ok |-> read /\ cancelled] :
            read \in Succeeds("status"), cancelled \in Succeeds("cancel")}

\* An order of n units on the book: k fill at once, the rest of a limit order
\* rests, that of a market order is dropped; the reply tells of the fills or not.
Placements(p, leg, n) ==
    {[k |-> k, rest |-> IF leg = "entry" /\ Algo[p] \in {"limit", "maker"}
                        THEN n - k ELSE 0, told |-> told] :
        k \in 0..n, told \in BOOLEAN}
\* on_create ends a one-shot whose reply already reports it filled
Created(leg, n, left, o, oneShot) ==
    [leg |-> leg, left |-> left, rest |-> o.rest,
     unseen |-> IF o.told THEN 0 ELSE o.k, seen |-> IF o.told THEN o.k ELSE 0,
     dead |-> oneShot /\ o.told /\ o.k = n]

-----------------------------------------------------------------------------
(* The runner job: boot stand-down, session, reconcile *)

\* park what the previous process left active; a failed read or write leaves
\* the rest to the next tick, and no session is ticked before
BootScan ==
    /\ tick.pc = "idle" /\ ~stood
    /\ \/ /\ Resume \/ Active = {}
          /\ stood' = TRUE
          /\ UNCHANGED tick
       \/ /\ ~Resume /\ Active # {}
          /\ tick' = [IdleTick EXCEPT !.pc = "boot", !.todo = Active]
          /\ UNCHANGED stood
    /\ UNCHANGED <<status, ckpt, run, ex, venue, session, earlier, restarts>>

\* mutant: a plan whose write failed is skipped and the stand-down goes on
BootParkSkips(p) ==
    /\ tick.pc = "boot" /\ p \in tick.todo
    /\ \E written \in Succeeds("db") :
         /\ status' = IF written /\ p \in Active
                      THEN [status EXCEPT ![p] = "cancelled"] ELSE status
         /\ stood' = (tick.todo = {p})
         /\ tick' = IF tick.todo # {p}
                    THEN [tick EXCEPT !.todo = @ \ {p}] ELSE IdleTick
    /\ UNCHANGED <<ckpt, run, ex, venue, session, earlier, restarts>>

BootPark(p) ==
    /\ tick.pc = "boot" /\ p \in tick.todo
    /\ \E written \in Succeeds("db") :
         /\ status' = IF written /\ p \in Active
                      THEN [status EXCEPT ![p] = "cancelled"] ELSE status
         /\ stood' = (written /\ tick.todo = {p})
         /\ tick' = IF written /\ tick.todo # {p}
                    THEN [tick EXCEPT !.todo = @ \ {p}] ELSE IdleTick
    /\ UNCHANGED <<ckpt, run, ex, venue, session, earlier, restarts>>

\* a session exists or is started, with an empty controller; a failed one is torn
\* down first (StopSession)
EnsureSession ==
    /\ tick.pc = "idle" /\ stood /\ Active # {} /\ session # "failed"
    /\ session' = "live"
    /\ tick' = [IdleTick EXCEPT !.pc = "reconcile", !.todo = Plans]
    /\ UNCHANGED <<status, ckpt, run, ex, venue, stood, earlier, restarts>>

\* units of executors no run names (SpawnRaises), which only on_stop reaches
Orphans(p) == IF "hold" \in Faults THEN 0..(resting[p] - ex[p].rest) ELSE {0}

\* nothing active, or the scan of the active plans failed: the controller stops
\* its executors and is gone, its runs with it
StopSession ==
    /\ tick.pc = "idle" /\ stood /\ session # "none"
    /\ Active = {} \/ FALSE \in Succeeds("db") \/ session = "failed"
    /\ \E left \in [Plans -> Units] :
         /\ \A p \in Plans : \E o \in StopOutcomes(p), n \in Orphans(p) :
              left[p] = resting[p] - o.pulled - n
         /\ resting' = left
    /\ run' = [p \in Plans |-> NoRun]
    /\ ex' = [p \in Plans |-> NoEx]
    /\ session' = "none"
    /\ UNCHANGED <<status, ckpt, bought, sold, stood, tick, earlier, restarts>>

\* a running plan is re-attached from its checkpoint; a one-shot entry that may
\* have been placed is failed at its next advance
_recover(p) ==
    [phase |-> IF ckpt[p].started /\ ~ckpt[p].done /\ p \in OneShots
               THEN "doomed" ELSE "entry",
     started |-> ckpt[p].started, done |-> ckpt[p].done, base |-> ckpt[p].base]

\* mutant: a vanished plan's run is dropped with its executor still working
_reconcileForgets(p) ==
    /\ tick.pc = "reconcile" /\ p \in tick.todo
    /\ tick' = [tick EXCEPT !.todo = @ \ {p}]
    /\ \/ /\ p \in Active /\ p \notin HasRun
          /\ run' = [run EXCEPT ![p] = IF status[p] = "running" THEN _recover(p)
                                       ELSE [NoRun EXCEPT !.phase = "waiting"]]
          /\ UNCHANGED <<ex, resting>>
       \/ /\ p \notin Active /\ p \in HasRun
          /\ run' = [run EXCEPT ![p] = NoRun]
          /\ ex' = [ex EXCEPT ![p] = NoEx]
          /\ UNCHANGED resting
       \/ /\ p \in Active <=> p \in HasRun
          /\ UNCHANGED <<run, ex, resting>>
    /\ UNCHANGED <<status, ckpt, bought, sold, process>>

_reconcile(p) ==
    /\ tick.pc = "reconcile" /\ p \in tick.todo
    /\ tick' = [tick EXCEPT !.todo = @ \ {p}]
    /\ \/ /\ p \in Active /\ p \notin HasRun
          /\ run' = [run EXCEPT ![p] = IF status[p] = "running" THEN _recover(p)
                                       ELSE [NoRun EXCEPT !.phase = "waiting"]]
          /\ UNCHANGED <<ex, resting>>
       \/ /\ p \notin Active /\ p \in HasRun
          /\ \E o \in StopOutcomes(p) :
               resting' = [resting EXCEPT ![p] = @ - o.pulled]
          /\ run' = [run EXCEPT ![p] = NoRun]
          /\ ex' = [ex EXCEPT ![p] = NoEx]
       \/ /\ p \in Active <=> p \in HasRun
          /\ UNCHANGED <<run, ex, resting>>
    /\ UNCHANGED <<status, ckpt, bought, sold, process>>

\* provider down: keep driving what we have
ReconcileFails ==
    /\ tick.pc = "reconcile" /\ tick.todo = Plans /\ FALSE \in Succeeds("db")
    /\ tick' = [tick EXCEPT !.todo = {}]
    /\ UNCHANGED <<status, ckpt, run, ex, venue, process>>

\* the stages of on_tick
NextStage ==
    /\ tick.pc \in {"reconcile", "drive", "advance", "checkpoint"} /\ tick.todo = {}
    /\ tick' = CASE tick.pc = "reconcile" -> [tick EXCEPT !.pc = "drive", !.todo = Alive]
                 [] tick.pc = "drive" -> [tick EXCEPT !.pc = "advance", !.todo = HasRun]
                 [] tick.pc = "advance" -> [tick EXCEPT !.pc = "checkpoint", !.todo = HasRun]
                 [] OTHER -> IdleTick
    /\ UNCHANGED <<status, ckpt, run, ex, venue, process>>

-----------------------------------------------------------------------------
(* Driving the executors: orchestrator.tick *)

Driven(p) == tick.pc = "drive" /\ p \in tick.todo /\ ~ex[p].dead
Sliced(p) == ex[p].leg = "entry" /\ p \notin OneShots
DoneWith(p) == tick' = [tick EXCEPT !.todo = @ \ {p}]

\* nothing due, or the read was denied and the order is held as it was
DriveHold(p) ==
    /\ Driven(p) /\ DoneWith(p)
    /\ UNCHANGED <<status, ckpt, run, ex, venue, process>>

\* the reads of a tick failed three times: the executor ends FAILED and its
\* order stays on the book
DriveFails(p) ==
    /\ Driven(p) /\ FALSE \in Succeeds("status") /\ DoneWith(p)
    /\ ex' = [ex EXCEPT ![p] = [@ EXCEPT !.rest = 0, !.unseen = 0, !.dead = TRUE]]
    /\ UNCHANGED <<status, ckpt, run, venue, process>>

\* mutant: fills are ingested as totals, not as what is new since the last read
DriveReadAgain(p) ==
    /\ Driven(p) /\ (Sliced(p) => Algo[p] = "maker") /\ DoneWith(p)
    /\ ex' = [ex EXCEPT ![p] = [@ EXCEPT !.seen = ex[p].seen + ex[p].unseen,
                                         !.dead = ~Sliced(p) /\ ex[p].rest = 0]]
    /\ UNCHANGED <<status, ckpt, run, venue, process>>

\* order_status: ingest the fills; a one-shot order no longer resting is over
DriveRead(p) ==
    /\ Driven(p) /\ (Sliced(p) => Algo[p] = "maker") /\ DoneWith(p)
    /\ ex' = [ex EXCEPT ![p] = [@ EXCEPT !.seen = ex[p].seen + ex[p].unseen, !.unseen = 0,
                                         !.dead = ~Sliced(p) /\ ex[p].rest = 0]]
    /\ UNCHANGED <<status, ckpt, run, venue, process>>

\* the inventory write of an ingested fill raises: the whole tick is over, and so
\* is the controller unless the error looks transient
DriveRaises(p) ==
    /\ tick.pc = "drive" /\ p \in HasRun /\ bought[p] > run[p].base + ex[p].seen
    /\ FALSE \in Succeeds("hold")
    /\ session' \in {"live", "failed"}
    /\ tick' = IdleTick
    /\ UNCHANGED <<status, ckpt, run, ex, venue, stood, earlier, restarts>>

\* A slice is due: a maker slice still open is cancelled and read first.  When
\* either call fails the executor has ended, and the next slice is placed all
\* the same.  Several slices may be due in one tick.
_advanceSlice(p) ==
    /\ Driven(p) /\ Sliced(p) /\ ex[p].left > 0
    /\ \E s \in StopOutcomes(p), o \in Placements(p, "entry", 1) :
         LET open == Algo[p] = "maker" /\ ex[p].rest + ex[p].unseen > 0
             clean == open => s.ok IN
         /\ bought[p] + resting[p] - s.pulled + 1 <= MaxUnits
         /\ ex' = [ex EXCEPT ![p] = [s.x EXCEPT
                     !.left = ex[p].left - 1, !.dead = ~clean,
                     !.rest = IF clean THEN o.rest ELSE 0,
                     !.unseen = IF clean /\ ~o.told THEN o.k ELSE 0,
                     !.seen = IF o.told THEN s.x.seen + o.k ELSE s.x.seen]]
         /\ resting' = [resting EXCEPT ![p] = @ - s.pulled + o.rest]
         /\ bought' = [bought EXCEPT ![p] = @ + o.k]
    /\ UNCHANGED <<status, ckpt, run, sold, tick, process>>

\* the placement of a slice is rejected (the executor ends) or throttled (it
\* waits for the next tick)
SliceRefused(p) ==
    /\ Driven(p) /\ Sliced(p) /\ ex[p].left > 0 /\ FALSE \in Succeeds("place")
    /\ \E s \in StopOutcomes(p), throttled \in BOOLEAN :
         /\ ex' = [ex EXCEPT ![p] = [s.x EXCEPT !.dead = ~throttled]]
         /\ resting' = [resting EXCEPT ![p] = @ - s.pulled]
    /\ DoneWith(p)
    /\ UNCHANGED <<status, ckpt, run, bought, sold, process>>

\* all slices placed and the last one resolved or out of time
_finalize(p) ==
    /\ Driven(p) /\ Sliced(p) /\ ex[p].left = 0
    /\ \E s \in StopOutcomes(p) :
         /\ ex' = [ex EXCEPT ![p] = s.x]
         /\ resting' = [resting EXCEPT ![p] = @ - s.pulled]
    /\ DoneWith(p)
    /\ UNCHANGED <<status, ckpt, run, bought, sold, process>>

-----------------------------------------------------------------------------
(* The phase machine: _advance *)

Advanced(p, phase) == tick.pc = "advance" /\ p \in tick.todo /\ run[p].phase = phase

\* finish is guarded by the active statuses; the run is dropped either way
Finish(p, s) ==
    /\ \E written \in Succeeds("db") :
         status' = IF written /\ p \in Active THEN [status EXCEPT ![p] = s] ELSE status
    /\ run' = [run EXCEPT ![p] = NoRun]
    /\ ex' = [ex EXCEPT ![p] = NoEx]

\* mutant: the absorbed executor stays the run's entry executor
_entry_finishedKeeps(p, r) ==
    \/ r.base = 0 /\ Finish(p, "failed")
    \/ r.base > 0 /\ p \notin WithExit /\ Finish(p, "completed")
    \/ /\ r.base > 0 /\ p \in WithExit
       /\ run' = [run EXCEPT ![p] = [r EXCEPT !.phase = "exit_watch"]]
       /\ UNCHANGED <<ex, status>>

\* the entry leg is over, its fills in r: arm the exit watch, or end
_entry_finished(p, r) ==
    \/ r.base = 0 /\ Finish(p, "failed")
    \/ r.base > 0 /\ p \notin WithExit /\ Finish(p, "completed")
    \/ /\ r.base > 0 /\ p \in WithExit
       /\ run' = [run EXCEPT ![p] = [r EXCEPT !.phase = "exit_watch"]]
       /\ ex' = [ex EXCEPT ![p] = NoEx]
       /\ UNCHANGED status

\* trigger not met, no price, market closed, order still working
AdvanceHold(p) ==
    /\ \/ Advanced(p, "waiting") \/ Advanced(p, "suspended")
       \/ Advanced(p, "exit_watch")
       \/ Advanced(p, "entry") /\ ~ex[p].dead
       \/ Advanced(p, "entry") /\ ex[p].leg = "none" /\ ~run[p].done
       \/ Advanced(p, "exiting") /\ ~ex[p].dead
    /\ DoneWith(p)
    /\ UNCHANGED <<status, ckpt, run, ex, venue, process>>

FailDoomed(p) ==
    /\ Advanced(p, "doomed") /\ DoneWith(p)
    /\ Finish(p, "failed")
    /\ UNCHANGED <<ckpt, venue, process>>

\* _tick_waiting: the guarded claim is won, lost (the run is dropped), or fails
\* with or without having been written (the next tick tries again)
ClaimTrigger(p) ==
    /\ Advanced(p, "waiting")
    /\ LET won == status[p] = "awaiting_trigger"
           claimed == IF won THEN [status EXCEPT ![p] = "running"] ELSE status IN
       \/ /\ status' = claimed
          /\ IF won
             THEN /\ run' = [run EXCEPT ![p] = [@ EXCEPT !.phase = "entry"]]
                  /\ tick' = [tick EXCEPT !.todo = @ \ {p}, !.pc = "prespawn", !.plan = p]
             ELSE run' = [run EXCEPT ![p] = NoRun] /\ DoneWith(p)
       \/ /\ FALSE \in Succeeds("db")
          /\ status' \in {status, claimed}
          /\ DoneWith(p) /\ UNCHANGED run
    /\ UNCHANGED <<ckpt, ex, venue, process>>

\* _tick_entry without an executor: entry already over, respawn, or suspend
EntryOver(p) ==
    /\ Advanced(p, "entry") /\ run[p].done /\ ex[p].leg = "none" /\ DoneWith(p)
    /\ _entry_finished(p, run[p])
    /\ UNCHANGED <<ckpt, venue, process>>

Respawn(p) ==
    /\ Advanced(p, "entry") /\ ~run[p].done /\ ex[p].leg = "none"
    /\ \/ /\ tick' = [tick EXCEPT !.todo = @ \ {p}, !.pc = "prespawn", !.plan = p]
          /\ UNCHANGED run
       \/ /\ run' = [run EXCEPT ![p] = [@ EXCEPT !.phase = "suspended"]]
          /\ DoneWith(p)
    /\ UNCHANGED <<status, ckpt, ex, venue, process>>

\* mutant: the stopped executor stays the run's, its fills counted once more
SuspendEntryKeeps(p) ==
    /\ Advanced(p, "entry") /\ Sliced(p) /\ ~ex[p].dead /\ DoneWith(p)
    /\ \E s \in StopOutcomes(p) :
         /\ run' = [run EXCEPT ![p] = [@ EXCEPT !.phase = "suspended",
                                                !.base = run[p].base + s.x.seen]]
         /\ resting' = [resting EXCEPT ![p] = @ - s.pulled]
         /\ ex' = [ex EXCEPT ![p] = s.x]
    /\ UNCHANGED <<status, ckpt, bought, sold, process>>

\* the spot market closed under a TWAP: stop it, keep its fills
SuspendEntry(p) ==
    /\ Advanced(p, "entry") /\ Sliced(p) /\ ~ex[p].dead /\ DoneWith(p)
    /\ \E s \in StopOutcomes(p) :
         /\ run' = [run EXCEPT ![p] = [@ EXCEPT !.phase = "suspended",
                                                !.base = run[p].base + s.x.seen]]
         /\ resting' = [resting EXCEPT ![p] = @ - s.pulled]
    /\ ex' = [ex EXCEPT ![p] = NoEx]
    /\ UNCHANGED <<status, ckpt, bought, sold, process>>

_tick_suspended(p) ==
    /\ Advanced(p, "suspended") /\ DoneWith(p)
    /\ run' = [run EXCEPT ![p] = [@ EXCEPT !.phase = "entry"]]
    /\ UNCHANGED <<status, ckpt, ex, venue, process>>

\* the entry executor ended, or a limit entry expired: absorb its fills
EntryEnds(p) ==
    /\ Advanced(p, "entry") /\ ex[p].leg = "entry" /\ DoneWith(p)
    /\ ex[p].dead \/ Algo[p] = "limit"
    /\ \E s \in StopOutcomes(p) :
         /\ resting' = [resting EXCEPT ![p] = @ - s.pulled]
         /\ _entry_finished(p, [run[p] EXCEPT !.done = TRUE, !.base = @ + s.x.seen])
    /\ UNCHANGED <<ckpt, bought, sold, process>>

-----------------------------------------------------------------------------
(* Entry and exit orders *)

\* mutant: spawns although the pre-spawn checkpoint did not land
PreSpawnAnyway(p) ==
    /\ tick.pc = "prespawn" /\ tick.plan = p
    /\ \/ /\ run[p].base >= Size
          /\ tick' = [tick EXCEPT !.pc = "advance", !.plan = NoPlan]
          /\ _entry_finished(p, [run[p] EXCEPT !.done = TRUE])
          /\ UNCHANGED ckpt
       \/ /\ run[p].base < Size
          /\ \E written \in Succeeds("db") :
               ckpt' = IF written THEN [ckpt EXCEPT ![p] =
                         [started |-> TRUE, done |-> run[p].done, base |-> run[p].base]]
                       ELSE ckpt
          /\ run' = [run EXCEPT ![p].started = TRUE]
          /\ tick' = [tick EXCEPT !.pc = "spawn"]
          /\ UNCHANGED <<status, ex>>
    /\ UNCHANGED <<venue, process>>

\* _spawn_entry up to the placement: entry_started is made durable first; when
\* that write fails (it may have landed) nothing is placed this tick
PreSpawn(p) ==
    /\ tick.pc = "prespawn" /\ tick.plan = p
    /\ LET marked == [ckpt EXCEPT ![p] =
                        [started |-> TRUE, done |-> run[p].done, base |-> run[p].base]] IN
       \/ /\ run[p].base >= Size
          /\ tick' = [tick EXCEPT !.pc = "advance", !.plan = NoPlan]
          /\ _entry_finished(p, [run[p] EXCEPT !.done = TRUE])
          /\ UNCHANGED ckpt
       \/ /\ run[p].base < Size
          /\ ckpt' = marked
          /\ run' = [run EXCEPT ![p].started = TRUE]
          /\ tick' = [tick EXCEPT !.pc = "spawn"]
          /\ UNCHANGED <<status, ex>>
       \/ /\ run[p].base < Size /\ FALSE \in Succeeds("db")
          /\ ckpt' \in {ckpt, marked}
          /\ run' = [run EXCEPT ![p].started = FALSE]
          /\ tick' = [tick EXCEPT !.pc = "advance", !.plan = NoPlan]
          /\ UNCHANGED <<status, ex>>
    /\ UNCHANGED <<venue, process>>

Spawning(p) == tick.pc = "spawn" /\ tick.plan = p
Spawned == tick' = [tick EXCEPT !.pc = "advance", !.plan = NoPlan]
\* what the entry's first order asks for, and the slices after it
FirstOrder(p) == IF p \in OneShots THEN Size ELSE 1
LaterSlices(p) == IF p \in OneShots THEN 0 ELSE Size - run[p].base - 1

\* spawn_executor and its on_create
Spawn(p) ==
    /\ Spawning(p) /\ Spawned
    /\ bought[p] + resting[p] + FirstOrder(p) <= MaxUnits
    /\ \E o \in Placements(p, "entry", FirstOrder(p)) :
         /\ ex' = [ex EXCEPT ![p] = Created("entry", FirstOrder(p), LaterSlices(p), o,
                                            p \in OneShots)]
         /\ resting' = [resting EXCEPT ![p] = @ + o.rest]
         /\ bought' = [bought EXCEPT ![p] = @ + o.k]
    /\ UNCHANGED <<status, ckpt, run, sold, process>>

\* risk engine, throttle, or a placement that failed three times
SpawnRefused(p) ==
    /\ Spawning(p) /\ Spawned /\ FALSE \in Succeeds("place")
    /\ Finish(p, "failed")
    /\ UNCHANGED <<ckpt, venue, process>>

\* the inventory write of the first fill raises through on_create and spawn: the
\* order stands, but the run never learns of its executor
SpawnRaises(p) ==
    /\ Spawning(p) /\ Spawned /\ FALSE \in Succeeds("hold")
    /\ bought[p] + resting[p] + FirstOrder(p) <= MaxUnits
    /\ \E o \in Placements(p, "entry", FirstOrder(p)) :
         /\ o.told /\ o.k > 0
         /\ resting' = [resting EXCEPT ![p] = @ + o.rest]
         /\ bought' = [bought EXCEPT ![p] = @ + o.k]
    /\ UNCHANGED <<status, ckpt, run, ex, sold, process>>

\* mutant: closes what the plan asked for, not what it bought
ExitAmountAsked(p) == Size
ExitAmount(p) == run[p].base

\* _tick_exit_watch and _spawn_exit: a level is hit, a market order closes the
\* filled amount; the venue drops what does not fill
_spawn_exit(p) ==
    /\ Advanced(p, "exit_watch") /\ DoneWith(p)
    /\ sold[p] + ExitAmount(p) <= MaxUnits
    /\ \E o \in Placements(p, "exit", ExitAmount(p)) :
         /\ ex' = [ex EXCEPT ![p] = Created("exit", ExitAmount(p), 0, o, TRUE)]
         /\ sold' = [sold EXCEPT ![p] = @ + o.k]
    /\ run' = [run EXCEPT ![p].phase = "exiting"]
    /\ UNCHANGED <<status, ckpt, resting, bought, process>>

ExitRefused(p) ==
    /\ Advanced(p, "exit_watch") /\ DoneWith(p) /\ FALSE \in Succeeds("place")
    /\ Finish(p, "failed")
    /\ UNCHANGED <<ckpt, venue, process>>

ExitRaises(p) ==
    /\ Advanced(p, "exit_watch") /\ DoneWith(p) /\ FALSE \in Succeeds("hold")
    /\ sold[p] + ExitAmount(p) <= MaxUnits
    /\ \E k \in 1..ExitAmount(p) : sold' = [sold EXCEPT ![p] = @ + k]
    /\ UNCHANGED <<status, ckpt, run, ex, resting, bought, process>>

\* _tick_exiting: closed, or watch again for the remainder
_tick_exiting(p) ==
    /\ Advanced(p, "exiting") /\ ex[p].dead /\ DoneWith(p)
    /\ \/ /\ ex[p].seen >= run[p].base
          /\ Finish(p, "completed")
       \/ /\ ex[p].seen < run[p].base
          /\ run' = [run EXCEPT ![p].phase = "exit_watch",
                                ![p].base = run[p].base - ex[p].seen]
          /\ ex' = [ex EXCEPT ![p] = NoEx]
          /\ UNCHANGED status
    /\ UNCHANGED <<ckpt, venue, process>>

\* the end-of-tick checkpoint of a run: executor_totals and the entry flags
Checkpoint(p) ==
    /\ tick.pc = "checkpoint" /\ p \in tick.todo /\ DoneWith(p)
    /\ LET totals == run[p].base + (IF ex[p].leg = "entry" THEN ex[p].seen ELSE 0)
           saved == [ckpt EXCEPT ![p] = [started |-> run[p].started,
                                         done |-> run[p].done, base |-> totals]] IN
       \/ ckpt' = saved
       \/ FALSE \in Succeeds("db") /\ UNCHANGED ckpt
    /\ UNCHANGED <<status, run, ex, venue, process>>

-----------------------------------------------------------------------------
(* The venue and the process *)

\* a resting unit fills: one of the executor's order, or of one nobody tracks
Fill(p) ==
    /\ resting[p] > 0
    /\ resting' = [resting EXCEPT ![p] = @ - 1]
    /\ bought' = [bought EXCEPT ![p] = @ + 1]
    /\ \/ /\ ex[p].leg = "entry" /\ ex[p].rest > 0
          /\ ex' = [ex EXCEPT ![p].rest = ex[p].rest - 1, ![p].unseen = ex[p].unseen + 1]
       \/ /\ resting[p] > ex[p].rest
          /\ UNCHANGED ex
    /\ UNCHANGED <<status, ckpt, run, sold, process, tick>>

\* rows and venue survive
Crash ==
    /\ restarts < MaxRestarts
    /\ restarts' = restarts + 1
    /\ run' = [p \in Plans |-> NoRun]
    /\ ex' = [p \in Plans |-> NoEx]
    /\ session' = "none" /\ stood' = FALSE
    /\ tick' = IdleTick
    /\ earlier' = {p \in Plans : status[p] \notin {"none", "draft"}}
    /\ UNCHANGED <<status, ckpt, venue>>

UserNext == \E p \in Plans :
    insert_draft(p) \/ confirm_plan(p) \/ discard_draft(p) \/ cancel_plan(p)

DriveNext == \E p \in Plans :
    \/ DriveHold(p) \/ DriveFails(p) \/ DriveRead(p) \/ DriveRaises(p)
    \/ _advanceSlice(p) \/ SliceRefused(p) \/ _finalize(p)

AdvanceNext == \E p \in Plans :
    \/ AdvanceHold(p) \/ FailDoomed(p) \/ ClaimTrigger(p) \/ EntryOver(p)
    \/ Respawn(p) \/ SuspendEntry(p) \/ _tick_suspended(p) \/ EntryEnds(p)
    \/ PreSpawn(p) \/ Spawn(p) \/ SpawnRefused(p) \/ SpawnRaises(p)
    \/ _spawn_exit(p) \/ ExitRefused(p) \/ ExitRaises(p) \/ _tick_exiting(p)
    \/ Checkpoint(p)

\* tick_desk_runner: one job, never two at a time
tick_desk_runner ==
    \/ BootScan \/ EnsureSession \/ StopSession \/ ReconcileFails \/ NextStage
    \/ \E p \in Plans : BootPark(p) \/ _reconcile(p)
    \/ DriveNext \/ AdvanceNext

Next == UserNext \/ tick_desk_runner \/ (\E p \in Plans : Fill(p)) \/ Crash

Spec == Init /\ [][Next]_vars
\* the scheduler runs the job every five seconds
FairSpec == Spec /\ WF_vars(tick_desk_runner)

-----------------------------------------------------------------------------
(* Properties *)

\* A one-shot entry never has more than its size bought or on the book, whatever
\* calls fail and whenever the process dies: the pre-spawn checkpoint makes
\* recovery fail such a plan instead of firing it again (_spawn_entry, _recover).
OneShotOnce == \A p \in OneShots : bought[p] + resting[p] <= Size

\* Every unit a run or its checkpoint counts as filled was bought at the venue:
\* suspending, absorbing, stopping and recovering an entry never count a fill
\* twice (_tick_entry, executor_totals, _recover).
FillsAreReal == \A p \in Plans :
    /\ run[p].base + (IF ex[p].leg = "entry" THEN ex[p].seen + ex[p].unseen ELSE 0)
         <= bought[p]
    /\ ckpt[p].base <= bought[p]

\* With the default redeploy contract a plan the user confirmed in an earlier
\* life of the process is never attached to the controller again, even when the
\* stand-down fails part of the way (_stand_down_on_boot, tick_desk_runner).
NoTradeFromEarlierLife == \A p \in earlier : p \notin HasRun /\ p \notin Alive

\* An exit closes what the entry bought and no more, over partial closes and
\* retries of the remainder (_spawn_exit, _tick_exiting).
ExitClosesActual == \A p \in Plans : sold[p] <= bought[p]

\* A cancelled plan ends with no run and nothing of it on the book (cancel_plan,
\* _reconcile, _stop_session).
CancelledIsPulled == \A p \in Plans :
    status[p] = "cancelled" ~> (resting[p] = 0 /\ p \notin HasRun)

=============================================================================
