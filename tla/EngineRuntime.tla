---------------------------- MODULE EngineRuntime ----------------------------
(* strategy/engine_runtime.py for one (user, network, strategy): the         *)
(* registered controller with its orchestrator, the cycles that build and    *)
(* tick it under the cycle lock, the stops that take it down without the     *)
(* lock, and the executor rows of engine_executors.                          *)
(*                                                                           *)
(* An instance is one build: a controller and its orchestrator. Executors    *)
(* are ACTIVE or TERMINATED here; what they do on the venue is EngineLegs.   *)
(* Every await is a step. One process, so is_process_worker_mode is False.   *)
EXTENDS Naturals, FiniteSets

CONSTANTS MaxBuilds,    \* bound: instances built
          ExPer,        \* bound: executors an instance spawns
          MaxSessions,  \* bound: runs the user starts
          MaxTransient, \* _controller_max_transient_fails
          MaxStops,     \* bound: runs taken down by a stop
          Jobs,         \* scheduled cycles, cancelled by the cycle timeout
          Kicks,        \* eager kickoffs of start_user_bot, which nothing cancels
          Stoppers,     \* user stops and rails
          Restarts,     \* bound: process restarts
          MaxTimeouts,  \* bound: cycles cancelled by the timeout
          Faults        \* subset of {"db", "start", "tick", "stop", "standdown"}

ASSUME RuntimeAssumption ==
    /\ MaxBuilds \in Nat /\ ExPer \in Nat /\ MaxSessions \in Nat /\ MaxStops \in Nat /\ Restarts \in Nat
    /\ MaxTimeouts \in Nat
    /\ MaxTransient \in Nat \ {0}
    /\ Jobs \cap Kicks = {} /\ Stoppers \cap (Jobs \cup Kicks) = {}
    /\ {"none", "cancelled"} \cap (Jobs \cup Kicks \cup Stoppers) = {}

Cyclers == Jobs \cup Kicks
Tasks == Cyclers \cup Stoppers
Instances == 1..MaxBuilds
Executors == Instances \X (1..ExPer)
Of(i) == {e \in Executors : e[1] = i}

VARIABLES session,   \* the running run's id, 0 when none runs; runs are numbered
          sessions, stops, restarts, timeouts,
          reg,       \* _controllers and _orchestrators of the key: an instance, or 0
          builds,
          ctl,       \* controller states
          fails, backing, \* _controller_fail_counts and whether a backoff window is open
          ex,        \* executor states; pruned ones have left the orchestrator
          stopping,  \* executors whose on_stop is under way
          listed,    \* history: instances whose executors a stop has listed
          dropped,   \* history: instances unregistered by a stop that had taken another, or none
          sigs, sig, \* _persisted_sig: whether the key is there, and the states recorded
          row, ran,  \* engine_executors: states, and the run each row is tagged with
          batch,     \* _persist_inflight
          lock, pc, mine, after, before

vars == <<session, sessions, stops, restarts, timeouts, reg, builds, ctl, fails, backing, ex, stopping, listed, dropped, sigs,
          sig, row, ran, batch, lock, pc, mine, after, before>>
runVars == <<session, sessions, stops, restarts, timeouts>>
liveVars == <<reg, builds, ctl, fails, backing, ex, stopping, listed, dropped>>
rowVars == <<sigs, sig, row, ran, batch>>
taskVars == <<lock, pc, mine, after, before>>

NoBatch == [rows |-> [e \in {} |-> ""], owner |-> "none"]
PCs == {"idle", "wait", "decide", "start", "build", "on_start", "rollback", "started", "tick", "ticking",
        "persist", "writing", "on_stop", "gather", "force", "forced", "sweep", "cross", "pop", "release"}

TypeOK ==
    /\ session \in 0..MaxSessions /\ sessions \in 0..MaxSessions /\ stops \in 0..MaxStops /\ restarts \in 0..Restarts
    /\ timeouts \in 0..MaxTimeouts
    /\ reg \in 0..MaxBuilds /\ builds \in 0..MaxBuilds
    /\ ctl \in [Instances -> {"none", "INIT", "ACTIVE", "FAILED", "STOPPED"}]
    /\ fails \in [Instances -> 0..(MaxTransient - 1)] /\ backing \in [Instances -> BOOLEAN]
    /\ ex \in [Executors -> {"none", "ACTIVE", "TERMINATED", "pruned"}]
    /\ stopping \subseteq Executors /\ listed \subseteq Instances /\ dropped \subseteq Instances
    /\ sigs \in BOOLEAN /\ sig \in [Executors -> {"none", "ACTIVE", "TERMINATED"}]
    /\ row \in [Executors -> {"none", "ACTIVE", "TERMINATED"}] /\ ran \in [Executors -> 0..MaxSessions]
    /\ DOMAIN batch.rows \subseteq Executors /\ batch.owner \in Tasks \cup {"none", "cancelled"}
    /\ lock \in Cyclers \cup {"none"} /\ pc \in [Tasks -> PCs] /\ mine \in [Tasks -> 0..MaxBuilds]
    /\ after \in [Tasks -> {"idle", "build", "release"}] /\ before \in [Tasks -> SUBSET Executors]

Init ==
    /\ session = 0 /\ sessions = 0 /\ stops = 0 /\ restarts = 0 /\ timeouts = 0 /\ reg = 0 /\ builds = 0
    /\ ctl = [i \in Instances |-> "none"]
    /\ fails = [i \in Instances |-> 0] /\ backing = [i \in Instances |-> FALSE]
    /\ ex = [e \in Executors |-> "none"] /\ stopping = {} /\ listed = {} /\ dropped = {}
    /\ sigs = FALSE /\ sig = [e \in Executors |-> "none"]
    /\ row = [e \in Executors |-> "none"] /\ ran = [e \in Executors |-> 0] /\ batch = NoBatch
    /\ lock = "none" /\ pc = [t \in Tasks |-> "idle"] /\ mine = [t \in Tasks |-> 0]
    /\ after = [t \in Tasks |-> "idle"] /\ before = [t \in Tasks |-> {}]

Goto(t, l) == pc' = [pc EXCEPT ![t] = l]
Active(i) == {e \in Of(i) : ex[e] = "ACTIVE"}

-----------------------------------------------------------------------------
(* The run: start_user_bot, whose kickoff is a cycle, and what ends it.      *)

UserStart(k) ==
    /\ session = 0 /\ sessions < MaxSessions /\ pc[k] = "idle"
    /\ session' = sessions + 1 /\ sessions' = sessions + 1
    /\ Goto(k, "wait")
    /\ UNCHANGED <<stops, restarts, timeouts, liveVars, rowVars, lock, mine, after, before>>

CycleBegin(j) ==
    /\ session # 0 /\ pc[j] = "idle"
    /\ Goto(j, "wait")
    /\ UNCHANGED <<runVars, liveVars, rowVars, lock, mine, after, before>>

\* EngineRuntime.stop from here on: it takes what is registered now.
CallStop(t, then) ==
    /\ mine' = [mine EXCEPT ![t] = reg]
    /\ after' = [after EXCEPT ![t] = then]
    /\ Goto(t, IF reg = 0 THEN "cross" ELSE "on_stop")

\* A user stop, a rail, a finished or a superseded run: the session is finalized first.
StopRun(s) ==
    /\ session # 0 /\ stops < MaxStops /\ pc[s] = "idle"
    /\ session' = 0 /\ stops' = stops + 1
    /\ CallStop(s, "idle")
    /\ UNCHANGED <<sessions, restarts, timeouts, liveVars, rowVars, lock, before>>

-----------------------------------------------------------------------------
(* run_engine_cycle.                                                         *)

\* mutant: the cycle lock does not exclude
AcquireLockShared(c) ==
    /\ pc[c] = "wait"
    /\ lock' = c /\ Goto(c, "decide")
    /\ UNCHANGED <<runVars, liveVars, rowVars, mine, after, before>>
AcquireLock(c) ==
    /\ pc[c] = "wait" /\ lock = "none"
    /\ lock' = c /\ Goto(c, "decide")
    /\ UNCHANGED <<runVars, liveVars, rowVars, mine, after, before>>

needs_recovery == reg # 0 /\ ctl[reg] = "FAILED"
has_local_active == reg # 0 /\ ctl[reg] = "ACTIVE"
_remote_active == \E e \in Executors : row[e] = "ACTIVE" /\ (session # 0 => ran[e] = session)
is_running(remote) == has_local_active \/ remote
_should_build_controller(remote) == needs_recovery \/ (~has_local_active /\ ~is_running(remote))

\* A row count that fails reads as no rows.
Decide(c) ==
    /\ pc[c] = "decide"
    /\ \E remote \in {_remote_active} \cup (IF "db" \in Faults THEN {FALSE} ELSE {}) :
         Goto(c, IF _should_build_controller(remote) THEN "start" ELSE "tick")
    /\ UNCHANGED <<runVars, liveVars, rowVars, lock, mine, after, before>>

\* EngineRuntime.start: what is still registered is stopped first.
StartFirst(c) ==
    /\ pc[c] = "start"
    /\ IF reg # 0 THEN CallStop(c, "build") ELSE Goto(c, "build") /\ UNCHANGED <<mine, after>>
    /\ UNCHANGED <<runVars, liveVars, rowVars, lock, before>>

Build(c) ==
    /\ pc[c] = "build" /\ builds < MaxBuilds
    /\ builds' = builds + 1 /\ reg' = builds + 1
    /\ ctl' = [ctl EXCEPT ![builds + 1] = "INIT"]
    /\ mine' = [mine EXCEPT ![c] = builds + 1]
    /\ Goto(c, "on_start")
    /\ UNCHANGED <<runVars, fails, backing, ex, stopping, listed, dropped, rowVars, lock, after, before>>

\* A controller spawns an executor, in on_start or in on_tick.
SpawnExecutor(c) ==
    /\ pc[c] \in {"on_start", "ticking"}
    /\ \E e \in Of(mine[c]) : /\ ex[e] = "none" /\ \A d \in Of(mine[c]) : d[2] < e[2] => ex[d] # "none"
                              /\ ex' = [ex EXCEPT ![e] = "ACTIVE"]
    /\ UNCHANGED <<runVars, reg, builds, ctl, fails, backing, stopping, listed, dropped, rowVars, taskVars>>

\* on_start returned. A controller that a stop has unregistered meanwhile is taken down again.
OnStartReturns(c) ==
    /\ pc[c] = "on_start"
    /\ ctl' = [ctl EXCEPT ![mine[c]] = "ACTIVE"]
    /\ Goto(c, "started")
    /\ UNCHANGED <<runVars, reg, builds, fails, backing, ex, stopping, listed, dropped, rowVars, lock, mine, after, before>>

OnStartRaises(c) ==
    /\ "start" \in Faults /\ pc[c] = "on_start"
    /\ ctl' = [ctl EXCEPT ![mine[c]] = "FAILED"]
    /\ stopping' = stopping \cup Active(mine[c])
    /\ Goto(c, "rollback")
    /\ UNCHANGED <<runVars, reg, builds, fails, backing, ex, listed, dropped, rowVars, lock, mine, after, before>>

RolledBack(c) ==
    /\ pc[c] = "rollback" /\ stopping \cap Of(mine[c]) = {}
    /\ reg' = 0
    /\ Goto(c, "started")
    /\ UNCHANGED <<runVars, builds, ctl, fails, backing, ex, stopping, listed, dropped, rowVars, lock, mine, after, before>>

Started(c) ==
    /\ pc[c] = "started"
    /\ IF reg = 0 \/ ctl[mine[c]] = "FAILED" THEN CallStop(c, "release")
       ELSE Goto(c, "release") /\ UNCHANGED <<mine, after>>
    /\ UNCHANGED <<runVars, liveVars, rowVars, lock, before>>

Release(c) ==
    /\ pc[c] = "release"
    /\ lock' = "none" /\ Goto(c, "idle")
    /\ mine' = [mine EXCEPT ![c] = 0] /\ before' = [before EXCEPT ![c] = {}] /\ after' = [after EXCEPT ![c] = "idle"]
    /\ UNCHANGED <<runVars, liveVars, rowVars>>

-----------------------------------------------------------------------------
(* EngineRuntime.tick and ExecutorOrchestrator.tick_controller.              *)

TickController(c) ==
    /\ pc[c] = "tick"
    /\ mine' = [mine EXCEPT ![c] = reg]
    /\ IF reg = 0 THEN Goto(c, "release") /\ UNCHANGED before
       ELSE IF ctl[reg] # "ACTIVE" \/ backing[reg] THEN Goto(c, "persist") /\ UNCHANGED before
       ELSE Goto(c, "ticking") /\ before' = [before EXCEPT ![c] = {e \in Of(reg) : ex[e] = "TERMINATED"}]
    /\ UNCHANGED <<runVars, liveVars, rowVars, lock, after>>

ExecutorEnds(c) ==
    /\ pc[c] = "ticking"
    /\ \E e \in Active(mine[c]) : ex' = [ex EXCEPT ![e] = "TERMINATED"]
    /\ UNCHANGED <<runVars, reg, builds, ctl, fails, backing, stopping, listed, dropped, rowVars, taskVars>>

\* _unpersisted: an executor whose state has not been written is kept.
_unpersisted(e) == sig[e] # ex[e]
\* prune_terminated: of those that had terminated before the tick, beyond the newest.
TickReturns(c) ==
    LET i == mine[c] IN
    /\ pc[c] = "ticking"
    /\ fails' = [fails EXCEPT ![i] = 0] /\ backing' = [backing EXCEPT ![i] = FALSE]
    /\ \E P \in SUBSET {e \in before[c] : ~_unpersisted(e)} :
         ex' = [e \in Executors |-> IF e \in P THEN "pruned" ELSE ex[e]]
    /\ Goto(c, "persist")
    /\ UNCHANGED <<runVars, reg, builds, ctl, stopping, listed, dropped, rowVars, lock, mine, after, before>>

\* mutant: one more transient error than the bound is forgiven
ExhaustedLate(count) == count > MaxTransient
Exhausted(count) == count >= MaxTransient
\* _handle_controller_tick_error: a transient error backs off until the streak is exhausted; any other is fatal.
TickRaises(c) ==
    LET i == mine[c] IN
    /\ "tick" \in Faults /\ pc[c] = "ticking"
    /\ \/ /\ ~Exhausted(fails[i] + 1)
          /\ fails' = [fails EXCEPT ![i] = @ + 1] /\ backing' = [backing EXCEPT ![i] = TRUE] /\ UNCHANGED ctl
       \/ /\ fails' = [fails EXCEPT ![i] = 0] /\ backing' = [backing EXCEPT ![i] = FALSE]
          /\ ctl' = [ctl EXCEPT ![i] = "FAILED"]
    /\ Goto(c, "persist")
    /\ UNCHANGED <<runVars, reg, builds, ex, stopping, listed, dropped, rowVars, lock, mine, after, before>>

BackoffEnds(i) ==
    /\ backing[i]
    /\ backing' = [backing EXCEPT ![i] = FALSE]
    /\ UNCHANGED <<runVars, reg, builds, ctl, fails, ex, stopping, listed, dropped, rowVars, taskVars>>

-----------------------------------------------------------------------------
(* _persist_executors: the rows whose state changed, in one batch off the    *)
(* loop. A tick that finds a batch in flight leaves it; a stop waits for it. *)

Dirty(i) == {e \in Of(i) : ex[e] \in {"ACTIVE", "TERMINATED"} /\ (IF sigs THEN sig[e] ELSE "none") # ex[e]}
Submit(t, next) ==
    LET i == mine[t] IN
    /\ sigs' = TRUE
    /\ sig' = [e \in Executors |-> IF sigs /\ e \in Of(i) /\ ex[e] # "pruned" THEN sig[e] ELSE "none"]
    /\ IF Dirty(i) = {} THEN Goto(t, next) /\ UNCHANGED batch
       ELSE /\ batch' = [rows |-> [e \in Dirty(i) |-> ex[e]], owner |-> t]
            /\ Goto(t, IF next = "sweep" THEN "forced" ELSE "writing")
    /\ UNCHANGED <<row, ran>>

PersistTick(c) ==
    /\ pc[c] = "persist"
    /\ IF batch # NoBatch THEN Goto(c, "release") /\ UNCHANGED rowVars ELSE Submit(c, "release")
    /\ UNCHANGED <<runVars, liveVars, lock, mine, after, before>>

PersistForce(t) ==
    /\ pc[t] = "force" /\ batch = NoBatch
    /\ Submit(t, "sweep")
    /\ UNCHANGED <<runVars, liveVars, lock, mine, after, before>>

\* mutant: the states count as written once they are handed to the database
RecordedAlways(ok) == [e \in Executors |-> IF sigs /\ e \in DOMAIN batch.rows THEN batch.rows[e] ELSE sig[e]]
\* Signatures are recorded on success only, and only while the key still has any.
Recorded(ok) == [e \in Executors |-> IF ok /\ sigs /\ e \in DOMAIN batch.rows THEN batch.rows[e] ELSE sig[e]]

_write_executor_rows ==
    /\ batch # NoBatch
    /\ \E ok \in {TRUE} \cup (IF "db" \in Faults THEN {FALSE} ELSE {}) :
         /\ sig' = Recorded(ok)
         /\ row' = IF ok THEN [e \in Executors |-> IF e \in DOMAIN batch.rows THEN batch.rows[e] ELSE row[e]] ELSE row
         /\ ran' = IF ok THEN [e \in Executors |-> IF e \in DOMAIN batch.rows /\ row[e] = "none" THEN session ELSE ran[e]]
                   ELSE ran
    /\ batch' = NoBatch
    /\ pc' = [t \in Tasks |-> IF t = batch.owner THEN (IF pc[t] = "forced" THEN "sweep" ELSE "release") ELSE pc[t]]
    /\ UNCHANGED <<runVars, liveVars, sigs, lock, mine, after, before>>

-----------------------------------------------------------------------------
(* EngineRuntime.stop and ExecutorOrchestrator.stop_controller.              *)

\* The hook has run, or has failed: the controller is stopped and what is active now is listed.
StopController(t) ==
    LET i == mine[t] IN
    /\ pc[t] = "on_stop"
    /\ ctl' = [ctl EXCEPT ![i] = "STOPPED"]
    /\ listed' = listed \cup {i} /\ stopping' = stopping \cup Active(i)
    /\ Goto(t, "gather")
    /\ UNCHANGED <<runVars, reg, builds, fails, backing, ex, dropped, rowVars, lock, mine, after, before>>

ExecutorStops(e) ==
    /\ e \in stopping
    /\ ex' = [ex EXCEPT ![e] = IF @ = "ACTIVE" THEN "TERMINATED" ELSE @] /\ stopping' = stopping \ {e}
    /\ UNCHANGED <<runVars, reg, builds, ctl, fails, backing, listed, dropped, rowVars, taskVars>>

Gathered(t) ==
    /\ pc[t] = "gather" /\ stopping \cap Of(mine[t]) = {}
    /\ Goto(t, "force")
    /\ UNCHANGED <<runVars, liveVars, rowVars, lock, mine, after, before>>

\* An executor's stop raised (throttled, it stays active): the stop raises with it, and start replaces anyway.
GatherRaises(t) ==
    /\ "stop" \in Faults /\ pc[t] = "gather"
    /\ \E e \in stopping \cap Of(mine[t]) :
         /\ stopping' = stopping \ {e}
         /\ ex' \in {ex, [ex EXCEPT ![e] = IF @ = "ACTIVE" THEN "TERMINATED" ELSE @]}
    /\ Goto(t, after[t])
    /\ UNCHANGED <<runVars, reg, builds, ctl, fails, backing, listed, dropped, rowVars, lock, mine, after, before>>

\* terminate_engine_executors, which swallows a database error.
SweepRows(t) ==
    /\ pc[t] \in {"sweep", "cross"}
    /\ \/ row' = [e \in Executors |-> IF row[e] = "ACTIVE" THEN "TERMINATED" ELSE row[e]]
       \/ "db" \in Faults /\ UNCHANGED row
    /\ Goto(t, "pop")
    /\ UNCHANGED <<runVars, liveVars, sigs, sig, ran, batch, lock, mine, after, before>>

\* The venue half of a stop without a controller lies before this step. The key is dropped, whatever it holds now.
Pop(t) ==
    /\ pc[t] = "pop"
    /\ dropped' = dropped \cup ({reg} \ {0, mine[t]})
    /\ reg' = 0 /\ sigs' = FALSE /\ sig' = [e \in Executors |-> "none"]
    /\ Goto(t, after[t])
    /\ UNCHANGED <<runVars, builds, ctl, fails, backing, ex, stopping, listed, row, ran, batch, lock, mine, after, before>>

-----------------------------------------------------------------------------
(* The cycle timeout, and the process.                                       *)

\* CancelledError at any await: the lock is released, a gather takes its stops with it, a batch lands on its own.
Timeout(j) ==
    /\ timeouts < MaxTimeouts /\ pc[j] \notin {"idle", "release"}
    /\ timeouts' = timeouts + 1
    /\ pc' = [pc EXCEPT ![j] = "idle"] /\ lock' = IF lock = j THEN "none" ELSE lock
    /\ stopping' = IF pc[j] \in {"gather", "rollback"}
                      /\ \A t \in Tasks \ {j} : ~(mine[t] = mine[j] /\ pc[t] = "gather")
                   THEN stopping \ Of(mine[j]) ELSE stopping
    /\ batch' = IF batch.owner = j THEN [batch EXCEPT !.owner = "cancelled"] ELSE batch
    /\ mine' = [mine EXCEPT ![j] = 0] /\ before' = [before EXCEPT ![j] = {}] /\ after' = [after EXCEPT ![j] = "idle"]
    /\ UNCHANGED <<session, sessions, stops, restarts, reg, builds, ctl, fails, backing, ex, listed, dropped, sigs, sig, row, ran>>

\* The process restarts; boot_stand_down_strategies ends the run and its rows, or fails and leaves both.
Restart ==
    /\ restarts < Restarts /\ restarts' = restarts + 1
    /\ reg' = 0 /\ ctl' = [i \in Instances |-> "none"] /\ ex' = [e \in Executors |-> IF ex[e] = "none" THEN "none" ELSE "pruned"]
    /\ fails' = [i \in Instances |-> 0] /\ backing' = [i \in Instances |-> FALSE] /\ stopping' = {}
    /\ sigs' = FALSE /\ sig' = [e \in Executors |-> "none"] /\ batch' = NoBatch
    /\ lock' = "none" /\ pc' = [t \in Tasks |-> "idle"] /\ mine' = [t \in Tasks |-> 0]
    /\ after' = [t \in Tasks |-> "idle"] /\ before' = [t \in Tasks |-> {}]
    /\ \/ session' = 0 /\ row' = [e \in Executors |-> IF row[e] = "ACTIVE" /\ session # 0 THEN "TERMINATED" ELSE row[e]]
       \/ "standdown" \in Faults /\ UNCHANGED <<session, row>>
    /\ UNCHANGED <<sessions, stops, timeouts, builds, listed, dropped, ran>>

-----------------------------------------------------------------------------
CycleStep(c) ==
    \/ AcquireLock(c) \/ Decide(c) \/ StartFirst(c) \/ Build(c) \/ SpawnExecutor(c) \/ OnStartReturns(c) \/ OnStartRaises(c)
    \/ RolledBack(c) \/ Started(c) \/ Release(c) \/ TickController(c) \/ ExecutorEnds(c) \/ TickReturns(c)
    \/ TickRaises(c) \/ PersistTick(c)
StopStep(t) == StopController(t) \/ Gathered(t) \/ GatherRaises(t) \/ PersistForce(t) \/ SweepRows(t) \/ Pop(t)

Next ==
    \/ \E k \in Kicks : UserStart(k)
    \/ \E j \in Jobs : CycleBegin(j) \/ Timeout(j)
    \/ \E s \in Stoppers : StopRun(s)
    \/ \E c \in Cyclers : CycleStep(c)
    \/ \E t \in Tasks : StopStep(t)
    \/ \E e \in Executors : ExecutorStops(e)
    \/ \E i \in Instances : BackoffEnds(i)
    \/ _write_executor_rows
    \/ Restart

Spec == Init /\ [][Next]_vars

-----------------------------------------------------------------------------
\* An instance with live executors that no stop has taken is the registered one: two cycles, a failed start, a
\* cancelled cycle, a recovery or a stop in the middle of a cycle never leave one behind, and so never open a
\* position twice (run_engine_cycle, "build+start atomic"; EngineRuntime.start, BUG-ER-1). The one way out is a
\* stop that drops the key after another instance was registered under it (dropped).
OneInstance ==
    \A i \in Instances : Active(i) # {} /\ i \notin listed \cup dropped => reg = i

\* An executor that has left the orchestrator in this life has its final row: no batch that failed, was skipped
\* or was overtaken leaves a pruned executor's row ACTIVE (_unpersisted, prune_terminated).
PrunedIsPersisted ==
    restarts = 0 => \A e \in Executors : ex[e] = "pruned" => row[e] = "TERMINATED"
=============================================================================
