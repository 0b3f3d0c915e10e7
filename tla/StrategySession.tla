--------------------------- MODULE StrategySession ---------------------------
(***************************************************************************)
(* One user's strategy runs: the persisted run row of each network, the    *)
(* pending-cleanup records of unconfirmed stops, and what the runs have    *)
(* resting on the venue, driven by three kinds of actor that interleave at *)
(* every database or venue call:                                           *)
(*   - the user thread (Start, Stop, /stop_all, network switch; the update *)
(*     serializer admits one operation of a user at a time),               *)
(*   - one strategy worker per network (handle_strategy_job, serialized by *)
(*     the job lock of the user and the network),                          *)
(*   - the boot stand-down after a restart.                                *)
(* Single-perp strategies (grid, rgrid, dgrid, mid).  A run is one         *)
(* strategy session: started once, on one network, for one product.        *)
(***************************************************************************)
EXTENDS Naturals

CONSTANTS
    Networks,    \* the venue networks (mainnet, testnet)
    User,        \* the user thread, as a stopping actor
    Runs,        \* strategy sessions the user may start
    NoRun,       \* "no strategy in the row"
    NetOf,       \* the network a run is started on
    ProductOf,   \* the product a run quotes
    Laddering,   \* the runs that also arm venue trigger orders (rgrid, dgrid)
    MaxRestarts  \* bound on process restarts

ASSUME NoRunAssumption == NoRun \notin Runs
ASSUME UserAssumption == User \notin Networks
ASSUME NetOfAssumption == NetOf \in [Runs -> Networks]
ASSUME MaxRestartsAssumption == MaxRestarts \in Nat

Actors == Networks \cup {User}   \* a network stands for its worker

VARIABLES
    active,    \* users.network_mode
    row,       \* bot_state row of each network: its run and its running flag
    sessions,  \* strategy_sessions rows with status running
    used,      \* runs already started
    records,   \* pending-cleanup rows (strategy_cleanup:...:{run_id})
    orders,    \* <<run, network>> with a resting order on that network's book
    rungs,     \* <<run, network>> with an armed entry trigger
    user,      \* the user thread
    worker,    \* the strategy worker of each network
    stop,      \* the stop each actor is carrying out
    boot,      \* the boot stand-down of each network
    escaped,   \* history: runs a named gap put out of reach of every stop
    restarts

vars == <<active, row, sessions, used, records, orders, rungs, user, worker,
          stop, boot, escaped, restarts>>

venue == <<orders, rungs>>
db == <<active, row, sessions, used, records>>

Items == Runs \X Networks
OptRun == Runs \cup {NoRun}
Row == [run : OptRun, running : BOOLEAN]

UserPcs == {"idle", "save", "kick", "rollback", "stopSave", "stopping", "list",
            "retry", "sweepEntry", "fallback", "flip"}
WorkerPcs == {"idle", "loaded", "client", "cycle", "rails", "save", "stopping",
              "standDown", "hb", "hbSave"}
StopPcs == {"none", "record", "engine", "close", "sweep", "end"}

UserState == [pc : UserPcs, net : Networks, run : OptRun, todo : SUBSET Runs,
              ok : BOOLEAN, switch : BOOLEAN, pending : BOOLEAN, quiet : BOOLEAN]
WorkerState == [pc : WorkerPcs, run : OptRun, safety : BOOLEAN,
                client : Networks, copy : Row]
StopState == [pc : StopPcs, run : OptRun, net : Networks,
              engine : BOOLEAN, close : BOOLEAN, sweep : BOOLEAN]
BootState == [pc : {"done", "todo", "swept"}, run : OptRun, ok : BOOLEAN]

NoRow == [run |-> NoRun, running |-> FALSE]
\* user.quiet: no worker step on the network being left since the switch read it
IdleUser(n) == [pc |-> "idle", net |-> n, run |-> NoRun, todo |-> {},
                ok |-> TRUE, switch |-> FALSE, pending |-> FALSE, quiet |-> FALSE]
IdleWorker(n) == [pc |-> "idle", run |-> NoRun, safety |-> FALSE,
                  client |-> n, copy |-> NoRow]
NoStop(n) == [pc |-> "none", run |-> NoRun, net |-> n,
              engine |-> TRUE, close |-> FALSE, sweep |-> FALSE]
BootDone == [pc |-> "done", run |-> NoRun, ok |-> TRUE]

TypeOK ==
    /\ active \in Networks
    /\ row \in [Networks -> Row]
    /\ sessions \in SUBSET Runs
    /\ used \in SUBSET Runs
    /\ records \in SUBSET Runs
    /\ orders \in SUBSET Items
    /\ rungs \in SUBSET Items
    /\ user \in UserState
    /\ worker \in [Networks -> WorkerState]
    /\ stop \in [Actors -> StopState]
    /\ boot \in [Networks -> BootState]
    /\ escaped \in SUBSET Runs
    /\ restarts \in 0..MaxRestarts

Init ==
    /\ active \in Networks
    /\ row = [n \in Networks |-> NoRow]
    /\ sessions = {} /\ used = {} /\ records = {}
    /\ orders = {} /\ rungs = {}
    /\ user = IdleUser(active)
    /\ worker = [n \in Networks |-> IdleWorker(n)]
    /\ stop = [a \in Actors |-> NoStop(IF a = User THEN active ELSE a)]
    /\ boot = [n \in Networks |-> BootDone]
    /\ escaped = {}
    /\ restarts = 0

-----------------------------------------------------------------------------
(* Shared vocabulary *)

Resting == orders \cup rungs
Rests(r) == \E n \in Networks : <<r, n>> \in Resting
RowRuns(n, r) == row[n].running /\ row[n].run = r
RecordsOn(n) == {r \in records : NetOf[r] = n}
BootFinished == \A n \in Networks : boot[n].pc = "done"

\* A cancel scoped to S: confirmed only when the book is read back clear, so a
\* failed one may have left any part of S resting (DENIED is not EMPTY).
Cancel(S, ok) ==
    \E kept \in SUBSET S : /\ ok => kept = {}
                           /\ orders' = (orders \ S) \cup kept
Disarm(S, ok) ==
    \E kept \in SUBSET S : /\ ok => kept = {}
                           /\ rungs' = (rungs \ S) \cup kept

\* every resting order on the run's product: the scope of the Stop's sweep
OnProduct(n, r) ==
    {x \in orders : x[2] = n /\ ProductOf[x[1]] = ProductOf[r]}

\* _save_state is an unconditional upsert: it may overwrite the row of a run
\* other than the one the writer knows (keep), which then has nothing to stop it.
SaveRow(n, r, running) == row' = [row EXCEPT ![n] = [run |-> r, running |-> running]]
Displaced(n, keep) ==
    {q \in Runs : RowRuns(n, q) /\ q # keep /\ Rests(q)}
\* a save of running = TRUE over a row that no longer runs r re-arms it
Rearmed(n, r) == {q \in {r} : ~RowRuns(n, r)}

\* The engine cycle of run r through a client of network c: builds or ticks the
\* controller, which may place orders and arm triggers, or does neither.  It
\* never re-reads the row; what it places for a run whose row was cleared, on
\* another network, or behind the boot sweep, no stop knows of.
Place(r, c) ==
    \E o, g \in SUBSET {<<r, c>>} :
        /\ g # {} => r \in Laddering
        /\ orders' = orders \cup o
        /\ rungs' = rungs \cup g
        /\ escaped' = escaped \cup
              {q \in {r} : /\ o \cup g # {}
                           /\ \/ c # NetOf[r]
                              \/ ~RowRuns(c, r)
                              \/ boot[c].pc = "swept" /\ boot[c].run = r}

\* the runs an actor has cleared from the row but not finished stopping
Held(a, r) == stop[a].pc # "none" /\ stop[a].run = r
StandingDown(n, r) == worker[n].pc = "standDown" /\ worker[n].run = r
InStop(r) == \/ \E a \in Actors : Held(a, r)
             \/ \E n \in Networks : StandingDown(n, r)

BeginStop(a, n, r) ==
    stop' = [stop EXCEPT ![a] = [pc |-> "record", run |-> r, net |-> n,
                                 engine |-> TRUE, close |-> FALSE, sweep |-> FALSE]]

-----------------------------------------------------------------------------
(* Start: start_user_bot *)

\* Supersede the network's open sessions and create this run's.  There is no
\* check that a run is already running; the resting-order guard reads a failed
\* read as an empty book, so it excludes no state.
StartCreate(r) ==
    /\ user.pc = "idle" /\ BootFinished
    /\ r \notin used /\ NetOf[r] = active
    /\ used' = used \cup {r}
    /\ sessions' = {q \in sessions : NetOf[q] # active} \cup {r}
    /\ user' = [IdleUser(active) EXCEPT !.pc = "save", !.run = r]
    /\ UNCHANGED <<active, row, records, venue, worker, stop, boot, escaped, restarts>>

\* fail closed: without its session record the run is saved as not running
StartSave ==
    /\ user.pc = "save"
    /\ \E created \in BOOLEAN :
         /\ SaveRow(user.net, user.run, created)
         /\ sessions' = IF created THEN sessions ELSE sessions \ {user.run}
         /\ user' = IF created THEN [user EXCEPT !.pc = "kick"] ELSE IdleUser(active)
    /\ escaped' = escaped \cup Displaced(user.net, user.run)
    /\ UNCHANGED <<active, used, records, venue, worker, stop, boot, restarts>>

\* The eager kickoff runs one engine cycle outside the job lock; a throw or a
\* missing client leaves the run to the scheduler, a failed start is rolled back.
StartKick ==
    /\ user.pc = "kick"
    /\ Place(user.run, user.net)
    /\ \/ user' = IdleUser(active)
       \/ user' = [user EXCEPT !.pc = "rollback"]
    /\ UNCHANGED <<db, worker, stop, boot, restarts>>

\* engine stop, finalize, running = False, save: no record, no cancel sweep
StartRollback ==
    /\ user.pc = "rollback"
    /\ LET r == user.run
           own == {<<r, n>> : n \in Networks} IN
       /\ Cancel(orders \cap own, FALSE)
       /\ Disarm(rungs \cap own, FALSE)
       /\ SaveRow(user.net, r, FALSE)
       /\ sessions' = sessions \ {r}
       /\ escaped' = escaped \cup Displaced(user.net, r) \cup
             {q \in {r} : (orders' \cup rungs') \cap own # {}}
    /\ user' = IdleUser(active)
    /\ UNCHANGED <<active, used, records, worker, stop, boot, restarts>>

-----------------------------------------------------------------------------
(* Stop, /stop_all and the stop half of the network switch *)

\* Stop reads the active network's row, /stop_all every network's.  A row that
\* is not running turns the stop into a retry of the recorded cleanups.
StopRequest(n) ==
    /\ user.pc = "idle" /\ BootFinished
    /\ row[n].run # NoRun
    /\ user' = [IdleUser(n) EXCEPT
                  !.pc = IF row[n].running THEN "stopSave" ELSE "list",
                  !.run = row[n].run]
    /\ UNCHANGED <<db, venue, worker, stop, boot, escaped, restarts>>

\* switch_network reads the row and the records of the source network first
SwitchRequest ==
    /\ user.pc = "idle" /\ BootFinished
    /\ LET pending == RecordsOn(active) # {} IN
       user' = [IdleUser(active) EXCEPT
                  !.pc = IF row[active].running THEN "stopSave"
                         ELSE IF pending THEN "list" ELSE "flip",
                  !.run = row[active].run, !.switch = TRUE, !.pending = pending, !.quiet = TRUE]
    /\ UNCHANGED <<db, venue, worker, stop, boot, escaped, restarts>>

StopSave ==
    /\ user.pc = "stopSave"
    /\ SaveRow(user.net, user.run, FALSE)
    /\ sessions' = sessions \ {user.run}
    /\ escaped' = escaped \cup Displaced(user.net, user.run)
    /\ BeginStop(User, user.net, user.run)
    /\ user' = [user EXCEPT !.pc = "stopping"]
    /\ UNCHANGED <<active, used, records, venue, worker, boot, restarts>>

ListEntries ==
    /\ user.pc = "list"
    /\ \E readable \in BOOLEAN :
         LET todo == IF readable THEN RecordsOn(user.net) ELSE {} IN
         user' = CASE todo # {} -> [user EXCEPT !.pc = "retry", !.todo = todo]
                   [] todo = {} /\ ~user.switch -> [user EXCEPT !.pc = "fallback"]
                   [] todo = {} /\ user.switch /\ readable -> [user EXCEPT !.pc = "flip"]
                   [] OTHER -> IdleUser(active)
    /\ UNCHANGED <<db, venue, worker, stop, boot, escaped, restarts>>

\* The trigger sweep of the user's stops is skipped, and counted as done, when
\* the user's client cannot be had; the worker's runs on the cycle's client.
SweptNets(a, n) == IF a = User THEN {{n}, {}} ELSE {{worker[n].client}}
SweepEscapes(r, n, nets) == {q \in {r} : n \notin nets /\ <<r, n>> \in rungs}
SweepTriggers(a, r, n, ok) ==
    \/ ~ok /\ Disarm(rungs \cap {<<r, n>>}, FALSE) /\ UNCHANGED escaped
    \/ /\ ok
       /\ \E nets \in SweptNets(a, n) :
            /\ rungs' = rungs \ {<<r, m>> : m \in nets}
            /\ escaped' = escaped \cup SweepEscapes(r, n, nets)

RetryEntry ==
    /\ user.pc = "retry"
    /\ \E r \in user.todo, ok \in BOOLEAN :
         /\ Cancel(OnProduct(user.net, r), ok)
         /\ user' = [user EXCEPT !.pc = "sweepEntry", !.run = r,
                                 !.todo = @ \ {r}, !.pending = ok]
    /\ UNCHANGED <<db, rungs, worker, stop, boot, escaped, restarts>>

\* user.pending: the entry's cancel was confirmed; user.ok: every entry was
SweepEntry ==
    /\ user.pc = "sweepEntry"
    /\ \E swept, deleted \in BOOLEAN :
         LET done == user.pending /\ swept /\ deleted
             ok == user.ok /\ done IN
         /\ SweepTriggers(User, user.run, user.net, swept)
         /\ records' = IF done THEN records \ {user.run} ELSE records
         /\ user' = CASE user.todo # {} -> [user EXCEPT !.pc = "retry", !.ok = ok]
                      [] user.todo = {} /\ user.switch /\ ok ->
                            [user EXCEPT !.pc = "flip"]
                      [] OTHER -> IdleUser(active)
    /\ UNCHANGED <<active, row, sessions, used, orders, worker, stop, boot,
                   restarts>>

\* no record: the product-scoped sweep of the saved run
Fallback ==
    /\ user.pc = "fallback"
    /\ Cancel(OnProduct(user.net, user.run), FALSE)
    /\ Disarm(rungs \cap {<<user.run, user.net>>}, FALSE)
    /\ user' = IdleUser(active)
    /\ UNCHANGED <<db, worker, stop, boot, escaped, restarts>>

Flip ==
    /\ user.pc = "flip"
    /\ active' \in Networks    \* the old network again: the write failed
    /\ user' = IdleUser(active)
    /\ UNCHANGED <<row, sessions, used, records, venue, worker, stop, boot,
                   escaped, restarts>>

-----------------------------------------------------------------------------
(* The stop sequence, after running = False was saved: pending_cleanup.begin, *)
(* engine stop, order cancel, trigger sweep, pending_cleanup.end.  The user's *)
(* stops are scoped to the run's product; the worker's rails close the whole  *)
(* book of the network and ignore a failed engine stop.                       *)

\* A worker step is a step of the network it works on.
Disturb(n) == user' = [user EXCEPT !.quiet = user.quiet /\ user.net # n]
ByActor(a) == IF a = User THEN UNCHANGED user ELSE Disturb(a)

\* begin never raises: when the write fails the stop goes on without it
StopRecord(a) ==
    /\ stop[a].pc = "record"
    /\ records' \in {records, records \cup {stop[a].run}}
    /\ stop' = [stop EXCEPT ![a] = [@ EXCEPT !.pc = "engine"]]
    /\ ByActor(a)
    /\ UNCHANGED <<active, row, sessions, used, venue, worker, boot, escaped,
                   restarts>>

\* Cancels what the controller's live executors own, or, with no controller in
\* this process, the product's orders; a failed executor's orders stay.
StopEngine(a) ==
    /\ stop[a].pc = "engine"
    /\ LET r == stop[a].run
           own == {<<r, n>> : n \in Networks} IN
       /\ Cancel((orders \cap own) \cup OnProduct(stop[a].net, r), FALSE)
       /\ Disarm(rungs \cap own, FALSE)
    /\ \E ok \in BOOLEAN :
         stop' = [stop EXCEPT ![a] = [@ EXCEPT !.pc = "close",
                                               !.engine = ok \/ a # User]]
    /\ ByActor(a)
    /\ UNCHANGED <<db, worker, boot, escaped, restarts>>

CloseScope(a) == IF a = User THEN OnProduct(stop[a].net, stop[a].run)
                 ELSE {x \in orders : x[2] = stop[a].net}

StopClose(a) ==
    /\ stop[a].pc = "close"
    /\ \E ok \in BOOLEAN :
         /\ Cancel(CloseScope(a), ok)
         /\ stop' = [stop EXCEPT ![a] = [@ EXCEPT !.pc = "sweep", !.close = ok]]
    /\ ByActor(a)
    /\ UNCHANGED <<db, rungs, worker, boot, escaped, restarts>>

StopSweep(a) ==
    /\ stop[a].pc = "sweep"
    /\ \E ok \in BOOLEAN :
         /\ SweepTriggers(a, stop[a].run, stop[a].net, ok)
         /\ stop' = [stop EXCEPT ![a] = [@ EXCEPT !.pc = "end", !.sweep = ok]]
    /\ ByActor(a)
    /\ UNCHANGED <<db, orders, worker, boot, restarts>>

Confirmed(a) == stop[a].engine /\ stop[a].close /\ stop[a].sweep

\* mutant: end deletes the record whatever the stop achieved
EndRecordsAlwaysDeletes(r, done, written) ==
    /\ records' = IF ~written THEN records ELSE records \ {r}
    /\ escaped' = escaped \cup
          {q \in {r} : ~written /\ ~done /\ r \notin records /\ Rests(r)}

\* end: delete the record of a confirmed stop, keep the other's; never raises
EndRecords(r, done, written) ==
    /\ records' = IF ~written THEN records
                  ELSE IF done THEN records \ {r} ELSE records \cup {r}
    /\ escaped' = escaped \cup
          {q \in {r} : ~written /\ ~done /\ r \notin records /\ Rests(r)}

\* mutant: the switch goes on whatever the stop reported
StopEndUserFlips ==
    /\ stop[User].pc = "end"
    /\ \E written \in BOOLEAN : EndRecords(stop[User].run, Confirmed(User), written)
    /\ stop' = [stop EXCEPT ![User] = NoStop(active)]
    /\ user' = IF user.switch
               THEN [user EXCEPT !.pc = IF user.pending THEN "list" ELSE "flip"]
               ELSE IdleUser(active)
    /\ UNCHANGED <<active, row, sessions, used, venue, worker, boot, restarts>>

StopEndUser ==
    /\ stop[User].pc = "end"
    /\ \E written \in BOOLEAN : EndRecords(stop[User].run, Confirmed(User), written)
    /\ stop' = [stop EXCEPT ![User] = NoStop(active)]
    /\ user' = IF user.switch /\ Confirmed(User)
               THEN [user EXCEPT !.pc = IF user.pending THEN "list" ELSE "flip"]
               ELSE IdleUser(active)
    /\ UNCHANGED <<active, row, sessions, used, venue, worker, boot, restarts>>

StopEndWorker(n) ==
    /\ stop[n].pc = "end"
    /\ \E written \in BOOLEAN : EndRecords(stop[n].run, Confirmed(n), written)
    /\ stop' = [stop EXCEPT ![n] = NoStop(n)]
    /\ worker' = [worker EXCEPT ![n] = [@ EXCEPT !.pc = "hb"]]
    /\ Disturb(n)
    /\ UNCHANGED <<active, row, sessions, used, venue, boot, restarts>>

-----------------------------------------------------------------------------
(* The strategy worker of network n: handle_strategy_job and _run_cycle *)

\* The row is loaded once; the cycle works on that copy.  The safety poll is
\* armed only after the boot stand-down, a fill nudge may come before.
JobStart(n, safety) ==
    /\ worker[n].pc = "idle" /\ row[n].running
    /\ safety => BootFinished
    /\ worker' = [worker EXCEPT ![n] = [IdleWorker(n) EXCEPT
                    !.pc = "loaded", !.run = row[n].run, !.safety = safety]]
    /\ Disturb(n)
    /\ UNCHANGED <<db, venue, stop, boot, escaped, restarts>>

\* maintenance pause: save the copy and end the cycle
CyclePaused(n) ==
    /\ worker[n].pc = "loaded"
    /\ worker' = [worker EXCEPT ![n] = [@ EXCEPT !.pc = "save"]]
    /\ Disturb(n)
    /\ UNCHANGED <<db, venue, stop, boot, escaped, restarts>>

CheckNetwork(n) ==
    /\ worker[n].pc = "loaded"
    /\ Disturb(n)
    /\ \/ /\ active = n
          /\ worker' = [worker EXCEPT ![n] = [@ EXCEPT !.pc = "client"]]
          /\ UNCHANGED <<row, sessions, escaped>>
       \/ /\ active # n
          /\ SaveRow(n, worker[n].run, FALSE)
          /\ sessions' = sessions \ {worker[n].run}
          /\ escaped' = escaped \cup Displaced(n, worker[n].run)
          /\ worker' = [worker EXCEPT ![n] = [@ EXCEPT !.pc = "standDown"]]
    /\ UNCHANGED <<active, used, records, venue, stop, boot, restarts>>

\* pending_cleanup.record_failed: the stand-down cancels nothing itself
StandDownRecord(n) ==
    /\ worker[n].pc = "standDown"
    /\ \E written \in BOOLEAN : EndRecords(worker[n].run, FALSE, written)
    /\ worker' = [worker EXCEPT ![n] = [@ EXCEPT !.pc = "hb"]]
    /\ Disturb(n)
    /\ UNCHANGED <<active, row, sessions, used, venue, stop, boot, restarts>>

\* the client is that of the network active now, not of the job's network
GetClient(n) ==
    /\ worker[n].pc = "client"
    /\ worker' = [worker EXCEPT ![n] = [@ EXCEPT
                    !.client = active,
                    !.pc = IF worker[n].safety THEN "rails" ELSE "cycle"]]
    /\ Disturb(n)
    /\ UNCHANGED <<db, venue, stop, boot, escaped, restarts>>

EngineCycle(n) ==
    /\ worker[n].pc = "cycle"
    /\ Place(worker[n].run, worker[n].client)
    /\ worker' = [worker EXCEPT ![n] = [@ EXCEPT !.pc = "rails"]]
    /\ Disturb(n)
    /\ UNCHANGED <<db, stop, boot, restarts>>

\* No rail fires, or a session rail (duration, stop-loss, take-profit) or the
\* stale-session check does: finalize, running = False, save.
RailsPass(n) ==
    /\ worker[n].pc = "rails" /\ worker[n].run \in sessions
    /\ worker' = [worker EXCEPT ![n] = [@ EXCEPT
                    !.pc = IF worker[n].safety THEN "hb" ELSE "save"]]
    /\ Disturb(n)
    /\ UNCHANGED <<db, venue, stop, boot, escaped, restarts>>

\* mutant: the rail stops the session but does not save running = False
RailTripsUnsaved(n) ==
    /\ worker[n].pc = "rails"
    /\ sessions' = sessions \ {worker[n].run}
    /\ BeginStop(n, n, worker[n].run)
    /\ worker' = [worker EXCEPT ![n] = [@ EXCEPT !.pc = "stopping"]]
    /\ Disturb(n)
    /\ UNCHANGED <<active, row, used, records, venue, boot, escaped, restarts>>

RailTrips(n) ==
    /\ worker[n].pc = "rails"
    /\ SaveRow(n, worker[n].run, FALSE)
    /\ sessions' = sessions \ {worker[n].run}
    /\ escaped' = escaped \cup Displaced(n, worker[n].run)
    /\ BeginStop(n, n, worker[n].run)
    /\ worker' = [worker EXCEPT ![n] = [@ EXCEPT !.pc = "stopping"]]
    /\ Disturb(n)
    /\ UNCHANGED <<active, used, records, venue, boot, restarts>>

\* The cycle saves the copy it loaded, running flag included: before the engine
\* cycle (reference price, TWAP pause), after it (telemetry), in the rails
\* (duration target, venue stop) and at its end.
CycleSave(n) ==
    /\ worker[n].pc \in {"cycle", "rails", "save"}
    /\ SaveRow(n, worker[n].run, TRUE)
    /\ escaped' = escaped \cup Displaced(n, worker[n].run) \cup Rearmed(n, worker[n].run)
    /\ worker' = [worker EXCEPT ![n] = [@ EXCEPT
                    !.pc = IF worker[n].pc = "save" THEN "hb" ELSE worker[n].pc]]
    /\ Disturb(n)
    /\ UNCHANGED <<active, sessions, used, records, venue, stop, boot, restarts>>

\* An exception or the cycle timeout ends the cycle at any of its awaits; in a
\* stop it leaves the rest undone, with the record if one was written.
CycleAborts(n) ==
    /\ worker[n].pc \in WorkerPcs \ {"idle", "hb", "hbSave"}
    /\ escaped' = escaped \cup {r \in Runs : /\ Held(n, r) \/ StandingDown(n, r)
                                             /\ r \notin records /\ Rests(r)}
    /\ stop' = [stop EXCEPT ![n] = NoStop(n)]
    /\ worker' = [worker EXCEPT ![n] = [@ EXCEPT !.pc = "hb"]]
    /\ Disturb(n)
    /\ UNCHANGED <<db, venue, boot, restarts>>

\* The heartbeat (and the error mark) reloads the row and saves it back.
HeartbeatLoad(n) ==
    /\ worker[n].pc = "hb"
    /\ worker' = [worker EXCEPT ![n] = [@ EXCEPT !.pc = "hbSave", !.copy = row[n]]]
    /\ Disturb(n)
    /\ UNCHANGED <<db, venue, stop, boot, escaped, restarts>>

HeartbeatSave(n) ==
    /\ worker[n].pc = "hbSave"
    /\ LET c == worker[n].copy IN
       /\ SaveRow(n, c.run, c.running)
       /\ escaped' = escaped \cup Displaced(n, IF c.running THEN c.run ELSE NoRun)
                             \cup (IF c.running THEN Rearmed(n, c.run) ELSE {})
    /\ worker' = [worker EXCEPT ![n] = IdleWorker(n)]
    /\ Disturb(n)
    /\ UNCHANGED <<active, sessions, used, records, venue, stop, boot, restarts>>

-----------------------------------------------------------------------------
(* The venue and the process *)

\* a resting order fills, or an armed rung fires
Fill == /\ \E x \in Resting : orders' = orders \ {x} /\ rungs' = rungs \ {x}
        /\ UNCHANGED <<db, user, worker, stop, boot, escaped, restarts>>

\* mutant: boot lists every row, also the ones with no strategy
RestartListsAll ==
    /\ restarts < MaxRestarts
    /\ restarts' = restarts + 1
    /\ user' = IdleUser(active)
    /\ worker' = [n \in Networks |-> IdleWorker(n)]
    /\ stop' = [a \in Actors |-> NoStop(IF a = User THEN active ELSE a)]
    /\ boot' = [n \in Networks |-> [pc |-> "todo", run |-> row[n].run, ok |-> TRUE]]
    /\ escaped' = escaped \cup {r \in Runs : InStop(r) /\ r \notin records /\ Rests(r)}
    /\ UNCHANGED <<db, venue>>

\* The process dies and comes up again: the row, the sessions, the records and
\* the venue survive; boot lists the rows that are running.
Restart ==
    /\ restarts < MaxRestarts
    /\ restarts' = restarts + 1
    /\ user' = IdleUser(active)
    /\ worker' = [n \in Networks |-> IdleWorker(n)]
    /\ stop' = [a \in Actors |-> NoStop(IF a = User THEN active ELSE a)]
    /\ boot' = [n \in Networks |-> IF row[n].running
                                   THEN [pc |-> "todo", run |-> row[n].run, ok |-> TRUE]
                                   ELSE BootDone]
    /\ escaped' = escaped \cup {r \in Runs : InStop(r) /\ r \notin records /\ Rests(r)}
    /\ UNCHANGED <<db, venue>>

\* _boot_stand_down_one: cancel-only; a trigger sweep that raises is only
\* logged, a cancel that raises leaves the row as it is.
BootSweep(n) ==
    /\ boot[n].pc = "todo"
    /\ LET r == boot[n].run IN
       \/ \E cancelled \in BOOLEAN, sweep \in {"ok", "failed", "raised"} :
            /\ Cancel(OnProduct(n, r), cancelled)
            /\ Disarm(rungs \cap {<<r, n>>}, sweep = "ok")
            /\ escaped' = escaped \cup
                  {q \in {r} : sweep = "raised" /\ cancelled /\ <<r, n>> \in rungs'}
            /\ boot' = [boot EXCEPT ![n] = [@ EXCEPT !.pc = "swept",
                                    !.ok = cancelled /\ sweep # "failed"]]
       \/ boot' = [boot EXCEPT ![n] = BootDone] /\ UNCHANGED <<venue, escaped>>
    /\ UNCHANGED <<db, user, worker, stop, restarts>>

BootSave(n) ==
    /\ boot[n].pc = "swept"
    /\ LET r == boot[n].run IN
       /\ SaveRow(n, r, FALSE)
       /\ sessions' = sessions \ {r}
       /\ \E written \in BOOLEAN :
            /\ records' = IF ~boot[n].ok /\ written THEN records \cup {r} ELSE records
            /\ escaped' = escaped \cup Displaced(n, r) \cup
                  {q \in {r} : ~boot[n].ok /\ ~written /\ r \notin records /\ Rests(r)}
    /\ boot' = [boot EXCEPT ![n] = BootDone]
    /\ UNCHANGED <<active, used, venue, user, worker, stop, restarts>>

-----------------------------------------------------------------------------

UserNext ==
    \/ \E r \in Runs : StartCreate(r)
    \/ StartSave \/ StartKick \/ StartRollback
    \/ \E n \in Networks : StopRequest(n)
    \/ SwitchRequest \/ StopSave \/ ListEntries \/ RetryEntry \/ SweepEntry
    \/ Fallback \/ Flip \/ StopEndUser

StopNext(a) == StopRecord(a) \/ StopEngine(a) \/ StopClose(a) \/ StopSweep(a)

WorkerNext(n) ==
    \/ \E safety \in BOOLEAN : JobStart(n, safety)
    \/ CyclePaused(n) \/ CheckNetwork(n) \/ StandDownRecord(n) \/ GetClient(n)
    \/ EngineCycle(n) \/ RailsPass(n) \/ RailTrips(n) \/ CycleSave(n)
    \/ CycleAborts(n) \/ HeartbeatLoad(n) \/ HeartbeatSave(n) \/ StopEndWorker(n)

Next ==
    \/ UserNext
    \/ \E a \in Actors : StopNext(a)
    \/ \E n \in Networks : WorkerNext(n) \/ BootSweep(n) \/ BootSave(n)
    \/ Fill \/ Restart

Spec == Init /\ [][Next]_vars

\* The scheduler and the 15 s safety poll keep enqueueing jobs for a running row
\* and the event loop runs every job on; exceptions, timeouts and the trading
\* pause may recur but do not win forever (strong fairness of the steps they
\* pre-empt); the boot stand-down is awaited by main before polling starts.
WorkerFairness(n) ==
    /\ WF_vars(\E safety \in BOOLEAN : JobStart(n, safety))
    /\ WF_vars(StopNext(n)) /\ WF_vars(StopEndWorker(n))
    /\ WF_vars(StandDownRecord(n)) /\ WF_vars(RailsPass(n))
    /\ WF_vars(worker[n].pc = "save" /\ CycleSave(n))
    /\ WF_vars(HeartbeatLoad(n)) /\ WF_vars(HeartbeatSave(n))
    /\ SF_vars(CheckNetwork(n)) /\ SF_vars(GetClient(n)) /\ SF_vars(EngineCycle(n))
    /\ SF_vars(worker[n].run \notin sessions /\ RailTrips(n))
    /\ WF_vars(BootSweep(n)) /\ WF_vars(BootSave(n))

FairSpec == Spec /\ \A n \in {NetOf[r] : r \in Runs} : WorkerFairness(n)

-----------------------------------------------------------------------------
(* Properties *)

\* Nothing rests on the venue without an owner: every run with an order or an
\* entry trigger resting is running in its row, or recorded as a pending
\* cleanup, or being stopped by an actor right now - unless one of the gaps
\* that add to escaped put it out of reach.  (pending_cleanup, every stop path)
Tracked ==
    \A r \in Runs : Rests(r) =>
        \/ r \in escaped
        \/ \E n \in Networks : RowRuns(n, r)
        \/ r \in records
        \/ InStop(r)

\* The strengthening that makes Tracked inductive.  An actor carries out a stop
\* only while its own control is there, so it never overwrites one.
OneStopEach ==
    /\ stop[User].pc # "none" => user.pc = "stopping"
    /\ \A n \in Networks : stop[n].pc # "none" => worker[n].pc = "stopping"

\* On(r, n): an optional run is a run of network n
On(r, n) == r \in Runs /\ NetOf[r] = n
RunsOnTheirNetwork ==
    /\ \A n \in Networks :
         /\ row[n].run = NoRun \/ On(row[n].run, n)
         /\ row[n].running => On(row[n].run, n)
         /\ worker[n].pc # "idle" => On(worker[n].run, n)
         /\ worker[n].copy.run = NoRun \/ On(worker[n].copy.run, n)
         /\ worker[n].copy.running => On(worker[n].copy.run, n)
         /\ boot[n].pc # "done" => On(boot[n].run, n)
    /\ \A a \in Actors : stop[a].pc # "none" => On(stop[a].run, stop[a].net)
    /\ user.pc \in {"save", "kick", "rollback", "stopSave", "sweepEntry"} =>
         On(user.run, user.net)
    /\ user.todo \subseteq {r \in Runs : NetOf[r] = user.net}

\* a run not started yet, or started but not saved, is known to nobody
Fresh(r) == r \notin used \/ (user.pc = "save" /\ user.run = r)
Unknown(r) ==
    /\ r \notin records /\ r \notin user.todo
    /\ ~(user.pc # "save" /\ user.run = r)
    /\ \A n \in Networks : /\ row[n].run # r /\ worker[n].run # r
                           /\ worker[n].copy.run # r /\ boot[n].run # r
    /\ \A a \in Actors : stop[a].run # r
FreshUnknown == /\ user.pc = "save" => user.run \in used
                /\ \A r \in Runs : Fresh(r) => Unknown(r)

\* what rests away from its run's network has escaped
NoStray == \A x \in Resting : x[2] = NetOf[x[1]] \/ x[1] \in escaped

\* once a stop cleared its flag, a run runs again only by escaping
StopBegun(r) == \/ r \in records \/ InStop(r) \/ r \in user.todo
                \/ user.pc = "sweepEntry" /\ user.run = r
StoppedStaysStopped ==
    \A r \in Runs : StopBegun(r) => r \in escaped \/ ~RowRuns(NetOf[r], r)

\* a confirmed cancel or sweep stays true until the stop, the retry or the boot
\* stand-down that relies on it is over
ConfirmedStaysClear ==
    /\ \A a \in Actors :
         /\ stop[a].pc \in {"sweep", "end"} /\ stop[a].close =>
              <<stop[a].run, stop[a].net>> \notin orders \/ stop[a].run \in escaped
         /\ stop[a].pc = "end" /\ stop[a].sweep =>
              <<stop[a].run, stop[a].net>> \notin rungs \/ stop[a].run \in escaped
    /\ user.pc = "sweepEntry" /\ user.pending =>
         <<user.run, user.net>> \notin orders \/ user.run \in escaped
    /\ \A n \in Networks : boot[n].pc = "swept" /\ boot[n].ok =>
         <<boot[n].run, n>> \notin Resting \/ boot[n].run \in escaped

IndInv == /\ TypeOK /\ OneStopEach /\ RunsOnTheirNetwork /\ FreshUnknown
          /\ NoStray /\ StoppedStaysStopped /\ ConfirmedStaysClear /\ Tracked

\* The switch is fail-closed: when no job of the network being left ran since
\* switch_network read it, the flip leaves nothing resting there but runs that
\* had escaped before or that a rail was already stopping.
SwitchFailClosed ==
    [][\A r \in Runs :
         active' # active /\ user.quiet /\ Rests(r) /\ NetOf[r] = active =>
             r \in escaped \/ Held(active, r) \/ StandingDown(active, r)]_vars

\* the row runs on a network the user left, or for a session that was closed
StaleRow(n) == row[n].running /\ (n # active \/ row[n].run \notin sessions)
\* A row left running on the other network, or re-armed for a closed session by a
\* stale save after its stop, is stood down by its own jobs (_run_cycle).
StaleRowStandsDown ==
    \A n \in {NetOf[r] : r \in Runs} : StaleRow(n) ~> ~StaleRow(n)
=============================================================================
