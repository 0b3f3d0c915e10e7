# Nadobro bot: TLA+ models of the trading core

Nadobro is a Telegram bot that trades on the Nado exchange for its users: market
making and grid strategies that run unattended, one-line "desk" trade plans,
copy trading, stop-losses and vaults, on testnet and mainnet. One asyncio process
serves every user, its durable state is a Postgres database, and everything that
matters rests somewhere else, in the order book of the venue. What makes the code
hard is that gap: a row says that nothing runs while orders rest, a cycle works
with a row it read before the user pressed Stop, a deploy falls between a
placement and the write that records it. These modules model the parts of the
program that have to get that right.

Paths are relative to the repository; `nadobro/` is short for `src/nadobro/`.

## Inventory

| component | state it keeps | operations | interacts with | what is hard |
|---|---|---|---|---|
| strategy sessions (`nadobro/strategy/bot_runtime.py`) | a `bot_state` row per (user, network), session rows | start, stop, stop-all, cycle, heartbeat, rails, boot stand-down | queue, engine runtime, venue, cleanups | read-modify-write of whole rows across awaits; stop during a cycle; crash during a stop |
| pending cleanups (`pending_cleanup.py`) | a record per unconfirmed stop | begin, end, record_failed, retry | every stop path | the record may go only when everything is confirmed |
| network switch (`network_switch.py`) | `users.network_mode` | stop, retry, flip | sessions, cleanups, desk plans | fail-closed while jobs of the old network run |
| strategy jobs (`handle_strategy_job`) | job locks, deferred payloads | lock, coalesce, run, take up the deferred job | queue, sessions | arrival during the last moments of a job; database errors |
| strategy queue (`trading/execution_queue.py`) | jobs and deficits per user | put, get | scheduler, workers | fairness under backlog |
| desk plans (`trading/desk_store.py`, `desk_runtime.py`, `engine/controllers/desk.py`) | plan rows, checkpoints, runs in memory | confirm, cancel, claim, spawn, suspend, exit, checkpoint, recover, stand down | orchestrator, executors, venue | crash between placement and checkpoint; cancel at any point; partial failures |
| executors and orchestrator (`engine/orchestrator.py`, `engine/executors/`) | live executors, their orders and counted fills | spawn, tick, stop | controllers, adapter, inventory | unseen fills, retries with unknown outcome |
| engine runtime (`strategy/engine_runtime.py`) | controllers and orchestrators by key | start, tick, stop | sessions, persistence | start racing a stop of the same key |
| venue adapter, client, sync, budget (`engine/adapter/`, `nadobro/venue/`) | caches, token buckets | place, cancel, read | venue | denied reads are not empty books |
| strategy controllers (`engine/controllers/`) | ladders, legs, anchors | on_tick, on_fill | executors | partial fills, one leg failing |
| copy trading, stop-loss, trade service (`nadobro/trading/`) | mirrors, rules, trades, intents | mirror, fire, open, close | venue, database | retries, duplicates |
| users and handlers (`nadobro/users/`, `nadobro/handlers/`) | user rows and cache, conversation state | commands and callbacks | everything | serialised per user, not against jobs |
| relay (`relay/`) | sessions, events | start, send, poll, close | Telegram | replies of interleaved sessions |
| quant, market data, LLM, portfolio, notifications | numbers, text | pure or read-only | | out of scope |

`PROJECT.json` lists every component with its status, and the hazards with the
line where each bites and the properties that cover it. Where the code does not withstand a hazard, the
hazard has a note instead: the model has the steps, and a property names them as its exception.

## Modules

### `StrategySession`: who owns what rests on the venue

One user, several networks. A *run* is one start of a strategy, with its network
and product. The state is the database (`active` network, `row` per network,
`sessions` still open, `records` of pending cleanups), the venue (`orders`, and
`rungs`: armed entry triggers of laddering runs, both as sets of run and network),
and the control of four kinds of actor: the user's updates, which the bot
serialises (`user`), one strategy job per network (`worker`), the stop that either
of them carries out (`stop`) and the boot stand-down (`boot`).

Every await on the database or the venue that another actor may come in at is a
step boundary. A cycle keeps the `copy` of the row it loaded and saves the whole of
it at the end, the heartbeat loads and saves again, and both can undo a stop.
A cancel that is not confirmed may leave any part of its scope resting. A restart
drops all control and leaves database and venue.

The variable `escaped` is history. The code has gaps by which a run with orders at the venue
gets out of reach of every record; each action at such a gap (a
superseding start, the rollback of an eager start, a save that re-arms or
overwrites a row, a client of the wrong network, a crash
before the record is written) adds the run to `escaped`, and nothing else does. `Tracked` says
that these are the *only* gaps.

### `DeskPlans`: text-to-trade plans over crashes and failing calls

The plans of one user on one network. `status` and `ckpt` are the plan table;
`run` and `ex` the controller's memory; `resting`, `bought`, `sold` the venue, in
whole units. `tick` is where the runner job is: boot stand-down, `_reconcile`, driving the
executors, advancing each run, the pre-spawn checkpoint, the spawn, the final
checkpoint. The user may confirm and cancel between any two of these, the process
may die between any two, and any call named in `Faults` may fail. An executor tells what it has
*seen* from what the venue filled (`unseen`), which is what double counting and
refiring are about. Triggers, prices and schedules are nondeterministic.

### `StrategyPool`: the queue, its workers and the job lock

Composes two components. `FairQueue` is `_FairStrategyQueue` with jobs as counts:
`since` is the order of the dict, which decides ties, and the history variables `passed`
and `owed` count, for each waiting user, the jobs of another taken meanwhile, and how
many the deficits allowed when it came. `StrategyJobs` is `handle_strategy_job`: the lock of
a run, the coalescing of jobs that arrive meanwhile, the loop that takes up the deferred job,
and the exception that leaves the loop when the row cannot be read. In the pool a worker's get
(`_worker_loop`) is a step of both: the queue picks the user, the job is one of that user's
runs, of any kind. What a cycle does is the subject of `StrategySession`.

### `EngineLegs`: executors, their adapter and the venue

What the controllers of the engine quote with. `VenueAdapter` is
`engine/adapter/nado.py` over the client, with the retries of `executor_base._guard` and the
order lifecycle fed by the websocket: orders on the book, their fills, the feed of fills
that may lag, and what the adapter keeps of them (`refs`, the status `cache`, cancels that were
`acked`, the coalesced `snap` of open orders). A call of a leg is one or two steps, the answer
to its first request and the read of the fills that follows; the answer waits in `ret`
until the executor takes it. `cancel_and_place` is one request for two orders, which the venue
may refuse, leave unanswered, or (`"split"`) carry out by half. `OrderExecutor` and `PositionExecutor` are the executors of these
names with what the orchestrator does to them: spawn, tick, stop, stop again when an order may
still rest, adoption and settlement around a replace, prune. `QuoteSlot` is a level of market making
(`_reconcile`): the slot names the executor of the level's quote, and each tick leaves it, quotes an
empty level, stops, replaces, or retries a stop that failed, in any order that prices and budgets could
ask for. `Faults` gives each leg its share of refusals, unanswered placements,
throttles, failed cancels, denied reads, drops by the venue and lag.

`OrderLeg` is the abstract specification: a leg works one order; once it settles nothing of it
is on the book, every unit it traded is counted, and nothing changes afterwards; a leg that gives
up promises neither but says so. `EngineLegs` composes these, for the legs of one of its `Sessions`, and states the refinement:
`LegImplemented` is `OrderLeg` with the phase read off the executor's state and close type, and
`rests`, `traded` off the order it holds. `DeskPlans`' legs are written to the same promise.

### `EngineRuntime`: one controller per run

`engine_runtime.py` for one key: scheduled cycles (`Jobs`), the eager kickoff of a start (`Kicks`),
stops (`Stoppers`), the controller and its executors as instances, the registry (`reg`) that says
which one a tick would use, the executor rows and the batch that writes them. Each await of
`run_engine_cycle`, `EngineRuntime.start`, `tick` and `stop` is a label of `pc`: lock,
decision, stop of the controller that is replaced, `on_start`, ticks, persistence, pruning. A cycle may be
cancelled at any label (`Timeout`), an executor's stop may raise out of the gather, every database
call may fail, the process may restart. `dropped` is history: instances that a stop took
out of the registry although it did not stop them.

### `CopyTrading`: one mirror of a leader

`copy_service.py` for a follower of one leader: the poller's pass over a mirror (read the leader, resolve
pending maker opens, the budget rail, sweep, closes, flips, trims, opens and adds), the maker open with its wait, read-back,
row, recheck of the stop and unwind, the follow-up of orders whose fate is unknown
(`pend`, its copy `saved` in `bot_state`), the flatten of a stop, and the user's start, pause, resume and stop
between any two awaits. Sizes are signed lots. `leader`, `held` and `ord` are the outside; ages count polls. `lost` is history: products
whose exposure the code has let go of by one of the ways listed under *Divergences*.

### `ManualTrades`: submits, fills and stop-losses

Orders that users place by hand, of one user and product. `OrderSubmits` is `execute_market_order`
and `execute_limit_order`: the intent with its window, the row, the placement in a thread that outlives its
timeout, the fill read back, the queue entry for what was not read. `FillSync` is the job
`sync_pending_fills`: claim, archive, open orders, recent orders, write, count, resolve. `StopLoss` is the
scan of armed rules and `close_position`, which the user's own close shares. `ManualTrades` composes them
with restarts. `gap` is history: what went wrong for a trade that the code does not recover from. `at` is the
window of its intent in which a trade was reserved, or went on although the intent was taken.

The `MC` modules give constants their values; the `_proofs` modules hold the
theorems.

## Runs

Passing runs:

| run | instance | shows |
|---|---|---|
| `session_one_net` | 1 network, 2 runs (one laddering), 1 restart | `Tracked`: nothing rests without an owner. Two runs are needed for a start to supersede a run whose stop is still under way |
| `session_switch` | 2 networks, 1 laddering run, fair jobs | `SwitchFailClosed`: the flip leaves nothing behind if no job of the old network ran since the switch read it; `StaleRowStandsDown`: a row re-armed after its stop, or left on the other network, does not run for ever |
| `desk_recovery` | limit order and maker TWAP of 2 units, 1 resumed restart; database, status reads and placements failing | `OneShotOnce`, `FillsAreReal`. One slice may fill before, one after the crash |
| `desk_redeploy` | market order with an exit and taker TWAP, 2 restarts, default redeploy contract, every call failing | `NoTradeFromEarlierLife`, `FillsAreReal`. The second restart may fall into the stand-down of the first |
| `desk_cancel` | limit order with an exit and maker TWAP, fair runner, no faults | `CancelledIsPulled`, `ExitClosesActual` |
| `pool_jobs` | 2 users with a run each, 2 workers, queue of 3, 4 jobs of every kind | `WaitBounded`, `DeferredHasHolder`, `NudgeServed`. Four jobs are a running one, a nudge and a tick behind it, and one of the other user; larger instances of the first two are the theorems' part |
| `engine_legs` | 5 sessions: an order leg with every fault but lag; one whose feed lags together with a position that is kept; that kept position alone; a position with refusals, drops and throttles; a quote slot with its executor and the next one. Orders of 2 units, 2 attempts | `NoFalseGone`, `DroppedLeavesNothing`, `CountsOnlyTrades`, `CompletedIsFlat`, `SlotNamesItsQuote`, and the refinement `LegImplemented`. Two units tell a partial fill from a full one, a second attempt an answer that was lost from one that was not. Legs meet only in the coalesced snapshot, so two at a time are enough |
| `engine_runtime` | a job, a kickoff, a user; 2 builds, 2 sessions, one executor each; one stop, timeout or restart (`OneUpset`) | `OneInstance`, `PrunedIsPersisted`. A second build is what an instance left behind would be doubled by |
| `copy_mirror` | one product, up to 2 lots, a leader that moves once, flips or is silently empty; 2 opens, a stop and one more upset; a product that is let go of ends the behaviour (`NotLost`) | `StoppedIsFlat`, `NothingForgotten`, `OpensFromFlat`. Two lots give partial fills, trims and adds, a second open what the first could double |
| `copy_stop` | one product, every read failing as often as it likes, fair poller | `StopEnds` |
| `manual_fills` | one trade of 2 units, market or limit, every fault, one restart, fair job and scan | `CountedOnce`, `ResolvedIsBooked`, `SpentRulesAreSold`, `StopFires`, `EntriesEnd` |
| `manual_intents` | two trades of one unit with the parameters of one intent, the user closing against the scan; lost replies, owners of an intent that cannot be read, a restart; the trades are symmetric | `OneOrderPerIntent`, and the others with two rows, two rules and two closers |

Deadlock is not checked: each instance ends when its runs, plans, jobs, moves, trades and
restarts are used up. The constants that begin with `Max`, `OrdersPer`, `Restarts` and `GiveUpAfter` are the
bounds, with the sets of runs, plans, legs and trades; runs, plans and trades are not reused, as sessions
and rows are not. `CopyTrading` recycles the slots of orders that are settled.
`OneUpset` and `NotLost` are state constraints of
`engine_runtime` and `copy_mirror`, named in their `MC` modules; no run with a liveness property has one.

## Divergences

Reading and checking turned up places where the code does not do what a comment, a docstring or
its neighbours say. None is a run: the properties above state what does hold, and name these as their
exceptions.

*Sessions.* A run displaced by a superseding start, or cleared by the rollback of an eager start
(`bot_runtime.py:1635-1650`), is neither in a row nor in a record while its orders may rest, and
the switch goes through (`network_switch.py:9-10`: "only once every item is CONFIRMED stopped").
A cycle past its check places orders after a stop cleared `running` (`pending_cleanup.py:3`), and
one that gets its client after a switch places them on the other network (`bot_runtime.py:3995`). The boot
stand-down records its cleanup after its venue half (`docs/ARCHITECTURE.md:106`: before it). These are the
gaps `escaped` names.

*Jobs.* `_safety` is read once per job (`bot_runtime.py:2822`), so a tick deferred behind a safety pass
runs as one (2827-2828: "a safety pass can never displace a pending trading tick"). The queue's deficits outlive a
user's entry, so `owed` grows with a user's history (`execution_queue.py:14`).

*Desk plans.* A plan cancelled just before a restart keeps its orders: recovery and stand-down read active plans
only (`desk_store.py:128-129`). An exit whose fill could not be read is fired again for the whole amount
(`desk.py:610`, against 6-7). An inventory write that raises in the spawn
(`engine_persistence.py:59`) leaves the plan without its executor and the entry is fired again (`desk.py:19-20`:
"never re-fired blind"). A failed scan of a network is taken for idle users, whose sessions are torn down
(`desk_runtime.py:348`, against 346 and 352). A resumed TWAP repeats all slices since its checkpoint (`desk.py:17`: one).

*Executors.* `PositionExecutor.on_stop` ends a partly filled entry as `EARLY_STOP` without cancelling it
(against its comment at 459-465), and an entry that was cancelled after a partial fill with the position
held. `_ingest_exit` compares the fills of a new close order with the total of the earlier ones. A feed of fills that lags
behind the book lets an executor settle with fills uncounted; `CompletedIsFlat` and `LegImplemented` leave out legs with `"lag"`.
`_guard` sends a placement whose first try was not answered once more (`executor_base.py:140`), so the order may rest twice, once
without a reference (`lost`). A cancel that finds the order gone drops it from the adapter, and the status that follows raises: the leg
fails though it knows the outcome. Rows of `get_open_orders` carry no fill keys (`nado_client.py:1371-1378`,
1417-1431), so partial fills of a resting order that `nado.py:1286-1298` and its test look for are never seen in them.

*Quotes.* `_replace_quote` "returns False only when the venue left the OLD order untouched" (`market_making.py:1278`;
`nado.py:682`): a request whose answer is lost, or cannot be parsed (`nado.py:763`), returns False too. The old order is
gone then and the new one rests without a reference, and the fallback quotes the level once more. An executor whose settlement
could not cancel its order, or whose cancel succeeded after a read that showed the order resting, keeps that older read,
so `prune_terminated` never drops it.

*Runtime.* `EngineRuntime.stop` drops the key whatever it holds by then (466-469), so an instance
registered while the stop waited is out of reach (`dropped`). A cycle timeout that cancels a recovery after the failed
controller was stopped (293, 302) leaves a controller that is neither failed nor running beside rows that
say a run is active: no later cycle builds one (against 3280-3284).

*Copies.* The guard against a leader snapshot that is silently empty looks for keys the snapshot row does not have
(`copy_service.py:1039`, 1061-1070), so such a read closes every copy. An order that is partly filled and cannot be cancelled
never reaches the give-up (`StuckPartial`), a row whose position vanished blocks a stop (`Phantom`): a stopping mirror does not sweep. A
flatten reads rows and pending orders once, and its clear may drop an order registered meanwhile. A restart
during the maker wait forgets the order. The books use a fill size read before the cancel. `start_copy` with open rows
re-arms a stop. `lost` names these.

*Manual orders.* `get_open_orders(...) or []` takes a denied read for an empty book (`runtime/scheduler.py:793`):
an order that rests is marked cancelled, or a partial fill final. Attempts are counted
from the placement, so the fill of an order that rested long may be called cancelled while the archive
is behind. A fill between the two reads of a sync is left out (against the comment at 840). A placement that raised counts as refused although the
venue may have it (`trade_service.py:1120`). `reserve_order_intent` promises that "the caller must NOT submit a second
order. On DB failure this raises" its own error (`order_intents.py:112-115`), but when the intent is taken it reads the owner outside its
`try` (161), and if that read and the one of the cache fail (92-96) a plain exception reaches `trade_service.py:946` (limit orders:
1793): the order is placed without the intent, and its markers then write over the owner's, so a third submit may follow in this
window or the next. A call whose write of a fill fails counts it, and so does the sync. These are
the causes in `gap`. Seen beside the model: a crash leaves a position without the stop it asked for; a placed
but unqueued trade is never booked; a closed row set back to filled; a rule that
outlives its position and closes a later one; a limit order's volume credited twice on close; an entry that expires after two hours with its order resting.

### Fairness

`session_switch` assumes weak fairness of the steps of a network's job: the scheduler enqueues a job
for every running row on its interval, the queue's workers never stop taking jobs, and a cycle ends at its timeout
at the latest. A cycle may be cut short at any of its calls (`CycleAborts`), so the steps that lead
to a stand-down (`CheckNetwork`, `GetClient`, `EngineCycle`, and the rail that trips
when the session is closed) have strong fairness: a job that is started again and again does not fail at the
same call every time. Nothing is assumed of the user. `desk_cancel` assumes weak fairness of the runner's steps: the
scheduler runs the desk tick every five seconds, never two at once, and a tick's calls are
bounded by their own timeouts and retries. `pool_jobs` assumes that a worker goes on with the job it
took. `copy_stop` assumes weak fairness of the poller, whose loop has
no exit, and of the step a user's stop has begun. `manual_fills` assumes weak fairness of the job and of the scan, which the scheduler runs
on their intervals; strong fairness of the scan's calls of a close, because what may fail does not fail for ever at the
same call, and of the expiry of an entry, whose age only grows. The other runs are safety only.
No fairness is assumed of the venue, of arrivals or of restarts.

## Proofs

TLAPS checks these for every value of the constants, from the assumptions named in the
modules (`ASSUME`), which only say that constants have their types.

* `StrategySession_proofs`: `TypeCorrect` and `NothingUntracked`
  (`Spec => []Tracked`). `Tracked` is not inductive: when a stop deletes its record, it relies on a cancel
  that was confirmed several steps before, and nothing in `Tracked` says that no order came
  since. `IndInv` adds what does: a run whose stop has begun is not running in
  its row unless it escaped (`StoppedStaysStopped`: the first step of a stop clears the flag,
  and whatever sets it again is a gap), so nothing is placed for it and what was confirmed
  stays clear until the stop ends (`ConfirmedStaysClear`). The other conjuncts keep
  the bookkeeping in order: an actor has one stop at a time (`OneStopEach`), rows,
  jobs and stops name runs of their own network (`RunsOnTheirNetwork`), nothing rests on a
  foreign network except what escaped (`NoStray`), and a run not saved yet is known to nobody
  (`FreshUnknown`).
  `SwitchIsFailClosed` (`Spec => SwitchFailClosed`, an action property) adds what the switch knows at each of its steps
  while nobody else works on the network it leaves (`Leaving`): the row is stopped, and a record still there is one whose
  retry is under way, or failed, or whose stop was confirmed though its deletion failed.
* `StrategyPool_proofs`: `NobodyStarves` (`Spec => []WaitBounded`). The invariant is a
  potential: what has passed a waiting user plus what its rival is still ahead never exceeds
  what was owed when the user came, because a get raises the deficit of everyone waiting
  by one and leaves that of the user served where it was. `NothingLeftDeferred`
  (`Spec => []DeferredHasHolder`), which is inductive with the type invariant, and
  `PoolTypeCorrect`. Each invariant is about one component, so the proofs work on the
  projections of a pool step to the queue and to the jobs (`Projection`).
* `ManualTrades_proofs`: `OneOrderEach` (`Spec => []OneOrderPerIntent`), by `IntentInv`: an order that
  is or may come on the book keeps its intent blocked while its window lasts, unless the reply was lost or an unprotected call
  may have written over it (`Tainted`), so an intent has one owner per window. An unprotected call outlives at most one window
  (`InWindow`), which is why the exception reaches one window back. `FillsCountedOnce` and `ResolvedBooked` (`Spec => []CountedOnce`,
  `Spec => []ResolvedIsBooked`), by `BookInv`: what is counted, plus what an actor has booked and is
  about to count, is in the row; a copy of the row or of the archive held by the job is no newer than its source; and the
  venue's facts of an order only grow. The two invariants do not need each other.
  `SpentRulesSold` (`Spec => []SpentRulesAreSold`) and `TypeCorrect` rest on a third, `StopInv`: no more is sold than was
  bought (`SoldBought`); a trade with a rule has its order finished and its call returned, so its fill no longer
  grows (`Settled`); and what the spent rules bought was sold, together with the rules of the scan's current position once its
  close reports flat (`SpentSold`). A close that saw nothing open sold everything there was to sell, so the inequality holds at
  the moment the rules are spent, and later fills belong to other trades.
* `Sums`: what a sum over a finite set (`MapThenSumSet`) does when an element is added, a value changes or the set
  grows, for the proofs that compare sums. The recursion is that of the community modules' fold; the induction
  takes the set of naturals for which a claim holds and shows that it has zero and every successor
  (`EveryNatural`, by well-foundedness of `<`), which needs no operator parameter.

* `EngineRuntime_proofs`: `TypeCorrect`; `OneInstanceEach` (`Spec => []OneInstance`) and `PrunedIsWritten`
  (`Spec => []PrunedIsPersisted`). `OneInstance` speaks of a registry and of executors, and a step that breaks it is
  prepared by others: a start may overtake a stop only because neither holds the key. So `OneInv` carries who holds the lock
  (`LockExcludes`), that a stop lists an instance before it lets go of it (`StopLists`), that whoever works on executors works
  on those of the registered instance (`WorksOnRegistered`), and what a start found and what a failed one undoes
  (`StartsAlone`, `StartsFromNothing`, `RollbackStopsAll`). `RowInv` follows a row: an executor is terminated
  before its signature is taken (`TickedTerminated`, `SignedIsWritten`), a batch holds states of the past only
  (`BatchIsPast`), and a terminal row stays (`PrunedStaysWritten`).
* `EngineLegs_proofs`: `TypeCorrect`, and for any legs, slots, sizes, retries and faults `NeverFalselyGone` (`NoFalseGone`),
  `CountsTrades` (`CountsOnlyTrades`), `DropsNothingResting` (`DroppedLeavesNothing`) and `SlotsNameTheirQuotes`
  (`SlotNamesItsQuote`). One invariant carries them, in three layers. `AdapterInv`: what the adapter says of an
  order, in its cache or in an answer under way, is true and stays true (`TrueOf`: a status that calls an order finished is
  final), because a snapshot of the book shows whatever rests and was answered, and an order confirmed cancelled is not on it. `LegInv`: the
  call an executor waits for is about its own order, what it counted traded, and every answered order of its leg is the one it works or the
  one a placement just returned (`LegOwns`): without it an executor could be pruned beside an order it never adopted.
  `SlotInv`: of the executors a slot let go nothing rests that the adapter knows. It needs `LegLives`: an executor
  that ended, unless it failed, saw its order finished or the adapter forgot the order.
  `LegsImplemented` (`Spec => LegImplemented`) is the refinement of `OrderLeg`. Each step of the executors,
  of a slot, of a call or of the venue is mapped to a step of one abstract leg (two for a replace) or to none:
  `StepMoves` and `SlotMoves` say what an executor step shows of its leg, `MovesImplement`, `CallImplements` and
  `VenueImplements` which abstract step that is. That an order settles only when it is off the book and counted is
  `LegCounts` after the step; beyond the invariant above it needs that orders of a leg have one size,
  that only a call that succeeded names an order, and that a working executor has no close type.
  `CompletedFlat` (`OneCloser` gives `Spec => []CompletedIsFlat`) adds `FlatInv`. Reduce-only is about the account's position, the
  sum of all fills, and an executor knows its own two orders only, so the invariant ties the two: what a leg recorded of its entry is all
  of it once the entry is over (`PeEntered`), what it recorded of its exits was sold (`PeExited`), and each of its closing orders,
  *if it fills*, sells what is then left of the entry (`PeSells`), because it was sent for the entry less what was recorded as sold.
  So an order reported filled (`FilledIsAll`) and a market close that crossed the whole position (`Crosses`) both
  leave nothing, and `PeLives` carries that to the end. `PeWaits` says which call each step of the executor waits for, `PeOwns`
  that no order of the leg is left beside the two it knows. The sums over orders are those of `Sums`.

* `DeskPlans_proofs`: `TypeCorrect` and `CountsRealFills` (`Spec => []FillsAreReal`), for any `Faults` and either redeploy
  contract, by `IInv`: what run, executor and checkpoint count of a plan was bought or sold, and a plan about to be
  spawned still misses some of its entry (`Accounts`, `Pending`). The contracts of the runner need more, each its own invariant on top:
  `EarlierPlansStay` (`NoTradeFromEarlierLife`, default contract): no plan of an earlier life is in memory, nothing but the
  stand-down runs until it is done, and it has every such plan still active on its list (`LifeInv`).
  `OneShotsOnce` (`OneShotOnce`, either contract, unless the inventory write of a fill can fail): once an order
  may be on the book, the claim and the checkpoint that say so are durable and the run in memory agrees (`Committed`), and the
  placement comes after both writes (`Once`).
  `ExitsCloseActual` (`ExitClosesActual`, default contract, if the plan table, the inventory write and order reads answer; placements and cancels
  may fail): what is sold and still to be sold, less what the exit executor has told or will, is within what was bought (`ExitPlan`).
  The failures excluded are those after which the code does repeat itself, described under *Desk plans*.

* `CopyTrading_proofs`: `TypeCorrect`, `EverythingAccounted` (`Spec => []NothingForgotten`), `StoppedFlat`
  (`Spec => []StoppedIsFlat`) and `OpensFlat` (`Spec => OpensFromFlat`), for any products, sizes, faults and restarts.
  `NothingForgotten` is about a poller at rest, so the invariant (`Account`) says who answers for a product at each of its steps: at
  most one owner (`OneOwner`: an open row, the order in hand, the row an add was sent for, or the pending entry), nothing
  held without one (`FlatUnowned`), and what is held is on the owner's side and within what it owes (`OwnedHeld`). An order
  that rests is pending or in hand (`LiveOwned`). The pass reads rows and venue once and works on what it
  read, while the user's stop closes the same rows, so the invariant also says that what the poller knows still holds when it
  gets there (`Steps`), that an open row it has yet to visit is the one it read (`RowsKnown`), and that whatever is
  about to be booked for a row leaves it no smaller than what is held (`SweptLeft`, `BookedLeft`, `UnwindsAll`, `FlatBooked`).
  These survive interleaving because a close is reduce-only: what is held only comes nearer to nothing (`ClosesShrinks`).
  For stops, `UserStops`, `FlattensAll` and `StoppedClosed`: a flatten closes rows whole, and a stopped mirror has no open row
  but the one in hand. Products in `lost` are excepted throughout, by the actions that add them.

The assumptions that were not there for TLC: the marks of a batch's owner differ from the names of tasks
(`RuntimeAssumption`), and a leg is an order leg or a position leg (`SessionsAssumption`), in the code objects of different classes;
a mirror has a product to copy (`CopyAssumption`); and trades (`SubmitAssumption`) and legs (`AdapterAssumption`) are finitely many, as rows of a table and objects in memory are.
`CompletedFlat` has a hypothesis, `OneCloser`: no two position legs in one session, as in every session of the run. It is not
for the proof's convenience. With two, of 2 units each, the property fails: a market close of one leg that goes through
unanswered and is sent again (`"unknown"`) sells what the other bought, as reduce-only is account-wide; the other's
market close then finds too little position left, trades a part, and is read as filled. TLC finds it in 25 steps.
That is a limit of what one executor can promise beside another, not a disagreement with anything the code says.

Every safety invariant and action property the runs check is a theorem. Only model-checked: everything that says *eventually*
(`StaleRowStandsDown`, `CancelledIsPulled`, `NudgeServed`, `StopEnds`, `StopFires`, `EntriesEnd`), which the
proof system does not cover.

## Not modelled

* In the session: the branches of `_run_cycle` for deleted users, for the delta neutral
  maintenance close and for the legacy strategies; delegation of cycles to
  worker processes; what rails, overlays and controllers compute (whether a rail trips is
  nondeterministic). A cycle that does nothing (interval, pause, open circuit) is one of the outcomes of
  `CycleAborts` or `CyclePaused`. Other users are independent: rows, records and locks
  are keyed by user.
* In desk plans: parsing and validation, spot market hours except that an entry may be suspended,
  perpetual exits (reduce-only, so capped by the venue), chased limit orders, placements of unknown
  outcome, which the venue adapter reports as errors.
* In the queue and the jobs: time, so dedupe keys and the put timeout. A producer that
  times out has changed nothing.
* In the executors: `_maybe_refresh` (repricing of a chased order), adoption of persisted executors, `reduce_position`, and the grid, DCA, maker and TWAP executors. Product metadata, rounding and
  balances of the adapter. A read of the book is one step.
* In the runtime: how each strategy's controller is built from its configuration, adoption, rate accounting.
* In copy trading: the global pause, `remove_trader`, brackets, accounting, discovery; the persist of
  `pend` does not fail; the timing of mass disappearances and dust.
* In manual trading: take-profits, spot orders, limit closes, `close_all`; both sides at once. A reservation
  window (120 s) is longer than a call, an immediate order that fills fills at least one unit, the archive does not forget
  a fill the row has, and there is one alert worker (`NADO_ALERT_WORKERS`, by default).
* The controllers of strategies except for the quote slots (what to quote, from prices and numeric state), the client's signing, parsing
  and caching, the gateway budget, quant and market data, portfolio, LLM and presentation.

## Plan

In order of weight:

1. `DeltaNeutral`: the phases of the controller, its two legs, residuals and the rebuild.
2. `GatewayBudget`, the user cache, `user_circuit` and the dedupe keys, with time as a bounded clock.
3. The remaining executors (grid, DCA, maker) against `OrderLeg`; `reduce_position`.
4. Volume bot cycles and grid ladders, under partial failures; `nado_sync`.
5. The relay's sessions and the strategy scheduler's registrations.
6. Sessions with several position legs: what they promise of the account together, where `CompletedIsFlat` is of one.
