--------------------------- MODULE DeskPlans_proofs ---------------------------
(* Proofs about DeskPlans, for every set of plans, every entry and size and *)
(* every set of calls that may fail.                                        *)
EXTENDS DeskPlans, TLAPS

-----------------------------------------------------------------------------
(* The operators *)

LEMMA SucceedsBoolean == \A k : Succeeds(k) \subseteq BOOLEAN
  BY DEF Succeeds

LEMMA EmptyTypes == NoCkpt \in Ckpt /\ NoRun \in Run /\ NoEx \in Executor
  BY SizeAssumption DEF NoCkpt, Ckpt, NoRun, Run, Phases, NoEx, Executor, Units

\* An order of n units: what fills and what rests of it is within n.
LEMMA Placed ==
  ASSUME NEW p \in Plans, NEW leg, NEW n \in Nat, NEW o \in Placements(p, leg, n)
  PROVE  /\ o.k \in Nat /\ o.rest \in Nat /\ o.k + o.rest <= n
         /\ o.told \in BOOLEAN
         /\ leg = "exit" => o.rest = 0
  BY DEF Placements

\* What the model counts of plan p's orders: nothing on the book or filled is
\* beyond MaxUnits, and what the run, its executor and its checkpoint count was
\* bought, or sold.
Accounts(p) ==
    /\ bought[p] + resting[p] <= MaxUnits
    /\ ex[p].rest <= resting[p]
    /\ ex[p].leg # "entry" => ex[p].seen + ex[p].unseen <= sold[p]
    /\ run[p].base + (IF ex[p].leg = "entry" THEN ex[p].seen + ex[p].unseen ELSE 0)
         <= bought[p]
    /\ ckpt[p].base <= bought[p]
    /\ run[p].phase \in {"none", "waiting"} => ex[p].leg = "none"

\* the plan being spawned is in its entry, some of which is missing
Pending == tick.pc \in {"prespawn", "spawn"} =>
    /\ tick.plan \in Plans /\ run[tick.plan].phase = "entry"
    /\ tick.pc = "spawn" => run[tick.plan].base < Size

IInv == TypeOK /\ Pending /\ \A p \in Plans : Accounts(p)

\* The fields of a plan's records, with their types.
LEMMA Fields ==
  ASSUME IInv, NEW p \in Plans
  PROVE  /\ ex[p] \in Executor /\ ex[p].leg \in {"none", "entry", "exit"}
         /\ ex[p].left \in Nat /\ ex[p].rest \in Nat /\ ex[p].unseen \in Nat
         /\ ex[p].seen \in Nat /\ ex[p].dead \in BOOLEAN
         /\ run[p] \in Run /\ run[p].base \in Nat
         /\ run[p].started \in BOOLEAN /\ run[p].done \in BOOLEAN
         /\ run[p].phase \in Phases
         /\ ckpt[p].base \in Nat /\ ckpt[p].started \in BOOLEAN
         /\ ckpt[p].done \in BOOLEAN
         /\ bought[p] \in Nat /\ resting[p] \in Nat /\ sold[p] \in Nat
         /\ ex[p].seen + ex[p].unseen <= MaxUnits
         /\ sold[p] <= MaxUnits /\ Accounts(p)
  BY SizeAssumption DEF IInv, TypeOK, Accounts, Executor, Run, Ckpt, Units

\* on_stop ends the executor, forgets what rests, and never counts a fill that
\* the executor had not seen or read.
LEMMA Stopped ==
  ASSUME IInv, NEW p \in Plans, NEW s \in StopOutcomes(p)
  PROVE  /\ s.x \in Executor /\ s.x.leg = ex[p].leg /\ s.x.left = ex[p].left /\ s.x.dead
         /\ s.x.seen \in Nat /\ s.x.unseen \in Nat /\ s.x.rest \in Nat
         /\ s.x.seen + s.x.unseen <= ex[p].seen + ex[p].unseen
         /\ s.pulled \in Nat /\ s.x.rest + s.pulled <= ex[p].rest
         /\ s.ok \in BOOLEAN
<1>f. /\ ex[p] \in Executor /\ ex[p].rest \in Nat /\ ex[p].unseen \in Nat
      /\ ex[p].seen \in Nat /\ ex[p].dead \in BOOLEAN
      /\ ex[p].seen + ex[p].unseen <= MaxUnits
  BY Fields
<1>1. CASE ex[p].dead
  <2>1. s = [x |-> ex[p], pulled |-> 0, ok |-> TRUE]
    BY <1>1 DEF StopOutcomes
  <2>2. s.x = ex[p] /\ s.pulled = 0 /\ s.ok = TRUE
    BY <2>1
  <2>3. s.x.dead
    BY <2>2, <1>1, Zenon
  <2>4. s.ok \in BOOLEAN
    BY <2>2
  <2>5. s.pulled \in Nat /\ ex[p].rest + s.pulled <= ex[p].rest
    BY <2>2, <1>f
  <2> QED BY <2>2, <2>3, <2>4, <2>5, <1>f
<1>2. CASE ~ex[p].dead
  <2>1. PICK read \in BOOLEAN, cancelled \in BOOLEAN :
          s = [x |-> OnStop(p, read), pulled |-> IF cancelled THEN ex[p].rest ELSE 0,
               ok |-> read /\ cancelled]
    BY <1>2, SucceedsBoolean DEF StopOutcomes
  <2>2. /\ s.x = OnStop(p, read)
        /\ s.pulled = (IF cancelled THEN ex[p].rest ELSE 0)
        /\ s.ok \in BOOLEAN
    BY <2>1
  <2> DEFINE n == IF read /\ Algo[p] # "taker" THEN ex[p].seen + ex[p].unseen
                  ELSE ex[p].seen
  <2>3. n \in Nat /\ n <= ex[p].seen + ex[p].unseen /\ n <= MaxUnits
    BY <1>f, SizeAssumption
  <2>4. s.x = [ex[p] EXCEPT !.rest = 0, !.unseen = 0, !.dead = TRUE, !.seen = n]
    BY <2>2 DEF OnStop
  <2> HIDE DEF n
  <2>5. /\ s.x.leg = ex[p].leg /\ s.x.left = ex[p].left /\ s.x.dead
        /\ s.x.rest = 0 /\ s.x.unseen = 0 /\ s.x.seen = n
    BY <2>4, <1>f DEF Executor
  <2>6. s.x \in Executor
    <3>1. n \in Units /\ 0 \in Units
      BY <2>3, SizeAssumption DEF Units
    <3> QED BY <3>1, <2>4, <1>f DEF Executor
  <2> QED BY <2>2, <2>3, <2>5, <2>6, <1>f
<1> QED BY <1>1, <1>2, <1>f

-----------------------------------------------------------------------------
(* The control state: rows' statuses, session, stand-down and runner *)

Ticks == [pc : Stages, todo : SUBSET Plans, plan : Plans \cup {NoPlan}]

ControlOK ==
    /\ status \in [Plans -> Statuses]
    /\ session \in {"none", "live", "failed"} /\ stood \in BOOLEAN
    /\ tick \in Ticks
    /\ earlier \in SUBSET Plans
    /\ restarts \in 0..MaxRestarts

DataOK ==
    /\ ckpt \in [Plans -> Ckpt]
    /\ run \in [Plans -> Run]
    /\ ex \in [Plans -> Executor]
    /\ resting \in [Plans -> Units]
    /\ bought \in [Plans -> Units]
    /\ sold \in [Plans -> Units]

LEMMA TypeParts == TypeOK <=> ControlOK /\ DataOK
  BY DEF TypeOK, ControlOK, DataOK, Ticks

\* A plan done with is struck off the runner's list, in the same stage.
LEMMA DoneWithTick ==
  ASSUME tick \in Ticks, NEW p, DoneWith(p)
  PROVE  tick' \in Ticks /\ tick'.pc = tick.pc /\ tick'.plan = tick.plan
  BY DEF DoneWith, Ticks

LEMMA IdleTickType == IdleTick \in Ticks /\ IdleTick.pc = "idle"
  BY DEF IdleTick, Ticks, Stages

LEMMA FinishStatus ==
  ASSUME status \in [Plans -> Statuses], NEW p \in Plans, NEW s \in Statuses, Finish(p, s)
  PROVE  status' \in [Plans -> Statuses]
<1>1. PICK written \in BOOLEAN :
        status' = IF written /\ p \in Active THEN [status EXCEPT ![p] = s] ELSE status
  BY SucceedsBoolean DEF Finish
<1> QED BY <1>1

LEMMA EntryStatus ==
  ASSUME status \in [Plans -> Statuses], NEW p \in Plans, NEW r, _entry_finished(p, r)
  PROVE  status' \in [Plans -> Statuses]
  BY FinishStatus DEF _entry_finished, Statuses

LEMMA SpawnedTick ==
  ASSUME tick \in Ticks, Spawned
  PROVE  tick' \in Ticks /\ tick'.pc = "advance"
  BY DEF Spawned, Ticks, Stages

\* The control state after a step, and that the run to spawn lacks some of its entry.
Controlled == ControlOK' /\ Pending'

LEMMA UserControl == IInv /\ UserNext => Controlled
<1> SUFFICES ASSUME IInv, NEW p \in Plans,
                    insert_draft(p) \/ confirm_plan(p) \/ discard_draft(p) \/ cancel_plan(p)
             PROVE  Controlled
  BY DEF UserNext
<1>1. ControlOK /\ Pending
  BY TypeParts DEF IInv
<1>2. status' \in [Plans -> Statuses]
  BY <1>1 DEF insert_draft, confirm_plan, discard_draft, cancel_plan, ControlOK, Statuses,
              ACTIVE_STATUSES
<1>3. UNCHANGED <<run, tick, process>>
  BY DEF insert_draft, confirm_plan, discard_draft, cancel_plan
<1> QED BY <1>1, <1>2, <1>3 DEF Controlled, ControlOK, Pending, process

LEMMA DriveControl == IInv /\ DriveNext => Controlled
<1> SUFFICES ASSUME IInv, NEW p \in Plans,
                    \/ DriveHold(p) \/ DriveFails(p) \/ DriveRead(p) \/ DriveRaises(p)
                    \/ _advanceSlice(p) \/ SliceRefused(p) \/ _finalize(p)
             PROVE  Controlled
  BY DEF DriveNext
<1>1. ControlOK /\ Pending /\ tick \in Ticks
  BY TypeParts DEF IInv, ControlOK
<1>2. tick.pc = "drive" /\ UNCHANGED <<run, status, stood, earlier, restarts>>
  BY DEF DriveHold, DriveFails, DriveRead, DriveRaises, _advanceSlice, SliceRefused,
         _finalize, Driven, process
<1>3. tick' \in Ticks /\ tick'.pc \in {"drive", "idle"}
  BY <1>1, <1>2, DoneWithTick, IdleTickType
  DEF DriveHold, DriveFails, DriveRead, DriveRaises, _advanceSlice, SliceRefused, _finalize
<1>4. session' \in {"none", "live", "failed"}
  BY <1>1 DEF DriveHold, DriveFails, DriveRead, DriveRaises, _advanceSlice, SliceRefused,
              _finalize, process, ControlOK
<1> QED BY <1>1, <1>2, <1>3, <1>4 DEF Controlled, ControlOK, Pending

LEMMA RunnerControl ==
  ASSUME IInv,
         \/ BootScan \/ EnsureSession \/ StopSession \/ ReconcileFails \/ NextStage
         \/ \E p \in Plans : BootPark(p) \/ _reconcile(p)
  PROVE  Controlled
<1>1. ControlOK /\ Pending /\ tick \in Ticks
  BY TypeParts DEF IInv, ControlOK
<1> USE IdleTickType DEF Controlled, ControlOK, Pending
<1>2. CASE BootScan
  <2>1. /\ stood' \in BOOLEAN
        /\ tick' = tick \/ tick' = [IdleTick EXCEPT !.pc = "boot", !.todo = Active]
        /\ UNCHANGED <<status, run, session, earlier, restarts>>
    BY <1>1, <1>2 DEF BootScan
  <2>2. tick' = tick \/ (tick' \in Ticks /\ tick'.pc = "boot")
    <3>1. Active \in SUBSET Plans
      BY DEF Active
    <3>2. IdleTick \in Ticks
      BY IdleTickType
    <3> QED BY <2>1, <3>1, <3>2 DEF Ticks, Stages
  <2> QED BY <1>1, <2>1, <2>2
<1>3. CASE EnsureSession
  BY <1>1, <1>3 DEF EnsureSession, Ticks, Stages, IdleTick
<1>4. CASE StopSession
  BY <1>1, <1>4 DEF StopSession
<1>5. CASE ReconcileFails
  BY <1>1, <1>5 DEF ReconcileFails, Ticks, Stages, process
<1>6. CASE NextStage
  <2>1. /\ tick.pc \in {"reconcile", "drive", "advance", "checkpoint"}
        /\ UNCHANGED <<status, process>>
    BY <1>6 DEF NextStage
  <2>2. \/ tick' = [tick EXCEPT !.pc = "drive", !.todo = Alive]
        \/ tick' = [tick EXCEPT !.pc = "advance", !.todo = HasRun]
        \/ tick' = [tick EXCEPT !.pc = "checkpoint", !.todo = HasRun]
        \/ tick' = IdleTick
    BY <1>6, <2>1 DEF NextStage
  <2>3. tick' \in Ticks /\ tick'.pc \notin {"prespawn", "spawn"}
    BY <1>1, <2>2 DEF Ticks, Stages, Alive, HasRun
  <2> QED BY <1>1, <2>1, <2>3 DEF process
<1>7. ASSUME NEW p \in Plans, BootPark(p) PROVE Controlled
  <2>1. PICK written \in BOOLEAN :
         /\ status' = IF written /\ p \in Active
                      THEN [status EXCEPT ![p] = "cancelled"] ELSE status
         /\ stood' = (written /\ tick.todo = {p})
         /\ tick' = IF written /\ tick.todo # {p}
                    THEN [tick EXCEPT !.todo = @ \ {p}] ELSE IdleTick
    BY <1>7, SucceedsBoolean DEF BootPark
  <2>2. tick' \in Ticks /\ tick'.pc \in {"boot", "idle"}
    BY <1>1, <1>7, <2>1 DEF BootPark, Ticks, Stages
  <2>3. status' \in [Plans -> Statuses]
    BY <1>1, <2>1 DEF Statuses
  <2> QED BY <1>1, <1>7, <2>1, <2>2, <2>3 DEF BootPark
<1>8. ASSUME NEW p \in Plans, _reconcile(p) PROVE Controlled
  <2>1. tick' \in Ticks /\ tick'.pc = "reconcile"
    BY <1>1, <1>8, DoneWithTick DEF _reconcile, DoneWith
  <2> QED BY <1>1, <1>8, <2>1 DEF _reconcile, process
<1> QED BY <1>2, <1>3, <1>4, <1>5, <1>6, <1>7, <1>8

LEMMA AdvanceControl == IInv /\ AdvanceNext => Controlled
<1> SUFFICES ASSUME IInv, NEW p \in Plans,
                    \/ AdvanceHold(p) \/ FailDoomed(p) \/ ClaimTrigger(p) \/ EntryOver(p)
                    \/ Respawn(p) \/ SuspendEntry(p) \/ _tick_suspended(p) \/ EntryEnds(p)
                    \/ PreSpawn(p) \/ Spawn(p) \/ SpawnRefused(p) \/ SpawnRaises(p)
                    \/ _spawn_exit(p) \/ ExitRefused(p) \/ ExitRaises(p) \/ _tick_exiting(p)
                    \/ Checkpoint(p)
             PROVE  Controlled
  BY DEF AdvanceNext
<1>1. ControlOK /\ Pending /\ tick \in Ticks /\ status \in [Plans -> Statuses]
  BY TypeParts DEF IInv, ControlOK
<1>d. DataOK
  BY TypeParts DEF IInv
<1>s. {"failed", "completed", "running"} \subseteq Statuses
  BY DEF Statuses, ACTIVE_STATUSES
<1>2. UNCHANGED process
  BY DEF AdvanceHold, FailDoomed, ClaimTrigger, EntryOver, Respawn, SuspendEntry,
         _tick_suspended, EntryEnds, PreSpawn, Spawn, SpawnRefused, SpawnRaises, _spawn_exit,
         ExitRefused, ExitRaises, _tick_exiting, Checkpoint
<1>3. status' \in [Plans -> Statuses]
  <2>1. CASE FailDoomed(p) \/ SpawnRefused(p) \/ ExitRefused(p)
    BY <1>1, <1>s, <2>1, FinishStatus DEF FailDoomed, SpawnRefused, ExitRefused
  <2>2. CASE ClaimTrigger(p)
    BY <1>1, <1>s, <2>2 DEF ClaimTrigger
  <2>3. CASE EntryOver(p) \/ PreSpawn(p) \/ EntryEnds(p)
    BY <1>1, <2>3, EntryStatus DEF EntryOver, PreSpawn, EntryEnds
  <2>4. CASE _tick_exiting(p)
    BY <1>1, <1>s, <2>4, FinishStatus DEF _tick_exiting
  <2> QED BY <1>1, <2>1, <2>2, <2>3, <2>4
          DEF AdvanceHold, Respawn, SuspendEntry, _tick_suspended, Spawn, SpawnRaises,
              _spawn_exit, ExitRaises, Checkpoint
<1>4. tick' \in Ticks /\ Pending'
  <2>1. CASE DoneWith(p) /\ tick.pc \in {"advance", "checkpoint"}
    BY <1>1, <2>1, DoneWithTick DEF Pending
  <2>2. CASE Spawned
    BY <1>1, <2>2, SpawnedTick DEF Pending
  <2>3. CASE /\ tick' = [tick EXCEPT !.todo = @ \ {p}, !.pc = "prespawn", !.plan = p]
             /\ run'[p].phase = "entry"
    <3>1. tick' = [pc |-> "prespawn", todo |-> tick.todo \ {p}, plan |-> p]
      BY <1>1, <2>3 DEF Ticks
    <3> QED BY <1>1, <2>3, <3>1 DEF Pending, Ticks, Stages
  <2>4. CASE PreSpawn(p)
    <3>1. CASE tick' = [tick EXCEPT !.pc = "advance", !.plan = NoPlan]
      BY <1>1, <3>1 DEF Pending, Ticks, Stages
    <3>2. CASE /\ run[p].base < Size /\ run' = [run EXCEPT ![p].started = TRUE]
               /\ tick' = [tick EXCEPT !.pc = "spawn"]
      <4>1. tick' \in Ticks /\ tick'.plan = p
        BY <1>1, <2>4, <3>2 DEF Ticks, Stages, PreSpawn
      <4>2. run'[p].base = run[p].base /\ run'[p].phase = run[p].phase
        BY <1>d, <3>2, Fields DEF DataOK, Run
      <4>3. run[p].phase = "entry" /\ tick'.pc = "spawn"
        BY <1>1, <2>4, <3>2 DEF PreSpawn, Pending, Ticks
      <4> QED BY <3>2, <4>1, <4>2, <4>3 DEF Pending
    <3> QED BY <2>4, <3>1, <3>2 DEF PreSpawn
  <2>5. CASE ClaimTrigger(p)
    <3>1. CASE run' = [run EXCEPT ![p] = [@ EXCEPT !.phase = "entry"]]
      <4>1. run'[p].phase = "entry"
        BY <1>d, <3>1 DEF DataOK, Run
      <4> QED BY <2>1, <2>3, <2>5, <4>1 DEF ClaimTrigger, Advanced
    <3> QED BY <2>1, <2>5, <3>1 DEF ClaimTrigger, Advanced
  <2>6. CASE Respawn(p)
    BY <2>1, <2>3, <2>6 DEF Respawn, Advanced
  <2> QED BY <2>1, <2>2, <2>4, <2>5, <2>6
          DEF AdvanceHold, FailDoomed, EntryOver, SuspendEntry,
              _tick_suspended, EntryEnds, Spawn, SpawnRefused, SpawnRaises, _spawn_exit,
              ExitRefused, ExitRaises, _tick_exiting, Checkpoint, Advanced
<1> QED BY <1>1, <1>2, <1>3, <1>4 DEF Controlled, ControlOK, process

-----------------------------------------------------------------------------
(* The accounts of one plan *)

\* A step that only touches plan p keeps the invariant when it keeps p's accounts.
Others(p) == \A q \in Plans \ {p} :
    /\ ex'[q] = ex[q] /\ run'[q] = run[q] /\ ckpt'[q] = ckpt[q]
    /\ bought'[q] = bought[q] /\ resting'[q] = resting[q] /\ sold'[q] = sold[q]

LEMMA OnePlan ==
  ASSUME IInv, Controlled, NEW p \in Plans, DataOK', Others(p), Accounts(p)'
  PROVE  IInv'
<1>1. ASSUME NEW q \in Plans \ {p} PROVE Accounts(q)'
  <2>1. Accounts(q)
    BY Fields
  <2> QED BY <2>1 DEF Others, Accounts
<1>2. (TypeOK <=> ControlOK /\ DataOK)'
  BY TypeParts, PTL
<1> QED BY <1>1, <1>2 DEF IInv, Controlled

\* Nothing the accounts read has changed.
LEMMA NoData ==
  ASSUME IInv, Controlled, UNCHANGED <<ckpt, run, ex, venue>>
  PROVE  IInv'
<1>1. DataOK
  BY TypeParts DEF IInv
<1>2. DataOK' /\ (\A p \in Plans : Accounts(p)')
  BY <1>1, Fields DEF DataOK, Accounts, venue
<1>3. (TypeOK <=> ControlOK /\ DataOK)'
  BY TypeParts, PTL
<1> QED BY <1>2, <1>3 DEF IInv, Controlled

\* Plan p's executor reads, stops or places: what it counts grows by what the
\* venue filled at most.
LEMMA ExecutorStep ==
  ASSUME IInv, Controlled, NEW p \in Plans, NEW e, NEW rs \in Nat, NEW b \in Nat,
         ex' = [ex EXCEPT ![p] = e], resting' = [resting EXCEPT ![p] = rs],
         bought' = [bought EXCEPT ![p] = b], UNCHANGED <<ckpt, run, sold>>,
         e \in [leg : {"none", "entry", "exit"}, left : Units, rest : Nat, unseen : Nat,
                seen : Nat, dead : BOOLEAN],
         e.leg = ex[p].leg, e.rest <= rs, b >= bought[p], b + rs <= MaxUnits,
         e.leg = "entry" => e.seen + e.unseen <= ex[p].seen + ex[p].unseen + (b - bought[p]),
         e.leg # "entry" => e.seen + e.unseen <= ex[p].seen + ex[p].unseen
  PROVE  IInv'
<1>1. DataOK /\ Accounts(p) /\ ex[p] \in Executor
  BY TypeParts, Fields DEF IInv
<1>2. /\ ex[p].seen \in Nat /\ ex[p].unseen \in Nat /\ run[p].base \in Nat
      /\ bought[p] \in Nat /\ resting[p] \in Nat /\ sold[p] \in Nat
      /\ ex[p].seen + ex[p].unseen <= MaxUnits /\ sold[p] <= MaxUnits
      /\ ckpt[p].base \in Nat
  BY Fields
<1>3. e.seen \in Nat /\ e.unseen \in Nat /\ e.rest \in Nat
  OBVIOUS
<1>4. ex'[p] = e /\ resting'[p] = rs /\ bought'[p] = b
  BY <1>1 DEF DataOK
<1>5. Accounts(p)'
  BY <1>1, <1>2, <1>3, <1>4, SizeAssumption DEF Accounts
<1>6. e \in Executor
  <2>1. e.seen + e.unseen <= MaxUnits
    BY <1>1, <1>2, <1>3, SizeAssumption DEF Accounts
  <2>2. e.seen \in Units /\ e.unseen \in Units /\ e.rest \in Units
    BY <2>1, <1>3, SizeAssumption DEF Units
  <2> QED BY <2>2 DEF Executor
<1>7. rs \in Units /\ b \in Units
  BY SizeAssumption DEF Units
<1>8. DataOK' /\ Others(p)
  BY <1>1, <1>6, <1>7 DEF DataOK, Others
<1> QED BY <1>5, <1>8, OnePlan

\* The same when nothing is placed.
LEMMA ReadStep ==
  ASSUME IInv, Controlled, NEW p \in Plans, NEW e, NEW rs \in Nat,
         ex' = [ex EXCEPT ![p] = e], resting' = [resting EXCEPT ![p] = rs],
         UNCHANGED <<ckpt, run, bought, sold>>,
         e \in [leg : {"none", "entry", "exit"}, left : Units, rest : Nat, unseen : Nat,
                seen : Nat, dead : BOOLEAN],
         e.leg = ex[p].leg, e.rest <= rs, rs <= resting[p],
         e.seen + e.unseen <= ex[p].seen + ex[p].unseen
  PROVE  IInv'
<1>1. /\ ex[p].seen \in Nat /\ ex[p].unseen \in Nat
      /\ bought[p] \in Nat /\ resting[p] \in Nat /\ bought[p] + resting[p] <= MaxUnits
  BY Fields DEF Accounts
<1>2. bought' = [bought EXCEPT ![p] = bought[p]]
  BY TypeParts DEF IInv, DataOK
<1>3. bought[p] >= bought[p] /\ bought[p] + rs <= MaxUnits
  BY <1>1, SizeAssumption
<1>4. e.seen + e.unseen <= ex[p].seen + ex[p].unseen + (bought[p] - bought[p])
  BY <1>1
<1> QED BY <1>1, <1>2, <1>3, <1>4, ExecutorStep

\* Plan p's executor is dropped, what it counted kept or not, and some of what
\* rested pulled.
LEMMA RunStep ==
  ASSUME IInv, Controlled, NEW p \in Plans, NEW r \in Run, NEW rs \in Nat,
         ex' = [ex EXCEPT ![p] = NoEx], run' = [run EXCEPT ![p] = r],
         resting' = [resting EXCEPT ![p] = rs], UNCHANGED <<ckpt, bought, sold>>,
         rs <= resting[p], r.base <= bought[p]
  PROVE  IInv'
<1>1. DataOK /\ Accounts(p)
  BY TypeParts, Fields DEF IInv
<1>2. /\ bought[p] \in Nat /\ resting[p] \in Nat /\ sold[p] \in Nat
      /\ ckpt[p].base \in Nat /\ r.base \in Nat
  BY Fields DEF Run
<1>3. ex'[p] = NoEx /\ resting'[p] = rs /\ run'[p] = r
  BY <1>1 DEF DataOK
<1>4. Accounts(p)'
  BY <1>1, <1>2, <1>3, SizeAssumption DEF Accounts, NoEx
<1>5. rs \in Units
  BY <1>1, <1>2, SizeAssumption DEF Units, Accounts
<1>6. DataOK' /\ Others(p)
  BY <1>1, <1>5, EmptyTypes DEF DataOK, Others
<1> QED BY <1>4, <1>6, OnePlan

\* Only the run's flags, its phase or its count change.
LEMMA PhaseStep ==
  ASSUME IInv, Controlled, NEW p \in Plans, NEW r \in Run,
         run' = [run EXCEPT ![p] = r], UNCHANGED <<ckpt, ex, venue>>,
         r.base <= run[p].base \/ (ex[p].leg # "entry" /\ r.base <= bought[p]),
         r.phase \in {"none", "waiting"} => ex[p].leg = "none"
  PROVE  IInv'
<1>1. DataOK /\ Accounts(p)
  BY TypeParts, Fields DEF IInv
<1>2. /\ bought[p] \in Nat /\ resting[p] \in Nat /\ sold[p] \in Nat
      /\ ckpt[p].base \in Nat /\ r.base \in Nat /\ run[p].base \in Nat
      /\ ex[p].seen \in Nat /\ ex[p].unseen \in Nat
  BY Fields DEF Run
<1>3. run'[p] = r
  BY <1>1 DEF DataOK
<1>4. Accounts(p)'
  BY <1>1, <1>2, <1>3, SizeAssumption DEF Accounts, venue
<1>5. DataOK' /\ Others(p)
  BY <1>1 DEF DataOK, Others, venue
<1> QED BY <1>4, <1>5, OnePlan

LEMMA DriveStep == IInv /\ DriveNext => IInv'
<1> SUFFICES ASSUME IInv, DriveNext PROVE IInv'
  OBVIOUS
<1>c. Controlled
  BY DriveControl
<1>d. DataOK
  BY TypeParts DEF IInv
<1>1. ASSUME NEW p \in Plans, DriveHold(p) \/ DriveRaises(p) PROVE IInv'
  BY <1>c, <1>1, NoData DEF DriveHold, DriveRaises
<1>2. ASSUME NEW p \in Plans,
             \/ DriveFails(p) \/ DriveRead(p)
             \/ _advanceSlice(p) \/ SliceRefused(p) \/ _finalize(p)
      PROVE  IInv'
  <2>1. /\ ex[p] \in Executor /\ ex[p].leg \in {"none", "entry", "exit"}
        /\ ex[p].left \in Units /\ ex[p].rest \in Nat /\ ex[p].unseen \in Nat
        /\ ex[p].seen \in Nat /\ ex[p].dead \in BOOLEAN
        /\ bought[p] \in Nat /\ resting[p] \in Nat
        /\ bought[p] + resting[p] <= MaxUnits /\ ex[p].rest <= resting[p]
    BY Fields DEF Accounts, Executor
  <2>2. bought = [bought EXCEPT ![p] = bought[p]] /\ resting = [resting EXCEPT ![p] = resting[p]]
    BY <1>d DEF DataOK
  <2>3. CASE DriveFails(p)
    <3> DEFINE e == [ex[p] EXCEPT !.rest = 0, !.unseen = 0, !.dead = TRUE]
    <3>1. /\ ex' = [ex EXCEPT ![p] = e] /\ resting' = [resting EXCEPT ![p] = resting[p]]
          /\ UNCHANGED <<ckpt, run, bought, sold>>
      BY <2>2, <2>3 DEF DriveFails, venue
    <3>2. /\ e \in [leg : {"none", "entry", "exit"}, left : Units, rest : Nat, unseen : Nat,
                    seen : Nat, dead : BOOLEAN]
          /\ e.leg = ex[p].leg /\ e.rest = 0 /\ e.seen = ex[p].seen /\ e.unseen = 0
      BY <2>1 DEF Executor
    <3> HIDE DEF e
    <3>3. e.rest <= resting[p] /\ resting[p] <= resting[p] /\ resting[p] \in Nat
          /\ e.seen + e.unseen <= ex[p].seen + ex[p].unseen
      BY <3>2, <2>1
    <3> QED BY <3>1, <3>2, <3>3, <1>c, ReadStep
  <2>4. CASE DriveRead(p)
    <3> DEFINE dead == ~Sliced(p) /\ ex[p].rest = 0
               seen == ex[p].seen + ex[p].unseen
               e == [ex[p] EXCEPT !.seen = seen, !.unseen = 0, !.dead = dead]
    <3>1. /\ ex' = [ex EXCEPT ![p] = e]
          /\ UNCHANGED <<ckpt, run, venue>>
      BY <2>4 DEF DriveRead
    <3>2. dead \in BOOLEAN /\ seen \in Nat /\ seen = ex[p].seen + ex[p].unseen
      BY <2>1
    <3> HIDE DEF dead, seen
    <3>3. /\ e \in [leg : {"none", "entry", "exit"}, left : Units, rest : Nat, unseen : Nat,
                    seen : Nat, dead : BOOLEAN]
          /\ e.leg = ex[p].leg /\ e.rest = ex[p].rest
          /\ e.seen = seen /\ e.unseen = 0
      BY <2>1, <3>2 DEF Executor
    <3> HIDE DEF e
    <3>4. /\ resting' = [resting EXCEPT ![p] = resting[p]]
          /\ UNCHANGED <<ckpt, run, bought, sold>>
      BY <2>2, <3>1 DEF venue
    <3>5. e.rest <= resting[p] /\ resting[p] <= resting[p] /\ resting[p] \in Nat
          /\ e.seen + e.unseen <= ex[p].seen + ex[p].unseen
      BY <3>2, <3>3, <2>1
    <3> QED BY <3>1, <3>3, <3>4, <3>5, <1>c, ReadStep
  <2>5. CASE _advanceSlice(p)
    <3>1. PICK s \in StopOutcomes(p), o \in Placements(p, "entry", 1), clean \in BOOLEAN :
            /\ bought[p] + resting[p] - s.pulled + 1 <= MaxUnits
            /\ ex' = [ex EXCEPT ![p] = [s.x EXCEPT
                       !.left = ex[p].left - 1, !.dead = ~clean,
                       !.rest = IF clean THEN o.rest ELSE 0,
                       !.unseen = IF clean /\ ~o.told THEN o.k ELSE 0,
                       !.seen = IF o.told THEN s.x.seen + o.k ELSE s.x.seen]]
            /\ resting' = [resting EXCEPT ![p] = @ - s.pulled + o.rest]
            /\ bought' = [bought EXCEPT ![p] = @ + o.k]
      BY <2>5 DEF _advanceSlice
    <3>2. /\ o.k \in Nat /\ o.rest \in Nat /\ o.k + o.rest <= 1 /\ o.told \in BOOLEAN
      BY Placed
    <3>3. /\ s.x \in Executor /\ s.x.leg = ex[p].leg /\ s.x.left = ex[p].left
          /\ s.x.seen \in Nat /\ s.x.unseen \in Nat /\ s.x.rest \in Nat
          /\ s.x.seen + s.x.unseen <= ex[p].seen + ex[p].unseen
          /\ s.pulled \in Nat /\ s.x.rest + s.pulled <= ex[p].rest
      BY Stopped
    <3>4. ex[p].left > 0 /\ ex[p].leg = "entry" /\ UNCHANGED <<ckpt, run, sold>>
      BY <2>5 DEF _advanceSlice, Sliced
    <3> DEFINE rest == IF clean THEN o.rest ELSE 0
               unseen == IF clean /\ ~o.told THEN o.k ELSE 0
               seen == IF o.told THEN s.x.seen + o.k ELSE s.x.seen
               e == [s.x EXCEPT !.left = ex[p].left - 1, !.dead = ~clean, !.rest = rest,
                                !.unseen = unseen, !.seen = seen]
               rs == resting[p] - s.pulled + o.rest
               b == bought[p] + o.k
    <3>5. ex' = [ex EXCEPT ![p] = e]
      BY <3>1
    <3>6. rest \in Nat /\ rest <= o.rest /\ unseen \in Nat /\ seen \in Nat
      BY <3>2, <3>3
    <3>7. seen + unseen <= s.x.seen + o.k
      BY <3>2, <3>3
    <3>8. rs \in Nat /\ b \in Nat /\ rest <= rs /\ b >= bought[p] /\ b + rs <= MaxUnits
      BY <3>1, <3>2, <3>3, <3>6, <2>1, SizeAssumption
    <3>9. ex[p].left - 1 \in Units
      BY <3>3, <3>4, <2>1, SizeAssumption DEF Units
    <3>10. resting' = [resting EXCEPT ![p] = rs] /\ bought' = [bought EXCEPT ![p] = b]
      BY <3>1
    <3> HIDE DEF rest, unseen, seen
    <3>11. /\ e \in [leg : {"none", "entry", "exit"}, left : Units, rest : Nat, unseen : Nat,
                     seen : Nat, dead : BOOLEAN]
           /\ e.leg = "entry" /\ e.rest = rest /\ e.seen = seen /\ e.unseen = unseen
      BY <3>3, <3>4, <3>6, <3>9 DEF Executor
    <3>12. seen + unseen <= ex[p].seen + ex[p].unseen + (b - bought[p])
      BY <3>2, <3>3, <3>6, <3>7, <2>1
    <3> HIDE DEF e, rs, b
    <3> QED BY <3>4, <3>5, <3>8, <3>10, <3>11, <3>12, <1>c, ExecutorStep
  <2>6. CASE SliceRefused(p) \/ _finalize(p)
    <3>1. PICK s \in StopOutcomes(p), dead \in BOOLEAN :
            /\ ex' = [ex EXCEPT ![p] = [s.x EXCEPT !.dead = dead]] \/ ex' = [ex EXCEPT ![p] = s.x]
            /\ resting' = [resting EXCEPT ![p] = @ - s.pulled]
      BY <2>6 DEF SliceRefused, _finalize
    <3>2. /\ s.x \in Executor /\ s.x.leg = ex[p].leg /\ s.x.left = ex[p].left
          /\ s.x.seen \in Nat /\ s.x.unseen \in Nat /\ s.x.rest \in Nat
          /\ s.x.seen + s.x.unseen <= ex[p].seen + ex[p].unseen
          /\ s.pulled \in Nat /\ s.x.rest + s.pulled <= ex[p].rest
      BY Stopped
    <3>3. PICK e : e \in {s.x, [s.x EXCEPT !.dead = dead]} /\ ex' = [ex EXCEPT ![p] = e]
      BY <3>1
    <3>4. /\ e \in [leg : {"none", "entry", "exit"}, left : Units, rest : Nat, unseen : Nat,
                    seen : Nat, dead : BOOLEAN]
          /\ e.leg = ex[p].leg /\ e.rest = s.x.rest
          /\ e.seen = s.x.seen /\ e.unseen = s.x.unseen
      BY <3>2, <3>3 DEF Executor, Units
    <3>5. /\ UNCHANGED <<ckpt, run, bought, sold>>
          /\ resting' = [resting EXCEPT ![p] = resting[p] - s.pulled]
      BY <2>6, <3>1 DEF SliceRefused, _finalize
    <3>6. /\ resting[p] - s.pulled \in Nat /\ e.rest <= resting[p] - s.pulled
          /\ resting[p] - s.pulled <= resting[p]
          /\ e.seen + e.unseen <= ex[p].seen + ex[p].unseen
      BY <2>1, <3>2, <3>4
    <3> QED BY <3>3, <3>4, <3>5, <3>6, <1>c, ReadStep
  <2> QED BY <1>2, <2>3, <2>4, <2>5, <2>6
<1> QED BY <1>1, <1>2 DEF DriveNext

LEMMA EndStep ==
  ASSUME IInv, Controlled, NEW p \in Plans, NEW st, Finish(p, st), NEW rs \in Nat,
         resting' = [resting EXCEPT ![p] = rs], rs <= resting[p],
         UNCHANGED <<ckpt, bought, sold>>
  PROVE  IInv'
<1>1. ex' = [ex EXCEPT ![p] = NoEx] /\ run' = [run EXCEPT ![p] = NoRun]
  BY DEF Finish
<1>2. NoRun.base <= bought[p]
  BY Fields DEF NoRun
<1> QED BY <1>1, <1>2, EmptyTypes, RunStep

LEMMA EntryEndStep ==
  ASSUME IInv, Controlled, NEW p \in Plans, NEW r \in Run, _entry_finished(p, r),
         r.base <= bought[p], NEW rs \in Nat,
         resting' = [resting EXCEPT ![p] = rs], rs <= resting[p],
         UNCHANGED <<ckpt, bought, sold>>
  PROVE  IInv'
<1>1. CASE Finish(p, "failed") \/ Finish(p, "completed")
  BY <1>1, EndStep
<1>2. CASE /\ run' = [run EXCEPT ![p] = [r EXCEPT !.phase = "exit_watch"]]
           /\ ex' = [ex EXCEPT ![p] = NoEx]
  <2>1. [r EXCEPT !.phase = "exit_watch"] \in Run
    BY DEF Run, Phases
  <2>2. [r EXCEPT !.phase = "exit_watch"].base <= bought[p]
    BY DEF Run
  <2> QED BY <1>2, <2>1, <2>2, RunStep
<1> QED BY <1>1, <1>2 DEF _entry_finished

\* resting units stay when nothing pulls them
LEMMA Still ==
  ASSUME IInv, NEW p \in Plans
  PROVE  /\ resting = [resting EXCEPT ![p] = resting[p]] /\ resting[p] \in Nat
         /\ resting[p] <= resting[p] /\ run[p] \in Run /\ run[p].base \in Nat
         /\ run[p].base <= bought[p]
<1>1. DataOK
  BY TypeParts DEF IInv
<1> QED BY <1>1, Fields DEF DataOK, Accounts

LEMMA RunnerStep ==
  ASSUME IInv,
         \/ BootScan \/ EnsureSession \/ StopSession \/ ReconcileFails \/ NextStage
         \/ \E p \in Plans : BootPark(p) \/ _reconcile(p)
  PROVE  IInv'
<1>c. Controlled
  BY RunnerControl
<1>d. DataOK
  BY TypeParts DEF IInv
<1>1. CASE BootScan \/ EnsureSession \/ ReconcileFails \/ NextStage
  BY <1>c, <1>1, NoData DEF BootScan, EnsureSession, ReconcileFails, NextStage
<1>2. ASSUME NEW p \in Plans, BootPark(p) PROVE IInv'
  BY <1>c, <1>2, NoData DEF BootPark
<1>3. ASSUME NEW p \in Plans, _reconcile(p) PROVE IInv'
  <2>1. CASE UNCHANGED <<run, ex, resting>>
    BY <1>c, <1>3, <2>1, NoData DEF _reconcile, venue
  <2>2. CASE UNCHANGED <<ex, resting>> /\ p \in Active /\ p \notin HasRun
    <3> DEFINE r == IF status[p] = "running" THEN _recover(p)
                    ELSE [NoRun EXCEPT !.phase = "waiting"]
    <3>1. PICK q \in Run :
            /\ run' = [run EXCEPT ![p] = q]
            /\ q.base = 0 \/ q.base = ckpt[p].base
      <4>1. /\ _recover(p) \in Run /\ _recover(p).base = ckpt[p].base
        BY Fields DEF _recover, Run, Phases
      <4>2. /\ [NoRun EXCEPT !.phase = "waiting"] \in Run
            /\ [NoRun EXCEPT !.phase = "waiting"].base = 0
        BY DEF NoRun, Run, Phases
      <4>3. run' = [run EXCEPT ![p] = r]
        BY <1>3, <2>2 DEF _reconcile
      <4> QED BY <4>1, <4>2, <4>3
    <3>2. UNCHANGED <<ckpt, ex, venue>>
      BY <1>3, <2>2 DEF _reconcile, venue
    <3>3. ex[p].leg = "none" /\ q.base <= bought[p]
      BY <2>2, <3>1, Fields DEF Accounts, HasRun
    <3> QED BY <3>1, <3>2, <3>3, <1>c, PhaseStep
  <2>3. CASE /\ \E o \in StopOutcomes(p) :
                  resting' = [resting EXCEPT ![p] = @ - o.pulled]
             /\ run' = [run EXCEPT ![p] = NoRun]
             /\ ex' = [ex EXCEPT ![p] = NoEx]
    <3>1. PICK o \in StopOutcomes(p) : resting' = [resting EXCEPT ![p] = resting[p] - o.pulled]
      BY <2>3
    <3>2. o.pulled \in Nat /\ o.pulled <= resting[p] /\ resting[p] \in Nat
      <4>1. o.pulled \in Nat /\ ex[p].rest \in Nat /\ o.pulled <= ex[p].rest
        BY Stopped, Fields
      <4> QED BY <4>1, Fields DEF Accounts
    <3>3. UNCHANGED <<ckpt, bought, sold>>
      BY <1>3 DEF _reconcile
    <3>4. NoRun.base <= bought[p]
      BY Fields DEF NoRun
    <3>5. resting[p] - o.pulled \in Nat /\ resting[p] - o.pulled <= resting[p]
      BY <3>2
    <3> QED BY <2>3, <3>1, <3>3, <3>4, <3>5, <1>c, EmptyTypes, RunStep
  <2> QED BY <1>3, <2>1, <2>2, <2>3 DEF _reconcile
<1>4. CASE StopSession
  <2>1. PICK left \in [Plans -> Units] :
          /\ \A p \in Plans : \E o \in StopOutcomes(p), n \in Orphans(p) :
               left[p] = resting[p] - o.pulled - n
          /\ resting' = left
    BY <1>4 DEF StopSession
  <2>2. /\ run' = [p \in Plans |-> NoRun] /\ ex' = [p \in Plans |-> NoEx]
        /\ UNCHANGED <<ckpt, bought, sold>>
    BY <1>4 DEF StopSession
  <2>3. ASSUME NEW p \in Plans PROVE resting'[p] <= resting[p]
    <3>1. PICK o \in StopOutcomes(p), n \in Orphans(p) : left[p] = resting[p] - o.pulled - n
      BY <2>1
    <3>2. o.pulled \in Nat
      BY Stopped
    <3>3. n \in Nat
      BY Fields DEF Orphans
    <3> QED BY <2>1, <3>1, <3>2, <3>3, Fields
  <2>4. ASSUME NEW p \in Plans PROVE Accounts(p)'
    <3>1. resting'[p] \in Nat
      BY <2>1, SizeAssumption DEF Units
    <3>2. /\ bought[p] \in Nat /\ resting[p] \in Nat /\ sold[p] \in Nat
          /\ bought[p] + resting[p] <= MaxUnits /\ ckpt[p].base <= bought[p]
      BY Fields DEF Accounts
    <3>3. run'[p] = NoRun /\ ex'[p] = NoEx
      BY <2>2
    <3> QED BY <2>2, <2>3, <3>1, <3>2, <3>3, SizeAssumption DEF Accounts, NoRun, NoEx
  <2>5. DataOK'
    BY <1>d, <2>1, <2>2, EmptyTypes DEF DataOK
  <2>6. (TypeOK <=> ControlOK /\ DataOK)'
    BY TypeParts, PTL
  <2> QED BY <1>c, <2>4, <2>5, <2>6 DEF IInv, Controlled
<1> QED BY <1>1, <1>2, <1>3, <1>4

LEMMA AdvanceStep == IInv /\ AdvanceNext => IInv'
<1> SUFFICES ASSUME IInv, AdvanceNext PROVE IInv'
  OBVIOUS
<1>c. Controlled
  BY AdvanceControl
<1>d. DataOK /\ Pending
  BY TypeParts DEF IInv
<1> SUFFICES ASSUME NEW p \in Plans,
                    \/ AdvanceHold(p) \/ FailDoomed(p) \/ ClaimTrigger(p) \/ EntryOver(p)
                    \/ Respawn(p) \/ SuspendEntry(p) \/ _tick_suspended(p) \/ EntryEnds(p)
                    \/ PreSpawn(p) \/ Spawn(p) \/ SpawnRefused(p) \/ SpawnRaises(p)
                    \/ _spawn_exit(p) \/ ExitRefused(p) \/ ExitRaises(p) \/ _tick_exiting(p)
                    \/ Checkpoint(p)
             PROVE  IInv'
  BY DEF AdvanceNext
<1>f. /\ ex[p] \in Executor /\ ex[p].rest \in Nat /\ ex[p].unseen \in Nat /\ ex[p].seen \in Nat
      /\ run[p] \in Run /\ run[p].base \in Nat /\ ckpt[p].base \in Nat
      /\ run[p].done \in BOOLEAN /\ run[p].started \in BOOLEAN
      /\ bought[p] \in Nat /\ resting[p] \in Nat /\ sold[p] \in Nat
      /\ sold[p] <= MaxUnits /\ Accounts(p)
  BY Fields
<1>s. /\ resting = [resting EXCEPT ![p] = resting[p]] /\ resting[p] <= resting[p]
      /\ run[p].base <= bought[p]
  BY Still
<1>n. /\ NoRun \in Run /\ NoRun.base <= bought[p] /\ NoRun.base = 0
      /\ NoEx \in Executor
  BY <1>f, EmptyTypes DEF NoRun
<1>1. CASE AdvanceHold(p)
  BY <1>c, <1>1, NoData DEF AdvanceHold
<1>2. CASE FailDoomed(p) \/ SpawnRefused(p) \/ ExitRefused(p)
  <2>1. Finish(p, "failed") /\ UNCHANGED <<ckpt, venue>>
    BY <1>2 DEF FailDoomed, SpawnRefused, ExitRefused
  <2>2. resting' = [resting EXCEPT ![p] = resting[p]] /\ UNCHANGED <<ckpt, bought, sold>>
    BY <2>1, <1>s DEF venue
  <2> QED BY <2>1, <2>2, <1>c, <1>f, <1>s, EndStep
<1>3. CASE ClaimTrigger(p)
  <2>1. CASE UNCHANGED run
    BY <1>c, <1>3, <2>1, NoData DEF ClaimTrigger
  <2>2. CASE run' = [run EXCEPT ![p] = [@ EXCEPT !.phase = "entry"]]
    <3>1. /\ [run[p] EXCEPT !.phase = "entry"] \in Run
          /\ [run[p] EXCEPT !.phase = "entry"].base <= run[p].base
          /\ [run[p] EXCEPT !.phase = "entry"].phase \notin {"none", "waiting"}
      BY <1>f DEF Run, Phases
    <3>2. UNCHANGED <<ckpt, ex, venue>>
      BY <1>3 DEF ClaimTrigger
    <3> QED BY <1>c, <2>2, <3>1, <3>2, PhaseStep
  <2>3. CASE run' = [run EXCEPT ![p] = NoRun]
    <3>1. ex[p].leg = "none" /\ UNCHANGED <<ckpt, ex, venue>>
      BY <1>3, <1>f DEF ClaimTrigger, Advanced, Accounts
    <3>2. NoRun.base <= run[p].base
      BY <1>f, <1>n
    <3> QED BY <1>c, <1>n, <2>3, <3>1, <3>2, PhaseStep
  <2> QED BY <1>3, <2>1, <2>2, <2>3 DEF ClaimTrigger
<1>4. CASE EntryOver(p)
  <2>1. _entry_finished(p, run[p]) /\ UNCHANGED <<ckpt, venue>>
    BY <1>4 DEF EntryOver
  <2>2. resting' = [resting EXCEPT ![p] = resting[p]] /\ UNCHANGED <<ckpt, bought, sold>>
    BY <2>1, <1>s DEF venue
  <2> QED BY <2>1, <2>2, <1>c, <1>f, <1>s, EntryEndStep
<1>5. CASE Respawn(p) \/ _tick_suspended(p)
  <2>1. CASE UNCHANGED run
    BY <1>c, <1>5, <2>1, NoData DEF Respawn, _tick_suspended
  <2>2. ASSUME NEW ph \in {"entry", "suspended"},
               run' = [run EXCEPT ![p] = [@ EXCEPT !.phase = ph]]
        PROVE  IInv'
    <3>1. /\ [run[p] EXCEPT !.phase = ph] \in Run
          /\ [run[p] EXCEPT !.phase = ph].base <= run[p].base
          /\ [run[p] EXCEPT !.phase = ph].phase \notin {"none", "waiting"}
      BY <1>f DEF Run, Phases
    <3>2. UNCHANGED <<ckpt, ex, venue>>
      BY <1>5 DEF Respawn, _tick_suspended
    <3> QED BY <1>c, <2>2, <3>1, <3>2, PhaseStep
  <2> QED BY <1>5, <2>1, <2>2 DEF Respawn, _tick_suspended
<1>6. CASE SuspendEntry(p) \/ EntryEnds(p)
  <2>1. PICK s \in StopOutcomes(p) :
          /\ resting' = [resting EXCEPT ![p] = @ - s.pulled]
          /\ \/ /\ run' = [run EXCEPT ![p] = [@ EXCEPT !.phase = "suspended",
                                                 !.base = run[p].base + s.x.seen]]
                /\ ex' = [ex EXCEPT ![p] = NoEx]
             \/ _entry_finished(p, [run[p] EXCEPT !.done = TRUE, !.base = @ + s.x.seen])
    BY <1>6 DEF SuspendEntry, EntryEnds
  <2>2. ex[p].leg = "entry" /\ UNCHANGED <<ckpt, bought, sold>>
    BY <1>6 DEF SuspendEntry, EntryEnds, Sliced
  <2>3. /\ s.x.seen \in Nat /\ s.x.unseen \in Nat /\ s.x.rest \in Nat
        /\ s.x.seen + s.x.unseen <= ex[p].seen + ex[p].unseen
        /\ s.pulled \in Nat /\ s.x.rest + s.pulled <= ex[p].rest
    BY Stopped
  <2>4. resting[p] - s.pulled \in Nat /\ resting[p] - s.pulled <= resting[p]
    BY <1>f, <2>3 DEF Accounts
  <2>5. run[p].base + s.x.seen <= bought[p] /\ run[p].base + s.x.seen \in Nat
    BY <1>f, <2>2, <2>3 DEF Accounts
  <2>6. CASE /\ run' = [run EXCEPT ![p] = [@ EXCEPT !.phase = "suspended",
                                                   !.base = run[p].base + s.x.seen]]
             /\ ex' = [ex EXCEPT ![p] = NoEx]
    <3> DEFINE r == [run[p] EXCEPT !.phase = "suspended", !.base = run[p].base + s.x.seen]
    <3>1. r \in Run /\ r.base <= bought[p]
      BY <1>f, <2>5 DEF Run, Phases
    <3>2. run' = [run EXCEPT ![p] = r]
      BY <2>6
    <3> HIDE DEF r
    <3> QED BY <1>c, <2>1, <2>2, <2>4, <2>6, <3>1, <3>2, RunStep
  <2>7. CASE _entry_finished(p, [run[p] EXCEPT !.done = TRUE, !.base = @ + s.x.seen])
    <3> DEFINE r == [run[p] EXCEPT !.done = TRUE, !.base = run[p].base + s.x.seen]
    <3>1. r \in Run /\ r.base <= bought[p]
      BY <1>f, <2>5 DEF Run
    <3>2. _entry_finished(p, r)
      BY <2>7
    <3> HIDE DEF r
    <3> QED BY <1>c, <2>1, <2>2, <2>4, <3>1, <3>2, EntryEndStep
  <2> QED BY <2>1, <2>6, <2>7
<1>7. CASE PreSpawn(p)
  <2>1. UNCHANGED venue /\ run[p].phase = "entry"
    BY <1>7, <1>d DEF PreSpawn, Pending
  <2>2. CASE _entry_finished(p, [run[p] EXCEPT !.done = TRUE]) /\ UNCHANGED ckpt
    <3> DEFINE r == [run[p] EXCEPT !.done = TRUE]
    <3>1. r \in Run /\ r.base <= bought[p]
      BY <1>f, <1>s DEF Run
    <3>2. resting' = [resting EXCEPT ![p] = resting[p]] /\ UNCHANGED <<ckpt, bought, sold>>
      BY <2>1, <2>2, <1>s DEF venue
    <3>3. _entry_finished(p, r)
      BY <2>2
    <3> HIDE DEF r
    <3> QED BY <3>1, <3>2, <3>3, <1>c, <1>f, <1>s, EntryEndStep
  <2>3. CASE /\ \E on \in BOOLEAN : run' = [run EXCEPT ![p].started = on]
             /\ ckpt' \in {ckpt, [ckpt EXCEPT ![p] =
                        [started |-> TRUE, done |-> run[p].done, base |-> run[p].base]]}
             /\ UNCHANGED ex
    <3>1. PICK on \in BOOLEAN : run' = [run EXCEPT ![p].started = on]
      BY <2>3
    <3>2. PICK c : ckpt' = [ckpt EXCEPT ![p] = c] /\ c \in Ckpt /\ c.base <= bought[p]
      <4>1. ckpt = [ckpt EXCEPT ![p] = ckpt[p]] /\ ckpt[p] \in Ckpt /\ ckpt[p].base <= bought[p]
        BY <1>d, <1>f DEF DataOK, Accounts
      <4> DEFINE m == [started |-> TRUE, done |-> run[p].done, base |-> run[p].base]
      <4>2. m \in Ckpt /\ m.base = run[p].base
        BY <1>f DEF Ckpt
      <4>3. ckpt' = ckpt \/ ckpt' = [ckpt EXCEPT ![p] = m]
        BY <2>3
      <4> HIDE DEF m
      <4> QED BY <4>1, <4>2, <4>3, <1>s
    <3> DEFINE r == [run[p] EXCEPT !.started = on]
    <3>3. /\ r \in Run /\ r.base = run[p].base /\ r.phase = "entry"
          /\ run' = [run EXCEPT ![p] = r]
      BY <1>f, <2>1, <3>1 DEF Run
    <3> HIDE DEF r
    <3>4. DataOK' /\ Others(p) /\ run'[p] = r /\ ckpt'[p] = c
      BY <1>d, <2>1, <2>3, <3>2, <3>3 DEF DataOK, Others, venue
    <3>5. Accounts(p)'
      BY <1>f, <2>1, <2>3, <3>2, <3>3, <3>4 DEF Accounts, venue
    <3> QED BY <1>c, <3>4, <3>5, OnePlan
  <2> QED BY <1>7, <2>2, <2>3 DEF PreSpawn
<1>8. CASE Spawn(p)
  <2>1. /\ FirstOrder(p) \in Nat \ {0} /\ FirstOrder(p) <= Size
        /\ LaterSlices(p) \in Units
        /\ bought[p] + resting[p] + FirstOrder(p) <= MaxUnits
        /\ UNCHANGED <<ckpt, run, sold>>
        /\ run[p].phase = "entry"
    BY <1>8, <1>d, <1>f, SizeAssumption
    DEF Spawn, Spawning, FirstOrder, LaterSlices, Units, Pending
  <2>2. PICK o \in Placements(p, "entry", FirstOrder(p)) :
         /\ ex' = [ex EXCEPT ![p] = Created("entry", FirstOrder(p), LaterSlices(p), o,
                                            p \in OneShots)]
         /\ resting' = [resting EXCEPT ![p] = @ + o.rest]
         /\ bought' = [bought EXCEPT ![p] = @ + o.k]
    BY <1>8 DEF Spawn
  <2>3. o.k \in Nat /\ o.rest \in Nat /\ o.k + o.rest <= FirstOrder(p) /\ o.told \in BOOLEAN
    BY <2>1, Placed
  <2> DEFINE e == Created("entry", FirstOrder(p), LaterSlices(p), o, p \in OneShots)
  <2>4. /\ e \in Executor /\ e.leg = "entry" /\ e.rest = o.rest
        /\ e.seen \in Nat /\ e.unseen \in Nat /\ e.seen + e.unseen = o.k
    <3>1. {o.k, o.rest, 0} \subseteq Units
      BY <1>f, <2>1, <2>3, SizeAssumption DEF Units
    <3> QED BY <2>1, <2>3, <3>1 DEF Created, Executor
  <2>5. ex' = [ex EXCEPT ![p] = e]
    BY <2>2
  <2> HIDE DEF e
  <2>6. /\ resting[p] + o.rest \in Units /\ bought[p] + o.k \in Units
        /\ bought[p] + o.k + resting[p] + o.rest <= MaxUnits
    BY <1>f, <2>1, <2>3, SizeAssumption DEF Units
  <2>7. /\ DataOK' /\ Others(p) /\ ex'[p] = e
        /\ resting'[p] = resting[p] + o.rest /\ bought'[p] = bought[p] + o.k
    BY <1>d, <2>1, <2>2, <2>4, <2>5, <2>6 DEF DataOK, Others
  <2>8. Accounts(p)'
    BY <1>f, <1>s, <2>1, <2>3, <2>4, <2>6, <2>7 DEF Accounts
  <2> QED BY <1>c, <2>7, <2>8, OnePlan
<1>9. CASE SpawnRaises(p)
  <2>1. PICK o \in Placements(p, "entry", FirstOrder(p)) :
         /\ resting' = [resting EXCEPT ![p] = resting[p] + o.rest]
         /\ bought' = [bought EXCEPT ![p] = bought[p] + o.k]
    BY <1>9 DEF SpawnRaises
  <2>2. FirstOrder(p) \in Nat
    BY SizeAssumption DEF FirstOrder
  <2>3. o.k \in Nat /\ o.rest \in Nat /\ o.k + o.rest <= FirstOrder(p)
    BY <2>2, Placed
  <2>4. /\ bought[p] + resting[p] + FirstOrder(p) <= MaxUnits
        /\ UNCHANGED <<ckpt, run, ex, sold>>
    BY <1>9 DEF SpawnRaises
  <2>5. /\ resting[p] + o.rest \in Units /\ bought[p] + o.k \in Units
        /\ bought[p] + o.k + resting[p] + o.rest <= MaxUnits
    BY <1>f, <2>2, <2>3, <2>4, SizeAssumption DEF Units
  <2>6. /\ DataOK' /\ Others(p)
        /\ resting'[p] = resting[p] + o.rest /\ bought'[p] = bought[p] + o.k
    BY <1>d, <2>1, <2>4, <2>5 DEF DataOK, Others
  <2>7. Accounts(p)'
    BY <1>f, <2>3, <2>4, <2>5, <2>6 DEF Accounts
  <2> QED BY <1>c, <2>6, <2>7, OnePlan
<1>10. CASE _spawn_exit(p)
  <2>1. PICK o \in Placements(p, "exit", run[p].base) :
         /\ ex' = [ex EXCEPT ![p] = Created("exit", run[p].base, 0, o, TRUE)]
         /\ sold' = [sold EXCEPT ![p] = sold[p] + o.k]
    BY <1>10 DEF _spawn_exit, ExitAmount
  <2>2. /\ run' = [run EXCEPT ![p].phase = "exiting"]
        /\ sold[p] + run[p].base <= MaxUnits
        /\ UNCHANGED <<ckpt, resting, bought>>
    BY <1>10 DEF _spawn_exit, ExitAmount
  <2>3. /\ o.k \in Nat /\ o.rest = 0 /\ o.k <= run[p].base /\ o.told \in BOOLEAN
    BY <1>f, Placed
  <2> DEFINE e == Created("exit", run[p].base, 0, o, TRUE)
             r == [run[p] EXCEPT !.phase = "exiting"]
  <2>4. /\ e \in Executor /\ e.leg = "exit" /\ e.rest = 0
        /\ e.seen \in Nat /\ e.unseen \in Nat /\ e.seen + e.unseen = o.k
    <3>1. {o.k, 0} \subseteq Units
      BY <1>f, <2>2, <2>3, SizeAssumption DEF Units
    <3> QED BY <2>3, <3>1, <1>f DEF Created, Executor
  <2>5. r \in Run /\ r.base = run[p].base /\ r.phase = "exiting"
    BY <1>f DEF Run, Phases
  <2>6. ex' = [ex EXCEPT ![p] = e] /\ run' = [run EXCEPT ![p] = r]
    BY <2>1, <2>2
  <2> HIDE DEF e, r
  <2>7. sold[p] + o.k \in Units
    BY <1>f, <2>2, <2>3, SizeAssumption DEF Units
  <2>8. /\ DataOK' /\ Others(p) /\ ex'[p] = e /\ run'[p] = r /\ sold'[p] = sold[p] + o.k
    <3>1. sold' = [sold EXCEPT ![p] = sold[p] + o.k] /\ UNCHANGED <<ckpt, resting, bought>>
      BY <2>1, <2>2
    <3> QED BY <1>d, <2>4, <2>5, <2>6, <2>7, <3>1 DEF DataOK, Others
  <2>9. Accounts(p)'
    BY <1>f, <1>s, <2>2, <2>3, <2>4, <2>5, <2>8 DEF Accounts
  <2> QED BY <1>c, <2>8, <2>9, OnePlan
<1>11. CASE ExitRaises(p)
  <2>1. PICK k \in 1..run[p].base : sold' = [sold EXCEPT ![p] = sold[p] + k]
    BY <1>11 DEF ExitRaises, ExitAmount
  <2>2. sold[p] + run[p].base <= MaxUnits /\ UNCHANGED <<ckpt, run, ex, resting, bought>>
    BY <1>11 DEF ExitRaises, ExitAmount
  <2>3. sold[p] + k \in Units
    BY <1>f, <2>1, <2>2, SizeAssumption DEF Units
  <2>4. DataOK' /\ Others(p) /\ sold'[p] = sold[p] + k
    BY <1>d, <2>1, <2>2, <2>3 DEF DataOK, Others
  <2>5. Accounts(p)'
    BY <1>f, <2>2, <2>4 DEF Accounts
  <2> QED BY <1>c, <2>4, <2>5, OnePlan
<1>12. CASE _tick_exiting(p)
  <2>1. UNCHANGED <<ckpt, venue>>
    BY <1>12 DEF _tick_exiting
  <2>2. resting' = [resting EXCEPT ![p] = resting[p]] /\ UNCHANGED <<ckpt, bought, sold>>
    BY <2>1, <1>s DEF venue
  <2>3. CASE Finish(p, "completed")
    BY <2>2, <2>3, <1>c, <1>f, <1>s, EndStep
  <2>4. CASE /\ ex[p].seen < run[p].base
             /\ run' = [run EXCEPT ![p].phase = "exit_watch",
                                   ![p].base = run[p].base - ex[p].seen]
             /\ ex' = [ex EXCEPT ![p] = NoEx]
    <3> DEFINE r == [run[p] EXCEPT !.phase = "exit_watch", !.base = run[p].base - ex[p].seen]
    <3>1. run[p].base - ex[p].seen \in Nat /\ run[p].base - ex[p].seen <= bought[p]
      BY <1>f, <1>s, <2>4
    <3>2. r \in Run /\ r.base = run[p].base - ex[p].seen
      BY <1>f, <3>1 DEF Run, Phases
    <3>3. run' = [run EXCEPT ![p] = r]
      BY <1>d, <1>f, <2>4 DEF DataOK, Run
    <3> HIDE DEF r
    <3> QED BY <1>c, <1>f, <1>s, <2>2, <2>4, <3>1, <3>2, <3>3, RunStep
  <2> QED BY <1>12, <2>3, <2>4 DEF _tick_exiting
<1>13. CASE Checkpoint(p)
  <2> DEFINE totals == run[p].base + (IF ex[p].leg = "entry" THEN ex[p].seen ELSE 0)
             c == [started |-> run[p].started, done |-> run[p].done, base |-> totals]
  <2>1. UNCHANGED <<run, ex, venue>> /\ (ckpt' = [ckpt EXCEPT ![p] = c] \/ UNCHANGED ckpt)
    BY <1>13 DEF Checkpoint
  <2>2. totals \in Nat /\ totals <= bought[p]
    BY <1>f DEF Accounts
  <2> HIDE DEF totals
  <2>3. c \in Ckpt /\ c.base = totals
    BY <1>f, <2>2 DEF Ckpt
  <2> HIDE DEF c
  <2>4. CASE UNCHANGED ckpt
    BY <1>c, <2>1, <2>4, NoData
  <2>5. CASE ckpt' = [ckpt EXCEPT ![p] = c]
    <3>1. DataOK' /\ Others(p) /\ ckpt'[p] = c
      BY <1>d, <2>1, <2>3, <2>5 DEF DataOK, Others, venue
    <3>2. Accounts(p)'
      BY <1>f, <2>1, <2>2, <2>3, <3>1 DEF Accounts, venue
    <3> QED BY <1>c, <3>1, <3>2, OnePlan
  <2> QED BY <2>1, <2>4, <2>5
<1> QED BY <1>1, <1>2, <1>3, <1>4, <1>5, <1>6, <1>7, <1>8, <1>9, <1>10, <1>11, <1>12, <1>13

LEMMA FillStep == ASSUME IInv, NEW p \in Plans, Fill(p) PROVE IInv'
<1>c. Controlled
  <2>1. ControlOK /\ Pending
    BY TypeParts DEF IInv
  <2>2. UNCHANGED <<status, run, process, tick>>
    BY DEF Fill
  <2> QED BY <2>1, <2>2 DEF Controlled, ControlOK, Pending, process
<1>d. DataOK
  BY TypeParts DEF IInv
<1>f. /\ ex[p] \in Executor /\ ex[p].rest \in Nat /\ ex[p].unseen \in Nat /\ ex[p].seen \in Nat
      /\ run[p].base \in Nat /\ ckpt[p].base \in Nat
      /\ bought[p] \in Nat /\ resting[p] \in Nat /\ sold[p] \in Nat
      /\ ex[p].seen + ex[p].unseen <= MaxUnits /\ Accounts(p)
  BY Fields
<1>1. /\ resting[p] > 0 /\ UNCHANGED <<ckpt, run, sold>>
      /\ resting' = [resting EXCEPT ![p] = resting[p] - 1]
      /\ bought' = [bought EXCEPT ![p] = bought[p] + 1]
  BY DEF Fill
<1>2. resting[p] - 1 \in Units /\ bought[p] + 1 \in Units
  BY <1>f, <1>1, SizeAssumption DEF Accounts, Units
<1>3. CASE ex[p].leg = "entry" /\ ex[p].rest > 0 /\
           ex' = [ex EXCEPT ![p].rest = ex[p].rest - 1, ![p].unseen = ex[p].unseen + 1]
  <2> DEFINE e == [ex[p] EXCEPT !.rest = ex[p].rest - 1, !.unseen = ex[p].unseen + 1]
  <2>1. ex[p].rest - 1 \in Units /\ ex[p].unseen + 1 \in Units
    BY <1>f, <1>3, <1>1, SizeAssumption DEF Accounts, Units
  <2>2. /\ e \in Executor /\ e.leg = "entry" /\ e.rest = ex[p].rest - 1
        /\ e.unseen = ex[p].unseen + 1 /\ e.seen = ex[p].seen
    BY <1>f, <1>3, <2>1 DEF Executor
  <2>3. ex' = [ex EXCEPT ![p] = e]
    BY <1>d, <1>f, <1>3 DEF DataOK, Executor
  <2> HIDE DEF e
  <2>4. /\ DataOK' /\ Others(p) /\ ex'[p] = e
        /\ resting'[p] = resting[p] - 1 /\ bought'[p] = bought[p] + 1
    BY <1>d, <1>1, <1>2, <2>2, <2>3 DEF DataOK, Others
  <2>5. Accounts(p)'
    BY <1>f, <1>1, <1>3, <2>2, <2>4, SizeAssumption DEF Accounts
  <2> QED BY <1>c, <2>4, <2>5, OnePlan
<1>4. CASE resting[p] > ex[p].rest /\ UNCHANGED ex
  <2>1. /\ DataOK' /\ Others(p)
        /\ resting'[p] = resting[p] - 1 /\ bought'[p] = bought[p] + 1
    BY <1>d, <1>1, <1>2, <1>4 DEF DataOK, Others
  <2>2. Accounts(p)'
    BY <1>f, <1>1, <1>4, <2>1, SizeAssumption DEF Accounts
  <2> QED BY <1>c, <2>1, <2>2, OnePlan
<1> QED BY <1>3, <1>4 DEF Fill

LEMMA CrashStep == IInv /\ Crash => IInv'
<1> SUFFICES ASSUME IInv, Crash PROVE IInv'
  OBVIOUS
<1>1. ControlOK /\ DataOK
  BY TypeParts DEF IInv
<1>2. /\ run' = [p \in Plans |-> NoRun] /\ ex' = [p \in Plans |-> NoEx]
      /\ session' = "none" /\ stood' = FALSE /\ tick' = IdleTick
      /\ earlier' \in SUBSET Plans /\ restarts' = restarts + 1 /\ restarts < MaxRestarts
      /\ UNCHANGED <<status, ckpt, resting, bought, sold>>
  BY DEF Crash, venue
<1>3. restarts' \in 0..MaxRestarts
  BY <1>1, <1>2, ResumeAssumption DEF ControlOK
<1>4. ControlOK' /\ Pending'
  BY <1>1, <1>2, <1>3, IdleTickType DEF ControlOK, Pending
<1>5. DataOK'
  BY <1>1, <1>2, EmptyTypes DEF DataOK
<1>6. ASSUME NEW p \in Plans PROVE Accounts(p)'
  <2>1. /\ bought[p] \in Nat /\ resting[p] \in Nat /\ sold[p] \in Nat
        /\ bought[p] + resting[p] <= MaxUnits /\ ckpt[p].base <= bought[p]
    BY Fields DEF Accounts
  <2> QED BY <1>2, <2>1 DEF Accounts, NoRun, NoEx
<1>7. (TypeOK <=> ControlOK /\ DataOK)'
  BY TypeParts, PTL
<1> QED BY <1>4, <1>5, <1>6, <1>7 DEF IInv

LEMMA InitIInv == Init => IInv
<1> SUFFICES ASSUME Init PROVE IInv
  OBVIOUS
<1>1. /\ status = [p \in Plans |-> "none"] /\ "none" \in Statuses
      /\ session = "none" /\ stood = FALSE /\ tick = IdleTick /\ earlier = {} /\ restarts = 0
  BY DEF Init, Statuses
<1>2. ControlOK /\ Pending
  <2>1. status \in [Plans -> Statuses]
    BY <1>1
  <2>2. tick \in Ticks /\ tick.pc = "idle"
    BY <1>1, IdleTickType
  <2>3. restarts \in 0..MaxRestarts
    BY <1>1, ResumeAssumption
  <2> QED BY <1>1, <2>1, <2>2, <2>3 DEF ControlOK, Pending
<1>3. DataOK
  <2>1. 0 \in Units
    BY SizeAssumption DEF Units
  <2> QED BY <2>1, EmptyTypes DEF Init, DataOK
<1>4. ASSUME NEW p \in Plans PROVE Accounts(p)
  BY SizeAssumption DEF Init, Accounts, NoRun, NoEx, NoCkpt
<1> QED BY <1>2, <1>3, <1>4, TypeParts DEF IInv

LEMMA IInvStep == IInv /\ [Next]_vars => IInv'
<1> SUFFICES ASSUME IInv, [Next]_vars PROVE IInv'
  OBVIOUS
<1>1. CASE UserNext
  <2>1. UNCHANGED <<ckpt, run, ex, venue>>
    BY <1>1 DEF UserNext, insert_draft, confirm_plan, discard_draft, cancel_plan
  <2> QED BY <1>1, <2>1, UserControl, NoData
<1>2. CASE tick_desk_runner
  <2>1. CASE DriveNext \/ AdvanceNext
    BY <2>1, DriveStep, AdvanceStep
  <2> QED BY <1>2, <2>1, RunnerStep DEF tick_desk_runner
<1>3. CASE \E p \in Plans : Fill(p)
  BY <1>3, FillStep
<1>4. CASE Crash
  BY <1>4, CrashStep
<1>5. CASE UNCHANGED vars
  BY <1>5 DEF vars, IInv, TypeOK, Pending, Accounts
<1> QED BY <1>1, <1>2, <1>3, <1>4, <1>5 DEF Next

\* Every state of the plans has its type: in particular no step takes the units
\* of a plan, on the book, bought, sold or counted, out of their range.
THEOREM TypeCorrect == Spec => []TypeOK
<1>1. IInv => TypeOK
  BY DEF IInv
<1> QED BY <1>1, InitIInv, IInvStep, PTL DEF Spec

\* FillsAreReal for any set of failing calls, any number of restarts and either
\* redeploy contract: no suspension, absorption, stop, recovery or retry of an
\* entry counts a fill the venue did not report (_tick_entry, executor_totals,
\* _recover).
THEOREM CountsRealFills == Spec => []FillsAreReal
<1>1. IInv => FillsAreReal
  BY Fields DEF FillsAreReal, Accounts
<1> QED BY <1>1, InitIInv, IInvStep, PTL DEF Spec

-----------------------------------------------------------------------------
(* How a row's status moves, and which plan a step touches *)

LEMMA FinishMoves ==
  ASSUME status \in [Plans -> Statuses], NEW p \in Plans, NEW s, Finish(p, s), NEW q \in Plans
  PROVE  status'[q] = status[q] \/ (q = p /\ p \in Active /\ status'[q] = s)
<1>1. PICK written \in BOOLEAN :
        status' = IF written /\ p \in Active THEN [status EXCEPT ![p] = s] ELSE status
  BY SucceedsBoolean DEF Finish
<1> QED BY <1>1

\* A confirmed plan never becomes a draft again, an ended one never active again,
\* and a running one never waits again.
LEMMA StatusMoves ==
  ASSUME IInv, [Next]_vars, NEW q \in Plans
  PROVE  \/ status'[q] = status[q]
         \/ /\ status[q] \in {"none", "draft"}
            /\ status'[q] \in {"none", "draft", "awaiting_trigger"}
         \/ q \in Active /\ status'[q] \in {"completed", "cancelled", "failed"}
         \/ status[q] = "awaiting_trigger" /\ status'[q] = "running"
<1>1. status \in [Plans -> Statuses]
  BY DEF IInv, TypeOK
<1>2. CASE UserNext
  <2>1. PICK p \in Plans :
          insert_draft(p) \/ confirm_plan(p) \/ discard_draft(p) \/ cancel_plan(p)
    BY <1>2 DEF UserNext
  <2> QED BY <1>1, <2>1
          DEF insert_draft, confirm_plan, discard_draft, cancel_plan, Active, ACTIVE_STATUSES
<1>3. CASE DriveNext
  <2>1. UNCHANGED status
    BY <1>3 DEF DriveNext, DriveHold, DriveFails, DriveRead, DriveRaises, _advanceSlice,
                SliceRefused, _finalize
  <2> QED BY <2>1
<1>4. CASE AdvanceNext
  <2>1. PICK p \in Plans :
          \/ FailDoomed(p) \/ ClaimTrigger(p) \/ EntryOver(p) \/ EntryEnds(p)
          \/ PreSpawn(p) \/ SpawnRefused(p) \/ ExitRefused(p) \/ _tick_exiting(p)
          \/ UNCHANGED status
    BY <1>4 DEF AdvanceNext, AdvanceHold, Respawn, SuspendEntry, _tick_suspended, Spawn,
                SpawnRaises, _spawn_exit, ExitRaises, Checkpoint
  <2>2. CASE Finish(p, "failed") \/ Finish(p, "completed")
    BY <1>1, <2>2, FinishMoves
  <2>3. CASE ClaimTrigger(p)
    BY <1>1, <2>3 DEF ClaimTrigger
  <2> QED BY <2>1, <2>2, <2>3
          DEF FailDoomed, EntryOver, EntryEnds, PreSpawn, SpawnRefused, ExitRefused,
              _tick_exiting, _entry_finished
<1>5. ASSUME NEW p \in Plans, BootPark(p) PROVE
        status'[q] = status[q] \/ (q \in Active /\ status'[q] = "cancelled")
  <2>1. PICK written \in BOOLEAN :
          status' = IF written /\ p \in Active THEN [status EXCEPT ![p] = "cancelled"] ELSE status
    BY <1>5, SucceedsBoolean DEF BootPark
  <2> QED BY <1>1, <2>1
<1>6. CASE /\ ~UserNext /\ ~DriveNext /\ ~AdvanceNext
           /\ ~(\E p \in Plans : BootPark(p))
  <2>1. UNCHANGED status
    BY <1>6 DEF Next, tick_desk_runner, BootScan, EnsureSession, StopSession, ReconcileFails,
                NextStage, _reconcile, Fill, Crash, vars
  <2> QED BY <2>1
<1> QED BY <1>2, <1>3, <1>4, <1>5, <1>6

\* A stage of the phase machine touches the run and the executor of one plan,
\* which has a run; the stage stays in the phase machine.
LEMMA AdvanceTouches ==
  ASSUME IInv, AdvanceNext
  PROVE  /\ \/ UNCHANGED <<run, ex>>
            \/ \E p \in HasRun : \A q \in Plans \ {p} : run'[q] = run[q] /\ ex'[q] = ex[q]
         /\ tick.pc \in {"advance", "prespawn", "spawn", "checkpoint"}
         /\ tick'.pc \in {"advance", "prespawn", "spawn", "checkpoint"}
         /\ UNCHANGED <<session, stood, earlier, restarts>>
<1>1. PICK p \in Plans :
        \/ AdvanceHold(p) \/ FailDoomed(p) \/ ClaimTrigger(p) \/ EntryOver(p)
        \/ Respawn(p) \/ SuspendEntry(p) \/ _tick_suspended(p) \/ EntryEnds(p)
        \/ PreSpawn(p) \/ Spawn(p) \/ SpawnRefused(p) \/ SpawnRaises(p)
        \/ _spawn_exit(p) \/ ExitRefused(p) \/ ExitRaises(p) \/ _tick_exiting(p)
        \/ Checkpoint(p)
  BY DEF AdvanceNext
<1>2. /\ run \in [Plans -> Run] /\ ex \in [Plans -> Executor] /\ tick \in Ticks /\ Pending
  BY DEF IInv, TypeOK, Ticks
<1>3. UNCHANGED process
  BY <1>1
  DEF AdvanceHold, FailDoomed, ClaimTrigger, EntryOver, Respawn, SuspendEntry,
      _tick_suspended, EntryEnds, PreSpawn, Spawn, SpawnRefused, SpawnRaises, _spawn_exit,
      ExitRefused, ExitRaises, _tick_exiting, Checkpoint
<1>4. tick.pc \in {"advance", "prespawn", "spawn", "checkpoint"}
  BY <1>1
  DEF AdvanceHold, FailDoomed, ClaimTrigger, EntryOver, Respawn, SuspendEntry,
      _tick_suspended, EntryEnds, PreSpawn, Spawn, SpawnRefused, SpawnRaises, _spawn_exit,
      ExitRefused, ExitRaises, _tick_exiting, Checkpoint, Advanced, Spawning
<1>5. tick'.pc \in {"advance", "prespawn", "spawn", "checkpoint"}
  <2>1. CASE DoneWith(p)
    BY <1>2, <1>4, <2>1, DoneWithTick
  <2>2. CASE Spawned
    BY <1>2, <2>2, SpawnedTick
  <2>3. CASE \/ tick' = [tick EXCEPT !.todo = @ \ {p}, !.pc = "prespawn", !.plan = p]
             \/ tick' = [tick EXCEPT !.pc = "advance", !.plan = NoPlan]
             \/ tick' = [tick EXCEPT !.pc = "spawn"]
    BY <1>2, <2>3 DEF Ticks
  <2> QED BY <1>1, <2>1, <2>2, <2>3
  DEF AdvanceHold, FailDoomed, ClaimTrigger, EntryOver, Respawn, SuspendEntry,
      _tick_suspended, EntryEnds, PreSpawn, Spawn, SpawnRefused, SpawnRaises, _spawn_exit,
      ExitRefused, ExitRaises, _tick_exiting, Checkpoint
<1>6. CASE UNCHANGED <<run, ex>>
  BY <1>3, <1>4, <1>5, <1>6 DEF process
<1>7. CASE ~UNCHANGED <<run, ex>>
  <2>1. p \in HasRun
    BY <1>1, <1>2, <1>7
    DEF AdvanceHold, FailDoomed, ClaimTrigger, EntryOver, Respawn, SuspendEntry,
        _tick_suspended, EntryEnds, PreSpawn, Spawn, SpawnRefused, SpawnRaises, _spawn_exit,
        ExitRefused, ExitRaises, _tick_exiting, Checkpoint, Advanced, Spawning, Pending, HasRun
  <2>2. ASSUME NEW q \in Plans \ {p} PROVE run'[q] = run[q] /\ ex'[q] = ex[q]
    BY <1>1, <1>2
    DEF AdvanceHold, FailDoomed, ClaimTrigger, EntryOver, Respawn, SuspendEntry,
        _tick_suspended, EntryEnds, PreSpawn, Spawn, SpawnRefused, SpawnRaises, _spawn_exit,
        ExitRefused, ExitRaises, _tick_exiting, Checkpoint, Finish, _entry_finished
  <2> QED BY <1>3, <1>4, <1>5, <2>1, <2>2 DEF process
<1> QED BY <1>6, <1>7

\* Driving touches executors that are alive only.
LEMMA DriveTouches ==
  ASSUME IInv, DriveNext
  PROVE  /\ \A q \in Plans : ex[q].dead => ex'[q] = ex[q]
         /\ tick.pc = "drive" /\ tick'.pc \in {"drive", "idle"}
         /\ UNCHANGED <<status, ckpt, run, sold, stood, earlier, restarts>>
<1>1. PICK p \in Plans :
        \/ DriveHold(p) \/ DriveFails(p) \/ DriveRead(p) \/ DriveRaises(p)
        \/ _advanceSlice(p) \/ SliceRefused(p) \/ _finalize(p)
  BY DEF DriveNext
<1>2. ex \in [Plans -> Executor] /\ tick \in Ticks
  BY DEF IInv, TypeOK, Ticks
<1>3. /\ tick.pc = "drive" /\ UNCHANGED <<status, ckpt, run, sold, stood, earlier, restarts>>
      /\ UNCHANGED ex \/ ~ex[p].dead
  BY <1>1 DEF DriveHold, DriveFails, DriveRead, DriveRaises, _advanceSlice, SliceRefused,
              _finalize, Driven, process, venue
<1>4. tick'.pc \in {"drive", "idle"}
  BY <1>1, <1>2, <1>3, DoneWithTick, IdleTickType
  DEF DriveHold, DriveFails, DriveRead, DriveRaises, _advanceSlice, SliceRefused, _finalize
<1>5. ASSUME NEW q \in Plans \ {p} PROVE ex'[q] = ex[q]
  BY <1>1, <1>2
  DEF DriveHold, DriveFails, DriveRead, DriveRaises, _advanceSlice, SliceRefused, _finalize
<1> QED BY <1>3, <1>4, <1>5

-----------------------------------------------------------------------------
(* The default redeploy contract *)

\* Until the stand-down is done the runner does nothing else, and it is done when
\* no plan of an earlier life is active.
LifeInv ==
    /\ \A p \in earlier : /\ status[p] \notin {"none", "draft"}
                          /\ p \notin HasRun /\ p \notin Alive
    /\ stood => earlier \cap Active = {}
    /\ tick.pc = "boot" => ~stood /\ earlier \cap Active \subseteq tick.todo
    /\ tick.pc \notin {"idle", "boot"} => stood

LEMMA LifeStep == ~Resume /\ IInv /\ LifeInv /\ [Next]_vars => LifeInv'
<1> SUFFICES ASSUME ~Resume, IInv, LifeInv, [Next]_vars PROVE LifeInv'
  OBVIOUS
<1>t. /\ status \in [Plans -> Statuses] /\ tick \in Ticks /\ earlier \in SUBSET Plans
      /\ stood \in BOOLEAN /\ run \in [Plans -> Run] /\ ex \in [Plans -> Executor]
  BY DEF IInv, TypeOK, Ticks
<1>1. CASE ~Crash
  <2>e. UNCHANGED earlier
    BY <1>1, DriveTouches, AdvanceTouches
    DEF Next, UserNext, tick_desk_runner, insert_draft, confirm_plan, discard_draft, cancel_plan,
        BootScan, BootPark, EnsureSession, StopSession, ReconcileFails, NextStage, _reconcile,
        Fill, vars, process
  <2>1. \A q \in earlier : /\ status'[q] \notin {"none", "draft"}
                           /\ q \in Active' => q \in Active
    <3> SUFFICES ASSUME NEW q \in earlier
                 PROVE  /\ status'[q] \notin {"none", "draft"}
                        /\ q \in Active' => q \in Active
      OBVIOUS
    <3>1. q \in Plans /\ status[q] \notin {"none", "draft"}
      BY <1>t DEF LifeInv
    <3> QED BY <3>1, StatusMoves DEF Active, ACTIVE_STATUSES
  <2> DEFINE Runless == \A q \in earlier : q \notin HasRun' /\ q \notin Alive'
             Boot == /\ stood' => earlier \cap Active' = {}
                     /\ tick'.pc = "boot" => ~stood' /\ earlier \cap Active' \subseteq tick'.todo
                     /\ tick'.pc \notin {"idle", "boot"} => stood'
  <2>2. SUFFICES Runless /\ Boot
    BY <2>e, <2>1 DEF LifeInv
  <2>3. CASE UNCHANGED <<run, ex, stood, tick>>
    BY <2>1, <2>3 DEF LifeInv, HasRun, Alive
  <2>4. CASE UserNext \/ (\E p \in Plans : Fill(p))
    <3>1. UNCHANGED <<run, stood, tick>>
      BY <2>4 DEF UserNext, insert_draft, confirm_plan, discard_draft, cancel_plan, Fill, process
    <3>2. \A q \in Plans : ex'[q].dead = ex[q].dead
      <4>1. CASE UNCHANGED ex
        BY <4>1
      <4>2. ASSUME NEW p \in Plans,
                   ex' = [ex EXCEPT ![p].rest = ex[p].rest - 1, ![p].unseen = ex[p].unseen + 1]
            PROVE  \A q \in Plans : ex'[q].dead = ex[q].dead
        BY <1>t, <4>2 DEF Executor
      <4> QED BY <2>4, <4>1, <4>2
              DEF UserNext, insert_draft, confirm_plan, discard_draft, cancel_plan, Fill
    <3> QED BY <2>1, <3>1, <3>2 DEF LifeInv, HasRun, Alive
  <2>5. CASE DriveNext
    <3>1. /\ \A q \in Plans : ex[q].dead => ex'[q] = ex[q]
          /\ tick.pc = "drive" /\ tick'.pc \in {"drive", "idle"}
          /\ UNCHANGED <<run, stood>>
      BY <2>5, DriveTouches
    <3> QED BY <1>t, <2>1, <3>1 DEF LifeInv, HasRun, Alive
  <2>6. CASE AdvanceNext
    <3>1. /\ \/ UNCHANGED <<run, ex>>
             \/ \E p \in HasRun : \A q \in Plans \ {p} : run'[q] = run[q] /\ ex'[q] = ex[q]
          /\ tick.pc \in {"advance", "prespawn", "spawn", "checkpoint"}
          /\ tick'.pc \in {"advance", "prespawn", "spawn", "checkpoint"}
          /\ UNCHANGED stood
      BY <2>6, AdvanceTouches
    <3>2. Runless
      BY <1>t, <3>1 DEF LifeInv, HasRun, Alive
    <3> QED BY <2>1, <3>1, <3>2 DEF LifeInv
  <2>7. CASE BootScan
    <3>1. Runless
      BY <2>7 DEF BootScan, LifeInv, HasRun, Alive
    <3>2. CASE Active = {} /\ stood' = TRUE /\ UNCHANGED tick
      BY <2>1, <2>7, <3>1, <3>2 DEF BootScan, LifeInv
    <3>3. CASE tick' = [IdleTick EXCEPT !.pc = "boot", !.todo = Active] /\ UNCHANGED stood
      <4>1. tick'.pc = "boot" /\ tick'.todo = Active
        BY <3>3, IdleTickType DEF Ticks
      <4>2. ~stood
        BY <2>7 DEF BootScan
      <4> QED BY <2>1, <3>1, <3>3, <4>1, <4>2
    <3> QED BY <2>7, <3>2, <3>3 DEF BootScan
  <2>8. ASSUME NEW p \in Plans, BootPark(p) PROVE Runless /\ Boot
    <3>1. PICK written \in BOOLEAN :
         /\ status' = IF written /\ p \in Active
                      THEN [status EXCEPT ![p] = "cancelled"] ELSE status
         /\ stood' = (written /\ tick.todo = {p})
         /\ tick' = IF written /\ tick.todo # {p}
                    THEN [tick EXCEPT !.todo = @ \ {p}] ELSE IdleTick
      BY <2>8, SucceedsBoolean DEF BootPark
    <3>2. tick.pc = "boot" /\ ~stood /\ earlier \cap Active \subseteq tick.todo
      BY <2>8 DEF BootPark, LifeInv
    <3>3. Runless
      BY <2>8 DEF BootPark, LifeInv, HasRun, Alive
    <3>4. written => p \notin Active'
      BY <1>t, <3>1 DEF Active, ACTIVE_STATUSES
    <3>5. CASE written /\ tick.todo # {p}
      <4>1. tick'.pc = "boot" /\ tick'.todo = tick.todo \ {p}
        BY <1>t, <3>1, <3>2, <3>5 DEF Ticks
      <4>2. ~stood'
        BY <3>1, <3>5
      <4> QED BY <2>1, <3>2, <3>3, <3>4, <3>5, <4>1, <4>2
    <3>6. CASE ~(written /\ tick.todo # {p})
      <4>1. tick'.pc = "idle"
        BY <3>1, <3>6, IdleTickType
      <4>2. stood' => earlier \cap Active' = {}
        BY <2>1, <3>1, <3>2, <3>4
      <4> QED BY <3>3, <4>1, <4>2
    <3> QED BY <3>5, <3>6
  <2>9. CASE EnsureSession
    <3>1. stood /\ UNCHANGED <<stood, run, ex>> /\ tick' = [IdleTick EXCEPT !.pc = "reconcile", !.todo = Plans]
      BY <2>9 DEF EnsureSession
    <3>2. tick'.pc = "reconcile"
      BY <3>1, IdleTickType DEF Ticks
    <3> QED BY <2>1, <3>1, <3>2 DEF LifeInv, HasRun, Alive
  <2>10. CASE StopSession
    <3>1. Runless
      BY <1>t, <2>10 DEF StopSession, HasRun, Alive, NoRun, NoEx
    <3>2. UNCHANGED <<stood, tick>>
      BY <2>10 DEF StopSession
    <3> QED BY <2>1, <3>1, <3>2 DEF LifeInv
  <2>11. CASE ReconcileFails \/ NextStage
    <3>1. UNCHANGED <<stood, run, ex>> /\ tick.pc \notin {"idle", "boot"}
      BY <2>11 DEF ReconcileFails, NextStage, process
    <3>2. tick'.pc # "boot"
      <4>1. CASE ReconcileFails
        BY <1>t, <4>1 DEF ReconcileFails, Ticks
      <4>2. CASE NextStage
        <5>1. \/ tick' = [tick EXCEPT !.pc = "drive", !.todo = Alive]
              \/ tick' = [tick EXCEPT !.pc = "advance", !.todo = HasRun]
              \/ tick' = [tick EXCEPT !.pc = "checkpoint", !.todo = HasRun]
              \/ tick' = IdleTick
          BY <4>2 DEF NextStage
        <5> QED BY <1>t, <5>1, IdleTickType DEF Ticks
      <4> QED BY <2>11, <4>1, <4>2
    <3> QED BY <2>1, <3>1, <3>2 DEF LifeInv, HasRun, Alive
  <2>12. ASSUME NEW p \in Plans, _reconcile(p) PROVE Runless /\ Boot
    <3>1. tick'.pc = "reconcile" /\ tick.pc = "reconcile" /\ UNCHANGED stood
      BY <1>t, <2>12, DoneWithTick DEF _reconcile, DoneWith, process
    <3>2. stood /\ earlier \cap Active = {}
      BY <3>1 DEF LifeInv
    <3>3. Runless
      <4>1. CASE p \in Active /\ UNCHANGED ex
        <5>1. \A q \in Plans \ {p} : run'[q] = run[q]
          BY <1>t, <2>12 DEF _reconcile
        <5> QED BY <1>t, <3>2, <4>1, <5>1 DEF LifeInv, HasRun, Alive
      <4>2. CASE run' = [run EXCEPT ![p] = NoRun] /\ ex' = [ex EXCEPT ![p] = NoEx]
        BY <1>t, <4>2 DEF LifeInv, HasRun, Alive, NoRun, NoEx
      <4>3. CASE UNCHANGED <<run, ex>>
        BY <4>3 DEF LifeInv, HasRun, Alive
      <4> QED BY <2>12, <4>1, <4>2, <4>3 DEF _reconcile
    <3> QED BY <2>1, <3>1, <3>2, <3>3
  <2> QED BY <1>1, <2>3, <2>4, <2>5, <2>6, <2>7, <2>8, <2>9, <2>10, <2>11, <2>12
          DEF Next, tick_desk_runner, vars
<1>2. CASE Crash
  <2>1. /\ run' = [p \in Plans |-> NoRun] /\ ex' = [p \in Plans |-> NoEx]
        /\ stood' = FALSE /\ tick' = IdleTick /\ UNCHANGED status
        /\ earlier' = {p \in Plans : status[p] \notin {"none", "draft"}}
    BY <1>2 DEF Crash
  <2>2. tick'.pc = "idle"
    BY <2>1, IdleTickType
  <2> QED BY <2>1, <2>2 DEF LifeInv, HasRun, Alive, NoRun, NoEx
<1> QED BY <1>1, <1>2

\* With the default redeploy contract (Resume off) no plan of an earlier life of
\* the process is attached again, whatever writes of the stand-down fail and
\* wherever the process dies (_stand_down_on_boot, tick_desk_runner).
THEOREM EarlierPlansStay == ASSUME ~Resume PROVE Spec => []NoTradeFromEarlierLife
<1>1. Init => LifeInv
  <2> SUFFICES ASSUME Init PROVE LifeInv
    OBVIOUS
  <2>1. earlier = {} /\ tick.pc = "idle"
    BY IdleTickType DEF Init
  <2> QED BY <2>1 DEF LifeInv
<1>2. LifeInv => NoTradeFromEarlierLife
  BY SMTT(30) DEF LifeInv, NoTradeFromEarlierLife
<1> QED BY <1>1, <1>2, LifeStep, InitIInv, IInvStep, PTL DEF Spec

-----------------------------------------------------------------------------
(* One-shot entries are placed once *)

Unclaimed == {"none", "draft", "awaiting_trigger"}
Spawns(p) == tick.pc \in {"prespawn", "spawn"} /\ tick.plan = p

\* What is true of a one-shot plan once its order may be on the book: the claim
\* and the checkpoint that say so are durable, and its run, if it has one, knows.
Committed(p) ==
    /\ status[p] \notin Unclaimed
    /\ ckpt[p].started
    /\ ~Spawns(p)
    /\ run[p].phase # "none" => run[p].started /\ run[p].phase # "waiting"
    /\ run[p].phase \in {"entry", "suspended"} => run[p].done \/ ex[p].leg = "entry"

\* Nothing is ordered before that, and the placement comes after both writes.
Once(p) ==
    /\ bought[p] + resting[p] <= Size
    /\ bought[p] + resting[p] > 0 => Committed(p)
    /\ run[p].phase \notin {"none", "waiting"} => status[p] \notin Unclaimed
    /\ Spawns(p) /\ tick.pc = "spawn" => run[p].started /\ ckpt[p].started
    /\ tick.pc = "checkpoint" /\ p \in tick.todo => run[p].phase # "none"

\* A stage of the phase machine for plan p names no other plan to spawn, and only
\* the checkpoints come after the checkpoints.
LEMMA AdvanceTick ==
  ASSUME IInv, NEW p \in Plans,
         \/ AdvanceHold(p) \/ FailDoomed(p) \/ ClaimTrigger(p) \/ EntryOver(p)
         \/ Respawn(p) \/ SuspendEntry(p) \/ _tick_suspended(p) \/ EntryEnds(p)
         \/ PreSpawn(p) \/ Spawn(p) \/ SpawnRefused(p) \/ SpawnRaises(p)
         \/ _spawn_exit(p) \/ ExitRefused(p) \/ ExitRaises(p) \/ _tick_exiting(p)
         \/ Checkpoint(p)
  PROVE  /\ tick'.pc \in {"prespawn", "spawn"} => tick'.plan = p
         /\ tick'.pc = "checkpoint" =>
              Checkpoint(p) /\ tick.pc = "checkpoint" /\ tick'.todo \subseteq tick.todo
<1>t. tick \in Ticks
  BY DEF IInv, TypeOK, Ticks
<1>1. CASE Checkpoint(p)
  <2>1. tick'.pc = "checkpoint" /\ tick.pc = "checkpoint" /\ tick'.todo \subseteq tick.todo
    BY <1>t, <1>1 DEF Checkpoint, DoneWith, Ticks
  <2> QED BY <2>1, <1>1
<1>2. CASE DoneWith(p) /\ tick.pc = "advance"
  BY <1>t, <1>2, DoneWithTick
<1>3. CASE Spawned
  BY <1>t, <1>3, SpawnedTick
<1>4. CASE tick' = [tick EXCEPT !.todo = @ \ {p}, !.pc = "prespawn", !.plan = p]
  BY <1>t, <1>4 DEF Ticks
<1>5. CASE PreSpawn(p)
  BY <1>t, <1>5 DEF PreSpawn, Ticks
<1> QED BY <1>1, <1>2, <1>3, <1>4, <1>5
  DEF AdvanceHold, FailDoomed, ClaimTrigger, EntryOver, Respawn, SuspendEntry,
      _tick_suspended, EntryEnds, Spawn, SpawnRefused, SpawnRaises, _spawn_exit,
      ExitRefused, ExitRaises, _tick_exiting, Advanced

LEMMA ClaimedStays ==
  ASSUME IInv, [Next]_vars, NEW q \in Plans, status[q] \notin Unclaimed
  PROVE  status'[q] \notin Unclaimed
  BY StatusMoves DEF Unclaimed

\* Nothing Once reads of q has moved, but that less of it may rest.
LEMMA OnceSame ==
  ASSUME IInv, [Next]_vars, NEW q \in Plans, Once(q),
         run'[q] = run[q] \/ run'[q].phase = "none",
         run'[q] = run[q] => ex'[q].leg = ex[q].leg,
         ckpt'[q].started = ckpt[q].started,
         bought'[q] \in Nat, resting'[q] \in Nat,
         bought'[q] + resting'[q] <= bought[q] + resting[q],
         Spawns(q)' => tick' = tick /\ run'[q] = run[q],
         tick'.pc = "checkpoint" /\ q \in tick'.todo => run'[q].phase # "none"
  PROVE  Once(q)'
<1>1. bought[q] \in Nat /\ resting[q] \in Nat
  BY Fields
<1>2. bought'[q] + resting'[q] <= Size
  BY <1>1, SizeAssumption DEF Once
<1>3. ASSUME bought'[q] + resting'[q] > 0 PROVE Committed(q)'
  <2>1. Committed(q)
    BY <1>1, <1>3 DEF Once
  <2>2. status'[q] \notin Unclaimed
    BY <2>1, ClaimedStays DEF Committed
  <2> QED BY <2>1, <2>2 DEF Committed, Spawns
<1>4. run'[q].phase \notin {"none", "waiting"} => status'[q] \notin Unclaimed
  BY ClaimedStays DEF Once
<1>5. (Spawns(q) /\ tick.pc = "spawn")' => run'[q].started /\ ckpt'[q].started
  BY DEF Once, Spawns
<1> QED BY <1>2, <1>3, <1>4, <1>5 DEF Once

\* q's run moves on in its phases: claimed before or now, and what it may have
\* ordered neither forgotten nor to be ordered again.
LEMMA OncePhase ==
  ASSUME IInv, [Next]_vars, NEW q \in Plans, Once(q),
         ckpt'[q].started = ckpt[q].started,
         bought'[q] = bought[q], resting'[q] \in Nat, resting'[q] <= resting[q],
         run'[q].phase = "waiting" => status'[q] = "awaiting_trigger",
         run'[q].phase \notin {"none", "waiting"} => status'[q] \notin Unclaimed,
         bought[q] + resting[q] > 0 =>
            /\ run'[q].phase # "none" => run'[q].started
            /\ run'[q].phase \in {"entry", "suspended"} => run'[q].done \/ ex'[q].leg = "entry"
            /\ ~Spawns(q)',
         Spawns(q)' => tick'.pc # "spawn",
         tick'.pc = "checkpoint" /\ q \in tick'.todo => run'[q].phase # "none"
  PROVE  Once(q)'
<1>1. bought[q] \in Nat /\ resting[q] \in Nat
  BY Fields
<1>2. bought'[q] + resting'[q] <= Size
  BY <1>1, SizeAssumption DEF Once
<1>3. ASSUME bought'[q] + resting'[q] > 0 PROVE Committed(q)'
  <2>1. Committed(q) /\ bought[q] + resting[q] > 0
    BY <1>1, <1>3 DEF Once
  <2>2. status'[q] \notin Unclaimed
    BY <2>1, ClaimedStays DEF Committed
  <2>3. run'[q].phase # "waiting"
    BY <2>2 DEF Unclaimed
  <2> QED BY <2>1, <2>2, <2>3 DEF Committed
<1> QED BY <1>2, <1>3 DEF Once

LEMMA OnceRunner ==
  ASSUME IInv, [Next]_vars, NEW q \in OneShots, Once(q),
         \/ BootScan \/ EnsureSession \/ StopSession \/ ReconcileFails \/ NextStage
         \/ \E p \in Plans : BootPark(p) \/ _reconcile(p)
  PROVE  Once(q)'
<1>t. /\ q \in Plans /\ tick \in Ticks /\ run \in [Plans -> Run] /\ ex \in [Plans -> Executor]
      /\ resting \in [Plans -> Units] /\ status \in [Plans -> Statuses]
      /\ bought[q] \in Nat /\ resting[q] \in Nat
  BY Fields DEF IInv, TypeOK, Ticks, OneShots
<1>i. IInv'
  BY RunnerStep
<1>r. bought'[q] \in Nat /\ resting'[q] \in Nat
  BY <1>t, <1>i DEF IInv, TypeOK, Units
<1>1. CASE BootScan \/ EnsureSession \/ ReconcileFails \/ NextStage \/ \E p \in Plans : BootPark(p)
  <2>1. UNCHANGED <<ckpt, run, ex, venue>>
    BY <1>1 DEF BootScan, EnsureSession, ReconcileFails, NextStage, BootPark
  <2>2. /\ tick' = tick \/ tick'.pc \notin {"prespawn", "spawn"}
        /\ tick'.pc = "checkpoint" => tick' = tick \/ tick'.todo = HasRun
    <3>1. CASE BootScan
      <4>1. tick' = tick \/ tick'.pc = "boot"
        BY <3>1, IdleTickType DEF BootScan, Ticks
      <4> QED BY <4>1
    <3>2. CASE EnsureSession
      <4>1. tick'.pc = "reconcile"
        BY <3>2, IdleTickType DEF EnsureSession, Ticks
      <4> QED BY <4>1
    <3>3. CASE ReconcileFails
      <4>1. tick'.pc = "reconcile"
        BY <1>t, <3>3 DEF ReconcileFails, Ticks
      <4> QED BY <4>1
    <3>4. CASE NextStage
      <4>1. \/ tick' = [tick EXCEPT !.pc = "drive", !.todo = Alive]
            \/ tick' = [tick EXCEPT !.pc = "advance", !.todo = HasRun]
            \/ tick' = [tick EXCEPT !.pc = "checkpoint", !.todo = HasRun]
            \/ tick' = IdleTick
        BY <3>4 DEF NextStage
      <4> QED BY <1>t, <4>1, IdleTickType DEF Ticks
    <3>5. ASSUME NEW p \in Plans, BootPark(p)
          PROVE  tick'.pc \in {"boot", "idle"}
      BY <1>t, <3>5, IdleTickType DEF BootPark, Ticks
    <3> QED BY <1>1, <3>1, <3>2, <3>3, <3>4, <3>5
  <2>3. tick'.pc = "checkpoint" /\ q \in tick'.todo => run'[q].phase # "none"
    BY <2>1, <2>2 DEF HasRun, Once
  <2> QED BY <1>t, <2>1, <2>2, <2>3, OnceSame DEF venue, Spawns
<1>2. CASE StopSession
  <2>1. /\ run'[q].phase = "none" /\ UNCHANGED <<ckpt, bought, sold, tick>> /\ tick.pc = "idle"
    BY <1>t, <1>2 DEF StopSession, NoRun
  <2>2. resting'[q] <= resting[q]
    <3>1. PICK left \in [Plans -> Units] :
            /\ \A p \in Plans : \E o \in StopOutcomes(p), n \in Orphans(p) :
                 left[p] = resting[p] - o.pulled - n
            /\ resting' = left
      BY <1>2 DEF StopSession
    <3>2. PICK o \in StopOutcomes(q), n \in Orphans(q) : left[q] = resting[q] - o.pulled - n
      BY <1>t, <3>1
    <3>3. o.pulled \in Nat
      BY <1>t, Stopped
    <3>4. n \in Nat
      BY <1>t, Fields DEF Orphans
    <3> QED BY <1>t, <3>1, <3>2, <3>3, <3>4
  <2>3. run[q].phase = run'[q].phase \/ run'[q].phase = "none"
    BY <2>1
  <2>4. bought'[q] + resting'[q] <= bought[q] + resting[q]
    BY <1>t, <1>r, <2>1, <2>2
  <2>5. ~Spawns(q)'
    BY <2>1 DEF Spawns
  <2>6. run'[q] = run[q] => ex'[q].leg = ex[q].leg
    <3>1. ASSUME run[q].phase = "none" PROVE ex[q].leg = "none"
      BY <1>t, <3>1, Fields DEF Accounts
    <3>2. ex'[q].leg = "none"
      BY <1>t, <1>2 DEF StopSession, NoEx
    <3> QED BY <2>1, <3>1, <3>2
  <2> QED BY <1>t, <1>r, <2>1, <2>4, <2>5, <2>6, OnceSame
<1>3. ASSUME NEW p \in Plans, _reconcile(p) PROVE Once(q)'
  <2>1. tick'.pc = "reconcile" /\ UNCHANGED <<status, ckpt, bought>>
    BY <1>t, <1>3, DoneWithTick DEF _reconcile, DoneWith
  <2>2. ~Spawns(q)' /\ ckpt'[q].started = ckpt[q].started /\ bought'[q] = bought[q]
    BY <2>1 DEF Spawns
  <2>3. CASE p = q /\ p \in Active /\ p \notin HasRun /\ UNCHANGED <<ex, resting>>
    <3>1. run'[q] = IF status[q] = "running" THEN _recover(q)
                    ELSE [NoRun EXCEPT !.phase = "waiting"]
      BY <1>t, <1>3, <2>3 DEF _reconcile
    <3>2. resting'[q] = resting[q] /\ resting[q] <= resting[q]
      BY <1>t, <2>3
    <3>3. CASE status[q] = "running"
      <4>1. /\ run'[q].phase = IF ckpt[q].started /\ ~ckpt[q].done THEN "doomed" ELSE "entry"
            /\ run'[q].started = ckpt[q].started /\ run'[q].done = ckpt[q].done
        BY <3>1, <3>3 DEF _recover
      <4>2. run'[q].phase \notin {"none", "waiting"} /\ status'[q] \notin Unclaimed
        BY <2>1, <3>3, <4>1 DEF Unclaimed
      <4>3. bought[q] + resting[q] > 0 =>
              run'[q].started /\ (run'[q].phase \in {"entry", "suspended"} => run'[q].done)
        BY <4>1 DEF Once, Committed
      <4> QED BY <1>t, <2>1, <2>2, <3>2, <4>2, <4>3, OncePhase
    <3>4. CASE status[q] # "running"
      <4>1. run'[q].phase = "waiting"
        BY <3>1, <3>4 DEF NoRun
      <4>2. status'[q] = "awaiting_trigger"
        BY <2>1, <2>3, <3>4 DEF Active, ACTIVE_STATUSES
      <4>3. ~(bought[q] + resting[q] > 0)
        BY <2>1, <4>2 DEF Once, Committed, Unclaimed
      <4> QED BY <1>t, <2>1, <2>2, <3>2, <4>1, <4>2, <4>3, OncePhase
    <3> QED BY <3>3, <3>4
  <2>4. CASE ~(p = q /\ p \in Active /\ p \notin HasRun /\ UNCHANGED <<ex, resting>>)
    <3>1. CASE p # q \/ UNCHANGED <<run, ex, resting>>
      <4>1. run'[q] = run[q] /\ ex'[q] = ex[q] /\ resting'[q] = resting[q]
        BY <1>t, <1>3, <3>1 DEF _reconcile
      <4> QED BY <1>t, <2>1, <2>2, <4>1, OnceSame
    <3>2. CASE p = q /\ ~UNCHANGED <<run, ex, resting>>
      <4>1. PICK o \in StopOutcomes(p) :
              /\ resting' = [resting EXCEPT ![p] = @ - o.pulled]
              /\ run' = [run EXCEPT ![p] = NoRun] /\ p \in HasRun
        BY <1>3, <2>4, <3>2 DEF _reconcile
      <4>2. o.pulled \in Nat
        BY Stopped
      <4>3. run'[q].phase = "none" /\ run[q].phase # "none" /\ resting'[q] <= resting[q]
        BY <1>t, <3>2, <4>1, <4>2 DEF NoRun, HasRun
      <4>4. bought'[q] + resting'[q] <= bought[q] + resting[q] /\ run'[q] # run[q]
        BY <1>t, <1>r, <2>2, <4>3
      <4> QED BY <1>t, <1>r, <2>1, <2>2, <4>3, <4>4, OnceSame
    <3> QED BY <3>1, <3>2
  <2> QED BY <2>3, <2>4
<1> QED BY <1>1, <1>2, <1>3

LEMMA OnceDrive ==
  ASSUME IInv, [Next]_vars, NEW q \in OneShots, Once(q), DriveNext
  PROVE  Once(q)'
<1>t. /\ q \in Plans /\ tick \in Ticks /\ ex \in [Plans -> Executor]
      /\ resting \in [Plans -> Units] /\ bought \in [Plans -> Units]
      /\ bought[q] \in Nat /\ resting[q] \in Nat
  BY Fields DEF IInv, TypeOK, Ticks, OneShots
<1>1. /\ tick'.pc \in {"drive", "idle"} /\ UNCHANGED <<ckpt, run>>
  BY DriveTouches
<1>2. PICK p \in Plans :
        \/ DriveHold(p) \/ DriveFails(p) \/ DriveRead(p) \/ DriveRaises(p)
        \/ _advanceSlice(p) \/ SliceRefused(p) \/ _finalize(p)
  BY DEF DriveNext
<1>3. ex'[q].leg = ex[q].leg /\ bought'[q] = bought[q] /\ resting'[q] = resting[q]
  <2>1. CASE DriveHold(p) \/ DriveRaises(p)
    BY <2>1 DEF DriveHold, DriveRaises, venue
  <2>2. CASE DriveFails(p)
    BY <1>t, <2>2 DEF DriveFails, venue, Executor
  <2>3. CASE DriveRead(p)
    BY <1>t, <2>3 DEF DriveRead, venue, Executor
  <2>4. CASE _advanceSlice(p) \/ SliceRefused(p) \/ _finalize(p)
    <3>1. p # q
      BY <2>4 DEF _advanceSlice, SliceRefused, _finalize, Sliced
    <3> QED BY <1>t, <2>4, <3>1 DEF _advanceSlice, SliceRefused, _finalize
  <2> QED BY <1>2, <2>1, <2>2, <2>3, <2>4
<1> QED BY <1>t, <1>1, <1>3, OnceSame DEF Spawns

LEMMA OnceAdvance ==
  ASSUME "hold" \notin Faults, IInv, [Next]_vars, NEW q \in OneShots, Once(q), AdvanceNext
  PROVE  Once(q)'
<1>t. /\ q \in Plans /\ tick \in Ticks /\ ex \in [Plans -> Executor] /\ run \in [Plans -> Run]
      /\ resting \in [Plans -> Units] /\ bought \in [Plans -> Units] /\ ckpt \in [Plans -> Ckpt]
      /\ bought[q] \in Nat /\ resting[q] \in Nat /\ resting[q] <= resting[q] /\ Pending
      /\ run[q] \in Run /\ status \in [Plans -> Statuses]
  BY Fields DEF IInv, TypeOK, Ticks, OneShots
<1>h. Succeeds("hold") = {TRUE}
  BY DEF Succeeds
<1>i. IInv'
  BY AdvanceStep
<1>r. bought'[q] \in Nat /\ resting'[q] \in Nat
  BY <1>t, <1>i DEF IInv, TypeOK, Units
<1>1. PICK p \in Plans :
        \/ AdvanceHold(p) \/ FailDoomed(p) \/ ClaimTrigger(p) \/ EntryOver(p)
        \/ Respawn(p) \/ SuspendEntry(p) \/ _tick_suspended(p) \/ EntryEnds(p)
        \/ PreSpawn(p) \/ Spawn(p) \/ SpawnRefused(p) \/ SpawnRaises(p)
        \/ _spawn_exit(p) \/ ExitRefused(p) \/ ExitRaises(p) \/ _tick_exiting(p)
        \/ Checkpoint(p)
  BY DEF AdvanceNext
<1>k. /\ tick'.pc \in {"prespawn", "spawn"} => tick'.plan = p
      /\ tick'.pc = "checkpoint" =>
              Checkpoint(p) /\ tick.pc = "checkpoint" /\ tick'.todo \subseteq tick.todo
  BY <1>1, AdvanceTick
<1>c. CASE Checkpoint(p)
  <2>1. UNCHANGED <<status, run, ex, venue>>
    BY <1>c DEF Checkpoint
  <2>2. tick'.pc = "checkpoint" /\ tick.pc = "checkpoint" /\ tick'.todo \subseteq tick.todo
    BY <1>t, <1>c DEF Checkpoint, DoneWith, Ticks
  <2>3. ~Spawns(q)' /\ (q \in tick'.todo => run'[q].phase # "none")
    BY <2>1, <2>2 DEF Spawns, Once
  <2>4. CASE ckpt'[q].started = ckpt[q].started
    BY <1>t, <2>1, <2>3, <2>4, OnceSame DEF venue
  <2>5. CASE ckpt'[q].started # ckpt[q].started
    <3> DEFINE c == [started |-> run[p].started, done |-> run[p].done,
                     base |-> run[p].base + (IF ex[p].leg = "entry" THEN ex[p].seen ELSE 0)]
    <3>0. ckpt' = [ckpt EXCEPT ![p] = c] /\ c.started = run[p].started
      BY <1>c, <2>5 DEF Checkpoint
    <3> HIDE DEF c
    <3>1. ckpt'[q].started = run[q].started /\ p = q
      BY <1>t, <2>5, <3>0
    <3>2. run[q].phase # "none"
      BY <1>c, <2>2, <3>1 DEF Checkpoint, Once
    <3>3. bought[q] + resting[q] > 0 => Committed(q) /\ ckpt'[q].started
      BY <3>1, <3>2 DEF Once, Committed
    <3> QED BY <2>1, <2>2, <2>3, <3>2, <3>3 DEF Once, Committed, Spawns, venue
  <2> QED BY <2>4, <2>5
<1>o. CASE p # q /\ ~Checkpoint(p)
  <2>1. /\ run'[q] = run[q] /\ ex'[q] = ex[q] /\ ckpt'[q] = ckpt[q]
        /\ bought'[q] = bought[q] /\ resting'[q] = resting[q]
    BY <1>t, <1>1, <1>o
    DEF AdvanceHold, FailDoomed, ClaimTrigger, EntryOver, Respawn, SuspendEntry,
        _tick_suspended, EntryEnds, PreSpawn, Spawn, SpawnRefused, SpawnRaises, _spawn_exit,
        ExitRefused, ExitRaises, _tick_exiting, Finish, _entry_finished, venue
  <2>2. ~Spawns(q)'
    BY <1>o, <1>k DEF Spawns
  <2> QED BY <1>t, <1>o, <1>k, <2>1, <2>2, OnceSame
<1>p. CASE p = q /\ ~Checkpoint(p)
  <2>k. tick'.pc # "checkpoint"
    BY <1>k, <1>p
  <2>1. CASE AdvanceHold(q)
    <3>1. UNCHANGED <<ckpt, run, ex, venue>>
      BY <2>1 DEF AdvanceHold
    <3>2. tick'.pc = "advance"
      BY <1>t, <2>1, DoneWithTick DEF AdvanceHold, Advanced
    <3> QED BY <1>t, <2>k, <3>1, <3>2, OnceSame DEF venue, Spawns
  <2>2. ASSUME run'[q].phase = "none", ckpt'[q] = ckpt[q], ~Spawns(q)',
               bought'[q] = bought[q], resting'[q] <= resting[q], run[q].phase # "none"
        PROVE  Once(q)'
    <3>1. bought'[q] + resting'[q] <= bought[q] + resting[q] /\ run'[q] # run[q]
      BY <1>t, <1>r, <2>2
    <3> QED BY <1>t, <1>r, <2>k, <2>2, <3>1, OnceSame
  <2>3. CASE FailDoomed(q) \/ ExitRefused(q) \/ SpawnRefused(q)
    <3>0. run' = [run EXCEPT ![q] = NoRun] /\ UNCHANGED <<ckpt, venue>>
      BY <2>3 DEF FailDoomed, ExitRefused, SpawnRefused, Finish
    <3>1. run'[q].phase = "none" /\ run[q].phase # "none"
      BY <1>t, <2>3, <3>0
      DEF FailDoomed, ExitRefused, SpawnRefused, NoRun, Advanced, Spawning, Pending
    <3>2. tick'.pc = "advance"
      BY <1>t, <2>3, DoneWithTick, SpawnedTick
      DEF FailDoomed, ExitRefused, SpawnRefused, Advanced
    <3> QED BY <1>t, <2>2, <3>0, <3>1, <3>2 DEF venue, Spawns
  <2>4. CASE SpawnRaises(q) \/ ExitRaises(q)
    BY <1>h, <2>4 DEF SpawnRaises, ExitRaises
  <2>5. CASE SuspendEntry(q)
    BY <2>5 DEF SuspendEntry, Sliced
  <2>6. CASE ClaimTrigger(q)
    <3>1. /\ run[q].phase = "waiting" /\ tick.pc = "advance" /\ UNCHANGED <<ckpt, ex, venue>>
      BY <2>6 DEF ClaimTrigger, Advanced
    <3>2. CASE run' = [run EXCEPT ![q] = [@ EXCEPT !.phase = "entry"]]
      <4>1. run'[q].phase = "entry" /\ run'[q] # run[q]
        BY <1>t, <3>1, <3>2 DEF Run
      <4>2. status'[q] = "running" /\ tick'.pc = "prespawn"
        <5>1. run' # run
          BY <4>1
        <5>2. run' # [run EXCEPT ![q] = NoRun]
          BY <1>t, <4>1 DEF NoRun
        <5>3. /\ status' = [status EXCEPT ![q] = "running"]
              /\ tick' = [tick EXCEPT !.todo = @ \ {q}, !.pc = "prespawn", !.plan = q]
          BY <2>6, <5>1, <5>2 DEF ClaimTrigger
        <5> QED BY <1>t, <5>3 DEF Ticks
      <4>3. ~(bought[q] + resting[q] > 0)
        BY <3>1 DEF Once, Committed
      <4> QED BY <1>t, <2>k, <3>1, <4>1, <4>2, <4>3, OncePhase DEF venue, Unclaimed
    <3>3. CASE run' = [run EXCEPT ![q] = NoRun] /\ DoneWith(q)
      <4>1. run'[q].phase = "none"
        BY <1>t, <3>3 DEF NoRun
      <4>2. ~Spawns(q)'
        BY <1>t, <3>1, <3>3, DoneWithTick DEF Spawns
      <4> QED BY <1>t, <2>2, <3>1, <4>1, <4>2 DEF venue
    <3>4. CASE UNCHANGED run /\ DoneWith(q)
      <4>1. ~Spawns(q)'
        BY <1>t, <3>1, <3>4, DoneWithTick DEF Spawns
      <4> QED BY <1>t, <2>k, <3>1, <3>4, <4>1, OnceSame DEF venue
    <3> QED BY <2>6, <3>2, <3>3, <3>4 DEF ClaimTrigger
  <2>7. ASSUME NEW r \in Run, _entry_finished(q, r), r.started = run[q].started,
               run[q].phase = "entry", ckpt'[q] = ckpt[q], bought'[q] = bought[q],
               resting'[q] <= resting[q], ~Spawns(q)'
        PROVE  Once(q)'
    <3>1. CASE run' = [run EXCEPT ![q] = NoRun]
      BY <1>t, <2>2, <2>7, <3>1 DEF NoRun
    <3>2. CASE run' = [run EXCEPT ![q] = [r EXCEPT !.phase = "exit_watch"]]
      <4>1. run'[q].phase = "exit_watch" /\ run'[q].started = run[q].started
        BY <1>t, <2>7, <3>2 DEF Run
      <4>2. status'[q] \notin Unclaimed
        BY <1>t, <2>7, ClaimedStays DEF Once
      <4>3. bought[q] + resting[q] > 0 => run'[q].started
        BY <2>7, <4>1 DEF Once, Committed
      <4> QED BY <1>t, <1>r, <2>k, <2>7, <4>1, <4>2, <4>3, OncePhase
    <3> QED BY <2>7, <3>1, <3>2 DEF _entry_finished, Finish
  <2>8. CASE EntryOver(q)
    <3>1. /\ _entry_finished(q, run[q]) /\ run[q].phase = "entry" /\ UNCHANGED <<ckpt, venue>>
          /\ tick'.pc = "advance"
      BY <1>t, <2>8, DoneWithTick DEF EntryOver, Advanced
    <3> QED BY <1>t, <2>7, <3>1 DEF venue, Spawns
  <2>9. CASE EntryEnds(q)
    <3>1. PICK s \in StopOutcomes(q) :
            /\ resting' = [resting EXCEPT ![q] = @ - s.pulled]
            /\ _entry_finished(q, [run[q] EXCEPT !.done = TRUE, !.base = @ + s.x.seen])
      BY <2>9 DEF EntryEnds
    <3>2. s.pulled \in Nat /\ s.x.seen \in Nat
      BY <1>t, Stopped
    <3> DEFINE r == [run[q] EXCEPT !.done = TRUE, !.base = @ + s.x.seen]
    <3>3. r \in Run /\ r.started = run[q].started
      <4>1. run[q].base + s.x.seen \in Nat
        BY <1>t, <3>2 DEF Run
      <4> QED BY <1>t, <4>1 DEF Run
    <3>4. _entry_finished(q, r)
      BY <3>1
    <3> HIDE DEF r
    <3>5. /\ run[q].phase = "entry" /\ UNCHANGED <<ckpt, bought>> /\ tick'.pc = "advance"
      BY <1>t, <2>9, DoneWithTick DEF EntryEnds, Advanced
    <3>6. resting'[q] <= resting[q] /\ ~Spawns(q)'
      BY <1>t, <3>1, <3>2, <3>5 DEF Spawns
    <3> QED BY <2>7, <3>3, <3>4, <3>5, <3>6
  <2>10. CASE Respawn(q) \/ _tick_suspended(q)
    <3>1. /\ run[q].phase \in {"entry", "suspended"} /\ UNCHANGED <<ckpt, ex, venue>>
          /\ tick'.pc \in {"advance", "prespawn"}
          /\ tick'.pc = "prespawn" => ~run[q].done /\ ex[q].leg = "none"
          /\ run'[q].phase \in {"entry", "suspended"}
          /\ run'[q].started = run[q].started /\ run'[q].done = run[q].done
      <4>1. CASE Respawn(q)
        <5>1. CASE DoneWith(q)
          <6>1. tick'.pc = "advance"
            BY <1>t, <4>1, <5>1, DoneWithTick DEF Respawn, Advanced
          <6> QED BY <1>t, <4>1, <6>1 DEF Respawn, Advanced, Run
        <5>2. CASE /\ tick' = [tick EXCEPT !.todo = @ \ {q}, !.pc = "prespawn", !.plan = q]
                   /\ UNCHANGED run
          <6>1. tick'.pc = "prespawn"
            BY <1>t, <5>2 DEF Ticks
          <6> QED BY <1>t, <4>1, <5>2, <6>1 DEF Respawn, Advanced
        <5> QED BY <4>1, <5>1, <5>2 DEF Respawn
      <4>2. CASE _tick_suspended(q)
        <5>1. tick'.pc = "advance"
          BY <1>t, <4>2, DoneWithTick DEF _tick_suspended, Advanced
        <5> QED BY <1>t, <4>2, <5>1 DEF _tick_suspended, Advanced, Run
      <4> QED BY <2>10, <4>1, <4>2
    <3>2. status'[q] \notin Unclaimed
      BY <1>t, <3>1, ClaimedStays DEF Once
    <3>3. bought[q] + resting[q] > 0 =>
            /\ run'[q].started /\ (run'[q].done \/ ex'[q].leg = "entry") /\ ~Spawns(q)'
      BY <3>1 DEF Once, Committed, Spawns
    <3> QED BY <1>t, <2>k, <3>1, <3>2, <3>3, OncePhase DEF venue, Spawns
  <2>11. CASE PreSpawn(q)
    <3>1. run[q].phase = "entry" /\ tick.pc = "prespawn" /\ Spawns(q) /\ UNCHANGED venue
      BY <1>t, <2>11 DEF PreSpawn, Pending, Spawns
    <3>2. ~(bought[q] + resting[q] > 0)
      BY <3>1 DEF Once, Committed
    <3>3. status'[q] \notin Unclaimed
      BY <1>t, <3>1, ClaimedStays DEF Once
    <3>4. (run[q].phase # "waiting" /\ Spawns(q) /\ tick.pc = "spawn")' =>
              run'[q].started /\ ckpt'[q].started
      <4>1. CASE /\ ckpt' = [ckpt EXCEPT ![q] =
                               [started |-> TRUE, done |-> run[q].done, base |-> run[q].base]]
                 /\ run' = [run EXCEPT ![q].started = TRUE]
        BY <1>t, <4>1 DEF Run
      <4>2. CASE tick' = [tick EXCEPT !.pc = "advance", !.plan = NoPlan]
        BY <1>t, <4>2 DEF Ticks
      <4> QED BY <2>11, <4>1, <4>2 DEF PreSpawn
    <3>5. run'[q].phase # "waiting"
      <4>1. CASE \E on \in BOOLEAN : run' = [run EXCEPT ![q].started = on]
        BY <1>t, <3>1, <4>1 DEF Run
      <4>2. CASE _entry_finished(q, [run[q] EXCEPT !.done = TRUE])
        <5> DEFINE r == [run[q] EXCEPT !.done = TRUE]
        <5>1. r \in Run /\ _entry_finished(q, r)
          BY <1>t, <4>2 DEF Run
        <5> HIDE DEF r
        <5>2. \/ run' = [run EXCEPT ![q] = NoRun]
              \/ run' = [run EXCEPT ![q] = [r EXCEPT !.phase = "exit_watch"]]
          BY <5>1 DEF _entry_finished, Finish
        <5> QED BY <1>t, <5>1, <5>2 DEF NoRun, Run
      <4> QED BY <2>11, <4>1, <4>2 DEF PreSpawn
    <3>6. bought'[q] = bought[q] /\ resting'[q] = resting[q]
      BY <3>1 DEF venue
    <3> QED BY <2>k, <3>2, <3>3, <3>4, <3>5, <3>6 DEF Once
  <2>12. CASE Spawn(q)
    <3>1. run[q].phase = "entry" /\ Spawns(q) /\ tick.pc = "spawn" /\ UNCHANGED <<ckpt, run>>
      BY <1>t, <2>12 DEF Spawn, Spawning, Pending, Spawns
    <3>2. bought[q] = 0 /\ resting[q] = 0
      BY <1>t, <3>1 DEF Once, Committed
    <3>3. PICK o \in Placements(q, "entry", FirstOrder(q)) :
         /\ ex' = [ex EXCEPT ![q] = Created("entry", FirstOrder(q), LaterSlices(q), o,
                                            q \in OneShots)]
         /\ resting' = [resting EXCEPT ![q] = @ + o.rest]
         /\ bought' = [bought EXCEPT ![q] = @ + o.k]
      BY <2>12 DEF Spawn
    <3>4. FirstOrder(q) = Size
      BY DEF FirstOrder
    <3>5. o.k \in Nat /\ o.rest \in Nat /\ o.k + o.rest <= Size
      BY <1>t, <3>4, Placed, SizeAssumption
    <3>6. bought'[q] + resting'[q] <= Size
      BY <1>t, <3>2, <3>3, <3>5
    <3>7. ex'[q].leg = "entry"
      BY <1>t, <3>3 DEF Created
    <3>8. tick'.pc = "advance"
      BY <1>t, <2>12, SpawnedTick DEF Spawn
    <3>9. status'[q] \notin Unclaimed
      BY <1>t, <3>1, ClaimedStays DEF Once
    <3>10. run[q].started /\ ckpt[q].started
      BY <3>1 DEF Once
    <3>11. Committed(q)'
      BY <3>1, <3>7, <3>8, <3>9, <3>10 DEF Committed, Spawns
    <3> QED BY <3>1, <3>6, <3>8, <3>9, <3>11 DEF Once
  <2>13. CASE _spawn_exit(q) \/ _tick_exiting(q)
    <3>1. /\ run[q].phase \in {"exit_watch", "exiting"} /\ UNCHANGED <<ckpt, bought, resting>>
          /\ tick'.pc = "advance"
      BY <1>t, <2>13, DoneWithTick DEF _spawn_exit, _tick_exiting, Advanced, venue
    <3>2. CASE run' = [run EXCEPT ![q] = NoRun]
      <4>1. run'[q].phase = "none" /\ ~Spawns(q)'
        BY <1>t, <3>1, <3>2 DEF NoRun, Spawns
      <4> QED BY <1>t, <2>2, <3>1, <4>1
    <3>3. CASE run'[q].phase \in {"exit_watch", "exiting"} /\ run'[q].started = run[q].started
      <4>1. status'[q] \notin Unclaimed
        BY <1>t, <3>1, ClaimedStays DEF Once
      <4>2. bought[q] + resting[q] > 0 => run'[q].started
        BY <3>1, <3>3 DEF Once, Committed
      <4> QED BY <1>t, <2>k, <3>1, <3>3, <4>1, <4>2, OncePhase DEF Spawns
    <3>4. CASE \/ run' = [run EXCEPT ![q].phase = "exiting"]
               \/ run' = [run EXCEPT ![q].phase = "exit_watch",
                                     ![q].base = run[q].base - ex[q].seen]
      BY <1>t, <3>3, <3>4 DEF Run
    <3> QED BY <2>13, <3>2, <3>4 DEF _spawn_exit, _tick_exiting, Finish
  <2> QED BY <1>1, <1>p, <2>1, <2>3, <2>4, <2>5, <2>6, <2>8, <2>9, <2>10, <2>11, <2>12, <2>13
<1> QED BY <1>c, <1>o, <1>p

LEMMA OnceStep ==
  ASSUME "hold" \notin Faults
  PROVE  IInv /\ (\A q \in OneShots : Once(q)) /\ [Next]_vars => \A q \in OneShots : Once(q)'
<1> SUFFICES ASSUME IInv, [Next]_vars, NEW q \in OneShots, Once(q) PROVE Once(q)'
  OBVIOUS
<1>t. /\ q \in Plans /\ ex \in [Plans -> Executor] /\ bought \in [Plans -> Units]
      /\ resting \in [Plans -> Units] /\ bought[q] \in Nat /\ resting[q] \in Nat
  BY Fields DEF IInv, TypeOK, OneShots
<1>1. CASE UserNext \/ UNCHANGED vars
  <2>1. UNCHANGED <<ckpt, run, ex, bought, resting, tick>>
    BY <1>1 DEF UserNext, insert_draft, confirm_plan, discard_draft, cancel_plan, venue, vars
  <2> QED BY <1>t, <2>1, OnceSame DEF Once
<1>2. ASSUME NEW p \in Plans, Fill(p) PROVE Once(q)'
  <2>1. /\ UNCHANGED <<ckpt, run, tick>> /\ resting[p] > 0
        /\ resting' = [resting EXCEPT ![p] = @ - 1] /\ bought' = [bought EXCEPT ![p] = @ + 1]
    BY <1>2 DEF Fill
  <2>2. ex'[q].leg = ex[q].leg
    <3>1. CASE ex' = [ex EXCEPT ![p].rest = ex[p].rest - 1, ![p].unseen = ex[p].unseen + 1]
      BY <1>t, <3>1 DEF Executor
    <3> QED BY <1>2, <3>1 DEF Fill
  <2>3. /\ bought'[q] \in Nat /\ resting'[q] \in Nat
        /\ bought'[q] + resting'[q] <= bought[q] + resting[q]
    BY <1>t, <2>1
  <2>4. tick.pc = "checkpoint" /\ q \in tick.todo => run[q].phase # "none"
    BY DEF Once
  <2> QED BY <1>t, <2>1, <2>2, <2>3, <2>4, OnceSame
<1>3. CASE Crash
  <2>1. /\ run'[q].phase = "none" /\ ex'[q].leg = "none" /\ tick'.pc = "idle"
        /\ UNCHANGED <<status, ckpt, venue>>
    BY <1>t, <1>3, IdleTickType DEF Crash, NoRun, NoEx
  <2> QED BY <1>t, <2>1 DEF Once, Committed, Spawns, venue
<1>4. CASE DriveNext \/ AdvanceNext
  BY <1>4, OnceDrive, OnceAdvance
<1>5. CASE \/ BootScan \/ EnsureSession \/ StopSession \/ ReconcileFails \/ NextStage
           \/ \E p \in Plans : BootPark(p) \/ _reconcile(p)
  BY <1>5, OnceRunner
<1> QED BY <1>1, <1>2, <1>3, <1>4, <1>5 DEF Next, tick_desk_runner

\* OneShotOnce for any failing reads, cancels, placements and writes of the plan
\* table, any number of restarts and either redeploy contract: what makes the
\* entry unrepeatable is durable before the order is sent (_spawn_entry,
\* _recover).  The failure it needs excluded is that of the inventory write of a
\* fill, which makes the run forget an executor it has spawned.
THEOREM OneShotsOnce == ASSUME "hold" \notin Faults PROVE Spec => []OneShotOnce
<1> DEFINE Inv == IInv /\ \A q \in OneShots : Once(q)
<1>1. Init => Inv
  <2> SUFFICES ASSUME Init, NEW q \in OneShots PROVE Once(q)
    BY InitIInv
  <2>1. /\ q \in Plans /\ run[q].phase = "none" /\ bought[q] = 0 /\ resting[q] = 0
        /\ tick.pc = "idle"
    BY IdleTickType DEF Init, NoRun, OneShots
  <2> QED BY <2>1, SizeAssumption DEF Once, Spawns
<1>2. Inv /\ [Next]_vars => Inv'
  <2> SUFFICES ASSUME Inv, [Next]_vars PROVE Inv'
    OBVIOUS
  <2>1. IInv' /\ \A q \in OneShots : Once(q)'
    BY IInvStep, OnceStep
  <2> QED BY <2>1
<1>3. Inv => OneShotOnce
  BY DEF Once, OneShotOnce
<1> QED BY <1>1, <1>2, <1>3, PTL DEF Spec

-----------------------------------------------------------------------------
(* Exits *)

\* What of plan p's fills is closed, or being closed, never exceeds them: the run
\* counts what is left, less what its exit executor saw or has yet to read.
ExitPlan(p) ==
    /\ sold[p] <= bought[p]
    /\ status[p] = "running" /\ p \notin earlier => run[p].phase # "none"
    /\ status[p] \in Unclaimed \/ run[p].phase \in {"waiting", "entry", "suspended"}
         => sold[p] = 0
    /\ run[p].phase = "waiting" => status[p] # "running"
    /\ run[p].phase \notin {"none", "waiting"} => status[p] \notin Unclaimed
    /\ run[p].phase = "exit_watch" => sold[p] + run[p].base <= bought[p]
    /\ run[p].phase = "exiting" =>
         /\ ex[p].leg = "exit" /\ (ex[p].dead => ex[p].unseen = 0)
         /\ ex[p].seen + ex[p].unseen <= run[p].base
         /\ sold[p] + run[p].base <= bought[p] + ex[p].seen + ex[p].unseen

ExitInv == session # "failed" /\ \A p \in Plans : ExitPlan(p)

\* The faults that make a run lose what it knows: reads, the plan table, the
\* inventory.  Placements and cancels may fail.
Faithful == ~Resume /\ {"db", "status", "hold"} \cap Faults = {}

LEMMA FaithfulCalls ==
  Faithful => Succeeds("db") = {TRUE} /\ Succeeds("status") = {TRUE} /\ Succeeds("hold") = {TRUE}
  BY DEF Faithful, Succeeds

\* q's exit is as it was; more of its entry may have filled.
LEMMA ExitSame ==
  ASSUME IInv, [Next]_vars, NEW q \in Plans, ExitPlan(q),
         run'[q] = run[q], run[q].phase = "exiting" => ex'[q] = ex[q],
         sold'[q] = sold[q], bought'[q] \in Nat, bought'[q] >= bought[q],
         UNCHANGED earlier, status'[q] = "running" => status[q] = "running"
  PROVE  ExitPlan(q)'
<1>1. /\ ex[q].seen \in Nat /\ ex[q].unseen \in Nat /\ run[q].base \in Nat
      /\ bought[q] \in Nat /\ sold[q] \in Nat
  BY Fields
<1>2. status'[q] \in Unclaimed => status[q] \in Unclaimed
  BY ClaimedStays
<1> QED BY <1>1, <1>2 DEF ExitPlan

\* q's run is dropped, and the row does not say it is running.
LEMMA ExitDropped ==
  ASSUME IInv, [Next]_vars, NEW q \in Plans, ExitPlan(q),
         run'[q].phase = "none", sold'[q] = sold[q], bought'[q] = bought[q],
         status'[q] # "running" \/ q \in earlier'
  PROVE  ExitPlan(q)'
  BY ClaimedStays DEF ExitPlan

LEMMA FinishDrops ==
  ASSUME Faithful, IInv, [Next]_vars, NEW q \in Plans, ExitPlan(q),
         NEW st \in {"failed", "completed"}, Finish(q, st), UNCHANGED <<bought, sold>>
  PROVE  ExitPlan(q)'
<1>1. /\ status' = IF q \in Active THEN [status EXCEPT ![q] = st] ELSE status
      /\ run' = [run EXCEPT ![q] = NoRun]
  <2>1. PICK written \in Succeeds("db") :
          status' = IF written /\ q \in Active THEN [status EXCEPT ![q] = st] ELSE status
    BY DEF Finish
  <2>2. written = TRUE
    BY FaithfulCalls
  <2> QED BY <2>1, <2>2 DEF Finish
<1>2. status \in [Plans -> Statuses] /\ run \in [Plans -> Run]
  BY DEF IInv, TypeOK
<1>3. run'[q].phase = "none" /\ status'[q] # "running"
  BY <1>1, <1>2 DEF NoRun, Active, ACTIVE_STATUSES
<1> QED BY <1>3, ExitDropped

LEMMA ExitDrive ==
  ASSUME Faithful, IInv, [Next]_vars, NEW q \in Plans, ExitPlan(q), DriveNext
  PROVE  ExitPlan(q)' /\ UNCHANGED session
<1>t. /\ ex \in [Plans -> Executor] /\ bought \in [Plans -> Units]
      /\ ex[q].seen \in Nat /\ ex[q].unseen \in Nat /\ run[q].base \in Nat
      /\ bought[q] \in Nat /\ sold[q] \in Nat /\ ex[q] \in Executor
  BY Fields DEF IInv, TypeOK
<1>1. UNCHANGED <<status, run, sold, earlier>>
  BY DriveTouches
<1>2. PICK p \in Plans :
        \/ DriveHold(p) \/ DriveRead(p) \/ _advanceSlice(p) \/ SliceRefused(p) \/ _finalize(p)
  BY FaithfulCalls DEF DriveNext, DriveFails, DriveRaises
<1>3. UNCHANGED session
  BY <1>2 DEF DriveHold, DriveRead, _advanceSlice, SliceRefused, _finalize, process
<1>4. CASE run[q].phase = "exiting" => ex'[q] = ex[q]
  <2>1. bought'[q] \in Nat /\ bought'[q] >= bought[q]
    <3>1. CASE UNCHANGED bought
      BY <1>t, <3>1
    <3>2. ASSUME NEW o \in Placements(p, "entry", 1), bought' = [bought EXCEPT ![p] = @ + o.k]
          PROVE  bought'[q] \in Nat /\ bought'[q] >= bought[q]
      <4>1. o.k \in Nat
        BY Placed
      <4> QED BY <1>t, <3>2, <4>1
    <3> QED BY <1>2, <3>1, <3>2
            DEF DriveHold, DriveRead, _advanceSlice, SliceRefused, _finalize, venue
  <2> QED BY <1>1, <1>3, <1>4, <2>1, ExitSame
<1>5. CASE run[q].phase = "exiting" /\ ex'[q] # ex[q]
  <2>1. ex[q].leg = "exit"
    BY <1>5 DEF ExitPlan
  <2>2. p = q
    BY <1>t, <1>2, <1>5 DEF DriveHold, DriveRead, _advanceSlice, SliceRefused, _finalize
  <2>3. DriveRead(q)
    BY <1>2, <1>5, <2>1, <2>2 DEF DriveHold, _advanceSlice, SliceRefused, _finalize, Sliced
  <2> DEFINE dead == ~Sliced(q) /\ ex[q].rest = 0
             seen == ex[q].seen + ex[q].unseen
             e == [ex[q] EXCEPT !.seen = seen, !.unseen = 0, !.dead = dead]
  <2>4. ex' = [ex EXCEPT ![q] = e] /\ UNCHANGED bought
    BY <2>3 DEF DriveRead, venue
  <2>5. seen \in Nat /\ seen + 0 = ex[q].seen + ex[q].unseen
    BY <1>t
  <2> HIDE DEF dead, seen
  <2>6. ex'[q].leg = ex[q].leg /\ ex'[q].seen = seen /\ ex'[q].unseen = 0
    BY <1>t, <2>4 DEF Executor
  <2> QED BY <1>1, <1>3, <1>5, <1>t, <2>4, <2>5, <2>6 DEF ExitPlan
<1> QED BY <1>4, <1>5

LEMMA ExitRunner ==
  ASSUME Faithful, IInv, LifeInv, ExitInv, [Next]_vars, NEW q \in Plans,
         \/ BootScan \/ EnsureSession \/ StopSession \/ ReconcileFails \/ NextStage
         \/ \E p \in Plans : BootPark(p) \/ _reconcile(p)
  PROVE  ExitPlan(q)' /\ session' # "failed"
<1>t. /\ ex \in [Plans -> Executor] /\ run \in [Plans -> Run] /\ status \in [Plans -> Statuses]
      /\ bought[q] \in Nat /\ sold[q] \in Nat /\ bought[q] >= bought[q] /\ ExitPlan(q)
  BY Fields DEF IInv, TypeOK, ExitInv
<1>1. UNCHANGED <<bought, sold, earlier>> /\ session' # "failed"
  BY DEF BootScan, EnsureSession, StopSession, ReconcileFails, NextStage, BootPark, _reconcile,
         venue, process, ExitInv
<1>2. CASE /\ BootScan \/ EnsureSession \/ ReconcileFails \/ NextStage \/ \E p \in Plans : BootPark(p)
  <2>1. UNCHANGED <<run, ex>>
    BY <1>2 DEF BootScan, EnsureSession, ReconcileFails, NextStage, BootPark
  <2>2. status'[q] = "running" => status[q] = "running"
    <3>1. ASSUME NEW p \in Plans, BootPark(p) PROVE status'[q] \in {status[q], "cancelled"}
      <4>1. PICK written \in BOOLEAN :
              status' = IF written /\ p \in Active THEN [status EXCEPT ![p] = "cancelled"]
                        ELSE status
        BY <3>1, SucceedsBoolean DEF BootPark
      <4> QED BY <1>t, <4>1
    <3> QED BY <1>2, <3>1 DEF BootScan, EnsureSession, ReconcileFails, NextStage
  <2> QED BY <1>t, <1>1, <2>1, <2>2, ExitSame
<1>3. CASE StopSession
  <2>1. Active = {} /\ run'[q].phase = "none" /\ UNCHANGED status
    BY <1>3, FaithfulCalls DEF StopSession, ExitInv, NoRun
  <2>2. status'[q] # "running"
    BY <2>1 DEF Active, ACTIVE_STATUSES
  <2> QED BY <1>t, <1>1, <2>1, <2>2, ExitDropped
<1>4. ASSUME NEW p \in Plans, _reconcile(p) PROVE ExitPlan(q)'
  <2>1. UNCHANGED status /\ tick.pc = "reconcile"
    BY <1>4 DEF _reconcile
  <2>2. CASE p # q \/ UNCHANGED <<run, ex>>
    <3>1. run'[q] = run[q] /\ ex'[q] = ex[q]
      BY <1>t, <1>4, <2>2 DEF _reconcile
    <3> QED BY <1>t, <1>1, <2>1, <3>1, ExitSame
  <2>3. CASE p = q /\ q \in Active /\ q \notin HasRun
    <3>1. q \notin earlier
      BY <2>1, <2>3 DEF LifeInv
    <3>2. status[q] = "awaiting_trigger"
      BY <1>t, <2>3, <3>1 DEF Active, ACTIVE_STATUSES, ExitPlan, HasRun
    <3>3. run'[q].phase = "waiting"
      BY <1>t, <1>4, <2>3, <3>2 DEF _reconcile, NoRun
    <3> QED BY <1>t, <1>1, <2>1, <3>2, <3>3 DEF ExitPlan, Unclaimed
  <2>4. CASE p = q /\ q \notin Active /\ q \in HasRun
    <3>1. run'[q].phase = "none"
      BY <1>t, <1>4, <2>4 DEF _reconcile, NoRun
    <3>2. status'[q] # "running"
      BY <2>1, <2>4 DEF Active, ACTIVE_STATUSES
    <3> QED BY <1>t, <1>1, <3>1, <3>2, ExitDropped
  <2> QED BY <1>4, <2>2, <2>3, <2>4 DEF _reconcile
<1> QED BY <1>1, <1>2, <1>3, <1>4

LEMMA BaseBought == IInv => \A p \in Plans : run[p].base <= bought[p]
  BY Still

LEMMA ExitAdvance ==
  ASSUME Faithful, IInv, ExitInv, [Next]_vars, NEW q \in Plans, AdvanceNext
  PROVE  ExitPlan(q)'
<1>t. /\ ex \in [Plans -> Executor] /\ run \in [Plans -> Run] /\ status \in [Plans -> Statuses]
      /\ bought \in [Plans -> Units] /\ sold \in [Plans -> Units] /\ run[q] \in Run
      /\ bought[q] \in Nat /\ sold[q] \in Nat /\ bought[q] >= bought[q] /\ run[q].base \in Nat
      /\ ex[q].seen \in Nat /\ ex[q].unseen \in Nat
      /\ ExitPlan(q) /\ Pending
  BY Fields DEF IInv, TypeOK, ExitInv
<1>h. Succeeds("db") = {TRUE} /\ Succeeds("hold") = {TRUE}
  BY FaithfulCalls
<1>b. run'[q].base <= bought'[q]
  <2>1. (IInv => \A p \in Plans : run[p].base <= bought[p])'
    BY BaseBought, PTL
  <2> QED BY <2>1, AdvanceStep
<1>e. UNCHANGED earlier
  BY AdvanceTouches
<1>1. PICK p \in Plans :
        \/ AdvanceHold(p) \/ FailDoomed(p) \/ ClaimTrigger(p) \/ EntryOver(p)
        \/ Respawn(p) \/ SuspendEntry(p) \/ _tick_suspended(p) \/ EntryEnds(p)
        \/ PreSpawn(p) \/ Spawn(p) \/ SpawnRefused(p)
        \/ _spawn_exit(p) \/ ExitRefused(p) \/ _tick_exiting(p)
        \/ Checkpoint(p)
  BY <1>h DEF AdvanceNext, SpawnRaises, ExitRaises
<1>o. CASE p # q
  <2>1. /\ run'[q] = run[q] /\ ex'[q] = ex[q] /\ bought'[q] = bought[q] /\ sold'[q] = sold[q]
    BY <1>t, <1>1, <1>o
    DEF AdvanceHold, FailDoomed, ClaimTrigger, EntryOver, Respawn, SuspendEntry,
        _tick_suspended, EntryEnds, PreSpawn, Spawn, SpawnRefused, _spawn_exit,
        ExitRefused, _tick_exiting, Checkpoint, Finish, _entry_finished, venue
  <2>2. status'[q] = status[q]
    <3>1. CASE Finish(p, "failed") \/ Finish(p, "completed")
      BY <1>t, <1>o, <3>1, FinishMoves
    <3>2. CASE UNCHANGED status
      BY <3>2
    <3>3. CASE ClaimTrigger(p)
      BY <1>t, <1>o, <3>3 DEF ClaimTrigger
    <3> QED BY <1>1, <3>1, <3>2, <3>3
      DEF AdvanceHold, FailDoomed, EntryOver, Respawn, SuspendEntry,
          _tick_suspended, EntryEnds, PreSpawn, Spawn, SpawnRefused, _spawn_exit,
          ExitRefused, _tick_exiting, Checkpoint, _entry_finished
  <2> QED BY <1>t, <1>e, <2>1, <2>2, ExitSame
<1>p. CASE p = q
  <2>1. CASE AdvanceHold(q) \/ Checkpoint(q)
    <3>1. UNCHANGED <<status, run, ex, bought, sold>>
      BY <2>1 DEF AdvanceHold, Checkpoint, venue
    <3> QED BY <1>t, <1>e, <3>1, ExitSame
  <2>2. CASE FailDoomed(q) \/ SpawnRefused(q) \/ ExitRefused(q)
    <3>1. Finish(q, "failed") /\ UNCHANGED <<bought, sold>>
      BY <2>2 DEF FailDoomed, SpawnRefused, ExitRefused, venue
    <3> QED BY <1>t, <3>1, FinishDrops
  \* what an entry's steps need: nothing is sold yet
  <2>3. ASSUME run[q].phase \in {"waiting", "entry", "suspended"},
               run'[q].phase \in {"entry", "suspended", "exit_watch"},
               run[q].phase = "waiting" => status'[q] = "running",
               sold'[q] = sold[q], bought'[q] \in Nat
        PROVE  ExitPlan(q)'
    <3>1. sold'[q] = 0
      BY <1>t, <2>3 DEF ExitPlan
    <3>2. run'[q].base \in Nat
      <4>1. IInv'
        BY AdvanceStep
      <4> QED BY <4>1 DEF IInv, TypeOK, Run
    <3>3. status'[q] \notin Unclaimed
      BY <1>t, <2>3, ClaimedStays DEF ExitPlan, Unclaimed
    <3> QED BY <1>b, <2>3, <3>1, <3>2, <3>3 DEF ExitPlan
  <2>4. CASE ClaimTrigger(q)
    <3>1. run[q].phase = "waiting" /\ UNCHANGED <<bought, sold>>
      BY <2>4 DEF ClaimTrigger, Advanced, venue
    <3>2. CASE status[q] = "awaiting_trigger"
      <4>1. /\ run' = [run EXCEPT ![q] = [@ EXCEPT !.phase = "entry"]]
            /\ status' = [status EXCEPT ![q] = "running"]
        BY <1>h, <2>4, <3>2 DEF ClaimTrigger
      <4>2. run'[q].phase = "entry" /\ status'[q] = "running"
        BY <1>t, <4>1 DEF Run
      <4> QED BY <1>t, <2>3, <3>1, <4>2
    <3>3. CASE status[q] # "awaiting_trigger"
      <4>1. run' = [run EXCEPT ![q] = NoRun] /\ UNCHANGED status
        BY <1>h, <2>4, <3>3 DEF ClaimTrigger
      <4>2. run'[q].phase = "none" /\ status'[q] # "running"
        BY <1>t, <3>1, <4>1 DEF NoRun, ExitPlan
      <4> QED BY <1>t, <3>1, <4>2, ExitDropped
    <3> QED BY <3>2, <3>3
  <2>5. ASSUME NEW r \in Run, _entry_finished(q, r), run[q].phase = "entry",
               UNCHANGED <<bought, sold>>
        PROVE  ExitPlan(q)'
    <3>1. CASE Finish(q, "failed") \/ Finish(q, "completed")
      BY <1>t, <2>5, <3>1, FinishDrops
    <3>2. CASE run' = [run EXCEPT ![q] = [r EXCEPT !.phase = "exit_watch"]]
      <4>1. run'[q].phase = "exit_watch"
        BY <1>t, <3>2 DEF Run
      <4> QED BY <1>t, <2>3, <2>5, <4>1
    <3> QED BY <2>5, <3>1, <3>2 DEF _entry_finished
  <2>6. CASE EntryOver(q)
    <3>1. _entry_finished(q, run[q]) /\ run[q].phase = "entry" /\ UNCHANGED <<bought, sold>>
      BY <2>6 DEF EntryOver, Advanced, venue
    <3> QED BY <1>t, <2>5, <3>1
  <2>7. CASE EntryEnds(q)
    <3>1. PICK s \in StopOutcomes(q) :
            _entry_finished(q, [run[q] EXCEPT !.done = TRUE, !.base = @ + s.x.seen])
      BY <2>7 DEF EntryEnds
    <3>2. s.x.seen \in Nat
      BY Stopped
    <3> DEFINE r == [run[q] EXCEPT !.done = TRUE, !.base = @ + s.x.seen]
    <3>3. r \in Run
      <4>1. run[q].base + s.x.seen \in Nat
        BY <1>t, <3>2
      <4> QED BY <1>t, <4>1 DEF Run
    <3>4. _entry_finished(q, r) /\ run[q].phase = "entry" /\ UNCHANGED <<bought, sold>>
      BY <2>7, <3>1 DEF EntryEnds, Advanced
    <3> HIDE DEF r
    <3> QED BY <2>5, <3>3, <3>4
  <2>8. CASE Respawn(q) \/ _tick_suspended(q)
    <3>1. /\ run[q].phase \in {"entry", "suspended"} /\ UNCHANGED <<bought, sold>>
          /\ run'[q].phase \in {"entry", "suspended"}
      BY <1>t, <2>8 DEF Respawn, _tick_suspended, Advanced, Run, venue
    <3> QED BY <1>t, <2>3, <3>1
  <2>9. CASE SuspendEntry(q)
    <3>1. run[q].phase = "entry" /\ UNCHANGED <<bought, sold>>
      BY <2>9 DEF SuspendEntry, Advanced
    <3>2. run'[q].phase = "suspended"
      <4>1. PICK b : run' = [run EXCEPT ![q] = [@ EXCEPT !.phase = "suspended", !.base = b]]
        BY <2>9 DEF SuspendEntry
      <4> QED BY <1>t, <4>1 DEF Run
    <3> QED BY <1>t, <2>3, <3>1, <3>2
  <2>10. CASE PreSpawn(q)
    <3>1. run[q].phase = "entry" /\ UNCHANGED <<bought, sold>>
      BY <1>t, <2>10 DEF PreSpawn, Pending, venue
    <3>2. CASE _entry_finished(q, [run[q] EXCEPT !.done = TRUE])
      <4> DEFINE r == [run[q] EXCEPT !.done = TRUE]
      <4>1. r \in Run /\ _entry_finished(q, r)
        BY <1>t, <3>2 DEF Run
      <4> HIDE DEF r
      <4> QED BY <2>5, <3>1, <4>1
    <3>3. CASE \E on \in BOOLEAN : run' = [run EXCEPT ![q].started = on]
      <4>1. run'[q].phase = "entry"
        BY <1>t, <3>1, <3>3 DEF Run
      <4> QED BY <1>t, <2>3, <3>1, <4>1
    <3> QED BY <2>10, <3>2, <3>3 DEF PreSpawn
  <2>11. CASE Spawn(q)
    <3>1. run[q].phase = "entry" /\ UNCHANGED <<run, sold>>
      BY <1>t, <2>11 DEF Spawn, Spawning, Pending
    <3>2. bought'[q] \in Nat
      <4>1. IInv'
        BY AdvanceStep
      <4> QED BY <4>1 DEF IInv, TypeOK, Units
    <3> QED BY <2>3, <3>1, <3>2
  <2>12. CASE _spawn_exit(q)
    <3>1. PICK o \in Placements(q, "exit", run[q].base) :
            /\ ex' = [ex EXCEPT ![q] = Created("exit", run[q].base, 0, o, TRUE)]
            /\ sold' = [sold EXCEPT ![q] = sold[q] + o.k]
      BY <2>12 DEF _spawn_exit, ExitAmount
    <3>2. /\ run' = [run EXCEPT ![q].phase = "exiting"] /\ UNCHANGED <<status, bought>>
          /\ run[q].phase = "exit_watch"
      BY <2>12 DEF _spawn_exit, Advanced
    <3>3. o.k \in Nat /\ o.k <= run[q].base /\ o.told \in BOOLEAN
      BY <1>t, Placed
    <3>4. /\ ex'[q].leg = "exit"
          /\ ex'[q].unseen = (IF o.told THEN 0 ELSE o.k) /\ ex'[q].seen = (IF o.told THEN o.k ELSE 0)
          /\ ex'[q].dead => o.told
      BY <1>t, <3>1 DEF Created
    <3>5. run'[q].phase = "exiting" /\ run'[q].base = run[q].base
      BY <1>t, <3>2 DEF Run
    <3>6. sold'[q] = sold[q] + o.k
      BY <1>t, <3>1
    <3>7. ex'[q].seen + ex'[q].unseen = o.k /\ (ex'[q].dead => ex'[q].unseen = 0)
      BY <3>3, <3>4
    <3>8. sold[q] + run[q].base <= bought[q]
      BY <1>t, <3>2 DEF ExitPlan
    <3>9. ex'[q].seen \in Nat /\ ex'[q].unseen \in Nat
      BY <3>3, <3>4
    <3>10. /\ sold'[q] <= bought'[q]
           /\ ex'[q].seen + ex'[q].unseen <= run'[q].base
           /\ sold'[q] + run'[q].base <= bought'[q] + ex'[q].seen + ex'[q].unseen
      BY <1>t, <3>2, <3>3, <3>5, <3>6, <3>7, <3>8, <3>9
    <3>11. status'[q] \notin Unclaimed
      BY <1>t, <3>2, ClaimedStays DEF ExitPlan
    <3> QED BY <3>4, <3>5, <3>7, <3>10, <3>11 DEF ExitPlan
  <2>13. CASE _tick_exiting(q)
    <3>1. run[q].phase = "exiting" /\ ex[q].dead /\ UNCHANGED <<bought, sold>>
      BY <2>13 DEF _tick_exiting, Advanced, venue
    <3>2. CASE Finish(q, "completed")
      BY <1>t, <3>1, <3>2, FinishDrops
    <3>3. CASE /\ ex[q].seen < run[q].base /\ UNCHANGED status
               /\ run' = [run EXCEPT ![q].phase = "exit_watch",
                                     ![q].base = run[q].base - ex[q].seen]
      <4>1. run'[q].phase = "exit_watch" /\ run'[q].base = run[q].base - ex[q].seen
        BY <1>t, <3>3 DEF Run
      <4>2. sold[q] + (run[q].base - ex[q].seen) <= bought[q] /\ sold[q] <= bought[q]
        BY <1>t, <3>1, <3>3 DEF ExitPlan
      <4>3. status[q] \notin Unclaimed
        BY <1>t, <3>1 DEF ExitPlan
      <4> QED BY <3>1, <3>3, <4>1, <4>2, <4>3 DEF ExitPlan
    <3> QED BY <2>13, <3>2, <3>3 DEF _tick_exiting
  <2> QED BY <1>1, <1>p, <2>1, <2>2, <2>4, <2>6, <2>7, <2>8, <2>9, <2>10, <2>11, <2>12, <2>13
<1> QED BY <1>o, <1>p

LEMMA ExitStep ==
  ASSUME Faithful
  PROVE  IInv /\ LifeInv /\ ExitInv /\ [Next]_vars => ExitInv'
<1> SUFFICES ASSUME IInv, LifeInv, ExitInv, [Next]_vars PROVE ExitInv'
  OBVIOUS
<1>1. CASE UserNext \/ UNCHANGED vars \/ \E p \in Plans : Fill(p)
  <2>1. UNCHANGED <<run, sold, session, earlier>>
    BY <1>1 DEF UserNext, insert_draft, confirm_plan, discard_draft, cancel_plan, venue, process,
                vars, Fill
  <2>2. ASSUME NEW q \in Plans PROVE ExitPlan(q)'
    <3>t. /\ ex \in [Plans -> Executor] /\ status \in [Plans -> Statuses]
          /\ bought \in [Plans -> Units] /\ bought[q] \in Nat /\ bought[q] >= bought[q]
          /\ ExitPlan(q)
      BY Fields DEF IInv, TypeOK, ExitInv
    <3>1. status'[q] = "running" => status[q] = "running"
      BY <3>t, <1>1 DEF UserNext, insert_draft, confirm_plan, discard_draft, cancel_plan, vars, Fill
    <3>2. bought'[q] \in Nat /\ bought'[q] >= bought[q]
      <4>1. ASSUME NEW p \in Plans, Fill(p) PROVE bought'[q] \in Nat /\ bought'[q] >= bought[q]
        <5>1. bought' = [bought EXCEPT ![p] = @ + 1]
          BY <4>1 DEF Fill
        <5>2. CASE p = q
          BY <3>t, <5>1, <5>2
        <5>3. CASE p # q
          BY <3>t, <5>1, <5>3
        <5> QED BY <5>2, <5>3
      <4>2. CASE UserNext \/ UNCHANGED vars
        <5>1. UNCHANGED bought
          BY <4>2 DEF UserNext, insert_draft, confirm_plan, discard_draft, cancel_plan, venue, vars
        <5> QED BY <3>t, <5>1
      <4> QED BY <1>1, <4>1, <4>2
    <3>3. run[q].phase = "exiting" => ex'[q] = ex[q]
      <4>1. ASSUME NEW p \in Plans, Fill(p), run[q].phase = "exiting" PROVE ex'[q] = ex[q]
        <5>1. ex[q].leg = "exit"
          BY <3>t, <4>1 DEF ExitPlan
        <5> QED BY <3>t, <4>1, <5>1 DEF Fill
      <4> QED BY <1>1, <4>1
              DEF UserNext, insert_draft, confirm_plan, discard_draft, cancel_plan, vars
    <3> QED BY <2>1, <3>t, <3>1, <3>2, <3>3, ExitSame
  <2> QED BY <2>1, <2>2 DEF ExitInv
<1>2. CASE Crash
  <2>1. ASSUME NEW q \in Plans PROVE ExitPlan(q)'
    <3>1. /\ run'[q].phase = "none" /\ UNCHANGED <<status, bought, sold>> /\ ExitPlan(q)
          /\ earlier' = {p \in Plans : status[p] \notin {"none", "draft"}}
      BY <1>2 DEF Crash, NoRun, venue, ExitInv
    <3>2. status'[q] # "running" \/ q \in earlier'
      BY <3>1
    <3> QED BY <3>1, <3>2, ExitDropped
  <2> QED BY <1>2, <2>1 DEF Crash, ExitInv
<1>3. CASE DriveNext
  <2>1. ASSUME NEW q \in Plans PROVE ExitPlan(q)' /\ UNCHANGED session
    BY <1>3, ExitDrive DEF ExitInv
  <2>2. UNCHANGED session
    BY <1>3, <2>1 DEF DriveNext
  <2> QED BY <2>1, <2>2 DEF ExitInv
<1>4. CASE AdvanceNext
  <2>1. ASSUME NEW q \in Plans PROVE ExitPlan(q)'
    BY <1>4, ExitAdvance
  <2> QED BY <1>4, <2>1, AdvanceTouches DEF ExitInv
<1>5. CASE \/ BootScan \/ EnsureSession \/ StopSession \/ ReconcileFails \/ NextStage
           \/ \E p \in Plans : BootPark(p) \/ _reconcile(p)
  <2>1. ASSUME NEW q \in Plans PROVE ExitPlan(q)'
    BY <1>5, ExitRunner
  <2>2. session' # "failed"
    BY <1>5 DEF BootScan, EnsureSession, StopSession, ReconcileFails, NextStage, BootPark,
                _reconcile, process, ExitInv
  <2> QED BY <2>1, <2>2 DEF ExitInv
<1> QED BY <1>1, <1>2, <1>3, <1>4, <1>5 DEF Next, tick_desk_runner

\* ExitClosesActual under the default redeploy contract, for any number of
\* restarts, partial closes, retries, failing placements and cancels.  What is
\* excluded are the calls whose failure makes a run lose what it knows: a read
\* of the exit order, the plan table, the inventory write (_spawn_exit,
\* _tick_exiting).
THEOREM ExitsCloseActual == ASSUME Faithful PROVE Spec => []ExitClosesActual
<1>1. Init => LifeInv /\ ExitInv
  <2> SUFFICES ASSUME Init PROVE LifeInv /\ ExitInv
    OBVIOUS
  <2>1. earlier = {} /\ tick.pc = "idle" /\ session = "none"
    BY IdleTickType DEF Init
  <2>2. ASSUME NEW p \in Plans PROVE ExitPlan(p)
    BY DEF Init, ExitPlan, NoRun
  <2> QED BY <2>1, <2>2 DEF LifeInv, ExitInv
<1>2. IInv /\ LifeInv /\ ExitInv /\ [Next]_vars => LifeInv' /\ ExitInv'
  BY LifeStep, ExitStep DEF Faithful
<1>3. ExitInv => ExitClosesActual
  BY DEF ExitInv, ExitPlan, ExitClosesActual
<1> QED BY <1>1, <1>2, <1>3, InitIInv, IInvStep, PTL DEF Spec
=============================================================================
