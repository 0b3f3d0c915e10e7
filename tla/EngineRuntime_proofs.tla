------------------------- MODULE EngineRuntime_proofs -------------------------
(* Proofs about EngineRuntime, for every number of cycles, kickoffs, stops,  *)
(* builds, executors and restarts, and every set of faults.                  *)
EXTENDS EngineRuntime, TLAPS

-----------------------------------------------------------------------------
(* Types. TypeOK says nothing of the rows of a batch, nor that a batch and   *)
(* its owner agree.                                                          *)

Written == {"ACTIVE", "TERMINATED"}
BatchType == [rows : UNION {[D -> Written] : D \in SUBSET Executors}, owner : Tasks \cup {"none", "cancelled"}]

\* Where a task waits for its own batch.
OwnerWaits ==
    /\ batch.owner \in Tasks => pc[batch.owner] \in {"writing", "forced"}
    /\ batch.owner = "none" => batch = NoBatch

\* The parts of a cycle and of a stop at which the task has an instance.
HasInstance ==
    \A t \in Tasks :
        pc[t] \in {"on_start", "rollback", "started", "ticking", "on_stop", "gather", "force", "forced", "sweep"} => mine[t] # 0

TypeInv == TypeOK /\ batch \in BatchType /\ OwnerWaits /\ HasInstance

-----------------------------------------------------------------------------
(* One instance.                                                             *)

\* Whoever is between taking the cycle lock and releasing it holds it.
LockExcludes == \A c \in Cyclers : pc[c] \notin {"idle", "wait"} => lock = c

\* A stop that has got past the hook has listed the executors of what it took.
StopLists ==
    \A t \in Tasks : /\ pc[t] \in {"gather", "force", "forced", "sweep", "pop"} => mine[t] \in listed \cup {0}
                     /\ pc[t] = "cross" => mine[t] = 0

\* While a cycle works on an instance it is the registered one, unless a stop has taken or dropped it.
WorksOnRegistered ==
    \A c \in Cyclers : pc[c] \in {"on_start", "rollback", "ticking"} => mine[c] \in {reg} \cup listed \cup dropped
\* While it starts one, no other is registered.
StartsAlone == \A c \in Cyclers : pc[c] \in {"on_start", "rollback"} => reg \in {0, mine[c]}

\* A failed start takes down all that on_start had spawned.
RollbackStopsAll ==
    \A c \in Cyclers : pc[c] = "rollback" => mine[c] \in listed \/ Active(mine[c]) \subseteq stopping

\* A start builds only when what was registered is gone or listed.
StartsFromNothing ==
    \A c \in Cyclers :
        /\ pc[c] = "build" => reg \in listed \cup {0}
        /\ pc[c] \in {"on_stop", "gather", "force", "forced", "sweep", "cross", "pop"} /\ after[c] = "build" => reg \in {0, mine[c]}

OneInv == /\ LockExcludes /\ StopLists /\ WorksOnRegistered /\ StartsAlone /\ RollbackStopsAll /\ StartsFromNothing
          /\ OneInstance

-----------------------------------------------------------------------------
(* Rows.                                                                     *)

\* What has terminated stays terminated.
TickedTerminated == \A c \in Tasks : \A e \in before[c] : ex[e] \in {"TERMINATED", "pruned"}
\* A signature TERMINATED stands for a row that says so, which no batch in flight will take back.
SignedIsWritten ==
    \A e \in Executors : sig[e] = "TERMINATED" =>
        /\ row[e] = "TERMINATED" /\ ex[e] \in {"TERMINATED", "pruned"}
        /\ e \in DOMAIN batch.rows => batch.rows[e] = "TERMINATED"
BatchIsPast == \A e \in DOMAIN batch.rows : batch.rows[e] = "TERMINATED" => ex[e] \in {"TERMINATED", "pruned"}
PrunedStaysWritten ==
    restarts = 0 => \A e \in Executors : ex[e] = "pruned" =>
        row[e] = "TERMINATED" /\ (e \in DOMAIN batch.rows => batch.rows[e] = "TERMINATED")

RowInv == TickedTerminated /\ SignedIsWritten /\ BatchIsPast /\ PrunedStaysWritten

-----------------------------------------------------------------------------
LEMMA Names == /\ "none" \notin Tasks /\ "cancelled" \notin Tasks /\ Jobs \subseteq Cyclers /\ Kicks \subseteq Cyclers
               /\ Cyclers \subseteq Tasks /\ Stoppers \subseteq Tasks /\ Stoppers \cap Cyclers = {}
  BY RuntimeAssumption DEF Tasks, Cyclers

LEMMA NoBatchType == NoBatch \in BatchType /\ DOMAIN NoBatch.rows = {} /\ NoBatch.owner = "none"
<1>1. NoBatch.rows \in [{} -> Written]
  BY DEF NoBatch
<1> QED BY <1>1 DEF NoBatch, BatchType

LEMMA InitTypes == Init => TypeInv
<1> SUFFICES ASSUME Init PROVE TypeInv
  OBVIOUS
<1>1. TypeOK
  <2>1. DOMAIN batch.rows \subseteq Executors /\ batch.owner \in Tasks \cup {"none", "cancelled"}
    BY NoBatchType DEF Init
  <2>2. /\ pc \in [Tasks -> PCs] /\ mine \in [Tasks -> 0..MaxBuilds]
        /\ after \in [Tasks -> {"idle", "build", "release"}] /\ before \in [Tasks -> SUBSET Executors]
    BY RuntimeAssumption DEF Init, PCs
  <2>3. fails \in [Instances -> 0..(MaxTransient - 1)] /\ backing \in [Instances -> BOOLEAN]
    BY RuntimeAssumption DEF Init
  <2>4. /\ ex \in [Executors -> {"none", "ACTIVE", "TERMINATED", "pruned"}]
        /\ sigs \in BOOLEAN /\ sig \in [Executors -> {"none", "ACTIVE", "TERMINATED"}]
        /\ row \in [Executors -> {"none", "ACTIVE", "TERMINATED"}] /\ ran \in [Executors -> 0..MaxSessions]
    <3>1. 0 \in 0..MaxSessions
      BY RuntimeAssumption
    <3>2. /\ ex = [e \in Executors |-> "none"] /\ sigs = FALSE /\ sig = [e \in Executors |-> "none"]
          /\ row = [e \in Executors |-> "none"] /\ ran = [e \in Executors |-> 0]
      BY DEF Init
    <3> QED BY <3>1, <3>2
  <2>5. /\ session \in 0..MaxSessions /\ sessions \in 0..MaxSessions /\ stops \in 0..MaxStops /\ restarts \in 0..Restarts
        /\ timeouts \in 0..MaxTimeouts /\ reg \in 0..MaxBuilds /\ builds \in 0..MaxBuilds
    BY RuntimeAssumption DEF Init
  <2>6. /\ ctl \in [Instances -> {"none", "INIT", "ACTIVE", "FAILED", "STOPPED"}]
        /\ stopping \subseteq Executors /\ listed \subseteq Instances /\ dropped \subseteq Instances
        /\ lock \in Cyclers \cup {"none"}
    BY DEF Init
  <2> QED BY <2>1, <2>2, <2>3, <2>4, <2>5, <2>6 DEF TypeOK
<1>2. OwnerWaits /\ HasInstance
  <2>1. batch = NoBatch /\ \A t \in Tasks : pc[t] = "idle"
    BY DEF Init
  <2> QED BY <2>1, NoBatchType, Names DEF OwnerWaits, HasInstance
<1>3. batch \in BatchType
  BY NoBatchType DEF Init
<1> QED BY <1>1, <1>2, <1>3 DEF TypeInv

\* A call of EngineRuntime.stop.
LEMMA CallsStop ==
  ASSUME TypeInv, NEW t \in Tasks, NEW then \in {"idle", "build", "release"}, CallStop(t, then), pc[t] \notin {"writing", "forced"}
  PROVE  /\ pc' \in [Tasks -> PCs] /\ mine' \in [Tasks -> 0..MaxBuilds] /\ after' \in [Tasks -> {"idle", "build", "release"}]
         /\ pc'[t] = IF reg = 0 THEN "cross" ELSE "on_stop"
         /\ mine'[t] = reg /\ after'[t] = then
         /\ \A u \in Tasks \ {t} : pc'[u] = pc[u] /\ mine'[u] = mine[u] /\ after'[u] = after[u]
  BY DEF CallStop, Goto, TypeInv, TypeOK, PCs

LEMMA RunTypes ==
  ASSUME TypeInv,
         \/ \E k \in Kicks : UserStart(k)
         \/ \E j \in Jobs : CycleBegin(j)
         \/ \E s \in Stoppers : StopRun(s)
  PROVE  TypeInv'
<1> USE RuntimeAssumption, Names DEF TypeInv, TypeOK, runVars, liveVars, rowVars, OwnerWaits, HasInstance
<1>1. ASSUME NEW k \in Kicks, UserStart(k) PROVE TypeInv'
  BY <1>1 DEF UserStart, Goto, PCs
<1>2. ASSUME NEW j \in Jobs, CycleBegin(j) PROVE TypeInv'
  BY <1>2 DEF CycleBegin, Goto, PCs
<1>3. ASSUME NEW s \in Stoppers, StopRun(s) PROVE TypeInv'
  <2>1. CallStop(s, "idle") /\ pc[s] = "idle"
    BY <1>3 DEF StopRun
  <2> QED BY <1>3, <2>1, CallsStop DEF StopRun
<1> QED BY <1>1, <1>2, <1>3

\* A pass of _persist_executors.
LEMMA SubmitTypes ==
  ASSUME TypeInv, NEW t \in Tasks, pc[t] \in {"persist", "force"}, batch = NoBatch,
         NEW next, next = IF pc[t] = "force" THEN "sweep" ELSE "release",
         Submit(t, next), UNCHANGED <<runVars, liveVars, lock, mine, after, before>>
  PROVE  /\ TypeInv'
         /\ \A u \in Tasks \ {t} : pc'[u] = pc[u]
         /\ pc'[t] \in IF pc[t] = "force" THEN {"forced", "sweep"} ELSE {"writing", "release"}
<1> USE RuntimeAssumption, Names
<1>1. sigs' \in BOOLEAN /\ sig' \in [Executors -> {"none", "ACTIVE", "TERMINATED"}] /\ UNCHANGED <<row, ran>>
  BY DEF Submit, TypeInv, TypeOK
<1>2. CASE Dirty(mine[t]) = {}
  <2>1. Goto(t, next) /\ UNCHANGED batch
    BY <1>2 DEF Submit
  <2>2. OwnerWaits' /\ HasInstance'
    BY <2>1 DEF Goto, TypeInv, TypeOK, OwnerWaits, HasInstance, NoBatch
  <2> QED BY <1>1, <2>1, <2>2 DEF Goto, TypeInv, TypeOK, PCs, runVars, liveVars
<1>3. CASE Dirty(mine[t]) # {}
  <2> DEFINE D == Dirty(mine[t])
             f == [e \in D |-> ex[e]]
  <2>1. batch' = [rows |-> f, owner |-> t] /\ Goto(t, IF next = "sweep" THEN "forced" ELSE "writing")
    BY <1>3 DEF Submit
  <2>2. D \in SUBSET Executors /\ f \in [D -> Written]
    BY DEF Dirty, Of, Written
  <2>3. batch' \in BatchType
    BY <2>1, <2>2 DEF BatchType
  <2>4. batch'.owner = t /\ DOMAIN batch'.rows \subseteq Executors
    BY <2>1, <2>2
  <2>5. OwnerWaits' /\ HasInstance'
    BY <2>1, <2>4 DEF Goto, TypeInv, TypeOK, OwnerWaits, HasInstance
  <2> QED BY <1>1, <2>1, <2>3, <2>4, <2>5 DEF Goto, TypeInv, TypeOK, PCs, runVars, liveVars
<1> QED BY <1>2, <1>3

\* One case per action of a cycle. What a pc leaves or enters is what OwnerWaits and HasInstance turn on.
LEMMA CycleTypes ==
  ASSUME TypeInv, NEW c \in Cyclers, CycleStep(c)
  PROVE  TypeInv'
<1> USE RuntimeAssumption, Names DEF TypeInv, TypeOK, runVars, liveVars, rowVars, taskVars, OwnerWaits, HasInstance
<1> c \in Tasks
  OBVIOUS
<1>1. CASE AcquireLock(c)
  BY <1>1 DEF AcquireLock, Goto, PCs
<1>2. CASE Decide(c)
  BY <1>2 DEF Decide, Goto, PCs
<1>3. CASE StartFirst(c)
  <2>1. CASE reg # 0
    BY <1>3, <2>1, CallsStop DEF StartFirst
  <2>2. CASE reg = 0
    BY <1>3, <2>2 DEF StartFirst, Goto, PCs
  <2> QED BY <2>1, <2>2
<1>4. CASE Build(c)
  <2>1. builds + 1 \in Instances /\ builds + 1 \in 1..MaxBuilds
    BY <1>4 DEF Build, Instances
  <2>2. builds' \in 0..MaxBuilds /\ reg' \in 0..MaxBuilds /\ ctl' \in [Instances -> {"none", "INIT", "ACTIVE", "FAILED", "STOPPED"}]
    BY <1>4, <2>1 DEF Build
  <2>3. /\ pc' \in [Tasks -> PCs] /\ mine' \in [Tasks -> 0..MaxBuilds]
        /\ pc'[c] = "on_start" /\ mine'[c] # 0
        /\ \A t \in Tasks \ {c} : pc'[t] = pc[t] /\ mine'[t] = mine[t]
    BY <1>4, <2>1 DEF Build, Goto, PCs
  <2> QED BY <1>4, <2>2, <2>3 DEF Build
<1>5. CASE SpawnExecutor(c)
  BY <1>5 DEF SpawnExecutor, Of
<1>6. CASE OnStartReturns(c)
  BY <1>6 DEF OnStartReturns, Goto, PCs, Instances
<1>7. CASE OnStartRaises(c)
  <2>1. stopping' \subseteq Executors /\ ctl' \in [Instances -> {"none", "INIT", "ACTIVE", "FAILED", "STOPPED"}]
    BY <1>7 DEF OnStartRaises, Active, Of
  <2> QED BY <1>7, <2>1 DEF OnStartRaises, Goto, PCs
<1>8. CASE RolledBack(c)
  BY <1>8 DEF RolledBack, Goto, PCs
<1>9. CASE Started(c)
  <2>1. CASE CallStop(c, "release")
    BY <1>9, <2>1, CallsStop DEF Started
  <2>2. CASE Goto(c, "release") /\ UNCHANGED <<mine, after>>
    BY <1>9, <2>2 DEF Started, Goto, PCs
  <2> QED BY <1>9, <2>1, <2>2 DEF Started
<1>10. CASE Release(c)
  BY <1>10 DEF Release, Goto, PCs
<1>11. CASE TickController(c)
  BY <1>11 DEF TickController, Goto, PCs, Of
<1>12. CASE ExecutorEnds(c)
  BY <1>12 DEF ExecutorEnds, Active, Of
<1>13. CASE TickReturns(c)
  <2>1. ex' \in [Executors -> {"none", "ACTIVE", "TERMINATED", "pruned"}]
    BY <1>13 DEF TickReturns
  <2>2. fails' \in [Instances -> 0..(MaxTransient - 1)] /\ backing' \in [Instances -> BOOLEAN]
    <3>1. fails' = [fails EXCEPT ![mine[c]] = 0] /\ backing' = [backing EXCEPT ![mine[c]] = FALSE]
      BY <1>13 DEF TickReturns
    <3>2. /\ 0 \in 0..(MaxTransient - 1) /\ fails \in [Instances -> 0..(MaxTransient - 1)]
          /\ backing \in [Instances -> BOOLEAN]
      OBVIOUS
    <3> QED BY <3>1, <3>2
  <2>3. pc' = [pc EXCEPT ![c] = "persist"] /\ UNCHANGED <<runVars, reg, builds, ctl, stopping, listed, dropped, rowVars, lock, mine, after, before>>
    BY <1>13 DEF TickReturns, Goto
  <2>4. pc[c] = "ticking"
    BY <1>13 DEF TickReturns
  <2> QED BY <2>1, <2>2, <2>3, <2>4 DEF PCs
<1>14. CASE TickRaises(c)
  <2>1. mine[c] \in Instances /\ pc[c] = "ticking"
    BY <1>14 DEF TickRaises, Instances
  <2>2. fails' \in [Instances -> 0..(MaxTransient - 1)]
    <3>1. CASE fails' = [fails EXCEPT ![mine[c]] = 0]
      <4>1. 0 \in 0..(MaxTransient - 1) /\ fails \in [Instances -> 0..(MaxTransient - 1)]
        OBVIOUS
      <4> QED BY <3>1, <4>1
    <3>2. CASE ~Exhausted(fails[mine[c]] + 1) /\ fails' = [fails EXCEPT ![mine[c]] = @ + 1]
      <4>1. fails[mine[c]] \in 0..(MaxTransient - 1) /\ fails[mine[c]] + 1 < MaxTransient
        BY <3>2, <2>1 DEF Exhausted
      <4>2. fails[mine[c]] + 1 \in 0..(MaxTransient - 1)
        BY <4>1
      <4> QED BY <3>2, <4>2
    <3> QED BY <1>14, <3>1, <3>2 DEF TickRaises
  <2>3. /\ backing' \in [Instances -> BOOLEAN]
        /\ ctl' \in [Instances -> {"none", "INIT", "ACTIVE", "FAILED", "STOPPED"}]
    BY <1>14, <2>1 DEF TickRaises
  <2> QED BY <1>14, <2>1, <2>2, <2>3 DEF TickRaises, Goto, PCs
<1>15. CASE PersistTick(c)
  <2>1. CASE batch # NoBatch
    BY <1>15, <2>1 DEF PersistTick, Goto, PCs
  <2>2. CASE batch = NoBatch
    BY <1>15, <2>2, SubmitTypes DEF PersistTick
  <2> QED BY <2>1, <2>2
<1> QED BY <1>1, <1>2, <1>3, <1>4, <1>5, <1>6, <1>7, <1>8, <1>9, <1>10, <1>11, <1>12, <1>13, <1>14, <1>15 DEF CycleStep

LEMMA StopTypes ==
  ASSUME TypeInv, NEW t \in Tasks, StopStep(t)
  PROVE  TypeInv'
<1> USE RuntimeAssumption, Names DEF TypeInv, TypeOK, runVars, liveVars, rowVars, taskVars, OwnerWaits, HasInstance
<1>1. CASE StopController(t)
  <2>1. mine[t] \in Instances
    BY <1>1 DEF StopController, Instances
  <2>2. /\ ctl' \in [Instances -> {"none", "INIT", "ACTIVE", "FAILED", "STOPPED"}]
        /\ listed' \subseteq Instances /\ stopping' \subseteq Executors
    BY <1>1, <2>1 DEF StopController, Active, Of
  <2> QED BY <1>1, <2>2 DEF StopController, Goto, PCs
<1>2. CASE Gathered(t)
  BY <1>2 DEF Gathered, Goto, PCs
<1>3. CASE GatherRaises(t)
  BY <1>3 DEF GatherRaises, Goto, PCs
<1>4. CASE PersistForce(t)
  BY <1>4, SubmitTypes DEF PersistForce
<1>5. CASE SweepRows(t)
  BY <1>5 DEF SweepRows, Goto, PCs
<1>6. CASE Pop(t)
  <2>1. dropped' \subseteq Instances
    <3>1. dropped' = dropped \cup ({reg} \ {0, mine[t]}) /\ dropped \subseteq Instances
      BY <1>6 DEF Pop
    <3>2. reg # 0 => reg \in Instances
      BY DEF Instances
    <3> QED BY <3>1, <3>2
  <2>2. sigs' \in BOOLEAN /\ sig' \in [Executors -> {"none", "ACTIVE", "TERMINATED"}]
    BY <1>6 DEF Pop
  <2> QED BY <1>6, <2>1, <2>2 DEF Pop, Goto, PCs
<1> QED BY <1>1, <1>2, <1>3, <1>4, <1>5, <1>6 DEF StopStep

LEMMA WriteTypes ==
  ASSUME TypeInv, _write_executor_rows
  PROVE  TypeInv'
<1> USE RuntimeAssumption, Names
<1>1. \A e \in DOMAIN batch.rows : batch.rows[e] \in {"none", "ACTIVE", "TERMINATED"}
  BY DEF TypeInv, BatchType, Written
<1>2. PICK ok \in {TRUE} \cup (IF "db" \in Faults THEN {FALSE} ELSE {}) :
         /\ sig' = Recorded(ok)
         /\ row' = IF ok THEN [e \in Executors |-> IF e \in DOMAIN batch.rows THEN batch.rows[e] ELSE row[e]] ELSE row
         /\ ran' = IF ok THEN [e \in Executors |-> IF e \in DOMAIN batch.rows /\ row[e] = "none" THEN session ELSE ran[e]]
                   ELSE ran
  BY DEF _write_executor_rows
<1>3. sig' \in [Executors -> {"none", "ACTIVE", "TERMINATED"}]
  BY <1>1, <1>2 DEF Recorded, TypeInv, TypeOK
<1>4. row' \in [Executors -> {"none", "ACTIVE", "TERMINATED"}]
  BY <1>1, <1>2 DEF TypeInv, TypeOK
<1>5. ran' \in [Executors -> 0..MaxSessions]
  BY <1>2 DEF TypeInv, TypeOK
<1>6. batch' \in BatchType /\ DOMAIN batch'.rows \subseteq Executors /\ batch'.owner = "none" /\ batch' = NoBatch
  BY NoBatchType DEF _write_executor_rows
<1>7. pc' \in [Tasks -> PCs] /\ HasInstance'
  BY DEF _write_executor_rows, TypeInv, TypeOK, HasInstance, PCs
<1>8. TypeOK'
  BY <1>3, <1>4, <1>5, <1>6, <1>7 DEF _write_executor_rows, runVars, liveVars, TypeInv, TypeOK
<1> QED BY <1>6, <1>7, <1>8 DEF TypeInv, OwnerWaits

LEMMA TimeoutTypes ==
  ASSUME TypeInv, NEW j \in Jobs, Timeout(j)
  PROVE  TypeInv'
<1> USE RuntimeAssumption, Names
<1>1. CASE batch.owner = j
  <2>1. batch' = [batch EXCEPT !.owner = "cancelled"]
    BY <1>1 DEF Timeout
  <2>2. batch' \in BatchType /\ batch'.owner = "cancelled" /\ batch'.rows = batch.rows
    BY <2>1 DEF TypeInv, BatchType
  <2> QED BY <2>2 DEF Timeout, TypeInv, TypeOK, PCs, OwnerWaits, HasInstance
<1>2. CASE batch.owner # j
  BY <1>2 DEF Timeout, TypeInv, TypeOK, PCs, OwnerWaits, HasInstance
<1> QED BY <1>1, <1>2

LEMMA RestartTypes ==
  ASSUME TypeInv, Restart
  PROVE  TypeInv'
<1> USE RuntimeAssumption, Names
<1>1. batch' \in BatchType /\ DOMAIN batch'.rows \subseteq Executors /\ batch'.owner = "none" /\ batch' = NoBatch
  BY NoBatchType DEF Restart
<1>2. OwnerWaits' /\ HasInstance'
  BY <1>1 DEF Restart, OwnerWaits, HasInstance
<1>3. /\ pc' \in [Tasks -> PCs] /\ mine' \in [Tasks -> 0..MaxBuilds]
      /\ after' \in [Tasks -> {"idle", "build", "release"}] /\ before' \in [Tasks -> SUBSET Executors]
  BY DEF Restart, PCs
<1>4. /\ ctl' \in [Instances -> {"none", "INIT", "ACTIVE", "FAILED", "STOPPED"}]
      /\ fails' \in [Instances -> 0..(MaxTransient - 1)] /\ backing' \in [Instances -> BOOLEAN]
  BY DEF Restart
<1>5. /\ ex' \in [Executors -> {"none", "ACTIVE", "TERMINATED", "pruned"}]
      /\ sig' \in [Executors -> {"none", "ACTIVE", "TERMINATED"}]
      /\ row' \in [Executors -> {"none", "ACTIVE", "TERMINATED"}]
  BY DEF Restart, TypeInv, TypeOK
<1>6. /\ session' \in 0..MaxSessions /\ restarts' \in 0..Restarts /\ reg' \in 0..MaxBuilds
      /\ stopping' = {} /\ lock' = "none"
  <2>1. restarts \in 0..Restarts /\ session \in 0..MaxSessions /\ MaxSessions \in Nat /\ Restarts \in Nat /\ MaxBuilds \in Nat
    BY DEF TypeInv, TypeOK
  <2>2. restarts < Restarts /\ restarts' = restarts + 1
    BY DEF Restart
  <2>4. session' = 0 \/ session' = session
    BY DEF Restart
  <2>3. reg' = 0 /\ stopping' = {} /\ lock' = "none"
    BY DEF Restart
  <2>5. restarts' \in 0..Restarts
    BY <2>1, <2>2
  <2>6. session' \in 0..MaxSessions
    BY <2>1, <2>4
  <2> QED BY <2>1, <2>3, <2>5, <2>6
<1>7. TypeOK'
  <2>1. /\ UNCHANGED <<sessions, stops, timeouts, builds, listed, dropped, ran>> /\ sigs' = FALSE
    BY DEF Restart
  <2> QED BY <1>1, <1>3, <1>4, <1>5, <1>6, <2>1 DEF TypeInv, TypeOK
<1> QED BY <1>1, <1>2, <1>7 DEF TypeInv

LEMMA StepTypes == TypeInv /\ [Next]_vars => TypeInv'
<1> SUFFICES ASSUME TypeInv, [Next]_vars PROVE TypeInv'
  OBVIOUS
<1>1. ASSUME NEW e \in Executors, ExecutorStops(e) PROVE TypeInv'
  BY <1>1 DEF ExecutorStops, TypeInv, TypeOK, runVars, rowVars, taskVars, OwnerWaits, HasInstance
<1>2. ASSUME NEW i \in Instances, BackoffEnds(i) PROVE TypeInv'
  BY <1>2 DEF BackoffEnds, TypeInv, TypeOK, runVars, rowVars, taskVars, OwnerWaits, HasInstance
<1>3. CASE UNCHANGED vars
  BY <1>3 DEF vars, TypeInv, TypeOK, OwnerWaits, HasInstance
<1>4. ASSUME NEW j \in Jobs, CycleBegin(j) \/ Timeout(j) PROVE TypeInv'
  BY <1>4, RunTypes, TimeoutTypes
<1>5. ASSUME NEW c \in Cyclers, CycleStep(c) PROVE TypeInv'
  BY <1>5, CycleTypes
<1>6. ASSUME NEW t \in Tasks, StopStep(t) PROVE TypeInv'
  BY <1>6, StopTypes
<1>7. CASE \E k \in Kicks : UserStart(k)
  BY <1>7, RunTypes
<1>8. CASE \E s \in Stoppers : StopRun(s)
  BY <1>8, RunTypes
<1> QED BY <1>1, <1>2, <1>3, <1>4, <1>5, <1>6, <1>7, <1>8, WriteTypes, RestartTypes DEF Next

-----------------------------------------------------------------------------
\* The type invariant of every reachable state: of the key's registration, of the executors and their rows, of
\* the batch in flight and of where every task stands (run_engine_cycle, EngineRuntime.start, tick, stop).
THEOREM TypeCorrect == Spec => []TypeOK
<1>1. TypeInv => TypeOK
  BY DEF TypeInv
<1> QED BY <1>1, InitTypes, StepTypes, PTL DEF Spec

-----------------------------------------------------------------------------
(* One instance: every step keeps OneInv.                                    *)

\* What the proof needs of the types.
Shape == /\ reg \in Nat /\ pc \in [Tasks -> PCs] /\ mine \in [Tasks -> Nat] /\ after \in [Tasks -> {"idle", "build", "release"}]
         /\ ex \in [Executors -> {"none", "ACTIVE", "TERMINATED", "pruned"}]
         /\ HasInstance /\ OwnerWaits

LEMMA ShapeOK == TypeInv => Shape
  BY RuntimeAssumption DEF TypeInv, TypeOK, Shape

LEMMA InitParts == Init => OneInv
<1> SUFFICES ASSUME Init PROVE OneInv
  OBVIOUS
<1>1. \A t \in Tasks : pc[t] = "idle"
  BY DEF Init
<1>2. \A i \in Instances : Active(i) = {}
  BY DEF Init, Active, Of
<1> QED BY <1>1, <1>2, Names DEF OneInv, LockExcludes, StopLists, WorksOnRegistered, StartsAlone, RollbackStopsAll,
                                  StartsFromNothing, OneInstance

LEMMA RunParts ==
  ASSUME TypeInv, OneInv,
         \/ \E k \in Kicks : UserStart(k)
         \/ \E j \in Jobs : CycleBegin(j)
         \/ \E s \in Stoppers : StopRun(s)
  PROVE  OneInv'
<1> USE Names, ShapeOK DEF Shape, OneInv, LockExcludes, StopLists, WorksOnRegistered, StartsAlone, RollbackStopsAll, StartsFromNothing,
               OneInstance, Active, runVars, liveVars, rowVars, HasInstance
<1>1. ASSUME NEW k \in Kicks, UserStart(k) PROVE OneInv'
  BY <1>1 DEF UserStart, Goto
<1>2. ASSUME NEW j \in Jobs, CycleBegin(j) PROVE OneInv'
  BY <1>2 DEF CycleBegin, Goto
<1>3. ASSUME NEW s \in Stoppers, StopRun(s) PROVE OneInv'
  BY <1>3, CallsStop DEF StopRun
<1> QED BY <1>1, <1>2, <1>3

LEMMA CycleParts ==
  ASSUME TypeInv, OneInv, NEW c \in Cyclers, CycleStep(c)
  PROVE  OneInv'
<1> USE Names, ShapeOK DEF Shape, OneInv, LockExcludes, StopLists, WorksOnRegistered, StartsAlone, RollbackStopsAll, StartsFromNothing,
               OneInstance, Active, runVars, liveVars, rowVars, taskVars, HasInstance
<1> c \in Tasks
  OBVIOUS
<1>1. CASE AcquireLock(c)
  BY <1>1 DEF AcquireLock, Goto
<1>2. CASE Decide(c)
  BY <1>2 DEF Decide, Goto
<1>3. CASE StartFirst(c)
  <2>1. CASE reg # 0
    BY <1>3, <2>1, CallsStop DEF StartFirst
  <2>2. CASE reg = 0
    BY <1>3, <2>2 DEF StartFirst, Goto
  <2> QED BY <2>1, <2>2
<1>4. CASE Build(c)
  <2>1. /\ reg' = builds + 1 /\ mine' = [mine EXCEPT ![c] = builds + 1] /\ builds + 1 \in Nat
        /\ pc' = [pc EXCEPT ![c] = "on_start"] /\ pc[c] = "build"
        /\ UNCHANGED <<ex, stopping, listed, dropped, lock, after>>
    BY <1>4 DEF Build, Goto, TypeInv, TypeOK
  <2>2. \A d \in Cyclers \ {c} : pc[d] \in {"idle", "wait"}
    BY <2>1
  <2>3. \A i \in Instances : Active(i) # {} => i \in listed \cup dropped
    BY <2>1 DEF Instances
  <2> QED BY <2>1, <2>2, <2>3
<1>5. CASE SpawnExecutor(c)
  BY <1>5 DEF SpawnExecutor, Of
<1>6. CASE OnStartReturns(c)
  BY <1>6 DEF OnStartReturns, Goto
<1>7. CASE OnStartRaises(c)
  BY <1>7 DEF OnStartRaises, Goto
<1>8. CASE RolledBack(c)
  BY <1>8 DEF RolledBack, Goto
<1>9. CASE Started(c)
  <2>1. CASE CallStop(c, "release")
    BY <1>9, <2>1, CallsStop DEF Started
  <2>2. CASE Goto(c, "release") /\ UNCHANGED <<mine, after>>
    BY <1>9, <2>2 DEF Started, Goto
  <2> QED BY <1>9, <2>1, <2>2 DEF Started
<1>10. CASE Release(c)
  BY <1>10 DEF Release, Goto
<1>11. CASE TickController(c)
  BY <1>11 DEF TickController, Goto
<1>12. CASE ExecutorEnds(c)
  BY <1>12 DEF ExecutorEnds
<1>13. CASE TickReturns(c)
  <2>1. \A e \in Executors : ex'[e] = "ACTIVE" => ex[e] = "ACTIVE"
    <3>1. PICK P \in SUBSET {e \in before[c] : ~_unpersisted(e)} : ex' = [e \in Executors |-> IF e \in P THEN "pruned" ELSE ex[e]]
      BY <1>13 DEF TickReturns
    <3> QED BY <3>1
  <2>2. /\ pc[c] = "ticking" /\ pc' = [pc EXCEPT ![c] = "persist"]
        /\ UNCHANGED <<reg, stopping, listed, dropped, lock, mine, after>>
    BY <1>13 DEF TickReturns, Goto
  <2> QED BY <2>1, <2>2 DEF Of
<1>14. CASE TickRaises(c)
  BY <1>14 DEF TickRaises, Goto
<1>15. CASE PersistTick(c)
  BY <1>15, SubmitTypes DEF PersistTick, Goto
<1> QED BY <1>1, <1>2, <1>3, <1>4, <1>5, <1>6, <1>7, <1>8, <1>9, <1>10, <1>11, <1>12, <1>13, <1>14, <1>15 DEF CycleStep

LEMMA StopParts ==
  ASSUME TypeInv, OneInv, NEW t \in Tasks, StopStep(t)
  PROVE  OneInv'
<1> USE Names, ShapeOK DEF Shape, OneInv, LockExcludes, StopLists, WorksOnRegistered, StartsAlone, RollbackStopsAll, StartsFromNothing,
               OneInstance, Active, runVars, liveVars, rowVars, taskVars, HasInstance
<1>1. CASE StopController(t)
  BY <1>1 DEF StopController, Goto
<1>2. CASE Gathered(t)
  BY <1>2 DEF Gathered, Goto
<1>3. CASE GatherRaises(t)
  BY <1>3 DEF GatherRaises, Goto, Of
<1>4. CASE PersistForce(t)
  BY <1>4, SubmitTypes DEF PersistForce
<1>5. CASE SweepRows(t)
  BY <1>5 DEF SweepRows, Goto
<1>6. CASE Pop(t)
  BY <1>6 DEF Pop, Goto
<1> QED BY <1>1, <1>2, <1>3, <1>4, <1>5, <1>6 DEF StopStep

LEMMA OtherParts ==
  ASSUME TypeInv, OneInv,
         \/ _write_executor_rows
         \/ Restart
         \/ \E j \in Jobs : Timeout(j)
         \/ \E e \in Executors : ExecutorStops(e)
         \/ \E i \in Instances : BackoffEnds(i)
         \/ UNCHANGED vars
  PROVE  OneInv'
<1> USE Names, ShapeOK DEF Shape, OneInv, LockExcludes, StopLists, WorksOnRegistered, StartsAlone, RollbackStopsAll, StartsFromNothing,
               OneInstance, Active, runVars, liveVars, rowVars, taskVars, HasInstance
<1>1. CASE _write_executor_rows
  BY <1>1 DEF _write_executor_rows, OwnerWaits
<1>2. CASE Restart
  BY <1>2 DEF Restart, Of
<1>3. ASSUME NEW j \in Jobs, Timeout(j) PROVE OneInv'
  BY <1>3 DEF Timeout, Of
<1>4. ASSUME NEW e \in Executors, ExecutorStops(e) PROVE OneInv'
  BY <1>4 DEF ExecutorStops
<1>5. ASSUME NEW i \in Instances, BackoffEnds(i) PROVE OneInv'
  BY <1>5 DEF BackoffEnds
<1>6. CASE UNCHANGED vars
  BY <1>6 DEF vars
<1> QED BY <1>1, <1>2, <1>3, <1>4, <1>5, <1>6

LEMMA StepParts == TypeInv /\ OneInv /\ [Next]_vars => OneInv'
<1> SUFFICES ASSUME TypeInv, OneInv, [Next]_vars PROVE OneInv'
  OBVIOUS
<1>1. ASSUME NEW j \in Jobs, CycleBegin(j) \/ Timeout(j) PROVE OneInv'
  BY <1>1, RunParts, OtherParts
<1>2. ASSUME NEW c \in Cyclers, CycleStep(c) PROVE OneInv'
  BY <1>2, CycleParts
<1>3. ASSUME NEW t \in Tasks, StopStep(t) PROVE OneInv'
  BY <1>3, StopParts
<1>4. CASE (\E k \in Kicks : UserStart(k)) \/ (\E s \in Stoppers : StopRun(s))
  BY <1>4, RunParts
<1>5. CASE (\E e \in Executors : ExecutorStops(e)) \/ (\E i \in Instances : BackoffEnds(i)) \/ _write_executor_rows \/ Restart
  BY <1>5, OtherParts
<1>6. CASE UNCHANGED vars
  BY <1>6, OtherParts
<1> QED BY <1>1, <1>2, <1>3, <1>4, <1>5, <1>6 DEF Next

\* No second controller trades beside the registered one: an instance with live executors that no stop has taken is the
\* one registered, however cycles, kickoffs, failed starts, recoveries, timeouts, stops and restarts interleave
\* (run_engine_cycle, "build+start atomic"; EngineRuntime.start).
THEOREM OneInstanceEach == Spec => []OneInstance
<1>1. Init => TypeInv /\ OneInv
  BY InitTypes, InitParts
<1>2. TypeInv /\ OneInv /\ [Next]_vars => (TypeInv /\ OneInv)'
  BY StepTypes, StepParts
<1>3. OneInv => OneInstance
  BY DEF OneInv
<1> QED BY <1>1, <1>2, <1>3, PTL DEF Spec

-----------------------------------------------------------------------------
(* Rows: every step keeps RowInv.                                            *)

LEMMA InitRows == Init => RowInv
<1> SUFFICES ASSUME Init PROVE RowInv
  OBVIOUS
<1>1. batch = NoBatch /\ (\A t \in Tasks : before[t] = {}) /\ \A e \in Executors : sig[e] = "none" /\ ex[e] = "none"
  BY DEF Init
<1> QED BY <1>1, NoBatchType DEF RowInv, TickedTerminated, SignedIsWritten, BatchIsPast, PrunedStaysWritten

\* Steps of tasks and executors that leave what is recorded and what is in flight alone.
LEMMA QuietRows ==
  ASSUME TypeInv, RowInv, UNCHANGED <<sig, row>>, batch'.rows = batch.rows, restarts' = restarts,
         \A t \in Tasks : before'[t] = {} \/ before'[t] = before[t],
         \A e \in Executors : /\ ex[e] \in {"TERMINATED", "pruned"} => ex'[e] = ex[e]
                              /\ ex'[e] = "pruned" => ex[e] = "pruned"
  PROVE  RowInv'
<1>1. \A t \in Tasks : before[t] \subseteq Executors
  BY DEF TypeInv, TypeOK
<1>2. DOMAIN batch.rows \subseteq Executors
  BY DEF TypeInv, TypeOK
<1>3. TickedTerminated'
  BY <1>1 DEF RowInv, TickedTerminated
<1>4. SignedIsWritten' /\ BatchIsPast' /\ PrunedStaysWritten'
  BY <1>2 DEF RowInv, SignedIsWritten, BatchIsPast, PrunedStaysWritten
<1> QED BY <1>3, <1>4 DEF RowInv

\* A batch holds the states that are not recorded yet, never an executor that has left.
LEMMA SubmitRows ==
  ASSUME TypeInv, RowInv, NEW t \in Tasks, NEW next, batch = NoBatch, Submit(t, next),
         UNCHANGED <<runVars, liveVars, before>>
  PROVE  RowInv'
<1>1. \A e \in Executors : sig'[e] = "TERMINATED" => sigs /\ sig[e] = "TERMINATED"
  BY DEF Submit
<1>2. row' = row /\ ex' = ex /\ restarts' = restarts /\ before' = before
  BY DEF Submit, runVars, liveVars
<1>3. \A e \in DOMAIN batch'.rows :
         /\ e \in Executors /\ ex[e] \in {"ACTIVE", "TERMINATED"} /\ batch'.rows[e] = ex[e]
         /\ sigs => sig[e] # ex[e]
  <2>1. CASE Dirty(mine[t]) = {}
    BY <2>1, NoBatchType DEF Submit
  <2>2. CASE Dirty(mine[t]) # {}
    <3>1. batch'.rows = [e \in Dirty(mine[t]) |-> ex[e]]
      BY <2>2 DEF Submit
    <3> QED BY <3>1 DEF Dirty, Of
  <2> QED BY <2>1, <2>2
<1>4. TickedTerminated' /\ BatchIsPast'
  BY <1>2, <1>3 DEF RowInv, TickedTerminated, BatchIsPast
<1>5. SignedIsWritten'
  BY <1>1, <1>2, <1>3 DEF RowInv, SignedIsWritten
<1>6. PrunedStaysWritten'
  BY <1>2, <1>3 DEF RowInv, PrunedStaysWritten
<1> QED BY <1>4, <1>5, <1>6 DEF RowInv

\* A tick prunes what had terminated before it and is recorded as such.
LEMMA PruneRows ==
  ASSUME TypeInv, RowInv, NEW c \in Cyclers, TickReturns(c)
  PROVE  RowInv'
<1>1. PICK P \in SUBSET {e \in before[c] : ~_unpersisted(e)} : ex' = [e \in Executors |-> IF e \in P THEN "pruned" ELSE ex[e]]
  BY DEF TickReturns
<1>2. UNCHANGED <<sig, row, batch, before, restarts>>
  BY DEF TickReturns, rowVars, runVars
<1>3. \A e \in P : e \in Executors /\ ex[e] = "TERMINATED" /\ sig[e] = "TERMINATED"
  BY <1>1, Names DEF _unpersisted, RowInv, TickedTerminated, TypeInv, TypeOK
<1>4. (\A t \in Tasks : before[t] \subseteq Executors) /\ DOMAIN batch.rows \subseteq Executors
  BY DEF TypeInv, TypeOK
<1>5. TickedTerminated' /\ BatchIsPast' /\ SignedIsWritten'
  BY <1>1, <1>2, <1>4 DEF RowInv, TickedTerminated, BatchIsPast, SignedIsWritten
<1>6. PrunedStaysWritten'
  BY <1>1, <1>2, <1>3 DEF RowInv, SignedIsWritten, PrunedStaysWritten
<1> QED BY <1>5, <1>6 DEF RowInv

LEMMA WriteRows ==
  ASSUME TypeInv, RowInv, _write_executor_rows
  PROVE  RowInv'
<1>1. PICK ok \in {TRUE} \cup (IF "db" \in Faults THEN {FALSE} ELSE {}) :
         /\ sig' = Recorded(ok)
         /\ row' = IF ok THEN [e \in Executors |-> IF e \in DOMAIN batch.rows THEN batch.rows[e] ELSE row[e]] ELSE row
  BY DEF _write_executor_rows
<1>2. UNCHANGED <<ex, before, restarts>> /\ DOMAIN batch'.rows = {}
  BY NoBatchType DEF _write_executor_rows, liveVars, runVars
<1>3. DOMAIN batch.rows \subseteq Executors
  BY DEF TypeInv, TypeOK
<1>4. \A e \in Executors : row[e] = "TERMINATED" /\ (e \in DOMAIN batch.rows => batch.rows[e] = "TERMINATED") => row'[e] = "TERMINATED"
  BY <1>1
<1>5. \A e \in Executors : sig'[e] = "TERMINATED" =>
         \/ sig[e] = "TERMINATED"
         \/ ok /\ e \in DOMAIN batch.rows /\ batch.rows[e] = "TERMINATED"
  BY <1>1 DEF Recorded
<1>6. TickedTerminated' /\ BatchIsPast'
  BY <1>2 DEF RowInv, TickedTerminated, BatchIsPast
<1>7. SignedIsWritten'
  BY <1>1, <1>2, <1>4, <1>5 DEF RowInv, SignedIsWritten, BatchIsPast
<1>8. PrunedStaysWritten'
  BY <1>2, <1>4 DEF RowInv, PrunedStaysWritten
<1> QED BY <1>6, <1>7, <1>8 DEF RowInv

LEMMA CycleRows ==
  ASSUME TypeInv, RowInv, NEW c \in Cyclers, CycleStep(c)
  PROVE  RowInv'
<1> USE Names DEF runVars, liveVars, rowVars, taskVars
<1> c \in Tasks /\ ex \in [Executors -> {"none", "ACTIVE", "TERMINATED", "pruned"}] /\ before \in [Tasks -> SUBSET Executors]
  BY DEF TypeInv, TypeOK
<1>1. CASE AcquireLock(c) \/ Decide(c) \/ StartFirst(c) \/ Build(c) \/ OnStartReturns(c) \/ OnStartRaises(c)
             \/ RolledBack(c) \/ Started(c) \/ TickRaises(c)
  <2>1. UNCHANGED <<sig, row, batch, restarts, before, ex>>
    BY <1>1 DEF AcquireLock, Decide, StartFirst, Build, OnStartReturns, OnStartRaises, RolledBack, Started, TickRaises
  <2> QED BY <2>1, QuietRows
<1>2. CASE SpawnExecutor(c)
  BY <1>2, QuietRows DEF SpawnExecutor, Of
<1>3. CASE Release(c)
  BY <1>3, QuietRows DEF Release
<1>4. CASE TickController(c)
  <2>1. \A t \in Tasks : \A e \in before'[t] : e \in before[t] \/ ex[e] = "TERMINATED"
    BY <1>4 DEF TickController
  <2>2. UNCHANGED <<sig, row, batch, restarts, ex>>
    BY <1>4 DEF TickController
  <2> QED BY <2>1, <2>2 DEF RowInv, TickedTerminated, SignedIsWritten, BatchIsPast, PrunedStaysWritten
<1>5. CASE ExecutorEnds(c)
  BY <1>5, QuietRows DEF ExecutorEnds, Active, Of
<1>6. CASE TickReturns(c)
  BY <1>6, PruneRows
<1>7. CASE PersistTick(c)
  <2>1. CASE batch # NoBatch
    BY <1>7, <2>1, QuietRows DEF PersistTick
  <2>2. CASE batch = NoBatch
    BY <1>7, <2>2, SubmitRows DEF PersistTick
  <2> QED BY <2>1, <2>2
<1> QED BY <1>1, <1>2, <1>3, <1>4, <1>5, <1>6, <1>7 DEF CycleStep

LEMMA StopRows ==
  ASSUME TypeInv, RowInv, NEW t \in Tasks, StopStep(t)
  PROVE  RowInv'
<1> USE DEF runVars, liveVars, rowVars, taskVars
<1> ex \in [Executors -> {"none", "ACTIVE", "TERMINATED", "pruned"}]
  BY DEF TypeInv, TypeOK
<1>1. CASE StopController(t) \/ Gathered(t)
  BY <1>1, QuietRows DEF StopController, Gathered
<1>2. CASE GatherRaises(t)
  BY <1>2, QuietRows DEF GatherRaises
<1>3. CASE PersistForce(t)
  BY <1>3, SubmitRows DEF PersistForce
<1>4. CASE SweepRows(t)
  <2>1. \A e \in Executors : row[e] = "TERMINATED" => row'[e] = "TERMINATED"
    BY <1>4 DEF SweepRows
  <2>2. UNCHANGED <<sig, batch, restarts, before, ex>>
    BY <1>4 DEF SweepRows
  <2> QED BY <2>1, <2>2 DEF RowInv, TickedTerminated, SignedIsWritten, BatchIsPast, PrunedStaysWritten
<1>5. CASE Pop(t)
  <2>1. \A e \in Executors : sig'[e] = "none"
    BY <1>5 DEF Pop
  <2>2. UNCHANGED <<row, batch, restarts, before, ex>>
    BY <1>5 DEF Pop
  <2> QED BY <2>1, <2>2 DEF RowInv, TickedTerminated, SignedIsWritten, BatchIsPast, PrunedStaysWritten
<1> QED BY <1>1, <1>2, <1>3, <1>4, <1>5 DEF StopStep

LEMMA StepRows == TypeInv /\ RowInv /\ [Next]_vars => RowInv'
<1> SUFFICES ASSUME TypeInv, RowInv, [Next]_vars PROVE RowInv'
  OBVIOUS
<1> USE DEF runVars, liveVars, rowVars, taskVars
<1> ex \in [Executors -> {"none", "ACTIVE", "TERMINATED", "pruned"}] /\ before \in [Tasks -> SUBSET Executors]
  BY DEF TypeInv, TypeOK
<1>1. ASSUME NEW k \in Kicks, UserStart(k) PROVE RowInv'
  BY <1>1, QuietRows DEF UserStart
<1>2. ASSUME NEW j \in Jobs, CycleBegin(j) PROVE RowInv'
  BY <1>2, QuietRows DEF CycleBegin
<1>3. ASSUME NEW s \in Stoppers, StopRun(s) PROVE RowInv'
  BY <1>3, QuietRows DEF StopRun
<1>4. ASSUME NEW j \in Jobs, Timeout(j) PROVE RowInv'
  <2>1. batch'.rows = batch.rows
    BY <1>4 DEF Timeout, TypeInv, BatchType
  <2>2. \A t \in Tasks : before'[t] = {} \/ before'[t] = before[t]
    BY <1>4 DEF Timeout
  <2> QED BY <1>4, <2>1, <2>2, QuietRows DEF Timeout
<1>5. ASSUME NEW c \in Cyclers, CycleStep(c) PROVE RowInv'
  BY <1>5, CycleRows
<1>6. ASSUME NEW t \in Tasks, StopStep(t) PROVE RowInv'
  BY <1>6, StopRows
<1>7. ASSUME NEW e \in Executors, ExecutorStops(e) PROVE RowInv'
  BY <1>7, QuietRows DEF ExecutorStops
<1>8. ASSUME NEW i \in Instances, BackoffEnds(i) PROVE RowInv'
  BY <1>8, QuietRows DEF BackoffEnds
<1>9. CASE Restart
  <2>1. restarts' # 0 /\ (\A e \in Executors : sig'[e] = "none") /\ batch' = NoBatch /\ \A t \in Tasks : before'[t] = {}
    BY <1>9 DEF Restart, TypeInv, TypeOK
  <2> QED BY <2>1, NoBatchType DEF RowInv, TickedTerminated, SignedIsWritten, BatchIsPast, PrunedStaysWritten
<1>10. CASE UNCHANGED vars
  BY <1>10, QuietRows DEF vars
<1> QED BY <1>1, <1>2, <1>3, <1>4, <1>5, <1>6, <1>7, <1>8, <1>9, <1>10, WriteRows DEF Next

\* No executor is forgotten with its row still ACTIVE: one that has left the orchestrator in this life has its final row,
\* whatever batches failed, were skipped or landed after their cycle was cancelled (_unpersisted, prune_terminated).
THEOREM PrunedIsWritten == Spec => []PrunedIsPersisted
<1>1. Init => TypeInv /\ RowInv
  BY InitTypes, InitRows
<1>2. TypeInv /\ RowInv /\ [Next]_vars => (TypeInv /\ RowInv)'
  BY StepTypes, StepRows
<1>3. RowInv => PrunedIsPersisted
  BY DEF RowInv, PrunedStaysWritten, PrunedIsPersisted
<1> QED BY <1>1, <1>2, <1>3, PTL DEF Spec
=============================================================================
