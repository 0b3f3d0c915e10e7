-------------------------- MODULE StrategyPool_proofs --------------------------
(* Proofs about StrategyPool, for every set of users, runs and workers and *)
(* every size and bound.                                                   *)
EXTENDS StrategyPool, TLAPS

\* what a step of the pool is to the queue, and to the jobs
QueueStep == \E u \in Users : put(u) \/ get(u)
JobsStep ==
    \/ \E r \in Runs, on \in BOOLEAN : SetRunning(r, on)
    \/ \E w \in Workers, r \in Runs, k \in Kinds : Take(w, r, k)
    \/ \E w \in Workers : Skip(w) \/ handle_strategy_job(w)

LEMMA Projection == [Next]_vars => [QueueStep]_queueVars /\ [JobsStep]_jobsVars
  BY OwnerAssumption
  DEF Next, vars, Enqueue, _worker_loop, Handle, QueueStep, JobsStep

-----------------------------------------------------------------------------
(* The queue *)

\* What may still be served before u, added to what was, never exceeds what was
\* owed when u came: each job of v that passes u brings their deficits closer.
Potential == \A u \in active : \A v \in Users \ {u} :
    passed[u][v] + Ahead(u, deficit)[v] <= owed[u][v]

QueueInv == QueueTypeOK /\ Potential

LEMMA AheadType ==
  ASSUME NEW u \in Users, NEW d \in [Users -> Nat]
  PROVE  /\ Ahead(u, d) \in [Users -> Nat]
         /\ \A v \in Users : Ahead(u, d)[v] = IF d[v] < d[u] THEN 0 ELSE d[v] - d[u] + 1
  BY DEF Ahead

LEMMA EarnedType ==
  ASSUME QueueTypeOK, NEW u \in active
  PROVE  Earned(u) \in [Users -> Nat]
  BY DEF QueueTypeOK, Earned, active

LEMMA InitQueue == QueueInit => QueueInv
<1> SUFFICES ASSUME QueueInit PROVE QueueInv
  OBVIOUS
<1>1. QueueTypeOK
  BY FairQueueAssumption DEF QueueInit, QueueTypeOK
<1>2. active = {}
  BY DEF QueueInit, active
<1> QED BY <1>1, <1>2 DEF QueueInv, Potential

LEMMA QueueTypeStep == QueueTypeOK /\ [QueueStep]_queueVars => QueueTypeOK'
<1> SUFFICES ASSUME QueueTypeOK, [QueueStep]_queueVars PROVE QueueTypeOK'
  OBVIOUS
<1>1. ASSUME NEW u \in Users, put(u) PROVE QueueTypeOK'
  <2>1. Ahead(u, deficit) \in [Users -> Nat]
    BY AheadType DEF QueueTypeOK
  <2>2. jobs' \in 0..MaxJobs /\ perUser' \in [Users -> Nat]
    BY <1>1, FairQueueAssumption DEF put, QueueTypeOK
  <2>3. CASE u \in active
    BY <1>1, <2>2, <2>3 DEF put, QueueTypeOK
  <2>4. CASE u \notin active
    <3>1. since' \in [Users -> Nat] /\ deficit' \in [Users -> Nat]
      BY <1>1, <2>4 DEF put, QueueTypeOK
    <3>2. passed' \in [Users -> [Users -> Nat]]
      <4> DEFINE none == [v \in Users |-> 0]
      <4>1. none \in [Users -> Nat]
        OBVIOUS
      <4>2. passed' = [passed EXCEPT ![u] = none]
        BY <1>1, <2>4 DEF put
      <4> HIDE DEF none
      <4> QED BY <4>1, <4>2 DEF QueueTypeOK
    <3>3. owed' \in [Users -> [Users -> Nat]]
      BY <1>1, <2>1, <2>4 DEF put, QueueTypeOK
    <3> QED BY <2>2, <3>1, <3>2, <3>3 DEF QueueTypeOK
  <2> QED BY <2>3, <2>4
<1>2. ASSUME NEW u \in Users, get(u) PROVE QueueTypeOK'
  <2>1. u \in active
    BY <1>2 DEF get, Largest
  <2>2. Earned(u) \in [Users -> Nat]
    BY <2>1, EarnedType
  <2>3. Ahead(u, Earned(u)) \in [Users -> Nat]
    BY <2>2, AheadType
  <2>4. perUser' \in [Users -> Nat]
    BY <1>2, <2>1 DEF get, QueueTypeOK, active
  <2>5. passed' \in [Users -> [Users -> Nat]]
    BY <1>2 DEF get, QueueTypeOK
  <2> QED BY <1>2, <2>2, <2>3, <2>4, <2>5 DEF get, QueueTypeOK
<1>3. CASE UNCHANGED queueVars
  BY <1>3 DEF queueVars, QueueTypeOK
<1> QED BY <1>1, <1>2, <1>3 DEF QueueStep

LEMMA PotentialStep == QueueInv /\ [QueueStep]_queueVars => Potential'
<1> SUFFICES ASSUME QueueInv, [QueueStep]_queueVars,
                    NEW u \in active', NEW v \in Users \ {u}
             PROVE  passed'[u][v] + Ahead(u, deficit')[v] <= owed'[u][v]
  BY DEF Potential, Ahead
<1> USE DEF QueueInv
<1>0. u \in Users
  BY DEF active
<1>t. QueueTypeOK'
  BY QueueTypeStep
<1>1. ASSUME NEW w \in Users, put(w)
      PROVE  passed'[u][v] + Ahead(u, deficit')[v] <= owed'[u][v]
  <2>1. CASE u \in active
    <3>1. passed'[u] = passed[u] /\ owed'[u] = owed[u] /\ deficit' = deficit
      BY <1>1, <1>0, <2>1 DEF put, QueueTypeOK
    <3> QED BY <2>1, <3>1 DEF Potential
  <2>2. CASE u \notin active
    <3>1. u = w
      BY <1>1, <1>0, <2>2 DEF put, active, QueueTypeOK
    <3>2. passed'[u][v] = 0 /\ owed'[u] = Ahead(u, deficit) /\ deficit' = deficit
      BY <1>1, <1>0, <2>2, <3>1 DEF put, QueueTypeOK
    <3>3. Ahead(u, deficit)[v] \in Nat
      BY <1>0, AheadType DEF QueueTypeOK
    <3> QED BY <3>2, <3>3
  <2> QED BY <2>1, <2>2
<1>2. ASSUME NEW w \in Users, get(w)
      PROVE  passed'[u][v] + Ahead(u, deficit')[v] <= owed'[u][v]
  <2>1. w \in active /\ deficit' = Earned(w) /\ Earned(w) \in [Users -> Nat]
    BY <1>2, EarnedType DEF get, Largest
  <2>2. CASE u = w
    <3>1. passed'[u][v] = 0 /\ owed'[u] = Ahead(u, deficit')
      BY <1>2, <1>0, <2>1, <2>2 DEF get, QueueTypeOK
    <3>2. Ahead(u, deficit')[v] \in Nat
      BY <1>0, <2>1, AheadType
    <3> QED BY <3>1, <3>2
  <2>3. CASE u # w
    <3>1. u \in active
      BY <1>2, <1>0, <2>3 DEF get, active, QueueTypeOK
    <3>2. owed'[u] = owed[u]
      BY <1>2, <1>0, <2>3 DEF get, QueueTypeOK
    <3>3. deficit[u] <= deficit[w]
      <4>1. deficit[u] < deficit[w] \/ deficit[u] = deficit[w]
        BY <1>2, <3>1 DEF get, Largest
      <4>2. deficit[u] \in Nat /\ deficit[w] \in Nat
        BY <1>0 DEF QueueTypeOK
      <4> QED BY <4>1, <4>2
    <3>4. deficit'[u] = deficit[u] + 1
      BY <2>1, <2>3, <3>1, <1>0 DEF Earned, QueueTypeOK
    <3>5. passed[u][v] + Ahead(u, deficit)[v] <= owed[u][v]
      BY <3>1 DEF Potential
    <3>6. /\ Ahead(u, deficit)[v] = IF deficit[v] < deficit[u] THEN 0
                                    ELSE deficit[v] - deficit[u] + 1
          /\ Ahead(u, deficit')[v] = IF deficit'[v] < deficit'[u] THEN 0
                                     ELSE deficit'[v] - deficit'[u] + 1
      BY <1>0, <2>1, AheadType DEF QueueTypeOK
    <3>7. /\ deficit[u] \in Nat /\ deficit[v] \in Nat /\ passed[u][v] \in Nat
          /\ owed[u][v] \in Nat
      BY <1>0 DEF QueueTypeOK
    <3>8. CASE v = w
      <4>1. passed'[u][v] = passed[u][v] + 1
        BY <1>2, <1>0, <2>3, <3>1, <3>8 DEF get, QueueTypeOK
      <4>2. deficit'[v] = deficit[v]
        BY <2>1, <3>8, <3>7 DEF Earned, QueueTypeOK
      <4> QED BY <3>2, <3>3, <3>4, <3>5, <3>6, <3>7, <3>8, <4>1, <4>2
    <3>9. CASE v # w
      <4>1. passed'[u][v] = passed[u][v]
        BY <1>2, <1>0, <2>3, <3>9, <3>7 DEF get, QueueTypeOK
      <4>2. deficit'[v] \in {deficit[v], deficit[v] + 1}
        BY <2>1, <3>9, <3>7 DEF Earned, QueueTypeOK
      <4> QED BY <3>2, <3>4, <3>5, <3>6, <3>7, <4>1, <4>2
    <3> QED BY <3>8, <3>9
  <2> QED BY <2>2, <2>3
<1>3. CASE UNCHANGED queueVars
  BY <1>3 DEF queueVars, Potential, active, Ahead
<1> QED BY <1>1, <1>2, <1>3 DEF QueueStep

LEMMA QueueInvStep == QueueInv /\ [Next]_vars => QueueInv'
  BY Projection, QueueTypeStep, PotentialStep DEF QueueInv

-----------------------------------------------------------------------------
(* The jobs *)

\* The invariant is inductive as it stands: a job is deferred while its run is
\* locked, and the lock is let go only in the step that clears the deferred job or
\* in one that raises.
JobsInv == JobsTypeOK /\ DeferredHasHolder

LEMMA InitJobs == JobsInit => JobsInv
  BY JobsAssumption DEF JobsInit, JobsInv, JobsTypeOK, DeferredHasHolder, Holds, Locked, Idle

LEMMA BusyWorker ==
  ASSUME JobsTypeOK, NEW w \in Workers, worker[w].pc # "idle"
  PROVE  worker[w].run \in Runs /\ worker[w].kind \in Kinds
  BY DEF JobsTypeOK, Idle

LEMMA JobsTypeStep == JobsTypeOK /\ [JobsStep]_jobsVars => JobsTypeOK'
<1> SUFFICES ASSUME JobsTypeOK, [JobsStep]_jobsVars PROVE JobsTypeOK'
  OBVIOUS
<1> USE JobsAssumption DEF JobsTypeOK, Idle
<1>1. ASSUME NEW r \in Runs, NEW on \in BOOLEAN, SetRunning(r, on) PROVE JobsTypeOK'
  BY <1>1 DEF SetRunning
<1>2. ASSUME NEW w \in Workers, NEW r \in Runs, NEW k \in Kinds, Take(w, r, k) PROVE JobsTypeOK'
  BY <1>2 DEF Take
<1>3. ASSUME NEW w \in Workers, Skip(w) PROVE JobsTypeOK'
  BY <1>3 DEF Skip
<1>4. ASSUME NEW w \in Workers, Coalesce(w) PROVE JobsTypeOK'
  BY <1>4 DEF Coalesce, Coalesced, Locked, Holds
<1>5. ASSUME NEW w \in Workers, Lock(w) PROVE JobsTypeOK'
  BY <1>5 DEF Lock
<1>6. ASSUME NEW w \in Workers, LoadState(w) PROVE JobsTypeOK'
  <2>1. worker[w].run \in Runs /\ worker[w].kind \in Kinds
    BY <1>6, BusyWorker DEF LoadState
  <2>2. CASE running[worker[w].run]
    BY <1>6, <2>1, <2>2 DEF LoadState
  <2>3. CASE ~running[worker[w].run]
    BY <1>6, <2>1, <2>3 DEF LoadState
  <2> QED BY <2>2, <2>3
<1>7. ASSUME NEW w \in Workers, CycleEnd(w) PROVE JobsTypeOK'
  <2>1. worker[w].run \in Runs
    BY <1>7, BusyWorker DEF CycleEnd
  <2>2. pending[worker[w].run] \in Kinds \cup {None}
    BY <2>1
  <2>3. CASE pending[worker[w].run] = None
    BY <1>7, <2>1, <2>3 DEF CycleEnd
  <2>4. CASE pending[worker[w].run] # None
    BY <1>7, <2>1, <2>2, <2>4 DEF CycleEnd
  <2> QED BY <2>3, <2>4
<1>8. ASSUME NEW w \in Workers, Raises(w) PROVE JobsTypeOK'
  BY <1>8, BusyWorker DEF Raises
<1>9. CASE UNCHANGED jobsVars
  BY <1>9 DEF jobsVars
<1> QED BY <1>1, <1>2, <1>3, <1>4, <1>5, <1>6, <1>7, <1>8, <1>9 DEF JobsStep, handle_strategy_job

LEMMA DeferredStep == JobsInv /\ [JobsStep]_jobsVars => DeferredHasHolder'
<1> SUFFICES ASSUME JobsInv, [JobsStep]_jobsVars PROVE DeferredHasHolder'
  OBVIOUS
<1> USE JobsAssumption DEF JobsInv, JobsTypeOK, DeferredHasHolder, Holds, Locked, Idle
<1>1. ASSUME NEW r \in Runs, NEW on \in BOOLEAN, SetRunning(r, on) PROVE DeferredHasHolder'
  BY <1>1 DEF SetRunning
<1>2. ASSUME NEW w \in Workers, NEW r \in Runs, NEW k \in Kinds, Take(w, r, k)
      PROVE DeferredHasHolder'
  BY <1>2 DEF Take
<1>3. ASSUME NEW w \in Workers, Skip(w) PROVE DeferredHasHolder'
  BY <1>3 DEF Skip
<1>4. ASSUME NEW w \in Workers, Coalesce(w) PROVE DeferredHasHolder'
  BY <1>4 DEF Coalesce
<1>5. ASSUME NEW w \in Workers, Lock(w) PROVE DeferredHasHolder'
  BY <1>5 DEF Lock
<1>6. ASSUME NEW w \in Workers, LoadState(w) PROVE DeferredHasHolder'
  BY <1>6 DEF LoadState
<1>7. ASSUME NEW w \in Workers, CycleEnd(w) PROVE DeferredHasHolder'
  BY <1>7 DEF CycleEnd
<1>8. ASSUME NEW w \in Workers, Raises(w) PROVE DeferredHasHolder'
  BY <1>8, BusyWorker DEF Raises
<1>9. CASE UNCHANGED jobsVars
  BY <1>9 DEF jobsVars
<1> QED BY <1>1, <1>2, <1>3, <1>4, <1>5, <1>6, <1>7, <1>8, <1>9 DEF JobsStep, handle_strategy_job

LEMMA JobsInvStep == JobsInv /\ [Next]_vars => JobsInv'
  BY Projection, JobsTypeStep, DeferredStep DEF JobsInv

-----------------------------------------------------------------------------
(* The pool *)

\* However many users share the queue and however long it has run, a waiting user
\* is passed over by each other user only as often as that user's deficit was
\* ahead of its own when it came (_FairStrategyQueue.get).
THEOREM NobodyStarves == Spec => []WaitBounded
<1>1. Init => QueueInv
  BY InitQueue DEF Init
<1>2. QueueInv => WaitBounded
  <2> SUFFICES ASSUME QueueInv, NEW u \in active, NEW v \in Users \ {u}
               PROVE  passed[u][v] <= owed[u][v]
    BY DEF WaitBounded
  <2>1. u \in Users /\ Ahead(u, deficit)[v] \in Nat
    BY AheadType DEF QueueInv, QueueTypeOK, active
  <2>2. passed[u][v] \in Nat /\ owed[u][v] \in Nat
    BY <2>1 DEF QueueInv, QueueTypeOK
  <2>3. passed[u][v] + Ahead(u, deficit)[v] <= owed[u][v]
    BY DEF QueueInv, Potential
  <2> QED BY <2>1, <2>2, <2>3
<1> QED BY QueueInvStep, <1>1, <1>2, PTL DEF Spec

\* Whatever the runs, the workers and the jobs that arrive: cycles of a run never
\* overlap and no deferred job is left without a worker that will take it up, save
\* by a job that raised, and then until the run's next job
\* (handle_strategy_job, _job_locks, _job_pending_payloads).
THEOREM NothingLeftDeferred == Spec => []DeferredHasHolder
<1>1. Init => JobsInv
  BY InitJobs DEF Init
<1>2. JobsInv => DeferredHasHolder
  BY DEF JobsInv
<1> QED BY JobsInvStep, <1>1, <1>2, PTL DEF Spec

\* Counts and worker records are well formed in every behaviour: nobody is served
\* a job he does not have, no deficit falls below zero, and a worker past the queue
\* always has a payload and a run (_FairStrategyQueue.get, handle_strategy_job).
THEOREM PoolTypeCorrect == Spec => []TypeOK
<1>1. Init => QueueInv /\ JobsInv
  BY InitQueue, InitJobs DEF Init
<1>2. QueueInv /\ JobsInv => TypeOK
  BY DEF QueueInv, JobsInv, TypeOK
<1> QED BY QueueInvStep, JobsInvStep, <1>1, <1>2, PTL DEF Spec
=============================================================================
