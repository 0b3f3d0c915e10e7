----------------------- MODULE StrategySession_proofs -----------------------
(***************************************************************************)
(* Proofs about StrategySession for every set of networks and runs: type   *)
(* correctness, that nothing rests on the venue without an owner, and that *)
(* the network switch is fail-closed.                                      *)
(***************************************************************************)
EXTENDS StrategySession, TLAPS

USE NoRunAssumption, UserAssumption, NetOfAssumption, MaxRestartsAssumption

(* A scoped cancel or sweep leaves a part of what was resting. *)
LEMMA CancelShrinks ==
    ASSUME NEW S, NEW ok, S \subseteq orders, Cancel(S, ok)
    PROVE  orders' \subseteq orders /\ (ok => orders' = orders \ S)
BY DEF Cancel

LEMMA DisarmShrinks ==
    ASSUME NEW S, NEW ok, S \subseteq rungs, Disarm(S, ok)
    PROVE  rungs' \subseteq rungs /\ (ok => rungs' = rungs \ S)
BY DEF Disarm

LEMMA SweepTriggersShrinks ==
    ASSUME NEW a, NEW r, NEW n, NEW ok, SweepTriggers(a, r, n, ok)
    PROVE  /\ rungs' \subseteq rungs
           /\ escaped \subseteq escaped' /\ escaped' \subseteq escaped \cup {r}
           /\ ok => <<r, n>> \notin rungs' \/ r \in escaped'
<1>1. CASE ~ok /\ Disarm(rungs \cap {<<r, n>>}, FALSE) /\ UNCHANGED escaped
  BY <1>1, DisarmShrinks
<1>2. CASE /\ ok
           /\ \E nets \in SweptNets(a, n) :
                /\ rungs' = rungs \ {<<r, m>> : m \in nets}
                /\ escaped' = escaped \cup SweepEscapes(r, n, nets)
  BY <1>2 DEF SweepEscapes
<1> QED BY <1>1, <1>2 DEF SweepTriggers

(* Placing adds items of the run only. *)
LEMMA PlaceAdds ==
    ASSUME NEW r \in Runs, NEW c \in Networks, Place(r, c)
    PROVE  /\ orders' \subseteq orders \cup {<<r, c>>} /\ orders \subseteq orders'
           /\ rungs' \subseteq rungs \cup {<<r, c>>} /\ rungs \subseteq rungs'
           /\ escaped \subseteq escaped' /\ escaped' \subseteq escaped \cup {r}
           /\ \/ orders' = orders /\ rungs' = rungs
              \/ r \in escaped'
              \/ /\ c = NetOf[r] /\ RowRuns(c, r)
                 /\ ~(boot[c].pc = "swept" /\ boot[c].run = r)
BY DEF Place

-----------------------------------------------------------------------------
(* Updates of the actors' records stay in their types. *)
LEMMA UserUpdates ==
    ASSUME NEW u \in UserState, NEW p \in UserPcs, NEW r \in OptRun,
           NEW t \in SUBSET Runs, NEW b \in BOOLEAN
    PROVE  /\ [u EXCEPT !.pc = p] \in UserState
           /\ [u EXCEPT !.quiet = b] \in UserState
           /\ [u EXCEPT !.pc = p, !.todo = t] \in UserState
           /\ [u EXCEPT !.pc = p, !.run = r] \in UserState
           /\ [u EXCEPT !.pc = p, !.ok = b] \in UserState
           /\ [u EXCEPT !.pc = p, !.run = r, !.todo = t, !.pending = b] \in UserState
BY DEF UserState

LEMMA UserPc ==
    ASSUME NEW u \in UserState, NEW p \in UserPcs
    PROVE  [u EXCEPT !.pc = p] \in UserState
BY DEF UserState

LEMMA UserPcTodo ==
    ASSUME NEW u \in UserState, NEW p \in UserPcs, NEW t \in SUBSET Runs
    PROVE  [u EXCEPT !.pc = p, !.todo = t] \in UserState
BY DEF UserState

LEMMA UserPcOk ==
    ASSUME NEW u \in UserState, NEW p \in UserPcs, NEW b \in BOOLEAN
    PROVE  [u EXCEPT !.pc = p, !.ok = b] \in UserState
BY DEF UserState

LEMMA BootSwept ==
    ASSUME NEW w \in BootState, NEW b \in BOOLEAN
    PROVE  [w EXCEPT !.pc = "swept", !.ok = b] \in BootState
BY DEF BootState

LEMMA IdleUserType ==
    ASSUME NEW n \in Networks PROVE IdleUser(n) \in UserState
BY DEF IdleUser, UserState, UserPcs, OptRun

LEMMA WorkerUpdates ==
    ASSUME NEW w \in WorkerState, NEW p \in WorkerPcs, NEW c \in Networks, NEW d \in Row
    PROVE  /\ [w EXCEPT !.pc = p] \in WorkerState
           /\ [w EXCEPT !.client = c, !.pc = p] \in WorkerState
           /\ [w EXCEPT !.pc = p, !.copy = d] \in WorkerState
BY DEF WorkerState

LEMMA WorkerPc ==
    ASSUME NEW w \in WorkerState, NEW p \in WorkerPcs
    PROVE  [w EXCEPT !.pc = p] \in WorkerState
BY DEF WorkerState

LEMMA IdleWorkerType ==
    ASSUME NEW n \in Networks PROVE IdleWorker(n) \in WorkerState
BY DEF IdleWorker, NoRow, WorkerState, WorkerPcs, OptRun, Row

LEMMA StopUpdates ==
    ASSUME NEW w \in StopState, NEW p \in StopPcs, NEW b \in BOOLEAN
    PROVE  /\ [w EXCEPT !.pc = p] \in StopState
           /\ [w EXCEPT !.pc = p, !.engine = b] \in StopState
           /\ [w EXCEPT !.pc = p, !.close = b] \in StopState
           /\ [w EXCEPT !.pc = p, !.sweep = b] \in StopState
BY DEF StopState

LEMMA NoStopType ==
    ASSUME NEW n \in Networks PROVE NoStop(n) \in StopState
BY DEF NoStop, StopState, StopPcs, OptRun

LEMMA DisturbType ==
    ASSUME TypeOK, NEW n \in Networks, Disturb(n) PROVE user' \in UserState
BY UserUpdates DEF TypeOK, Disturb, UserPcs, OptRun

LEMMA ByActorType ==
    ASSUME TypeOK, NEW a \in Actors, ByActor(a) PROVE user' \in UserState
BY DisturbType DEF TypeOK, ByActor, Actors

LEMMA SaveRowType ==
    ASSUME TypeOK, NEW n \in Networks, NEW r \in OptRun, NEW b \in BOOLEAN,
           SaveRow(n, r, b)
    PROVE  row' \in [Networks -> Row]
BY DEF TypeOK, SaveRow, Row

LEMMA BeginStopType ==
    ASSUME TypeOK, NEW a \in Actors, NEW n \in Networks, NEW r \in OptRun,
           BeginStop(a, n, r)
    PROVE  stop' \in [Actors -> StopState]
BY DEF TypeOK, BeginStop, StopState, StopPcs

LEMMA EndRecordsType ==
    ASSUME TypeOK, NEW r \in Runs, NEW done,
           \E written \in BOOLEAN : EndRecords(r, done, written)
    PROVE  records' \in SUBSET Runs /\ escaped' \in SUBSET Runs
BY DEF TypeOK, EndRecords

(* Every step keeps the types.  One step per action; the action's own         *)
(* definitions are expanded in its leaves only.                               *)
LEMMA TypeStep == TypeOK /\ RunsOnTheirNetwork /\ [Next]_vars => TypeOK'
<1> SUFFICES ASSUME TypeOK, RunsOnTheirNetwork, [Next]_vars PROVE TypeOK'
  OBVIOUS
<1> USE DEF TypeOK, db, venue
<1> user.run \in OptRun /\ user.net \in Networks /\ user.todo \in SUBSET Runs
         /\ user.switch \in BOOLEAN /\ user.ok \in BOOLEAN /\ user.pending \in BOOLEAN
         /\ user.quiet \in BOOLEAN
  BY DEF UserState
<1> \A n \in Networks : /\ worker[n].run \in OptRun /\ worker[n].client \in Networks
                        /\ worker[n].safety \in BOOLEAN /\ worker[n].copy \in Row
                        /\ worker[n].copy.run \in OptRun
                        /\ worker[n].copy.running \in BOOLEAN
                        /\ row[n].run \in OptRun
  BY DEF WorkerState, Row
<1> \A a \in Actors : stop[a].run \in OptRun /\ stop[a].net \in Networks
  BY DEF StopState
<1> \A n \in Networks : boot[n].run \in OptRun
  BY SMTT(30) DEF BootState
<1>1. ASSUME NEW r \in Runs, StartCreate(r) PROVE TypeOK'
  BY <1>1, UserUpdates, IdleUserType
     DEF StartCreate, UserPcs, OptRun
<1>2. ASSUME NEW n \in Networks, StopRequest(n) PROVE TypeOK'
  BY <1>2, UserUpdates, IdleUserType
     DEF StopRequest, UserPcs
<1>3. CASE StartSave
  <2>1. row' \in [Networks -> Row]
    BY <1>3, SaveRowType DEF StartSave
  <2>2. user' \in UserState
    BY <1>3, UserPc, IdleUserType DEF StartSave, UserPcs
  <2>3. sessions' \in SUBSET Runs /\ escaped' \in SUBSET Runs
    BY <1>3 DEF StartSave, Displaced
  <2> QED BY <1>3, <2>1, <2>2, <2>3 DEF StartSave
<1>4. CASE StartKick
  <2>1. user.run \in Runs
    BY <1>4
       DEF StartKick, RunsOnTheirNetwork, On
  <2>2. orders' \in SUBSET Items /\ rungs' \in SUBSET Items /\ escaped' \in SUBSET Runs
    BY <1>4, <2>1, PlaceAdds
       DEF StartKick, Items
  <2>3. user' \in UserState
    <3>1. user' = IdleUser(active) \/ user' = [user EXCEPT !.pc = "rollback"]
      BY <1>4 DEF StartKick
    <3> QED BY <3>1, UserPc, IdleUserType DEF UserPcs
  <2> QED BY <1>4, <2>1, <2>2, <2>3 DEF StartKick
<1>5. CASE StartRollback
  <2>1. user.run \in Runs
    BY <1>5
       DEF StartRollback, RunsOnTheirNetwork, On
  <2>2. orders' \subseteq orders
    BY <1>5, <2>1, CancelShrinks
       DEF StartRollback
  <2>3. rungs' \subseteq rungs
    BY <1>5, <2>1, DisarmShrinks
       DEF StartRollback
  <2>4. row' \in [Networks -> Row]
    BY <1>5, <2>1, SaveRowType
       DEF StartRollback
  <2>5. escaped' \in SUBSET Runs
    BY <1>5, <2>1
       DEF StartRollback, Displaced
  <2>6. user' \in UserState
    BY <1>5, <2>1, IdleUserType
       DEF StartRollback
  <2> QED BY <1>5, <2>1, <2>2, <2>3, <2>4, <2>5, <2>6 DEF StartRollback
<1>6. CASE SwitchRequest
  BY <1>6
     DEF SwitchRequest, IdleUser, UserState, UserPcs
<1>7. CASE StopSave
  BY <1>7, UserUpdates, SaveRowType, BeginStopType
     DEF StopSave, Displaced, UserPcs, Actors
<1>8. CASE ListEntries
  <2>1. PICK readable \in BOOLEAN :
          LET todo == IF readable THEN RecordsOn(user.net) ELSE {} IN
          \/ user' = [user EXCEPT !.pc = "retry", !.todo = todo]
          \/ user' = [user EXCEPT !.pc = "fallback"]
          \/ user' = [user EXCEPT !.pc = "flip"]
          \/ user' = IdleUser(active)
    BY <1>8 DEF ListEntries
  <2>2. (IF readable THEN RecordsOn(user.net) ELSE {}) \in SUBSET Runs
    BY DEF RecordsOn
  <2>3. user' \in UserState
    <3> DEFINE todo == IF readable THEN RecordsOn(user.net) ELSE {}
    <3> HIDE DEF todo
    <3>1. user' \in { [user EXCEPT !.pc = "retry", !.todo = todo],
                      [user EXCEPT !.pc = "fallback"],
                      [user EXCEPT !.pc = "flip"], IdleUser(active) }
      BY <2>1 DEF todo
    <3>2. [user EXCEPT !.pc = "retry", !.todo = todo] \in UserState
      BY <2>2, UserPcTodo DEF UserPcs, todo
    <3>3. /\ [user EXCEPT !.pc = "fallback"] \in UserState
          /\ [user EXCEPT !.pc = "flip"] \in UserState
      BY UserPc DEF UserPcs
    <3> QED BY <3>1, <3>2, <3>3, IdleUserType
  <2> QED BY <1>8, <2>3 DEF ListEntries
<1>9. CASE RetryEntry
  <2>1. PICK r \in user.todo, ok \in BOOLEAN :
          /\ Cancel(OnProduct(user.net, r), ok)
          /\ user' = [user EXCEPT !.pc = "sweepEntry", !.run = r,
                                  !.todo = @ \ {r}, !.pending = ok]
    BY <1>9 DEF RetryEntry
  <2>2. user' \in UserState
    BY <2>1, UserUpdates DEF UserPcs, OptRun
  <2>3. orders' \subseteq orders
    BY <2>1, CancelShrinks DEF OnProduct
  <2> QED BY <1>9, <2>2, <2>3 DEF RetryEntry
<1>10. CASE SweepEntry
  <2>1. user.run \in Runs
    BY <1>10 DEF SweepEntry, RunsOnTheirNetwork, On
  <2>2. PICK swept \in BOOLEAN : SweepTriggers(User, user.run, user.net, swept)
    BY <1>10 DEF SweepEntry
  <2>3. rungs' \in SUBSET Items /\ escaped' \in SUBSET Runs
    BY <2>1, <2>2, SweepTriggersShrinks
  <2>4. PICK ok \in BOOLEAN :
          \/ user' = [user EXCEPT !.pc = "retry", !.ok = ok]
          \/ user' = [user EXCEPT !.pc = "flip"]
          \/ user' = IdleUser(active)
    BY <1>10 DEF SweepEntry
  <2>5. user' \in UserState
    <3>1. [user EXCEPT !.pc = "retry", !.ok = ok] \in UserState
      BY UserPcOk DEF UserPcs
    <3>2. [user EXCEPT !.pc = "flip"] \in UserState
      BY UserPc DEF UserPcs
    <3> QED BY <2>4, <3>1, <3>2, IdleUserType
  <2>6. records' \in SUBSET Runs
    BY <1>10 DEF SweepEntry
  <2> QED BY <1>10, <2>3, <2>5, <2>6 DEF SweepEntry
<1>11. CASE Fallback
  BY <1>11, IdleUserType, CancelShrinks, DisarmShrinks
     DEF Fallback, OnProduct
<1>12. CASE Flip
  BY <1>12, IdleUserType
     DEF Flip
<1>13. CASE StopEndUser
  <2>1. stop[User].run \in Runs
    BY <1>13 DEF StopEndUser, RunsOnTheirNetwork, On, Actors
  <2>2. records' \in SUBSET Runs /\ escaped' \in SUBSET Runs
    BY <1>13, <2>1, EndRecordsType, SMTT(30) DEF StopEndUser
  <2>3. user' \in UserState
    BY <1>13, UserUpdates, IdleUserType DEF StopEndUser, UserPcs
  <2>4. stop' \in [Actors -> StopState]
    BY <1>13, NoStopType DEF StopEndUser
  <2> QED BY <1>13, <2>2, <2>3, <2>4 DEF StopEndUser
<1>14. ASSUME NEW a \in Actors, StopRecord(a) PROVE TypeOK'
  <2>1. stop[a].run \in Runs /\ stop[a] \in StopState
    BY <1>14
       DEF StopRecord, RunsOnTheirNetwork, On
  <2>2. stop' \in [Actors -> StopState]
    BY <1>14, <2>1, StopUpdates
       DEF StopRecord, StopPcs
  <2>3. user' \in UserState
    BY <1>14, <2>1, ByActorType
       DEF StopRecord
  <2>4. records' \in SUBSET Runs
    BY <1>14, <2>1
       DEF StopRecord
  <2> QED BY <1>14, <2>1, <2>2, <2>3, <2>4 DEF StopRecord
<1>15. ASSUME NEW a \in Actors, StopEngine(a) PROVE TypeOK'
  <2>1. stop[a].run \in Runs /\ stop[a] \in StopState
    BY <1>15
       DEF StopEngine, RunsOnTheirNetwork, On
  <2>2. stop' \in [Actors -> StopState]
    <3>1. PICK ok \in BOOLEAN : stop' = [stop EXCEPT ![a] = [@ EXCEPT !.pc = "close", !.engine = ok \/ a # User]]
      BY <1>15 DEF StopEngine
    <3>2. [stop[a] EXCEPT !.pc = "close", !.engine = ok \/ a # User] \in StopState
      BY <2>1, StopUpdates DEF StopPcs
    <3> QED BY <3>1, <3>2
  <2>3. user' \in UserState
    BY <1>15, <2>1, ByActorType
       DEF StopEngine
  <2>4. orders' \subseteq orders
    BY <1>15, <2>1, CancelShrinks
       DEF StopEngine, OnProduct
  <2>5. rungs' \subseteq rungs
    BY <1>15, <2>1, DisarmShrinks
       DEF StopEngine
  <2> QED BY <1>15, <2>1, <2>2, <2>3, <2>4, <2>5 DEF StopEngine
<1>16. ASSUME NEW a \in Actors, StopClose(a) PROVE TypeOK'
  <2>1. stop[a].run \in Runs /\ stop[a] \in StopState
    BY <1>16 DEF StopClose, RunsOnTheirNetwork, On
  <2>2. PICK ok \in BOOLEAN :
          /\ Cancel(CloseScope(a), ok)
          /\ stop' = [stop EXCEPT ![a] = [@ EXCEPT !.pc = "sweep", !.close = ok]]
    BY <1>16 DEF StopClose
  <2>3. stop' \in [Actors -> StopState]
    BY <2>1, <2>2, StopUpdates DEF StopPcs
  <2>4. user' \in UserState
    BY <1>16, ByActorType DEF StopClose
  <2>5. orders' \subseteq orders
    BY <2>1, <2>2, CancelShrinks DEF CloseScope, OnProduct
  <2> QED BY <1>16, <2>3, <2>4, <2>5 DEF StopClose
<1>17. ASSUME NEW a \in Actors, StopSweep(a) PROVE TypeOK'
  <2>1. stop[a].run \in Runs /\ stop[a] \in StopState
    BY <1>17 DEF StopSweep, RunsOnTheirNetwork, On
  <2>2. PICK ok \in BOOLEAN :
          /\ SweepTriggers(a, stop[a].run, stop[a].net, ok)
          /\ stop' = [stop EXCEPT ![a] = [@ EXCEPT !.pc = "end", !.sweep = ok]]
    BY <1>17 DEF StopSweep
  <2>3. stop' \in [Actors -> StopState]
    BY <2>1, <2>2, StopUpdates DEF StopPcs
  <2>4. user' \in UserState
    BY <1>17, ByActorType DEF StopSweep
  <2>5. rungs' \subseteq rungs /\ escaped' \subseteq escaped \cup {stop[a].run}
    BY <2>2, SweepTriggersShrinks
  <2> QED BY <1>17, <2>1, <2>3, <2>4, <2>5 DEF StopSweep
<1>18. ASSUME NEW n \in Networks, NEW safety \in BOOLEAN, JobStart(n, safety)
      PROVE TypeOK'
  BY <1>18, DisturbType
     DEF JobStart, IdleWorker, NoRow, WorkerState, WorkerPcs, Row, OptRun
<1>19. ASSUME NEW n \in Networks, CyclePaused(n) PROVE TypeOK'
  BY <1>19, DisturbType, WorkerUpdates
     DEF CyclePaused, WorkerPcs, Row
<1>20. ASSUME NEW n \in Networks, CheckNetwork(n) PROVE TypeOK'
  <2>1. worker[n].run \in Runs
    BY <1>20 DEF CheckNetwork, RunsOnTheirNetwork, On
  <2>2. PICK p \in {"client", "standDown"} :
          worker' = [worker EXCEPT ![n] = [@ EXCEPT !.pc = p]]
    BY <1>20 DEF CheckNetwork
  <2>3. worker' \in [Networks -> WorkerState]
    BY <2>2, WorkerPc DEF WorkerPcs
  <2>4. user' \in UserState
    BY <1>20, DisturbType DEF CheckNetwork
  <2>5. row' \in [Networks -> Row]
    BY <1>20, SaveRowType DEF CheckNetwork
  <2>6. escaped' \in SUBSET Runs /\ sessions' \in SUBSET Runs
    BY <1>20 DEF CheckNetwork, Displaced
  <2> QED BY <1>20, <2>3, <2>4, <2>5, <2>6 DEF CheckNetwork
<1>21. ASSUME NEW n \in Networks, StandDownRecord(n) PROVE TypeOK'
  <2>1. worker[n].run \in Runs /\ worker[n] \in WorkerState
    BY <1>21
       DEF StandDownRecord, RunsOnTheirNetwork, On
  <2>2. worker' \in [Networks -> WorkerState]
    BY <1>21, <2>1, WorkerUpdates
       DEF StandDownRecord, WorkerPcs
  <2>3. user' \in UserState
    BY <1>21, <2>1, DisturbType
       DEF StandDownRecord
  <2>4. records' \in SUBSET Runs /\ escaped' \in SUBSET Runs
    BY <1>21, <2>1, EndRecordsType
       DEF StandDownRecord
  <2> QED BY <1>21, <2>1, <2>2, <2>3, <2>4 DEF StandDownRecord
<1>22. ASSUME NEW n \in Networks, GetClient(n) PROVE TypeOK'
  BY <1>22, DisturbType, WorkerUpdates
     DEF GetClient, WorkerPcs
<1>23. ASSUME NEW n \in Networks, EngineCycle(n) PROVE TypeOK'
  <2>1. worker[n].run \in Runs /\ worker[n] \in WorkerState
    BY <1>23
       DEF EngineCycle, RunsOnTheirNetwork, On
  <2>2. worker' \in [Networks -> WorkerState]
    BY <1>23, <2>1, WorkerUpdates
       DEF EngineCycle, WorkerPcs
  <2>3. user' \in UserState
    BY <1>23, <2>1, DisturbType
       DEF EngineCycle
  <2>4. orders' \in SUBSET Items /\ rungs' \in SUBSET Items /\ escaped' \in SUBSET Runs
    BY <1>23, <2>1, PlaceAdds
       DEF EngineCycle, Items
  <2> QED BY <1>23, <2>1, <2>2, <2>3, <2>4 DEF EngineCycle
<1>24. ASSUME NEW n \in Networks, RailsPass(n) PROVE TypeOK'
  BY <1>24, DisturbType, WorkerUpdates
     DEF RailsPass, WorkerPcs
<1>25. ASSUME NEW n \in Networks, RailTrips(n) PROVE TypeOK'
  BY <1>25, DisturbType, WorkerUpdates, SaveRowType, BeginStopType
     DEF RailTrips, Displaced, WorkerPcs, Actors
<1>26. ASSUME NEW n \in Networks, CycleSave(n) PROVE TypeOK'
  <2>1. worker[n].run \in Runs /\ worker[n] \in WorkerState
    BY <1>26
       DEF CycleSave, RunsOnTheirNetwork, On
  <2>2. worker' \in [Networks -> WorkerState]
    BY <1>26, <2>1, WorkerUpdates
       DEF CycleSave, WorkerPcs
  <2>3. user' \in UserState
    BY <1>26, <2>1, DisturbType
       DEF CycleSave
  <2>4. row' \in [Networks -> Row]
    BY <1>26, <2>1, SaveRowType
       DEF CycleSave
  <2>5. escaped' \in SUBSET Runs
    BY <1>26, <2>1
       DEF CycleSave, Displaced, Rearmed
  <2> QED BY <1>26, <2>1, <2>2, <2>3, <2>4, <2>5 DEF CycleSave
<1>27. ASSUME NEW n \in Networks, CycleAborts(n) PROVE TypeOK'
  BY <1>27, DisturbType, WorkerUpdates, NoStopType
     DEF CycleAborts, WorkerPcs, Actors
<1>28. ASSUME NEW n \in Networks, HeartbeatLoad(n) PROVE TypeOK'
  BY <1>28, DisturbType, WorkerUpdates
     DEF HeartbeatLoad, WorkerPcs
<1>29. ASSUME NEW n \in Networks, HeartbeatSave(n) PROVE TypeOK'
  <2>1. worker[n].copy.running => worker[n].copy.run \in Runs
    BY <1>29
       DEF HeartbeatSave, RunsOnTheirNetwork, On
  <2>2. worker' \in [Networks -> WorkerState]
    BY <1>29, <2>1, IdleWorkerType
       DEF HeartbeatSave
  <2>3. user' \in UserState
    BY <1>29, <2>1, DisturbType
       DEF HeartbeatSave
  <2>4. row' \in [Networks -> Row]
    BY <1>29, <2>1, SaveRowType
       DEF HeartbeatSave
  <2>5. escaped' \in SUBSET Runs
    BY <1>29, <2>1
       DEF HeartbeatSave, Displaced, Rearmed
  <2> QED BY <1>29, <2>1, <2>2, <2>3, <2>4, <2>5 DEF HeartbeatSave
<1>30. ASSUME NEW n \in Networks, StopEndWorker(n) PROVE TypeOK'
  <2>1. n \in Actors /\ stop[n].run \in Runs
    BY <1>30 DEF StopEndWorker, RunsOnTheirNetwork, On, Actors
  <2>2. records' \in SUBSET Runs /\ escaped' \in SUBSET Runs
    BY <1>30, <2>1, EndRecordsType DEF StopEndWorker
  <2>3. user' \in UserState
    BY <1>30, DisturbType DEF StopEndWorker
  <2>4. stop' \in [Actors -> StopState]
    BY <1>30, NoStopType DEF StopEndWorker
  <2>5. worker' \in [Networks -> WorkerState]
    BY <1>30, WorkerUpdates DEF StopEndWorker, WorkerPcs
  <2> QED BY <1>30, <2>2, <2>3, <2>4, <2>5 DEF StopEndWorker
<1>31. ASSUME NEW n \in Networks, BootSweep(n) PROVE TypeOK'
  <2>1. CASE boot' = [boot EXCEPT ![n] = BootDone] /\ UNCHANGED <<venue, escaped>>
    <3>1. boot' \in [Networks -> BootState]
      BY <2>1 DEF BootDone, BootState, OptRun
    <3> QED BY <1>31, <2>1, <3>1 DEF BootSweep
  <2>2. ASSUME NEW cancelled \in BOOLEAN, NEW sweep,
               Cancel(OnProduct(n, boot[n].run), cancelled),
               Disarm(rungs \cap {<<boot[n].run, n>>}, sweep = "ok"),
               escaped' \subseteq escaped \cup {boot[n].run},
               boot' = [boot EXCEPT ![n] = [@ EXCEPT !.pc = "swept",
                                       !.ok = cancelled /\ sweep # "failed"]]
        PROVE  TypeOK'
    <3>1. boot[n].run \in Runs
      BY <1>31 DEF BootSweep, RunsOnTheirNetwork, On
    <3>2. orders' \subseteq orders /\ rungs' \subseteq rungs
      BY <2>2, CancelShrinks, DisarmShrinks DEF OnProduct
    <3> DEFINE b == cancelled /\ sweep # "failed"
    <3>3. b \in BOOLEAN
      OBVIOUS
    <3>4. boot' = [boot EXCEPT ![n] = [@ EXCEPT !.pc = "swept", !.ok = b]]
      BY <2>2
    <3> HIDE DEF b
    <3>5. boot' \in [Networks -> BootState]
      BY <3>3, <3>4, BootSwept
    <3> QED BY <1>31, <2>2, <3>1, <3>2, <3>5 DEF BootSweep
  <2> QED BY <1>31, <2>1, <2>2 DEF BootSweep
<1>32. ASSUME NEW n \in Networks, BootSave(n) PROVE TypeOK'
  <2>1. boot[n].run \in Runs
    BY <1>32
       DEF BootSave, RunsOnTheirNetwork, On
  <2>2. row' \in [Networks -> Row]
    BY <1>32, <2>1, SaveRowType
       DEF BootSave
  <2>3. boot' \in [Networks -> BootState]
    BY <1>32, <2>1
       DEF BootSave, BootDone, BootState, OptRun
  <2>4. records' \in SUBSET Runs /\ escaped' \in SUBSET Runs
    BY <1>32, <2>1
       DEF BootSave, Displaced
  <2> QED BY <1>32, <2>1, <2>2, <2>3, <2>4 DEF BootSave
<1>33. CASE Fill
  BY <1>33
     DEF Fill, Resting
<1>34. CASE Restart
  BY <1>34, IdleUserType, IdleWorkerType, NoStopType
     DEF Restart, Actors, BootDone, BootState, OptRun
<1>35. CASE UNCHANGED vars
  BY <1>35
     DEF vars
<1> QED
  BY <1>1, <1>2, <1>3, <1>4, <1>5, <1>6, <1>7, <1>8, <1>9, <1>10, <1>11,
     <1>12, <1>13, <1>14, <1>15, <1>16, <1>17, <1>18, <1>19, <1>20,
     <1>21, <1>22, <1>23, <1>24, <1>25, <1>26, <1>27, <1>28, <1>29,
     <1>30, <1>31, <1>32, <1>33, <1>34, <1>35
     DEF Next, UserNext, StopNext, WorkerNext

-----------------------------------------------------------------------------
(* What a step of the other actors leaves of the user thread's state. *)
SameUser == /\ user'.pc = user.pc /\ user'.net = user.net /\ user'.run = user.run
            /\ user'.todo = user.todo /\ user'.pending = user.pending

LEMMA DisturbSame ==
    ASSUME TypeOK, NEW n, Disturb(n) PROVE SameUser
BY DEF TypeOK, Disturb, SameUser, UserState

LEMMA ByActorSame ==
    ASSUME TypeOK, NEW a, ByActor(a) PROVE SameUser
BY DisturbSame DEF ByActor, SameUser

(* Every step keeps each actor's run on the actor's network. *)
LEMMA NetworkStep ==
    TypeOK /\ OneStopEach /\ RunsOnTheirNetwork /\ [Next]_vars => RunsOnTheirNetwork'
<1> SUFFICES ASSUME TypeOK, OneStopEach, RunsOnTheirNetwork, [Next]_vars
             PROVE  RunsOnTheirNetwork'
  OBVIOUS
<1> USE DEF TypeOK, RunsOnTheirNetwork, On, db, venue
<1>1. ASSUME NEW r \in Runs, StartCreate(r) PROVE RunsOnTheirNetwork'
  BY <1>1
     DEF StartCreate, IdleUser
<1>2. ASSUME NEW n \in Networks, StopRequest(n) PROVE RunsOnTheirNetwork'
  BY <1>2
     DEF StopRequest, IdleUser
<1>3. CASE StartSave
  <2>1. PICK created \in BOOLEAN :
          /\ SaveRow(user.net, user.run, created)
          /\ user' = IF created THEN [user EXCEPT !.pc = "kick"] ELSE IdleUser(active)
    BY <1>3 DEF StartSave
  <2>2. CASE created
    BY <1>3, <2>1, <2>2 DEF StartSave, SaveRow, UserState
  <2>3. CASE ~created
    BY <1>3, <2>1, <2>3 DEF StartSave, SaveRow, IdleUser
  <2> QED BY <2>2, <2>3
<1>4. CASE StartKick
  BY <1>4
     DEF StartKick, IdleUser, UserState
<1>5. CASE StartRollback
  BY <1>5
     DEF StartRollback, SaveRow, IdleUser
<1>6. CASE SwitchRequest
  BY <1>6
     DEF SwitchRequest, IdleUser
<1>7. CASE StopSave
  BY <1>7
     DEF StopSave, SaveRow, BeginStop, UserState, Actors
<1>8. CASE ListEntries
  BY <1>8
     DEF ListEntries, IdleUser, RecordsOn, UserState
<1>9. CASE RetryEntry
  BY <1>9
     DEF RetryEntry, UserState
<1>10. CASE SweepEntry
  BY <1>10
     DEF SweepEntry, IdleUser, UserState
<1>11. CASE Fallback
  BY <1>11
     DEF Fallback, IdleUser
<1>12. CASE Flip
  BY <1>12
     DEF Flip, IdleUser
<1>13. CASE StopEndUser
  BY <1>13
     DEF StopEndUser, NoStop, IdleUser, UserState
<1>14. ASSUME NEW a \in Actors, StopRecord(a) PROVE RunsOnTheirNetwork'
  <2>1. /\ stop'[a].run = stop[a].run /\ stop'[a].net = stop[a].net
        /\ \A b \in Actors \ {a} : stop'[b] = stop[b]
    BY <1>14 DEF StopRecord, StopState
  <2>2. SameUser
    BY <1>14, ByActorSame DEF StopRecord
  <2>3. stop[a].pc # "none" /\ UNCHANGED <<row, worker, boot>>
    BY <1>14 DEF StopRecord
  <2> QED BY <2>1, <2>2, <2>3 DEF SameUser
<1>15. ASSUME NEW a \in Actors, StopEngine(a) PROVE RunsOnTheirNetwork'
  <2>1. /\ stop'[a].run = stop[a].run /\ stop'[a].net = stop[a].net
        /\ \A b \in Actors \ {a} : stop'[b] = stop[b]
    BY <1>15 DEF StopEngine, StopState
  <2>2. SameUser
    BY <1>15, ByActorSame DEF StopEngine
  <2>3. stop[a].pc # "none" /\ UNCHANGED <<row, worker, boot>>
    BY <1>15 DEF StopEngine
  <2> QED BY <2>1, <2>2, <2>3 DEF SameUser
<1>16. ASSUME NEW a \in Actors, StopClose(a) PROVE RunsOnTheirNetwork'
  <2>1. /\ stop'[a].run = stop[a].run /\ stop'[a].net = stop[a].net
        /\ \A b \in Actors \ {a} : stop'[b] = stop[b]
    BY <1>16 DEF StopClose, StopState
  <2>2. SameUser
    BY <1>16, ByActorSame DEF StopClose
  <2>3. stop[a].pc # "none" /\ UNCHANGED <<row, worker, boot>>
    BY <1>16 DEF StopClose
  <2> QED BY <2>1, <2>2, <2>3 DEF SameUser
<1>17. ASSUME NEW a \in Actors, StopSweep(a) PROVE RunsOnTheirNetwork'
  <2>1. /\ stop'[a].run = stop[a].run /\ stop'[a].net = stop[a].net
        /\ \A b \in Actors \ {a} : stop'[b] = stop[b]
    BY <1>17 DEF StopSweep, StopState
  <2>2. SameUser
    BY <1>17, ByActorSame DEF StopSweep
  <2>3. stop[a].pc # "none" /\ UNCHANGED <<row, worker, boot>>
    BY <1>17 DEF StopSweep
  <2> QED BY <2>1, <2>2, <2>3 DEF SameUser
<1>18. ASSUME NEW n \in Networks, NEW safety \in BOOLEAN, JobStart(n, safety)
      PROVE RunsOnTheirNetwork'
  BY <1>18
     DEF JobStart, Disturb, UserState, IdleWorker, NoRow
<1>19. ASSUME NEW n \in Networks, CyclePaused(n) PROVE RunsOnTheirNetwork'
  BY <1>19
     DEF CyclePaused, Disturb, UserState, WorkerState
<1>20. ASSUME NEW n \in Networks, CheckNetwork(n) PROVE RunsOnTheirNetwork'
  <2>1. CASE active = n
    BY <1>20, <2>1 DEF CheckNetwork, Disturb, UserState, WorkerState
  <2>2. CASE active # n
    <3>1. row' = [row EXCEPT ![n] = [run |-> worker[n].run, running |-> FALSE]]
      BY <1>20, <2>2 DEF CheckNetwork, SaveRow
    <3>2. worker' = [worker EXCEPT ![n] = [@ EXCEPT !.pc = "standDown"]] /\ worker[n].pc = "loaded"
      BY <1>20, <2>2 DEF CheckNetwork
    <3>3. UNCHANGED <<boot, stop, active>> /\ Disturb(n)
      BY <1>20 DEF CheckNetwork, venue, db
    <3> QED BY <3>1, <3>2, <3>3 DEF Disturb, UserState, WorkerState
  <2> QED BY <2>1, <2>2
<1>21. ASSUME NEW n \in Networks, StandDownRecord(n) PROVE RunsOnTheirNetwork'
  BY <1>21
     DEF StandDownRecord, Disturb, UserState, WorkerState
<1>22. ASSUME NEW n \in Networks, GetClient(n) PROVE RunsOnTheirNetwork'
  BY <1>22
     DEF GetClient, Disturb, UserState, WorkerState
<1>23. ASSUME NEW n \in Networks, EngineCycle(n) PROVE RunsOnTheirNetwork'
  BY <1>23
     DEF EngineCycle, Disturb, UserState, WorkerState
<1>24. ASSUME NEW n \in Networks, RailsPass(n) PROVE RunsOnTheirNetwork'
  BY <1>24
     DEF RailsPass, Disturb, UserState, WorkerState
<1>25. ASSUME NEW n \in Networks, RailTrips(n) PROVE RunsOnTheirNetwork'
  BY <1>25
     DEF RailTrips, Disturb, UserState, WorkerState, SaveRow, BeginStop, Actors
<1>26. ASSUME NEW n \in Networks, CycleSave(n) PROVE RunsOnTheirNetwork'
  BY <1>26
     DEF CycleSave, Disturb, UserState, WorkerState, SaveRow
<1>27. ASSUME NEW n \in Networks, CycleAborts(n) PROVE RunsOnTheirNetwork'
  BY <1>27
     DEF CycleAborts, Disturb, UserState, WorkerState, NoStop, Actors
<1>28. ASSUME NEW n \in Networks, HeartbeatLoad(n) PROVE RunsOnTheirNetwork'
  BY <1>28
     DEF HeartbeatLoad, Disturb, UserState, WorkerState
<1>29. ASSUME NEW n \in Networks, HeartbeatSave(n) PROVE RunsOnTheirNetwork'
  BY <1>29
     DEF HeartbeatSave, Disturb, UserState, WorkerState, IdleWorker, NoRow, SaveRow
<1>30. ASSUME NEW n \in Networks, StopEndWorker(n) PROVE RunsOnTheirNetwork'
  <2>1. /\ stop' = [stop EXCEPT ![n] = NoStop(n)]
        /\ worker' = [worker EXCEPT ![n] = [@ EXCEPT !.pc = "hb"]]
        /\ Disturb(n) /\ worker[n].pc # "idle" => On(worker[n].run, n)
        /\ UNCHANGED <<row, boot>>
    BY <1>30 DEF StopEndWorker
  <2>2. worker[n].pc = "stopping"
    BY <1>30 DEF StopEndWorker, OneStopEach, Actors
  <2>3. SameUser
    BY <1>30, DisturbSame DEF StopEndWorker
  <2>4. /\ worker'[n].run = worker[n].run /\ worker'[n].copy = worker[n].copy
        /\ \A m \in Networks \ {n} : worker'[m] = worker[m]
    BY <2>1 DEF WorkerState
  <2>5. stop'[n].pc = "none" /\ \A b \in Actors \ {n} : stop'[b] = stop[b]
    BY <2>1 DEF NoStop, Actors
  <2> QED BY <2>1, <2>2, <2>3, <2>4, <2>5 DEF SameUser
<1>31. ASSUME NEW n \in Networks, BootSweep(n) PROVE RunsOnTheirNetwork'
  <2>1. /\ boot'[n].pc # "done" => boot'[n].run = boot[n].run
        /\ \A m \in Networks \ {n} : boot'[m] = boot[m]
    <3>1. CASE boot' = [boot EXCEPT ![n] = BootDone]
      BY <3>1 DEF BootDone
    <3>2. ASSUME NEW b, boot' = [boot EXCEPT ![n] = [@ EXCEPT !.pc = "swept", !.ok = b]]
          PROVE  /\ boot'[n].pc # "done" => boot'[n].run = boot[n].run
                 /\ \A m \in Networks \ {n} : boot'[m] = boot[m]
      BY <3>2 DEF BootState
    <3> QED BY <1>31, <3>1, <3>2 DEF BootSweep
  <2>2. UNCHANGED <<row, worker, stop, user>>
    BY <1>31 DEF BootSweep
  <2>3. boot[n].pc # "done"
    BY <1>31 DEF BootSweep
  <2> QED BY <2>1, <2>2, <2>3
<1>32. ASSUME NEW n \in Networks, BootSave(n) PROVE RunsOnTheirNetwork'
  BY <1>32
     DEF BootSave, BootDone, BootState, SaveRow
<1>33. CASE Fill
  BY <1>33
     DEF Fill
<1>34. CASE Restart
  BY <1>34
     DEF Restart, IdleUser, IdleWorker, NoRow, NoStop, BootDone
<1>35. CASE UNCHANGED vars
  BY <1>35
     DEF vars
<1> HIDE DEF TypeOK, RunsOnTheirNetwork, On, db, venue
<1> QED
  BY <1>1, <1>2, <1>3, <1>4, <1>5, <1>6, <1>7, <1>8, <1>9, <1>10, <1>11,
     <1>12, <1>13, <1>14, <1>15, <1>16, <1>17, <1>18, <1>19, <1>20,
     <1>21, <1>22, <1>23, <1>24, <1>25, <1>26, <1>27, <1>28, <1>29,
     <1>30, <1>31, <1>32, <1>33, <1>34, <1>35
     DEF Next, UserNext, StopNext, WorkerNext

(* An actor begins a stop only when it is not carrying one out. *)
LEMMA OneStopStep == TypeOK /\ OneStopEach /\ [Next]_vars => OneStopEach'
<1> SUFFICES ASSUME TypeOK, OneStopEach, [Next]_vars PROVE OneStopEach'
  OBVIOUS
<1> USE DEF TypeOK, OneStopEach, db, venue
<1>1. ASSUME NEW r \in Runs, StartCreate(r) PROVE OneStopEach'
  BY <1>1
     DEF StartCreate
<1>2. ASSUME NEW n \in Networks, StopRequest(n) PROVE OneStopEach'
  BY <1>2
     DEF StopRequest
<1>3. CASE StartSave
  BY <1>3
     DEF StartSave
<1>4. CASE StartKick
  BY <1>4
     DEF StartKick
<1>5. CASE StartRollback
  BY <1>5
     DEF StartRollback
<1>6. CASE SwitchRequest
  BY <1>6
     DEF SwitchRequest
<1>7. CASE StopSave
  BY <1>7
     DEF StopSave, BeginStop, UserState, Actors
<1>8. CASE ListEntries
  BY <1>8
     DEF ListEntries
<1>9. CASE RetryEntry
  BY <1>9
     DEF RetryEntry
<1>10. CASE SweepEntry
  BY <1>10
     DEF SweepEntry
<1>11. CASE Fallback
  BY <1>11
     DEF Fallback
<1>12. CASE Flip
  BY <1>12
     DEF Flip
<1>13. CASE StopEndUser
  BY <1>13
     DEF StopEndUser, NoStop, Actors
<1>14. ASSUME NEW a \in Actors, StopRecord(a) PROVE OneStopEach'
  <2>1. stop[a].pc # "none" /\ \A b \in Actors \ {a} : stop'[b] = stop[b]
    BY <1>14 DEF StopRecord
  <2>2. SameUser
    BY <1>14, ByActorSame DEF StopRecord
  <2> QED BY <1>14, <2>1, <2>2 DEF StopRecord, SameUser, Actors
<1>15. ASSUME NEW a \in Actors, StopEngine(a) PROVE OneStopEach'
  <2>1. stop[a].pc # "none" /\ \A b \in Actors \ {a} : stop'[b] = stop[b]
    BY <1>15 DEF StopEngine
  <2>2. SameUser
    BY <1>15, ByActorSame DEF StopEngine
  <2> QED BY <1>15, <2>1, <2>2 DEF StopEngine, SameUser, Actors
<1>16. ASSUME NEW a \in Actors, StopClose(a) PROVE OneStopEach'
  <2>1. stop[a].pc # "none" /\ \A b \in Actors \ {a} : stop'[b] = stop[b]
    BY <1>16 DEF StopClose
  <2>2. SameUser
    BY <1>16, ByActorSame DEF StopClose
  <2> QED BY <1>16, <2>1, <2>2 DEF StopClose, SameUser, Actors
<1>17. ASSUME NEW a \in Actors, StopSweep(a) PROVE OneStopEach'
  <2>1. stop[a].pc # "none" /\ \A b \in Actors \ {a} : stop'[b] = stop[b]
    BY <1>17 DEF StopSweep
  <2>2. SameUser
    BY <1>17, ByActorSame DEF StopSweep
  <2> QED BY <1>17, <2>1, <2>2 DEF StopSweep, SameUser, Actors
<1>18. ASSUME NEW n \in Networks, NEW safety \in BOOLEAN, JobStart(n, safety)
      PROVE OneStopEach'
  <2>1. SameUser
    BY <1>18, DisturbSame DEF JobStart
  <2> QED BY <1>18, <2>1 DEF JobStart, SameUser
<1>19. ASSUME NEW n \in Networks, CyclePaused(n) PROVE OneStopEach'
  <2>1. SameUser
    BY <1>19, DisturbSame DEF CyclePaused
  <2> QED BY <1>19, <2>1 DEF CyclePaused, SameUser
<1>20. ASSUME NEW n \in Networks, CheckNetwork(n) PROVE OneStopEach'
  <2>1. SameUser
    BY <1>20, DisturbSame DEF CheckNetwork
  <2> QED BY <1>20, <2>1 DEF CheckNetwork, SameUser
<1>21. ASSUME NEW n \in Networks, StandDownRecord(n) PROVE OneStopEach'
  <2>1. SameUser
    BY <1>21, DisturbSame DEF StandDownRecord
  <2> QED BY <1>21, <2>1 DEF StandDownRecord, SameUser
<1>22. ASSUME NEW n \in Networks, GetClient(n) PROVE OneStopEach'
  <2>1. SameUser
    BY <1>22, DisturbSame DEF GetClient
  <2> QED BY <1>22, <2>1 DEF GetClient, SameUser
<1>23. ASSUME NEW n \in Networks, EngineCycle(n) PROVE OneStopEach'
  <2>1. SameUser
    BY <1>23, DisturbSame DEF EngineCycle
  <2> QED BY <1>23, <2>1 DEF EngineCycle, SameUser
<1>24. ASSUME NEW n \in Networks, RailsPass(n) PROVE OneStopEach'
  <2>1. SameUser
    BY <1>24, DisturbSame DEF RailsPass
  <2> QED BY <1>24, <2>1 DEF RailsPass, SameUser
<1>25. ASSUME NEW n \in Networks, RailTrips(n) PROVE OneStopEach'
  <2>1. SameUser
    BY <1>25, DisturbSame DEF RailTrips
  <2> QED BY <1>25, <2>1 DEF RailTrips, SameUser, BeginStop, Actors, WorkerState
<1>26. ASSUME NEW n \in Networks, CycleSave(n) PROVE OneStopEach'
  <2>1. SameUser
    BY <1>26, DisturbSame DEF CycleSave
  <2> QED BY <1>26, <2>1 DEF CycleSave, SameUser
<1>27. ASSUME NEW n \in Networks, CycleAborts(n) PROVE OneStopEach'
  <2>1. SameUser
    BY <1>27, DisturbSame DEF CycleAborts
  <2> QED BY <1>27, <2>1 DEF CycleAborts, SameUser, NoStop, Actors
<1>28. ASSUME NEW n \in Networks, HeartbeatLoad(n) PROVE OneStopEach'
  <2>1. SameUser
    BY <1>28, DisturbSame DEF HeartbeatLoad
  <2> QED BY <1>28, <2>1 DEF HeartbeatLoad, SameUser
<1>29. ASSUME NEW n \in Networks, HeartbeatSave(n) PROVE OneStopEach'
  <2>1. SameUser
    BY <1>29, DisturbSame DEF HeartbeatSave
  <2> QED BY <1>29, <2>1 DEF HeartbeatSave, SameUser
<1>30. ASSUME NEW n \in Networks, StopEndWorker(n) PROVE OneStopEach'
  <2>1. SameUser
    BY <1>30, DisturbSame DEF StopEndWorker
  <2> QED BY <1>30, <2>1 DEF StopEndWorker, SameUser, NoStop, Actors
<1>31. ASSUME NEW n \in Networks, BootSweep(n) PROVE OneStopEach'
  BY <1>31
     DEF BootSweep
<1>32. ASSUME NEW n \in Networks, BootSave(n) PROVE OneStopEach'
  BY <1>32
     DEF BootSave
<1>33. CASE Fill
  BY <1>33
     DEF Fill
<1>34. CASE Restart
  BY <1>34
     DEF Restart, NoStop, Actors
<1>35. CASE UNCHANGED vars
  BY <1>35
     DEF vars
<1> HIDE DEF TypeOK, OneStopEach, db, venue
<1> QED
  BY <1>1, <1>2, <1>3, <1>4, <1>5, <1>6, <1>7, <1>8, <1>9, <1>10, <1>11,
     <1>12, <1>13, <1>14, <1>15, <1>16, <1>17, <1>18, <1>19, <1>20,
     <1>21, <1>22, <1>23, <1>24, <1>25, <1>26, <1>27, <1>28, <1>29,
     <1>30, <1>31, <1>32, <1>33, <1>34, <1>35
     DEF Next, UserNext, StopNext, WorkerNext

-----------------------------------------------------------------------------
LEMMA InitType == Init => TypeOK /\ OneStopEach /\ RunsOnTheirNetwork
<1> SUFFICES ASSUME Init PROVE TypeOK /\ OneStopEach /\ RunsOnTheirNetwork
  OBVIOUS
<1>1. TypeOK
  BY IdleUserType, IdleWorkerType, NoStopType
     DEF Init, TypeOK, Actors, Row, OptRun, Items, NoRow, BootDone, BootState
<1>2. OneStopEach
  BY DEF Init, OneStopEach, NoStop, Actors
<1>3. RunsOnTheirNetwork
  BY DEF Init, RunsOnTheirNetwork, On, NoStop, NoRow, BootDone, IdleWorker, IdleUser
<1> QED BY <1>1, <1>2, <1>3

(* The state keeps the shape the code gives it: TypeOK is an invariant of the  *)
(* specification, for all networks and runs.  It rests on every actor's run   *)
(* being a run of that actor's network while the actor works on it.           *)
THEOREM TypeCorrect == Spec => [](TypeOK /\ OneStopEach /\ RunsOnTheirNetwork)
<1>1. Init => TypeOK /\ OneStopEach /\ RunsOnTheirNetwork
  BY InitType
<1>2. TypeOK /\ OneStopEach /\ RunsOnTheirNetwork /\ [Next]_vars
      => (TypeOK /\ OneStopEach /\ RunsOnTheirNetwork)'
  BY TypeStep, OneStopStep, NetworkStep
<1> QED BY <1>1, <1>2, PTL DEF Spec

-----------------------------------------------------------------------------
(* What a step may do to the venue: shrink what rests, or place for a run.    *)
(* A run that escaped stays escaped.                                          *)
Placing == \E r \in Runs, c \in Networks :
              Place(r, c) /\ UNCHANGED <<row, records, stop, boot>>
LEMMA VenueStep ==
    ASSUME TypeOK, RunsOnTheirNetwork, [Next]_vars
    PROVE  /\ escaped \subseteq escaped'
           /\ (orders' \subseteq orders /\ rungs' \subseteq rungs) \/ Placing
<1> DEFINE Venue == /\ escaped \subseteq escaped'
                    /\ (orders' \subseteq orders /\ rungs' \subseteq rungs) \/ Placing
<1> SUFFICES Venue
  OBVIOUS
<1> USE DEF TypeOK, db, venue, Placing
<1>1. ASSUME NEW r \in Runs, StartCreate(r) PROVE Venue
  BY <1>1
     DEF StartCreate
<1>2. ASSUME NEW n \in Networks, StopRequest(n) PROVE Venue
  BY <1>2
     DEF StopRequest
<1>3. CASE StartSave
  BY <1>3
     DEF StartSave, Displaced
<1>4. CASE StartKick
  <2>1. user.run \in Runs /\ user.net \in Networks /\ Place(user.run, user.net)
    BY <1>4 DEF StartKick, RunsOnTheirNetwork, On, UserState
  <2>2. escaped \subseteq escaped'
    BY <2>1, PlaceAdds
  <2> QED BY <1>4, <2>1, <2>2 DEF StartKick
<1>5. CASE StartRollback
  BY <1>5, CancelShrinks, DisarmShrinks
     DEF StartRollback, Displaced
<1>6. CASE SwitchRequest
  BY <1>6
     DEF SwitchRequest
<1>7. CASE StopSave
  BY <1>7
     DEF StopSave
<1>8. CASE ListEntries
  BY <1>8
     DEF ListEntries
<1>9. CASE RetryEntry
  BY <1>9, CancelShrinks
     DEF RetryEntry, OnProduct
<1>10. CASE SweepEntry
  BY <1>10, SweepTriggersShrinks
     DEF SweepEntry
<1>11. CASE Fallback
  BY <1>11, CancelShrinks, DisarmShrinks
     DEF Fallback, OnProduct
<1>12. CASE Flip
  BY <1>12
     DEF Flip
<1>13. CASE StopEndUser
  BY <1>13
     DEF StopEndUser, EndRecords
<1>14. ASSUME NEW a \in Actors, StopRecord(a) PROVE Venue
  BY <1>14
     DEF StopRecord
<1>15. ASSUME NEW a \in Actors, StopEngine(a) PROVE Venue
  BY <1>15, CancelShrinks, DisarmShrinks
     DEF StopEngine, OnProduct
<1>16. ASSUME NEW a \in Actors, StopClose(a) PROVE Venue
  BY <1>16, CancelShrinks
     DEF StopClose, CloseScope, OnProduct
<1>17. ASSUME NEW a \in Actors, StopSweep(a) PROVE Venue
  BY <1>17, SweepTriggersShrinks
     DEF StopSweep
<1>18. ASSUME NEW n \in Networks, NEW safety \in BOOLEAN, JobStart(n, safety)
      PROVE Venue
  BY <1>18
     DEF JobStart
<1>19. ASSUME NEW n \in Networks, CyclePaused(n) PROVE Venue
  BY <1>19
     DEF CyclePaused
<1>20. ASSUME NEW n \in Networks, CheckNetwork(n) PROVE Venue
  BY <1>20
     DEF CheckNetwork
<1>21. ASSUME NEW n \in Networks, StandDownRecord(n) PROVE Venue
  BY <1>21
     DEF StandDownRecord, EndRecords
<1>22. ASSUME NEW n \in Networks, GetClient(n) PROVE Venue
  BY <1>22
     DEF GetClient
<1>23. ASSUME NEW n \in Networks, EngineCycle(n) PROVE Venue
  <2>1. /\ worker[n].run \in Runs /\ worker[n].client \in Networks
        /\ Place(worker[n].run, worker[n].client)
    BY <1>23 DEF EngineCycle, RunsOnTheirNetwork, On, WorkerState
  <2>2. escaped \subseteq escaped'
    BY <2>1, PlaceAdds
  <2> QED BY <1>23, <2>1, <2>2 DEF EngineCycle
<1>24. ASSUME NEW n \in Networks, RailsPass(n) PROVE Venue
  BY <1>24
     DEF RailsPass
<1>25. ASSUME NEW n \in Networks, RailTrips(n) PROVE Venue
  BY <1>25
     DEF RailTrips
<1>26. ASSUME NEW n \in Networks, CycleSave(n) PROVE Venue
  BY <1>26
     DEF CycleSave
<1>27. ASSUME NEW n \in Networks, CycleAborts(n) PROVE Venue
  BY <1>27
     DEF CycleAborts
<1>28. ASSUME NEW n \in Networks, HeartbeatLoad(n) PROVE Venue
  BY <1>28
     DEF HeartbeatLoad
<1>29. ASSUME NEW n \in Networks, HeartbeatSave(n) PROVE Venue
  BY <1>29
     DEF HeartbeatSave
<1>30. ASSUME NEW n \in Networks, StopEndWorker(n) PROVE Venue
  BY <1>30
     DEF StopEndWorker, EndRecords
<1>31. ASSUME NEW n \in Networks, BootSweep(n) PROVE Venue
  BY <1>31, CancelShrinks, DisarmShrinks
     DEF BootSweep, OnProduct
<1>32. ASSUME NEW n \in Networks, BootSave(n) PROVE Venue
  BY <1>32
     DEF BootSave
<1>33. CASE Fill
  BY <1>33
     DEF Fill
<1>34. CASE Restart
  BY <1>34
     DEF Restart
<1>35. CASE UNCHANGED vars
  BY <1>35
     DEF vars
<1> HIDE DEF TypeOK, db, venue, Placing
<1> QED
  BY <1>1, <1>2, <1>3, <1>4, <1>5, <1>6, <1>7, <1>8, <1>9, <1>10, <1>11,
     <1>12, <1>13, <1>14, <1>15, <1>16, <1>17, <1>18, <1>19, <1>20,
     <1>21, <1>22, <1>23, <1>24, <1>25, <1>26, <1>27, <1>28, <1>29,
     <1>30, <1>31, <1>32, <1>33, <1>34, <1>35
     DEF Next, UserNext, StopNext, WorkerNext

(* A worker that only moves on keeps its run, its client and its copy. *)
LEMMA WorkerMoves ==
    ASSUME TypeOK, NEW n \in Networks, NEW p,
           worker' = [worker EXCEPT ![n] = [@ EXCEPT !.pc = p]]
    PROVE  /\ worker'[n].pc = p /\ worker'[n].run = worker[n].run
           /\ worker'[n].client = worker[n].client /\ worker'[n].copy = worker[n].copy
           /\ \A m \in Networks \ {n} : worker'[m] = worker[m]
BY DEF TypeOK, WorkerState

(* What rests away from its run's network was put there by a cycle that       *)
(* fetched another network's client, and has escaped.                         *)
LEMMA NoStrayStep ==
    ASSUME TypeOK, RunsOnTheirNetwork, NoStray, [Next]_vars PROVE NoStray'
<1>1. escaped \subseteq escaped'
  BY VenueStep
<1>2. CASE orders' \subseteq orders /\ rungs' \subseteq rungs
  BY <1>1, <1>2 DEF NoStray, Resting
<1>3. CASE Placing
  <2>1. PICK r \in Runs, c \in Networks : Place(r, c)
    BY <1>3 DEF Placing
  <2>2. /\ orders' \subseteq orders \cup {<<r, c>>} /\ rungs' \subseteq rungs \cup {<<r, c>>}
        /\ (orders' = orders /\ rungs' = rungs) \/ r \in escaped' \/ c = NetOf[r]
    BY <2>1, PlaceAdds
  <2> QED BY <1>1, <2>2 DEF NoStray, Resting
<1> QED BY <1>2, <1>3, VenueStep

(* A run is marked used before it is saved. *)
LEMMA SaveStep ==
    ASSUME TypeOK, FreshUnknown, [Next]_vars
    PROVE  user'.pc = "save" => user'.run \in used'
<1> DEFINE Saved == user'.pc = "save" => user'.run \in used'
<1> SUFFICES Saved
  OBVIOUS
<1> user.pc = "save" => user.run \in used
  BY DEF FreshUnknown
<1> USE DEF TypeOK, db, venue
<1>1. ASSUME NEW r \in Runs, StartCreate(r) PROVE Saved
  BY <1>1
     DEF StartCreate, IdleUser, UserState
<1>2. ASSUME NEW n \in Networks, StopRequest(n) PROVE Saved
  BY <1>2
     DEF StopRequest, IdleUser
<1>3. CASE StartSave
  BY <1>3
     DEF StartSave, IdleUser, UserState
<1>4. CASE StartKick
  BY <1>4
     DEF StartKick, IdleUser, UserState
<1>5. CASE StartRollback
  BY <1>5
     DEF StartRollback, IdleUser, UserState
<1>6. CASE SwitchRequest
  BY <1>6
     DEF SwitchRequest, IdleUser, UserState
<1>7. CASE StopSave
  BY <1>7
     DEF StopSave, IdleUser, UserState
<1>8. CASE ListEntries
  BY <1>8
     DEF ListEntries, IdleUser, UserState
<1>9. CASE RetryEntry
  BY <1>9
     DEF RetryEntry, IdleUser, UserState
<1>10. CASE SweepEntry
  BY <1>10
     DEF SweepEntry, IdleUser, UserState
<1>11. CASE Fallback
  BY <1>11
     DEF Fallback, IdleUser, UserState
<1>12. CASE Flip
  BY <1>12
     DEF Flip, IdleUser, UserState
<1>13. CASE StopEndUser
  BY <1>13
     DEF StopEndUser, IdleUser, UserState
<1>14. ASSUME NEW a \in Actors, StopRecord(a) PROVE Saved
  BY <1>14, ByActorSame DEF StopRecord, SameUser
<1>15. ASSUME NEW a \in Actors, StopEngine(a) PROVE Saved
  BY <1>15, ByActorSame DEF StopEngine, SameUser
<1>16. ASSUME NEW a \in Actors, StopClose(a) PROVE Saved
  BY <1>16, ByActorSame DEF StopClose, SameUser
<1>17. ASSUME NEW a \in Actors, StopSweep(a) PROVE Saved
  BY <1>17, ByActorSame DEF StopSweep, SameUser
<1>18. ASSUME NEW n \in Networks, NEW safety \in BOOLEAN, JobStart(n, safety)
      PROVE Saved
  BY <1>18, DisturbSame DEF JobStart, SameUser
<1>19. ASSUME NEW n \in Networks, CyclePaused(n) PROVE Saved
  BY <1>19, DisturbSame DEF CyclePaused, SameUser
<1>20. ASSUME NEW n \in Networks, CheckNetwork(n) PROVE Saved
  BY <1>20, DisturbSame DEF CheckNetwork, SameUser
<1>21. ASSUME NEW n \in Networks, StandDownRecord(n) PROVE Saved
  BY <1>21, DisturbSame DEF StandDownRecord, SameUser
<1>22. ASSUME NEW n \in Networks, GetClient(n) PROVE Saved
  BY <1>22, DisturbSame DEF GetClient, SameUser
<1>23. ASSUME NEW n \in Networks, EngineCycle(n) PROVE Saved
  BY <1>23, DisturbSame DEF EngineCycle, SameUser
<1>24. ASSUME NEW n \in Networks, RailsPass(n) PROVE Saved
  BY <1>24, DisturbSame DEF RailsPass, SameUser
<1>25. ASSUME NEW n \in Networks, RailTrips(n) PROVE Saved
  BY <1>25, DisturbSame DEF RailTrips, SameUser
<1>26. ASSUME NEW n \in Networks, CycleSave(n) PROVE Saved
  BY <1>26, DisturbSame DEF CycleSave, SameUser
<1>27. ASSUME NEW n \in Networks, CycleAborts(n) PROVE Saved
  BY <1>27, DisturbSame DEF CycleAborts, SameUser
<1>28. ASSUME NEW n \in Networks, HeartbeatLoad(n) PROVE Saved
  BY <1>28, DisturbSame DEF HeartbeatLoad, SameUser
<1>29. ASSUME NEW n \in Networks, HeartbeatSave(n) PROVE Saved
  BY <1>29, DisturbSame DEF HeartbeatSave, SameUser
<1>30. ASSUME NEW n \in Networks, StopEndWorker(n) PROVE Saved
  BY <1>30, DisturbSame DEF StopEndWorker, SameUser
<1>31. ASSUME NEW n \in Networks, BootSweep(n) PROVE Saved
  BY <1>31
     DEF BootSweep
<1>32. ASSUME NEW n \in Networks, BootSave(n) PROVE Saved
  BY <1>32
     DEF BootSave
<1>33. CASE Fill
  BY <1>33
     DEF Fill
<1>34. CASE Restart
  BY <1>34
     DEF Restart, IdleUser, UserState
<1>35. CASE UNCHANGED vars
  BY <1>35
     DEF vars
<1> HIDE DEF TypeOK, db, venue
<1> QED
  BY <1>1, <1>2, <1>3, <1>4, <1>5, <1>6, <1>7, <1>8, <1>9, <1>10, <1>11,
     <1>12, <1>13, <1>14, <1>15, <1>16, <1>17, <1>18, <1>19, <1>20,
     <1>21, <1>22, <1>23, <1>24, <1>25, <1>26, <1>27, <1>28, <1>29,
     <1>30, <1>31, <1>32, <1>33, <1>34, <1>35
     DEF Next, UserNext, StopNext, WorkerNext

(* No step makes a fresh run known before it is saved, and no run is fresh    *)
(* twice.                                                                     *)
LEMMA FreshStep ==
    ASSUME TypeOK, OneStopEach, RunsOnTheirNetwork, FreshUnknown, [Next]_vars
    PROVE  FreshUnknown'
<1> SUFFICES ASSUME NEW q \in Runs, Fresh(q)' PROVE Unknown(q)'
  BY SaveStep DEF FreshUnknown
<1> DEFINE Keeps == Unknown(q)'
<1> SUFFICES Keeps
  OBVIOUS
<1> (Fresh(q) => Unknown(q)) /\ (user.pc = "save" => user.run \in used)
  BY DEF FreshUnknown
<1> USE DEF TypeOK, db, venue, Fresh, Unknown
<1>1. ASSUME NEW r \in Runs, StartCreate(r) PROVE Keeps
  BY <1>1
     DEF StartCreate, IdleUser
<1>2. ASSUME NEW n \in Networks, StopRequest(n) PROVE Keeps
  BY <1>2
     DEF StopRequest, IdleUser
<1>3. CASE StartSave
  <2>1. PICK created \in BOOLEAN :
          /\ SaveRow(user.net, user.run, created)
          /\ user' = IF created THEN [user EXCEPT !.pc = "kick"] ELSE IdleUser(active)
    BY <1>3 DEF StartSave
  <2>2. CASE created
    BY <1>3, <2>1, <2>2 DEF StartSave, SaveRow, UserState
  <2>3. CASE ~created
    BY <1>3, <2>1, <2>3 DEF StartSave, SaveRow, IdleUser
  <2> QED BY <2>2, <2>3
<1>4. CASE StartKick
  BY <1>4
     DEF StartKick, IdleUser, UserState
<1>5. CASE StartRollback
  BY <1>5
     DEF StartRollback, SaveRow, IdleUser
<1>6. CASE SwitchRequest
  BY <1>6
     DEF SwitchRequest, IdleUser
<1>7. CASE StopSave
  BY <1>7
     DEF StopSave, SaveRow, BeginStop, UserState, Actors
<1>8. CASE ListEntries
  BY <1>8
     DEF ListEntries, IdleUser, RecordsOn, UserState
<1>9. CASE RetryEntry
  BY <1>9
     DEF RetryEntry, UserState
<1>10. CASE SweepEntry
  BY <1>10
     DEF SweepEntry, IdleUser, UserState
<1>11. CASE Fallback
  BY <1>11
     DEF Fallback, IdleUser
<1>12. CASE Flip
  BY <1>12
     DEF Flip, IdleUser
<1>13. CASE StopEndUser
  <2>1. records' \subseteq records \cup {stop[User].run}
    BY <1>13 DEF StopEndUser, EndRecords
  <2>2. /\ stop'[User].run = NoRun
        /\ \A b \in Actors \ {User} : stop'[b] = stop[b]
    BY <1>13 DEF StopEndUser, NoStop, Actors
  <2>3. /\ user'.pc # "save" /\ user'.run \in {user.run, NoRun}
        /\ user'.todo \subseteq user.todo
    BY <1>13 DEF StopEndUser, IdleUser, UserState
  <2>4. user.pc # "save"
    BY <1>13 DEF StopEndUser, OneStopEach
  <2> QED BY <1>13, <2>1, <2>2, <2>3, <2>4 DEF StopEndUser, Actors
<1>14. ASSUME NEW a \in Actors, StopRecord(a) PROVE Keeps
  <2>1. SameUser
    BY <1>14, ByActorSame DEF StopRecord
  <2> QED BY <1>14, <2>1 DEF StopRecord, SameUser, StopState
<1>15. ASSUME NEW a \in Actors, StopEngine(a) PROVE Keeps
  <2>1. SameUser
    BY <1>15, ByActorSame DEF StopEngine
  <2> QED BY <1>15, <2>1 DEF StopEngine, SameUser, StopState
<1>16. ASSUME NEW a \in Actors, StopClose(a) PROVE Keeps
  <2>1. SameUser
    BY <1>16, ByActorSame DEF StopClose
  <2> QED BY <1>16, <2>1 DEF StopClose, SameUser, StopState
<1>17. ASSUME NEW a \in Actors, StopSweep(a) PROVE Keeps
  <2>1. SameUser
    BY <1>17, ByActorSame DEF StopSweep
  <2> QED BY <1>17, <2>1 DEF StopSweep, SameUser, StopState
<1>18. ASSUME NEW n \in Networks, NEW safety \in BOOLEAN, JobStart(n, safety)
      PROVE Keeps
  <2>1. SameUser
    BY <1>18, DisturbSame DEF JobStart
  <2> QED BY <1>18, <2>1 DEF JobStart, SameUser, IdleWorker, NoRow
<1>19. ASSUME NEW n \in Networks, CyclePaused(n) PROVE Keeps
  <2>1. SameUser
    BY <1>19, DisturbSame DEF CyclePaused
  <2> QED BY <1>19, <2>1 DEF CyclePaused, SameUser, WorkerState
<1>20. ASSUME NEW n \in Networks, CheckNetwork(n) PROVE Keeps
  <2>1. SameUser
    BY <1>20, DisturbSame DEF CheckNetwork
  <2>2. /\ worker'[n].run = worker[n].run /\ worker'[n].copy = worker[n].copy
        /\ \A m \in Networks \ {n} : worker'[m] = worker[m]
    <3>1. PICK p : worker' = [worker EXCEPT ![n] = [@ EXCEPT !.pc = p]]
      BY <1>20 DEF CheckNetwork
    <3> QED BY <3>1, WorkerMoves
  <2>3. /\ row'[n].run \in {row[n].run, worker[n].run}
        /\ \A m \in Networks \ {n} : row'[m] = row[m]
    BY <1>20 DEF CheckNetwork, SaveRow
  <2>4. UNCHANGED <<used, records, stop, boot>>
    BY <1>20 DEF CheckNetwork
  <2> QED BY <2>1, <2>2, <2>3, <2>4 DEF SameUser
<1>21. ASSUME NEW n \in Networks, StandDownRecord(n) PROVE Keeps
  <2>1. SameUser
    BY <1>21, DisturbSame DEF StandDownRecord
  <2> QED BY <1>21, <2>1 DEF StandDownRecord, SameUser, WorkerState, EndRecords
<1>22. ASSUME NEW n \in Networks, GetClient(n) PROVE Keeps
  <2>1. SameUser
    BY <1>22, DisturbSame DEF GetClient
  <2> QED BY <1>22, <2>1 DEF GetClient, SameUser, WorkerState
<1>23. ASSUME NEW n \in Networks, EngineCycle(n) PROVE Keeps
  <2>1. SameUser
    BY <1>23, DisturbSame DEF EngineCycle
  <2> QED BY <1>23, <2>1 DEF EngineCycle, SameUser, WorkerState
<1>24. ASSUME NEW n \in Networks, RailsPass(n) PROVE Keeps
  <2>1. SameUser
    BY <1>24, DisturbSame DEF RailsPass
  <2> QED BY <1>24, <2>1 DEF RailsPass, SameUser, WorkerState
<1>25. ASSUME NEW n \in Networks, RailTrips(n) PROVE Keeps
  <2>1. SameUser
    BY <1>25, DisturbSame DEF RailTrips
  <2> QED BY <1>25, <2>1 DEF RailTrips, SameUser, WorkerState, SaveRow, BeginStop, Actors
<1>26. ASSUME NEW n \in Networks, CycleSave(n) PROVE Keeps
  <2>1. SameUser
    BY <1>26, DisturbSame DEF CycleSave
  <2> QED BY <1>26, <2>1 DEF CycleSave, SameUser, WorkerState, SaveRow
<1>27. ASSUME NEW n \in Networks, CycleAborts(n) PROVE Keeps
  <2>1. SameUser
    BY <1>27, DisturbSame DEF CycleAborts
  <2> QED BY <1>27, <2>1 DEF CycleAborts, SameUser, WorkerState, NoStop, Actors
<1>28. ASSUME NEW n \in Networks, HeartbeatLoad(n) PROVE Keeps
  <2>1. SameUser
    BY <1>28, DisturbSame DEF HeartbeatLoad
  <2> QED BY <1>28, <2>1 DEF HeartbeatLoad, SameUser, WorkerState
<1>29. ASSUME NEW n \in Networks, HeartbeatSave(n) PROVE Keeps
  <2>1. SameUser
    BY <1>29, DisturbSame DEF HeartbeatSave
  <2> QED BY <1>29, <2>1 DEF HeartbeatSave, SameUser, WorkerState, IdleWorker, NoRow, SaveRow
<1>30. ASSUME NEW n \in Networks, StopEndWorker(n) PROVE Keeps
  <2>1. SameUser
    BY <1>30, DisturbSame DEF StopEndWorker
  <2> QED BY <1>30, <2>1 DEF StopEndWorker, SameUser, WorkerState, NoStop, Actors, EndRecords
<1>31. ASSUME NEW n \in Networks, BootSweep(n) PROVE Keeps
  <2>1. \A m \in Networks : boot'[m].run \in {boot[m].run, NoRun}
    <3>1. CASE boot' = [boot EXCEPT ![n] = BootDone]
      BY <3>1 DEF BootDone
    <3>2. ASSUME NEW b, boot' = [boot EXCEPT ![n] = [@ EXCEPT !.pc = "swept", !.ok = b]]
          PROVE  \A m \in Networks : boot'[m].run \in {boot[m].run, NoRun}
      BY <3>2 DEF BootState
    <3> QED BY <1>31, <3>1, <3>2 DEF BootSweep
  <2>2. UNCHANGED <<row, used, records, worker, stop, user>>
    BY <1>31 DEF BootSweep
  <2> QED BY <2>1, <2>2
<1>32. ASSUME NEW n \in Networks, BootSave(n) PROVE Keeps
  BY <1>32
     DEF BootSave, BootDone, BootState, SaveRow
<1>33. CASE Fill
  BY <1>33
     DEF Fill
<1>34. CASE Restart
  BY <1>34
     DEF Restart, IdleUser, IdleWorker, NoRow, NoStop, BootDone
<1>35. CASE UNCHANGED vars
  BY <1>35
     DEF vars
<1> HIDE DEF TypeOK, db, venue, Fresh, Unknown
<1> QED
  BY <1>1, <1>2, <1>3, <1>4, <1>5, <1>6, <1>7, <1>8, <1>9, <1>10, <1>11,
     <1>12, <1>13, <1>14, <1>15, <1>16, <1>17, <1>18, <1>19, <1>20,
     <1>21, <1>22, <1>23, <1>24, <1>25, <1>26, <1>27, <1>28, <1>29,
     <1>30, <1>31, <1>32, <1>33, <1>34, <1>35
     DEF Next, UserNext, StopNext, WorkerNext

(* A save that arms a row that was not armed is a Start, or escapes. *)
LEMMA RearmStep ==
    ASSUME TypeOK, RunsOnTheirNetwork, [Next]_vars, NEW q \in Runs,
           RowRuns(NetOf[q], q)'
    PROVE  \/ RowRuns(NetOf[q], q) \/ q \in escaped'
           \/ user.pc = "save" /\ user.run = q
<1> DEFINE NotRearmed == \/ RowRuns(NetOf[q], q) \/ q \in escaped'
                         \/ user.pc = "save" /\ user.run = q
<1> SUFFICES NotRearmed
  OBVIOUS
<1> USE DEF TypeOK, db, venue, RowRuns
<1>1. ASSUME NEW r \in Runs, StartCreate(r) PROVE NotRearmed
  BY <1>1
     DEF StartCreate
<1>2. ASSUME NEW n \in Networks, StopRequest(n) PROVE NotRearmed
  BY <1>2
     DEF StopRequest
<1>3. CASE StartSave
  BY <1>3
     DEF StartSave, SaveRow
<1>4. CASE StartKick
  BY <1>4
     DEF StartKick
<1>5. CASE StartRollback
  BY <1>5
     DEF StartRollback, SaveRow
<1>6. CASE SwitchRequest
  BY <1>6
     DEF SwitchRequest
<1>7. CASE StopSave
  BY <1>7
     DEF StopSave, SaveRow
<1>8. CASE ListEntries
  BY <1>8
     DEF ListEntries
<1>9. CASE RetryEntry
  BY <1>9
     DEF RetryEntry
<1>10. CASE SweepEntry
  BY <1>10
     DEF SweepEntry
<1>11. CASE Fallback
  BY <1>11
     DEF Fallback
<1>12. CASE Flip
  BY <1>12
     DEF Flip
<1>13. CASE StopEndUser
  BY <1>13
     DEF StopEndUser
<1>14. ASSUME NEW a \in Actors, StopRecord(a) PROVE NotRearmed
  BY <1>14
     DEF StopRecord
<1>15. ASSUME NEW a \in Actors, StopEngine(a) PROVE NotRearmed
  BY <1>15
     DEF StopEngine
<1>16. ASSUME NEW a \in Actors, StopClose(a) PROVE NotRearmed
  BY <1>16
     DEF StopClose
<1>17. ASSUME NEW a \in Actors, StopSweep(a) PROVE NotRearmed
  BY <1>17
     DEF StopSweep
<1>18. ASSUME NEW n \in Networks, NEW safety \in BOOLEAN, JobStart(n, safety)
      PROVE NotRearmed
  BY <1>18
     DEF JobStart
<1>19. ASSUME NEW n \in Networks, CyclePaused(n) PROVE NotRearmed
  BY <1>19
     DEF CyclePaused
<1>20. ASSUME NEW n \in Networks, CheckNetwork(n) PROVE NotRearmed
  BY <1>20
     DEF CheckNetwork, SaveRow
<1>21. ASSUME NEW n \in Networks, StandDownRecord(n) PROVE NotRearmed
  BY <1>21
     DEF StandDownRecord
<1>22. ASSUME NEW n \in Networks, GetClient(n) PROVE NotRearmed
  BY <1>22
     DEF GetClient
<1>23. ASSUME NEW n \in Networks, EngineCycle(n) PROVE NotRearmed
  BY <1>23
     DEF EngineCycle
<1>24. ASSUME NEW n \in Networks, RailsPass(n) PROVE NotRearmed
  BY <1>24
     DEF RailsPass
<1>25. ASSUME NEW n \in Networks, RailTrips(n) PROVE NotRearmed
  BY <1>25
     DEF RailTrips, SaveRow
<1>26. ASSUME NEW n \in Networks, CycleSave(n) PROVE NotRearmed
  BY <1>26
     DEF CycleSave, SaveRow, Rearmed
<1>27. ASSUME NEW n \in Networks, CycleAborts(n) PROVE NotRearmed
  BY <1>27
     DEF CycleAborts
<1>28. ASSUME NEW n \in Networks, HeartbeatLoad(n) PROVE NotRearmed
  BY <1>28
     DEF HeartbeatLoad
<1>29. ASSUME NEW n \in Networks, HeartbeatSave(n) PROVE NotRearmed
  BY <1>29
     DEF HeartbeatSave, SaveRow, Rearmed, Row, WorkerState
<1>30. ASSUME NEW n \in Networks, StopEndWorker(n) PROVE NotRearmed
  BY <1>30
     DEF StopEndWorker
<1>31. ASSUME NEW n \in Networks, BootSweep(n) PROVE NotRearmed
  BY <1>31
     DEF BootSweep
<1>32. ASSUME NEW n \in Networks, BootSave(n) PROVE NotRearmed
  BY <1>32
     DEF BootSave, SaveRow
<1>33. CASE Fill
  BY <1>33
     DEF Fill
<1>34. CASE Restart
  BY <1>34
     DEF Restart
<1>35. CASE UNCHANGED vars
  BY <1>35
     DEF vars
<1> HIDE DEF TypeOK, db, venue, RowRuns
<1> QED
  BY <1>1, <1>2, <1>3, <1>4, <1>5, <1>6, <1>7, <1>8, <1>9, <1>10, <1>11,
     <1>12, <1>13, <1>14, <1>15, <1>16, <1>17, <1>18, <1>19, <1>20,
     <1>21, <1>22, <1>23, <1>24, <1>25, <1>26, <1>27, <1>28, <1>29,
     <1>30, <1>31, <1>32, <1>33, <1>34, <1>35
     DEF Next, UserNext, StopNext, WorkerNext

(* A stop begins by clearing the row, so the run it stops runs no longer. *)
LEMMA StopBegunStep ==
    ASSUME TypeOK, OneStopEach, RunsOnTheirNetwork, [Next]_vars, NEW q \in Runs,
           StopBegun(q)'
    PROVE  StopBegun(q) \/ ~RowRuns(NetOf[q], q)'
<1> DEFINE Begun == StopBegun(q) \/ ~RowRuns(NetOf[q], q)'
<1> SUFFICES Begun
  OBVIOUS
<1> USE DEF TypeOK, db, venue, RowRuns, StopBegun, InStop, Held, StandingDown
<1>1. ASSUME NEW r \in Runs, StartCreate(r) PROVE Begun
  BY <1>1
     DEF StartCreate, IdleUser
<1>2. ASSUME NEW n \in Networks, StopRequest(n) PROVE Begun
  BY <1>2
     DEF StopRequest, IdleUser
<1>3. CASE StartSave
  <2>1. user'.pc # "sweepEntry" /\ user'.todo \in {user.todo, {}}
    BY <1>3 DEF StartSave, IdleUser, UserState
  <2> QED BY <1>3, <2>1 DEF StartSave
<1>4. CASE StartKick
  BY <1>4
     DEF StartKick, IdleUser, UserState
<1>5. CASE StartRollback
  BY <1>5
     DEF StartRollback, IdleUser
<1>6. CASE SwitchRequest
  BY <1>6
     DEF SwitchRequest, IdleUser
<1>7. CASE StopSave
  <2>1. stop'[User].run = user.run /\ \A c \in Actors \ {User} : stop'[c] = stop[c]
    BY <1>7 DEF StopSave, BeginStop, Actors
  <2>2. user'.pc = "stopping" /\ user'.todo = user.todo /\ UNCHANGED <<worker, records>>
    BY <1>7 DEF StopSave, UserState
  <2>3. ~row'[user.net].running /\ On(user.run, user.net)
    BY <1>7 DEF StopSave, SaveRow, RunsOnTheirNetwork, UserState
  <2> QED BY <2>1, <2>2, <2>3 DEF On
<1>8. CASE ListEntries
  BY <1>8
     DEF ListEntries, IdleUser, RecordsOn, UserState
<1>9. CASE RetryEntry
  BY <1>9
     DEF RetryEntry, UserState
<1>10. CASE SweepEntry
  BY <1>10
     DEF SweepEntry, IdleUser, UserState
<1>11. CASE Fallback
  BY <1>11
     DEF Fallback, IdleUser
<1>12. CASE Flip
  BY <1>12
     DEF Flip, IdleUser
<1>13. CASE StopEndUser
  <2>1. records' \subseteq records \cup {stop[User].run}
    BY <1>13 DEF StopEndUser, EndRecords
  <2>2. stop'[User].pc = "none" /\ \A c \in Actors \ {User} : stop'[c] = stop[c]
    BY <1>13 DEF StopEndUser, NoStop, Actors
  <2>3. user'.pc # "sweepEntry" /\ user'.todo \subseteq user.todo
    BY <1>13 DEF StopEndUser, IdleUser, UserState
  <2> QED BY <1>13, <2>1, <2>2, <2>3 DEF StopEndUser, Actors
<1>14. ASSUME NEW a \in Actors, StopRecord(a) PROVE Begun
  <2>1. SameUser
    BY <1>14, ByActorSame DEF StopRecord
  <2>2. stop[a].pc # "none" /\ \A c \in Actors : stop'[c].run = stop[c].run
    BY <1>14 DEF StopRecord, StopState
  <2>3. \A c \in Actors : stop'[c].pc # "none" => stop[c].pc # "none"
    BY <1>14, <2>2 DEF StopRecord
  <2>4. worker' = worker /\ records' \subseteq records \cup {stop[a].run}
    BY <1>14 DEF StopRecord
  <2> QED BY <2>1, <2>2, <2>3, <2>4 DEF SameUser
<1>15. ASSUME NEW a \in Actors, StopEngine(a) PROVE Begun
  <2>1. SameUser
    BY <1>15, ByActorSame DEF StopEngine
  <2>2. stop[a].pc # "none" /\ \A c \in Actors : stop'[c].run = stop[c].run
    BY <1>15 DEF StopEngine, StopState
  <2>3. \A c \in Actors : stop'[c].pc # "none" => stop[c].pc # "none"
    BY <1>15, <2>2 DEF StopEngine
  <2>4. worker' = worker /\ records' \subseteq records \cup {stop[a].run}
    BY <1>15 DEF StopEngine
  <2> QED BY <2>1, <2>2, <2>3, <2>4 DEF SameUser
<1>16. ASSUME NEW a \in Actors, StopClose(a) PROVE Begun
  <2>1. SameUser
    BY <1>16, ByActorSame DEF StopClose
  <2>2. stop[a].pc # "none" /\ \A c \in Actors : stop'[c].run = stop[c].run
    BY <1>16 DEF StopClose, StopState
  <2>3. \A c \in Actors : stop'[c].pc # "none" => stop[c].pc # "none"
    BY <1>16, <2>2 DEF StopClose
  <2>4. worker' = worker /\ records' \subseteq records \cup {stop[a].run}
    BY <1>16 DEF StopClose
  <2> QED BY <2>1, <2>2, <2>3, <2>4 DEF SameUser
<1>17. ASSUME NEW a \in Actors, StopSweep(a) PROVE Begun
  <2>1. SameUser
    BY <1>17, ByActorSame DEF StopSweep
  <2>2. stop[a].pc # "none" /\ \A c \in Actors : stop'[c].run = stop[c].run
    BY <1>17 DEF StopSweep, StopState
  <2>3. \A c \in Actors : stop'[c].pc # "none" => stop[c].pc # "none"
    BY <1>17, <2>2 DEF StopSweep
  <2>4. worker' = worker /\ records' \subseteq records \cup {stop[a].run}
    BY <1>17 DEF StopSweep
  <2> QED BY <2>1, <2>2, <2>3, <2>4 DEF SameUser
<1>18. ASSUME NEW n \in Networks, NEW safety \in BOOLEAN, JobStart(n, safety)
      PROVE Begun
  <2>1. SameUser
    BY <1>18, DisturbSame DEF JobStart
  <2>2. worker'[n].pc = "loaded" /\ \A m \in Networks \ {n} : worker'[m] = worker[m]
    BY <1>18 DEF JobStart, IdleWorker, WorkerState
  <2> QED BY <1>18, <2>1, <2>2 DEF JobStart, SameUser, On, Actors
<1>19. ASSUME NEW n \in Networks, CyclePaused(n) PROVE Begun
  <2>1. SameUser
    BY <1>19, DisturbSame DEF CyclePaused
  <2>2. worker'[n].pc # "standDown" /\ \A m \in Networks \ {n} : worker'[m] = worker[m]
    BY <1>19, WorkerMoves DEF CyclePaused
  <2> QED BY <1>19, <2>1, <2>2 DEF CyclePaused, SameUser, On, Actors
<1>20. ASSUME NEW n \in Networks, CheckNetwork(n) PROVE Begun
  <2>1. SameUser
    BY <1>20, DisturbSame DEF CheckNetwork
  <2>2. worker'[n].run = worker[n].run /\ \A m \in Networks \ {n} : worker'[m] = worker[m]
    <3>1. PICK p : worker' = [worker EXCEPT ![n] = [@ EXCEPT !.pc = p]]
      BY <1>20 DEF CheckNetwork
    <3> QED BY <3>1, WorkerMoves
  <2>5. active = n => worker'[n].pc = "client"
    BY <1>20, WorkerMoves DEF CheckNetwork
  <2>6. active # n => ~row'[n].running
    BY <1>20 DEF CheckNetwork, SaveRow
  <2>7. On(worker[n].run, n)
    BY <1>20 DEF CheckNetwork, RunsOnTheirNetwork
  <2> QED BY <1>20, <2>1, <2>2, <2>5, <2>6, <2>7 DEF CheckNetwork, SameUser, On, Actors
<1>21. ASSUME NEW n \in Networks, StandDownRecord(n) PROVE Begun
  <2>1. SameUser
    BY <1>21, DisturbSame DEF StandDownRecord
  <2>2. worker'[n].pc # "standDown" /\ \A m \in Networks \ {n} : worker'[m] = worker[m]
    BY <1>21, WorkerMoves DEF StandDownRecord
  <2>3. records' \subseteq records \cup {worker[n].run}
    BY <1>21 DEF StandDownRecord, EndRecords
  <2> QED BY <1>21, <2>1, <2>2, <2>3 DEF StandDownRecord, SameUser, On, Actors
<1>22. ASSUME NEW n \in Networks, GetClient(n) PROVE Begun
  <2>1. SameUser
    BY <1>22, DisturbSame DEF GetClient
  <2>2. worker'[n].pc # "standDown" /\ \A m \in Networks \ {n} : worker'[m] = worker[m]
    BY <1>22 DEF GetClient, WorkerState
  <2> QED BY <1>22, <2>1, <2>2 DEF GetClient, SameUser, On, Actors
<1>23. ASSUME NEW n \in Networks, EngineCycle(n) PROVE Begun
  <2>1. SameUser
    BY <1>23, DisturbSame DEF EngineCycle
  <2>2. worker'[n].pc # "standDown" /\ \A m \in Networks \ {n} : worker'[m] = worker[m]
    BY <1>23, WorkerMoves DEF EngineCycle
  <2> QED BY <1>23, <2>1, <2>2 DEF EngineCycle, SameUser, On, Actors
<1>24. ASSUME NEW n \in Networks, RailsPass(n) PROVE Begun
  <2>1. SameUser
    BY <1>24, DisturbSame DEF RailsPass
  <2>2. worker'[n].pc # "standDown" /\ \A m \in Networks \ {n} : worker'[m] = worker[m]
    BY <1>24, WorkerMoves DEF RailsPass
  <2> QED BY <1>24, <2>1, <2>2 DEF RailsPass, SameUser, On, Actors
<1>25. ASSUME NEW n \in Networks, RailTrips(n) PROVE Begun
  <2>1. SameUser
    BY <1>25, DisturbSame DEF RailTrips
  <2>2. worker'[n].pc # "standDown" /\ \A m \in Networks \ {n} : worker'[m] = worker[m]
    BY <1>25, WorkerMoves DEF RailTrips
  <2>4. stop'[n].run = worker[n].run /\ \A c \in Actors \ {n} : stop'[c] = stop[c]
    BY <1>25 DEF RailTrips, BeginStop, Actors
  <2>5. ~row'[n].running
    BY <1>25 DEF RailTrips, SaveRow
  <2>7. On(worker[n].run, n)
    BY <1>25 DEF RailTrips, RunsOnTheirNetwork
  <2> QED BY <1>25, <2>1, <2>2, <2>4, <2>5, <2>7 DEF RailTrips, SameUser, On, Actors
<1>26. ASSUME NEW n \in Networks, CycleSave(n) PROVE Begun
  <2>1. SameUser
    BY <1>26, DisturbSame DEF CycleSave
  <2>2. worker'[n].pc # "standDown" /\ \A m \in Networks \ {n} : worker'[m] = worker[m]
    BY <1>26, WorkerMoves DEF CycleSave
  <2> QED BY <1>26, <2>1, <2>2 DEF CycleSave, SameUser, On, Actors
<1>27. ASSUME NEW n \in Networks, CycleAborts(n) PROVE Begun
  <2>1. SameUser
    BY <1>27, DisturbSame DEF CycleAborts
  <2>2. worker'[n].pc # "standDown" /\ \A m \in Networks \ {n} : worker'[m] = worker[m]
    BY <1>27, WorkerMoves DEF CycleAborts
  <2>4. stop'[n].pc = "none" /\ \A c \in Actors \ {n} : stop'[c] = stop[c]
    BY <1>27 DEF CycleAborts, NoStop, Actors
  <2> QED BY <1>27, <2>1, <2>2, <2>4 DEF CycleAborts, SameUser, On, Actors
<1>28. ASSUME NEW n \in Networks, HeartbeatLoad(n) PROVE Begun
  <2>1. SameUser
    BY <1>28, DisturbSame DEF HeartbeatLoad
  <2>2. worker'[n].pc # "standDown" /\ \A m \in Networks \ {n} : worker'[m] = worker[m]
    BY <1>28 DEF HeartbeatLoad, WorkerState
  <2> QED BY <1>28, <2>1, <2>2 DEF HeartbeatLoad, SameUser, On, Actors
<1>29. ASSUME NEW n \in Networks, HeartbeatSave(n) PROVE Begun
  <2>1. SameUser
    BY <1>29, DisturbSame DEF HeartbeatSave
  <2>2. worker'[n].pc = "idle" /\ \A m \in Networks \ {n} : worker'[m] = worker[m]
    BY <1>29 DEF HeartbeatSave, IdleWorker, WorkerState
  <2> QED BY <1>29, <2>1, <2>2 DEF HeartbeatSave, SameUser, On, Actors
<1>30. ASSUME NEW n \in Networks, StopEndWorker(n) PROVE Begun
  <2>1. SameUser
    BY <1>30, DisturbSame DEF StopEndWorker
  <2>2. worker'[n].pc # "standDown" /\ \A m \in Networks \ {n} : worker'[m] = worker[m]
    BY <1>30, WorkerMoves DEF StopEndWorker
  <2>3. records' \subseteq records \cup {stop[n].run}
    BY <1>30 DEF StopEndWorker, EndRecords
  <2>4. stop'[n].pc = "none" /\ \A c \in Actors \ {n} : stop'[c] = stop[c]
    BY <1>30 DEF StopEndWorker, NoStop, Actors
  <2> QED BY <1>30, <2>1, <2>2, <2>3, <2>4 DEF StopEndWorker, SameUser, On, Actors
<1>31. ASSUME NEW n \in Networks, BootSweep(n) PROVE Begun
  BY <1>31
     DEF BootSweep
<1>32. ASSUME NEW n \in Networks, BootSave(n) PROVE Begun
  <2>1. records' \subseteq records \cup {boot[n].run} /\ UNCHANGED <<user, worker, stop>>
    BY <1>32 DEF BootSave
  <2>2. ~row'[n].running /\ On(boot[n].run, n)
    BY <1>32 DEF BootSave, SaveRow, RunsOnTheirNetwork
  <2> QED BY <2>1, <2>2 DEF On
<1>33. CASE Fill
  BY <1>33
     DEF Fill
<1>34. CASE Restart
  BY <1>34
     DEF Restart, IdleUser, IdleWorker, NoStop
<1>35. CASE UNCHANGED vars
  BY <1>35
     DEF vars
<1> HIDE DEF TypeOK, db, venue, RowRuns, StopBegun, InStop, Held, StandingDown
<1> QED
  BY <1>1, <1>2, <1>3, <1>4, <1>5, <1>6, <1>7, <1>8, <1>9, <1>10, <1>11,
     <1>12, <1>13, <1>14, <1>15, <1>16, <1>17, <1>18, <1>19, <1>20,
     <1>21, <1>22, <1>23, <1>24, <1>25, <1>26, <1>27, <1>28, <1>29,
     <1>30, <1>31, <1>32, <1>33, <1>34, <1>35
     DEF Next, UserNext, StopNext, WorkerNext

(* Once a stop has begun, a run runs again only by escaping. *)
LEMMA StoppedStep ==
    ASSUME TypeOK, OneStopEach, RunsOnTheirNetwork, FreshUnknown,
           StoppedStaysStopped, [Next]_vars
    PROVE  StoppedStaysStopped'
<1> SUFFICES ASSUME NEW q \in Runs, StopBegun(q)', RowRuns(NetOf[q], q)'
             PROVE  q \in escaped'
  BY DEF StoppedStaysStopped
<1>1. StopBegun(q)
  BY StopBegunStep
<1>2. escaped \subseteq escaped' /\ (q \in escaped \/ ~RowRuns(NetOf[q], q))
  BY <1>1, VenueStep DEF StoppedStaysStopped
<1>3. ~(user.pc = "save" /\ user.run = q)
  BY <1>1 DEF FreshUnknown, Fresh, Unknown, StopBegun, InStop, Held, StandingDown
<1> QED BY <1>2, <1>3, RearmStep

-----------------------------------------------------------------------------
(* Where a confirmation comes from: the step that cancelled and read back, or *)
(* an earlier one that the actor still carries.                               *)
ClosedBy(a) == stop[a].pc \in {"sweep", "end"} /\ stop[a].close
SweptBy(a) == stop[a].pc = "end" /\ stop[a].sweep
LEMMA StopOriginStep ==
    ASSUME TypeOK, [Next]_vars
    PROVE  \A c \in Actors :
             /\ ClosedBy(c)' => \/ /\ ClosedBy(c) /\ stop'[c].run = stop[c].run
                                   /\ stop'[c].net = stop[c].net
                                \/ <<stop'[c].run, stop'[c].net>> \notin orders'
             /\ SweptBy(c)' => \/ /\ SweptBy(c) /\ stop'[c].run = stop[c].run
                                  /\ stop'[c].net = stop[c].net
                               \/ <<stop'[c].run, stop'[c].net>> \notin rungs'
                               \/ stop'[c].run \in escaped'
<1> DEFINE StopOrigin ==
           \A c \in Actors :
             /\ ClosedBy(c)' => \/ /\ ClosedBy(c) /\ stop'[c].run = stop[c].run
                                   /\ stop'[c].net = stop[c].net
                                \/ <<stop'[c].run, stop'[c].net>> \notin orders'
             /\ SweptBy(c)' => \/ /\ SweptBy(c) /\ stop'[c].run = stop[c].run
                                  /\ stop'[c].net = stop[c].net
                               \/ <<stop'[c].run, stop'[c].net>> \notin rungs'
                               \/ stop'[c].run \in escaped'
<1> SUFFICES StopOrigin
  OBVIOUS
<1> USE DEF TypeOK, db, venue, ClosedBy, SweptBy
<1>1. ASSUME NEW r \in Runs, StartCreate(r) PROVE StopOrigin
  BY <1>1
     DEF StartCreate
<1>2. ASSUME NEW n \in Networks, StopRequest(n) PROVE StopOrigin
  BY <1>2
     DEF StopRequest
<1>3. CASE StartSave
  BY <1>3
     DEF StartSave
<1>4. CASE StartKick
  BY <1>4
     DEF StartKick
<1>5. CASE StartRollback
  BY <1>5
     DEF StartRollback
<1>6. CASE SwitchRequest
  BY <1>6
     DEF SwitchRequest
<1>7. CASE StopSave
  BY <1>7
     DEF StopSave, BeginStop, Actors
<1>8. CASE ListEntries
  BY <1>8
     DEF ListEntries
<1>9. CASE RetryEntry
  BY <1>9
     DEF RetryEntry
<1>10. CASE SweepEntry
  BY <1>10
     DEF SweepEntry
<1>11. CASE Fallback
  BY <1>11
     DEF Fallback
<1>12. CASE Flip
  BY <1>12
     DEF Flip
<1>13. CASE StopEndUser
  BY <1>13
     DEF StopEndUser, NoStop, Actors
<1>14. ASSUME NEW a \in Actors, StopRecord(a) PROVE StopOrigin
  <2>1. stop'[a].pc = "engine" /\ \A c \in Actors \ {a} : stop'[c] = stop[c]
    BY <1>14 DEF StopRecord, StopState
  <2> QED BY <2>1
<1>15. ASSUME NEW a \in Actors, StopEngine(a) PROVE StopOrigin
  <2>1. stop'[a].pc = "close" /\ \A c \in Actors \ {a} : stop'[c] = stop[c]
    BY <1>15 DEF StopEngine, StopState
  <2> QED BY <2>1
<1>16. ASSUME NEW a \in Actors, StopClose(a) PROVE StopOrigin
  <2>1. PICK ok \in BOOLEAN :
          /\ Cancel(CloseScope(a), ok)
          /\ stop' = [stop EXCEPT ![a] = [@ EXCEPT !.pc = "sweep", !.close = ok]]
    BY <1>16 DEF StopClose
  <2>2. /\ stop'[a].pc = "sweep" /\ stop'[a].close = ok
        /\ stop'[a].run = stop[a].run /\ stop'[a].net = stop[a].net
        /\ \A c \in Actors \ {a} : stop'[c] = stop[c]
    BY <2>1 DEF StopState
  <2>3. ok => <<stop[a].run, stop[a].net>> \notin orders'
    <3>1. CloseScope(a) \subseteq orders /\ (<<stop[a].run, stop[a].net>> \in orders => <<stop[a].run, stop[a].net>> \in CloseScope(a))
      BY DEF CloseScope, OnProduct
    <3>2. ok => orders' = orders \ CloseScope(a)
      BY <2>1, <3>1, CancelShrinks
    <3> QED BY <3>1, <3>2
  <2> QED BY <2>2, <2>3
<1>17. ASSUME NEW a \in Actors, StopSweep(a) PROVE StopOrigin
  <2>1. PICK ok \in BOOLEAN :
          /\ SweepTriggers(a, stop[a].run, stop[a].net, ok)
          /\ stop' = [stop EXCEPT ![a] = [@ EXCEPT !.pc = "end", !.sweep = ok]]
    BY <1>17 DEF StopSweep
  <2>2. /\ stop'[a].pc = "end" /\ stop'[a].sweep = ok
        /\ stop'[a].close = stop[a].close
        /\ stop'[a].run = stop[a].run /\ stop'[a].net = stop[a].net
        /\ \A c \in Actors \ {a} : stop'[c] = stop[c]
    BY <2>1 DEF StopState
  <2>3. ok => <<stop[a].run, stop[a].net>> \notin rungs' \/ stop[a].run \in escaped'
    <3>1. SweepTriggers(a, stop[a].run, stop[a].net, ok)
      BY <2>1
    <3>2. CASE ok = TRUE
      BY <3>1, <3>2 DEF SweepTriggers, SweepEscapes
    <3>3. CASE ok = FALSE
      BY <3>3
    <3> QED BY <3>2, <3>3
  <2>4. stop[a].pc = "sweep"
    BY <1>17 DEF StopSweep
  <2> QED BY <2>2, <2>3, <2>4
<1>18. ASSUME NEW n \in Networks, NEW safety \in BOOLEAN, JobStart(n, safety)
      PROVE StopOrigin
  BY <1>18
     DEF JobStart
<1>19. ASSUME NEW n \in Networks, CyclePaused(n) PROVE StopOrigin
  BY <1>19
     DEF CyclePaused
<1>20. ASSUME NEW n \in Networks, CheckNetwork(n) PROVE StopOrigin
  BY <1>20
     DEF CheckNetwork
<1>21. ASSUME NEW n \in Networks, StandDownRecord(n) PROVE StopOrigin
  BY <1>21
     DEF StandDownRecord
<1>22. ASSUME NEW n \in Networks, GetClient(n) PROVE StopOrigin
  BY <1>22
     DEF GetClient
<1>23. ASSUME NEW n \in Networks, EngineCycle(n) PROVE StopOrigin
  BY <1>23
     DEF EngineCycle
<1>24. ASSUME NEW n \in Networks, RailsPass(n) PROVE StopOrigin
  BY <1>24
     DEF RailsPass
<1>25. ASSUME NEW n \in Networks, RailTrips(n) PROVE StopOrigin
  BY <1>25
     DEF RailTrips, BeginStop, Actors
<1>26. ASSUME NEW n \in Networks, CycleSave(n) PROVE StopOrigin
  BY <1>26
     DEF CycleSave
<1>27. ASSUME NEW n \in Networks, CycleAborts(n) PROVE StopOrigin
  BY <1>27
     DEF CycleAborts, NoStop, Actors
<1>28. ASSUME NEW n \in Networks, HeartbeatLoad(n) PROVE StopOrigin
  BY <1>28
     DEF HeartbeatLoad
<1>29. ASSUME NEW n \in Networks, HeartbeatSave(n) PROVE StopOrigin
  BY <1>29
     DEF HeartbeatSave
<1>30. ASSUME NEW n \in Networks, StopEndWorker(n) PROVE StopOrigin
  BY <1>30
     DEF StopEndWorker, NoStop, Actors
<1>31. ASSUME NEW n \in Networks, BootSweep(n) PROVE StopOrigin
  BY <1>31
     DEF BootSweep
<1>32. ASSUME NEW n \in Networks, BootSave(n) PROVE StopOrigin
  BY <1>32
     DEF BootSave
<1>33. CASE Fill
  BY <1>33
     DEF Fill
<1>34. CASE Restart
  BY <1>34
     DEF Restart, NoStop
<1>35. CASE UNCHANGED vars
  BY <1>35
     DEF vars
<1> HIDE DEF TypeOK, db, venue, ClosedBy, SweptBy
<1> QED
  BY <1>1, <1>2, <1>3, <1>4, <1>5, <1>6, <1>7, <1>8, <1>9, <1>10, <1>11,
     <1>12, <1>13, <1>14, <1>15, <1>16, <1>17, <1>18, <1>19, <1>20,
     <1>21, <1>22, <1>23, <1>24, <1>25, <1>26, <1>27, <1>28, <1>29,
     <1>30, <1>31, <1>32, <1>33, <1>34, <1>35
     DEF Next, UserNext, StopNext, WorkerNext

EntryClosed == user.pc = "sweepEntry" /\ user.pending
LEMMA EntryOriginStep ==
    ASSUME TypeOK, [Next]_vars, EntryClosed'
    PROVE  \/ EntryClosed /\ user'.run = user.run /\ user'.net = user.net
           \/ <<user'.run, user'.net>> \notin orders'
<1> DEFINE EntryOrigin ==
             \/ EntryClosed /\ user'.run = user.run /\ user'.net = user.net
             \/ <<user'.run, user'.net>> \notin orders'
<1> SUFFICES EntryOrigin
  OBVIOUS
<1> USE DEF TypeOK, db, venue, EntryClosed
<1>1. ASSUME NEW r \in Runs, StartCreate(r) PROVE EntryOrigin
  BY <1>1
     DEF StartCreate, IdleUser, UserState
<1>2. ASSUME NEW n \in Networks, StopRequest(n) PROVE EntryOrigin
  BY <1>2
     DEF StopRequest, IdleUser, UserState
<1>3. CASE StartSave
  BY <1>3
     DEF StartSave, IdleUser, UserState
<1>4. CASE StartKick
  BY <1>4
     DEF StartKick, IdleUser, UserState
<1>5. CASE StartRollback
  BY <1>5
     DEF StartRollback, IdleUser, UserState
<1>6. CASE SwitchRequest
  BY <1>6
     DEF SwitchRequest, IdleUser, UserState
<1>7. CASE StopSave
  BY <1>7
     DEF StopSave, IdleUser, UserState
<1>8. CASE ListEntries
  BY <1>8
     DEF ListEntries, IdleUser, UserState
<1>9. CASE RetryEntry
  <2>1. PICK r \in user.todo, ok \in BOOLEAN :
          /\ Cancel(OnProduct(user.net, r), ok)
          /\ user' = [user EXCEPT !.pc = "sweepEntry", !.run = r,
                                  !.todo = @ \ {r}, !.pending = ok]
    BY <1>9 DEF RetryEntry
  <2>2. user'.pending = ok /\ user'.run = r /\ user'.net = user.net
    BY <2>1 DEF UserState
  <2>3. ok => <<r, user.net>> \notin orders'
    <3>1. OnProduct(user.net, r) \subseteq orders /\ (<<r, user.net>> \in orders => <<r, user.net>> \in OnProduct(user.net, r))
      BY DEF OnProduct
    <3>2. ok => orders' = orders \ OnProduct(user.net, r)
      BY <2>1, <3>1, CancelShrinks
    <3> QED BY <3>1, <3>2
  <2> QED BY <2>2, <2>3
<1>10. CASE SweepEntry
  BY <1>10
     DEF SweepEntry, IdleUser, UserState
<1>11. CASE Fallback
  BY <1>11
     DEF Fallback, IdleUser, UserState
<1>12. CASE Flip
  BY <1>12
     DEF Flip, IdleUser, UserState
<1>13. CASE StopEndUser
  BY <1>13
     DEF StopEndUser, IdleUser, UserState
<1>14. ASSUME NEW a \in Actors, StopRecord(a) PROVE EntryOrigin
  BY <1>14, ByActorSame DEF StopRecord, SameUser
<1>15. ASSUME NEW a \in Actors, StopEngine(a) PROVE EntryOrigin
  BY <1>15, ByActorSame DEF StopEngine, SameUser
<1>16. ASSUME NEW a \in Actors, StopClose(a) PROVE EntryOrigin
  BY <1>16, ByActorSame DEF StopClose, SameUser
<1>17. ASSUME NEW a \in Actors, StopSweep(a) PROVE EntryOrigin
  BY <1>17, ByActorSame DEF StopSweep, SameUser
<1>18. ASSUME NEW n \in Networks, NEW safety \in BOOLEAN, JobStart(n, safety)
      PROVE EntryOrigin
  BY <1>18, DisturbSame DEF JobStart, SameUser
<1>19. ASSUME NEW n \in Networks, CyclePaused(n) PROVE EntryOrigin
  BY <1>19, DisturbSame DEF CyclePaused, SameUser
<1>20. ASSUME NEW n \in Networks, CheckNetwork(n) PROVE EntryOrigin
  BY <1>20, DisturbSame DEF CheckNetwork, SameUser
<1>21. ASSUME NEW n \in Networks, StandDownRecord(n) PROVE EntryOrigin
  BY <1>21, DisturbSame DEF StandDownRecord, SameUser
<1>22. ASSUME NEW n \in Networks, GetClient(n) PROVE EntryOrigin
  BY <1>22, DisturbSame DEF GetClient, SameUser
<1>23. ASSUME NEW n \in Networks, EngineCycle(n) PROVE EntryOrigin
  BY <1>23, DisturbSame DEF EngineCycle, SameUser
<1>24. ASSUME NEW n \in Networks, RailsPass(n) PROVE EntryOrigin
  BY <1>24, DisturbSame DEF RailsPass, SameUser
<1>25. ASSUME NEW n \in Networks, RailTrips(n) PROVE EntryOrigin
  BY <1>25, DisturbSame DEF RailTrips, SameUser
<1>26. ASSUME NEW n \in Networks, CycleSave(n) PROVE EntryOrigin
  BY <1>26, DisturbSame DEF CycleSave, SameUser
<1>27. ASSUME NEW n \in Networks, CycleAborts(n) PROVE EntryOrigin
  BY <1>27, DisturbSame DEF CycleAborts, SameUser
<1>28. ASSUME NEW n \in Networks, HeartbeatLoad(n) PROVE EntryOrigin
  BY <1>28, DisturbSame DEF HeartbeatLoad, SameUser
<1>29. ASSUME NEW n \in Networks, HeartbeatSave(n) PROVE EntryOrigin
  BY <1>29, DisturbSame DEF HeartbeatSave, SameUser
<1>30. ASSUME NEW n \in Networks, StopEndWorker(n) PROVE EntryOrigin
  BY <1>30, DisturbSame DEF StopEndWorker, SameUser
<1>31. ASSUME NEW n \in Networks, BootSweep(n) PROVE EntryOrigin
  BY <1>31
     DEF BootSweep
<1>32. ASSUME NEW n \in Networks, BootSave(n) PROVE EntryOrigin
  BY <1>32
     DEF BootSave
<1>33. CASE Fill
  BY <1>33
     DEF Fill
<1>34. CASE Restart
  BY <1>34
     DEF Restart, IdleUser, UserState
<1>35. CASE UNCHANGED vars
  BY <1>35
     DEF vars
<1> HIDE DEF TypeOK, db, venue, EntryClosed
<1> QED
  BY <1>1, <1>2, <1>3, <1>4, <1>5, <1>6, <1>7, <1>8, <1>9, <1>10, <1>11,
     <1>12, <1>13, <1>14, <1>15, <1>16, <1>17, <1>18, <1>19, <1>20,
     <1>21, <1>22, <1>23, <1>24, <1>25, <1>26, <1>27, <1>28, <1>29,
     <1>30, <1>31, <1>32, <1>33, <1>34, <1>35
     DEF Next, UserNext, StopNext, WorkerNext

BootClosed(n) == boot[n].pc = "swept" /\ boot[n].ok
LEMMA BootOriginStep ==
    ASSUME TypeOK, [Next]_vars
    PROVE  \A m \in Networks : BootClosed(m)' =>
              \/ BootClosed(m) /\ boot'[m].run = boot[m].run
              \/ <<boot'[m].run, m>> \notin orders' \cup rungs'
              \/ boot'[m].run \in escaped'
<1> DEFINE BootOrigin ==
           \A m \in Networks : BootClosed(m)' =>
              \/ BootClosed(m) /\ boot'[m].run = boot[m].run
              \/ <<boot'[m].run, m>> \notin orders' \cup rungs'
              \/ boot'[m].run \in escaped'
<1> SUFFICES BootOrigin
  OBVIOUS
<1> USE DEF TypeOK, db, venue, BootClosed
<1>1. ASSUME NEW r \in Runs, StartCreate(r) PROVE BootOrigin
  BY <1>1
     DEF StartCreate
<1>2. ASSUME NEW n \in Networks, StopRequest(n) PROVE BootOrigin
  BY <1>2
     DEF StopRequest
<1>3. CASE StartSave
  BY <1>3
     DEF StartSave
<1>4. CASE StartKick
  BY <1>4
     DEF StartKick
<1>5. CASE StartRollback
  BY <1>5
     DEF StartRollback
<1>6. CASE SwitchRequest
  BY <1>6
     DEF SwitchRequest
<1>7. CASE StopSave
  BY <1>7
     DEF StopSave
<1>8. CASE ListEntries
  BY <1>8
     DEF ListEntries
<1>9. CASE RetryEntry
  BY <1>9
     DEF RetryEntry
<1>10. CASE SweepEntry
  BY <1>10
     DEF SweepEntry
<1>11. CASE Fallback
  BY <1>11
     DEF Fallback
<1>12. CASE Flip
  BY <1>12
     DEF Flip
<1>13. CASE StopEndUser
  BY <1>13
     DEF StopEndUser
<1>14. ASSUME NEW a \in Actors, StopRecord(a) PROVE BootOrigin
  BY <1>14
     DEF StopRecord
<1>15. ASSUME NEW a \in Actors, StopEngine(a) PROVE BootOrigin
  BY <1>15
     DEF StopEngine
<1>16. ASSUME NEW a \in Actors, StopClose(a) PROVE BootOrigin
  BY <1>16
     DEF StopClose
<1>17. ASSUME NEW a \in Actors, StopSweep(a) PROVE BootOrigin
  BY <1>17
     DEF StopSweep
<1>18. ASSUME NEW n \in Networks, NEW safety \in BOOLEAN, JobStart(n, safety)
      PROVE BootOrigin
  BY <1>18
     DEF JobStart
<1>19. ASSUME NEW n \in Networks, CyclePaused(n) PROVE BootOrigin
  BY <1>19
     DEF CyclePaused
<1>20. ASSUME NEW n \in Networks, CheckNetwork(n) PROVE BootOrigin
  BY <1>20
     DEF CheckNetwork
<1>21. ASSUME NEW n \in Networks, StandDownRecord(n) PROVE BootOrigin
  BY <1>21
     DEF StandDownRecord
<1>22. ASSUME NEW n \in Networks, GetClient(n) PROVE BootOrigin
  BY <1>22
     DEF GetClient
<1>23. ASSUME NEW n \in Networks, EngineCycle(n) PROVE BootOrigin
  BY <1>23
     DEF EngineCycle
<1>24. ASSUME NEW n \in Networks, RailsPass(n) PROVE BootOrigin
  BY <1>24
     DEF RailsPass
<1>25. ASSUME NEW n \in Networks, RailTrips(n) PROVE BootOrigin
  BY <1>25
     DEF RailTrips
<1>26. ASSUME NEW n \in Networks, CycleSave(n) PROVE BootOrigin
  BY <1>26
     DEF CycleSave
<1>27. ASSUME NEW n \in Networks, CycleAborts(n) PROVE BootOrigin
  BY <1>27
     DEF CycleAborts
<1>28. ASSUME NEW n \in Networks, HeartbeatLoad(n) PROVE BootOrigin
  BY <1>28
     DEF HeartbeatLoad
<1>29. ASSUME NEW n \in Networks, HeartbeatSave(n) PROVE BootOrigin
  BY <1>29
     DEF HeartbeatSave
<1>30. ASSUME NEW n \in Networks, StopEndWorker(n) PROVE BootOrigin
  BY <1>30
     DEF StopEndWorker
<1>31. ASSUME NEW n \in Networks, BootSweep(n) PROVE BootOrigin
  <2>1. CASE boot' = [boot EXCEPT ![n] = BootDone]
    BY <2>1 DEF BootDone
  <2>2. ASSUME NEW cancelled \in BOOLEAN, NEW sweep \in {"ok", "failed", "raised"},
               Cancel(OnProduct(n, boot[n].run), cancelled),
               Disarm(rungs \cap {<<boot[n].run, n>>}, sweep = "ok"),
               escaped' = escaped \cup {q \in {boot[n].run} :
                    sweep = "raised" /\ cancelled /\ <<boot[n].run, n>> \in rungs'},
               boot' = [boot EXCEPT ![n] = [@ EXCEPT !.pc = "swept",
                                       !.ok = cancelled /\ sweep # "failed"]]
        PROVE  BootOrigin
    <3>1. /\ boot'[n].ok = (cancelled /\ sweep # "failed") /\ boot'[n].run = boot[n].run
          /\ \A m \in Networks \ {n} : boot'[m] = boot[m]
      BY <2>2 DEF BootState
    <3>2. cancelled => <<boot[n].run, n>> \notin orders'
      <4>1. OnProduct(n, boot[n].run) \subseteq orders /\ (<<boot[n].run, n>> \in orders => <<boot[n].run, n>> \in OnProduct(n, boot[n].run))
        BY DEF OnProduct
      <4>2. cancelled => orders' = orders \ OnProduct(n, boot[n].run)
        BY <2>2, <4>1, CancelShrinks
      <4> QED BY <4>1, <4>2
    <3>3. sweep = "ok" => <<boot[n].run, n>> \notin rungs'
      BY <2>2 DEF Disarm
    <3>4. sweep = "raised" /\ cancelled =>
            <<boot[n].run, n>> \notin rungs' \/ boot[n].run \in escaped'
      BY <2>2
    <3>5. boot'[n].ok => \/ <<boot[n].run, n>> \notin orders' \cup rungs'
                         \/ boot[n].run \in escaped'
      BY <2>2, <3>1, <3>2, <3>3, <3>4
    <3> QED BY <3>1, <3>5
  <2> QED BY <1>31, <2>1, <2>2 DEF BootSweep
<1>32. ASSUME NEW n \in Networks, BootSave(n) PROVE BootOrigin
  BY <1>32
     DEF BootSave, BootDone
<1>33. CASE Fill
  BY <1>33
     DEF Fill
<1>34. CASE Restart
  BY <1>34
     DEF Restart, BootDone
<1>35. CASE UNCHANGED vars
  BY <1>35
     DEF vars
<1> HIDE DEF TypeOK, db, venue, BootClosed
<1> QED
  BY <1>1, <1>2, <1>3, <1>4, <1>5, <1>6, <1>7, <1>8, <1>9, <1>10, <1>11,
     <1>12, <1>13, <1>14, <1>15, <1>16, <1>17, <1>18, <1>19, <1>20,
     <1>21, <1>22, <1>23, <1>24, <1>25, <1>26, <1>27, <1>28, <1>29,
     <1>30, <1>31, <1>32, <1>33, <1>34, <1>35
     DEF Next, UserNext, StopNext, WorkerNext

(* What was clear stays clear for a run whose stop has begun: a cycle that    *)
(* places for it finds its row not running, or has let it escape.             *)
LEMMA ClearKept ==
    ASSUME TypeOK, RunsOnTheirNetwork, StoppedStaysStopped, [Next]_vars,
           NEW q \in Runs, StopBegun(q), NEW m \in Networks
    PROVE  /\ <<q, m>> \notin orders \/ q \in escaped =>
                <<q, m>> \notin orders' \/ q \in escaped'
           /\ <<q, m>> \notin rungs \/ q \in escaped =>
                <<q, m>> \notin rungs' \/ q \in escaped'
<1>1. escaped \subseteq escaped'
  BY VenueStep
<1>2. CASE orders' \subseteq orders /\ rungs' \subseteq rungs
  BY <1>1, <1>2
<1>3. CASE Placing
  <2>1. PICK r \in Runs, c \in Networks : Place(r, c)
    BY <1>3 DEF Placing
  <2>2. /\ orders' \subseteq orders \cup {<<r, c>>} /\ rungs' \subseteq rungs \cup {<<r, c>>}
        /\ \/ orders' = orders /\ rungs' = rungs
           \/ r \in escaped'
           \/ c = NetOf[r] /\ RowRuns(c, r)
    BY <2>1, PlaceAdds
  <2>3. q \in escaped \/ ~RowRuns(NetOf[q], q)
    BY DEF StoppedStaysStopped
  <2> QED BY <1>1, <2>2, <2>3
<1> QED BY <1>2, <1>3, VenueStep

LEMMA BootClearKept ==
    ASSUME TypeOK, RunsOnTheirNetwork, [Next]_vars,
           NEW m \in Networks, boot[m].pc = "swept",
           <<boot[m].run, m>> \notin Resting \/ boot[m].run \in escaped
    PROVE  <<boot[m].run, m>> \notin Resting' \/ boot[m].run \in escaped'
<1>1. escaped \subseteq escaped'
  BY VenueStep
<1>2. CASE orders' \subseteq orders /\ rungs' \subseteq rungs
  BY <1>1, <1>2 DEF Resting
<1>3. CASE Placing
  <2>1. PICK r \in Runs, c \in Networks : Place(r, c)
    BY <1>3 DEF Placing
  <2>2. /\ orders' \subseteq orders \cup {<<r, c>>} /\ rungs' \subseteq rungs \cup {<<r, c>>}
        /\ \/ orders' = orders /\ rungs' = rungs
           \/ r \in escaped'
           \/ ~(boot[c].pc = "swept" /\ boot[c].run = r)
    BY <2>1, PlaceAdds
  <2> QED BY <1>1, <2>2 DEF Resting
<1> QED BY <1>2, <1>3, VenueStep

(* A confirmed cancel or sweep stays true while its stop relies on it. *)
LEMMA ConfirmedStep ==
    ASSUME TypeOK, RunsOnTheirNetwork, StoppedStaysStopped, ConfirmedStaysClear,
           [Next]_vars, TypeOK', RunsOnTheirNetwork'
    PROVE  ConfirmedStaysClear'
<1>1. ASSUME NEW c \in Actors, ClosedBy(c)'
      PROVE  <<stop'[c].run, stop'[c].net>> \notin orders' \/ stop'[c].run \in escaped'
  <2>1. CASE ClosedBy(c) /\ stop'[c].run = stop[c].run /\ stop'[c].net = stop[c].net
    <3>1. stop[c].run \in Runs /\ stop[c].net \in Networks
      BY <2>1 DEF ClosedBy, RunsOnTheirNetwork, On
    <3>2. StopBegun(stop[c].run)
      BY <2>1 DEF ClosedBy, StopBegun, InStop, Held
    <3>3. <<stop[c].run, stop[c].net>> \notin orders \/ stop[c].run \in escaped
      BY <2>1 DEF ClosedBy, ConfirmedStaysClear
    <3> QED BY <2>1, <3>1, <3>2, <3>3, ClearKept
  <2> QED BY <1>1, <2>1, StopOriginStep
<1>2. ASSUME NEW c \in Actors, SweptBy(c)'
      PROVE  <<stop'[c].run, stop'[c].net>> \notin rungs' \/ stop'[c].run \in escaped'
  <2>1. CASE SweptBy(c) /\ stop'[c].run = stop[c].run /\ stop'[c].net = stop[c].net
    <3>1. stop[c].run \in Runs /\ stop[c].net \in Networks
      BY <2>1 DEF SweptBy, RunsOnTheirNetwork, On
    <3>2. StopBegun(stop[c].run)
      BY <2>1 DEF SweptBy, StopBegun, InStop, Held
    <3>3. <<stop[c].run, stop[c].net>> \notin rungs \/ stop[c].run \in escaped
      BY <2>1 DEF SweptBy, ConfirmedStaysClear
    <3> QED BY <2>1, <3>1, <3>2, <3>3, ClearKept
  <2> QED BY <1>2, <2>1, StopOriginStep
<1>3. ASSUME EntryClosed'
      PROVE  <<user'.run, user'.net>> \notin orders' \/ user'.run \in escaped'
  <2>1. CASE EntryClosed /\ user'.run = user.run /\ user'.net = user.net
    <3>1. user.run \in Runs /\ user.net \in Networks
      BY <2>1 DEF EntryClosed, RunsOnTheirNetwork, On
    <3>2. StopBegun(user.run)
      BY <2>1 DEF EntryClosed, StopBegun
    <3>3. <<user.run, user.net>> \notin orders \/ user.run \in escaped
      BY <2>1 DEF EntryClosed, ConfirmedStaysClear
    <3> QED BY <2>1, <3>1, <3>2, <3>3, ClearKept
  <2> QED BY <1>3, <2>1, EntryOriginStep
<1>4. ASSUME NEW m \in Networks, BootClosed(m)'
      PROVE  <<boot'[m].run, m>> \notin Resting' \/ boot'[m].run \in escaped'
  <2>1. CASE BootClosed(m) /\ boot'[m].run = boot[m].run
    BY <2>1, BootClearKept DEF BootClosed, ConfirmedStaysClear
  <2> QED BY <1>4, <2>1, BootOriginStep DEF Resting
<1> QED BY <1>1, <1>2, <1>3, <1>4
        DEF ConfirmedStaysClear, ClosedBy, SweptBy, EntryClosed, BootClosed

-----------------------------------------------------------------------------
(* A run that rests keeps an owner: the row, a record or a stop in progress.  *)
Owned(q) == (\E m \in Networks : RowRuns(m, q)) \/ q \in records \/ InStop(q)
LEMMA OwnedStep ==
    ASSUME TypeOK, OneStopEach, RunsOnTheirNetwork, FreshUnknown,
           ConfirmedStaysClear, NoStray', [Next]_vars, NEW q \in Runs,
           Rests(q), Rests(q)', q \notin escaped', Owned(q)
    PROVE  Owned(q)'
<1> DEFINE Kept == Owned(q)'
<1> SUFFICES Kept
  OBVIOUS
<1>a. <<q, NetOf[q]>> \in orders' \cup rungs'
  BY DEF Rests, Resting, NoStray
<1>b. user.net \in Networks
  BY DEF TypeOK, UserState
<1>c. q \notin escaped
  BY VenueStep
<1> USE DEF TypeOK, db, venue, RowRuns, Owned, InStop, Held, StandingDown
<1>1. ASSUME NEW r \in Runs, StartCreate(r) PROVE Kept
  BY <1>1
     DEF StartCreate
<1>2. ASSUME NEW n \in Networks, StopRequest(n) PROVE Kept
  BY <1>2
     DEF StopRequest
<1>3. CASE StartSave
  <2>1. q \notin Displaced(user.net, user.run) /\ UNCHANGED <<records, stop, worker>>
    BY <1>3 DEF StartSave
  <2>2. \A m \in Networks \ {user.net} : row'[m] = row[m]
    BY <1>3 DEF StartSave, SaveRow
  <2>3. q # user.run
    BY <1>3 DEF StartSave, FreshUnknown, Fresh, Unknown
  <2>4. \A m \in Networks : RowRuns(m, q) => m # user.net
    BY <2>1, <2>3, <1>b DEF Displaced
  <2> QED BY <2>1, <2>2, <2>4
<1>4. CASE StartKick
  BY <1>4
     DEF StartKick
<1>5. CASE StartRollback
  <2>1. q \notin Displaced(user.net, user.run) /\ UNCHANGED <<records, stop, worker>>
    BY <1>5 DEF StartRollback
  <2>2. \A m \in Networks \ {user.net} : row'[m] = row[m]
    BY <1>5 DEF StartRollback, SaveRow
  <2>3. q # user.run
    BY <1>5 DEF StartRollback, Rests, Resting
  <2>4. \A m \in Networks : RowRuns(m, q) => m # user.net
    BY <2>1, <2>3, <1>b DEF Displaced
  <2> QED BY <2>1, <2>2, <2>4
<1>6. CASE SwitchRequest
  BY <1>6
     DEF SwitchRequest
<1>7. CASE StopSave
  <2>1. q \notin Displaced(user.net, user.run) /\ UNCHANGED <<records, worker>>
    BY <1>7 DEF StopSave
  <2>2. \A m \in Networks \ {user.net} : row'[m] = row[m]
    BY <1>7 DEF StopSave, SaveRow
  <2>3. /\ stop'[User].pc = "record" /\ stop'[User].run = user.run
        /\ \A c \in Actors \ {User} : stop'[c] = stop[c]
    BY <1>7 DEF StopSave, BeginStop, Actors
  <2>4. stop[User].pc = "none" /\ User \in Actors
    BY <1>7 DEF StopSave, OneStopEach, Actors
  <2>5. CASE q = user.run
    BY <2>3, <2>4, <2>5
  <2>6. CASE q # user.run
    <3>1. \A m \in Networks : RowRuns(m, q) => m # user.net
      BY <2>1, <2>6, <1>b DEF Displaced
    <3> QED BY <2>1, <2>2, <2>3, <2>4, <3>1
  <2> QED BY <2>5, <2>6
<1>8. CASE ListEntries
  BY <1>8
     DEF ListEntries
<1>9. CASE RetryEntry
  BY <1>9
     DEF RetryEntry
<1>10. CASE SweepEntry
  <2>1. UNCHANGED <<row, stop, worker>>
    BY <1>10 DEF SweepEntry
  <2>2. CASE records' = records
    BY <2>1, <2>2
  <2>3. CASE records' # records
    <3>1. /\ user.pending /\ SweepTriggers(User, user.run, user.net, TRUE)
          /\ records' = records \ {user.run} /\ UNCHANGED orders
      BY <1>10, <2>3 DEF SweepEntry
    <3>2. <<user.run, user.net>> \notin rungs' \/ user.run \in escaped'
      BY <3>1 DEF SweepTriggers, SweepEscapes
    <3>3. <<user.run, user.net>> \notin orders' \/ user.run \in escaped'
      BY <1>10, <3>1, VenueStep DEF SweepEntry, ConfirmedStaysClear
    <3>4. On(user.run, user.net)
      BY <1>10 DEF SweepEntry, RunsOnTheirNetwork
    <3>5. q # user.run
      BY <3>2, <3>3, <3>4, <1>a DEF On
    <3> QED BY <2>1, <3>1, <3>5
  <2> QED BY <2>2, <2>3
<1>11. CASE Fallback
  BY <1>11
     DEF Fallback
<1>12. CASE Flip
  BY <1>12
     DEF Flip
<1>13. CASE StopEndUser
  <2>1. UNCHANGED <<row, worker, orders, rungs>>
    BY <1>13 DEF StopEndUser
  <2>2. stop'[User].pc = "none" /\ \A c \in Actors \ {User} : stop'[c] = stop[c]
    BY <1>13 DEF StopEndUser, NoStop, Actors
  <2>3. User \in Actors /\ On(stop[User].run, stop[User].net) /\ stop[User].pc = "end"
    BY <1>13 DEF StopEndUser, RunsOnTheirNetwork, Actors
  <2>4. PICK written \in BOOLEAN : EndRecords(stop[User].run, Confirmed(User), written)
    BY <1>13 DEF StopEndUser
  <2>5. CASE q = stop[User].run
    <3>1. ~Confirmed(User)
      BY <2>1, <2>3, <2>5, <1>a, <1>c DEF Confirmed, ConfirmedStaysClear, On
    <3>2. q \in records'
      BY <2>4, <2>5, <3>1 DEF EndRecords
    <3> QED BY <3>2
  <2>6. CASE q # stop[User].run
    <3>1. q \in records => q \in records'
      BY <2>4, <2>6 DEF EndRecords
    <3> QED BY <2>1, <2>2, <2>3, <2>6, <3>1
  <2> QED BY <2>5, <2>6
<1>14. ASSUME NEW a \in Actors, StopRecord(a) PROVE Kept
  <2>1. /\ stop'[a].pc # "none" /\ stop'[a].run = stop[a].run
        /\ \A c \in Actors \ {a} : stop'[c] = stop[c]
    BY <1>14 DEF StopRecord, StopState
  <2>2. UNCHANGED <<row, worker>> /\ records \subseteq records'
    BY <1>14 DEF StopRecord
  <2> QED BY <2>1, <2>2
<1>15. ASSUME NEW a \in Actors, StopEngine(a) PROVE Kept
  <2>1. /\ stop'[a].pc # "none" /\ stop'[a].run = stop[a].run
        /\ \A c \in Actors \ {a} : stop'[c] = stop[c]
    BY <1>15 DEF StopEngine, StopState
  <2>2. UNCHANGED <<row, worker>> /\ records \subseteq records'
    BY <1>15 DEF StopEngine
  <2> QED BY <2>1, <2>2
<1>16. ASSUME NEW a \in Actors, StopClose(a) PROVE Kept
  <2>1. /\ stop'[a].pc # "none" /\ stop'[a].run = stop[a].run
        /\ \A c \in Actors \ {a} : stop'[c] = stop[c]
    BY <1>16 DEF StopClose, StopState
  <2>2. UNCHANGED <<row, worker>> /\ records \subseteq records'
    BY <1>16 DEF StopClose
  <2> QED BY <2>1, <2>2
<1>17. ASSUME NEW a \in Actors, StopSweep(a) PROVE Kept
  <2>1. /\ stop'[a].pc # "none" /\ stop'[a].run = stop[a].run
        /\ \A c \in Actors \ {a} : stop'[c] = stop[c]
    BY <1>17 DEF StopSweep, StopState
  <2>2. UNCHANGED <<row, worker>> /\ records \subseteq records'
    BY <1>17 DEF StopSweep
  <2> QED BY <2>1, <2>2
<1>18. ASSUME NEW n \in Networks, NEW safety \in BOOLEAN, JobStart(n, safety)
      PROVE Kept
  <2>1. worker[n].pc # "standDown" /\ \A m \in Networks \ {n} : worker'[m] = worker[m]
    BY <1>18 DEF JobStart
  <2>2. UNCHANGED <<row, records, stop>>
    BY <1>18 DEF JobStart
  <2> QED BY <2>1, <2>2
<1>19. ASSUME NEW n \in Networks, CyclePaused(n) PROVE Kept
  <2>1. worker[n].pc # "standDown" /\ \A m \in Networks \ {n} : worker'[m] = worker[m]
    BY <1>19 DEF CyclePaused
  <2>2. UNCHANGED <<row, records, stop>>
    BY <1>19 DEF CyclePaused
  <2> QED BY <2>1, <2>2
<1>20. ASSUME NEW n \in Networks, CheckNetwork(n) PROVE Kept
  <2>1. UNCHANGED <<records, stop>> /\ worker[n].pc = "loaded"
    BY <1>20 DEF CheckNetwork
  <2>2. \A m \in Networks \ {n} : worker'[m] = worker[m] /\ row'[m] = row[m]
    BY <1>20 DEF CheckNetwork, SaveRow
  <2>3. CASE active = n
    BY <1>20, <2>1, <2>2, <2>3 DEF CheckNetwork
  <2>4. CASE active # n
    <3>1. worker'[n].pc = "standDown" /\ worker'[n].run = worker[n].run
      <4>1. worker' = [worker EXCEPT ![n] = [@ EXCEPT !.pc = "standDown"]]
        BY <1>20, <2>4 DEF CheckNetwork
      <4> QED BY <4>1, WorkerMoves
    <3>2. q \notin Displaced(n, worker[n].run)
      <4>1. escaped' = escaped \cup Displaced(n, worker[n].run)
        BY <1>20, <2>4 DEF CheckNetwork
      <4> QED BY <4>1
    <3>3. RowRuns(n, q) => StandingDown(n, q)'
      BY <3>1, <3>2 DEF Displaced
    <3> QED BY <2>1, <2>2, <3>3
  <2> QED BY <2>3, <2>4
<1>21. ASSUME NEW n \in Networks, StandDownRecord(n) PROVE Kept
  <2>1. UNCHANGED <<row, stop>> /\ \A m \in Networks \ {n} : worker'[m] = worker[m]
    BY <1>21 DEF StandDownRecord
  <2>2. PICK written \in BOOLEAN : EndRecords(worker[n].run, FALSE, written)
    BY <1>21 DEF StandDownRecord
  <2>3. records \subseteq records' /\ (q = worker[n].run => q \in records')
    BY <2>2 DEF EndRecords
  <2> QED BY <2>1, <2>3
<1>22. ASSUME NEW n \in Networks, GetClient(n) PROVE Kept
  <2>1. worker[n].pc # "standDown" /\ \A m \in Networks \ {n} : worker'[m] = worker[m]
    BY <1>22 DEF GetClient
  <2>2. UNCHANGED <<row, records, stop>>
    BY <1>22 DEF GetClient
  <2> QED BY <2>1, <2>2
<1>23. ASSUME NEW n \in Networks, EngineCycle(n) PROVE Kept
  <2>1. worker[n].pc # "standDown" /\ \A m \in Networks \ {n} : worker'[m] = worker[m]
    BY <1>23 DEF EngineCycle
  <2>2. UNCHANGED <<row, records, stop>>
    BY <1>23 DEF EngineCycle
  <2> QED BY <2>1, <2>2
<1>24. ASSUME NEW n \in Networks, RailsPass(n) PROVE Kept
  <2>1. worker[n].pc # "standDown" /\ \A m \in Networks \ {n} : worker'[m] = worker[m]
    BY <1>24 DEF RailsPass
  <2>2. UNCHANGED <<row, records, stop>>
    BY <1>24 DEF RailsPass
  <2> QED BY <2>1, <2>2
<1>25. ASSUME NEW n \in Networks, RailTrips(n) PROVE Kept
  <2>1. UNCHANGED records /\ worker[n].pc = "rails" /\ n \in Actors
    BY <1>25 DEF RailTrips, Actors
  <2>2. \A m \in Networks \ {n} : worker'[m] = worker[m] /\ row'[m] = row[m]
    BY <1>25 DEF RailTrips, SaveRow
  <2>3. /\ stop'[n].pc = "record" /\ stop'[n].run = worker[n].run
        /\ \A c \in Actors \ {n} : stop'[c] = stop[c]
    BY <1>25, <2>1 DEF RailTrips, BeginStop
  <2>4. stop[n].pc = "none"
    BY <2>1 DEF OneStopEach
  <2>5. q \notin Displaced(n, worker[n].run)
    BY <1>25 DEF RailTrips
  <2>6. RowRuns(n, q) => Held(n, q)'
    BY <2>3, <2>5 DEF Displaced
  <2> QED BY <2>1, <2>2, <2>3, <2>4, <2>6
<1>26. ASSUME NEW n \in Networks, CycleSave(n) PROVE Kept
  <2>1. worker[n].pc # "standDown" /\ \A m \in Networks \ {n} : worker'[m] = worker[m]
    BY <1>26 DEF CycleSave
  <2>2. UNCHANGED <<records, stop>>
    BY <1>26 DEF CycleSave
  <2>3. /\ row'[n].run = worker[n].run /\ row'[n].running
        /\ \A m \in Networks \ {n} : row'[m] = row[m]
    BY <1>26 DEF CycleSave, SaveRow
  <2>4. q \notin Displaced(n, worker[n].run)
    BY <1>26 DEF CycleSave
  <2>5. RowRuns(n, q) => RowRuns(n, q)'
    BY <2>3, <2>4 DEF Displaced
  <2> QED BY <2>1, <2>2, <2>3, <2>5
<1>27. ASSUME NEW n \in Networks, CycleAborts(n) PROVE Kept
  <2>1. UNCHANGED <<row, records>> /\ \A m \in Networks \ {n} : worker'[m] = worker[m]
    BY <1>27 DEF CycleAborts
  <2>2. \A c \in Actors \ {n} : stop'[c] = stop[c]
    BY <1>27 DEF CycleAborts
  <2>3. Held(n, q) \/ StandingDown(n, q) => q \in records
    BY <1>27 DEF CycleAborts
  <2> QED BY <2>1, <2>2, <2>3
<1>28. ASSUME NEW n \in Networks, HeartbeatLoad(n) PROVE Kept
  <2>1. worker[n].pc # "standDown" /\ \A m \in Networks \ {n} : worker'[m] = worker[m]
    BY <1>28 DEF HeartbeatLoad
  <2>2. UNCHANGED <<row, records, stop>>
    BY <1>28 DEF HeartbeatLoad
  <2> QED BY <2>1, <2>2
<1>29. ASSUME NEW n \in Networks, HeartbeatSave(n) PROVE Kept
  <2>1. worker[n].pc # "standDown" /\ \A m \in Networks \ {n} : worker'[m] = worker[m]
    BY <1>29 DEF HeartbeatSave
  <2>2. UNCHANGED <<records, stop>>
    BY <1>29 DEF HeartbeatSave
  <2>3. /\ row'[n].run = worker[n].copy.run /\ row'[n].running = worker[n].copy.running
        /\ \A m \in Networks \ {n} : row'[m] = row[m]
    BY <1>29 DEF HeartbeatSave, SaveRow
  <2>4. q \notin Displaced(n, IF worker[n].copy.running THEN worker[n].copy.run ELSE NoRun)
    BY <1>29 DEF HeartbeatSave
  <2>5. RowRuns(n, q) => RowRuns(n, q)'
    BY <2>3, <2>4 DEF Displaced
  <2> QED BY <2>1, <2>2, <2>3, <2>5
<1>30. ASSUME NEW n \in Networks, StopEndWorker(n) PROVE Kept
  <2>1. UNCHANGED <<row, orders, rungs>>
    BY <1>30 DEF StopEndWorker
  <2>9. \A m \in Networks : StandingDown(m, q) => StandingDown(m, q)'
    <3>1. worker[n].pc = "stopping"
      BY <1>30 DEF StopEndWorker, OneStopEach, Actors
    <3>2. \A m \in Networks \ {n} : worker'[m] = worker[m]
      BY <1>30 DEF StopEndWorker
    <3> QED BY <3>1, <3>2
  <2>2. stop'[n].pc = "none" /\ \A c \in Actors \ {n} : stop'[c] = stop[c]
    BY <1>30 DEF StopEndWorker, NoStop, Actors
  <2>3. n \in Actors /\ On(stop[n].run, stop[n].net) /\ stop[n].pc = "end"
    BY <1>30 DEF StopEndWorker, RunsOnTheirNetwork, Actors
  <2>4. PICK written \in BOOLEAN : EndRecords(stop[n].run, Confirmed(n), written)
    BY <1>30 DEF StopEndWorker
  <2>5. CASE q = stop[n].run
    <3>1. ~Confirmed(n)
      BY <2>1, <2>3, <2>5, <1>a, <1>c DEF Confirmed, ConfirmedStaysClear, On
    <3>2. q \in records'
      BY <2>4, <2>5, <3>1 DEF EndRecords
    <3> QED BY <3>2
  <2>6. CASE q # stop[n].run
    <3>1. q \in records => q \in records'
      BY <2>4, <2>6 DEF EndRecords
    <3> QED BY <2>1, <2>2, <2>3, <2>6, <3>1, <2>9
  <2> QED BY <2>5, <2>6
<1>31. ASSUME NEW n \in Networks, BootSweep(n) PROVE Kept
  BY <1>31
     DEF BootSweep
<1>32. ASSUME NEW n \in Networks, BootSave(n) PROVE Kept
  <2>1. UNCHANGED <<stop, worker, orders, rungs>> /\ records \subseteq records'
    BY <1>32 DEF BootSave
  <2>2. q \notin Displaced(n, boot[n].run) /\ \A m \in Networks \ {n} : row'[m] = row[m]
    BY <1>32 DEF BootSave, SaveRow
  <2>3. q = boot[n].run => q \in records'
    <3>1. On(boot[n].run, n) /\ boot[n].pc = "swept"
      BY <1>32 DEF BootSave, RunsOnTheirNetwork
    <3>2. q = boot[n].run => ~boot[n].ok
      BY <2>1, <3>1, <1>a, <1>c DEF ConfirmedStaysClear, On, Resting
    <3> QED BY <1>32, <3>2 DEF BootSave
  <2>4. RowRuns(n, q) => q \in records'
    BY <2>2, <2>3 DEF Displaced
  <2> QED BY <2>1, <2>2, <2>4
<1>33. CASE Fill
  BY <1>33
     DEF Fill
<1>34. CASE Restart
  <2>1. UNCHANGED <<row, records>> /\ (InStop(q) => q \in records)
    BY <1>34 DEF Restart
  <2> QED BY <2>1
<1>35. CASE UNCHANGED vars
  BY <1>35
     DEF vars
<1> HIDE DEF TypeOK, db, venue, RowRuns, Owned, InStop, Held, StandingDown
<1> QED
  BY <1>1, <1>2, <1>3, <1>4, <1>5, <1>6, <1>7, <1>8, <1>9, <1>10, <1>11,
     <1>12, <1>13, <1>14, <1>15, <1>16, <1>17, <1>18, <1>19, <1>20,
     <1>21, <1>22, <1>23, <1>24, <1>25, <1>26, <1>27, <1>28, <1>29,
     <1>30, <1>31, <1>32, <1>33, <1>34, <1>35
     DEF Next, UserNext, StopNext, WorkerNext

LEMMA TrackedStep ==
    ASSUME TypeOK, OneStopEach, RunsOnTheirNetwork, FreshUnknown,
           ConfirmedStaysClear, NoStray', Tracked, [Next]_vars
    PROVE  Tracked'
<1> SUFFICES ASSUME NEW q \in Runs, Rests(q)', q \notin escaped' PROVE Owned(q)'
  BY DEF Tracked, Owned
<1>1. escaped \subseteq escaped'
  BY VenueStep
<1>2. CASE Rests(q)
  <2>1. Owned(q)
    BY <1>1, <1>2 DEF Tracked, Owned
  <2> QED BY <1>2, <2>1, OwnedStep
<1>3. CASE ~Rests(q)
  <2>1. Placing
    BY <1>3, VenueStep DEF Rests, Resting
  <2>2. PICK r \in Runs, c \in Networks : Place(r, c) /\ UNCHANGED row
    BY <2>1 DEF Placing
  <2>3. r = q /\ RowRuns(c, r)
    BY <1>3, <2>2, PlaceAdds DEF Rests, Resting
  <2> QED BY <2>2, <2>3 DEF Owned, RowRuns
<1> QED BY <1>2, <1>3

-----------------------------------------------------------------------------
LEMMA InitIndInv == Init => IndInv
<1> SUFFICES ASSUME Init PROVE IndInv
  OBVIOUS
<1>1. TypeOK /\ OneStopEach /\ RunsOnTheirNetwork
  BY InitType
<1>2. FreshUnknown
  BY DEF Init, FreshUnknown, Fresh, Unknown, NoStop, NoRow, BootDone, IdleWorker, IdleUser
<1>3. NoStray /\ Tracked
  BY DEF Init, NoStray, Tracked, Rests, Resting
<1>4. StoppedStaysStopped
  BY DEF Init, StoppedStaysStopped, RowRuns, NoRow
<1>5. ConfirmedStaysClear
  BY DEF Init, ConfirmedStaysClear, Resting, NoStop, BootDone, IdleUser
<1> QED BY <1>1, <1>2, <1>3, <1>4, <1>5 DEF IndInv

LEMMA IndInvStep == IndInv /\ [Next]_vars => IndInv'
<1> SUFFICES ASSUME IndInv, [Next]_vars PROVE IndInv'
  OBVIOUS
<1>1. TypeOK' /\ OneStopEach' /\ RunsOnTheirNetwork'
  BY TypeStep, OneStopStep, NetworkStep DEF IndInv
<1>2. FreshUnknown'
  BY FreshStep DEF IndInv
<1>3. NoStray'
  BY NoStrayStep DEF IndInv
<1>4. StoppedStaysStopped'
  BY StoppedStep DEF IndInv
<1>5. ConfirmedStaysClear'
  BY <1>1, ConfirmedStep DEF IndInv
<1>6. Tracked'
  BY <1>3, TrackedStep DEF IndInv
<1> QED BY <1>1, <1>2, <1>3, <1>4, <1>5, <1>6 DEF IndInv

(* Nothing rests on the venue without an owner: for every set of networks and *)
(* runs and every interleaving, a run with an order or a trigger resting is   *)
(* running in its row, recorded, or being stopped, unless a named gap of the  *)
(* code let it escape.                                                        *)
THEOREM NothingUntracked == Spec => []Tracked
<1>1. IndInv => Tracked
  BY DEF IndInv
<1> QED BY <1>1, InitIndInv, IndInvStep, PTL DEF Spec

-----------------------------------------------------------------------------
(* The switch *)

\* nothing of r rests but what escaped
Clean(r) == ~Rests(r) \/ r \in escaped

\* each actor's stop is on the network the actor works on
StopsAtHome == \A a \in Actors :
    stop[a].pc # "none" => stop[a].net = IF a = User THEN user.net ELSE a

\* What the switch knows of the network it leaves while nobody else works there:
\* the row is stopped, and the records still there are those whose retry is under
\* way, or failed, or whose stop was confirmed.
Leaving ==
    /\ user.switch /\ user.net = active /\ BootFinished
    /\ user.pc \in {"stopSave", "stopping", "list", "retry", "sweepEntry", "flip"}
    /\ user.pc # "stopSave" => ~row[active].running
    /\ user.pc = "stopSave" /\ ~user.pending => RecordsOn(active) = {}
    /\ user.pc = "stopping" /\ ~user.pending => RecordsOn(active) \subseteq {stop[User].run}
    /\ user.pc = "retry" /\ user.ok => RecordsOn(active) \subseteq user.todo
    /\ user.pc = "sweepEntry" /\ user.ok => RecordsOn(active) \subseteq user.todo \cup {user.run}
    /\ user.pc = "flip" => \A r \in RecordsOn(active) : Clean(r)
SwitchInv == StopsAtHome /\ (user.quiet => Leaving)

\* Only a cycle of its own network makes a stopped run rest again.
LEMMA CleanStays ==
    ASSUME TypeOK, RunsOnTheirNetwork, [Next]_vars,
           NEW r \in Runs, ~row[NetOf[r]].running, Clean(r)
    PROVE  Clean(r)'
<1>1. escaped \subseteq escaped'
  BY VenueStep
<1>2. CASE orders' \subseteq orders /\ rungs' \subseteq rungs
  BY <1>1, <1>2 DEF Clean, Rests, Resting
<1>3. CASE Placing
  <2>1. PICK q \in Runs, c \in Networks : Place(q, c)
    BY <1>3 DEF Placing
  <2>2. q # r \/ r \in escaped' \/ (orders' = orders /\ rungs' = rungs)
    BY <2>1, PlaceAdds DEF RowRuns
  <2>3. q # r => ~Rests(r)' \/ Rests(r)
    BY <2>1, PlaceAdds DEF Rests, Resting
  <2> QED BY <1>1, <2>2, <2>3 DEF Clean, Rests, Resting
<1> QED BY <1>2, <1>3, VenueStep

\* A step of the worker of m, or of its stop, while the switch leaves another network.
Elsewhere(m) ==
    /\ UNCHANGED <<active, boot>> /\ row'[active] = row[active]
    /\ RecordsOn(active)' = RecordsOn(active) /\ stop'[User] = stop[User]

LEMMA WorkElsewhere ==
    ASSUME TypeOK, OneStopEach, RunsOnTheirNetwork, StopsAtHome,
           NEW m \in Networks, m # active, WorkerNext(m) \/ StopNext(m)
    PROVE  Elsewhere(m) /\ Disturb(m)
<1> USE DEF TypeOK, db, venue, Elsewhere
<1>r. \A r \in Runs : On(r, m) => RecordsOn(active) = {q \in records \cup {r} : NetOf[q] = active}
                                  /\ RecordsOn(active) = {q \in records \ {r} : NetOf[q] = active}
  BY DEF On, RecordsOn
<1>s. stop[m].pc # "none" => On(stop[m].run, m)
  BY DEF RunsOnTheirNetwork, StopsAtHome, Actors
<1>w. worker[m].pc # "idle" => On(worker[m].run, m)
  BY DEF RunsOnTheirNetwork
<1>e. \A r \in Runs, d, w \in BOOLEAN :
         On(r, m) /\ EndRecords(r, d, w) => RecordsOn(active)' = RecordsOn(active) \/ active' # active
  BY <1>r DEF EndRecords, RecordsOn
<1>1. CASE StopRecord(m)
  BY <1>1, <1>r, <1>s DEF StopRecord, ByActor, RecordsOn, On, Actors
<1>2. CASE StopEngine(m) \/ StopClose(m) \/ StopSweep(m)
  BY <1>2 DEF StopEngine, StopClose, StopSweep, ByActor, RecordsOn, Actors
<1>3. CASE StopEndWorker(m)
  <2>1. PICK w \in BOOLEAN : EndRecords(stop[m].run, Confirmed(m), w)
    BY <1>3 DEF StopEndWorker
  <2>2. On(stop[m].run, m)
    BY <1>3, <1>s DEF StopEndWorker
  <2>3. Confirmed(m) \in BOOLEAN
    BY DEF Confirmed, StopState, Actors
  <2>4. RecordsOn(active)' = RecordsOn(active)
    BY <1>3, <1>e, <2>1, <2>2, <2>3 DEF StopEndWorker, On
  <2> QED BY <1>3, <2>4 DEF StopEndWorker, Actors
<1>4. CASE StandDownRecord(m)
  <2>1. PICK w \in BOOLEAN : EndRecords(worker[m].run, FALSE, w)
    BY <1>4 DEF StandDownRecord
  <2>2. On(worker[m].run, m)
    BY <1>4, <1>w DEF StandDownRecord
  <2>4. RecordsOn(active)' = RecordsOn(active)
    BY <1>4, <1>e, <2>1, <2>2 DEF StandDownRecord, On
  <2> QED BY <1>4, <2>4 DEF StandDownRecord
<1>5. CASE \E safety \in BOOLEAN : JobStart(m, safety)
  BY <1>5 DEF JobStart, RecordsOn
<1>6. CASE CyclePaused(m) \/ GetClient(m) \/ EngineCycle(m) \/ RailsPass(m)
           \/ HeartbeatLoad(m) \/ CycleAborts(m)
  BY <1>6 DEF CyclePaused, GetClient, EngineCycle, RailsPass, HeartbeatLoad, CycleAborts,
              RecordsOn, Actors
<1>7. CASE CheckNetwork(m)
  BY <1>7 DEF CheckNetwork, SaveRow, RecordsOn
<1>8. CASE RailTrips(m)
  BY <1>8 DEF RailTrips, SaveRow, BeginStop, RecordsOn, Actors
<1>9. CASE CycleSave(m) \/ HeartbeatSave(m)
  BY <1>9 DEF CycleSave, HeartbeatSave, SaveRow, RecordsOn
<1> QED BY <1>1, <1>2, <1>3, <1>4, <1>5, <1>6, <1>7, <1>8, <1>9 DEF WorkerNext, StopNext


\* A stop goes on with the run and the network it began with.
LEMMA StopKeeps ==
    ASSUME TypeOK, NEW a \in Actors, StopNext(a)
    PROVE  /\ stop[a].pc # "none"
           /\ stop'[a].run = stop[a].run /\ stop'[a].net = stop[a].net
           /\ \A b \in Actors \ {a} : stop'[b] = stop[b]
<1> USE DEF TypeOK
<1>t. stop[a] \in StopState
  OBVIOUS
<1>1. CASE StopRecord(a)
  BY <1>1, <1>t DEF StopRecord, StopState
<1>2. CASE StopEngine(a)
  BY <1>2, <1>t DEF StopEngine, StopState
<1>3. CASE StopClose(a)
  BY <1>3, <1>t DEF StopClose, StopState
<1>4. CASE StopSweep(a)
  BY <1>4, <1>t DEF StopSweep, StopState
<1> QED BY <1>1, <1>2, <1>3, <1>4 DEF StopNext

LEMMA StopsAtHomeStep ==
    ASSUME TypeOK, OneStopEach, StopsAtHome, [Next]_vars PROVE StopsAtHome'
<1> USE DEF TypeOK, db
<1>1. CASE \/ \E r \in Runs : StartCreate(r)
           \/ StartSave \/ StartKick \/ StartRollback
           \/ \E n \in Networks : StopRequest(n)
           \/ SwitchRequest \/ ListEntries \/ RetryEntry \/ SweepEntry \/ Fallback \/ Flip
  <2>1. UNCHANGED stop /\ user.pc # "stopping"
    BY <1>1 DEF StartCreate, StartSave, StartKick, StartRollback, StopRequest, SwitchRequest,
                ListEntries, RetryEntry, SweepEntry, Fallback, Flip
  <2> QED BY <2>1 DEF StopsAtHome, OneStopEach, Actors
<1>2. CASE StopSave
  <2>1. user'.net = user.net
    BY <1>2 DEF StopSave, UserState
  <2> QED BY <1>2, <2>1 DEF StopSave, BeginStop, StopsAtHome, Actors
<1>3. CASE StopEndUser
  <2>1. stop' = [stop EXCEPT ![User] = NoStop(active)]
    BY <1>3 DEF StopEndUser
  <2> QED BY <2>1 DEF StopsAtHome, NoStop, Actors
<1>4. ASSUME NEW a \in Actors, StopNext(a) PROVE StopsAtHome'
  <2>1. user'.net = user.net
    BY <1>4, ByActorSame DEF StopNext, StopRecord, StopEngine, StopClose, StopSweep, SameUser
  <2>2. \A b \in Actors : stop'[b].net = stop[b].net /\ (stop'[b].pc # "none" => stop[b].pc # "none")
    BY <1>4, StopKeeps
  <2> QED BY <2>1, <2>2 DEF StopsAtHome
<1>5. ASSUME NEW n \in Networks, WorkerNext(n) PROVE StopsAtHome'
  <2>1. user'.net = user.net
    <3>1. Disturb(n)
      BY <1>5 DEF WorkerNext, JobStart, CyclePaused, CheckNetwork, StandDownRecord, GetClient,
                  EngineCycle, RailsPass, RailTrips, CycleSave, CycleAborts, HeartbeatLoad,
                  HeartbeatSave, StopEndWorker
    <3> QED BY <3>1, DisturbSame DEF SameUser
  <2>2. CASE RailTrips(n)
    BY <2>1, <2>2 DEF RailTrips, BeginStop, StopsAtHome, Actors
  <2>3. CASE CycleAborts(n) \/ StopEndWorker(n)
    <3>1. stop' = [stop EXCEPT ![n] = NoStop(n)]
      BY <2>3 DEF CycleAborts, StopEndWorker
    <3> QED BY <2>1, <3>1 DEF StopsAtHome, NoStop, Actors
  <2>4. CASE UNCHANGED stop
    BY <2>1, <2>4 DEF StopsAtHome
  <2> QED BY <1>5, <2>2, <2>3, <2>4
          DEF WorkerNext, JobStart, CyclePaused, CheckNetwork, StandDownRecord, GetClient,
              EngineCycle, RailsPass, CycleSave, HeartbeatLoad, HeartbeatSave
<1>6. CASE Restart
  BY <1>6 DEF Restart, StopsAtHome, NoStop, Actors
<1>7. CASE UNCHANGED <<user, stop>>
  BY <1>7 DEF StopsAtHome
<1> QED BY <1>1, <1>2, <1>3, <1>4, <1>5, <1>6, <1>7
        DEF Next, UserNext, BootSweep, BootSave, Fill, vars

\* The steps of the switch itself.
LEMMA SwitchSteps ==
    ASSUME IndInv, StopsAtHome, user.quiet => Leaving,
           UserNext \/ StopNext(User), user'.quiet
    PROVE  Leaving'
<1> USE DEF TypeOK, db, venue, BootFinished, IndInv
<1>1. CASE SwitchRequest
  BY <1>1 DEF SwitchRequest, Leaving, IdleUser, RecordsOn
<1>u. CASE ~SwitchRequest
  <2>q. user.quiet
    <3>t. user \in UserState
      OBVIOUS
    <3>1. CASE StartRollback \/ Fallback \/ Flip
      <4>1. user' = IdleUser(active)
        BY <3>1 DEF StartRollback, Fallback, Flip
      <4> QED BY <4>1 DEF IdleUser
    <3>10. ASSUME NEW r \in Runs, StartCreate(r) PROVE ~user'.quiet
      BY <3>10 DEF StartCreate, IdleUser
    <3>9. ASSUME NEW n \in Networks, StopRequest(n) PROVE ~user'.quiet
      BY <3>9 DEF StopRequest, IdleUser
    <3>2. CASE StartSave \/ StartKick
      BY <3>2, <3>t DEF StartSave, StartKick, IdleUser, UserState
    <3>3. CASE StopSave
      BY <3>3, <3>t DEF StopSave, UserState
    <3>4. CASE ListEntries
      BY <3>4, <3>t DEF ListEntries, IdleUser, UserState
    <3>5. CASE RetryEntry
      BY <3>5, <3>t DEF RetryEntry, UserState
    <3>6. CASE SweepEntry
      BY <3>6, <3>t DEF SweepEntry, IdleUser, UserState
    <3>7. CASE StopEndUser
      BY <3>7, <3>t DEF StopEndUser, IdleUser, UserState
    <3>8. CASE StopNext(User)
      BY <3>8 DEF StopNext, StopRecord, StopEngine, StopClose, StopSweep, ByActor
    <3> QED BY <1>u, <3>1, <3>2, <3>3, <3>4, <3>5, <3>6, <3>7, <3>8, <3>9, <3>10 DEF UserNext
  <2>l. Leaving
    BY <2>q
  <2>1. CASE StopSave
    <3>1. ~row'[active].running
      BY <2>1, <2>l DEF StopSave, SaveRow, Leaving
    <3>2. /\ user'.pc = "stopping" /\ user'.net = user.net /\ user'.switch = user.switch
          /\ user'.pending = user.pending
      BY <2>1 DEF StopSave, UserState
    <3>3. UNCHANGED <<active, records, boot>> /\ (user.pc = "stopSave")
      BY <2>1 DEF StopSave
    <3> QED BY <2>l, <3>1, <3>2, <3>3 DEF Leaving, RecordsOn
  <2>2. CASE ListEntries
    BY <2>2, <2>l DEF ListEntries, Leaving, RecordsOn, IdleUser, UserState
  <2>3. CASE RetryEntry
    BY <2>3, <2>l DEF RetryEntry, Leaving, RecordsOn, UserState
  <2>4. CASE SweepEntry
    BY <2>4, <2>l DEF SweepEntry, Leaving, RecordsOn, IdleUser, UserState
  <2>5. CASE StopEndUser
    <3>1. stop[User].pc = "end" /\ user.pc = "stopping"
      BY <2>5 DEF StopEndUser, OneStopEach
    <3>2. /\ user.switch /\ Confirmed(User)
          /\ user' = [user EXCEPT !.pc = IF user.pending THEN "list" ELSE "flip"]
      BY <2>5 DEF StopEndUser, IdleUser
    <3>3. PICK written \in BOOLEAN : EndRecords(stop[User].run, Confirmed(User), written)
      BY <2>5 DEF StopEndUser
    <3>4. /\ records' \subseteq records /\ escaped \subseteq escaped'
          /\ UNCHANGED <<active, row, boot, orders, rungs>>
      BY <2>5, <3>2, <3>3 DEF StopEndUser, EndRecords
    <3>5. LET r == stop[User].run IN
          Rests(r) => r \in escaped
      <4>1. stop[User].net = active /\ stop[User].run \in Runs /\ NetOf[stop[User].run] = active
        BY <2>l, <3>1 DEF StopsAtHome, Leaving, RunsOnTheirNetwork, On, Actors
      <4>2. /\ <<stop[User].run, active>> \notin orders \/ stop[User].run \in escaped
            /\ <<stop[User].run, active>> \notin rungs \/ stop[User].run \in escaped
        BY <3>1, <3>2, <4>1 DEF Confirmed, ConfirmedStaysClear, Actors
      <4> QED BY <4>1, <4>2 DEF NoStray, Rests, Resting
    <3>6. /\ user'.switch /\ user'.net = user.net /\ user'.pending = user.pending
          /\ user'.pc = IF user.pending THEN "list" ELSE "flip"
      BY <3>2 DEF UserState
    <3>7. CASE user.pending
      BY <2>l, <3>1, <3>4, <3>6, <3>7 DEF Leaving
    <3>8. CASE ~user.pending
      <4>1. \A r \in RecordsOn(active)' : r = stop[User].run
        BY <2>l, <3>1, <3>4, <3>8 DEF Leaving, RecordsOn
      <4>2. \A r \in RecordsOn(active)' : Clean(r)'
        BY <3>4, <3>5, <4>1 DEF Clean, Rests, Resting
      <4> QED BY <2>l, <3>1, <3>4, <3>6, <3>8, <4>2 DEF Leaving
    <3> QED BY <3>7, <3>8
  <2>6. CASE StopNext(User)
    <3>1. SameUser /\ user'.switch = user.switch
      BY <2>6, ByActorSame DEF StopNext, StopRecord, StopEngine, StopClose, StopSweep, ByActor
    <3>2. stop[User].pc # "none" /\ user.pc = "stopping"
      BY <2>6 DEF StopNext, StopRecord, StopEngine, StopClose, StopSweep, OneStopEach
    <3>3. stop'[User].run = stop[User].run /\ records' \subseteq records \cup {stop[User].run}
      BY <2>6, StopKeeps DEF StopNext, StopRecord, StopEngine, StopClose, StopSweep, Actors
    <3>4. UNCHANGED <<active, row, boot>>
      BY <2>6 DEF StopNext, StopRecord, StopEngine, StopClose, StopSweep
    <3> QED BY <2>l, <3>1, <3>2, <3>3, <3>4 DEF Leaving, RecordsOn, SameUser
  <2>7. CASE \/ \E r \in Runs : StartCreate(r)
             \/ StartSave \/ StartKick \/ StartRollback
             \/ \E n \in Networks : StopRequest(n)
             \/ Fallback \/ Flip
    <3>1. user.pc \in {"idle", "save", "kick", "rollback", "fallback"} \/ user' = IdleUser(active)
      BY <2>7 DEF StartCreate, StartSave, StartKick, StartRollback, StopRequest, Fallback, Flip
    <3> QED BY <2>l, <3>1 DEF IdleUser, Leaving
  <2> QED BY <1>u, <2>1, <2>2, <2>3, <2>4, <2>5, <2>6, <2>7 DEF UserNext
<1> QED BY <1>1, <1>u

\* The steps of everything else.
LEMMA SwitchFrame ==
    ASSUME IndInv, StopsAtHome, user.quiet => Leaving,
           [Next]_vars, ~UserNext, ~StopNext(User), user'.quiet
    PROVE  Leaving'
<1> USE DEF TypeOK, db, venue, IndInv
<1>c. Leaving /\ user.pc = "flip" => \A r \in RecordsOn(active) : Clean(r)'
  BY CleanStays DEF Leaving, RecordsOn
<1>1. ASSUME NEW n \in Networks, WorkerNext(n) \/ StopNext(n) PROVE Leaving'
  <2>1. Disturb(n)
    BY <1>1 DEF WorkerNext, JobStart, CyclePaused, CheckNetwork, StandDownRecord, GetClient,
                EngineCycle, RailsPass, RailTrips, CycleSave, CycleAborts, HeartbeatLoad,
                HeartbeatSave, StopEndWorker, StopNext, StopRecord, StopEngine, StopClose,
                StopSweep, ByActor
  <2>2. user.quiet /\ n # user.net /\ SameUser /\ user'.switch = user.switch /\ user'.ok = user.ok
    BY <2>1 DEF Disturb, SameUser, UserState
  <2>3. Leaving /\ n # active
    BY <2>2 DEF Leaving
  <2>4. Elsewhere(n)
    BY <1>1, <2>3, WorkElsewhere
  <2> QED BY <1>c, <2>2, <2>3, <2>4 DEF Leaving, Elsewhere, SameUser, BootFinished
<1>2. CASE Fill \/ UNCHANGED vars \/ \E n \in Networks : BootSweep(n) \/ BootSave(n)
  <2>1. UNCHANGED <<active, user, stop>>
    BY <1>2 DEF Fill, BootSweep, BootSave, vars
  <2>2. Leaving
    BY <2>1
  <2>3. UNCHANGED <<row, records, boot>>
    BY <1>2, <2>2 DEF Fill, BootSweep, BootSave, vars, Leaving, BootFinished
  <2> QED BY <1>c, <2>1, <2>2, <2>3 DEF Leaving, RecordsOn, BootFinished
<1>3. CASE Restart
  BY <1>3 DEF Restart, IdleUser
<1> QED BY <1>1, <1>2, <1>3 DEF Next, Actors

LEMMA SwitchStep == IndInv /\ SwitchInv /\ [Next]_vars => SwitchInv'
  BY StopsAtHomeStep, SwitchSteps, SwitchFrame DEF SwitchInv, IndInv

\* At the flip what rests of the network's runs is owned by no row and no record.
LEMMA FlipIsClean ==
    ASSUME IndInv, SwitchInv, [Next]_vars, NEW r \in Runs,
           active' # active, user.quiet, Rests(r), NetOf[r] = active
    PROVE  r \in escaped \/ Held(active, r) \/ StandingDown(active, r)
<1> USE DEF TypeOK, IndInv
<1>1. Flip
  BY DEF Next, UserNext, StartCreate, StartSave, StartKick, StartRollback, StopRequest,
         SwitchRequest, StopSave, ListEntries, RetryEntry, SweepEntry, Fallback, StopEndUser,
         StopNext, StopRecord, StopEngine, StopClose, StopSweep, WorkerNext, JobStart,
         CyclePaused, CheckNetwork, StandDownRecord, GetClient, EngineCycle, RailsPass, RailTrips,
         CycleSave, CycleAborts, HeartbeatLoad, HeartbeatSave, StopEndWorker, BootSweep, BootSave,
         Fill, Restart, vars, db
<1>2. user.pc = "flip" /\ Leaving
  BY <1>1 DEF Flip, SwitchInv
<1>3. ~row[active].running /\ (r \in records => r \in escaped)
  BY <1>2 DEF Leaving, RecordsOn, Clean
<1>4. \A n \in Networks : ~RowRuns(n, r)
  BY <1>3 DEF RowRuns, RunsOnTheirNetwork, On
<1>5. ASSUME InStop(r) PROVE Held(active, r) \/ StandingDown(active, r)
  <2>1. ASSUME NEW a \in Actors, Held(a, r) PROVE a = active
    <3>1. a # User
      BY <1>2, <2>1 DEF Held, OneStopEach
    <3> QED BY <2>1, <3>1 DEF Held, SwitchInv, StopsAtHome, RunsOnTheirNetwork, On
  <2>2. ASSUME NEW n \in Networks, StandingDown(n, r) PROVE n = active
    BY <2>2 DEF StandingDown, RunsOnTheirNetwork, On
  <2> QED BY <1>5, <2>1, <2>2 DEF InStop
<1> QED BY <1>3, <1>4, <1>5, SMTT(30) DEF Tracked

\* SwitchFailClosed: however the stop, the retries of recorded cleanups and their
\* failing calls go, and whatever the jobs of other networks do, the flip leaves
\* nothing resting on the network being left (switch_network), if no job of that
\* network ran since the switch began.
THEOREM SwitchIsFailClosed == Spec => SwitchFailClosed
<1>1. Init => IndInv /\ SwitchInv
  BY InitIndInv DEF Init, SwitchInv, StopsAtHome, IdleUser, NoStop
<1>2. (IndInv /\ SwitchInv) /\ [Next]_vars => (IndInv /\ SwitchInv)'
  BY IndInvStep, SwitchStep
<1>3. (IndInv /\ SwitchInv) /\ [Next]_vars =>
        [\A r \in Runs :
            active' # active /\ user.quiet /\ Rests(r) /\ NetOf[r] = active =>
                r \in escaped \/ Held(active, r) \/ StandingDown(active, r)]_vars
  BY FlipIsClean
<1> QED BY <1>1, <1>2, <1>3, PTL DEF Spec, SwitchFailClosed
=============================================================================
