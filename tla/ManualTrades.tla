---------------------------- MODULE ManualTrades ----------------------------
(***************************************************************************)
(* The orders of one user on one product: the calls that submit them       *)
(* (OrderSubmits), the job that books their fills (FillSync), the closes   *)
(* and the stop-loss scan (StopLoss), in one process that may restart.     *)
(***************************************************************************)
EXTENDS StopLoss

vars == <<submitVars, syncVars, stopVars>>

Init == SubmitInit /\ SyncInit /\ StopInit

\* Threads and jobs are lost; the database and the venue stay.
Restart ==
    /\ May("restart")
    /\ upsets < MaxUpsets
    /\ upsets' = upsets + 1
    /\ call' = [t \in Trades |-> IF call[t] = "idle" THEN "idle" ELSE "done"]
    /\ job' = [t \in Trades |-> "idle"]
    /\ close' = [c \in Closers |-> Idle]
    /\ todo' = {} /\ cur' = {}
    /\ seen' = [t \in Trades |-> 0]
    /\ old' = seen' /\ found' = seen'
    /\ UNCHANGED <<kind, intent, row, order, filled, sync, attempts, rule, counted, window, at, gap>>
    /\ UNCHANGED <<hit, sold>>

Submitting == /\ \/ \E t \in Trades : SubmitStep(t)
                 \/ \E i \in Intents : IntentLapses(i)
              /\ UNCHANGED <<syncVars, stopVars>>

Syncing == (Claim \/ \E t \in Trades : JobStep(t) \/ VenueFills(t)) /\ UNCHANGED stopVars

Next == Submitting \/ Syncing \/ StopStep \/ Restart

\* The sync job and the scan run on their intervals and each of their steps
\* ends.  What may fail does not fail for ever, and an entry that stays in the
\* queue grows older than the two hours it may have.  Nothing is assumed of the
\* user, the venue or the prices.
Fairness ==
    /\ WF_vars(Claim /\ UNCHANGED stopVars)
    /\ WF_vars(ScanStarts)
    /\ \A t \in Trades :
          /\ WF_vars(JobStep(t) /\ UNCHANGED stopVars)
          /\ SF_vars(Expire(t) /\ UNCHANGED stopVars)
          /\ WF_vars(ScanFires(t)) /\ WF_vars(ScanSettles(t))
    /\ SF_vars(CloseCancels("scan")) /\ SF_vars(CloseReads("scan"))
    /\ SF_vars(CloseOrders("scan")) /\ SF_vars(CloseVerifies("scan"))

Spec == Init /\ [][Next]_vars /\ Fairness

-----------------------------------------------------------------------------
TypeOK ==
    /\ kind \in [Trades -> Kinds]
    /\ call \in [Trades -> {"idle", "reserved", "recorded", "sent", "booked", "done"}]
    /\ seen \in [Trades -> 0..Size] /\ filled \in [Trades -> 0..Size]
    /\ intent \in [Intents -> [st : ActiveStatuses \cup {"none", "failed"}, fresh : BOOLEAN]]
    /\ row \in [Trades -> [st : {"none", "pending", "unknown", "filled", "partially_filled", "failed", "cancelled", "closed"},
                           fill : 0..Size]]
    /\ order \in [Trades -> {"none", "flight", "resting", "done", "rejected"}]
    /\ sync \in [Trades -> {"none", "pending", "processing", "resolved", "expired"}]
    /\ attempts \in [Trades -> 0..GiveUpAfter]
    /\ rule \in [Trades -> {"none", "armed", "spent"}]
    /\ counted \in [Trades -> 0..2 * Size]
    /\ job \in [Trades -> {"idle", "claimed", "orders", "recent", "write", "count", "finish"}]
    /\ old \in [Trades -> 0..Size] /\ found \in [Trades -> 0..Size]
    /\ Position >= 0

Landed(t) == order[t] \in {"flight", "resting", "done"}

\* A submit of the intent went on without it in the window, or in the one before
\* and may still be under way.
Unprotected(i, w) == \E v \in Trades : IntentOf(v) = i /\ "unprotected" \in gap[v] /\ at[v] \in (w - 1)..w

\* Two submits of the same intent within its window do not both reach the
\* venue, however their calls interleave, time out or are cut off by a restart.
\* The code has two ways round it: a placement that raised had gone through, or
\* the owner of the intent could not be read and a submit went on without it,
\* whose markers then write over the owner's.
OneOrderPerIntent ==
    \A t, u \in Trades :
        t # u /\ Landed(t) /\ Landed(u) /\ IntentOf(t) = IntentOf(u) /\ at[t] = at[u]
        => "reply" \in gap[t] \cup gap[u] \/ Unprotected(IntentOf(t), at[t])

\* The volume of a fill is credited once, by the call that placed the order or
\* by the sync, whatever fails between, unless the call's own write of a fill it
\* had read failed.
CountedOnce == \A t \in Trades : counted[t] <= filled[t] \/ "rebook" \in gap[t]

\* A trade the sync is done with has all of its order's fills booked, and its
\* order no longer rests.  The exceptions are the three ways the sync misreads
\* the venue: a denied read, an archive that is late, a fill between its reads.
ResolvedIsBooked ==
    \A t \in Trades :
        sync[t] = "resolved" /\ gap[t] \cap {"denied", "late", "race"} = {}
        => order[t] = "done" /\ row[t].fill = filled[t]

\* A stop-loss that is spent has done its work: what its trade bought was sold,
\* by the scan's close or by the user's before it.  A close that failed, was cut
\* short by a restart or raced another close does not spend the rule.
SpentRulesAreSold ==
    MapThenSumSet(LAMBDA t : filled[t], {t \in Trades : rule[t] = "spent"}) <= sold

\* A stop-loss whose price is reached gets the account flat, though closes fail,
\* fill in part or are cut off by a restart.
StopFires == \A t \in Trades : rule[t] = "armed" /\ hit[t] ~> Position = 0

\* No entry of the queue is left behind: one that failed, or that a restart cut
\* off while it was claimed, is claimed again until it is resolved or expires.
EntriesEnd == \A t \in Trades : sync[t] \in {"pending", "processing"} ~> sync[t] \in {"resolved", "expired"}
=============================================================================
