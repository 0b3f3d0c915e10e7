------------------------------ MODULE FillSync ------------------------------
(***************************************************************************)
(* sync_pending_fills: the job that books the fills the calls left in the  *)
(* queue.  It claims entries, reads the archive for each, and when the     *)
(* archive shows nothing asks the venue whether the order still rests.     *)
(* Entries of a batch are handled concurrently; the job never overlaps     *)
(* itself, so an entry found "processing" by a claim was left by a crash.  *)
(***************************************************************************)
EXTENDS OrderSubmits

CONSTANTS
    RetryAfter,   \* claims before the venue is asked (8)
    GiveUpAfter   \* claims before an order that is gone counts as cancelled (20)

ASSUME SyncAssumption == RetryAfter \in Nat \ {0} /\ GiveUpAfter \in Nat /\ RetryAfter <= GiveUpAfter

VARIABLES
    job,     \* where the job is with an entry
    old,     \* the row's fill when it was read
    found    \* the fill the archive showed

syncVars == <<job, old, found>>

SyncInit ==
    /\ job = [t \in Trades |-> "idle"]
    /\ old = [t \in Trades |-> 0]
    /\ found = [t \in Trades |-> 0]

RecordedFill(t) == row[t].st \in {"filled", "partially_filled", "closed"} \/ row[t].fill > 0

Partial(t) == found[t] < Size

\* The entry goes back for the next tick, or is finished with.
Leave(t, st) == /\ sync' = [sync EXCEPT ![t] = st]
                /\ job' = [job EXCEPT ![t] = "idle"]
                /\ old' = [old EXCEPT ![t] = 0]
                /\ found' = [found EXCEPT ![t] = 0]

\* Mutant: entries left in "processing" by a crash are not claimed again.
ClaimPending ==
    /\ \A t \in Trades : job[t] = "idle"
    /\ LET batch == {t \in Trades : sync[t] = "pending"}
       IN  /\ batch # {}
           /\ sync' = [t \in Trades |-> IF t \in batch THEN "processing" ELSE sync[t]]
           /\ attempts' = [t \in Trades |-> IF t \in batch /\ attempts[t] < GiveUpAfter
                                            THEN attempts[t] + 1 ELSE attempts[t]]
           /\ job' = [t \in Trades |-> IF t \in batch THEN "claimed" ELSE "idle"]
    /\ UNCHANGED <<kind, call, seen, intent, row, order, filled, rule, counted, window, at, gap, old, found>>

\* claim_pending_fill_syncs.
Claim ==
    /\ \A t \in Trades : job[t] = "idle"
    /\ LET batch == {t \in Trades : sync[t] \in {"pending", "processing"}}
       IN  /\ batch # {}
           /\ sync' = [t \in Trades |-> IF t \in batch THEN "processing" ELSE sync[t]]
           /\ attempts' = [t \in Trades |-> IF t \in batch /\ attempts[t] < GiveUpAfter
                                            THEN attempts[t] + 1 ELSE attempts[t]]
           /\ job' = [t \in Trades |-> IF t \in batch THEN "claimed" ELSE "idle"]
    /\ UNCHANGED <<kind, call, seen, intent, row, order, filled, rule, counted, window, at, gap, old, found>>

\* An old entry expires with its order unresolved.
Expire(t) ==
    /\ job[t] = "claimed"
    /\ attempts[t] = GiveUpAfter
    /\ Leave(t, "expired")
    /\ UNCHANGED <<kind, call, seen, intent, row, order, filled, attempts, rule, counted, window, at, gap>>

\* The row and the archive are read.  The archive may show nothing, or not the
\* last fills of a resting order yet; it does not forget what it showed.
Look(t) ==
    /\ job[t] = "claimed"
    /\ \E n \in {filled[t]} \cup (IF May("lag") THEN {0} ELSE {}) \cup (IF May("late") THEN row[t].fill..filled[t] ELSE {}) :
          /\ gap' = IF 0 < n /\ n < filled[t] THEN Noted(t, {"late"}) ELSE gap
          /\ IF n = 0 /\ (RecordedFill(t) \/ attempts[t] < RetryAfter)
             THEN Leave(t, "pending")
             ELSE /\ job' = [job EXCEPT ![t] = IF n > 0 THEN "write" ELSE "orders"]
                  /\ old' = [old EXCEPT ![t] = row[t].fill]
                  /\ found' = [found EXCEPT ![t] = n]
                  /\ UNCHANGED sync
    /\ UNCHANGED <<kind, call, seen, intent, row, order, filled, attempts, rule, counted, window, at>>

\* get_open_orders, whose denied read (None) is taken for an empty list.
ReadOrders(t) ==
    /\ job[t] = "orders"
    /\ \E denied \in Fails("denied") :
          /\ IF order[t] = "resting" /\ ~denied
             THEN Leave(t, "pending")
             ELSE job' = [job EXCEPT ![t] = "recent"] /\ UNCHANGED <<sync, old, found>>
          /\ gap' = IF order[t] = "resting" /\ denied THEN Noted(t, {"denied"}) ELSE gap
    /\ UNCHANGED <<kind, call, seen, intent, row, order, filled, attempts, rule, counted, window, at>>

\* Mutant: an order that is not open counts as cancelled, fills or not.
ReadRecentNot(t) ==
    /\ job[t] = "recent"
    /\ row' = [row EXCEPT ![t].st = "cancelled"]
    /\ Leave(t, "resolved")
    /\ UNCHANGED <<kind, call, seen, intent, order, filled, attempts, rule, counted, window, at, gap>>

\* The order is not open: the archive is asked once more before the trade
\* counts as cancelled.
ReadRecent(t) ==
    /\ job[t] = "recent"
    /\ \E late \in Fails("late") :
          LET n == IF late THEN 0 ELSE filled[t]
              gone == n = 0 /\ attempts[t] = GiveUpAfter
          IN  /\ gap' = IF late /\ filled[t] > 0 THEN Noted(t, {"late"}) ELSE gap
              /\ row' = IF gone THEN [row EXCEPT ![t].st = "cancelled"] ELSE row
              /\ IF n = 0
                 THEN Leave(t, IF gone THEN "resolved" ELSE "pending")
                 ELSE /\ found' = [found EXCEPT ![t] = n]
                      /\ job' = [job EXCEPT ![t] = "write"]
                      /\ UNCHANGED <<sync, old>>
    /\ UNCHANGED <<kind, call, seen, intent, order, filled, attempts, rule, counted, window, at>>

\* A call of an entry fails: it is released.
EntryFails(t) ==
    /\ May("db")
    /\ job[t] # "idle"
    /\ Leave(t, "pending")
    /\ UNCHANGED <<kind, call, seen, intent, row, order, filled, attempts, rule, counted, window, at, gap>>

\* Mutant: the fill is added to the row's.
WriteFillAdds(t) ==
    /\ job[t] = "write"
    /\ row' = [row EXCEPT ![t] = [st |-> IF Partial(t) THEN "partially_filled" ELSE "filled", fill |-> @.fill + found[t]]]
    /\ job' = [job EXCEPT ![t] = "count"]
    /\ UNCHANGED <<kind, call, seen, intent, order, filled, sync, attempts, rule, counted, window, at, gap, old, found>>

WriteFill(t) ==
    /\ job[t] = "write"
    /\ row' = [row EXCEPT ![t] = [st |-> IF Partial(t) THEN "partially_filled" ELSE "filled", fill |-> found[t]]]
    /\ job' = [job EXCEPT ![t] = "count"]
    /\ UNCHANGED <<kind, call, seen, intent, order, filled, sync, attempts, rule, counted, window, at, gap, old, found>>

\* Mutant: the whole fill is counted each time.
CountFillWhole(t) ==
    /\ job[t] = "count"
    /\ counted' = [counted EXCEPT ![t] = @ + found[t]]
    /\ job' = [job EXCEPT ![t] = "finish"]
    /\ UNCHANGED <<kind, call, seen, intent, row, order, filled, sync, attempts, rule, window, at, gap, old, found>>

\* The volume grows by what the row did not have when it was read.
CountFill(t) ==
    /\ job[t] = "count"
    /\ \E nostats \in Fails("db") :
          counted' = IF nostats \/ found[t] <= old[t] THEN counted
                     ELSE [counted EXCEPT ![t] = @ + found[t] - old[t]]
    /\ job' = [job EXCEPT ![t] = "finish"]
    /\ UNCHANGED <<kind, call, seen, intent, row, order, filled, sync, attempts, rule, window, at, gap, old, found>>

\* Mutant: a trade that was booked in part is done with.
FinishPartial(t) ==
    /\ job[t] = "finish"
    /\ Leave(t, "resolved")
    /\ UNCHANGED <<kind, call, seen, intent, row, order, filled, attempts, rule, counted, window, at, gap>>

\* A partly filled trade stays queued while its order rests.
Finish(t) ==
    /\ job[t] = "finish"
    /\ \E denied \in Fails("denied") :
          LET open == Partial(t) /\ order[t] = "resting"
          IN  /\ Leave(t, IF open /\ ~denied THEN "pending" ELSE "resolved")
              /\ gap' = IF open /\ denied THEN Noted(t, {"denied"}) ELSE gap
    /\ UNCHANGED <<kind, call, seen, intent, row, order, filled, attempts, rule, counted, window, at>>

\* A resting order is filled.  A fill between the archive's answer and the
\* read of the open orders is one the sync has seen and asks no more about.
VenueFills(t) ==
    /\ order[t] = "resting"
    /\ LET between == job[t] \in {"write", "count", "finish"}
       IN  /\ between => May("race")
           /\ gap' = IF between THEN Noted(t, {"race"}) ELSE gap
    /\ filled' = [filled EXCEPT ![t] = @ + 1]
    /\ order' = [order EXCEPT ![t] = IF filled[t] + 1 = Size THEN "done" ELSE @]
    /\ UNCHANGED <<kind, call, seen, intent, row, sync, attempts, rule, counted, window, at, old, found, job>>

JobStep(t) ==
    \/ Expire(t) \/ Look(t) \/ ReadOrders(t) \/ ReadRecent(t) \/ EntryFails(t)
    \/ WriteFill(t) \/ CountFill(t) \/ Finish(t)
=============================================================================
