---------------------------- MODULE OrderSubmits ----------------------------
(***************************************************************************)
(* Manual and copied orders: execute_market_order and execute_limit_order  *)
(* with the intents that guard them, the rows they leave in the trade      *)
(* table and the queue of fills still to be booked.  One user, one         *)
(* product, one direction; a trade is one call, and calls run in threads   *)
(* of their own.  Prices, margins and what validation refuses are left     *)
(* out, and no take-profit is asked for.                                   *)
(***************************************************************************)
EXTENDS Integers, FiniteSets

CONSTANTS
    Trades,
    Size,      \* units of a trade
    Nonced,    \* whether orders carry a nonce of their own: manual ones do, copied ones do not
    Faults     \* what may go wrong: see May

ASSUME SubmitAssumption == /\ IsFiniteSet(Trades)
                           /\ Size \in Nat \ {0} /\ Nonced \in BOOLEAN
                           /\ Faults \subseteq {"db", "owner", "lag", "late", "denied", "reply", "race", "close", "user", "restart"}

Kinds == {"market", "limit"}
Intents == Trades \cup Kinds

VARIABLES
    kind,      \* the kind of each trade, chosen at the start
    call,      \* where the call of a trade is
    seen,      \* the fill a call read from the archive
    intent,    \* order_intents
    row,       \* the trade table
    order,     \* the venue's orders
    filled,    \* and how much of each was filled
    sync,      \* fill_sync_queue: the status of a trade's entry
    attempts,  \* and how often it was claimed
    rule,      \* the stop-loss rule a market trade asked for
    counted,   \* volume credited to the user for a trade
    window,    \* history: how many reservation windows of an intent have passed
    at,        \* history: the window a trade was reserved in
    gap        \* history: what went wrong for a trade that the code does not recover from

submitVars == <<kind, call, seen, intent, row, order, filled, sync, attempts, rule, counted, window, at, gap>>

(* db: a statement on the database fails, other than that of owner: the      *)
(* owner of an intent that is taken cannot be read; lag: the archive has not *)
(* indexed a fill that just happened; late: it still has not when the order  *)
(* is read as gone;                                                          *)
(* denied: the gateway budget denies a read of the open orders; reply: a     *)
(* placement raises after the venue took it; race: a fill lands between the  *)
(* two reads of a sync; close: positions or closing orders are refused;      *)
(* user: the user closes the position; restart: the process restarts.        *)
May(f) == f \in Faults
Fails(f) == IF May(f) THEN BOOLEAN ELSE {FALSE}

Noted(t, what) == [gap EXCEPT ![t] = @ \cup what]

\* Orders without a nonce have the same id when their parameters are the same.
IntentOf(t) == IF Nonced THEN t ELSE kind[t]

ActiveStatuses == {"pending", "recorded", "submitted", "filled"}
Free(i) == intent[i].st \notin ActiveStatuses \/ ~intent[i].fresh

\* The intents after update_order_intent: the row is overwritten, whoever owns
\* it, and its window starts anew.  A marker that cannot be written is given up.
Marked(i, st) ==
    {[intent EXCEPT ![i] = [st |-> st, fresh |-> TRUE]]} \cup (IF May("db") THEN {intent} ELSE {})

UnknownSubmit == \E u \in Trades : kind[u] = "market" /\ row[u].st = "unknown"

SubmitInit ==
    /\ kind \in [Trades -> Kinds]
    /\ call = [t \in Trades |-> "idle"]
    /\ seen = [t \in Trades |-> 0]
    /\ intent = [i \in Intents |-> [st |-> "none", fresh |-> FALSE]]
    /\ row = [t \in Trades |-> [st |-> "none", fill |-> 0]]
    /\ order = [t \in Trades |-> "none"]
    /\ filled = [t \in Trades |-> 0]
    /\ sync = [t \in Trades |-> "none"]
    /\ attempts = [t \in Trades |-> 0]
    /\ rule = [t \in Trades |-> "none"]
    /\ counted = [t \in Trades |-> 0]
    /\ window = [i \in Intents |-> 0]
    /\ at = [t \in Trades |-> 0]
    /\ gap = [t \in Trades |-> {}]

-----------------------------------------------------------------------------
(* The call up to the venue. *)

\* A matching submit of unknown outcome, another owner of the intent that can be
\* read, or a reservation that cannot be written: the order is not sent.
Refuse(t) ==
    /\ call[t] = "idle"
    /\ (kind[t] = "market" /\ UnknownSubmit) \/ ~Free(IntentOf(t)) \/ May("db")
    /\ call' = [call EXCEPT ![t] = "done"]
    /\ UNCHANGED <<kind, seen, intent, row, order, filled, sync, attempts, rule, counted, window, at, gap>>

\* The check for unknown submits gives up when the table cannot be read; the
\* reservation is one statement.
Reserve(t) ==
    /\ call[t] = "idle"
    /\ kind[t] = "market" => ~UnknownSubmit \/ May("db")
    /\ Free(IntentOf(t))
    /\ intent' = [intent EXCEPT ![IntentOf(t)] = [st |-> "pending", fresh |-> TRUE]]
    /\ at' = [at EXCEPT ![t] = window[IntentOf(t)]]
    /\ call' = [call EXCEPT ![t] = "reserved"]
    /\ UNCHANGED <<kind, seen, row, order, filled, sync, attempts, rule, counted, window, gap>>

\* The reservation finds another owner, and neither its row nor its copy in the
\* cache can be read: the exception is not the one that refuses, and the call
\* goes on without the intent.
ProceedUnprotected(t) ==
    /\ call[t] = "idle"
    /\ kind[t] = "market" => ~UnknownSubmit \/ May("db")
    /\ ~Free(IntentOf(t)) /\ May("owner")
    /\ at' = [at EXCEPT ![t] = window[IntentOf(t)]]
    /\ gap' = Noted(t, {"unprotected"})
    /\ call' = [call EXCEPT ![t] = "reserved"]
    /\ UNCHANGED <<kind, seen, intent, row, order, filled, sync, attempts, rule, counted, window>>

\* insert_trade and the "recorded" marker.  Without a row the call ends, and
\* its intent stays until the window has passed.
Record(t) ==
    /\ call[t] = "reserved"
    /\ \E failed \in Fails("db") :
          IF failed
          THEN /\ call' = [call EXCEPT ![t] = "done"]
               /\ UNCHANGED <<row, intent>>
          ELSE /\ row' = [row EXCEPT ![t].st = "pending"]
               /\ intent' \in Marked(IntentOf(t), "recorded")
               /\ call' = [call EXCEPT ![t] = "recorded"]
    /\ UNCHANGED <<kind, seen, order, filled, sync, attempts, rule, counted, window, at, gap>>

Submit(t) ==
    /\ call[t] = "recorded"
    /\ order' = [order EXCEPT ![t] = "flight"]
    /\ call' = [call EXCEPT ![t] = "sent"]
    /\ UNCHANGED <<kind, seen, intent, row, filled, sync, attempts, rule, counted, window, at, gap>>

-----------------------------------------------------------------------------
(* What comes back. *)

\* A result without success is taken for a definite refusal: the row fails and
\* the intent is released.  An exception after the venue took the order looks
\* the same.
Refused(t) ==
    /\ call[t] = "sent"
    /\ order[t] = "rejected" \/ May("reply")
    /\ gap' = IF order[t] = "rejected" THEN gap ELSE Noted(t, {"reply"})
    /\ \E norow \in Fails("db") :
          row' = IF norow THEN row ELSE [row EXCEPT ![t].st = "failed"]
    /\ intent' \in Marked(IntentOf(t), "failed")
    /\ call' = [call EXCEPT ![t] = "done"]
    /\ UNCHANGED <<kind, seen, order, filled, sync, attempts, rule, counted, window, at>>

\* Mutant: the intent of a submit that timed out is released.
TimesOutReleased(t) ==
    /\ call[t] = "sent"
    /\ kind[t] = "market"
    /\ intent' \in Marked(IntentOf(t), "failed")
    /\ call' = [call EXCEPT ![t] = "done"]
    /\ UNCHANGED <<kind, seen, row, order, filled, sync, attempts, rule, counted, window, at, gap>>

\* _submit_with_timeout gives up waiting; the thread that places the order does not.
TimesOut(t) ==
    /\ call[t] = "sent"
    /\ kind[t] = "market"
    /\ \E norow \in Fails("db") :
          row' = IF norow THEN row ELSE [row EXCEPT ![t].st = "unknown"]
    /\ intent' \in Marked(IntentOf(t), "recorded")
    /\ call' = [call EXCEPT ![t] = "done"]
    /\ UNCHANGED <<kind, seen, order, filled, sync, attempts, rule, counted, window, at, gap>>

\* A market order is filled.  Its fill is read from the archive and written to
\* the row; when the archive has none, or the write fails, the trade is queued.
\* What was read is counted in either case (rebook).
Book(t) ==
    /\ call[t] = "sent"
    /\ kind[t] = "market"
    /\ order[t] = "done"
    /\ \E lagging \in Fails("lag"), nowrite \in Fails("db"), lostEntry \in Fails("db") :
          LET n == IF lagging THEN 0 ELSE filled[t]
              queued == n = 0 \/ nowrite
          IN  /\ seen' = [seen EXCEPT ![t] = n]
              /\ row' = IF nowrite THEN row ELSE [row EXCEPT ![t] = [st |-> "filled", fill |-> n]]
              /\ intent' \in Marked(IntentOf(t), IF nowrite \/ n = 0 THEN "submitted" ELSE "filled")
              /\ sync' = IF queued /\ ~lostEntry THEN [sync EXCEPT ![t] = "pending"] ELSE sync
              /\ gap' = IF nowrite /\ n > 0 THEN Noted(t, {"rebook"}) ELSE gap
    /\ call' = [call EXCEPT ![t] = "booked"]
    /\ UNCHANGED <<kind, order, filled, attempts, rule, counted, window, at>>

\* update_trade_stats, then the stop-loss rule is armed.
Count(t) ==
    /\ call[t] = "booked"
    /\ \E nostats \in Fails("db"), norule \in Fails("db") :
          /\ counted' = IF nostats THEN counted ELSE [counted EXCEPT ![t] = @ + seen[t]]
          /\ rule' = IF norule THEN rule ELSE [rule EXCEPT ![t] = "armed"]
    /\ seen' = [seen EXCEPT ![t] = 0]
    /\ call' = [call EXCEPT ![t] = "done"]
    /\ UNCHANGED <<kind, intent, row, order, filled, sync, attempts, window, at, gap>>

\* A limit order was accepted: its fills are the queue's business.
Rest(t) ==
    /\ call[t] = "sent"
    /\ kind[t] = "limit"
    /\ order[t] \in {"resting", "done"}
    /\ \E nowrite \in Fails("db"), lostEntry \in Fails("db") :
          /\ IF nowrite THEN UNCHANGED intent ELSE intent' \in Marked(IntentOf(t), "submitted")
          /\ sync' = IF nowrite \/ lostEntry THEN sync ELSE [sync EXCEPT ![t] = "pending"]
    /\ call' = [call EXCEPT ![t] = "done"]
    /\ UNCHANGED <<kind, seen, row, order, filled, attempts, rule, counted, window, at, gap>>

-----------------------------------------------------------------------------
(* Time.  The windows (two minutes) are longer than a call, whose submit is  *)
(* cut off after 25 seconds, and than the venue needs to take an order: one  *)
(* does not pass while a call that reserved in it is under way, and at most  *)
(* one while a call that found it taken is.  A window nobody asks about any  *)
(* more need not pass.                                                       *)

Quiet(t) == call[t] \in {"idle", "done"} /\ order[t] # "flight"

IntentLapses(i) ==
    /\ intent[i].fresh
    /\ \A t \in Trades : IntentOf(t) = i =>
          Quiet(t) \/ ("unprotected" \in gap[t] /\ at[t] = window[i])
    /\ \E t \in Trades : IntentOf(t) = i /\ call[t] = "idle"
    /\ intent' = [intent EXCEPT ![i].fresh = FALSE]
    /\ window' = [window EXCEPT ![i] = @ + 1]
    /\ UNCHANGED <<kind, call, seen, row, order, filled, sync, attempts, rule, counted, at, gap>>

UnknownLapses(t) ==
    /\ row[t].st = "unknown"
    /\ Quiet(t)
    /\ \E u \in Trades : call[u] = "idle"
    /\ row' = [row EXCEPT ![t].st = "pending"]
    /\ UNCHANGED <<kind, call, seen, intent, order, filled, sync, attempts, rule, counted, window, at, gap>>

-----------------------------------------------------------------------------
(* The venue. *)

VenueRejects(t) ==
    /\ order[t] = "flight"
    /\ order' = [order EXCEPT ![t] = "rejected"]
    /\ UNCHANGED <<kind, call, seen, intent, row, filled, sync, attempts, rule, counted, window, at, gap>>

\* A market order fills at once, in part or whole; a limit order rests.
VenueAccepts(t) ==
    /\ order[t] = "flight"
    /\ IF kind[t] = "limit"
       THEN order' = [order EXCEPT ![t] = "resting"] /\ UNCHANGED filled
       ELSE /\ order' = [order EXCEPT ![t] = "done"]
            /\ \E n \in 1..Size : filled' = [filled EXCEPT ![t] = n]
    /\ UNCHANGED <<kind, call, seen, intent, row, sync, attempts, rule, counted, window, at, gap>>

\* The user pulls a resting order, or it expires.
VenueEnds(t) ==
    /\ order[t] = "resting"
    /\ order' = [order EXCEPT ![t] = "done"]
    /\ UNCHANGED <<kind, call, seen, intent, row, filled, sync, attempts, rule, counted, window, at, gap>>

SubmitStep(t) ==
    \/ Refuse(t) \/ Reserve(t) \/ ProceedUnprotected(t) \/ Record(t) \/ Submit(t)
    \/ Refused(t) \/ TimesOut(t) \/ Book(t) \/ Count(t) \/ Rest(t)
    \/ UnknownLapses(t)
    \/ VenueRejects(t) \/ VenueAccepts(t) \/ VenueEnds(t)
=============================================================================
