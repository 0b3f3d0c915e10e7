------------------------------ MODULE StopLoss ------------------------------
(***************************************************************************)
(* The bot's own stop-losses: process_stop_losses, which the alert worker  *)
(* runs every few seconds over all armed rules, and close_position, which  *)
(* it and the user's close share.  The position is what the trades' orders *)
(* bought less what was sold.  Whether a rule's price is reached is free,  *)
(* and stays reached.                                                      *)
(***************************************************************************)
EXTENDS FillSync, FiniteSetsExt

CONSTANT MaxUpsets   \* bound: closes by the user and restarts

ASSUME CloseAssumption == MaxUpsets \in Nat

Closers == {"scan", "user"}

VARIABLES
    hit,      \* the price of a rule is reached
    todo,     \* the rules a scan read and has not dealt with
    cur,      \* the rule it deals with
    close,    \* the close_position of each closer
    sold,     \* venue: units sold to close
    upsets    \* closes by the user and restarts so far

stopVars == <<hit, todo, cur, close, sold, upsets>>

Position == MapThenSumSet(LAMBDA t : filled[t], Trades) - sold

Idle == [at |-> "idle", left |-> 0, tries |-> 0, size |-> 0, cancelled |-> FALSE, errs |-> FALSE, result |-> "none"]

StopInit ==
    /\ hit = [t \in Trades |-> FALSE]
    /\ todo = {}
    /\ cur = {}
    /\ close = [c \in Closers |-> Idle]
    /\ sold = 0
    /\ upsets = 0

Resting == {t \in Trades : order[t] = "resting"}
OpenRows == {t \in Trades : row[t].st \in {"filled", "partially_filled"}}

Ends(c, res) == close' = [close EXCEPT ![c] = [Idle EXCEPT !.at = "end", !.result = res]]

-----------------------------------------------------------------------------
(* close_position. *)

\* The product's open orders are read and cancelled one by one; a denied read
\* or a refused cancel is an error to remember.
CloseCancels(c) ==
    /\ close[c].at = "cancel"
    /\ \E kept \in IF May("close") THEN SUBSET Resting ELSE {{}}, unread \in Fails("close") :
          /\ unread => kept = Resting
          /\ order' = [t \in Trades |-> IF t \in Resting \ kept THEN "done" ELSE order[t]]
          /\ close' = [close EXCEPT ![c].at = "read", ![c].cancelled = Resting # kept, ![c].errs = unread \/ kept # {}]
    /\ UNCHANGED <<kind, call, seen, intent, row, filled, sync, attempts, rule, counted, window, at, gap>>
    /\ UNCHANGED <<syncVars, hit, todo, cur, sold, upsets>>

\* The position is read.  Without one the close is done if orders were
\* cancelled, and there was nothing to close if none rested.
CloseReads(c) ==
    /\ close[c].at = "read"
    /\ IF Position > 0
       THEN close' = [close EXCEPT ![c] = [Idle EXCEPT !.at = "order", !.left = Position, !.size = Position]]
       ELSE Ends(c, IF close[c].errs THEN "failed" ELSE IF close[c].cancelled THEN "ok" ELSE "nothing")
    /\ UNCHANGED <<submitVars, syncVars, hit, todo, cur, sold, upsets>>

\* An unreadable position, or a closing order that is refused, ends the close.
CloseFails(c) ==
    /\ May("close")
    /\ close[c].at \in {"read", "order", "verify"}
    /\ Ends(c, "failed")
    /\ UNCHANGED <<submitVars, syncVars, hit, todo, cur, sold, upsets>>

\* Mutant: the order is for what the position was when it was read.
CloseOrdersStale(c) ==
    /\ close[c].at = "order"
    /\ sold' = sold + close[c].left
    /\ close' = [close EXCEPT ![c].at = "verify"]
    /\ UNCHANGED <<submitVars, syncVars, hit, todo, cur, upsets>>

\* A reduce-only market order for what is left, or what there is; it may fill
\* in part.  A close of the whole position closes the row of the open trade.
CloseOrders(c) ==
    /\ close[c].at = "order"
    /\ IF Position = 0 \/ close[c].left = 0 \/ close[c].tries = 3
       THEN close' = [close EXCEPT ![c] = [Idle EXCEPT !.at = "verify"]] /\ UNCHANGED <<row, sold>>
       ELSE LET amount == IF close[c].left < Position THEN close[c].left ELSE Position
            IN  /\ \E n \in 1..amount : sold' = sold + n
                /\ close' = [close EXCEPT ![c].left = @ - amount, ![c].tries = @ + 1]
                /\ \/ amount >= close[c].size /\ \E t \in OpenRows : row' = [row EXCEPT ![t].st = "closed"]
                   \/ (amount < close[c].size \/ OpenRows = {} \/ May("db")) /\ UNCHANGED row
    /\ UNCHANGED <<kind, call, seen, intent, order, filled, sync, attempts, rule, counted, window, at, gap>>
    /\ UNCHANGED <<syncVars, hit, todo, cur, upsets>>

\* Position and open orders are read again.
CloseVerifies(c) ==
    /\ close[c].at = "verify"
    /\ Ends(c, IF Position = 0 /\ Resting = {} THEN "ok" ELSE "failed")
    /\ UNCHANGED <<submitVars, syncVars, hit, todo, cur, sold, upsets>>

CloseStep(c) == CloseCancels(c) \/ CloseReads(c) \/ CloseFails(c) \/ CloseOrders(c) \/ CloseVerifies(c)

-----------------------------------------------------------------------------
(* Who closes. *)

PriceHits(t) ==
    /\ rule[t] = "armed"
    /\ ~hit[t]
    /\ hit' = [hit EXCEPT ![t] = TRUE]
    /\ UNCHANGED <<submitVars, syncVars, todo, cur, close, sold, upsets>>

\* process_stop_losses reads all rules and goes through those that trigger.
ScanStarts ==
    /\ todo = {} /\ cur = {}
    /\ todo' = {t \in Trades : rule[t] = "armed" /\ hit[t]}
    /\ todo' # {}
    /\ UNCHANGED <<submitVars, syncVars, hit, cur, close, sold, upsets>>

\* Mutant: a rule fires when its price is crossed, and not again while it stays there.
ScanFiresEdge(t) ==
    /\ t \in todo /\ cur = {}
    /\ cur' = {t}
    /\ hit' = [hit EXCEPT ![t] = FALSE]
    /\ close' = [close EXCEPT !["scan"].at = "cancel"]
    /\ UNCHANGED <<submitVars, syncVars, todo, sold, upsets>>

ScanFires(t) ==
    /\ t \in todo /\ cur = {}
    /\ cur' = {t}
    /\ close' = [close EXCEPT !["scan"].at = "cancel"]
    /\ UNCHANGED <<submitVars, syncVars, hit, todo, sold, upsets>>

\* Mutant: a rule whose close failed is spent as well.
ScanSettlesAny(t) ==
    /\ cur = {t}
    /\ close["scan"].at = "end"
    /\ rule' = [rule EXCEPT ![t] = "spent"]
    /\ todo' = todo \ {t}
    /\ cur' = {}
    /\ close' = [close EXCEPT !["scan"] = Idle]
    /\ UNCHANGED <<kind, call, seen, intent, row, order, filled, sync, attempts, counted, window, at, gap>>
    /\ UNCHANGED <<syncVars, hit, sold, upsets>>

\* A rule is spent when its close succeeded or found nothing to close; one whose
\* close failed is tried again by the next scan.  A failing write of the rule
\* ends the scan.
ScanSettles(t) ==
    /\ cur = {t}
    /\ close["scan"].at = "end"
    /\ \E failed \in Fails("db") :
          /\ rule' = IF close["scan"].result \in {"ok", "nothing"} /\ ~failed
                     THEN [rule EXCEPT ![t] = "spent"] ELSE rule
          /\ todo' = IF failed THEN {} ELSE todo \ {t}
    /\ cur' = {}
    /\ close' = [close EXCEPT !["scan"] = Idle]
    /\ UNCHANGED <<kind, call, seen, intent, row, order, filled, sync, attempts, counted, window, at, gap>>
    /\ UNCHANGED <<syncVars, hit, sold, upsets>>

UserCloses ==
    /\ May("user")
    /\ close["user"].at = "idle"
    /\ upsets < MaxUpsets
    /\ upsets' = upsets + 1
    /\ close' = [close EXCEPT !["user"].at = "cancel"]
    /\ UNCHANGED <<submitVars, syncVars, hit, todo, cur, sold>>

UserIsAnswered ==
    /\ close["user"].at = "end"
    /\ close' = [close EXCEPT !["user"] = Idle]
    /\ UNCHANGED <<submitVars, syncVars, hit, todo, cur, sold, upsets>>

StopStep ==
    \/ \E c \in Closers : CloseStep(c)
    \/ \E t \in Trades : PriceHits(t) \/ ScanFires(t) \/ ScanSettles(t)
    \/ ScanStarts \/ UserCloses \/ UserIsAnswered
=============================================================================
