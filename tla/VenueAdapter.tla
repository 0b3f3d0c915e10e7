---------------------------- MODULE VenueAdapter ----------------------------
(* The venue as an executor sees it: engine/adapter/nado.py over             *)
(* venue/nado_client.py, with the retries of engine/executor_base.py::_guard *)
(* and the websocket lifecycle of engine/order_lifecycle.py.                 *)
(*                                                                           *)
(* A leg has one adapter call under way at a time (call); its outcome is     *)
(* delivered in ret, from where the executor takes it. A call is one or two  *)
(* steps: what the venue answers to the first request, and the read of the   *)
(* fills feed that follows. One product, so one coalesced open-orders        *)
(* snapshot. Amounts are in units of more than a lot.                        *)
EXTENDS Integers, FiniteSets, FiniteSetsExt

CONSTANTS Legs,        \* executors of the session
          OrdersPer,   \* bound: orders a leg gets onto the venue
          Size,        \* units of an entry
          MaxAttempts, \* MAX_ATTEMPTS of the executor
          Faults,      \* what may go wrong with a leg's orders and calls: see FaultKinds
          None

FaultKinds == {"reject", "unknown", "throttle", "cancel", "denied", "feed_denied", "lag", "drop", "split"}

ASSUME AdapterAssumption ==
    /\ OrdersPer \in [Legs -> Nat \ {0}] /\ Size \in Nat \ {0} /\ MaxAttempts \in Nat \ {0}
    /\ Faults \in [Legs -> SUBSET FaultKinds] /\ None \notin (Legs \X Nat) /\ IsFiniteSet(Legs)

VARIABLES placed, book, amount, filled, feed, reduce, \* the venue: orders sent so far, resting, sizes, fills, the fills feed, reduce-only orders
          refs, cache, acked, snap,           \* the adapter: _orders and the registry, _status_cache, _cancel_acked, _open_orders_snap
          heard, dirty,                       \* the lifecycle: orders with an event, orders with one since the cached status
          call, ret, lost                     \* calls under way and delivered; history: orders whose placement got no answer

venueVars == <<placed, book, amount, filled, feed, reduce>>
adapterVars == <<refs, cache, acked, snap, heard, dirty>>
calls == <<call, ret, lost>>
adapterAll == <<placed, book, amount, filled, feed, reduce, refs, cache, acked, snap, heard, dirty, call, ret, lost>>

Orders == UNION {{l} \X (1..OrdersPer[l]) : l \in Legs}
Terminal == {"FILLED", "CANCELLED", "REJECTED"}
Status == [st : {"OPEN", "PARTIALLY_FILLED"} \cup Terminal, base : Nat]
NoStatus == [st |-> "none", base |-> 0]
Ops == {"none", "place", "placed_fills", "status", "final_fills", "held_fills", "cancel", "verify", "replace"}
NoCall == [op |-> "none", order |-> None, tries |-> 0, size |-> 0, market |-> FALSE, exit |-> FALSE]
NoRet == [kind |-> "none", order |-> None, st |-> "none", base |-> 0]
NoSnap == [kind |-> "none", now |-> FALSE, view |-> {}]

AdapterTypeOK ==
    /\ placed \in [Legs -> Nat] /\ book \subseteq Orders /\ reduce \subseteq Orders
    /\ amount \in [Orders -> Nat] /\ filled \in [Orders -> Nat] /\ feed \in [Orders -> Nat]
    /\ refs \subseteq Orders /\ acked \subseteq Orders /\ heard \subseteq Orders /\ dirty \subseteq Orders
    /\ cache \in [Orders -> Status \cup {NoStatus}]
    /\ snap.kind \in {"none", "list", "denied"} /\ snap.now \in BOOLEAN /\ snap.view \subseteq Orders
    /\ \A l \in Legs : call[l].op \in Ops /\ call[l].order \in Orders \cup {None}
    /\ \A l \in Legs : ret[l].kind \in {"none", "ok", "failed", "throttled"} /\ ret[l].order \in Orders \cup {None}
    /\ lost \subseteq Orders

AdapterInit ==
    /\ placed = [l \in Legs |-> 0] /\ book = {} /\ reduce = {}
    /\ amount = [o \in Orders |-> 0] /\ filled = [o \in Orders |-> 0] /\ feed = [o \in Orders |-> 0]
    /\ refs = {} /\ cache = [o \in Orders |-> NoStatus] /\ acked = {} /\ snap = NoSnap
    /\ heard = {} /\ dirty = {}
    /\ call = [l \in Legs |-> NoCall] /\ ret = [l \in Legs |-> NoRet] /\ lost = {}

-----------------------------------------------------------------------------
(* Calls and _guard.                                                         *)

Idle(l) == call[l].op = "none" /\ ret[l].kind = "none"
Start(l, c) == call' = [call EXCEPT ![l] = c]
Place(size, market, exit) == [NoCall EXCEPT !.op = "place", !.size = size, !.market = market, !.exit = exit]
OrderStatus(o) == [NoCall EXCEPT !.op = "status", !.order = o]
CancelOrder(o) == [NoCall EXCEPT !.op = "cancel", !.order = o]
CancelAndPlace(o, size) == [NoCall EXCEPT !.op = "replace", !.order = o, !.size = size]

Deliver(l, r) == call' = [call EXCEPT ![l] = NoCall] /\ ret' = [ret EXCEPT ![l] = r]
Answer(l, s) == Deliver(l, [kind |-> "ok", order |-> call[l].order, st |-> s.st, base |-> s.base])

\* An AdapterError: the same operation again, from its first request.
Retry(l) ==
    IF call[l].tries + 1 < MaxAttempts
    THEN /\ call' = [call EXCEPT ![l].tries = @ + 1,
                                 ![l].op = CASE @ = "verify" -> "cancel"
                                             [] @ = "final_fills" -> "status"
                                             [] OTHER -> @]
         /\ UNCHANGED ret
    ELSE Deliver(l, [NoRet EXCEPT !.kind = "failed"])

-----------------------------------------------------------------------------
(* The venue.                                                                *)

\* The account's position in the product. Entries of every leg are on one side.
Position == MapThenSumSet(LAMBDA o : filled[o], Orders \ reduce)
            - MapThenSumSet(LAMBDA o : filled[o], reduce)
NextOrder(l) == <<l, placed[l] + 1>>
\* What the feed shows of an order that has n fills: all of them, or fewer while it lags.
Shown(o, n) == IF "lag" \in Faults[o[1]] THEN feed[o]..n ELSE {n}

\* A resting order trades a unit; a reduce-only one only against a position.
VenueFill(o) ==
    /\ o \in book /\ (o \in reduce => Position > 0)
    /\ filled' = [filled EXCEPT ![o] = @ + 1]
    /\ \E f \in Shown(o, filled[o] + 1) : feed' = [feed EXCEPT ![o] = f]
    /\ book' = IF filled[o] + 1 = amount[o] THEN book \ {o} ELSE book
    /\ UNCHANGED <<placed, amount, reduce, adapterVars, calls>>

\* Expiry, self-trade prevention, margin: the venue takes an order off the book.
VenueDrop(o) ==
    /\ "drop" \in Faults[o[1]] /\ o \in book
    /\ book' = book \ {o}
    /\ UNCHANGED <<placed, amount, filled, feed, reduce, adapterVars, calls>>

FeedCatchesUp(o) ==
    /\ feed[o] < filled[o]
    /\ feed' = [feed EXCEPT ![o] = filled[o]]
    /\ UNCHANGED <<placed, book, amount, filled, reduce, adapterVars, calls>>

\* An order_update or fill event of the stream. Events may be lost; one that comes marks the cached status stale.
StreamEvent(o) ==
    /\ o \in refs /\ o \notin dirty
    /\ heard' = heard \cup {o} /\ dirty' = dirty \cup {o}
    /\ UNCHANGED <<venueVars, refs, cache, acked, snap, calls>>

\* begin_cycle: a new status epoch.
BeginCycle ==
    /\ snap.now
    /\ snap' = [snap EXCEPT !.now = FALSE]
    /\ UNCHANGED <<venueVars, refs, cache, acked, heard, dirty, calls>>

-----------------------------------------------------------------------------
(* place_order. The client returns no fill amounts; a MARKET order is taken  *)
(* for FILLED and its amounts are read from the feed. A request that times   *)
(* out after the venue took it is an error like any other.                   *)

\* The venue takes the next order of l, of which n units trade at once, and the orders gone leave the book.
OnVenue(l, n, gone) ==
    LET o == NextOrder(l) IN
    /\ placed[l] < OrdersPer[l]
    /\ placed' = [placed EXCEPT ![l] = @ + 1]
    /\ amount' = [amount EXCEPT ![o] = call[l].size]
    /\ filled' = [filled EXCEPT ![o] = n]
    /\ \E f \in Shown(o, n) : feed' = [feed EXCEPT ![o] = f]
    /\ book' = (book \ gone) \cup (IF call[l].market THEN {} ELSE {o})
    /\ reduce' = IF call[l].exit THEN reduce \cup {o} ELSE reduce

\* What a market order fills: all of it, or what is left of the position, if anything.
Crossed(l) == IF ~call[l].market THEN 0
              ELSE IF call[l].exit THEN Cardinality({n \in 1..call[l].size : n <= Position})
              ELSE call[l].size

PlaceAccepted(l) ==
    LET o == NextOrder(l) IN
    /\ call[l].op = "place"
    /\ OnVenue(l, Crossed(l), {})
    /\ refs' = refs \cup {o}
    /\ snap' = NoSnap
    /\ heard' = IF call[l].market THEN heard \cup {o} ELSE heard
    /\ IF call[l].market
       THEN call' = [call EXCEPT ![l].op = "placed_fills", ![l].order = o] /\ UNCHANGED ret
       ELSE Deliver(l, [kind |-> "ok", order |-> o, st |-> "OPEN", base |-> 0])
    /\ UNCHANGED <<cache, acked, dirty, lost>>

\* The fills follow-up: without amounts the order is reported partially filled.
PlacedFills(l) ==
    LET o == call[l].order IN
    /\ call[l].op = "placed_fills"
    /\ \/ Answer(l, IF feed[o] > 0 THEN [st |-> "FILLED", base |-> feed[o]]
                                   ELSE [st |-> "PARTIALLY_FILLED", base |-> 0])
       \/ "feed_denied" \in Faults[l] /\ Answer(l, [st |-> "PARTIALLY_FILLED", base |-> 0])
    /\ UNCHANGED <<venueVars, adapterVars, lost>>

PlaceRejected(l) ==
    /\ "reject" \in Faults[l] /\ call[l].op = "place"
    /\ Retry(l)
    /\ UNCHANGED <<venueVars, adapterVars, lost>>

PlaceUnanswered(l) ==
    /\ "unknown" \in Faults[l] /\ call[l].op = "place"
    /\ OnVenue(l, Crossed(l), {})
    /\ lost' = lost \cup {NextOrder(l)}
    /\ Retry(l)
    /\ UNCHANGED adapterVars

\* The wallet's execute budget is empty: nothing was sent, and _guard does not retry.
PlaceThrottled(l) ==
    /\ "throttle" \in Faults[l] /\ call[l].op = "place"
    /\ Deliver(l, [NoRet EXCEPT !.kind = "throttled"])
    /\ UNCHANGED <<venueVars, adapterVars, lost>>

-----------------------------------------------------------------------------
(* cancel_order.                                                             *)

Gone(o) == /\ cache' = [cache EXCEPT ![o] = NoStatus] /\ acked' = acked \cup {o}

Cancelled(l) ==
    LET o == call[l].order IN
    /\ call[l].op = "cancel" /\ o \in refs /\ o \in book
    /\ book' = book \ {o}
    /\ Gone(o) /\ snap' = NoSnap
    /\ Answer(l, [st |-> "none", base |-> 0])
    /\ UNCHANGED <<placed, amount, filled, feed, reduce, refs, heard, dirty, lost>>

\* The venue refused, for it has no such order or by a fault, before or after it took the order off the book.
CancelNotConfirmed(l) ==
    LET o == call[l].order IN
    /\ call[l].op = "cancel" /\ o \in refs
    /\ \/ o \notin book /\ UNCHANGED book
       \/ "cancel" \in Faults[l] /\ book' \in {book, book \ {o}}
    /\ snap' = NoSnap
    /\ call' = [call EXCEPT ![l].op = "verify"]
    /\ UNCHANGED <<placed, amount, filled, feed, reduce, refs, cache, acked, heard, dirty, ret, lost>>

\* _verify_no_longer_open reads the book itself; a denied read proves nothing.
CancelVerified(l) ==
    LET o == call[l].order IN
    /\ call[l].op = "verify" /\ o \notin book
    /\ Gone(o) /\ refs' = refs \ {o}
    /\ Answer(l, [st |-> "none", base |-> 0])
    /\ UNCHANGED <<venueVars, snap, heard, dirty, lost>>

CancelRefuted(l) ==
    /\ call[l].op = "verify" /\ (call[l].order \in book \/ "denied" \in Faults[l])
    /\ Retry(l)
    /\ UNCHANGED <<venueVars, adapterVars, lost>>

\* An order the adapter no longer knows and does not find on the book: False, and no error. An order is
\* forgotten once it left the book, so the search of the book for it finds nothing (it does after a restart).
CancelUnknown(l) ==
    LET o == call[l].order IN
    /\ call[l].op = "cancel" /\ o \notin refs /\ o \notin book
    /\ Answer(l, [st |-> "none", base |-> 0])
    /\ UNCHANGED <<venueVars, adapterVars, lost>>

-----------------------------------------------------------------------------
(* cancel_and_place, called for the leg of the new order: one request, which *)
(* is not retried.                                                           *)

\* The venue cancels and places, or ("split") places only. It may take an order that is gone for cancelled.
Replaced(l) ==
    LET o == call[l].order IN
    /\ call[l].op = "replace"
    /\ \E gone \in {{o}} \cup (IF "split" \in Faults[l] THEN {{}} ELSE {}) : OnVenue(l, 0, gone)
    /\ refs' = refs \cup {NextOrder(l)}
    /\ snap' = NoSnap
    /\ Deliver(l, [kind |-> "ok", order |-> NextOrder(l), st |-> "OPEN", base |-> 0])
    /\ UNCHANGED <<cache, acked, heard, dirty, lost>>

\* Refused as a whole, by a fault or because the order to cancel is gone.
ReplaceRejected(l) ==
    /\ call[l].op = "replace" /\ ("reject" \in Faults[l] \/ call[l].order \notin book)
    /\ Deliver(l, [NoRet EXCEPT !.kind = "failed"])
    /\ UNCHANGED <<venueVars, adapterVars, lost>>

\* An answer that is lost looks the same, and the order replaced is gone.
ReplaceUnanswered(l) ==
    /\ "unknown" \in Faults[l] /\ call[l].op = "replace"
    /\ OnVenue(l, 0, {call[l].order})
    /\ lost' = lost \cup {NextOrder(l)}
    /\ Deliver(l, [NoRet EXCEPT !.kind = "failed"])
    /\ UNCHANGED adapterVars

ReplaceThrottled(l) ==
    /\ "throttle" \in Faults[l] /\ call[l].op = "replace"
    /\ Deliver(l, [NoRet EXCEPT !.kind = "throttled"])
    /\ UNCHANGED <<venueVars, adapterVars, lost>>

\* forget_cancelled, once the leg of the order that was replaced is settled. No call of the venue.
ForgetCancelled(o) ==
    /\ Gone(o)
    /\ refs' = refs \ {o}
    /\ snap' = IF o \in refs THEN NoSnap ELSE snap
    /\ UNCHANGED <<heard, dirty>>

-----------------------------------------------------------------------------
(* order_status: the cached status where the lifecycle vouches for it, else  *)
(* the coalesced book read and, where it is needed, the fills feed.          *)

\* A status is kept unless the read it rests on was denied in this epoch. It is kept with the sequence number
\* read before the requests; an event that comes during them may as well come right after.
Held == snap.kind = "denied" /\ snap.now
Keep(o, s) == IF Held THEN UNCHANGED <<cache, dirty>>
              ELSE cache' = [cache EXCEPT ![o] = s] /\ dirty' = dirty \ {o}
HeldStatus(o) == IF cache[o] # NoStatus /\ cache[o].st \notin Terminal THEN cache[o]
                 ELSE [st |-> "OPEN", base |-> 0]

ShortCircuit(o) == /\ cache[o] # NoStatus
                   /\ cache[o].st \in Terminal \/ (o \in heard /\ o \notin dirty)
StatusCached(l) ==
    LET o == call[l].order IN
    /\ call[l].op = "status" /\ o \in refs /\ ShortCircuit(o)
    /\ Answer(l, cache[o])
    /\ UNCHANGED <<venueVars, adapterVars, lost>>

StatusUnknown(l) ==
    LET o == call[l].order IN
    /\ call[l].op = "status" /\ o \notin refs /\ o \notin book
    /\ Retry(l)
    /\ UNCHANGED <<venueVars, adapterVars, lost>>

\* The view of the book a status is decided on: this cycle's snapshot, an earlier list while its
\* time to live lasts, or a new read, which may be denied. The rows get_open_orders builds name an order and
\* its price and size; none of the keys the adapter looks for a filled amount under is among them.
BookRead == [kind |-> "list", now |-> TRUE, view |-> book]
OpenOrdersCoalesced(o) ==
    {s \in {snap} : s.kind = "list" \/ (s.kind = "denied" /\ s.now)}
    \cup (IF snap.kind = "list" /\ snap.now /\ o \notin dirty THEN {}
          ELSE {BookRead} \cup (IF "denied" \in Faults[o[1]]
                               THEN {[NoSnap EXCEPT !.kind = "denied", !.now = TRUE]} ELSE {}))

\* mutant: a denied read is taken for an empty book
AfterBookDeniedIsEmpty(o, s) == "final_fills"
\* What follows a view of the book that does not show the order.
AfterBook(o, s) == IF s.kind = "denied" /\ o \notin acked THEN "held_fills" ELSE "final_fills"

\* An order the view shows is OPEN with nothing filled, for the rows show no fills.
StatusBook(l) ==
    LET o == call[l].order IN
    /\ call[l].op = "status" /\ o \in refs
    /\ cache[o].st \notin Terminal
    /\ \E s \in OpenOrdersCoalesced(o) :
         /\ snap' = s
         /\ IF s.kind = "list" /\ o \in s.view
            THEN /\ Answer(l, [st |-> "OPEN", base |-> 0])
                 /\ cache' = [cache EXCEPT ![o] = [st |-> "OPEN", base |-> 0]]
                 /\ dirty' = dirty \ {o}
            ELSE /\ call' = [call EXCEPT ![l].op = AfterBook(o, s)]
                 /\ UNCHANGED <<cache, dirty, ret>>
    /\ UNCHANGED <<venueVars, refs, acked, heard, lost>>

\* Book denied: fills the feed shows count, whatever it showed in this epoch; none is no evidence.
HeldFills(l) ==
    LET o == call[l].order IN
    /\ call[l].op = "held_fills"
    /\ \E fb \in 0..feed[o] :
         IF fb = 0 THEN Answer(l, HeldStatus(o)) /\ UNCHANGED <<cache, dirty>>
         ELSE LET s == [st |-> IF fb = amount[o] THEN "FILLED" ELSE "PARTIALLY_FILLED", base |-> fb]
              IN Answer(l, s) /\ Keep(o, s)
    /\ UNCHANGED <<venueVars, refs, acked, snap, heard, lost>>

FinalFills(l) ==
    LET o == call[l].order
        s == [st |-> IF feed[o] = amount[o] THEN "FILLED" ELSE "CANCELLED", base |-> feed[o]] IN
    /\ call[l].op = "final_fills"
    /\ \/ Answer(l, s) /\ Keep(o, s) /\ acked' = acked \ {o}
       \/ "feed_denied" \in Faults[l] /\ Answer(l, HeldStatus(o)) /\ UNCHANGED <<cache, dirty, acked>>
    /\ UNCHANGED <<venueVars, refs, snap, heard, lost>>

StatusError(l) ==
    /\ "reject" \in Faults[l]
    /\ call[l].op \in {"status", "final_fills"}
    /\ Retry(l)
    /\ UNCHANGED <<venueVars, adapterVars, lost>>

-----------------------------------------------------------------------------
AdapterStep(l) ==
    \/ PlaceAccepted(l) \/ PlacedFills(l) \/ PlaceRejected(l) \/ PlaceUnanswered(l) \/ PlaceThrottled(l)
    \/ Cancelled(l) \/ CancelNotConfirmed(l) \/ CancelVerified(l) \/ CancelRefuted(l) \/ CancelUnknown(l)
    \/ Replaced(l) \/ ReplaceRejected(l) \/ ReplaceUnanswered(l) \/ ReplaceThrottled(l)
    \/ StatusCached(l) \/ StatusUnknown(l) \/ StatusBook(l)
    \/ HeldFills(l) \/ FinalFills(l) \/ StatusError(l)

VenueStep == \/ BeginCycle
             \/ \E o \in Orders : VenueFill(o) \/ VenueDrop(o) \/ FeedCatchesUp(o) \/ StreamEvent(o)
=============================================================================
