----------------------------- MODULE CopyTrading -----------------------------
(* trading/copy_service.py for one mirror: the poller that copies a leader's *)
(* positions, the user's start, stop, pause and resume, the copy_mirrors and *)
(* copy_positions rows, the maker opens whose fate is unknown, and what the  *)
(* follower really holds and rests on the venue.                             *)
(*                                                                           *)
(* Sizes are signed lots. A copy_positions row is named by the maker order   *)
(* it was opened with. The poller and the user's stop interleave at every    *)
(* venue call and every database call that the other can observe. Ages are   *)
(* counted in polls; the confirmation windows of the sweep may or may not    *)
(* have elapsed at a later poll. Brackets are not placed (the leader's are   *)
(* undetectable), and trimming to dust is a close.                           *)
EXTENDS Integers, FiniteSets, FiniteSetsExt

CONSTANTS Products,
          MaxLots,      \* the copy's budget, and bound: the leader's largest position
          Lots,         \* the positions the leader may take
          MaxMoves,     \* bound: leader moves
          MaxOrders,    \* bound: maker opens that matter at the same time
          MaxStops,     \* bound: stop_copy calls
          MaxUpsets,    \* bound: starts, pauses, restarts, external closes and refused orders, together
          GiveUp,       \* MAKER_PENDING_GIVE_UP_SECONDS in polls
          Faults        \* subset of {"archive", "cancel", "leader", "silent", "venue"}

ASSUME CopyAssumption ==
    /\ MaxLots \in Nat \ {0} /\ Lots \subseteq -MaxLots..MaxLots /\ GiveUp \in Nat \ {0}
    /\ {MaxMoves, MaxOrders, MaxStops, MaxUpsets} \subseteq Nat /\ Products # {}

VARIABLES mirror,   \* the copy_mirrors row
          leader, held, \* what the leader and the follower hold
          ord,      \* maker opens on the venue
          row,      \* copy_positions
          pend,     \* _PENDING_MAKER_OPENS
          saved,    \* its copy in bot_state
          suspects, \* _EXTERNAL_CLOSE_SUSPECTS
          lost,     \* history: products whose exposure the code has let go of
          pc,       \* of the poller and of the user's stop
          k,        \* the poller's locals
          fl,       \* locals of _flatten_mirror_positions, per caller
          used      \* bounds spent

vars == <<mirror, leader, held, ord, row, pend, saved, suspects, lost, pc, k, fl, used>>

Orders == 1..MaxOrders
Sides == {-1, 1}
Abs(x) == IF x < 0 THEN -x ELSE x
Least(a, b) == IF a < b THEN a ELSE b
Side(x) == IF x < 0 THEN -1 ELSE 1
NoPend == [o |-> 0, acked |-> FALSE, age |-> 0]
NoOrder == [p |-> CHOOSE p \in Products : TRUE, d |-> 1, size |-> 0, filled |-> 0, live |-> FALSE]
NoRow == [st |-> "none", size |-> 0, base |-> 0]
Placed == {o \in Orders : ord[o].size > 0}
OpenRows == {o \in Orders : row[o].st = "open"}
Pending == {p \in Products : pend[p].o # 0}
Actors == {"poll", "user"}
PollPCs == {"idle", "leader", "resolve", "verdict", "late", "rearm", "venue", "sweep", "close", "open",
            "check", "place", "wait", "readback", "insert", "recheck", "register", "rearm_pending",
            "unwind", "add", "grow", "book", "flatten", "flat_book", "stop_row", "clear"}
Flat0 == [todo |-> {}, errs |-> FALSE, o |-> 0]
K0 == [mode |-> "copy", lmap |-> [p \in Products |-> 0], trusted |-> FALSE,
       rows |-> [p \in Products |-> 0], vmap |-> [p \in Products |-> 0], suspect |-> TRUE,
       todo |-> {}, p |-> CHOOSE p \in Products : TRUE, o |-> 0, seen |-> 0, q |-> NoPend, cut |-> 0,
       base |-> 0, back |-> "open"]

TypeOK ==
    /\ mirror \in [active : BOOLEAN, stop : BOOLEAN, paused : BOOLEAN]
    /\ leader \in [Products -> -MaxLots..MaxLots]
    /\ \A p \in Products : held[p] \in Int
    /\ \A o \in Orders : /\ ord[o].p \in Products /\ ord[o].d \in Sides /\ ord[o].size \in 0..MaxLots
                         /\ ord[o].filled \in 0..ord[o].size
                         /\ ord[o].live => ord[o].filled < ord[o].size
                         /\ row[o].st \in {"none", "open", "closed"}
                         /\ row[o].st = "open" => row[o].size > 0 /\ row[o].base \in 1..MaxLots
    /\ \A p \in Products : \A q \in {pend[p], saved[p]} :
         q.o \in 0..MaxOrders /\ q.age \in 0..(2 * GiveUp) /\ q.acked \in BOOLEAN
    /\ suspects \subseteq Products /\ lost \subseteq Products
    /\ pc["poll"] \in PollPCs /\ pc["user"] \in {"idle", "flatten", "flat_book", "stop_row", "clear"}
    /\ k.todo \subseteq Products /\ k.mode \in {"copy", "stop", "orphan"}
    /\ \A t \in Actors : fl[t].todo \subseteq Orders \X (1..MaxLots)

\* A mirror that start_copy has just created.
Init ==
    /\ mirror = [active |-> TRUE, stop |-> FALSE, paused |-> FALSE]
    /\ leader \in [Products -> Lots] /\ held = [p \in Products |-> 0]
    /\ ord = [o \in Orders |-> NoOrder] /\ row = [o \in Orders |-> NoRow]
    /\ pend = [p \in Products |-> NoPend] /\ saved = pend /\ suspects = {} /\ lost = {}
    /\ pc = [t \in Actors |-> "idle"] /\ k = K0 /\ fl = [t \in Actors |-> Flat0]
    /\ used = [moves |-> 0, stops |-> 0, upsets |-> 0]

Spend(b) == used' = [used EXCEPT ![b] = @ + 1]
Upset == used.upsets < MaxUpsets /\ Spend("upsets")
Goto(t, l) == pc' = [pc EXCEPT ![t] = l]
Return(t) == Goto(t, "idle") /\ k' = IF t = "poll" THEN K0 ELSE k
venueVars == <<leader, held, ord>>
pendVars == <<pend, saved, suspects>>

\* The rows that name the mirror's state, as one UPDATE each.
request_copy_mirror_stop == mirror' = [active |-> TRUE, stop |-> TRUE, paused |-> FALSE]
stop_copy_mirror == mirror' = [mirror EXCEPT !.active = FALSE, !.stop = FALSE]
auto_stop_mirror == mirror' = [active |-> FALSE, stop |-> FALSE, paused |-> FALSE]

-----------------------------------------------------------------------------
(* The world: the leader trades, maker opens fill, positions vanish.         *)

LeaderMove(p) ==
    /\ used.moves < MaxMoves /\ Spend("moves")
    /\ \E x \in Lots \ {leader[p]} : leader' = [leader EXCEPT ![p] = x]
    /\ UNCHANGED <<mirror, held, ord, row, pendVars, lost, pc, k, fl>>

Fill(o) ==
    /\ ord[o].live
    /\ LET filled == ord[o].filled + 1
       IN  /\ ord' = [ord EXCEPT ![o].filled = filled, ![o].live = filled < ord[o].size]
           /\ held' = [held EXCEPT ![ord[o].p] = @ + ord[o].d]
    /\ UNCHANGED <<mirror, leader, row, pendVars, lost, pc, k, fl, used>>

\* A manual close, a liquidation: all of the position or some of it.
ExternalClose(p) ==
    /\ held[p] # 0 /\ Upset
    /\ \E x \in 0..(Abs(held[p]) - 1) : held' = [held EXCEPT ![p] = Side(@) * x]
    /\ UNCHANGED <<mirror, leader, ord, row, pendVars, lost, pc, k, fl>>

-----------------------------------------------------------------------------
(* The user.                                                                 *)

\* create_copy_mirror_v2: open rows, or a stop under way, own the mirror.
start_copy ==
    /\ Upset
    /\ ~(mirror.active /\ mirror.stop)
    /\ IF OpenRows # {} THEN request_copy_mirror_stop
                        ELSE mirror' = [active |-> TRUE, stop |-> FALSE, paused |-> FALSE]
    /\ UNCHANGED <<venueVars, row, pendVars, lost, pc, k, fl>>

pause_copy ==
    /\ Upset
    /\ mirror.active /\ ~mirror.stop /\ ~mirror.paused
    /\ mirror' = [mirror EXCEPT !.paused = TRUE]
    /\ UNCHANGED <<venueVars, row, pendVars, lost, pc, k, fl>>

resume_copy ==
    /\ mirror.active /\ ~mirror.stop /\ mirror.paused
    /\ mirror' = [mirror EXCEPT !.paused = FALSE]
    /\ UNCHANGED <<venueVars, row, pendVars, lost, pc, k, fl, used>>

\* _flatten_mirror_positions reads the rows and the pendings once, here.
BeginFlatten(t) == fl' = [fl EXCEPT ![t] = [todo |-> {<<o, row[o].size>> : o \in OpenRows}, errs |-> Pending # {}, o |-> 0]]

stop_copy ==
    /\ used.stops < MaxStops /\ Spend("stops")
    /\ pc["user"] = "idle" /\ mirror.active
    /\ request_copy_mirror_stop /\ BeginFlatten("user") /\ Goto("user", "flatten")
    /\ UNCHANGED <<venueVars, row, pendVars, lost, k>>

-----------------------------------------------------------------------------
(* Reduce-only market closes, and the flatten that both actors run.          *)

\* The venue closes at most what is held on the row's side, and refuses otherwise.
Closes(o, s) ==
    /\ s > 0 /\ held[ord[o].p] * ord[o].d > 0
    /\ held' = [held EXCEPT ![ord[o].p] = @ - ord[o].d * Least(s, Abs(@))]
    /\ UNCHANGED used
Refuses(o, s) ==
    /\ IF s > 0 /\ held[ord[o].p] * ord[o].d > 0 THEN Upset
                                                 ELSE UNCHANGED used
    /\ UNCHANGED held

\* mutant: a fully closed row is only emptied
BookedEmpty(o, left, base) ==
    IF row[o].st # "open" THEN row ELSE [row EXCEPT ![o].size = left, ![o].base = base]
\* close_copy_position and reduce_copy_position touch open rows only.
Booked(o, left, base) ==
    IF row[o].st # "open" THEN row
    ELSE IF left = 0 THEN [row EXCEPT ![o].st = "closed"] ELSE [row EXCEPT ![o].size = left, ![o].base = base]

FlattenClose(t) ==
    /\ pc[t] = "flatten"
    /\ \E c \in fl[t].todo :
         \/ /\ Closes(c[1], c[2])
            /\ fl' = [fl EXCEPT ![t].todo = @ \ {c}, ![t].o = c[1]] /\ Goto(t, "flat_book")
         \/ /\ Refuses(c[1], c[2])
            /\ fl' = [fl EXCEPT ![t].todo = @ \ {c}, ![t].errs = TRUE] /\ UNCHANGED pc
    /\ UNCHANGED <<mirror, leader, ord, row, pendVars, lost, k>>

FlattenBook(t) ==
    /\ pc[t] = "flat_book"
    /\ row' = Booked(fl[t].o, 0, 0) /\ Goto(t, "flatten")
    /\ UNCHANGED <<mirror, venueVars, pendVars, lost, k, fl, used>>

\* Errors leave the stop to the poller.
FlattenEnd(t) ==
    /\ pc[t] = "flatten" /\ fl[t].todo = {}
    /\ IF fl[t].errs THEN Return(t) ELSE Goto(t, "stop_row") /\ UNCHANGED k
    /\ fl' = [fl EXCEPT ![t] = Flat0]
    /\ UNCHANGED <<mirror, venueVars, row, pendVars, lost, used>>

\* The row the poller has in hand and is about to check, unwind or close.
InHand == IF pc["poll"] \in {"recheck", "unwind", "rearm"} \/ (pc["poll"] = "book" /\ k.cut = 0) THEN {k.o} ELSE {}

\* stop_copy_mirror, or auto_stop_mirror after a rail. A row that appeared since
\* the flatten began is let go of here.
StopRow(t) ==
    /\ pc[t] = "stop_row"
    /\ IF t = "poll" /\ k.mode = "copy" THEN auto_stop_mirror ELSE stop_copy_mirror
    /\ lost' = lost \cup {ord[o].p : o \in OpenRows \ InHand}
    /\ Goto(t, "clear")
    /\ UNCHANGED <<venueVars, row, pendVars, k, fl, used>>

_clear_mirror_runtime_state(t) ==
    /\ pc[t] = "clear"
    /\ pend' = [p \in Products |-> NoPend] /\ suspects' = {}
    /\ saved' = IF Pending = {} THEN saved ELSE pend'
    /\ lost' = lost \cup Pending
    /\ Return(t)
    /\ UNCHANGED <<mirror, venueVars, row, fl, used>>

FlattenStep(t) == FlattenClose(t) \/ FlattenBook(t) \/ FlattenEnd(t) \/ StopRow(t) \/ _clear_mirror_runtime_state(t)

-----------------------------------------------------------------------------
(* The poller: _poll_all_mirrors picks what this cycle does for the mirror.  *)

PollGoto(l) == Goto("poll", l)
Kept(l, locals) == PollGoto(l) /\ k' = locals

\* get_all_active_mirrors_v2, and the pass over pendings of mirrors it leaves out.
PollMode ==
    IF mirror.active /\ mirror.stop THEN "stop"
    ELSE IF mirror.active /\ ~mirror.paused THEN "copy" ELSE "orphan"

\* Finished orders with their closed rows are forgotten, which lets MaxOrders name
\* as many opens as come.
Settled(o) ==
    /\ ~ord[o].live /\ row[o].st # "open"
    /\ \A p \in Products : o \notin {pend[p].o, saved[p].o}
    /\ o # fl["user"].o /\ \A c \in fl["user"].todo : c[1] # o
Forget ==
    /\ ord' = [o \in Orders |-> IF Settled(o) THEN NoOrder ELSE ord[o]]
    /\ row' = [o \in Orders |-> IF Settled(o) THEN NoRow ELSE row[o]]

_poll_all_mirrors ==
    /\ pc["poll"] = "idle" /\ Forget
    /\ PollMode = "orphan" => Pending # {}
    /\ Kept(IF PollMode = "copy" THEN "leader" ELSE "resolve", [K0 EXCEPT !.mode = PollMode, !.todo = Pending])
    /\ UNCHANGED <<mirror, leader, held, pendVars, lost, fl, used>>

\* get_latest_copy_snapshot returns a row whose positions are under positions_json:
\* neither key that is looked up is there.
_leader_snapshot_had_positions == FALSE
_leader_read_is_trustworthy(lmap, limited) ==
    (\E p \in Products : lmap[p] # 0) \/ (~limited /\ ~_leader_snapshot_had_positions)

Limited == IF "archive" \in Faults THEN BOOLEAN ELSE {FALSE}

\* A read that raises leaves this cycle the pendings only; a read may be silently empty.
LoadLeader ==
    /\ pc["poll"] = "leader"
    /\ \/ \E lmap \in {leader} \cup (IF "silent" \in Faults THEN {[p \in Products |-> 0]} ELSE {}), limited \in Limited :
            k' = [k EXCEPT !.lmap = lmap, !.trusted = _leader_read_is_trustworthy(lmap, limited)]
       \/ "leader" \in Faults /\ k' = [k EXCEPT !.mode = "orphan"]
    /\ PollGoto("resolve")
    /\ UNCHANGED <<mirror, venueVars, row, pendVars, lost, fl, used>>

-----------------------------------------------------------------------------
(* _resolve_pending_maker_opens_for_mirror.                                  *)

\* What the archive shows of an order: it may be silent or behind.
Shown(o) == {ord[o].filled} \cup (IF "archive" \in Faults THEN 0..ord[o].filled ELSE {})

\* The venue acknowledges a cancel of a live order and of one already gone.
Cancelled(o) == [ord EXCEPT ![o].live = FALSE]
CancelAcks(o) == {TRUE} \cup (IF "cancel" \in Faults /\ ord[o].live THEN {FALSE} ELSE {})

ResolveRead ==
    /\ pc["poll"] = "resolve"
    /\ \E p \in k.todo :
         IF pend[p].o = 0
         THEN k' = [k EXCEPT !.todo = @ \ {p}] /\ UNCHANGED pc
         ELSE \E s \in Shown(pend[p].o) :
                Kept("verdict", [k EXCEPT !.todo = @ \ {p}, !.p = p, !.o = pend[p].o, !.q = pend[p], !.seen = s])
    /\ UNCHANGED <<mirror, venueVars, row, pendVars, lost, fl, used>>

\* mutant: a cancel that never acks is retried for ever
HardGiveUpNever(q) == FALSE
HardGiveUp(q) == q.age >= 2 * GiveUp

\* _pop_pending_maker_open persists before the fill is booked.
Pop(p) == pend' = [pend EXCEPT ![p] = NoPend] /\ saved' = IF pend[p].o = 0 THEN saved ELSE pend'
Older(q) == IF q.o # 0 /\ q.age < 2 * GiveUp THEN [q EXCEPT !.age = @ + 1] ELSE q
ShortBy(p, short) == lost' = IF short THEN lost \cup {p} ELSE lost

\* _resolve_pending_maker_open: filled, gone or unknown. It works on the entry it
\* looked up, which the stop's clear may have dropped meanwhile, and books what
\* the archive showed before the cancel.
ResolveVerdict ==
    /\ pc["poll"] = "verdict"
    /\ \E acks \in IF k.q.acked \/ k.seen = ord[k.o].size THEN {TRUE} ELSE CancelAcks(k.o), limited \in Limited :
         LET gone == IF acks THEN (~limited /\ held[k.p] = 0) \/ k.q.age >= GiveUp ELSE HardGiveUp(k.q)
         IN  /\ ord' = IF acks THEN Cancelled(k.o) ELSE ord
             /\ \/ /\ k.seen > 0 /\ acks
                   /\ Pop(k.p) /\ PollGoto("late") /\ ShortBy(k.p, ord[k.o].filled # k.seen)
                \/ /\ k.seen = 0 /\ gone
                   /\ Pop(k.p) /\ PollGoto("resolve") /\ ShortBy(k.p, ord'[k.o].live \/ ord[k.o].filled > 0)
                \/ /\ IF k.seen > 0 THEN ~acks ELSE ~gone
                   /\ pend' = [pend EXCEPT ![k.p] = IF @.o = 0 THEN @ ELSE [Older(@) EXCEPT !.acked = acks]]
                   /\ saved' = [saved EXCEPT ![k.p] = Older(@)]
                   /\ PollGoto("resolve") /\ UNCHANGED lost
    /\ UNCHANGED <<mirror, leader, held, row, suspects, k, fl, used>>

\* insert_copy_position of a late fill.
InsertLate ==
    /\ pc["poll"] = "late"
    /\ row' = [row EXCEPT ![k.o] = [st |-> "open", size |-> k.seen, base |-> ord[k.o].size]]
    /\ PollGoto("rearm")
    /\ UNCHANGED <<mirror, venueVars, pendVars, lost, k, fl, used>>

Stopped == ~mirror.active \/ mirror.stop

Rearm ==
    /\ pc["poll"] = "rearm"
    /\ IF Stopped THEN request_copy_mirror_stop ELSE UNCHANGED mirror
    /\ PollGoto("resolve")
    /\ UNCHANGED <<venueVars, row, pendVars, lost, k, fl, used>>

\* The newest open row of a product is the one the sync works on.
Newest(p) == LET rs == {o \in OpenRows : ord[o].p = p} IN IF rs = {} THEN 0 ELSE Max(rs)

ResolveDone ==
    /\ pc["poll"] = "resolve" /\ k.todo = {}
    /\ CASE k.mode = "stop" -> BeginFlatten("poll") /\ Kept("flatten", k)
         [] k.mode = "orphan" -> Kept("idle", K0) /\ UNCHANGED fl
         [] OTHER -> Kept("venue", [k EXCEPT !.rows = [p \in Products |-> Newest(p)]]) /\ UNCHANGED fl
    /\ UNCHANGED <<mirror, venueVars, row, pendVars, lost, used>>

-----------------------------------------------------------------------------
(* _sync_mirror_positions: venue read, sweep, rail, leader closes.           *)

ReadVenue ==
    /\ pc["poll"] = "venue"
    /\ \E ok \in (IF "venue" \in Faults THEN BOOLEAN ELSE {TRUE}), limited \in Limited :
         LET vmap == IF ok THEN held ELSE [p \in Products |-> 0]
             blank == (\E p \in Products : k.rows[p] # 0) /\ \A p \in Products : vmap[p] = 0
         IN  Kept("sweep", [k EXCEPT !.vmap = vmap, !.suspect = ~ok \/ limited \/ blank,
                            !.todo = IF ok /\ ~limited THEN {p \in Products : k.rows[p] # 0} ELSE {}])
    /\ UNCHANGED <<mirror, venueVars, row, pendVars, lost, fl, used>>

\* _classify_external_change and what _sweep_external_closes books of it.
Sweep(p) ==
    LET o == k.rows[p]
        v == IF k.vmap[p] * ord[o].d > 0 THEN Abs(k.vmap[p]) ELSE 0
        rest == [k EXCEPT !.todo = @ \ {p}]
    IN  /\ pc["poll"] = "sweep" /\ p \in k.todo
        /\ \/ /\ v >= row[o].size
              /\ suspects' = suspects \ {p} /\ k' = rest /\ UNCHANGED row
           \/ /\ v = 0
              /\ suspects' = suspects \cup {p} /\ k' = rest /\ UNCHANGED row
           \/ /\ v = 0 /\ p \in suspects
              /\ suspects' = suspects \ {p} /\ row' = Booked(o, 0, 0) /\ k' = [rest EXCEPT !.rows[p] = 0]
           \/ /\ v > 0 /\ v < row[o].size
              /\ suspects' = suspects \ {p} /\ row' = Booked(o, v, row[o].base) /\ k' = rest
        /\ UNCHANGED <<mirror, venueVars, pend, saved, lost, pc, fl, used>>

\* The session rail: a loss, or a profit seen twice, flattens and stops the mirror.
Rail ==
    /\ pc["poll"] = "sweep" /\ k.todo = {}
    /\ \/ BeginFlatten("poll") /\ Kept("flatten", k)
       \/ /\ Kept("close", [k EXCEPT !.todo = IF k.trusted THEN {p \in Products : k.rows[p] # 0 /\ k.lmap[p] = 0} ELSE {}])
          /\ UNCHANGED fl
    /\ UNCHANGED <<mirror, venueVars, row, pendVars, lost, used>>

\* A reduce-only close of s lots of row o; its booking is a step of its own.
SendClose(o, s, locals, refused) ==
    \/ Closes(o, s) /\ Kept("book", [locals EXCEPT !.o = o, !.cut = row[o].size - s, !.back = pc["poll"]])
    \/ Refuses(o, s) /\ Kept(pc["poll"], refused)

Without(p) == [k EXCEPT !.todo = @ \ {p}]

CloseGone(p) ==
    /\ pc["poll"] = "close" /\ p \in k.todo
    /\ SendClose(k.rows[p], row[k.rows[p]].size, Without(p), Without(p))
    /\ UNCHANGED <<mirror, leader, ord, row, pendVars, lost, fl>>

CloseGoneDone ==
    /\ pc["poll"] = "close" /\ k.todo = {}
    /\ Kept("open", [k EXCEPT !.trusted = FALSE, !.todo = {p \in Products : k.lmap[p] # 0}])
    /\ UNCHANGED <<mirror, venueVars, row, pendVars, lost, fl, used>>

-----------------------------------------------------------------------------
(* The leader's positions one by one: flip, trim, add or open.               *)

Opening(p) == pc["poll"] = "open" /\ p \in k.todo
Tracks(p) == k.rows[p] # 0
Copy(p) == row[k.rows[p]]
SameSide(p) == ord[k.rows[p]].d = Side(k.lmap[p])
Size(p) == Abs(k.lmap[p])

Flip(p) ==
    /\ Opening(p) /\ Tracks(p) /\ ~SameSide(p)
    /\ SendClose(k.rows[p], Copy(p).size, [k EXCEPT !.rows[p] = 0], Without(p))
    /\ UNCHANGED <<mirror, leader, ord, row, pendVars, lost, fl>>

\* _mirror_partial_close_if_needed, in whole lots.
Trim(p) ==
    /\ Opening(p) /\ Tracks(p) /\ SameSide(p) /\ Size(p) < Copy(p).base
    /\ SendClose(k.rows[p], (Copy(p).size * (Copy(p).base - Size(p))) \div Copy(p).base,
                 [Without(p) EXCEPT !.base = Size(p)], Without(p))
    /\ UNCHANGED <<mirror, leader, ord, row, pendVars, lost, fl>>

BookClose ==
    /\ pc["poll"] = "book"
    /\ row' = Booked(k.o, k.cut, k.base)
    /\ Kept(k.back, [k EXCEPT !.base = 0, !.back = "open"])
    /\ UNCHANGED <<mirror, venueVars, pendVars, lost, fl, used>>

\* _mirror_leader_add_if_needed: the growth ratio, capped by the budget.
Added(p) == Least(MaxLots, (Copy(p).size * Size(p)) \div Copy(p).base) - Copy(p).size

Add(p) ==
    /\ Opening(p) /\ Tracks(p) /\ SameSide(p) /\ Size(p) > Copy(p).base
    /\ IF Added(p) <= 0
       THEN row' = Booked(k.rows[p], Copy(p).size, Size(p)) /\ Kept("open", Without(p))
       ELSE /\ Kept(IF pend[p].o # 0 \/ Stopped \/ mirror.paused THEN "open" ELSE "add", [Without(p) EXCEPT !.p = p])
            /\ UNCHANGED row
    /\ UNCHANGED <<mirror, venueVars, pendVars, lost, fl, used>>

AddSend ==
    /\ pc["poll"] = "add"
    /\ \/ /\ held' = [held EXCEPT ![k.p] = @ + ord[k.rows[k.p]].d * Added(k.p)]
          /\ Kept("grow", [k EXCEPT !.seen = Added(k.p)]) /\ UNCHANGED used
       \/ Upset /\ Kept("open", k) /\ UNCHANGED held
    /\ UNCHANGED <<mirror, leader, ord, row, pendVars, lost, fl>>

\* grow_copy_position. Nothing looks at the mirror again: a stop that landed during
\* the add flattened without it.
Grow ==
    /\ pc["poll"] = "grow"
    /\ row' = Booked(k.rows[k.p], Copy(k.p).size + k.seen, Size(k.p))
    /\ ShortBy(k.p, Stopped \/ Copy(k.p).st # "open")
    /\ PollGoto("open")
    /\ UNCHANGED <<mirror, venueVars, pendVars, k, fl, used>>

\* mutant: an order of unknown fate does not keep an open away
MayOpenPending(p) == ~k.suspect /\ k.vmap[p] = 0
\* A suspect venue read, a position nobody tracks and a pending order keep an open away.
MayOpen(p) == ~k.suspect /\ k.vmap[p] = 0 /\ pend[p].o = 0

\* A copy that matches the leader, a guard, or a price too far from the leader's entry.
Skip(p) ==
    /\ Opening(p)
    /\ Tracks(p) => SameSide(p) /\ Size(p) = Copy(p).base
    /\ Kept("open", Without(p))
    /\ UNCHANGED <<mirror, venueVars, row, pendVars, lost, fl, used>>

\* COPY-STOP-RACE: the mirror is read again before an order is committed.
Open(p) ==
    /\ Opening(p) /\ ~Tracks(p) /\ MayOpen(p) /\ Placed # Orders
    /\ Kept("check", [Without(p) EXCEPT !.p = p])
    /\ UNCHANGED <<mirror, venueVars, row, pendVars, lost, fl, used>>

CheckLive ==
    /\ pc["poll"] = "check"
    /\ IF Stopped \/ mirror.paused THEN Return("poll") ELSE Kept("place", k)
    /\ UNCHANGED <<mirror, venueVars, row, pendVars, lost, fl, used>>

-----------------------------------------------------------------------------
(* _execute_maker_open.                                                      *)

Place ==
    /\ pc["poll"] = "place"
    /\ LET o == Min(Orders \ Placed)
       IN  \/ /\ ord' = [ord EXCEPT ![o] = [p |-> k.p, d |-> Side(k.lmap[k.p]), size |-> Size(k.p), filled |-> 0,
                                           live |-> TRUE]]
              /\ Kept("wait", [k EXCEPT !.o = o]) /\ UNCHANGED used
           \/ Upset /\ Kept("open", k) /\ UNCHANGED ord
    /\ UNCHANGED <<mirror, leader, held, row, pendVars, lost, fl>>

\* The archive shows the whole fill before the deadline.
WaitFilled ==
    /\ pc["poll"] = "wait" /\ ord[k.o].filled = ord[k.o].size
    /\ Kept("insert", [k EXCEPT !.seen = ord[k.o].size])
    /\ UNCHANGED <<mirror, venueVars, row, pendVars, lost, fl, used>>

\* The deadline: cancel the remainder.
WaitOver ==
    /\ pc["poll"] = "wait"
    /\ \E acks \in CancelAcks(k.o) :
         /\ ord' = IF acks THEN Cancelled(k.o) ELSE ord
         /\ Kept("readback", [k EXCEPT !.q = [o |-> k.o, acked |-> acks, age |-> 0]])
    /\ UNCHANGED <<mirror, leader, held, row, pendVars, lost, fl, used>>

\* Any fill shown is booked as it is shown; none at all needs an acked cancel and a flat venue.
ReadBack ==
    /\ pc["poll"] = "readback"
    /\ \E s \in Shown(k.o), limited \in Limited :
         IF s > 0
         THEN /\ Kept("insert", [k EXCEPT !.seen = s])
              /\ ShortBy(k.p, s # ord[k.o].filled \/ ord[k.o].live)
         ELSE /\ PollGoto(IF k.q.acked /\ ~limited /\ held[k.p] = 0 THEN "open" ELSE "register")
              /\ UNCHANGED <<k, lost>>
    /\ UNCHANGED <<mirror, venueVars, row, pendVars, fl, used>>

InsertRow ==
    /\ pc["poll"] = "insert"
    /\ row' = [row EXCEPT ![k.o] = [st |-> "open", size |-> k.seen, base |-> Size(k.p)]]
    /\ PollGoto("recheck")
    /\ UNCHANGED <<mirror, venueVars, pendVars, lost, k, fl, used>>

\* mutant: the row is kept whatever happened to the mirror
RecheckNot ==
    /\ pc["poll"] = "recheck"
    /\ PollGoto("open")
    /\ UNCHANGED <<mirror, venueVars, row, pendVars, lost, k, fl, used>>
\* COPY-STOP-RACE: a stop may have flattened before the row existed.
Recheck ==
    /\ pc["poll"] = "recheck"
    /\ PollGoto(IF Stopped THEN "unwind" ELSE "open")
    /\ UNCHANGED <<mirror, venueVars, row, pendVars, lost, k, fl, used>>

_unwind_stop_raced_open ==
    /\ pc["poll"] = "unwind"
    /\ \/ Closes(k.o, k.seen) /\ Kept("book", [k EXCEPT !.cut = 0]) /\ UNCHANGED mirror
       \/ Refuses(k.o, k.seen) /\ Kept("open", k) /\ request_copy_mirror_stop
    /\ UNCHANGED <<leader, ord, row, pendVars, lost, fl>>

\* mutant: the pending order is kept in memory only
RegisterUnsaved ==
    /\ pc["poll"] = "register"
    /\ pend' = [pend EXCEPT ![k.p] = k.q]
    /\ PollGoto("rearm_pending")
    /\ UNCHANGED <<mirror, venueVars, row, saved, suspects, lost, k, fl, used>>
_register_pending_maker_open ==
    /\ pc["poll"] = "register"
    /\ pend' = [pend EXCEPT ![k.p] = k.q] /\ saved' = pend'
    /\ PollGoto("rearm_pending")
    /\ UNCHANGED <<mirror, venueVars, row, suspects, lost, k, fl, used>>

RearmPending ==
    /\ pc["poll"] = "rearm_pending"
    /\ IF Stopped THEN request_copy_mirror_stop ELSE UNCHANGED mirror
    /\ PollGoto("open")
    /\ UNCHANGED <<venueVars, row, pendVars, lost, k, fl, used>>

SyncDone ==
    /\ pc["poll"] = "open" /\ k.todo = {}
    /\ Return("poll")
    /\ UNCHANGED <<mirror, venueVars, row, pendVars, lost, fl, used>>

-----------------------------------------------------------------------------
(* A restart forgets what only a running call knew.                          *)

Unrecorded == IF pc["poll"] \in {"wait", "readback", "insert", "register", "late", "grow"} THEN {k.p} ELSE {}

boot_stand_down_mirrors ==
    /\ Upset
    /\ pend' = saved /\ suspects' = {}
    /\ mirror' = IF mirror.active /\ ~mirror.stop THEN [mirror EXCEPT !.paused = TRUE] ELSE mirror
    /\ lost' = lost \cup Unrecorded \cup (IF mirror.active THEN {} ELSE {ord[o].p : o \in OpenRows})
    /\ pc' = [t \in Actors |-> "idle"] /\ k' = K0 /\ fl' = [t \in Actors |-> Flat0]
    /\ UNCHANGED <<venueVars, row, saved>>

UserStep == FlattenStep("user")
PollStep ==
    \/ _poll_all_mirrors \/ LoadLeader
    \/ ResolveRead \/ ResolveVerdict \/ InsertLate \/ Rearm \/ ResolveDone
    \/ ReadVenue \/ Rail \/ CloseGoneDone \/ BookClose \/ FlattenStep("poll")
    \/ \E p \in Products : Sweep(p) \/ CloseGone(p) \/ Flip(p) \/ Trim(p) \/ Add(p) \/ Skip(p) \/ Open(p)
    \/ AddSend \/ Grow \/ CheckLive \/ Place \/ WaitFilled \/ WaitOver \/ ReadBack \/ InsertRow \/ Recheck
    \/ _unwind_stop_raced_open \/ _register_pending_maker_open \/ RearmPending \/ SyncDone
World ==
    \/ \E p \in Products : LeaderMove(p) \/ ExternalClose(p)
    \/ \E o \in Orders : Fill(o)
    \/ start_copy \/ pause_copy \/ resume_copy \/ stop_copy \/ boot_stand_down_mirrors
Next == World \/ PollStep \/ UserStep

Spec == Init /\ [][Next]_vars /\ WF_vars(PollStep) /\ WF_vars(UserStep)

-----------------------------------------------------------------------------
Quiet == \A t \in Actors : pc[t] = "idle"
Live(p) == {o \in Orders : ord[o].live /\ ord[o].p = p}
Rows(p) == {o \in OpenRows : ord[o].p = p}

(* A stopped mirror leaves nothing behind: no copied position, no resting    *)
(* order, no open row, whatever the stop raced with in the poller            *)
(* (COPY-STOP-RACE), except an order a pending entry still owns. Products    *)
(* whose exposure one of the known gaps let go of (lost) are excepted.       *)
StoppedIsFlat ==
    ~mirror.active /\ Quiet =>
        \A p \in Products \ lost : pend[p].o # 0 \/ (held[p] = 0 /\ Live(p) = {} /\ Rows(p) = {})

(* Between polls, every lot held and every resting order is owned by an open *)
(* row or by a pending entry, across late fills, trims, adds, flips and      *)
(* restarts (lost products excepted).                                        *)
NothingForgotten ==
    Quiet => \A p \in Products \ lost :
        /\ Live(p) \subseteq {pend[p].o}
        /\ Abs(held[p]) <= MapThenSumSet(LAMBDA o : row[o].size, Rows(p))
                            + (IF pend[p].o = 0 THEN 0 ELSE ord[pend[p].o].filled)

(* An open is only ever sent for a product that is flat and has no resting   *)
(* order: "a live resting order + a fresh order = double exposure".          *)
OpensFromFlat ==
    [][\A o \in Orders : ord[o].size = 0 /\ ord'[o].size > 0 =>
          LET p == ord'[o].p IN p \in lost \/ (held[p] = 0 /\ Live(p) = {})]_vars

(* An open row whose position is gone: every reduce-only close is refused.   *)
Phantom == \E o \in OpenRows : held[ord[o].p] * ord[o].d <= 0

(* A pending order that is partly filled and whose cancel is not acked: its  *)
(* resolution returns before the give-up is considered.                      *)
StuckPartial == \E p \in Pending : ~pend[p].acked /\ ord[pend[p].o].live /\ ord[pend[p].o].filled > 0

(* A requested stop completes whatever cancels, archive, leader and venue    *)
(* reads do, unless a row's position has vanished or a partly filled order   *)
(* cannot be cancelled.                                                      *)
StopEnds == mirror.stop ~> (~mirror.active \/ Phantom \/ StuckPartial)
=============================================================================
