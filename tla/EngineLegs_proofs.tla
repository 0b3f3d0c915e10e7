--------------------------- MODULE EngineLegs_proofs ---------------------------
(* Proofs about EngineLegs, for every set of order, quote and position legs, *)
(* every number of orders, sizes, retries and faults; after the invariant of *)
(* all legs, that the order legs implement OrderLeg, and that a position leg *)
(* that completed is flat.                                                   *)
EXTENDS EngineLegs, Sums, FiniteSetTheorems, TLAPS

-----------------------------------------------------------------------------
(* Types. A call and what it returns are records, which AdapterTypeOK does   *)
(* not say, and a call that has come this far names an order.                *)

CallType == [op : Ops, order : Orders \cup {None}, tries : Nat, size : Nat, market : BOOLEAN, exit : BOOLEAN]
RetType == [kind : {"none", "ok", "failed", "throttled"}, order : Orders \cup {None},
            st : {"none", "OPEN", "PARTIALLY_FILLED"} \cup Terminal, base : Nat]
SnapType == [kind : {"none", "list", "denied"}, now : BOOLEAN, view : SUBSET Orders]

AdapterTypes ==
    /\ placed \in [Legs -> Nat] /\ book \subseteq Orders /\ reduce \subseteq Orders
    /\ amount \in [Orders -> Nat] /\ filled \in [Orders -> Nat] /\ feed \in [Orders -> Nat]
    /\ refs \subseteq Orders /\ acked \subseteq Orders /\ heard \subseteq Orders /\ dirty \subseteq Orders
    /\ cache \in [Orders -> Status \cup {NoStatus}] /\ snap \in SnapType /\ lost \subseteq Orders
    /\ call \in [Legs -> CallType] /\ ret \in [Legs -> RetType]

CallsNameOrders ==
    \A l \in Legs : /\ call[l].op \in {"placed_fills", "final_fills", "held_fills", "verify"} => call[l].order # None
                    /\ call[l].op \in {"place", "replace"} => call[l].size > 0

OeDoing == {"none", "create", "tick", "stop_cancel", "stop_status", "settle", "settle_cancel", "settle_check"}
OeType == [st : OeStates, close : {"none", "COMPLETED", "EARLY_STOP", "FAILED"}, order : Orders \cup {None},
           seen : {"none", "OPEN", "PARTIALLY_FILLED"} \cup Terminal, rec : Nat, doing : OeDoing]
PeType == [st : {"new", "ACTIVE", "TERMINATED"}, close : {"none", "COMPLETED", "EARLY_STOP", "FAILED"},
           pos : {"OPENING", "ACTIVE_POSITION", "CLOSING", "TERMINATED"}, entry : Orders \cup {None},
           eseen : {"none", "OPEN", "PARTIALLY_FILLED"} \cup Terminal, eb : Nat, exit : Orders \cup {None},
           xseen : {"none", "OPEN", "PARTIALLY_FILLED"} \cup Terminal, xb : Nat, doing : PeDoing]
SlotType == [leg : OrderLegs \cup {None}, at : {"idle", "spawn", "stop", "replace", "fallback", "settle"},
             other : OrderLegs \cup {None}]

LegTypes == /\ oe \in [OrderLegs -> OeType] /\ pe \in [PositionLegs -> PeType] /\ slot \in [Slots -> SlotType]
            /\ session \in Sessions

\* The orders that went to the venue.
Sent == {o \in Orders : o[2] <= placed[o[1]]}

-----------------------------------------------------------------------------
(* What the adapter knows.                                                   *)

\* A status that is true of an order, and stays true: no unit that did not trade, and one that calls the order
\* finished is final. A fills feed that does not lag leaves no unit out of it.
TrueOf(st, base, o, on, done) ==
    /\ base <= done[o]
    /\ st \in Terminal => o \notin on /\ ("lag" \notin Faults[o[1]] => base = done[o])

OrdersSent ==
    /\ book \cup refs \cup lost \cup acked \subseteq Sent
    /\ \A o \in Orders \ Sent : cache[o] = NoStatus /\ filled[o] = 0
    /\ \A l \in Legs : call[l].order \in Sent \cup {None} /\ ret[l].order \in Sent \cup {None}
Amounts ==
    \A o \in Orders : /\ feed[o] <= filled[o] /\ filled[o] <= amount[o]
                      /\ "lag" \notin Faults[o[1]] => feed[o] = filled[o]
                      /\ o \in book => filled[o] < amount[o]
RefsAnswered == refs \cap lost = {}
\* A placement that was not answered is what a snapshot of the book may miss.
SnapShows == snap.kind = "list" => book \ lost \subseteq snap.view
AckedGone == acked \cap refs \cap book = {}
CallsGone == \A l \in Legs : call[l].op \in {"final_fills", "placed_fills"} => call[l].order \notin book
CacheTrue == \A o \in Orders : cache[o] # NoStatus => TrueOf(cache[o].st, cache[o].base, o, book, filled)
RetTrue == \A l \in Legs : ret[l].kind = "ok" /\ ret[l].order # None => TrueOf(ret[l].st, ret[l].base, ret[l].order, book, filled)
OneAtATime == \A l \in Legs : call[l].op # "none" => ret[l].kind = "none"

AdapterInv == OrdersSent /\ Amounts /\ RefsAnswered /\ SnapShows /\ AckedGone /\ CallsGone /\ CacheTrue /\ RetTrue /\ OneAtATime

-----------------------------------------------------------------------------
(* What an order executor knows.                                             *)

Asks == {"status", "final_fills", "held_fills"}
Cancels == {"cancel", "verify"}
Reading == {"tick", "stop_status", "settle", "settle_check"}
Cancelling == {"stop_cancel", "settle_cancel"}

\* l is the executor whose order a replace of its slot places.
Replacing(l) == \E s \in Slots : slot[s].at = "replace" /\ slot[s].other = l
\* An order of l is being placed, and what came back: an order that rests or rested, or no order known of.
Placing(l) ==
    \/ call[l].op \in {"place", "replace"} /\ ~call[l].market /\ call[l].size = Size
    \/ call[l].op = "none" /\ ret[l].kind \in {"failed", "throttled"}
    \/ call[l].op = "none" /\ ret[l].kind = "ok" /\ ret[l].order \in Sent /\ ret[l].order[1] = l
\* A call about the order of l is under way or came back.
Awaiting(l, ops) ==
    \/ call[l].op \in ops /\ call[l].order = oe[l].order
    \/ call[l].op = "none" /\ ret[l].kind = "failed"
    \/ call[l].op = "none" /\ ret[l].kind = "ok" /\ ret[l].order = oe[l].order

LegCalls(l) ==
    /\ oe[l].doing = "create" \/ Replacing(l) => oe[l].order = None /\ Placing(l)
    /\ oe[l].doing \in Reading => Awaiting(l, Asks)
    /\ oe[l].doing \in Cancelling => Awaiting(l, Cancels)
    /\ oe[l].doing = "none" => Idle(l) \/ Replacing(l)

\* The status l has seen of its order is true of it, and what it counted.
LegCounts(l) ==
    IF oe[l].order = None THEN oe[l].rec = 0 /\ oe[l].seen = "none"
    ELSE /\ oe[l].order \in Sent /\ oe[l].order[1] = l
         /\ TrueOf(oe[l].seen, oe[l].rec, oe[l].order, book, filled)

LegLives(l) ==
    /\ oe[l].st = "new" => oe[l] = OeFresh
    /\ oe[l].doing # "none" => oe[l].st = "ACTIVE" \/ (oe[l].st = "TERMINATED" /\ oe[l].close = "FAILED")
    /\ oe[l].doing = "create" => oe[l].st = "ACTIVE"
    /\ oe[l].st = "ACTIVE" /\ oe[l].order = None => oe[l].doing = "create"
    /\ oe[l].doing \notin {"none", "create"} => oe[l].order # None
    /\ oe[l].doing \in {"settle_cancel", "settle_check"} => oe[l].seen \notin Terminal
    /\ oe[l].st = "pruned" => ~MayStillRest(oe[l])
    /\ oe[l].st = "TERMINATED" /\ oe[l].close # "FAILED" => ~MayStillRest(oe[l]) \/ oe[l].order \notin refs

\* Every order of l whose placement was answered is the one it works, or the one its placement just returned.
LegOwns(l) ==
    \A o \in Sent \ lost :
        o[1] = l => \/ o = oe[l].order
                    \/ oe[l].order = None /\ call[l].op = "none" /\ ret[l].kind = "ok" /\ ret[l].order = o

LegInv(l) == LegCalls(l) /\ LegCounts(l) /\ LegLives(l) /\ LegOwns(l)

\* A slot, the executors it is busy with, and those it let go.
SlotInv(s) ==
    /\ slot[s].leg \in LegsOf(s) \cup {None} /\ slot[s].other \in LegsOf(s) \cup {None}
    /\ slot[s].at \in {"spawn", "replace", "settle"} => slot[s].other # None
    /\ slot[s].at \in {"idle", "stop", "fallback"} => slot[s].other = None
    /\ slot[s].at \in {"stop", "replace", "fallback", "settle"} => slot[s].leg # None
    /\ slot[s].at = "spawn" => slot[s].leg = None
    /\ slot[s].at = "replace" =>
          /\ oe[slot[s].leg].st = "ACTIVE" /\ oe[slot[s].leg].order # None /\ oe[slot[s].leg].doing = "none"
          /\ Idle(slot[s].leg) /\ oe[slot[s].other].st = "new"
    /\ \A l \in LegsOf(s) : oe[l].doing = "create" => slot[s].at = "spawn" /\ slot[s].other = l
    /\ \A l \in LegsOf(s) \ {slot[s].leg, slot[s].other} : oe[l].order \notin book \cap refs

\* Position legs know orders that were sent.
PeKnows(e) == e.entry \in Sent \cup {None} /\ e.exit \in Sent \cup {None}

LegsInv == /\ \A l \in OrderLegs : LegInv(l)
           /\ \A s \in Slots : SlotInv(s)
           /\ \A l \in PositionLegs : PeKnows(pe[l])

-----------------------------------------------------------------------------
LEMMA OrderFacts ==
  /\ \A o \in Orders : o[1] \in Legs /\ o[2] \in 1..OrdersPer[o[1]] /\ o = <<o[1], o[2]>>
  /\ \A l \in Legs : \A n \in 1..OrdersPer[l] : <<l, n>> \in Orders
  /\ None \notin Orders
<1>1. \A o \in Orders : o[1] \in Legs /\ o[2] \in 1..OrdersPer[o[1]] /\ o = <<o[1], o[2]>>
  BY DEF Orders
<1>2. \A l \in Legs : \A n \in 1..OrdersPer[l] : <<l, n>> \in Orders
  BY DEF Orders
<1>3. Orders \subseteq Legs \X Nat
  BY AdapterAssumption DEF Orders
<1> QED BY <1>1, <1>2, <1>3, AdapterAssumption

LEMMA NullTypes == /\ NoCall \in CallType /\ NoRet \in RetType /\ NoSnap \in SnapType
                   /\ NoCall.op = "none" /\ NoCall.order = None /\ NoRet.kind = "none" /\ NoRet.order = None
                   /\ NoRet.base = 0 /\ NoRet.st = "none" /\ NoSnap.kind = "none"
                   /\ NoStatus.base = 0 /\ NoStatus.st \notin Terminal
  BY DEF NoCall, NoRet, NoSnap, NoStatus, CallType, RetType, SnapType, Ops, Terminal

\* The calls a controller makes.
LEMMA NewCallTypes ==
  /\ \A n \in Nat : \A market, exit \in BOOLEAN :
        /\ Place(n, market, exit) \in CallType /\ Place(n, market, exit).op = "place" /\ Place(n, market, exit).order = None
        /\ Place(n, market, exit).size = n /\ Place(n, market, exit).market = market
  /\ \A o \in Orders \cup {None} :
        /\ OrderStatus(o) \in CallType /\ OrderStatus(o).op = "status" /\ OrderStatus(o).order = o
        /\ CancelOrder(o) \in CallType /\ CancelOrder(o).op = "cancel" /\ CancelOrder(o).order = o
        /\ \A n \in Nat : /\ CancelAndPlace(o, n) \in CallType /\ CancelAndPlace(o, n).op = "replace"
                          /\ CancelAndPlace(o, n).size = n /\ CancelAndPlace(o, n).order = o
                          /\ ~CancelAndPlace(o, n).market
<1>1. \A n \in Nat : \A market, exit \in BOOLEAN :
        /\ Place(n, market, exit) \in CallType /\ Place(n, market, exit).op = "place" /\ Place(n, market, exit).order = None
        /\ Place(n, market, exit).size = n /\ Place(n, market, exit).market = market
  <2>1. \A n \in Nat : \A market, exit \in BOOLEAN : Place(n, market, exit) \in CallType
    BY DEF Place, NoCall, CallType, Ops
  <2>2. \A n \in Nat : \A market, exit \in BOOLEAN :
           Place(n, market, exit).op = "place" /\ Place(n, market, exit).order = None /\ Place(n, market, exit).size = n
    BY DEF Place, NoCall
  <2>3. \A n \in Nat : \A market, exit \in BOOLEAN : Place(n, market, exit).market = market
    BY DEF Place, NoCall
  <2> QED BY <2>1, <2>2, <2>3
<1>2. ASSUME NEW o \in Orders \cup {None}
      PROVE  /\ OrderStatus(o) \in CallType /\ OrderStatus(o).op = "status" /\ OrderStatus(o).order = o
             /\ CancelOrder(o) \in CallType /\ CancelOrder(o).op = "cancel" /\ CancelOrder(o).order = o
  BY DEF OrderStatus, CancelOrder, NoCall, CallType, Ops
<1>3. ASSUME NEW o \in Orders \cup {None}, NEW n \in Nat
      PROVE  /\ CancelAndPlace(o, n) \in CallType /\ CancelAndPlace(o, n).op = "replace"
             /\ CancelAndPlace(o, n).size = n /\ CancelAndPlace(o, n).order = o
             /\ ~CancelAndPlace(o, n).market
  BY DEF CancelAndPlace, NoCall, CallType, Ops
<1> QED BY <1>1, <1>2, <1>3

LEMMA DeliverTypes ==
  ASSUME AdapterTypes, NEW l \in Legs, NEW r \in RetType, Deliver(l, r)
  PROVE  /\ call' \in [Legs -> CallType] /\ ret' \in [Legs -> RetType]
         /\ call'[l] = NoCall /\ ret'[l] = r
         /\ \A k \in Legs \ {l} : call'[k] = call[k] /\ ret'[k] = ret[k]
  BY NullTypes DEF Deliver, AdapterTypes

LEMMA AnswerTypes ==
  ASSUME AdapterTypes, NEW l \in Legs, NEW s \in Status \cup {NoStatus}, Answer(l, s)
  PROVE  /\ call' \in [Legs -> CallType] /\ ret' \in [Legs -> RetType]
         /\ call'[l] = NoCall /\ ret'[l].kind = "ok" /\ ret'[l].order = call[l].order
         /\ ret'[l].st = s.st /\ ret'[l].base = s.base
         /\ \A k \in Legs \ {l} : call'[k] = call[k] /\ ret'[k] = ret[k]
<1> DEFINE r == [kind |-> "ok", order |-> call[l].order, st |-> s.st, base |-> s.base]
<1>1. r \in RetType
  BY DEF AdapterTypes, CallType, RetType, Status, NoStatus
<1>2. Deliver(l, r)
  BY DEF Answer
<1> HIDE DEF r
<1>3. /\ call' \in [Legs -> CallType] /\ ret' \in [Legs -> RetType]
      /\ call'[l] = NoCall /\ ret'[l] = r
      /\ \A k \in Legs \ {l} : call'[k] = call[k] /\ ret'[k] = ret[k]
  BY <1>1, <1>2, DeliverTypes
<1> QED BY <1>3 DEF r

LEMMA RetryTypes ==
  ASSUME AdapterTypes, NEW l \in Legs, Retry(l)
  PROVE  /\ call' \in [Legs -> CallType] /\ ret' \in [Legs -> RetType]
         /\ \A k \in Legs \ {l} : call'[k] = call[k] /\ ret'[k] = ret[k]
         /\ \/ /\ call'[l].op = CASE call[l].op = "verify" -> "cancel"
                                   [] call[l].op = "final_fills" -> "status"
                                   [] OTHER -> call[l].op
               /\ call'[l].order = call[l].order /\ call'[l].size = call[l].size /\ call'[l].market = call[l].market
               /\ call'[l].exit = call[l].exit /\ ret' = ret
            \/ /\ call'[l] = NoCall /\ ret'[l].kind = "failed" /\ ret'[l].st = "none" /\ ret'[l].order = None
<1>1. CASE call[l].tries + 1 < MaxAttempts
  <2>1. /\ call' = [call EXCEPT ![l].tries = @ + 1,
                                 ![l].op = CASE @ = "verify" -> "cancel"
                                             [] @ = "final_fills" -> "status"
                                             [] OTHER -> @]
        /\ ret' = ret
    BY <1>1 DEF Retry
  <2>2. call \in [Legs -> CallType]
    BY DEF AdapterTypes
  <2> DEFINE op == CASE call[l].op = "verify" -> "cancel"
                     [] call[l].op = "final_fills" -> "status"
                     [] OTHER -> call[l].op
  <2>3. call'[l] \in CallType /\ \A k \in Legs \ {l} : call'[k] = call[k]
    <3>1. call[l] \in CallType /\ op \in Ops /\ call[l].tries + 1 \in Nat
      BY <2>2 DEF CallType, Ops
    <3>2. call'[l] = [call[l] EXCEPT !.tries = @ + 1, !.op = op] /\ \A k \in Legs \ {l} : call'[k] = call[k]
      BY <2>1, <2>2
    <3> HIDE DEF op
    <3> QED BY <3>1, <3>2 DEF CallType
  <2>4. call' \in [Legs -> CallType]
    BY <2>1, <2>2, <2>3
  <2> QED BY <2>1, <2>2, <2>4 DEF AdapterTypes, CallType
<1>2. CASE ~(call[l].tries + 1 < MaxAttempts)
  <2> DEFINE r == [NoRet EXCEPT !.kind = "failed"]
  <2>1. r \in RetType /\ r.kind = "failed" /\ r.st = "none" /\ r.order = None
    BY DEF NoRet, RetType
  <2>2. Deliver(l, r)
    BY <1>2 DEF Retry
  <2> HIDE DEF r
  <2> QED BY <2>1, <2>2, DeliverTypes
<1> QED BY <1>1, <1>2

LEMMA CountedTypes ==
  ASSUME NEW n \in Nat, NEW S \in SUBSET (1..n)
  PROVE  Cardinality(S) \in 0..n
<1>1. 1 \in Int /\ n \in Int
  OBVIOUS
<1>2. IsFiniteSet(1..n) /\ Cardinality(1..n) = IF 1 > n THEN 0 ELSE n - 1 + 1
  BY <1>1, FS_Interval
<1>3. IsFiniteSet(S) /\ Cardinality(S) <= Cardinality(1..n)
  BY <1>2, FS_Subset
<1>4. Cardinality(S) \in Nat
  BY <1>3, FS_CardinalityType
<1> QED BY <1>2, <1>3, <1>4

LEMMA CrossedTypes ==
  ASSUME AdapterTypes, NEW l \in Legs
  PROVE  Crossed(l) \in 0..call[l].size /\ (~call[l].market => Crossed(l) = 0)
<1>1. call[l].size \in Nat /\ call[l].market \in BOOLEAN /\ call[l].exit \in BOOLEAN
  BY DEF AdapterTypes, CallType
<1>2. CASE ~call[l].market
  <2>1. Crossed(l) = 0
    BY <1>2 DEF Crossed
  <2> QED BY <1>1, <2>1
<1>3. CASE call[l].market /\ call[l].exit
  <2> DEFINE S == {n \in 1..call[l].size : n <= Position}
  <2>1. S \in SUBSET (1..call[l].size)
    OBVIOUS
  <2>2. Crossed(l) = Cardinality(S)
    BY <1>3 DEF Crossed
  <2> HIDE DEF S
  <2>3. Cardinality(S) \in 0..call[l].size
    BY <1>1, <2>1, CountedTypes
  <2> QED BY <1>3, <2>2, <2>3
<1>4. CASE call[l].market /\ ~call[l].exit
  <2>1. Crossed(l) = call[l].size
    BY <1>4 DEF Crossed
  <2> QED BY <1>1, <1>4, <2>1
<1> QED BY <1>1, <1>2, <1>3, <1>4

\* An order the venue takes is a new one; nothing else changes but the orders it takes off the book.
LEMMA OnVenueTypes ==
  ASSUME AdapterTypes, NEW l \in Legs, NEW n \in Nat, NEW gone, OnVenue(l, n, gone)
  PROVE  /\ NextOrder(l) \in Orders \ Sent /\ NextOrder(l)[1] = l /\ Sent' = Sent \cup {NextOrder(l)}
         /\ placed' \in [Legs -> Nat] /\ book' \subseteq Orders /\ reduce' \subseteq Orders
         /\ amount' \in [Orders -> Nat] /\ filled' \in [Orders -> Nat] /\ feed' \in [Orders -> Nat]
         /\ amount'[NextOrder(l)] = call[l].size /\ filled'[NextOrder(l)] = n
         /\ feed[NextOrder(l)] <= n => feed'[NextOrder(l)] <= n
         /\ "lag" \notin Faults[l] => feed'[NextOrder(l)] = n
         /\ \A o \in Orders \ {NextOrder(l)} : amount'[o] = amount[o] /\ filled'[o] = filled[o] /\ feed'[o] = feed[o]
         /\ book' = (book \ gone) \cup (IF call[l].market THEN {} ELSE {NextOrder(l)})
<1> DEFINE o == NextOrder(l)
<1>1. placed \in [Legs -> Nat] /\ OrdersPer \in [Legs -> Nat] /\ call[l].size \in Nat /\ call[l].market \in BOOLEAN
  BY AdapterAssumption DEF AdapterTypes, CallType
<1>2. placed[l] < OrdersPer[l] /\ placed' = [placed EXCEPT ![l] = @ + 1] /\ o = <<l, placed[l] + 1>>
  BY DEF OnVenue, NextOrder
<1>3. o \in Orders \ Sent /\ o[1] = l /\ o[2] = placed[l] + 1
  <2>1. placed[l] + 1 \in 1..OrdersPer[l]
    BY <1>1, <1>2
  <2> QED BY <1>1, <1>2, <2>1, OrderFacts DEF Sent
<1>4. placed' \in [Legs -> Nat] /\ placed'[l] = placed[l] + 1 /\ \A k \in Legs \ {l} : placed'[k] = placed[k]
  BY <1>1, <1>2
<1>5. Sent' = Sent \cup {o}
  <2>1. \A p \in Orders : p \in Sent' <=> p \in Sent \/ p = o
    <3> TAKE p \in Orders
    <3>1. p[1] \in Legs /\ p[2] \in Nat /\ p = <<p[1], p[2]>>
      BY OrderFacts, AdapterAssumption
    <3>2. p \in Sent' <=> p[2] <= placed'[p[1]]
      BY DEF Sent
    <3>3. p \in Sent <=> p[2] <= placed[p[1]]
      BY DEF Sent
    <3>4. CASE p[1] = l
      <4>1. p = o <=> p[2] = placed[l] + 1
        BY <1>2, <1>3, <3>1, <3>4
      <4>2. p[2] <= placed[l] + 1 <=> p[2] <= placed[l] \/ p[2] = placed[l] + 1
        BY <1>1, <3>1
      <4> HIDE DEF o
      <4> QED BY <1>4, <3>2, <3>3, <3>4, <4>1, <4>2
    <3>5. CASE p[1] # l
      BY <1>3, <1>4, <3>1, <3>2, <3>3, <3>5
    <3> QED BY <3>4, <3>5
  <2>2. Sent \subseteq Orders /\ Sent' \subseteq Orders
    BY DEF Sent
  <2> QED BY <2>1, <2>2, <1>3
<1> HIDE DEF o
<1>6. /\ amount' = [amount EXCEPT ![o] = call[l].size] /\ filled' = [filled EXCEPT ![o] = n]
      /\ book' = (book \ gone) \cup (IF call[l].market THEN {} ELSE {o})
      /\ reduce' \in {reduce, reduce \cup {o}}
  BY DEF OnVenue, o
<1>7. PICK f \in Shown(o, n) : feed' = [feed EXCEPT ![o] = f]
  BY DEF OnVenue, o
<1>8. f \in Nat /\ (feed[o] <= n => f <= n) /\ ("lag" \notin Faults[l] => f = n)
  <2>1. feed[o] \in Nat
    BY <1>3 DEF AdapterTypes
  <2> QED BY <1>3, <1>7, <2>1 DEF Shown
<1>9. /\ amount' \in [Orders -> Nat] /\ filled' \in [Orders -> Nat] /\ feed' \in [Orders -> Nat]
      /\ amount'[o] = call[l].size /\ filled'[o] = n /\ feed'[o] = f
      /\ \A p \in Orders \ {o} : amount'[p] = amount[p] /\ filled'[p] = filled[p] /\ feed'[p] = feed[p]
  BY <1>1, <1>3, <1>6, <1>7, <1>8 DEF AdapterTypes
<1>10. book' \subseteq Orders /\ reduce' \subseteq Orders
  BY <1>3, <1>6 DEF AdapterTypes
<1> QED BY <1>3, <1>4, <1>5, <1>6, <1>8, <1>9, <1>10 DEF o

\* One case per step of a call.
LEMMA CallTypes ==
  ASSUME AdapterTypes, CallsNameOrders, NEW l \in Legs, AdapterStep(l)
  PROVE  AdapterTypes' /\ CallsNameOrders'
<1> DEFINE o == call[l].order
<1> USE NullTypes DEF CallsNameOrders, venueVars, adapterVars
<1>0. /\ call[l] \in CallType /\ ret[l] \in RetType /\ o \in Orders \cup {None} /\ snap \in SnapType
      /\ \A p \in Orders : cache[p] \in Status \cup {NoStatus} /\ feed[p] \in Nat /\ amount[p] \in Nat
  BY DEF AdapterTypes, CallType, RetType
<1>1. CASE PlaceAccepted(l)
  <2>1. OnVenue(l, Crossed(l), {}) /\ Crossed(l) \in Nat
    BY <1>0, <1>1, CrossedTypes DEF PlaceAccepted, CallType
  <2>2. CASE call[l].market
    <3>1. call' = [call EXCEPT ![l].op = "placed_fills", ![l].order = NextOrder(l)] /\ ret' = ret
      BY <1>1, <2>2 DEF PlaceAccepted
    <3>2. NextOrder(l) \in Orders /\ None \notin Orders
      BY <2>1, OnVenueTypes, OrderFacts
    <3>3. call' \in [Legs -> CallType] /\ CallsNameOrders'
      BY <1>0, <3>1, <3>2 DEF AdapterTypes, CallType, Ops
    <3> QED BY <1>1, <2>1, <3>1, <3>2, <3>3, OnVenueTypes DEF PlaceAccepted, AdapterTypes
  <2>3. CASE ~call[l].market
    <3> DEFINE r == [kind |-> "ok", order |-> NextOrder(l), st |-> "OPEN", base |-> 0]
    <3>1. NextOrder(l) \in Orders
      BY <2>1, OnVenueTypes
    <3>2. r \in RetType /\ Deliver(l, r)
      BY <1>1, <2>3, <3>1 DEF PlaceAccepted, RetType
    <3> HIDE DEF r
    <3>3. call' \in [Legs -> CallType] /\ ret' \in [Legs -> RetType] /\ CallsNameOrders'
      BY <3>2, DeliverTypes
    <3> QED BY <1>1, <2>1, <2>3, <3>1, <3>3, OnVenueTypes DEF PlaceAccepted, AdapterTypes
  <2> QED BY <1>0, <2>2, <2>3 DEF CallType
<1>2. CASE PlacedFills(l)
  BY <1>0, <1>2, AnswerTypes DEF PlacedFills, AdapterTypes, Status, Terminal
<1>3. CASE PlaceRejected(l) \/ CancelRefuted(l) \/ StatusUnknown(l) \/ StatusError(l)
  BY <1>3, RetryTypes DEF PlaceRejected, CancelRefuted, StatusUnknown, StatusError, AdapterTypes
<1>4. CASE PlaceUnanswered(l)
  <2>1. OnVenue(l, Crossed(l), {}) /\ Crossed(l) \in Nat
    BY <1>0, <1>4, CrossedTypes DEF PlaceUnanswered, CallType
  <2>2. Retry(l) /\ lost' = lost \cup {NextOrder(l)} /\ UNCHANGED <<refs, cache, acked, snap, heard, dirty>> /\ call[l].op = "place"
    BY <1>4 DEF PlaceUnanswered
  <2>3. /\ NextOrder(l) \in Orders /\ placed' \in [Legs -> Nat] /\ book' \subseteq Orders /\ reduce' \subseteq Orders
        /\ amount' \in [Orders -> Nat] /\ filled' \in [Orders -> Nat] /\ feed' \in [Orders -> Nat]
    BY <2>1, OnVenueTypes
  <2>4. call' \in [Legs -> CallType] /\ ret' \in [Legs -> RetType] /\ CallsNameOrders'
    BY <2>2, RetryTypes
  <2> QED BY <2>2, <2>3, <2>4 DEF AdapterTypes
<1>5. CASE PlaceThrottled(l) \/ ReplaceRejected(l) \/ ReplaceThrottled(l)
  <2>1. PICK r \in RetType : Deliver(l, r)
    BY <1>5 DEF PlaceThrottled, ReplaceRejected, ReplaceThrottled, RetType, NoRet
  <2> QED BY <1>5, <2>1, DeliverTypes DEF PlaceThrottled, ReplaceRejected, ReplaceThrottled, AdapterTypes
<1>6. CASE Cancelled(l)
  BY <1>0, <1>6, AnswerTypes DEF Cancelled, Gone, AdapterTypes, NoStatus
<1>7. CASE CancelNotConfirmed(l)
  <2>1. call' = [call EXCEPT ![l].op = "verify"] /\ o \in Orders
    BY <1>7 DEF CancelNotConfirmed, AdapterTypes
  <2>2. call' \in [Legs -> CallType] /\ CallsNameOrders'
    BY <1>0, <2>1, OrderFacts DEF AdapterTypes, CallType, Ops
  <2>3. book' \subseteq Orders /\ snap' = NoSnap /\ UNCHANGED <<placed, amount, filled, feed, reduce, refs, cache, acked, heard, dirty, ret, lost>>
    BY <1>7 DEF CancelNotConfirmed, AdapterTypes
  <2> QED BY <2>2, <2>3 DEF AdapterTypes
<1>8. CASE CancelVerified(l)
  BY <1>0, <1>8, AnswerTypes DEF CancelVerified, Gone, AdapterTypes, NoStatus
<1>9. CASE CancelUnknown(l)
  BY <1>0, <1>9, AnswerTypes DEF CancelUnknown, AdapterTypes, NoStatus
<1>10. CASE Replaced(l)
  <2>1. PICK gone : OnVenue(l, 0, gone)
    BY <1>10 DEF Replaced
  <2> DEFINE r == [kind |-> "ok", order |-> NextOrder(l), st |-> "OPEN", base |-> 0]
  <2>2. NextOrder(l) \in Orders
    BY <2>1, OnVenueTypes
  <2>3. r \in RetType /\ Deliver(l, r)
    BY <1>10, <2>2 DEF Replaced, RetType
  <2> HIDE DEF r
  <2>4. /\ placed' \in [Legs -> Nat] /\ book' \subseteq Orders /\ reduce' \subseteq Orders
        /\ amount' \in [Orders -> Nat] /\ filled' \in [Orders -> Nat] /\ feed' \in [Orders -> Nat]
    BY <2>1, OnVenueTypes
  <2>5. call' \in [Legs -> CallType] /\ ret' \in [Legs -> RetType] /\ CallsNameOrders'
    BY <2>3, DeliverTypes
  <2> QED BY <1>10, <2>2, <2>4, <2>5 DEF Replaced, AdapterTypes
<1>11. CASE ReplaceUnanswered(l)
  <2>1. OnVenue(l, 0, {o})
    BY <1>11 DEF ReplaceUnanswered
  <2>2. PICK r \in RetType : Deliver(l, r)
    BY <1>11 DEF ReplaceUnanswered, RetType, NoRet
  <2>3. /\ placed' \in [Legs -> Nat] /\ book' \subseteq Orders /\ reduce' \subseteq Orders /\ NextOrder(l) \in Orders
        /\ amount' \in [Orders -> Nat] /\ filled' \in [Orders -> Nat] /\ feed' \in [Orders -> Nat]
    BY <2>1, OnVenueTypes
  <2>4. call' \in [Legs -> CallType] /\ ret' \in [Legs -> RetType] /\ CallsNameOrders'
    BY <2>2, DeliverTypes
  <2> QED BY <1>11, <2>3, <2>4 DEF ReplaceUnanswered, AdapterTypes
<1>12. CASE StatusCached(l)
  BY <1>0, <1>12, AnswerTypes DEF StatusCached, AdapterTypes
<1>13. CASE StatusBook(l)
  <2>1. o \in Orders
    BY <1>13 DEF StatusBook, AdapterTypes
  <2>2. PICK s \in OpenOrdersCoalesced(o) :
           /\ snap' = s
           /\ IF s.kind = "list" /\ o \in s.view
              THEN /\ Answer(l, [st |-> "OPEN", base |-> 0])
                   /\ cache' = [cache EXCEPT ![o] = [st |-> "OPEN", base |-> 0]]
                   /\ dirty' = dirty \ {o}
              ELSE /\ call' = [call EXCEPT ![l].op = AfterBook(o, s)]
                   /\ UNCHANGED <<cache, dirty, ret>>
    BY <1>13 DEF StatusBook
  <2>3. s \in SnapType
    <3>1. BookRead \in SnapType /\ [NoSnap EXCEPT !.kind = "denied", !.now = TRUE] \in SnapType
      BY DEF BookRead, NoSnap, SnapType, AdapterTypes
    <3>2. s \in {snap, BookRead, [NoSnap EXCEPT !.kind = "denied", !.now = TRUE]}
      BY <2>2 DEF OpenOrdersCoalesced
    <3> QED BY <1>0, <3>1, <3>2
  <2>4. [st |-> "OPEN", base |-> 0] \in Status
    BY DEF Status
  <2>5. CASE s.kind = "list" /\ o \in s.view
    BY <1>13, <2>1, <2>2, <2>3, <2>4, <2>5, AnswerTypes DEF StatusBook, AdapterTypes
  <2>6. CASE ~(s.kind = "list" /\ o \in s.view)
    <3>1. call' = [call EXCEPT ![l].op = AfterBook(o, s)] /\ AfterBook(o, s) \in {"held_fills", "final_fills"}
      BY <2>2, <2>6 DEF AfterBook
    <3>2. call' \in [Legs -> CallType] /\ CallsNameOrders'
      BY <1>0, <2>1, <3>1, OrderFacts DEF AdapterTypes, CallType, Ops
    <3> QED BY <1>13, <2>2, <2>3, <2>6, <3>2 DEF StatusBook, AdapterTypes
  <2> QED BY <2>5, <2>6
<1>14. CASE HeldFills(l)
  <2>1. PICK s \in Status : /\ Answer(l, s)
                            /\ cache' \in {cache, [cache EXCEPT ![o] = s]} /\ dirty' \subseteq dirty
    <3>1. o \in Orders
      BY <1>0, <1>14 DEF HeldFills
    <3>2. HeldStatus(o) \in Status
      BY <1>0, <3>1 DEF HeldStatus, Status
    <3> QED BY <1>0, <1>14, <3>1, <3>2 DEF HeldFills, Status, Terminal, Keep
  <2> QED BY <1>14, <2>1, AnswerTypes DEF HeldFills, AdapterTypes
<1>15. CASE FinalFills(l)
  <2>1. PICK s \in Status : /\ Answer(l, s) /\ acked' \subseteq acked
                            /\ cache' \in {cache, [cache EXCEPT ![o] = s]} /\ dirty' \subseteq dirty
    <3>1. o \in Orders
      BY <1>0, <1>15 DEF FinalFills
    <3>2. HeldStatus(o) \in Status
      BY <1>0, <3>1 DEF HeldStatus, Status
    <3> QED BY <1>0, <1>15, <3>1, <3>2 DEF FinalFills, Status, Terminal, Keep
  <2> QED BY <1>15, <2>1, AnswerTypes DEF FinalFills, AdapterTypes
<1> QED BY <1>1, <1>2, <1>3, <1>4, <1>5, <1>6, <1>7, <1>8, <1>9, <1>10, <1>11, <1>12, <1>13, <1>14, <1>15 DEF AdapterStep

LEMMA VenueTypes ==
  ASSUME AdapterTypes, CallsNameOrders, VenueStep
  PROVE  AdapterTypes' /\ CallsNameOrders'
<1> USE DEF CallsNameOrders, venueVars, adapterVars, calls
<1>1. CASE BeginCycle
  BY <1>1 DEF BeginCycle, AdapterTypes, SnapType
<1>2. ASSUME NEW o \in Orders, VenueFill(o) PROVE AdapterTypes' /\ CallsNameOrders'
  <2>1. PICK f \in Shown(o, filled[o] + 1) : feed' = [feed EXCEPT ![o] = f]
    BY <1>2 DEF VenueFill
  <2>2. f \in Nat
    BY <2>1 DEF Shown, AdapterTypes
  <2> QED BY <1>2, <2>1, <2>2 DEF VenueFill, AdapterTypes
<1>3. ASSUME NEW o \in Orders, VenueDrop(o) \/ FeedCatchesUp(o) \/ StreamEvent(o) PROVE AdapterTypes' /\ CallsNameOrders'
  BY <1>3 DEF VenueDrop, FeedCatchesUp, StreamEvent, AdapterTypes
<1> QED BY <1>1, <1>2, <1>3 DEF VenueStep

-----------------------------------------------------------------------------
(* The executors as the adapter sees them: they take what was returned, call *)
(* when nothing is under way, and forget an order once.                      *)

\* A call an executor makes of the orders it knows of.
NewCall(c) ==
    /\ c \in CallType /\ c.op \in {"place", "status", "cancel", "replace"} /\ c.order \in Sent \cup {None}
    /\ c.op \in {"place", "replace"} => c.size > 0
ExecutorStep ==
    /\ UNCHANGED <<venueVars, heard, dirty, lost>>
    /\ call' \in [Legs -> CallType] /\ ret' \in [Legs -> RetType]
    /\ \A k \in Legs : \/ call'[k] = call[k] /\ ret'[k] = ret[k]
                       \/ ret[k].kind # "none" /\ ret'[k] = NoRet /\ (call'[k] = call[k] \/ NewCall(call'[k]))
                       \/ call[k].op = "none" /\ ret[k].kind = "none" /\ ret'[k] = ret[k] /\ NewCall(call'[k])
    /\ UNCHANGED <<refs, cache, acked, snap>> \/ \E o \in Sent : ForgetCancelled(o)

LEMMA LegFacts == /\ OrderLegs \subseteq Legs /\ PositionLegs \subseteq Legs /\ None \notin OrderLegs
                  /\ \A s \in Slots : LegsOf(s) \subseteq OrderLegs
  BY OrderLegsAssumption, PositionLegsAssumption, SlotAssumption DEF Slots, LegsOf, Range

LEMMA StartTypes ==
  ASSUME call \in [Legs -> CallType], NEW l \in Legs, NEW c \in CallType, Start(l, c)
  PROVE  call' \in [Legs -> CallType] /\ call'[l] = c /\ \A k \in Legs \ {l} : call'[k] = call[k]
  BY DEF Start

LEMMA TakeTypes ==
  ASSUME ret \in [Legs -> RetType], NEW l \in Legs, Take(l)
  PROVE  ret' \in [Legs -> RetType] /\ ret'[l] = NoRet /\ \A k \in Legs \ {l} : ret'[k] = ret[k]
  BY NullTypes DEF Take

\* The record of an order executor.
Closes == {"none", "COMPLETED", "EARLY_STOP", "FAILED"}
LEMMA TerminatedIs ==
  ASSUME NEW e \in OeType, NEW close \in Closes
  PROVE  /\ Terminated(e, close) \in OeType
         /\ Terminated(e, close).st = "TERMINATED" /\ Terminated(e, close).order = e.order
         /\ Terminated(e, close).seen = e.seen /\ Terminated(e, close).rec = e.rec /\ Terminated(e, close).doing = e.doing
         /\ Terminated(e, close).close = IF e.st = "TERMINATED" THEN e.close ELSE close
  BY DEF Terminated, OeType, OeStates, Closes

LEMMA IngestedIs ==
  ASSUME NEW e \in OeType, NEW r \in RetType
  PROVE  /\ Ingested(e, r) \in OeType
         /\ Ingested(e, r).st = e.st /\ Ingested(e, r).close = e.close /\ Ingested(e, r).doing = e.doing
         /\ Ingested(e, r).order = r.order /\ Ingested(e, r).seen = r.st
         /\ Ingested(e, r).rec = IF r.base > e.rec THEN r.base ELSE e.rec
  BY DEF Ingested, OeType, RetType

LEMMA CompletedIs ==
  ASSUME NEW e \in OeType
  PROVE  /\ Completed(e) \in OeType
         /\ Completed(e).order = e.order /\ Completed(e).seen = e.seen /\ Completed(e).rec = e.rec /\ Completed(e).doing = e.doing
         /\ Completed(e).st = IF e.seen \in Terminal THEN "TERMINATED" ELSE e.st
         /\ Completed(e).close = IF e.seen \notin Terminal \/ e.st = "TERMINATED" THEN e.close
                                 ELSE IF e.seen = "FILLED" THEN "COMPLETED" ELSE "EARLY_STOP"
<1>1. CASE e.seen = "FILLED"
  <2>1. Completed(e) = Terminated(e, "COMPLETED")
    BY <1>1 DEF Completed
  <2> QED BY <1>1, <2>1, TerminatedIs DEF Closes, Terminal
<1>2. CASE e.seen \in {"CANCELLED", "REJECTED"}
  <2>1. Completed(e) = Terminated(e, "EARLY_STOP")
    BY <1>2 DEF Completed
  <2> QED BY <1>2, <2>1, TerminatedIs DEF Closes, Terminal
<1>3. CASE e.seen \notin Terminal
  <2>1. Completed(e) = e
    BY <1>3 DEF Completed, Terminal
  <2> QED BY <1>3, <2>1
<1> QED BY <1>1, <1>2, <1>3 DEF Terminal

LEMMA FreshIs == /\ OeFresh \in OeType /\ OeFresh.st = "new" /\ OeFresh.close = "none" /\ OeFresh.order = None
                 /\ OeFresh.seen = "none" /\ OeFresh.rec = 0 /\ OeFresh.doing = "none"
  BY DEF OeFresh, OeType, OeStates, OeDoing

LEMMA DoingIs ==
  ASSUME NEW e \in OeType, NEW d \in OeDoing
  PROVE  /\ [e EXCEPT !.doing = d] \in OeType /\ [e EXCEPT !.doing = d].doing = d
         /\ [e EXCEPT !.doing = d].st = e.st /\ [e EXCEPT !.doing = d].close = e.close /\ [e EXCEPT !.doing = d].order = e.order
         /\ [e EXCEPT !.doing = d].seen = e.seen /\ [e EXCEPT !.doing = d].rec = e.rec
  BY DEF OeType

-----------------------------------------------------------------------------
(* What a step may do to an order that was sent, and to a call.              *)

SentStable ==
    /\ lost \subseteq lost'
    /\ \A o \in Sent : /\ o \in Sent' /\ amount'[o] = amount[o] /\ filled'[o] >= filled[o]
                       /\ o \notin book => o \notin book' /\ filled'[o] = filled[o]

LEMMA TrueStays ==
  ASSUME AdapterTypes, AdapterTypes', SentStable, NEW o \in Sent, NEW st, NEW base \in Nat, TrueOf(st, base, o, book, filled)
  PROVE  TrueOf(st, base, o, book', filled')
<1>1. filled[o] \in Nat /\ filled'[o] \in Nat
  BY DEF AdapterTypes, Sent
<1> QED BY <1>1 DEF SentStable, TrueOf

CallEffect(l) ==
    /\ \A k \in Legs \ {l} : call'[k] = call[k] /\ ret'[k] = ret[k]
    /\ ret[l].kind = "none" /\ call[l].op # "none"
    /\ \/ /\ ret'[l] = ret[l] /\ call'[l].size = call[l].size /\ call'[l].market = call[l].market
          /\ \/ call'[l].order = call[l].order
             \/ call'[l].op = "placed_fills" /\ call'[l].order = NextOrder(l) /\ Sent' # Sent
          /\ \/ call'[l].op = call[l].op
             \/ call[l].op \in Asks /\ call'[l].op \in Asks
             \/ call[l].op \in Cancels /\ call'[l].op \in Cancels
             \/ call[l].op = "place" /\ call[l].market /\ call'[l].op = "placed_fills"
       \/ /\ call'[l] = NoCall /\ ret'[l].kind = "ok" /\ call[l].op \notin {"place", "replace"}
          /\ ret'[l].order = call[l].order
       \/ /\ call'[l] = NoCall /\ ret'[l].kind \in {"failed", "throttled"} /\ ret'[l].order = None
          /\ ret'[l].kind = "throttled" => call[l].op \in {"place", "replace"}
       \/ /\ call'[l] = NoCall /\ ret'[l].kind = "ok" /\ call[l].op \in {"place", "replace"}
          /\ ret'[l].order = NextOrder(l) /\ Sent' # Sent
    /\ Sent' # Sent => call[l].op \in {"place", "replace"} /\ amount'[NextOrder(l)] = call[l].size
    /\ \/ Sent' = Sent /\ lost' = lost
       \/ Sent' = Sent \cup {NextOrder(l)} /\ lost' = lost \cup {NextOrder(l)}
       \/ /\ Sent' = Sent \cup {NextOrder(l)} /\ lost' = lost
          /\ call[l].market \/ (ret'[l].kind = "ok" /\ ret'[l].order = NextOrder(l))

LEMMA SameStable ==
  ASSUME AdapterTypes, UNCHANGED <<placed, amount, filled, lost>>, book' \subseteq book
  PROVE  SentStable /\ Sent' = Sent
  BY DEF SentStable, Sent, AdapterTypes

LEMMA NewStable ==
  ASSUME AdapterTypes, NEW l \in Legs, NEW n \in Nat, NEW gone, OnVenue(l, n, gone), lost \subseteq lost'
  PROVE  SentStable
<1>1. \A o \in Sent : o \in Orders \ {NextOrder(l)} /\ filled[o] \in Nat
  BY OnVenueTypes DEF Sent, AdapterTypes
<1>2. \A o \in Sent : o \in Sent' /\ amount'[o] = amount[o] /\ filled'[o] = filled[o] /\ (o \notin book => o \notin book')
  BY <1>1, OnVenueTypes
<1> QED BY <1>1, <1>2 DEF SentStable

\* One case per step of a call.
LEMMA CallStep ==
  ASSUME AdapterTypes, CallsNameOrders, OneAtATime, NEW l \in Legs, AdapterStep(l)
  PROVE  CallEffect(l) /\ SentStable
<1> DEFINE o == call[l].order
<1> USE NullTypes DEF venueVars, adapterVars
<1>0. /\ call[l] \in CallType /\ o \in Orders \cup {None} /\ (call[l].op # "none" => ret[l].kind = "none")
      /\ \A p \in Orders : cache[p] \in Status \cup {NoStatus}
  BY DEF AdapterTypes, CallType, OneAtATime
<1>1. CASE PlaceAccepted(l)
  <2>1. OnVenue(l, Crossed(l), {}) /\ Crossed(l) \in Nat /\ lost' = lost /\ call[l].op = "place"
    BY <1>0, <1>1, CrossedTypes DEF PlaceAccepted, CallType
  <2>2. SentStable
    BY <2>1, NewStable
  <2>3. NextOrder(l) \notin Sent /\ Sent' = Sent \cup {NextOrder(l)} /\ amount'[NextOrder(l)] = call[l].size
    BY <2>1, OnVenueTypes
  <2>4. CASE call[l].market
    <3>1. call' = [call EXCEPT ![l].op = "placed_fills", ![l].order = NextOrder(l)] /\ ret' = ret
      BY <1>1, <2>4 DEF PlaceAccepted
    <3> QED BY <1>0, <2>1, <2>2, <2>3, <2>4, <3>1 DEF CallEffect, AdapterTypes, CallType
  <2>5. CASE ~call[l].market
    <3> DEFINE r == [kind |-> "ok", order |-> NextOrder(l), st |-> "OPEN", base |-> 0]
    <3>1. NextOrder(l) \in Orders
      BY <2>1, OnVenueTypes
    <3>2. r \in RetType /\ r.kind = "ok" /\ r.order = NextOrder(l) /\ Deliver(l, r)
      BY <1>1, <2>5, <3>1 DEF PlaceAccepted, RetType
    <3> HIDE DEF r
    <3> QED BY <1>0, <2>1, <2>2, <2>3, <3>2, DeliverTypes DEF CallEffect
  <2> QED BY <2>4, <2>5
<1>2. CASE PlacedFills(l)
  <2>1. PICK s \in Status : Answer(l, s)
    BY <1>0, <1>2 DEF PlacedFills, CallsNameOrders, AdapterTypes, Status, Terminal
  <2> QED BY <1>0, <1>2, <2>1, AnswerTypes, SameStable DEF PlacedFills, CallEffect
<1>3. CASE PlaceRejected(l) \/ CancelRefuted(l) \/ StatusUnknown(l) \/ StatusError(l)
  <2>1. Retry(l) /\ call[l].op \in {"place", "verify", "status", "final_fills"} /\ UNCHANGED <<placed, amount, filled, lost, book>>
    BY <1>3 DEF PlaceRejected, CancelRefuted, StatusUnknown, StatusError
  <2> QED BY <1>0, <2>1, RetryTypes, SameStable DEF CallEffect, Asks, Cancels
<1>4. CASE PlaceUnanswered(l)
  <2>1. OnVenue(l, Crossed(l), {}) /\ Crossed(l) \in Nat /\ lost' = lost \cup {NextOrder(l)} /\ call[l].op = "place" /\ Retry(l)
    BY <1>0, <1>4, CrossedTypes DEF PlaceUnanswered, CallType
  <2>2. SentStable /\ Sent' = Sent \cup {NextOrder(l)} /\ amount'[NextOrder(l)] = call[l].size
    BY <2>1, NewStable, OnVenueTypes
  <2> QED BY <1>0, <2>1, <2>2, RetryTypes DEF CallEffect
<1>5. CASE PlaceThrottled(l) \/ ReplaceRejected(l) \/ ReplaceThrottled(l)
  <2>1. PICK r \in RetType : Deliver(l, r) /\ r.kind \in {"failed", "throttled"} /\ r.order = None
    BY <1>5 DEF PlaceThrottled, ReplaceRejected, ReplaceThrottled, RetType, NoRet
  <2>2. call[l].op \in {"place", "replace"} /\ UNCHANGED <<placed, amount, filled, lost, book>>
    BY <1>5 DEF PlaceThrottled, ReplaceRejected, ReplaceThrottled
  <2> QED BY <1>0, <2>1, <2>2, DeliverTypes, SameStable DEF CallEffect
<1>6. CASE Cancelled(l) \/ CancelVerified(l) \/ CancelUnknown(l)
  <2>1. Answer(l, NoStatus) /\ call[l].op \in Cancels /\ UNCHANGED <<placed, amount, filled, lost>> /\ book' \subseteq book
    BY <1>6 DEF Cancelled, CancelVerified, CancelUnknown, NoStatus, Cancels
  <2> QED BY <1>0, <2>1, AnswerTypes, SameStable DEF CallEffect, Cancels
<1>7. CASE CancelNotConfirmed(l)
  <2>1. call' = [call EXCEPT ![l].op = "verify"] /\ call[l].op = "cancel" /\ ret' = ret
    BY <1>7 DEF CancelNotConfirmed
  <2>2. UNCHANGED <<placed, amount, filled, lost>> /\ book' \subseteq book
    BY <1>7 DEF CancelNotConfirmed
  <2> QED BY <1>0, <2>1, <2>2, SameStable DEF CallEffect, Cancels, AdapterTypes, CallType
<1>8. CASE Replaced(l)
  <2>1. PICK gone : OnVenue(l, 0, gone)
    BY <1>8 DEF Replaced
  <2> DEFINE r == [kind |-> "ok", order |-> NextOrder(l), st |-> "OPEN", base |-> 0]
  <2>2. /\ NextOrder(l) \in Orders \ Sent /\ Sent' = Sent \cup {NextOrder(l)} /\ SentStable /\ lost' = lost
        /\ amount'[NextOrder(l)] = call[l].size
    BY <1>8, <2>1, OnVenueTypes, NewStable DEF Replaced
  <2>3. r \in RetType /\ r.kind = "ok" /\ r.order = NextOrder(l) /\ Deliver(l, r) /\ call[l].op = "replace"
    BY <1>8, <2>2 DEF Replaced, RetType
  <2> HIDE DEF r
  <2> QED BY <1>0, <2>2, <2>3, DeliverTypes DEF CallEffect
<1>9. CASE ReplaceUnanswered(l)
  <2>1. OnVenue(l, 0, {o}) /\ lost' = lost \cup {NextOrder(l)} /\ call[l].op = "replace"
    BY <1>9 DEF ReplaceUnanswered
  <2>2. PICK r \in RetType : Deliver(l, r) /\ r.kind = "failed" /\ r.order = None
    BY <1>9 DEF ReplaceUnanswered, RetType, NoRet
  <2>3. SentStable /\ Sent' = Sent \cup {NextOrder(l)} /\ amount'[NextOrder(l)] = call[l].size
    BY <2>1, OnVenueTypes, NewStable
  <2> QED BY <1>0, <2>1, <2>2, <2>3, DeliverTypes DEF CallEffect
<1>10. CASE StatusCached(l)
  <2>1. Answer(l, cache[o]) /\ call[l].op = "status" /\ o \in Orders /\ UNCHANGED <<placed, amount, filled, lost, book>>
    BY <1>10 DEF StatusCached, AdapterTypes
  <2> QED BY <1>0, <2>1, AnswerTypes, SameStable DEF CallEffect
<1>11. CASE StatusBook(l)
  <2>1. call[l].op = "status" /\ UNCHANGED <<placed, amount, filled, lost, book>>
    BY <1>11 DEF StatusBook
  <2>2. CASE Answer(l, [st |-> "OPEN", base |-> 0])
    <3>1. [st |-> "OPEN", base |-> 0] \in Status
      BY DEF Status
    <3> QED BY <1>0, <2>1, <2>2, <3>1, AnswerTypes, SameStable DEF CallEffect
  <2>3. CASE \E op \in {"held_fills", "final_fills"} : call' = [call EXCEPT ![l].op = op] /\ ret' = ret
    <3>1. PICK op \in {"held_fills", "final_fills"} : call' = [call EXCEPT ![l].op = op] /\ ret' = ret
      BY <2>3
    <3> QED BY <1>0, <2>1, <3>1, SameStable DEF CallEffect, Asks, AdapterTypes, CallType
  <2> QED BY <1>11, <2>2, <2>3 DEF StatusBook, AfterBook
<1>12. CASE HeldFills(l) \/ FinalFills(l)
  <2>1. call[l].op \in Asks /\ UNCHANGED <<placed, amount, filled, lost, book>> /\ o \in Orders
    BY <1>0, <1>12 DEF HeldFills, FinalFills, Asks, CallsNameOrders
  <2>2. HeldStatus(o) \in Status
    BY <1>0, <2>1 DEF HeldStatus, Status
  <2>3. PICK s \in Status : Answer(l, s)
    <3>1. feed[o] \in Nat /\ amount[o] \in Nat
      BY <2>1 DEF AdapterTypes
    <3>2. CASE HeldFills(l)
      BY <2>2, <3>1, <3>2 DEF HeldFills, Status, Terminal
    <3>3. CASE FinalFills(l)
      BY <2>2, <3>1, <3>3 DEF FinalFills, Status, Terminal
    <3> QED BY <1>12, <3>2, <3>3
  <2> QED BY <1>0, <2>1, <2>3, AnswerTypes, SameStable DEF CallEffect, Asks
<1> QED BY <1>1, <1>2, <1>3, <1>4, <1>5, <1>6, <1>7, <1>8, <1>9, <1>10, <1>11, <1>12 DEF AdapterStep

-----------------------------------------------------------------------------
(* The adapter's invariant over the steps of a call.                         *)

LEMMA OldTrue ==
  ASSUME AdapterTypes, AdapterTypes', AdapterInv, SentStable
  PROVE  /\ \A k \in Legs : ret[k].kind = "ok" /\ ret[k].order # None => TrueOf(ret[k].st, ret[k].base, ret[k].order, book', filled')
         /\ \A o \in Orders : cache[o] # NoStatus => TrueOf(cache[o].st, cache[o].base, o, book', filled')
         /\ \A k \in Legs : call[k].op \in {"final_fills", "placed_fills"} => call[k].order \notin book'
<1>1. \A k \in Legs : ret[k].base \in Nat /\ ret[k].order \in Sent \cup {None} /\ call[k].order \in Sent \cup {None}
  BY DEF AdapterTypes, RetType, AdapterInv, OrdersSent
<1>2. \A o \in Orders : cache[o].base \in Nat /\ (cache[o] # NoStatus => o \in Sent)
  BY DEF AdapterTypes, Status, NoStatus, AdapterInv, OrdersSent
<1>3. None \notin book'
  BY OrderFacts DEF AdapterTypes
<1>4. \A k \in Legs : ret[k].kind = "ok" /\ ret[k].order # None => TrueOf(ret[k].st, ret[k].base, ret[k].order, book', filled')
  BY <1>1, TrueStays DEF AdapterInv, RetTrue
<1>5. \A o \in Orders : cache[o] # NoStatus => TrueOf(cache[o].st, cache[o].base, o, book', filled')
  BY <1>2, TrueStays DEF AdapterInv, CacheTrue
<1> QED BY <1>1, <1>3, <1>4, <1>5 DEF SentStable, AdapterInv, CallsGone

\* The orders of the calls and of what they return, and one call at a time.
LEMMA CallKeeps ==
  ASSUME AdapterTypes, AdapterTypes', AdapterInv, SentStable, NEW l \in Legs, CallEffect(l)
  PROVE  /\ OneAtATime'
         /\ \A k \in Legs : call'[k].order \in Sent' \cup {None} /\ ret'[k].order \in Sent' \cup {None}
<1>1. OneAtATime'
  BY NullTypes DEF CallEffect, AdapterInv, OneAtATime
<1>2. \A k \in Legs : call[k].order \in Sent' \cup {None} /\ ret[k].order \in Sent' \cup {None}
  BY DEF AdapterInv, OrdersSent, SentStable
<1>3. Sent \subseteq Sent' /\ (Sent' # Sent => NextOrder(l) \in Sent')
  BY DEF SentStable, CallEffect
<1> QED BY <1>1, <1>2, <1>3, NullTypes DEF CallEffect

\* A step of a call on the venue: a new order, and what becomes of the adapter's books.
LEMMA NewKeeps ==
  ASSUME AdapterTypes, AdapterTypes', AdapterInv, NEW l \in Legs, NEW n \in 0..call[l].size, NEW gone, OnVenue(l, n, gone),
         call[l].size > 0, call[l].market \/ n = 0, UNCHANGED <<cache, acked>>,
         \/ refs' = refs /\ lost' = lost \cup {NextOrder(l)} /\ snap' = snap
         \/ refs' = refs \cup {NextOrder(l)} /\ lost' = lost /\ snap' = NoSnap
  PROVE  /\ book' \cup refs' \cup lost' \cup acked' \subseteq Sent' /\ \A o \in Orders \ Sent' : cache'[o] = NoStatus /\ filled'[o] = 0
         /\ Amounts' /\ RefsAnswered' /\ SnapShows' /\ AckedGone'
<1> DEFINE o == NextOrder(l)
<1>1. call[l].size \in Nat /\ call[l].market \in BOOLEAN /\ n \in Nat
  BY DEF AdapterTypes, CallType
<1>2. /\ o \in Orders \ Sent /\ Sent' = Sent \cup {o} /\ o[1] = l
      /\ amount'[o] = call[l].size /\ filled'[o] = n
      /\ feed[o] <= n => feed'[o] <= n
      /\ "lag" \notin Faults[l] => feed'[o] = n
      /\ \A p \in Orders \ {o} : amount'[p] = amount[p] /\ filled'[p] = filled[p] /\ feed'[p] = feed[p]
      /\ book' = (book \ gone) \cup (IF call[l].market THEN {} ELSE {o})
  BY <1>1, OnVenueTypes
<1> HIDE DEF o
<1>3. book' \cup refs' \cup lost' \cup acked' \subseteq Sent' /\ \A p \in Orders \ Sent' : cache'[p] = NoStatus /\ filled'[p] = 0
  BY <1>2 DEF AdapterInv, OrdersSent, o
<1>4. filled[o] = 0 /\ feed[o] \in Nat /\ feed[o] <= filled[o] /\ o \notin book
  BY <1>2 DEF AdapterInv, OrdersSent, Amounts, AdapterTypes
<1>5. Amounts'
  <2> SUFFICES ASSUME NEW p \in Orders
               PROVE  /\ feed'[p] <= filled'[p] /\ filled'[p] <= amount'[p]
                      /\ "lag" \notin Faults[p[1]] => feed'[p] = filled'[p]
                      /\ p \in book' => filled'[p] < amount'[p]
    BY DEF Amounts
  <2>1. CASE p = o
    BY <1>1, <1>2, <1>4, <2>1
  <2>2. CASE p # o
    BY <1>2, <2>2 DEF AdapterInv, Amounts
  <2> QED BY <2>1, <2>2
<1>6. RefsAnswered' /\ AckedGone'
  BY <1>2 DEF AdapterInv, RefsAnswered, AckedGone, OrdersSent, o
<1>7. SnapShows'
  BY <1>2, NullTypes DEF AdapterInv, SnapShows, o
<1> QED BY <1>3, <1>5, <1>6, <1>7

\* A step that sends nothing and fills nothing.
LEMMA StillKeeps ==
  ASSUME AdapterTypes, AdapterTypes', AdapterInv, UNCHANGED <<placed, amount, filled, feed, lost>>, book' \subseteq book,
         refs' \subseteq refs, acked' \subseteq acked \/ (\E o \in Sent : acked' = acked \cup {o} /\ (o \notin book' \/ o \notin refs')),
         \A o \in Orders \ Sent : cache'[o] = NoStatus,
         snap'.kind = "list" => book' \ lost \subseteq snap'.view
  PROVE  /\ book' \cup refs' \cup lost' \cup acked' \subseteq Sent' /\ \A o \in Orders \ Sent' : cache'[o] = NoStatus /\ filled'[o] = 0
         /\ Amounts' /\ RefsAnswered' /\ SnapShows' /\ AckedGone'
<1>1. Sent' = Sent
  BY DEF Sent
<1>2. book' \cup refs' \cup lost' \cup acked' \subseteq Sent' /\ \A o \in Orders \ Sent' : cache'[o] = NoStatus /\ filled'[o] = 0
  BY <1>1 DEF AdapterInv, OrdersSent
<1>3. Amounts'
  BY DEF AdapterInv, Amounts
<1>4. RefsAnswered' /\ SnapShows'
  BY DEF AdapterInv, RefsAnswered, SnapShows
<1>5. AckedGone'
  BY DEF AdapterInv, AckedGone
<1> QED BY <1>2, <1>3, <1>4, <1>5

LEMMA AdapterKeeps ==
  ASSUME AdapterTypes, CallsNameOrders, AdapterInv, NEW l \in Legs, AdapterStep(l)
  PROVE  AdapterInv'
<1> DEFINE o == call[l].order
           Where == /\ book' \cup refs' \cup lost' \cup acked' \subseteq Sent'
                    /\ \A p \in Orders \ Sent' : cache'[p] = NoStatus /\ filled'[p] = 0
                    /\ Amounts' /\ RefsAnswered' /\ SnapShows' /\ AckedGone'
<1> USE NullTypes DEF venueVars, adapterVars
<1>1. AdapterTypes' /\ CallsNameOrders' /\ CallEffect(l) /\ SentStable
  BY CallTypes, CallStep DEF AdapterInv
<1>2. /\ OneAtATime'
      /\ \A k \in Legs : call'[k].order \in Sent' \cup {None} /\ ret'[k].order \in Sent' \cup {None}
  BY <1>1, CallKeeps
<1>3. /\ \A k \in Legs : ret[k].kind = "ok" /\ ret[k].order # None => TrueOf(ret[k].st, ret[k].base, ret[k].order, book', filled')
      /\ \A p \in Orders : cache[p] # NoStatus => TrueOf(cache[p].st, cache[p].base, p, book', filled')
      /\ \A k \in Legs : call[k].op \in {"final_fills", "placed_fills"} => call[k].order \notin book'
  BY <1>1, OldTrue
<1>4. \A k \in Legs \ {l} : call'[k] = call[k] /\ ret'[k] = ret[k]
  BY <1>1 DEF CallEffect
<1>0. /\ call[l] \in CallType /\ o \in Sent \cup {None} /\ (call[l].op # "none" => ret[l].kind = "none")
      /\ \A p \in Orders : /\ cache[p] \in Status \cup {NoStatus} /\ feed[p] \in Nat /\ filled[p] \in Nat /\ feed[p] <= filled[p]
                           /\ "lag" \notin Faults[p[1]] => feed[p] = filled[p]
      /\ Sent \subseteq Orders /\ None \notin Orders
  BY OrderFacts DEF AdapterTypes, AdapterInv, OneAtATime, OrdersSent, Amounts, Sent
\* What is left to show of a step: where the orders are, the cached statuses, and what the leg's own call returned.
<1>5. ASSUME Where, \A p \in Orders : cache'[p] # NoStatus => TrueOf(cache'[p].st, cache'[p].base, p, book', filled'),
             ret'[l].kind = "ok" /\ ret'[l].order # None => TrueOf(ret'[l].st, ret'[l].base, ret'[l].order, book', filled'),
             call'[l].op \in {"final_fills", "placed_fills"} => call'[l].order \notin book'
      PROVE  AdapterInv'
  <2>1. OrdersSent'
    BY <1>2, <1>5 DEF OrdersSent
  <2>2. CacheTrue' /\ RetTrue' /\ CallsGone'
    BY <1>3, <1>4, <1>5 DEF CacheTrue, RetTrue, CallsGone
  <2> QED BY <1>2, <1>5, <2>1, <2>2 DEF AdapterInv
<1>6. CASE PlaceAccepted(l)
  <2>1. /\ OnVenue(l, Crossed(l), {}) /\ Crossed(l) \in 0..call[l].size /\ (~call[l].market => Crossed(l) = 0) /\ call[l].size > 0
        /\ refs' = refs \cup {NextOrder(l)} /\ lost' = lost /\ snap' = NoSnap /\ UNCHANGED <<cache, acked>>
    BY <1>6, CrossedTypes DEF PlaceAccepted, CallsNameOrders
  <2>2. Where
    BY <1>1, <2>1, NewKeeps
  <2>3. CASE call[l].market
    <3>1. call' = [call EXCEPT ![l].op = "placed_fills", ![l].order = NextOrder(l)] /\ ret' = ret
      BY <1>6, <2>3 DEF PlaceAccepted
    <3>2. call'[l].order = NextOrder(l) /\ NextOrder(l) \notin book'
      <4>1. NextOrder(l) \notin Sent /\ book' = (book \ {}) \cup (IF call[l].market THEN {} ELSE {NextOrder(l)})
        BY <1>0, <2>1, OnVenueTypes DEF CallType
      <4> QED BY <2>3, <3>1, <4>1 DEF AdapterTypes, AdapterInv, OrdersSent, CallType
    <3> QED BY <1>3, <1>5, <2>1, <2>2, <3>1, <3>2
  <2>4. CASE ~call[l].market
    <3> DEFINE r == [kind |-> "ok", order |-> NextOrder(l), st |-> "OPEN", base |-> 0]
    <3>1. NextOrder(l) \in Orders /\ filled' \in [Orders -> Nat]
      BY <1>0, <2>1, OnVenueTypes DEF CallType
    <3>2. r \in RetType /\ Deliver(l, r)
      BY <1>6, <2>4, <3>1 DEF PlaceAccepted, RetType
    <3>3. TrueOf(r.st, r.base, r.order, book', filled')
      BY <3>1 DEF TrueOf, Terminal
    <3> HIDE DEF r
    <3>4. call'[l] = NoCall /\ ret'[l] = r
      BY <3>2, DeliverTypes
    <3> QED BY <1>3, <1>5, <2>1, <2>2, <3>3, <3>4
  <2> QED BY <2>3, <2>4
<1>7. CASE PlaceUnanswered(l)
  <2>1. /\ OnVenue(l, Crossed(l), {}) /\ Crossed(l) \in 0..call[l].size /\ (~call[l].market => Crossed(l) = 0) /\ call[l].size > 0
        /\ refs' = refs /\ lost' = lost \cup {NextOrder(l)} /\ snap' = snap /\ UNCHANGED <<cache, acked>>
        /\ call[l].op = "place" /\ Retry(l)
    BY <1>7, CrossedTypes DEF PlaceUnanswered, CallsNameOrders
  <2>2. Where
    BY <1>1, <2>1, NewKeeps
  <2>3. call'[l].op \in {"place", "none"} /\ ret'[l].kind \in {"none", "failed"}
    BY <1>0, <2>1, RetryTypes
  <2> QED BY <1>3, <1>5, <2>1, <2>2, <2>3
<1>8. CASE Replaced(l)
  <2>1. PICK gone : OnVenue(l, 0, gone)
    BY <1>8 DEF Replaced
  <2>2. Where
    <3>1. 0 \in 0..call[l].size
      BY <1>0 DEF CallType
    <3> QED BY <1>1, <1>8, <2>1, <3>1, NewKeeps DEF Replaced, CallsNameOrders
  <2> DEFINE r == [kind |-> "ok", order |-> NextOrder(l), st |-> "OPEN", base |-> 0]
  <2>3. NextOrder(l) \in Orders /\ filled' \in [Orders -> Nat]
    BY <2>1, OnVenueTypes
  <2>4. r \in RetType /\ Deliver(l, r)
    BY <1>8, <2>3 DEF Replaced, RetType
  <2>5. TrueOf(r.st, r.base, r.order, book', filled')
    BY <2>3 DEF TrueOf, Terminal
  <2> HIDE DEF r
  <2>6. call'[l] = NoCall /\ ret'[l] = r /\ cache' = cache
    BY <1>8, <2>4, DeliverTypes DEF Replaced
  <2> QED BY <1>3, <1>5, <2>2, <2>5, <2>6
<1>9. CASE ReplaceUnanswered(l)
  <2>1. Where
    <3>1. 0 \in 0..call[l].size
      BY <1>0 DEF CallType
    <3> QED BY <1>1, <1>9, <3>1, NewKeeps DEF ReplaceUnanswered, CallsNameOrders
  <2>2. PICK r \in RetType : Deliver(l, r) /\ r.kind = "failed" /\ cache' = cache
    BY <1>9 DEF ReplaceUnanswered, RetType, NoRet
  <2> QED BY <1>3, <1>5, <2>1, <2>2, DeliverTypes
\* No other step sends an order. An answer is true of the order it is about.
<1>10. ASSUME Where, NEW s \in Status \cup {NoStatus}, Answer(l, s), o \in Orders => TrueOf(s.st, s.base, o, book', filled'),
              \A p \in Orders : cache'[p] # cache[p] => cache'[p] = NoStatus \/ (p = o /\ cache'[p] = s)
       PROVE  AdapterInv'
  <2>1. call'[l] = NoCall /\ ret'[l].order = o /\ ret'[l].st = s.st /\ ret'[l].base = s.base
    BY <1>10, AnswerTypes
  <2>2. \A p \in Orders : cache'[p] # NoStatus => TrueOf(cache'[p].st, cache'[p].base, p, book', filled')
    BY <1>3, <1>10
  <2> QED BY <1>0, <1>5, <1>10, <2>1, <2>2
<1>11. CASE PlacedFills(l)
  <2>1. Where
    BY <1>0, <1>1, <1>11, StillKeeps DEF PlacedFills, AdapterInv, OrdersSent, SnapShows
  <2>2. o \in Orders /\ o \notin book'
    BY <1>0, <1>11 DEF PlacedFills, CallsNameOrders, AdapterInv, CallsGone
  <2>3. PICK s \in Status : Answer(l, s) /\ TrueOf(s.st, s.base, o, book', filled')
    <3>1. [st |-> "PARTIALLY_FILLED", base |-> 0] \in Status /\ [st |-> "FILLED", base |-> feed[o]] \in Status
      BY <1>0, <2>2 DEF Status, Terminal
    <3>2. /\ TrueOf("PARTIALLY_FILLED", 0, o, book', filled')
          /\ TrueOf("FILLED", feed[o], o, book', filled')
      BY <1>0, <1>11, <2>2 DEF PlacedFills, TrueOf, Terminal
    <3> QED BY <1>11, <3>1, <3>2 DEF PlacedFills
  <2> QED BY <1>10, <1>11, <2>1, <2>3 DEF PlacedFills
<1>12. CASE PlaceRejected(l) \/ CancelRefuted(l) \/ StatusUnknown(l) \/ StatusError(l)
  <2>1. Retry(l) /\ UNCHANGED <<venueVars, adapterVars, lost>> /\ call[l].op \in {"place", "verify", "status", "final_fills"}
    BY <1>12 DEF PlaceRejected, CancelRefuted, StatusUnknown, StatusError
  <2>2. Where
    BY <1>0, <1>1, <2>1, StillKeeps DEF AdapterInv, OrdersSent, SnapShows
  <2>3. call'[l].op \notin {"final_fills", "placed_fills"} /\ ret'[l].kind # "ok"
    BY <1>0, <2>1, RetryTypes
  <2> QED BY <1>3, <1>5, <2>1, <2>2, <2>3
<1>13. CASE PlaceThrottled(l) \/ ReplaceRejected(l) \/ ReplaceThrottled(l)
  <2>1. PICK r \in RetType : Deliver(l, r) /\ r.kind \in {"failed", "throttled"}
    BY <1>13 DEF PlaceThrottled, ReplaceRejected, ReplaceThrottled, RetType, NoRet
  <2>2. UNCHANGED <<venueVars, adapterVars, lost>>
    BY <1>13 DEF PlaceThrottled, ReplaceRejected, ReplaceThrottled
  <2>3. Where
    BY <1>0, <1>1, <2>2, StillKeeps DEF AdapterInv, OrdersSent, SnapShows
  <2> QED BY <1>3, <1>5, <2>1, <2>2, <2>3, DeliverTypes
<1>14. CASE Cancelled(l) \/ CancelVerified(l)
  <2>1. o \in Orders /\ o \in Sent /\ o \notin book' /\ book' \subseteq book /\ Answer(l, NoStatus) /\ Gone(o)
        /\ UNCHANGED <<placed, amount, filled, feed, lost>> /\ refs' \subseteq refs /\ snap' \in {snap, NoSnap}
    BY <1>0, <1>14 DEF Cancelled, CancelVerified, NoStatus, CallsNameOrders, AdapterTypes
  <2>2. (\A p \in Orders : cache'[p] # cache[p] => cache'[p] = NoStatus) /\ acked' = acked \cup {o}
    BY <2>1 DEF Gone, AdapterTypes
  <2>3. Where
    BY <1>0, <1>1, <2>1, <2>2, StillKeeps DEF AdapterInv, OrdersSent, SnapShows
  <2>4. TrueOf(NoStatus.st, NoStatus.base, o, book', filled')
    BY <1>0, <2>1 DEF TrueOf
  <2> QED BY <1>10, <2>1, <2>2, <2>3, <2>4
<1>15. CASE CancelNotConfirmed(l)
  <2>1. call' = [call EXCEPT ![l].op = "verify"] /\ ret' = ret
    BY <1>15 DEF CancelNotConfirmed
  <2>2. book' \subseteq book /\ UNCHANGED <<placed, amount, filled, feed, lost, refs, cache, acked>> /\ snap' = NoSnap
    BY <1>15 DEF CancelNotConfirmed
  <2>3. Where
    BY <1>0, <1>1, <2>2, StillKeeps DEF AdapterInv, OrdersSent
  <2>4. call'[l].op = "verify"
    BY <2>1 DEF AdapterTypes, CallType
  <2> QED BY <1>3, <1>5, <2>1, <2>2, <2>3, <2>4
<1>16. CASE CancelUnknown(l)
  <2>1. UNCHANGED <<venueVars, adapterVars, lost>> /\ Answer(l, NoStatus)
    BY <1>16 DEF CancelUnknown, NoStatus
  <2>2. Where
    BY <1>0, <1>1, <2>1, StillKeeps DEF AdapterInv, OrdersSent, SnapShows
  <2>3. o \in Orders => TrueOf(NoStatus.st, NoStatus.base, o, book', filled')
    BY <1>0, <2>1 DEF TrueOf
  <2> QED BY <1>10, <2>1, <2>2, <2>3
<1>17. CASE StatusCached(l)
  <2>1. o \in Orders /\ cache[o] # NoStatus /\ Answer(l, cache[o]) /\ UNCHANGED <<venueVars, adapterVars, lost>>
    BY <1>17 DEF StatusCached, ShortCircuit, AdapterTypes
  <2>2. Where
    BY <1>0, <1>1, <2>1, StillKeeps DEF AdapterInv, OrdersSent, SnapShows
  <2> QED BY <1>0, <1>3, <1>10, <2>1, <2>2
<1>18. CASE StatusBook(l)
  <2> DEFINE open == [st |-> "OPEN", base |-> 0]
  <2>1. o \in refs /\ o \in Sent /\ UNCHANGED <<venueVars, refs, acked, lost>>
    BY <1>0, <1>18 DEF StatusBook, AdapterTypes
  <2>2. PICK s \in OpenOrdersCoalesced(o) :
           /\ snap' = s
           /\ IF s.kind = "list" /\ o \in s.view
              THEN Answer(l, open) /\ cache' = [cache EXCEPT ![o] = open]
              ELSE call' = [call EXCEPT ![l].op = AfterBook(o, s)] /\ UNCHANGED <<cache, ret>>
    BY <1>18 DEF StatusBook
  <2>3. s.kind = "list" => book \ lost \subseteq s.view
    <3>1. BookRead.view = book /\ [NoSnap EXCEPT !.kind = "denied", !.now = TRUE].kind = "denied"
      BY DEF BookRead, NoSnap
    <3>2. s \in {snap, BookRead, [NoSnap EXCEPT !.kind = "denied", !.now = TRUE]}
      BY <2>2 DEF OpenOrdersCoalesced
    <3> QED BY <3>1, <3>2 DEF AdapterInv, SnapShows
  <2>4. open \in Status /\ TrueOf(open.st, open.base, o, book', filled') /\ open # NoStatus
    BY <1>0, <2>1 DEF Status, TrueOf, NoStatus, Terminal
  <2>5. CASE s.kind = "list" /\ o \in s.view
    <3>1. Answer(l, open) /\ cache' = [cache EXCEPT ![o] = open]
      BY <2>2, <2>5
    <3> HIDE DEF open
    <3>2. \A p \in Orders : cache'[p] # cache[p] => p = o /\ cache'[p] = open
      BY <3>1 DEF AdapterTypes
    <3>3. Where
      BY <1>0, <1>1, <2>1, <2>2, <2>3, <3>2, StillKeeps DEF AdapterInv, OrdersSent
    <3> QED BY <1>10, <2>4, <3>1, <3>2, <3>3
  <2>6. CASE ~(s.kind = "list" /\ o \in s.view)
    <3>1. call' = [call EXCEPT ![l].op = AfterBook(o, s)] /\ UNCHANGED <<cache, ret>>
      BY <2>2, <2>6
    <3>2. Where
      BY <1>0, <1>1, <2>1, <2>2, <2>3, <3>1, StillKeeps DEF AdapterInv, OrdersSent
    <3>3. call'[l].op = AfterBook(o, s) /\ call'[l].order = o
      BY <3>1 DEF AdapterTypes, CallType
    \* The fills are final only of an order the book does not show, or one whose cancellation was confirmed.
    <3>4. AfterBook(o, s) = "final_fills" => o \notin book
      <4>1. s.kind # "denied" => s.kind = "list"
        <5>1. BookRead.kind = "list" /\ [NoSnap EXCEPT !.kind = "denied", !.now = TRUE].kind = "denied"
          BY DEF BookRead, NoSnap
        <5>2. s \in {BookRead, [NoSnap EXCEPT !.kind = "denied", !.now = TRUE]} \/ s.kind \in {"list", "denied"}
          BY <2>2 DEF OpenOrdersCoalesced
        <5> QED BY <5>1, <5>2
      <4> QED BY <2>1, <2>3, <2>6, <4>1 DEF AfterBook, AdapterInv, RefsAnswered, AckedGone
    <3>5. AfterBook(o, s) # "placed_fills"
      BY DEF AfterBook
    <3> QED BY <1>3, <1>5, <2>1, <3>1, <3>2, <3>3, <3>4, <3>5
  <2> QED BY <2>5, <2>6
<1>19. CASE HeldFills(l) \/ FinalFills(l)
  <2>1. o \in Orders /\ o \in Sent /\ UNCHANGED <<venueVars, refs, snap, lost>> /\ acked' \subseteq acked
    BY <1>0, <1>19 DEF HeldFills, FinalFills, CallsNameOrders
  <2>2. HeldStatus(o) \in Status /\ TrueOf(HeldStatus(o).st, HeldStatus(o).base, o, book', filled')
    BY <1>0, <1>3, <2>1 DEF HeldStatus, Status, TrueOf, Terminal
  <2>3. PICK s \in Status : /\ Answer(l, s) /\ TrueOf(s.st, s.base, o, book', filled')
                            /\ cache' \in {cache, [cache EXCEPT ![o] = s]}
    <3>1. amount[o] \in Nat /\ filled[o] <= amount[o] /\ (o \in book => filled[o] < amount[o])
      BY <2>1 DEF AdapterTypes, AdapterInv, Amounts
    <3>2. CASE HeldFills(l)
      <4>1. PICK fb \in 0..feed[o] :
               IF fb = 0 THEN Answer(l, HeldStatus(o)) /\ UNCHANGED <<cache, dirty>>
               ELSE LET s == [st |-> IF fb = amount[o] THEN "FILLED" ELSE "PARTIALLY_FILLED", base |-> fb]
                    IN Answer(l, s) /\ Keep(o, s)
        BY <3>2 DEF HeldFills
      <4>2. CASE fb = 0
        BY <2>2, <4>1, <4>2
      <4>3. CASE fb # 0
        <5> DEFINE s == [st |-> IF fb = amount[o] THEN "FILLED" ELSE "PARTIALLY_FILLED", base |-> fb]
        <5>1. s \in Status /\ s.st = (IF fb = amount[o] THEN "FILLED" ELSE "PARTIALLY_FILLED") /\ s.base = fb
          BY <1>0, <2>1 DEF Status, Terminal
        <5>2. Answer(l, s) /\ Keep(o, s)
          BY <4>1, <4>3
        <5> HIDE DEF s
        <5>3. TrueOf(s.st, s.base, o, book', filled')
          BY <1>0, <2>1, <3>1, <5>1 DEF TrueOf, Terminal
        <5> QED BY <5>1, <5>2, <5>3 DEF Keep
      <4> QED BY <4>2, <4>3
    <3>3. CASE FinalFills(l)
      <4> DEFINE s == [st |-> IF feed[o] = amount[o] THEN "FILLED" ELSE "CANCELLED", base |-> feed[o]]
      <4>1. s \in Status /\ s.st \in Terminal /\ s.base = feed[o]
        BY <1>0, <2>1 DEF Status, Terminal
      <4>2. \/ Answer(l, s) /\ Keep(o, s)
            \/ Answer(l, HeldStatus(o)) /\ UNCHANGED <<cache, dirty>>
        BY <3>3 DEF FinalFills
      <4> HIDE DEF s
      <4>3. TrueOf(s.st, s.base, o, book', filled')
        BY <1>0, <1>3, <2>1, <3>3, <4>1 DEF FinalFills, TrueOf
      <4> QED BY <2>2, <4>1, <4>2, <4>3 DEF Keep
    <3> QED BY <1>19, <3>2, <3>3
  <2>4. \A p \in Orders : cache'[p] # cache[p] => p = o /\ cache'[p] = s
    BY <2>3 DEF AdapterTypes
  <2>5. Where
    BY <1>0, <1>1, <2>1, <2>4, StillKeeps DEF AdapterInv, OrdersSent, SnapShows
  <2> QED BY <1>10, <2>3, <2>4, <2>5
<1> QED BY <1>6, <1>7, <1>8, <1>9, <1>11, <1>12, <1>13, <1>14, <1>15, <1>16, <1>17, <1>18, <1>19 DEF AdapterStep

\* A fill: an order of the book trades one more unit, and leaves the book with its last one.
LEMMA FillKeeps ==
  ASSUME AdapterTypes, CallsNameOrders, AdapterInv, NEW o \in Orders, VenueFill(o)
  PROVE  AdapterInv' /\ SentStable
<1> USE DEF adapterVars, calls
<1>0. AdapterTypes'
  BY VenueTypes DEF VenueStep
<1>1. /\ o \in book /\ o \in Sent /\ filled' = [filled EXCEPT ![o] = @ + 1]
      /\ book' = (IF filled[o] + 1 = amount[o] THEN book \ {o} ELSE book)
      /\ UNCHANGED <<placed, amount, refs, cache, acked, snap, call, ret, lost>>
  BY DEF VenueFill, AdapterInv, OrdersSent
<1>2. PICK f \in Shown(o, filled[o] + 1) : feed' = [feed EXCEPT ![o] = f]
  BY DEF VenueFill
<1>3. filled[o] \in Nat /\ feed[o] \in Nat /\ amount[o] \in Nat /\ feed[o] <= filled[o] /\ filled[o] < amount[o]
  BY <1>1 DEF AdapterTypes, AdapterInv, Amounts
<1>4. f \in Nat /\ f <= filled[o] + 1 /\ ("lag" \notin Faults[o[1]] => f = filled[o] + 1)
  BY <1>2, <1>3 DEF Shown
<1>5. /\ filled'[o] = filled[o] + 1 /\ feed'[o] = f
      /\ \A p \in Orders \ {o} : filled'[p] = filled[p] /\ feed'[p] = feed[p]
  BY <1>1, <1>2 DEF AdapterTypes
<1>6. Sent' = Sent
  BY <1>1 DEF Sent
<1>7. SentStable
  <2>1. \A p \in Sent : p \in Orders /\ filled[p] \in Nat /\ (p # o => filled'[p] = filled[p])
    BY <1>5 DEF Sent, AdapterTypes
  <2> QED BY <1>1, <1>3, <1>5, <1>6, <2>1 DEF SentStable
<1>8. Amounts'
  <2> SUFFICES ASSUME NEW p \in Orders
               PROVE  /\ feed'[p] <= filled'[p] /\ filled'[p] <= amount'[p]
                      /\ "lag" \notin Faults[p[1]] => feed'[p] = filled'[p]
                      /\ p \in book' => filled'[p] < amount'[p]
    BY DEF Amounts
  <2>1. CASE p = o
    BY <1>1, <1>3, <1>4, <1>5, <2>1
  <2>2. CASE p # o
    BY <1>1, <1>5, <2>2 DEF AdapterInv, Amounts
  <2> QED BY <2>1, <2>2
<1>9. OrdersSent' /\ RefsAnswered' /\ SnapShows' /\ AckedGone' /\ OneAtATime'
  BY <1>1, <1>5, <1>6 DEF AdapterInv, OrdersSent, RefsAnswered, SnapShows, AckedGone, OneAtATime
<1>10. CacheTrue' /\ RetTrue' /\ CallsGone'
  BY <1>0, <1>1, <1>7, OldTrue DEF CacheTrue, RetTrue, CallsGone
<1> QED BY <1>7, <1>8, <1>9, <1>10 DEF AdapterInv

LEMMA VenueKeeps ==
  ASSUME AdapterTypes, CallsNameOrders, AdapterInv, VenueStep
  PROVE  AdapterInv' /\ SentStable /\ UNCHANGED calls
<1> USE DEF adapterVars, calls, venueVars
<1>0. AdapterTypes'
  BY VenueTypes
<1>1. CASE \E o \in Orders : VenueFill(o)
  BY <1>1, FillKeeps DEF VenueFill
<1>2. ASSUME UNCHANGED <<placed, amount, filled, refs, cache, acked, call, ret, lost>>, book' \subseteq book, Amounts', SnapShows'
      PROVE  AdapterInv' /\ SentStable
  <2>1. SentStable /\ Sent' = Sent
    BY <1>2, SameStable
  <2>2. CacheTrue' /\ RetTrue' /\ CallsGone'
    BY <1>0, <1>2, <2>1, OldTrue DEF CacheTrue, RetTrue, CallsGone
  <2>3. OrdersSent' /\ RefsAnswered' /\ AckedGone' /\ OneAtATime'
    BY <1>2, <2>1 DEF AdapterInv, OrdersSent, RefsAnswered, AckedGone, OneAtATime
  <2> QED BY <1>2, <2>1, <2>2, <2>3 DEF AdapterInv
<1>3. CASE \E o \in Orders : VenueDrop(o)
  BY <1>2, <1>3 DEF VenueDrop, AdapterInv, Amounts, SnapShows
<1>4. ASSUME NEW o \in Orders, FeedCatchesUp(o) PROVE AdapterInv' /\ SentStable
  <2>1. feed' = [feed EXCEPT ![o] = filled[o]]
    BY <1>4 DEF FeedCatchesUp
  <2>2. Amounts'
    BY <1>4, <2>1 DEF FeedCatchesUp, AdapterInv, Amounts, AdapterTypes
  <2>3. SnapShows'
    BY <1>4 DEF FeedCatchesUp, AdapterInv, SnapShows
  <2> QED BY <1>2, <1>4, <2>2, <2>3 DEF FeedCatchesUp
<1>5. CASE \E o \in Orders : StreamEvent(o)
  BY <1>2, <1>5 DEF StreamEvent, AdapterInv, Amounts, SnapShows
<1>6. CASE BeginCycle
  BY <1>2, <1>6 DEF BeginCycle, AdapterInv, Amounts, SnapShows, AdapterTypes, SnapType
<1> QED BY <1>1, <1>3, <1>4, <1>5, <1>6 DEF VenueStep, VenueFill, VenueDrop, FeedCatchesUp, StreamEvent, BeginCycle

\* What an executor does of its own leaves the venue alone.
LEMMA ExecutorKeeps ==
  ASSUME AdapterTypes, CallsNameOrders, AdapterInv, ExecutorStep
  PROVE  AdapterTypes' /\ CallsNameOrders' /\ AdapterInv' /\ SentStable
<1> USE NullTypes DEF venueVars
<1>0. /\ UNCHANGED <<placed, book, amount, filled, feed, reduce, heard, dirty, lost>> /\ Sent' = Sent
      /\ call' \in [Legs -> CallType] /\ ret' \in [Legs -> RetType]
  BY DEF ExecutorStep, Sent
<1>1. \/ UNCHANGED <<refs, cache, acked, snap>>
      \/ \E o \in Sent : /\ cache' = [cache EXCEPT ![o] = NoStatus] /\ acked' = acked \cup {o}
                         /\ refs' = refs \ {o} /\ snap' \in {snap, NoSnap}
  BY DEF ExecutorStep, ForgetCancelled, Gone
<1>2. AdapterTypes'
  BY <1>0, <1>1 DEF AdapterTypes, Sent
<1>3. SentStable
  BY <1>0, SameStable
<1>4. CallsNameOrders' /\ OneAtATime' /\ CallsGone' /\ RetTrue'
      /\ \A k \in Legs : call'[k].order \in Sent' \cup {None} /\ ret'[k].order \in Sent' \cup {None}
  <2> SUFFICES ASSUME NEW k \in Legs
               PROVE  /\ call'[k].op \in {"placed_fills", "final_fills", "held_fills", "verify"} => call'[k].order # None
                      /\ call'[k].op \in {"place", "replace"} => call'[k].size > 0
                      /\ call'[k].op # "none" => ret'[k].kind = "none"
                      /\ call'[k].op \in {"final_fills", "placed_fills"} => call'[k].order \notin book'
                      /\ ret'[k].kind = "ok" /\ ret'[k].order # None => TrueOf(ret'[k].st, ret'[k].base, ret'[k].order, book', filled')
                      /\ call'[k].order \in Sent' \cup {None} /\ ret'[k].order \in Sent' \cup {None}
    BY DEF CallsNameOrders, OneAtATime, CallsGone, RetTrue
  <2>1. /\ call[k].op \in {"placed_fills", "final_fills", "held_fills", "verify"} => call[k].order # None
        /\ call[k].op \in {"place", "replace"} => call[k].size > 0
        /\ call[k].op # "none" => ret[k].kind = "none"
        /\ call[k].op \in {"final_fills", "placed_fills"} => call[k].order \notin book
        /\ ret[k].kind = "ok" /\ ret[k].order # None => TrueOf(ret[k].st, ret[k].base, ret[k].order, book, filled)
        /\ call[k].order \in Sent \cup {None} /\ ret[k].order \in Sent \cup {None}
    BY DEF AdapterInv, CallsNameOrders, OneAtATime, CallsGone, RetTrue, OrdersSent
  <2>2. \/ call'[k] = call[k] /\ ret'[k] = ret[k]
        \/ ret[k].kind # "none" /\ ret'[k] = NoRet /\ (call'[k] = call[k] \/ NewCall(call'[k]))
        \/ call[k].op = "none" /\ ret[k].kind = "none" /\ ret'[k] = ret[k] /\ NewCall(call'[k])
    BY DEF ExecutorStep
  <2> QED BY <1>0, <2>1, <2>2 DEF NewCall
<1>5. OrdersSent'
  BY <1>0, <1>1, <1>4 DEF AdapterInv, OrdersSent, Sent, AdapterTypes
<1>6. Amounts' /\ RefsAnswered' /\ SnapShows' /\ AckedGone'
  BY <1>0, <1>1 DEF AdapterInv, Amounts, RefsAnswered, SnapShows, AckedGone
<1>7. CacheTrue'
  BY <1>0, <1>1 DEF AdapterInv, CacheTrue, AdapterTypes
<1> QED BY <1>2, <1>3, <1>4, <1>5, <1>6, <1>7 DEF AdapterInv

-----------------------------------------------------------------------------
(* An order leg over the steps that are not its own.                         *)

\* The adapter never finds again an order it forgot.
RefsStable == \A o \in Sent : o \notin refs => o \notin refs'

LEMMA RefsStay ==
  ASSUME AdapterTypes, NEW l \in Legs, AdapterStep(l)
  PROVE  RefsStable
<1> USE DEF adapterVars
<1>1. NextOrder(l) \notin Sent
  BY DEF NextOrder, Sent, AdapterTypes
<1>2. refs' \subseteq refs \cup {NextOrder(l)}
  <2>1. CASE PlaceAccepted(l) \/ Replaced(l)
    BY <2>1 DEF PlaceAccepted, Replaced
  <2>2. CASE Cancelled(l) \/ CancelNotConfirmed(l) \/ CancelVerified(l) \/ CancelRefuted(l) \/ CancelUnknown(l)
    BY <2>2 DEF Cancelled, CancelNotConfirmed, CancelVerified, CancelRefuted, CancelUnknown
  <2>3. CASE PlacedFills(l) \/ PlaceRejected(l) \/ PlaceUnanswered(l) \/ PlaceThrottled(l) \/ ReplaceRejected(l)
             \/ ReplaceUnanswered(l) \/ ReplaceThrottled(l)
    BY <2>3 DEF PlacedFills, PlaceRejected, PlaceUnanswered, PlaceThrottled, ReplaceRejected, ReplaceUnanswered, ReplaceThrottled
  <2>4. CASE StatusCached(l) \/ StatusUnknown(l) \/ StatusBook(l) \/ HeldFills(l) \/ FinalFills(l) \/ StatusError(l)
    BY <2>4 DEF StatusCached, StatusUnknown, StatusBook, HeldFills, FinalFills, StatusError
  <2> QED BY <2>1, <2>2, <2>3, <2>4 DEF AdapterStep
<1> QED BY <1>1, <1>2 DEF RefsStable

\* What l counted stays true.
LEMMA CountsStay ==
  ASSUME AdapterTypes, AdapterTypes', LegTypes, SentStable, NEW l \in OrderLegs, LegCounts(l), oe'[l] = oe[l]
  PROVE  LegCounts(l)'
<1>1. oe[l].rec \in Nat
  BY DEF LegTypes, OeType
<1>2. CASE oe[l].order = None
  BY <1>2 DEF LegCounts
<1>3. CASE oe[l].order # None
  <2>1. oe[l].order \in Sent /\ oe[l].order[1] = l /\ TrueOf(oe[l].seen, oe[l].rec, oe[l].order, book, filled)
    BY <1>3 DEF LegCounts
  <2>2. TrueOf(oe[l].seen, oe[l].rec, oe[l].order, book', filled')
    BY <1>1, <2>1, TrueStays
  <2>3. oe[l].order \in Sent'
    BY <2>1 DEF SentStable
  <2> QED BY <1>3, <2>1, <2>2, <2>3 DEF LegCounts
<1> QED BY <1>2, <1>3

LEMMA LivesStay ==
  ASSUME LegTypes, RefsStable, NEW l \in OrderLegs, LegLives(l), LegCounts(l), oe'[l] = oe[l]
  PROVE  LegLives(l)'
<1>1. oe[l].order # None => oe[l].order \in Sent
  BY DEF LegCounts
<1>2. ~MayStillRest(oe[l])' <=> ~MayStillRest(oe[l])
  BY DEF MayStillRest
<1>3. MayStillRest(oe[l]) => oe[l].order # None
  BY DEF MayStillRest
<1> QED BY <1>1, <1>2, <1>3 DEF LegLives, RefsStable

\* A step of others.
LEMMA OtherLeg ==
  ASSUME AdapterTypes, AdapterTypes', LegTypes, SentStable, RefsStable, NEW l \in OrderLegs, LegInv(l),
         oe'[l] = oe[l], call'[l] = call[l], ret'[l] = ret[l], Replacing(l)' <=> Replacing(l),
         \A o \in Sent' \ lost' : o[1] = l => o \in Sent
  PROVE  LegInv(l)'
<1>1. LegCounts(l)' /\ LegLives(l)'
  BY CountsStay, LivesStay DEF LegInv
<1>2. LegOwns(l)'
  BY DEF LegInv, LegOwns, SentStable
<1>3. LegCalls(l)'
  <2>1. Placing(l) => Placing(l)'
    BY DEF Placing, SentStable
  <2> QED BY <2>1 DEF LegInv, LegCalls, Awaiting, Idle
<1> QED BY <1>1, <1>2, <1>3 DEF LegInv

\* A step of its own call.
LEMMA CalledLeg ==
  ASSUME AdapterTypes, AdapterTypes', LegTypes, SentStable, RefsStable, NEW l \in OrderLegs, LegInv(l),
         CallEffect(l), UNCHANGED <<oe, slot>>
  PROVE  LegInv(l)'
<1>1. LegCounts(l)' /\ LegLives(l)'
  BY CountsStay, LivesStay DEF LegInv
<1>2. l \in Legs /\ call[l].op # "none" /\ ret[l].kind = "none" /\ (Replacing(l)' <=> Replacing(l))
  BY LegFacts DEF CallEffect, Replacing
<1>3. NextOrder(l)[1] = l /\ NextOrder(l) \notin Sent
  BY <1>2 DEF NextOrder, Sent, AdapterTypes
\* Only a placement sends an order.
<1>4. CASE oe[l].doing = "create" \/ Replacing(l)
  <2>1. oe[l].order = None /\ call[l].op \in {"place", "replace"} /\ ~call[l].market /\ call[l].size = Size
    BY <1>2, <1>4 DEF LegInv, LegCalls, Placing
  <2>2. call[l].op \notin Asks \cup Cancels
    BY <2>1 DEF Asks, Cancels
  <2>3. Placing(l)'
    BY <1>2, <1>3, <2>1, <2>2, NullTypes DEF CallEffect, Placing
  <2>4. LegCalls(l)'
    BY <1>2, <1>4, <2>1, <2>3 DEF LegInv, LegCalls, LegLives, Reading, Cancelling
  <2>5. LegOwns(l)'
    BY <1>2, <2>1, NullTypes DEF CallEffect, LegInv, LegOwns
  <2> QED BY <1>1, <2>4, <2>5 DEF LegInv
<1>5. CASE ~(oe[l].doing = "create" \/ Replacing(l))
  <2>1. oe[l].doing # "none"
    BY <1>2, <1>5 DEF LegInv, LegCalls, Idle
  <2>2. oe[l].doing \in Reading \/ oe[l].doing \in Cancelling
    BY <1>5, <2>1 DEF LegTypes, OeType, OeDoing, Reading, Cancelling
  <2>3. \/ oe[l].doing \in Reading /\ oe[l].doing \notin Cancelling /\ call[l].op \in Asks
        \/ oe[l].doing \in Cancelling /\ oe[l].doing \notin Reading /\ call[l].op \in Cancels
    BY <1>2, <2>2 DEF LegInv, LegCalls, Awaiting, Reading, Cancelling
  <2>4. call[l].op \notin {"place", "replace"} /\ call[l].order = oe[l].order /\ Asks \cap Cancels = {}
    BY <1>2, <2>3 DEF LegInv, LegCalls, Awaiting, Asks, Cancels
  <2>5. Sent' = Sent /\ lost' = lost
    BY <1>2, <1>3, <2>4 DEF CallEffect
  <2>6. LegOwns(l)'
    BY <1>2, <2>5 DEF LegInv, LegOwns
  <2>7. (call[l].op \in Asks => Awaiting(l, Asks)') /\ (call[l].op \in Cancels => Awaiting(l, Cancels)')
    BY <1>2, <2>4, <2>5, NullTypes DEF CallEffect, Awaiting
  <2>8. LegCalls(l)'
    BY <1>2, <1>5, <2>1, <2>3, <2>7 DEF LegCalls
  <2> QED BY <1>1, <2>6, <2>8 DEF LegInv
<1> QED BY <1>4, <1>5

-----------------------------------------------------------------------------
(* The steps of an order executor.                                           *)

\* An executor takes what its call returned, starts a call when it has none, or does neither.
OwnCalls(l) ==
    \/ UNCHANGED <<call, ret>>
    \/ ret[l].kind # "none" /\ Take(l) /\ (UNCHANGED call \/ \E c : NewCall(c) /\ Start(l, c))
    \/ Idle(l) /\ UNCHANGED ret /\ \E c : NewCall(c) /\ Start(l, c)

LEMMA OwnStep ==
  ASSUME AdapterTypes, NEW l \in Legs, OwnCalls(l), UNCHANGED <<venueVars, heard, dirty, lost>>,
         UNCHANGED <<refs, cache, acked, snap>> \/ \E o \in Sent : ForgetCancelled(o)
  PROVE  ExecutorStep /\ \A k \in Legs \ {l} : call'[k] = call[k] /\ ret'[k] = ret[k]
<1>1. call \in [Legs -> CallType] /\ ret \in [Legs -> RetType]
  BY DEF AdapterTypes
<1>2. CASE UNCHANGED <<call, ret>>
  BY <1>1, <1>2 DEF ExecutorStep
<1>3. CASE ret[l].kind # "none" /\ Take(l) /\ (UNCHANGED call \/ \E c : NewCall(c) /\ Start(l, c))
  <2>1. ret' \in [Legs -> RetType] /\ ret'[l] = NoRet /\ \A k \in Legs \ {l} : ret'[k] = ret[k]
    BY <1>1, <1>3, TakeTypes
  <2>2. CASE UNCHANGED call
    BY <1>1, <1>3, <2>1, <2>2 DEF ExecutorStep
  <2>3. CASE \E c : NewCall(c) /\ Start(l, c)
    <3>1. PICK c : NewCall(c) /\ Start(l, c)
      BY <2>3
    <3>2. call' \in [Legs -> CallType] /\ call'[l] = c /\ \A k \in Legs \ {l} : call'[k] = call[k]
      BY <1>1, <3>1, StartTypes DEF NewCall
    <3> QED BY <1>3, <2>1, <3>1, <3>2 DEF ExecutorStep
  <2> QED BY <1>3, <2>2, <2>3
<1>4. CASE Idle(l) /\ UNCHANGED ret /\ \E c : NewCall(c) /\ Start(l, c)
  <2>1. PICK c : NewCall(c) /\ Start(l, c)
    BY <1>4
  <2>2. call' \in [Legs -> CallType] /\ call'[l] = c /\ \A k \in Legs \ {l} : call'[k] = call[k]
    BY <1>1, <2>1, StartTypes DEF NewCall
  <2> QED BY <1>1, <1>4, <2>1, <2>2 DEF ExecutorStep, Idle
<1> QED BY <1>2, <1>3, <1>4 DEF OwnCalls

LEMMA NewCalls ==
  ASSUME AdapterTypes
  PROVE  /\ NewCall(Place(Size, FALSE, FALSE))
         /\ \A o \in Sent \cup {None} : NewCall(OrderStatus(o)) /\ NewCall(CancelOrder(o)) /\ NewCall(CancelAndPlace(o, Size))
<1>1. Size \in Nat /\ Size > 0 /\ Sent \subseteq Orders
  BY AdapterAssumption DEF Sent
<1>2. NewCall(Place(Size, FALSE, FALSE))
  <2>1. FALSE \in BOOLEAN
    OBVIOUS
  <2> HIDE DEF Sent
  <2>2. /\ Place(Size, FALSE, FALSE) \in CallType /\ Place(Size, FALSE, FALSE).op = "place"
        /\ Place(Size, FALSE, FALSE).order = None /\ Place(Size, FALSE, FALSE).size = Size
    BY <1>1, <2>1, NewCallTypes
  <2> QED BY <1>1, <2>2 DEF NewCall
<1>3. ASSUME NEW o \in Sent \cup {None}
      PROVE  NewCall(OrderStatus(o)) /\ NewCall(CancelOrder(o)) /\ NewCall(CancelAndPlace(o, Size))
  <2>1. o \in Orders \cup {None}
    BY <1>1
  <2> QED BY <1>1, <2>1, NewCallTypes DEF NewCall
<1> QED BY <1>2, <1>3

\* Whatever is true of the order keeps what is counted of it true.
LEMMA IngestTrue ==
  ASSUME AdapterTypes, NEW e \in OeType, NEW r \in RetType, NEW o \in Orders, TrueOf(r.st, r.base, o, book, filled), e.rec <= filled[o]
  PROVE  TrueOf(r.st, Ingested(e, r).rec, o, book, filled)
<1>1. filled[o] \in Nat /\ r.base \in Nat /\ e.rec \in Nat
  BY DEF AdapterTypes, RetType, OeType
<1> QED BY <1>1, IngestedIs DEF TrueOf

\* The state an executor is in, and what a call of its own returned.
LEMMA LegState ==
  ASSUME AdapterTypes, LegTypes, AdapterInv, NEW l \in OrderLegs, LegInv(l)
  PROVE  /\ l \in Legs /\ oe[l] \in OeType /\ ret[l] \in RetType /\ call[l] \in CallType
         /\ oe[l].order \in Sent \cup {None} /\ Sent \subseteq Orders /\ None \notin Orders
         /\ \A o \in Sent : filled[o] \in Nat
         /\ oe[l].order # None => /\ oe[l].order[1] = l /\ oe[l].rec <= filled[oe[l].order]
                                  /\ TrueOf(oe[l].seen, oe[l].rec, oe[l].order, book, filled)
         /\ oe[l].order = None => oe[l].rec = 0 /\ oe[l].seen = "none"
         /\ ret[l].kind # "none" => call[l].op = "none"
         /\ ret[l].kind # "none" /\ oe[l].doing \in Reading \cup Cancelling =>
               ret[l].kind = "failed" \/ (ret[l].kind = "ok" /\ ret[l].order = oe[l].order)
         /\ ret[l].kind = "ok" /\ oe[l].doing \in Reading =>
               TrueOf(ret[l].st, ret[l].base, oe[l].order, book, filled)
         /\ ret[l].kind = "ok" /\ (oe[l].doing = "create" \/ Replacing(l)) =>
               /\ ret[l].order \in Sent /\ ret[l].order[1] = l
               /\ TrueOf(ret[l].st, ret[l].base, ret[l].order, book, filled)
<1>1. /\ l \in Legs /\ oe[l] \in OeType /\ ret[l] \in RetType /\ call[l] \in CallType
      /\ Sent \subseteq Orders /\ None \notin Orders /\ \A o \in Sent : filled[o] \in Nat
  BY LegFacts, OrderFacts DEF AdapterTypes, LegTypes, Sent
<1>2. /\ oe[l].order \in Sent \cup {None}
      /\ oe[l].order # None => oe[l].order[1] = l /\ TrueOf(oe[l].seen, oe[l].rec, oe[l].order, book, filled)
      /\ oe[l].order = None => oe[l].rec = 0 /\ oe[l].seen = "none"
  BY DEF LegInv, LegCounts
<1>3. ret[l].kind # "none" => call[l].op = "none"
  BY <1>1 DEF AdapterInv, OneAtATime
<1>4. /\ ret[l].kind # "none" /\ oe[l].doing \in Reading \cup Cancelling =>
           ret[l].kind = "failed" \/ (ret[l].kind = "ok" /\ ret[l].order = oe[l].order)
      /\ oe[l].doing \in Reading => oe[l].order # None
  BY <1>3 DEF LegInv, LegCalls, LegLives, Awaiting, Asks, Cancels, Reading
<1>5. ret[l].kind = "ok" /\ (oe[l].doing = "create" \/ Replacing(l)) => ret[l].order \in Sent /\ ret[l].order[1] = l
  BY <1>3 DEF LegInv, LegCalls, Placing
<1>6. ret[l].kind = "ok" /\ ret[l].order # None => TrueOf(ret[l].st, ret[l].base, ret[l].order, book, filled)
  BY <1>1 DEF AdapterInv, RetTrue
<1> QED BY <1>1, <1>2, <1>3, <1>4, <1>5, <1>6 DEF TrueOf

\* The record of l becomes x in a step that leaves the venue alone, and in one that is of l alone.
Turns(l, x) == x \in OeType /\ oe'[l] = x /\ UNCHANGED <<placed, book, filled, lost>> /\ refs' \subseteq refs
Becomes(l, x) == /\ x \in OeType /\ oe' = [oe EXCEPT ![l] = x]
                 /\ UNCHANGED <<placed, book, filled, lost>> /\ refs' \subseteq refs
LEMMA TurnsIs ==
  ASSUME NEW l \in OrderLegs, NEW x, Turns(l, x)
  PROVE  /\ oe'[l] = x /\ Sent' = Sent /\ UNCHANGED <<book, filled, lost>> /\ refs' \subseteq refs
         /\ MayStillRest(oe[l])' <=> x.order # None /\ x.seen \notin Terminal
  BY DEF Turns, Sent, MayStillRest

LEMMA BecomesIs ==
  ASSUME LegTypes, NEW l \in OrderLegs, NEW x, Becomes(l, x)
  PROVE  /\ oe' \in [OrderLegs -> OeType] /\ oe'[l] = x /\ \A k \in OrderLegs \ {l} : oe'[k] = oe[k]
         /\ Turns(l, x) /\ Sent' = Sent /\ UNCHANGED <<book, filled, lost>> /\ refs' \subseteq refs
         /\ MayStillRest(oe[l])' <=> x.order # None /\ x.seen \notin Terminal
  BY DEF Becomes, Turns, LegTypes, Sent, MayStillRest

\* What l works on, or took for its own, is still all it owns.
LEMMA OwnsStays ==
  ASSUME AdapterTypes, LegTypes, NEW l \in OrderLegs, LegInv(l), NEW x, Turns(l, x),
         \/ oe[l].order # None /\ x.order = oe[l].order
         \/ oe[l].order = None /\ ret[l].kind = "ok" /\ x.order = ret[l].order
         \/ oe[l].order = None /\ ret[l].kind # "ok"
  PROVE  LegOwns(l)'
<1>1. oe'[l] = x /\ Sent' = Sent /\ lost' = lost
  BY TurnsIs
<1>2. \A o \in Sent \ lost : o[1] = l => o = x.order
  <2>1. None \notin Sent
    BY OrderFacts DEF Sent
  <2> QED BY <2>1 DEF LegInv, LegOwns
<1> QED BY <1>1, <1>2 DEF LegOwns

\* The record of an executor that ends, and of one that took a status.
Ended(e, close) == [Terminated(e, close) EXCEPT !.doing = "none"]
Judged(e) == [Completed(e) EXCEPT !.doing = "none"]
LEMMA EndedIs ==
  ASSUME NEW e \in OeType, NEW close \in Closes
  PROVE  /\ Ended(e, close) \in OeType /\ Ended(e, close).doing = "none" /\ Ended(e, close).st = "TERMINATED"
         /\ Ended(e, close).order = e.order /\ Ended(e, close).seen = e.seen /\ Ended(e, close).rec = e.rec
         /\ Ended(e, close).close = IF e.st = "TERMINATED" THEN e.close ELSE close
<1> DEFINE t == Terminated(e, close)
<1>1. /\ t \in OeType /\ t.st = "TERMINATED" /\ t.order = e.order /\ t.seen = e.seen /\ t.rec = e.rec
      /\ t.close = IF e.st = "TERMINATED" THEN e.close ELSE close
  BY TerminatedIs
<1>2. Ended(e, close) = [t EXCEPT !.doing = "none"] /\ "none" \in OeDoing
  BY DEF Ended, OeDoing
<1> HIDE DEF t
<1> QED BY <1>1, <1>2, DoingIs

LEMMA JudgedIs ==
  ASSUME NEW e \in OeType
  PROVE  /\ Judged(e) \in OeType /\ Judged(e).doing = "none"
         /\ Judged(e).order = e.order /\ Judged(e).seen = e.seen /\ Judged(e).rec = e.rec
         /\ Judged(e).st = IF e.seen \in Terminal THEN "TERMINATED" ELSE e.st
         /\ Judged(e).close = IF e.seen \notin Terminal \/ e.st = "TERMINATED" THEN e.close
                              ELSE IF e.seen = "FILLED" THEN "COMPLETED" ELSE "EARLY_STOP"
<1> DEFINE t == Completed(e)
<1>1. /\ t \in OeType /\ t.order = e.order /\ t.seen = e.seen /\ t.rec = e.rec
      /\ t.st = IF e.seen \in Terminal THEN "TERMINATED" ELSE e.st
      /\ t.close = IF e.seen \notin Terminal \/ e.st = "TERMINATED" THEN e.close
                   ELSE IF e.seen = "FILLED" THEN "COMPLETED" ELSE "EARLY_STOP"
  BY CompletedIs
<1>2. Judged(e) = [t EXCEPT !.doing = "none"] /\ "none" \in OeDoing
  BY DEF Judged, OeDoing
<1> HIDE DEF t
<1> QED BY <1>1, <1>2, DoingIs

\* What is to be shown of a step of l's own: its record changes, its calls, and the invariant holds of it.
LegStep(l) == /\ \E x : Becomes(l, x)
              /\ OwnCalls(l)
              /\ LegInv(l)'

LEMMA SpawnKeeps ==
  ASSUME AdapterTypes, LegTypes, AdapterInv, NEW l \in OrderLegs, LegInv(l), ~Replacing(l)', OeSpawn(l)
  PROVE  LegStep(l) /\ oe[l].st = "new" /\ oe'[l].doing = "create" /\ oe'[l].order = None
<1> USE DEF OeQuiet, venueVars, adapterVars
<1> DEFINE x == [oe[l] EXCEPT !.st = "ACTIVE", !.doing = "create"]
           c == Place(Size, FALSE, FALSE)
<1>1. oe[l].st = "new" /\ Idle(l) /\ oe[l] = OeFresh /\ l \in Legs /\ oe[l] \in OeType
  BY LegFacts DEF OeSpawn, LegInv, LegLives, LegTypes
<1>2. x \in OeType /\ x.st = "ACTIVE" /\ x.doing = "create" /\ x.order = None /\ x.seen = "none" /\ x.rec = 0
  BY <1>1, FreshIs DEF OeType, OeStates, OeDoing
<1>3. Becomes(l, x)
  BY <1>2 DEF OeSpawn, Becomes
<1>4. NewCall(c) /\ Start(l, c) /\ ret' = ret
  BY NewCalls DEF OeSpawn
<1>5. c \in CallType /\ c.op = "place" /\ ~c.market /\ c.size = Size
  BY <1>4, NewCallTypes, AdapterAssumption DEF NewCall
<1> HIDE DEF x, c
<1>6. OwnCalls(l) /\ call'[l] = c
  BY <1>1, <1>4, <1>5, StartTypes DEF OwnCalls, AdapterTypes
<1>7. oe'[l] = x
  BY <1>3, BecomesIs
<1>8. LegCalls(l)'
  BY <1>2, <1>5, <1>6, <1>7 DEF LegCalls, Placing, Reading, Cancelling
<1>9. LegCounts(l)' /\ LegLives(l)'
  BY <1>2, <1>7 DEF LegCounts, LegLives
<1>10. LegOwns(l)'
  BY <1>1, <1>2, <1>3, OwnsStays, BecomesIs, FreshIs DEF Idle
<1> QED BY <1>1, <1>2, <1>3, <1>6, <1>7, <1>8, <1>9, <1>10 DEF LegStep, LegInv

\* A leg that takes what its call returned and is done with it.
LEMMA DoneTurns ==
  ASSUME AdapterTypes, LegTypes, AdapterInv, NEW l \in OrderLegs, LegInv(l), ~Replacing(l)',
         NEW x, Turns(l, x), x.doing = "none", ret[l].kind # "none", ret'[l] = NoRet, call'[l] = call[l],
         \/ oe[l].order # None /\ x.order = oe[l].order
         \/ oe[l].order = None /\ ret[l].kind = "ok" /\ x.order = ret[l].order
         \/ oe[l].order = None /\ ret[l].kind # "ok" /\ x.order = None,
         x.order = None => x.rec = 0 /\ x.seen = "none",
         x.order # None => x.order \in Sent /\ x.order[1] = l /\ TrueOf(x.seen, x.rec, x.order, book, filled),
         x.st = "new" => x = OeFresh, x.st = "ACTIVE" => x.order # None, x.st # "pruned",
         x.st = "TERMINATED" /\ x.close # "FAILED" => x.order = None \/ x.seen \in Terminal \/ x.order \notin refs'
  PROVE  LegInv(l)'
<1>1. oe'[l] = x /\ Sent' = Sent /\ UNCHANGED <<book, filled, lost>> /\ (MayStillRest(oe[l])' <=> x.order # None /\ x.seen \notin Terminal)
  BY TurnsIs
<1>2. l \in Legs /\ call[l].op = "none"
  BY LegState
<1>3. ret'[l] = NoRet /\ call'[l].op = "none"
  BY <1>2
<1>4. LegCalls(l)'
  BY <1>1, <1>3, NullTypes DEF LegCalls, Idle, Reading, Cancelling
<1>5. LegCounts(l)'
  BY <1>1 DEF LegCounts
<1>6. LegLives(l)'
  BY <1>1 DEF LegLives
<1>7. LegOwns(l)'
  <2>1. \/ oe[l].order # None /\ x.order = oe[l].order
        \/ oe[l].order = None /\ ret[l].kind = "ok" /\ x.order = ret[l].order
        \/ oe[l].order = None /\ ret[l].kind # "ok"
    OBVIOUS
  <2> QED BY <2>1, OwnsStays, BecomesIs
<1> QED BY <1>4, <1>5, <1>6, <1>7 DEF LegInv

LEMMA DoneKeeps ==
  ASSUME AdapterTypes, LegTypes, AdapterInv, NEW l \in OrderLegs, LegInv(l), ~Replacing(l)',
         NEW x, Becomes(l, x), x.doing = "none", ret[l].kind # "none", Take(l), UNCHANGED call,
         \/ oe[l].order # None /\ x.order = oe[l].order
         \/ oe[l].order = None /\ ret[l].kind = "ok" /\ x.order = ret[l].order
         \/ oe[l].order = None /\ ret[l].kind # "ok" /\ x.order = None,
         x.order = None => x.rec = 0 /\ x.seen = "none",
         x.order # None => x.order \in Sent /\ x.order[1] = l /\ TrueOf(x.seen, x.rec, x.order, book, filled),
         x.st = "new" => x = OeFresh, x.st = "ACTIVE" => x.order # None, x.st # "pruned",
         x.st = "TERMINATED" /\ x.close # "FAILED" => x.order = None \/ x.seen \in Terminal \/ x.order \notin refs'
  PROVE  LegStep(l)
<1>1. l \in Legs /\ ret'[l] = NoRet /\ call'[l] = call[l]
  BY LegState, TakeTypes DEF AdapterTypes
<1>2. Turns(l, x)
  BY BecomesIs
<1>3. LegInv(l)'
  BY <1>1, <1>2, DoneTurns
<1> QED BY <1>3 DEF LegStep, OwnCalls

LEMMA SpawnedKeeps ==
  ASSUME AdapterTypes, LegTypes, AdapterInv, NEW l \in OrderLegs, LegInv(l), ~Replacing(l)', OeSpawned(l)
  PROVE  LegStep(l) /\ oe[l].doing = "create" /\ oe'[l].doing = "none" /\ (ret[l].kind # "ok" => oe'[l].order = None)
<1> USE DEF OeQuiet, venueVars, adapterVars
<1>1. /\ oe[l].doing = "create" /\ ret[l].kind \in {"ok", "failed", "throttled"} /\ Take(l) /\ call' = call
      /\ UNCHANGED <<placed, book, filled, lost>> /\ refs' = refs
  BY LegState DEF OeSpawned, RetType
<1>2. oe[l] \in OeType /\ ret[l] \in RetType /\ oe[l].order = None /\ oe[l].rec = 0 /\ oe[l].seen = "none" /\ oe[l].st = "ACTIVE"
  BY <1>1, LegState DEF LegInv, LegCalls, LegLives
<1>3. CASE ret[l].kind = "throttled"
  <2>1. Becomes(l, OeFresh)
    BY <1>1, <1>3, FreshIs DEF OeSpawned, Becomes
  <2>2. oe'[l] = OeFresh
    BY <2>1, BecomesIs
  <2> QED BY <1>1, <1>2, <1>3, <2>1, <2>2, FreshIs, DoneKeeps
<1>4. CASE ret[l].kind = "failed"
  <2> DEFINE x == Ended(oe[l], "FAILED")
  <2>1. x \in OeType /\ x.doing = "none" /\ x.st = "TERMINATED" /\ x.order = None /\ x.rec = 0 /\ x.seen = "none"
    BY <1>2, EndedIs DEF Closes
  <2>2. Becomes(l, x)
    BY <1>1, <1>4, <2>1 DEF OeSpawned, Becomes, Ended
  <2>3. oe'[l] = x
    BY <2>2, BecomesIs
  <2> HIDE DEF x
  <2> QED BY <1>1, <1>2, <1>4, <2>1, <2>2, <2>3, DoneKeeps
<1>5. CASE ret[l].kind = "ok"
  <2> DEFINE i == Ingested(oe[l], ret[l])
             x == Judged(i)
  <2>1. ret[l].order \in Sent /\ ret[l].order[1] = l /\ TrueOf(ret[l].st, ret[l].base, ret[l].order, book, filled)
    BY <1>1, <1>5, LegState
  <2>2. ret[l].order \in Orders /\ ret[l].order # None /\ filled[ret[l].order] \in Nat
    BY <2>1, LegState
  <2>3. i \in OeType /\ i.order = ret[l].order /\ i.seen = ret[l].st /\ i.st = "ACTIVE"
        /\ TrueOf(i.seen, i.rec, ret[l].order, book, filled)
    BY <1>2, <2>1, <2>2, IngestedIs, IngestTrue
  <2> HIDE DEF i
  <2>4. x \in OeType /\ x.doing = "none" /\ x.order = ret[l].order /\ x.seen = i.seen /\ x.rec = i.rec
        /\ x.st = (IF i.seen \in Terminal THEN "TERMINATED" ELSE "ACTIVE")
    BY <2>3, JudgedIs
  <2>5. Becomes(l, x)
    BY <1>1, <1>5, <2>4 DEF OeSpawned, Becomes, i, Judged
  <2>6. oe'[l] = x
    BY <2>5, BecomesIs
  <2> HIDE DEF x
  <2> QED BY <1>1, <1>2, <1>5, <2>1, <2>2, <2>3, <2>4, <2>5, <2>6, DoneKeeps
<1> QED BY <1>1, <1>3, <1>4, <1>5

LEMMA TickKeeps ==
  ASSUME AdapterTypes, LegTypes, AdapterInv, NEW l \in OrderLegs, LegInv(l), ~Replacing(l)', OeTick(l)
  PROVE  LegStep(l) /\ oe'[l].order = oe[l].order /\ oe'[l].doing # "create"
<1> USE DEF OeQuiet, venueVars, adapterVars
<1> DEFINE x == [oe[l] EXCEPT !.doing = "tick"]
           c == OrderStatus(oe[l].order)
<1>1. oe[l].st = "ACTIVE" /\ oe[l].order # None /\ oe[l].order \in Sent /\ Idle(l) /\ l \in Legs /\ oe[l] \in OeType
  BY LegState DEF OeTick
<1>2. x \in OeType /\ x.doing = "tick" /\ x.st = "ACTIVE" /\ x.order = oe[l].order /\ x.seen = oe[l].seen /\ x.rec = oe[l].rec
  BY <1>1, DoingIs DEF OeDoing
<1>3. Becomes(l, x)
  BY <1>2 DEF OeTick, Becomes
<1>4. NewCall(c) /\ Start(l, c) /\ ret' = ret
  BY <1>1, NewCalls DEF OeTick
<1>5. c \in CallType /\ c.op = "status" /\ c.order = oe[l].order
  BY <1>1, <1>4, LegState, NewCallTypes DEF NewCall
<1> HIDE DEF x, c
<1>6. OwnCalls(l) /\ call'[l] = c
  BY <1>1, <1>4, <1>5, StartTypes DEF OwnCalls, AdapterTypes
<1>7. oe'[l] = x /\ Sent' = Sent /\ UNCHANGED <<book, filled>>
  BY <1>3, BecomesIs
<1>8. LegCalls(l)'
  BY <1>2, <1>5, <1>6, <1>7 DEF LegCalls, Awaiting, Asks, Cancelling
<1>9. LegCounts(l)' /\ LegLives(l)'
  BY <1>1, <1>2, <1>7 DEF LegCounts, LegLives, LegInv
<1>10. LegOwns(l)'
  BY <1>1, <1>2, <1>3, OwnsStays, BecomesIs
<1> QED BY <1>1, <1>2, <1>3, <1>6, <1>7, <1>8, <1>9, <1>10 DEF LegStep, LegInv

LEMMA TickedKeeps ==
  ASSUME AdapterTypes, LegTypes, AdapterInv, NEW l \in OrderLegs, LegInv(l), ~Replacing(l)', OeTicked(l)
  PROVE  LegStep(l) /\ oe'[l].order = oe[l].order /\ oe'[l].doing = "none"
<1> USE DEF OeQuiet, venueVars, adapterVars
<1>1. /\ oe[l].doing = "tick" /\ ret[l].kind # "none" /\ Take(l) /\ call' = call
      /\ UNCHANGED <<placed, book, filled, lost>> /\ refs' = refs
  BY DEF OeTicked
<1>2. /\ oe[l] \in OeType /\ ret[l] \in RetType /\ oe[l].order # None /\ oe[l].order \in Sent /\ oe[l].order \in Orders
      /\ oe[l].order[1] = l /\ oe[l].rec <= filled[oe[l].order] /\ TrueOf(oe[l].seen, oe[l].rec, oe[l].order, book, filled)
      /\ oe[l].st = "ACTIVE" \/ (oe[l].st = "TERMINATED" /\ oe[l].close = "FAILED")
      /\ ret[l].kind = "failed" \/ (ret[l].kind = "ok" /\ ret[l].order = oe[l].order /\ TrueOf(ret[l].st, ret[l].base, oe[l].order, book, filled))
  BY <1>1, LegState DEF LegInv, LegLives, Reading
<1>3. CASE ret[l].kind = "failed"
  <2> DEFINE x == Ended(oe[l], "FAILED")
  <2>1. /\ x \in OeType /\ x.doing = "none" /\ x.st = "TERMINATED" /\ x.close = "FAILED"
        /\ x.order = oe[l].order /\ x.rec = oe[l].rec /\ x.seen = oe[l].seen
    BY <1>2, EndedIs DEF Closes
  <2>2. Becomes(l, x)
    BY <1>1, <1>3, <2>1 DEF OeTicked, Becomes, Ended
  <2>3. oe'[l] = x
    BY <2>2, BecomesIs
  <2> HIDE DEF x
  <2> QED BY <1>1, <1>2, <1>3, <2>1, <2>2, <2>3, DoneKeeps
<1>5. CASE ret[l].kind = "ok"
  <2> DEFINE i == Ingested(oe[l], ret[l])
             x == Judged(i)
  <2>3. i \in OeType /\ i.order = oe[l].order /\ i.seen = ret[l].st /\ i.st = oe[l].st /\ i.close = oe[l].close
        /\ TrueOf(i.seen, i.rec, oe[l].order, book, filled)
    BY <1>2, <1>5, IngestedIs, IngestTrue
  <2> HIDE DEF i
  <2>4. x \in OeType /\ x.doing = "none" /\ x.order = oe[l].order /\ x.seen = i.seen /\ x.rec = i.rec
        /\ x.st \in {"ACTIVE", "TERMINATED"} /\ (x.st = "TERMINATED" => x.seen \in Terminal \/ x.close = "FAILED")
    BY <1>2, <2>3, JudgedIs
  <2>5. Becomes(l, x)
    BY <1>1, <1>5, <2>4 DEF OeTicked, Becomes, i, Judged
  <2>6. oe'[l] = x
    BY <2>5, BecomesIs
  <2> HIDE DEF x
  <2> QED BY <1>1, <1>2, <1>5, <2>3, <2>4, <2>5, <2>6, DoneKeeps
<1> QED BY <1>2, <1>3, <1>5

\* A leg that goes on to ask, or to cancel.
LEMMA AskKeeps ==
  ASSUME AdapterTypes, LegTypes, AdapterInv, NEW l \in OrderLegs, LegInv(l), ~Replacing(l)', oe[l].order # None,
         NEW x, Turns(l, x), x.doing \in Reading \cup Cancelling, x.order = oe[l].order,
         TrueOf(x.seen, x.rec, x.order, book, filled),
         x.st = "ACTIVE" \/ (x.st = "TERMINATED" /\ x.close = "FAILED"),
         x.doing \in {"settle_cancel", "settle_check"} => x.seen \notin Terminal,
         call'[l].order = oe[l].order, call'[l].op = IF x.doing \in Reading THEN "status" ELSE "cancel"
  PROVE  LegInv(l)' /\ oe'[l].doing \notin {"none", "create"}
<1>1. oe'[l] = x /\ Sent' = Sent /\ UNCHANGED <<book, filled, lost>>
  BY TurnsIs
<1>2. x.doing \notin {"none", "create"} /\ Reading \cap Cancelling = {}
  BY DEF Reading, Cancelling
<1>3. LegCalls(l)'
  BY <1>1, <1>2 DEF LegCalls, Awaiting, Asks, Cancels
<1>4. LegCounts(l)' /\ LegLives(l)'
  BY <1>1, <1>2, LegState DEF LegCounts, LegLives
<1>5. LegOwns(l)'
  BY OwnsStays
<1> QED BY <1>1, <1>2, <1>3, <1>4, <1>5 DEF LegInv

\* The calls about an order that was sent.
LEMMA Begins ==
  ASSUME AdapterTypes, NEW l \in Legs, NEW o \in Sent, NEW c \in {OrderStatus(o), CancelOrder(o)}, Start(l, c),
         (ret[l].kind # "none" /\ Take(l)) \/ (Idle(l) /\ UNCHANGED ret)
  PROVE  OwnCalls(l) /\ call'[l].order = o /\ call'[l].op = IF c = OrderStatus(o) THEN "status" ELSE "cancel"
<1>1. NewCall(c) /\ c \in CallType
  BY NewCalls DEF NewCall
<1>2. call'[l] = c
  BY <1>1, StartTypes DEF AdapterTypes
<1>3. o \in Orders
  BY DEF Sent
<1>4. c.order = o /\ c.op = IF c = OrderStatus(o) THEN "status" ELSE "cancel"
  BY <1>3, NewCallTypes
<1> QED BY <1>1, <1>2, <1>4 DEF OwnCalls

LEMMA StatusIsNotCancel == \A o \in Orders : OrderStatus(o) # CancelOrder(o)
  BY NewCallTypes

LEMMA StopKeeps ==
  ASSUME AdapterTypes, LegTypes, AdapterInv, NEW l \in OrderLegs, LegInv(l), ~Replacing(l)', OeStop(l)
  PROVE  /\ LegStep(l) /\ oe'[l].order = oe[l].order /\ oe'[l].doing # "create"
         /\ oe'[l].doing = "none" => oe'[l].st = "TERMINATED"
<1> USE DEF OeQuiet, venueVars, adapterVars
<1>1. /\ oe[l].doing = "none" /\ Idle(l) /\ UNCHANGED <<placed, book, filled, lost>> /\ refs' = refs /\ ret' = ret
      /\ oe[l].st = "ACTIVE" \/ (oe[l].st = "TERMINATED" /\ oe[l].close = "FAILED")
  BY DEF OeStop
<1>2. l \in Legs /\ oe[l] \in OeType
  BY LegState
<1>3. CASE MayStillRest(oe[l])
  <2> DEFINE x == [oe[l] EXCEPT !.doing = "stop_cancel"]
  <2>1. oe[l].order # None /\ oe[l].order \in Sent /\ TrueOf(oe[l].seen, oe[l].rec, oe[l].order, book, filled)
    BY <1>3, LegState DEF MayStillRest
  <2>2. /\ x \in OeType /\ x.doing = "stop_cancel" /\ x.st = oe[l].st /\ x.close = oe[l].close
        /\ x.order = oe[l].order /\ x.seen = oe[l].seen /\ x.rec = oe[l].rec
    BY <1>2, DoingIs DEF OeDoing
  <2>3. Becomes(l, x)
    BY <1>1, <1>3, <2>2 DEF OeStop, Becomes
  <2>4. Start(l, CancelOrder(oe[l].order))
    BY <1>3 DEF OeStop
  <2>5. OwnCalls(l) /\ call'[l].order = oe[l].order /\ call'[l].op = "cancel"
    <3>1. oe[l].order \in Orders
      BY <2>1 DEF Sent
    <3> QED BY <1>1, <1>2, <2>1, <2>4, <3>1, Begins, StatusIsNotCancel
  <2> HIDE DEF x
  <2>6. oe'[l] = x
    BY <2>3, BecomesIs
  <2>7. x.doing \in Cancelling /\ x.doing \notin Reading
    BY <2>2 DEF Reading, Cancelling
  <2>8. LegInv(l)'
    BY <1>1, <2>1, <2>2, <2>3, <2>5, <2>7, AskKeeps, BecomesIs
  <2> QED BY <2>2, <2>3, <2>5, <2>6, <2>8 DEF LegStep
<1>4. CASE ~MayStillRest(oe[l])
  <2> DEFINE x == Terminated(oe[l], "EARLY_STOP")
  <2>1. /\ x \in OeType /\ x.doing = "none" /\ x.st = "TERMINATED" /\ x.order = oe[l].order /\ x.seen = oe[l].seen /\ x.rec = oe[l].rec
    BY <1>1, <1>2, TerminatedIs DEF Closes
  <2>2. oe[l].order = None \/ oe[l].seen \in Terminal
    BY <1>4 DEF MayStillRest
  <2>3. Becomes(l, x) /\ UNCHANGED call
    BY <1>1, <1>4, <2>1 DEF OeStop, Becomes
  <2> HIDE DEF x
  <2>4. /\ oe'[l] = x /\ Sent' = Sent /\ UNCHANGED <<book, filled>> /\ call'[l] = call[l] /\ ret'[l] = ret[l]
        /\ (MayStillRest(oe[l])' <=> x.order # None /\ x.seen \notin Terminal)
    BY <1>1, <2>3, BecomesIs
  <2>5. LegCalls(l)'
    BY <1>1, <2>1, <2>4 DEF LegCalls, Idle, Reading, Cancelling
  <2>6. LegCounts(l)' /\ LegLives(l)'
    BY <2>1, <2>2, <2>4 DEF LegCounts, LegLives, LegInv
  <2>7. LegOwns(l)'
    BY <1>1, <2>1, <2>3, OwnsStays, BecomesIs DEF Idle
  <2> QED BY <1>1, <2>1, <2>3, <2>4, <2>5, <2>6, <2>7 DEF LegStep, LegInv, OwnCalls
<1> QED BY <1>3, <1>4

LEMMA StopCancelledKeeps ==
  ASSUME AdapterTypes, LegTypes, AdapterInv, NEW l \in OrderLegs, LegInv(l), ~Replacing(l)', OeStopCancelled(l)
  PROVE  LegStep(l) /\ oe'[l].order = oe[l].order /\ oe'[l].doing # "create"
<1> USE DEF OeQuiet, venueVars, adapterVars
<1>1. /\ oe[l].doing = "stop_cancel" /\ ret[l].kind # "none" /\ Take(l) /\ Start(l, OrderStatus(oe[l].order))
      /\ UNCHANGED <<placed, book, filled, lost>> /\ refs' = refs
  BY DEF OeStopCancelled
<1>2. /\ l \in Legs /\ oe[l] \in OeType /\ oe[l].order # None /\ oe[l].order \in Sent
      /\ TrueOf(oe[l].seen, oe[l].rec, oe[l].order, book, filled)
      /\ oe[l].st = "ACTIVE" \/ (oe[l].st = "TERMINATED" /\ oe[l].close = "FAILED")
  BY <1>1, LegState DEF LegInv, LegLives
<1> DEFINE e == IF ret[l].kind = "failed" THEN Terminated(oe[l], "FAILED") ELSE oe[l]
           x == [e EXCEPT !.doing = "stop_status"]
<1>3. /\ e \in OeType /\ e.order = oe[l].order /\ e.seen = oe[l].seen /\ e.rec = oe[l].rec
      /\ e.st = "ACTIVE" \/ (e.st = "TERMINATED" /\ e.close = "FAILED")
  BY <1>2, TerminatedIs DEF Closes
<1>4. oe' = [oe EXCEPT ![l] = x]
  BY DEF OeStopCancelled
<1> HIDE DEF e
<1>5. /\ x \in OeType /\ x.doing = "stop_status" /\ x.order = e.order /\ x.seen = e.seen /\ x.rec = e.rec
      /\ x.st = e.st /\ x.close = e.close
  BY <1>3, DoingIs DEF OeDoing
<1> HIDE DEF x
<1>6. Becomes(l, x)
  BY <1>1, <1>4, <1>5 DEF Becomes
<1>7. OwnCalls(l) /\ call'[l].order = oe[l].order /\ call'[l].op = "status"
  BY <1>1, <1>2, Begins
<1>8. oe'[l] = x /\ x.doing \in Reading
  BY <1>5, <1>6, BecomesIs DEF Reading
<1>9. LegInv(l)'
  BY <1>2, <1>3, <1>5, <1>6, <1>7, <1>8, AskKeeps, BecomesIs
<1> QED BY <1>3, <1>5, <1>6, <1>7, <1>8, <1>9 DEF LegStep

LEMMA StoppedKeeps ==
  ASSUME AdapterTypes, LegTypes, AdapterInv, NEW l \in OrderLegs, LegInv(l), ~Replacing(l)', OeStopped(l)
  PROVE  LegStep(l) /\ oe'[l].order = oe[l].order /\ oe'[l].doing = "none" /\ oe'[l].st = "TERMINATED"
<1> USE DEF OeQuiet, venueVars, adapterVars
<1>1. /\ oe[l].doing = "stop_status" /\ ret[l].kind # "none" /\ Take(l) /\ call' = call
      /\ UNCHANGED <<placed, book, filled, lost>> /\ refs' = refs
  BY DEF OeStopped
<1>2. /\ oe[l] \in OeType /\ ret[l] \in RetType /\ oe[l].order # None /\ oe[l].order \in Sent /\ oe[l].order \in Orders
      /\ oe[l].order[1] = l /\ oe[l].rec <= filled[oe[l].order] /\ TrueOf(oe[l].seen, oe[l].rec, oe[l].order, book, filled)
      /\ oe[l].st = "ACTIVE" \/ (oe[l].st = "TERMINATED" /\ oe[l].close = "FAILED")
      /\ ret[l].kind = "failed" \/ (ret[l].kind = "ok" /\ ret[l].order = oe[l].order /\ TrueOf(ret[l].st, ret[l].base, oe[l].order, book, filled))
  BY <1>1, LegState DEF LegInv, LegLives, Reading
<1> DEFINE e == IF ret[l].kind = "ok" THEN Ingested(oe[l], ret[l]) ELSE oe[l]
           close == IF ret[l].kind = "ok" /\ e.seen \in Terminal THEN "EARLY_STOP" ELSE "FAILED"
           x == Ended(e, close)
<1>3. /\ e \in OeType /\ e.order = oe[l].order /\ e.st = oe[l].st /\ e.close = oe[l].close
      /\ TrueOf(e.seen, e.rec, oe[l].order, book, filled)
  BY <1>2, IngestedIs, IngestTrue
<1>4. oe' = [oe EXCEPT ![l] = x]
  BY DEF OeStopped, Ended
<1> HIDE DEF e
<1>5. close \in Closes /\ (close # "FAILED" => e.seen \in Terminal)
  BY DEF Closes
<1> HIDE DEF close
<1>6. /\ x \in OeType /\ x.doing = "none" /\ x.order = e.order /\ x.seen = e.seen /\ x.rec = e.rec
      /\ x.st = "TERMINATED" /\ x.close = IF e.st = "TERMINATED" THEN e.close ELSE close
  BY <1>3, <1>5, EndedIs
<1> HIDE DEF x
<1>7. Becomes(l, x)
  BY <1>1, <1>4, <1>6 DEF Becomes
<1>8. oe'[l] = x
  BY <1>7, BecomesIs
<1> QED BY <1>1, <1>2, <1>3, <1>5, <1>6, <1>7, <1>8, DoneKeeps

LEMMA PruneKeeps ==
  ASSUME AdapterTypes, LegTypes, AdapterInv, NEW l \in OrderLegs, LegInv(l), ~Replacing(l), ~Replacing(l)', OePrune(l)
  PROVE  LegStep(l) /\ oe'[l].order = oe[l].order /\ oe'[l].doing = "none"
<1> USE DEF OeQuiet, venueVars, adapterVars
<1> DEFINE x == [oe[l] EXCEPT !.st = "pruned"]
<1>1. oe[l].doing = "none" /\ oe[l] \in OeType /\ Idle(l) /\ ~MayStillRest(oe[l]) /\ UNCHANGED <<call, ret>>
  BY LegState DEF OePrune, LegInv, LegCalls
<1>2. x \in OeType /\ x.doing = "none" /\ x.st = "pruned" /\ x.order = oe[l].order /\ x.seen = oe[l].seen /\ x.rec = oe[l].rec
  BY <1>1 DEF OeType, OeStates
<1>3. Becomes(l, x)
  BY <1>2 DEF OePrune, Becomes
<1> HIDE DEF x
<1>4. /\ oe'[l] = x /\ Sent' = Sent /\ UNCHANGED <<book, filled>>
      /\ (MayStillRest(oe[l])' <=> x.order # None /\ x.seen \notin Terminal)
  BY <1>3, BecomesIs
<1>5. LegCalls(l)'
  BY <1>1, <1>2, <1>4 DEF LegCalls, Idle, Reading, Cancelling
<1>6. LegCounts(l)' /\ LegLives(l)'
  BY <1>1, <1>2, <1>4 DEF LegCounts, LegLives, LegInv, MayStillRest
<1>7. LegOwns(l)'
  BY <1>1, <1>2, <1>3, OwnsStays, BecomesIs DEF Idle
<1> QED BY <1>1, <1>2, <1>3, <1>4, <1>5, <1>6, <1>7 DEF LegStep, LegInv, OwnCalls

\* A settlement: its order is forgotten in the step that ends it.
LEMMA SettleKeeps ==
  ASSUME AdapterTypes, LegTypes, AdapterInv, NEW l \in OrderLegs, LegInv(l), ~Replacing(l)', OeSettle(l),
         UNCHANGED <<placed, book, filled, lost>>, refs' \subseteq refs, oe'[l].doing = "none" => oe[l].order \notin refs'
  PROVE  LegStep(l) /\ oe'[l].order = oe[l].order /\ oe'[l].doing # "create" /\ oe[l].order \in Sent
<1>1. oe[l].doing \in {"settle", "settle_cancel", "settle_check"} /\ ret[l].kind # "none" /\ Take(l)
  BY DEF OeSettle, OeSettleRead, OeSettleCancelled, OeSettleChecked
<1>2. /\ l \in Legs /\ oe[l] \in OeType /\ ret[l] \in RetType /\ oe[l].order # None /\ oe[l].order \in Sent /\ oe[l].order \in Orders
      /\ oe[l].order[1] = l /\ oe[l].rec <= filled[oe[l].order] /\ TrueOf(oe[l].seen, oe[l].rec, oe[l].order, book, filled)
      /\ oe[l].st = "ACTIVE" \/ (oe[l].st = "TERMINATED" /\ oe[l].close = "FAILED")
      /\ ret[l].kind = "failed" \/ (ret[l].kind = "ok" /\ ret[l].order = oe[l].order)
      /\ ret[l].kind = "ok" /\ oe[l].doing # "settle_cancel" => TrueOf(ret[l].st, ret[l].base, oe[l].order, book, filled)
      /\ oe[l].doing # "settle" => oe[l].seen \notin Terminal
  BY <1>1, LegState DEF LegInv, LegLives, Reading, Cancelling
<1>3. CASE OeSettleRead(l)
  <2> DEFINE e == IF ret[l].kind = "ok" THEN Ingested(oe[l], ret[l]) ELSE Terminated(oe[l], "FAILED")
             asks == [e EXCEPT !.doing = "settle_cancel"]
  <2>1. /\ e \in OeType /\ e.order = oe[l].order /\ TrueOf(e.seen, e.rec, oe[l].order, book, filled)
        /\ e.st = "ACTIVE" \/ (e.st = "TERMINATED" /\ e.close = "FAILED")
    <3>1. CASE ret[l].kind = "ok"
      <4>1. e = Ingested(oe[l], ret[l]) /\ TrueOf(ret[l].st, ret[l].base, oe[l].order, book, filled)
        BY <1>2, <1>3, <3>1 DEF OeSettleRead
      <4> HIDE DEF e
      <4> QED BY <1>2, <3>1, <4>1, IngestedIs, IngestTrue
    <3>2. CASE ret[l].kind # "ok"
      BY <1>2, <3>2, TerminatedIs DEF Closes
    <3> QED BY <3>1, <3>2
  <2>2. oe' = [oe EXCEPT ![l] = IF e.seen \in Terminal THEN Ended(e, "EARLY_STOP") ELSE asks]
    BY <1>3 DEF OeSettleRead, Settling, Ended
  <2> HIDE DEF e
  <2>3. CASE e.seen \in Terminal
    <3> DEFINE x == Ended(e, "EARLY_STOP")
    <3>1. /\ x \in OeType /\ x.doing = "none" /\ x.st = "TERMINATED" /\ x.order = e.order /\ x.seen = e.seen /\ x.rec = e.rec
      BY <2>1, EndedIs DEF Closes
    <3>2. Becomes(l, x)
      BY <2>2, <2>3, <3>1 DEF Becomes
    <3> HIDE DEF x
    <3>3. oe'[l] = x
      BY <3>2, BecomesIs
    <3>4. UNCHANGED call
      BY <1>3, <3>1, <3>3 DEF OeSettleRead
    <3> QED BY <1>1, <1>2, <2>1, <2>3, <3>1, <3>2, <3>3, <3>4, DoneKeeps
  <2>4. CASE e.seen \notin Terminal
    <3>1. /\ asks \in OeType /\ asks.doing = "settle_cancel" /\ asks.order = e.order /\ asks.seen = e.seen /\ asks.rec = e.rec
          /\ asks.st = e.st /\ asks.close = e.close
      BY <2>1, DoingIs DEF OeDoing
    <3>2. Becomes(l, asks)
      BY <2>2, <2>4, <3>1 DEF Becomes
    <3> HIDE DEF asks
    <3>3. oe'[l] = asks /\ asks.doing \notin Reading /\ asks.doing \in Cancelling
      BY <3>1, <3>2, BecomesIs DEF Reading, Cancelling
    <3>4. Start(l, CancelOrder(oe[l].order))
      BY <1>3, <3>1, <3>3 DEF OeSettleRead
    <3>5. OwnCalls(l) /\ call'[l].order = oe[l].order /\ call'[l].op = "cancel"
      BY <1>1, <1>2, <3>4, Begins, StatusIsNotCancel
    <3>6. LegInv(l)'
      BY <1>2, <2>1, <2>4, <3>1, <3>2, <3>3, <3>5, AskKeeps, BecomesIs
    <3> QED BY <1>2, <2>1, <3>1, <3>2, <3>3, <3>5, <3>6 DEF LegStep
  <2> QED BY <2>3, <2>4
<1>4. CASE OeSettleCancelled(l)
  <2>1. CASE ret[l].kind = "ok"
    <3> DEFINE x == [oe[l] EXCEPT !.doing = "settle_check"]
    <3>1. /\ x \in OeType /\ x.doing = "settle_check" /\ x.order = oe[l].order /\ x.seen = oe[l].seen /\ x.rec = oe[l].rec
          /\ x.st = oe[l].st /\ x.close = oe[l].close
      BY <1>2, DoingIs DEF OeDoing
    <3>2. Becomes(l, x) /\ Start(l, OrderStatus(oe[l].order))
      BY <1>4, <2>1, <3>1 DEF OeSettleCancelled, Becomes
    <3> HIDE DEF x
    <3>3. oe'[l] = x /\ x.doing \in Reading
      BY <3>1, <3>2, BecomesIs DEF Reading
    <3>4. OwnCalls(l) /\ call'[l].order = oe[l].order /\ call'[l].op = "status"
      BY <1>1, <1>2, <3>2, Begins
    <3>5. oe[l].seen \notin Terminal
      BY <1>2, <1>4 DEF OeSettleCancelled
    <3>6. LegInv(l)'
      BY <1>2, <3>1, <3>2, <3>3, <3>4, <3>5, AskKeeps, BecomesIs
    <3> QED BY <1>2, <3>1, <3>2, <3>3, <3>4, <3>6 DEF LegStep
  <2>2. CASE ret[l].kind = "failed"
    <3> DEFINE x == Ended(oe[l], "FAILED")
    <3>1. /\ x \in OeType /\ x.doing = "none" /\ x.st = "TERMINATED" /\ x.order = oe[l].order /\ x.seen = oe[l].seen /\ x.rec = oe[l].rec
      BY <1>2, EndedIs DEF Closes
    <3>2. Becomes(l, x) /\ UNCHANGED call
      BY <1>4, <2>2, <3>1 DEF OeSettleCancelled, Becomes, Ended
    <3> HIDE DEF x
    <3>3. oe'[l] = x
      BY <3>2, BecomesIs
    <3> QED BY <1>1, <1>2, <3>1, <3>2, <3>3, DoneKeeps
  <2> QED BY <1>2, <2>1, <2>2
<1>5. CASE OeSettleChecked(l)
  <2> DEFINE e == IF ret[l].kind = "ok" THEN Credited(oe[l], ret[l]) ELSE oe[l]
             close == IF ret[l].kind = "ok" THEN "EARLY_STOP" ELSE "FAILED"
             x == Ended(e, close)
  <2>1. /\ e \in OeType /\ e.order = oe[l].order /\ e.seen = oe[l].seen
        /\ TrueOf(e.seen, e.rec, oe[l].order, book, filled)
    <3>1. CASE ret[l].kind = "ok"
      <4>1. Ingested(oe[l], ret[l]).rec \in Nat
        BY <1>2, IngestedIs DEF OeType
      <4>2. e \in OeType /\ e.order = oe[l].order /\ e.seen = oe[l].seen /\ e.rec = Ingested(oe[l], ret[l]).rec
        BY <1>2, <3>1, <4>1 DEF Credited, OeType
      <4>3. TrueOf(ret[l].st, Ingested(oe[l], ret[l]).rec, oe[l].order, book, filled) /\ oe[l].seen \notin Terminal
        BY <1>2, <1>5, <3>1, IngestTrue DEF OeSettleChecked
      <4> QED BY <4>2, <4>3 DEF TrueOf
    <3>2. CASE ret[l].kind # "ok"
      BY <1>2, <3>2
    <3> QED BY <3>1, <3>2
  <2>2. oe' = [oe EXCEPT ![l] = x] /\ UNCHANGED call
    BY <1>2, <1>5 DEF OeSettleChecked, Ended
  <2>3. close \in Closes
    BY DEF Closes
  <2> HIDE DEF e, close
  <2>4. x \in OeType /\ x.doing = "none" /\ x.st = "TERMINATED" /\ x.order = e.order /\ x.seen = e.seen /\ x.rec = e.rec
    BY <2>1, <2>3, EndedIs
  <2> HIDE DEF x
  <2>5. Becomes(l, x)
    BY <2>2, <2>4 DEF Becomes
  <2>6. oe'[l] = x
    BY <2>5, BecomesIs
  <2> QED BY <1>1, <1>2, <2>1, <2>2, <2>4, <2>5, <2>6, DoneKeeps
<1> QED BY <1>3, <1>4, <1>5 DEF OeSettle

\* The executor of an order a replace placed.
LEMMA AdoptKeeps ==
  ASSUME AdapterTypes, LegTypes, AdapterInv, NEW m \in OrderLegs, LegInv(m), Replacing(m), ~Replacing(m)', ret[m].kind = "ok",
         oe'[m] = Adopted(ret[m]), UNCHANGED <<placed, book, filled, lost>>, refs' = refs,
         ret'[m] = NoRet, call'[m] = call[m]
  PROVE  LegInv(m)' /\ Adopted(ret[m]) \in OeType /\ oe'[m].doing = "none"
<1> DEFINE f == [OeFresh EXCEPT !.st = "ACTIVE"]
           x == Adopted(ret[m])
<1>1. f \in OeType /\ f.st = "ACTIVE" /\ f.rec = 0 /\ f.doing = "none"
  BY FreshIs DEF OeType, OeStates
<1>2. /\ ret[m] \in RetType /\ ret[m].order \in Sent /\ ret[m].order \in Orders /\ ret[m].order[1] = m /\ ret[m].order # None
      /\ TrueOf(ret[m].st, ret[m].base, ret[m].order, book, filled) /\ filled[ret[m].order] \in Nat
      /\ oe[m].order = None
  BY LegState DEF LegInv, LegCalls
<1>3. x = Ingested(f, ret[m])
  BY DEF Adopted
<1> HIDE DEF f, x
<1>4. /\ x \in OeType /\ x.st = "ACTIVE" /\ x.doing = "none" /\ x.order = ret[m].order /\ x.seen = ret[m].st
      /\ TrueOf(x.seen, x.rec, x.order, book, filled)
  BY <1>1, <1>2, <1>3, IngestedIs, IngestTrue
<1>5. Turns(m, x)
  BY <1>4 DEF Turns, x
<1>6. LegInv(m)'
  BY <1>2, <1>4, <1>5, DoneTurns
<1> QED BY <1>4, <1>5, <1>6 DEF Turns, x

-----------------------------------------------------------------------------
(* Slots, and all legs together.                                             *)

LEMMA SlotFacts ==
  /\ \A s \in Slots : LegsOf(s) \subseteq OrderLegs /\ None \notin LegsOf(s)
  /\ \A s, r \in Slots : s # r => LegsOf(s) \cap LegsOf(r) = {}
  BY SlotAssumption, LegFacts DEF Slots, LegsOf

\* What a slot does not do changes nothing it stands for, as long as its executors and the books only lose orders.
LEMMA OtherSlot ==
  ASSUME AdapterTypes', NEW s \in Slots, SlotInv(s), \A l \in LegsOf(s) : LegCounts(l), SentStable, RefsStable, slot'[s] = slot[s],
         \A l \in LegsOf(s) : oe'[l] = oe[l],
         \A l \in LegsOf(s) : Idle(l) => Idle(l)'
  PROVE  SlotInv(s)'
<1>1. \A l \in LegsOf(s) : oe[l].order \in Sent \cup {None}
  BY DEF LegCounts
<1>2. \A l \in LegsOf(s) \ {slot[s].leg, slot[s].other} : oe[l].order \notin book' \cap refs'
  <2>1. TAKE l \in LegsOf(s) \ {slot[s].leg, slot[s].other}
  <2>2. oe[l].order \notin book \cap refs
    BY DEF SlotInv
  <2>3. CASE oe[l].order \in Sent
    BY <2>2, <2>3 DEF SentStable, RefsStable
  <2>4. CASE oe[l].order = None
    BY <2>4, OrderFacts DEF AdapterTypes
  <2> QED BY <1>1, <2>3, <2>4
<1> QED BY <1>2 DEF SlotInv

\* The executors a slot turns to.
LEMMA ReplacingIs ==
  ASSUME LegTypes, \A r \in Slots : SlotInv(r), NEW s \in Slots, NEW y \in SlotType, y.other \in LegsOf(s) \cup {None},
         slot' = [slot EXCEPT ![s] = y]
  PROVE  /\ slot' \in [Slots -> SlotType] /\ slot'[s] = y /\ \A r \in Slots \ {s} : slot'[r] = slot[r]
         /\ \A l \in OrderLegs \ LegsOf(s) : Replacing(l)' <=> Replacing(l)
         /\ \A l \in LegsOf(s) : Replacing(l)' <=> y.at = "replace" /\ y.other = l
         /\ \A l \in LegsOf(s) : Replacing(l) <=> slot[s].at = "replace" /\ slot[s].other = l
<1>1. slot' \in [Slots -> SlotType] /\ slot'[s] = y /\ \A r \in Slots \ {s} : slot'[r] = slot[r]
  BY DEF LegTypes
<1>2. \A r \in Slots : slot[r].other \in LegsOf(r) \cup {None}
  BY DEF SlotInv
<1>3. \A r \in Slots \ {s} : \A l \in LegsOf(s) : slot[r].other # l
  BY <1>2, SlotFacts
<1>4. \A l \in OrderLegs \ LegsOf(s) : slot[s].other # l /\ y.other # l
  BY <1>2, LegFacts
<1> QED BY <1>1, <1>3, <1>4 DEF Replacing

\* A step of some legs, of nothing the others have.
LEMMA Frame ==
  ASSUME AdapterTypes, CallsNameOrders, AdapterInv, LegTypes, LegsInv, ExecutorStep, NEW L \in SUBSET OrderLegs,
         \A k \in OrderLegs \ L : /\ oe'[k] = oe[k] /\ call'[k] = call[k] /\ ret'[k] = ret[k]
                                  /\ Replacing(k)' <=> Replacing(k),
         \A k \in L : LegInv(k)'
  PROVE  /\ AdapterTypes' /\ CallsNameOrders' /\ AdapterInv' /\ UNCHANGED <<placed, book, filled, lost>> /\ Sent' = Sent /\ refs' \subseteq refs
         /\ \A k \in OrderLegs : LegInv(k)'
         /\ \A r \in Slots : slot'[r] = slot[r] /\ LegsOf(r) \cap L = {} => SlotInv(r)'
<1>1. AdapterTypes' /\ CallsNameOrders' /\ AdapterInv' /\ SentStable
  BY ExecutorKeeps
<1>2. UNCHANGED <<placed, book, filled, lost>> /\ Sent' = Sent /\ refs' \subseteq refs
  BY DEF ExecutorStep, venueVars, Sent, ForgetCancelled
<1>3. RefsStable
  BY <1>2 DEF RefsStable
<1>4. \A k \in OrderLegs \ L : LegInv(k)'
  <2>1. TAKE k \in OrderLegs \ L
  <2>2. LegInv(k) /\ oe'[k] = oe[k] /\ call'[k] = call[k] /\ ret'[k] = ret[k] /\ (Replacing(k)' <=> Replacing(k))
    BY DEF LegsInv
  <2> QED BY <1>1, <1>2, <1>3, <2>2, OtherLeg
<1>5. ASSUME NEW r \in Slots, slot'[r] = slot[r], LegsOf(r) \cap L = {} PROVE SlotInv(r)'
  <2>1. \A l \in LegsOf(r) : l \in OrderLegs \ L
    BY <1>5, SlotFacts
  <2>2. \A l \in LegsOf(r) : LegCounts(l) /\ oe'[l] = oe[l] /\ (Idle(l) => Idle(l)')
    BY <2>1 DEF LegsInv, LegInv, Idle
  <2> QED BY <1>1, <1>3, <1>5, <2>2, OtherSlot DEF LegsInv
<1> QED BY <1>1, <1>2, <1>4, <1>5

\* The types of the executors, and what a step has to establish.
LegsKept == LegTypes' /\ LegsInv' /\ AdapterTypes' /\ CallsNameOrders' /\ AdapterInv'

LEMMA PeKnowsStays ==
  ASSUME LegsInv, Sent \subseteq Sent', UNCHANGED pe
  PROVE  \A l \in PositionLegs : PeKnows(pe[l])'
  BY DEF LegsInv, PeKnows

\* A step of one leg, of no slot.
LEMMA LegAlone ==
  ASSUME AdapterTypes, CallsNameOrders, AdapterInv, LegTypes, LegsInv, NEW l \in OrderLegs \ QuoteLegs,
         OeStep(l), UNCHANGED <<slot, pe, session>>
  PROVE  LegsKept
<1> USE DEF OeQuiet, adapterVars
<1>1. LegInv(l) /\ l \in OrderLegs /\ l \in Legs /\ l # None
  BY LegFacts DEF LegsInv
<1>2. ~Replacing(l) /\ ~Replacing(l)' /\ \A k \in OrderLegs : Replacing(k)' <=> Replacing(k)
  BY <1>1 DEF Replacing, QuoteLegs, LegsInv, SlotInv
<1>3. LegStep(l)
  <2>1. CASE OeSpawn(l) \/ OeSpawned(l)
    BY <1>1, <1>2, <2>1, SpawnKeeps, SpawnedKeeps
  <2>2. CASE OeTick(l) \/ OeTicked(l)
    BY <1>1, <1>2, <2>2, TickKeeps, TickedKeeps
  <2>3. CASE OeStop(l)
    BY <1>1, <1>2, <2>3, StopKeeps
  <2>4. CASE OeStopCancelled(l) \/ OeStopped(l)
    BY <1>1, <1>2, <2>4, StopCancelledKeeps, StoppedKeeps
  <2>5. CASE OePrune(l)
    BY <1>1, <1>2, <2>5, PruneKeeps
  <2> QED BY <2>1, <2>2, <2>3, <2>4, <2>5 DEF OeStep
<1>4. UNCHANGED <<venueVars, adapterVars, lost>>
  BY DEF OeStep, OeSpawn, OeSpawned, OeTick, OeTicked, OeStop, OeStopCancelled, OeStopped, OePrune
<1>5. PICK x : Becomes(l, x)
  BY <1>3 DEF LegStep
<1>6. oe' \in [OrderLegs -> OeType] /\ \A k \in OrderLegs \ {l} : oe'[k] = oe[k]
  BY <1>1, <1>5, BecomesIs
<1>7. ExecutorStep /\ \A k \in Legs \ {l} : call'[k] = call[k] /\ ret'[k] = ret[k]
  BY <1>1, <1>3, <1>4, OwnStep DEF LegStep
<1>8. /\ AdapterTypes' /\ CallsNameOrders' /\ AdapterInv' /\ Sent' = Sent
      /\ \A k \in OrderLegs : LegInv(k)'
      /\ \A r \in Slots : slot'[r] = slot[r] /\ LegsOf(r) \cap {l} = {} => SlotInv(r)'
  <2>1. \A k \in OrderLegs \ {l} : oe'[k] = oe[k] /\ call'[k] = call[k] /\ ret'[k] = ret[k] /\ (Replacing(k)' <=> Replacing(k))
    BY <1>2, <1>6, <1>7, LegFacts
  <2>2. LegInv(l)' /\ {l} \in SUBSET OrderLegs
    BY <1>1, <1>3 DEF LegStep
  <2>3. \A k \in {l} : LegInv(k)'
    BY <2>2
  <2> QED BY <1>7, <2>1, <2>2, <2>3, Frame
<1>9. \A r \in Slots : SlotInv(r)'
  BY <1>8 DEF QuoteLegs
<1>10. LegTypes' /\ \A k \in PositionLegs : PeKnows(pe[k])'
  BY <1>6, <1>8, PeKnowsStays DEF LegTypes
<1> QED BY <1>8, <1>9, <1>10 DEF LegsKept, LegsInv

\* A step of a slot and of some of its legs.
LEMMA SlotFrame ==
  ASSUME AdapterTypes, CallsNameOrders, AdapterInv, LegTypes, LegsInv, ExecutorStep, UNCHANGED <<pe, session>>,
         NEW s \in Slots, NEW y \in SlotType, y.other \in LegsOf(s) \cup {None}, slot' = [slot EXCEPT ![s] = y],
         NEW L \in SUBSET LegsOf(s), oe' \in [OrderLegs -> OeType],
         \A k \in OrderLegs \ L : oe'[k] = oe[k] /\ call'[k] = call[k] /\ ret'[k] = ret[k],
         \A k \in LegsOf(s) \ L : (y.at = "replace" /\ y.other = k) <=> (slot[s].at = "replace" /\ slot[s].other = k),
         \A k \in L : LegInv(k)', SlotInv(s)'
  PROVE  LegsKept
<1>1. /\ slot' \in [Slots -> SlotType] /\ \A r \in Slots \ {s} : slot'[r] = slot[r]
      /\ \A l \in OrderLegs \ LegsOf(s) : Replacing(l)' <=> Replacing(l)
      /\ \A l \in LegsOf(s) : Replacing(l)' <=> y.at = "replace" /\ y.other = l
      /\ \A l \in LegsOf(s) : Replacing(l) <=> slot[s].at = "replace" /\ slot[s].other = l
  <2>1. (\A r \in Slots : SlotInv(r)) /\ LegTypes /\ s \in Slots /\ y \in SlotType /\ y.other \in LegsOf(s) \cup {None}
        /\ slot' = [slot EXCEPT ![s] = y]
    BY DEF LegsInv
  <2> QED BY ONLY <2>1, ReplacingIs
<1>2. \A k \in OrderLegs \ L : Replacing(k)' <=> Replacing(k)
  BY <1>1
<1>3. L \in SUBSET OrderLegs
  BY SlotFacts
<1>4. /\ AdapterTypes' /\ CallsNameOrders' /\ AdapterInv' /\ Sent' = Sent
      /\ \A k \in OrderLegs : LegInv(k)'
      /\ \A r \in Slots : slot'[r] = slot[r] /\ LegsOf(r) \cap L = {} => SlotInv(r)'
  BY <1>2, <1>3, Frame
<1>5. \A r \in Slots : SlotInv(r)'
  <2>1. \A r \in Slots \ {s} : LegsOf(r) \cap L = {}
    BY SlotFacts
  <2> QED BY <1>1, <1>4, <2>1
<1>6. LegTypes' /\ \A k \in PositionLegs : PeKnows(pe[k])'
  BY <1>1, <1>4, PeKnowsStays DEF LegTypes
<1> QED BY <1>4, <1>5, <1>6 DEF LegsKept, LegsInv

\* A step of a slot that is one of the steps of one of its executors.
LEMMA SlotLegStep ==
  ASSUME AdapterTypes, CallsNameOrders, AdapterInv, LegTypes, LegsInv, UNCHANGED <<pe, session>>,
         NEW s \in Slots, NEW y \in SlotType, y.other \in LegsOf(s) \cup {None}, slot' = [slot EXCEPT ![s] = y],
         NEW l \in LegsOf(s), LegStep(l), UNCHANGED <<venueVars, heard, dirty, lost>>,
         UNCHANGED <<refs, cache, acked, snap>> \/ \E o \in Sent : ForgetCancelled(o),
         y.at # "replace", slot[s].at # "replace",
         SlotInv(s)'
  PROVE  LegsKept
<1>1. l \in OrderLegs /\ l \in Legs
  BY SlotFacts, LegFacts
<1>2. PICK x : Becomes(l, x)
  BY DEF LegStep
<1>3. oe' \in [OrderLegs -> OeType] /\ \A k \in OrderLegs \ {l} : oe'[k] = oe[k]
  BY <1>1, <1>2, BecomesIs
<1>4. ExecutorStep /\ \A k \in Legs \ {l} : call'[k] = call[k] /\ ret'[k] = ret[k]
  BY <1>1, OwnStep DEF LegStep
<1>5. /\ {l} \in SUBSET LegsOf(s) /\ \A k \in {l} : LegInv(k)'
      /\ \A k \in OrderLegs \ {l} : oe'[k] = oe[k] /\ call'[k] = call[k] /\ ret'[k] = ret[k]
  BY <1>3, <1>4, LegFacts DEF LegStep
<1> QED BY <1>3, <1>4, <1>5, SlotFrame

\* What a slot is in the middle of.
LEMMA SlotState ==
  ASSUME LegTypes, LegsInv, NEW s \in Slots
  PROVE  /\ SlotInv(s) /\ slot[s] \in SlotType /\ None \notin LegsOf(s) /\ LegsOf(s) \subseteq OrderLegs
         /\ slot[s].leg \in LegsOf(s) \cup {None} /\ slot[s].other \in LegsOf(s) \cup {None}
         /\ \A l \in LegsOf(s) : LegInv(l)
  BY SlotFacts DEF LegTypes, LegsInv, SlotInv

LEMMA EmptyIs == /\ EmptySlot \in SlotType /\ EmptySlot.leg = None /\ EmptySlot.at = "idle" /\ EmptySlot.other = None
                 /\ \A l \in OrderLegs : LET y == [EmptySlot EXCEPT !.leg = l] IN
                       y \in SlotType /\ y.leg = l /\ y.at = "idle" /\ y.other = None
  BY DEF EmptySlot, SlotType

\* A slot whose record becomes y, in a step that lets no order of an executor go that rests and is known.
LEMMA SlotTurns ==
  ASSUME LegTypes, NEW s \in Slots, NEW y \in SlotType, slot' = [slot EXCEPT ![s] = y],
         y.leg \in LegsOf(s) \cup {None}, y.other \in LegsOf(s) \cup {None},
         y.at \in {"spawn", "replace", "settle"} => y.other # None,
         y.at \in {"idle", "stop", "fallback"} => y.other = None,
         y.at \in {"stop", "replace", "fallback", "settle"} => y.leg # None,
         y.at = "spawn" => y.leg = None,
         y.at # "replace",
         \A l \in LegsOf(s) : oe'[l].doing = "create" => y.at = "spawn" /\ y.other = l,
         \A l \in LegsOf(s) \ {y.leg, y.other} : oe'[l].order \notin book' \cap refs'
  PROVE  SlotInv(s)'
<1>1. slot'[s] = y
  BY DEF LegTypes
<1> QED BY <1>1 DEF SlotInv

\* Of an executor that is done, and is not kept for an order that may rest, nothing known rests.
LEMMA NothingRests ==
  ASSUME NEW l \in OrderLegs, AdapterTypes, LegInv(l), oe[l].st \in {"TERMINATED", "pruned"}, ~LeftResting(oe[l])
  PROVE  oe[l].order \notin book \cap refs
<1>1. CASE oe[l].order = None
  BY <1>1, OrderFacts DEF AdapterTypes
<1>2. CASE oe[l].order # None /\ MayStillRest(oe[l])
  BY <1>2 DEF LegInv, LegLives, LeftResting
<1>3. CASE oe[l].order # None /\ ~MayStillRest(oe[l])
  BY <1>3 DEF LegInv, LegCounts, MayStillRest, TrueOf
<1> QED BY <1>1, <1>2, <1>3

LEMMA NothingRestsNext ==
  ASSUME NEW l \in OrderLegs, AdapterTypes', LegInv(l)', oe'[l].st \in {"TERMINATED", "pruned"}, ~LeftResting(oe'[l])
  PROVE  oe'[l].order \notin book' \cap refs'
<1>1. CASE oe'[l].order = None
  BY <1>1, OrderFacts DEF AdapterTypes
<1>2. CASE oe'[l].order # None /\ MayStillRest(oe'[l])
  BY <1>2 DEF LegInv, LegLives, LeftResting, MayStillRest
<1>3. CASE oe'[l].order # None /\ ~MayStillRest(oe'[l])
  BY <1>3 DEF LegInv, LegCounts, MayStillRest, TrueOf
<1> QED BY <1>1, <1>2, <1>3

LEMMA TickExecutorsKeeps ==
  ASSUME AdapterTypes, CallsNameOrders, AdapterInv, LegTypes, LegsInv, UNCHANGED <<pe, session>>, NEW s \in Slots, TickExecutors(s)
  PROVE  LegsKept
<1> USE DEF OeQuiet, adapterVars
<1>1. PICK l \in LegsOf(s) : OeTick(l) \/ OeTicked(l) \/ OePrune(l)
  BY DEF TickExecutors
<1>2. slot[s].at = "idle" /\ slot' = slot /\ slot' = [slot EXCEPT ![s] = slot[s]]
  BY DEF TickExecutors, At, LegTypes
<1>3. /\ l \in OrderLegs /\ LegInv(l) /\ SlotInv(s) /\ slot[s] \in SlotType
      /\ slot[s].leg \in LegsOf(s) \cup {None} /\ slot[s].other \in LegsOf(s) \cup {None} /\ LegsOf(s) \subseteq OrderLegs
  BY SlotState
<1>4. ~Replacing(l) /\ ~Replacing(l)'
  <2>1. \A r \in Slots : SlotInv(r)
    BY DEF LegsInv
  <2> QED BY <1>2, <1>3, <2>1, ReplacingIs
<1>5. LegStep(l) /\ oe'[l].order = oe[l].order /\ oe'[l].doing # "create"
  BY <1>1, <1>3, <1>4, TickKeeps, TickedKeeps, PruneKeeps
<1>6. UNCHANGED <<venueVars, adapterVars, lost>>
  BY <1>1 DEF OeTick, OeTicked, OePrune
<1>7. \A k \in LegsOf(s) \ {l} : oe'[k] = oe[k]
  BY <1>3, <1>5, BecomesIs DEF LegStep
<1>8. SlotInv(s)'
  <2>1. \A k \in LegsOf(s) : oe'[k].doing # "create" /\ oe'[k].order = oe[k].order
    BY <1>2, <1>3, <1>5, <1>7 DEF SlotInv
  <2>2. \A k \in LegsOf(s) \ {slot[s].leg, slot[s].other} : oe'[k].order \notin book' \cap refs'
    BY <1>3, <1>6, <2>1 DEF SlotInv, venueVars
  <2> QED BY <1>2, <1>3, <2>1, <2>2, SlotTurns DEF SlotInv
<1> QED BY <1>2, <1>3, <1>5, <1>6, <1>8, SlotLegStep

LEMMA QuoteKeeps ==
  ASSUME AdapterTypes, CallsNameOrders, AdapterInv, LegTypes, LegsInv, UNCHANGED <<pe, session>>, NEW s \in Slots, Quote(s)
  PROVE  LegsKept
<1> USE DEF OeQuiet, adapterVars
<1>1. PICK m \in NextLeg(s) : OeSpawn(m) /\ slot' = [slot EXCEPT ![s].at = "spawn", ![s].other = m]
  BY DEF Quote
<1>2. m \in LegsOf(s)
  BY <1>1 DEF NextLeg, LegsOf, Range
<1>3. slot[s].at = "idle" /\ slot[s].leg = None
  BY DEF Quote, At
<1>4. /\ m \in OrderLegs /\ LegInv(m) /\ SlotInv(s) /\ slot[s] \in SlotType
      /\ slot[s].leg \in LegsOf(s) \cup {None} /\ slot[s].other \in LegsOf(s) \cup {None} /\ LegsOf(s) \subseteq OrderLegs
  BY <1>2, SlotState
<1> DEFINE y == [slot[s] EXCEPT !.at = "spawn", !.other = m]
<1>5. y \in SlotType /\ y.leg = None /\ y.at = "spawn" /\ y.other = m /\ slot' = [slot EXCEPT ![s] = y]
  BY <1>1, <1>3, <1>4 DEF SlotType, LegTypes
<1> HIDE DEF y
<1>6. ~Replacing(m)'
  <2>1. \A r \in Slots : SlotInv(r)
    BY DEF LegsInv
  <2> QED BY <1>2, <1>5, <2>1, ReplacingIs
<1>7. LegStep(m) /\ oe'[m].doing = "create" /\ oe'[m].order = None
  BY <1>1, <1>4, <1>6, SpawnKeeps
<1>8. UNCHANGED <<venueVars, adapterVars, lost>>
  BY <1>1 DEF OeSpawn
<1>9. \A k \in LegsOf(s) \ {m} : oe'[k] = oe[k]
  BY <1>4, <1>7, BecomesIs DEF LegStep
<1>10. SlotInv(s)'
  <2>1. \A k \in LegsOf(s) \ {m} : oe'[k].doing # "create" /\ oe'[k].order = oe[k].order
    BY <1>3, <1>4, <1>9 DEF SlotInv
  <2>2. \A k \in LegsOf(s) \ {y.leg, y.other} : oe'[k].order \notin book' \cap refs'
    <3>1. slot[s].other = None
      BY <1>3, <1>4 DEF SlotInv
    <3> QED BY <1>3, <1>4, <1>5, <1>8, <2>1, <3>1, SlotFacts DEF SlotInv, venueVars
  <2>3. m # None
    BY <1>2, SlotFacts
  <2> QED BY <1>2, <1>5, <2>1, <2>2, <2>3, SlotTurns
<1> QED BY <1>2, <1>3, <1>5, <1>7, <1>8, <1>10, SlotLegStep

LEMMA QuotedKeeps ==
  ASSUME AdapterTypes, CallsNameOrders, AdapterInv, LegTypes, LegsInv, UNCHANGED <<pe, session>>, NEW s \in Slots, Quoted(s)
  PROVE  LegsKept
<1> USE DEF OeQuiet, adapterVars
<1>0. PICK l : l = slot[s].other
  OBVIOUS
<1> DEFINE y == IF ret[l].kind = "ok" THEN [EmptySlot EXCEPT !.leg = l] ELSE EmptySlot
<1>1. OeSpawned(l) /\ slot' = [slot EXCEPT ![s] = y] /\ slot[s].at = "spawn"
  BY <1>0 DEF Quoted, At
<1>2. /\ SlotInv(s) /\ slot[s] \in SlotType /\ LegsOf(s) \subseteq OrderLegs /\ None \notin LegsOf(s)
      /\ \A k \in LegsOf(s) : LegInv(k)
  BY SlotState
<1>3. l \in LegsOf(s) /\ l \in OrderLegs /\ LegInv(l) /\ slot[s].leg = None
  BY <1>0, <1>1, <1>2 DEF SlotInv
<1>4. y \in SlotType /\ y.leg = (IF ret[l].kind = "ok" THEN l ELSE None) /\ y.at = "idle" /\ y.other = None
  BY <1>3, EmptyIs
<1> HIDE DEF y
<1>5. ~Replacing(l)'
  <2>1. \A r \in Slots : SlotInv(r)
    BY DEF LegsInv
  <2> QED BY <1>1, <1>3, <1>4, <2>1, ReplacingIs
<1>6. LegStep(l) /\ oe'[l].doing = "none" /\ (ret[l].kind # "ok" => oe'[l].order = None)
  BY <1>1, <1>3, <1>5, SpawnedKeeps
<1>7. UNCHANGED <<venueVars, adapterVars, lost>>
  BY <1>1 DEF OeSpawned
<1>8. \A k \in LegsOf(s) \ {l} : oe'[k] = oe[k]
  BY <1>2, <1>3, <1>6, BecomesIs DEF LegStep
<1>9. SlotInv(s)'
  <2>1. \A k \in LegsOf(s) : oe'[k].doing # "create"
    BY <1>0, <1>2, <1>6, <1>8 DEF SlotInv
  <2>2. \A k \in LegsOf(s) \ {y.leg, y.other} : oe'[k].order \notin book' \cap refs'
    <3>1. None \notin book'
      BY <1>7, OrderFacts DEF AdapterTypes, venueVars
    <3>2. \A k \in LegsOf(s) \ {l} : oe'[k].order \notin book' \cap refs'
      BY <1>0, <1>2, <1>3, <1>7, <1>8 DEF SlotInv, venueVars
    <3> QED BY <1>4, <1>6, <3>1, <3>2
  <2> QED BY <1>1, <1>2, <1>3, <1>4, <2>1, <2>2, SlotTurns
<1> QED BY <1>1, <1>3, <1>4, <1>6, <1>7, <1>9, SlotLegStep

LEMMA ReleaseKeeps ==
  ASSUME AdapterTypes, CallsNameOrders, AdapterInv, LegTypes, LegsInv, UNCHANGED <<pe, session>>, NEW s \in Slots, Release(s)
  PROVE  LegsKept
<1> USE DEF OeQuiet, adapterVars
<1>0. PICK l : l = slot[s].leg
  OBVIOUS
<1>1. /\ slot[s].at = "idle" /\ l # None /\ oe[l].st \in {"TERMINATED", "pruned"} /\ ~LeftResting(oe[l])
      /\ slot' = [slot EXCEPT ![s] = EmptySlot] /\ UNCHANGED <<oe, call, ret, venueVars, adapterVars, lost>>
  BY <1>0 DEF Release, At
<1>2. /\ SlotInv(s) /\ slot[s] \in SlotType /\ LegsOf(s) \subseteq OrderLegs /\ None \notin LegsOf(s)
      /\ l \in LegsOf(s) /\ LegInv(l)
  BY <1>0, <1>1, SlotState
<1>3. oe[l].order \notin book \cap refs
  BY <1>1, <1>2, NothingRests
<1>4. ExecutorStep
  BY <1>1 DEF ExecutorStep, AdapterTypes
<1>5. SlotInv(s)'
  <2>1. \A k \in LegsOf(s) : oe'[k].doing # "create" /\ oe'[k].order \notin book' \cap refs'
    BY <1>0, <1>1, <1>2, <1>3 DEF SlotInv, venueVars
  <2> QED BY <1>1, <2>1, EmptyIs, SlotTurns
<1>6. oe' \in [OrderLegs -> OeType] /\ {} \in SUBSET LegsOf(s)
  BY <1>1 DEF LegTypes
<1>7. EmptySlot \in SlotType /\ EmptySlot.at = "idle" /\ EmptySlot.other = None
  BY EmptyIs
<1> QED BY <1>1, <1>4, <1>5, <1>6, <1>7, SlotFrame

\* The record of a slot after a stop.
LEMMA AfterStopIs ==
  ASSUME LegTypes, NEW s \in Slots, SlotInv(s), slot[s].at \in {"idle", "stop", "fallback"}, NEW e, AfterStop(s, e)
  PROVE  \E y \in SlotType : /\ slot' = [slot EXCEPT ![s] = y] /\ y.at = "idle" /\ y.other = None
                             /\ y.leg = IF LeftResting(e) THEN slot[s].leg ELSE None
<1>1. slot[s] \in SlotType /\ slot[s].other = None
  BY DEF LegTypes, SlotInv
<1>2. CASE LeftResting(e)
  <2> DEFINE y == [slot[s] EXCEPT !.at = "idle"]
  <2>1. y \in SlotType /\ y.at = "idle" /\ y.other = None /\ y.leg = slot[s].leg
    BY <1>1 DEF SlotType
  <2>2. slot' = [slot EXCEPT ![s] = y]
    BY <1>2 DEF AfterStop
  <2> QED BY <1>2, <2>1, <2>2
<1>3. CASE ~LeftResting(e)
  BY <1>3, EmptyIs DEF AfterStop
<1> QED BY <1>2, <1>3

\* The end of a stop: the slot keeps an executor whose order may rest, and is freed of any other.
LEMMA StopEnds ==
  ASSUME AdapterTypes, CallsNameOrders, AdapterInv, LegTypes, LegsInv, UNCHANGED <<pe, session>>, NEW s \in Slots,
         NEW l \in LegsOf(s), l = slot[s].leg, slot[s].at \in {"idle", "stop", "fallback"}, LegStep(l),
         UNCHANGED <<venueVars, adapterVars, lost>>, oe'[l].doing = "none", oe'[l].st = "TERMINATED", AfterStop(s, oe'[l])
  PROVE  LegsKept
<1> USE DEF adapterVars
<1>1. /\ SlotInv(s) /\ slot[s] \in SlotType /\ LegsOf(s) \subseteq OrderLegs /\ None \notin LegsOf(s) /\ slot[s].other = None
  BY SlotState DEF SlotInv
<1>2. PICK y \in SlotType : /\ slot' = [slot EXCEPT ![s] = y] /\ y.at = "idle" /\ y.other = None
                            /\ y.leg = IF LeftResting(oe'[l]) THEN slot[s].leg ELSE None
  BY <1>1, AfterStopIs
<1>3. \A k \in LegsOf(s) \ {l} : oe'[k] = oe[k]
  BY <1>1, BecomesIs DEF LegStep
<1>4. LegInv(l)' /\ AdapterTypes'
  <2>1. LegInv(l)' /\ l \in Legs
    BY <1>1, LegFacts DEF LegStep
  <2>2. ExecutorStep
    BY <2>1, OwnStep DEF LegStep
  <2> QED BY <2>1, <2>2, ExecutorKeeps
<1>5. SlotInv(s)'
  <2>1. \A k \in LegsOf(s) : oe'[k].doing # "create"
    BY <1>1, <1>3 DEF SlotInv
  <2>2. \A k \in LegsOf(s) \ {l} : oe'[k].order \notin book' \cap refs'
    BY <1>1, <1>3 DEF SlotInv, venueVars
  <2>3. ~LeftResting(oe'[l]) => oe'[l].order \notin book' \cap refs'
    BY <1>1, <1>4, NothingRestsNext
  <2> QED BY <1>1, <1>2, <2>1, <2>2, <2>3, SlotTurns
<1> QED BY <1>2, <1>5, SlotLegStep

LEMMA StopSlotKeeps ==
  ASSUME AdapterTypes, CallsNameOrders, AdapterInv, LegTypes, LegsInv, UNCHANGED <<pe, session>>, NEW s \in Slots, Stop(s)
  PROVE  LegsKept
<1> USE DEF OeQuiet, adapterVars
<1>0. PICK l : l = slot[s].leg
  OBVIOUS
<1>1. /\ slot[s].at \in {"idle", "fallback"} /\ l # None /\ OeStop(l)
      /\ IF oe'[l].doing = "none" THEN AfterStop(s, oe'[l]) ELSE slot' = [slot EXCEPT ![s].at = "stop"]
  BY <1>0 DEF Stop
<1>2. /\ SlotInv(s) /\ slot[s] \in SlotType /\ LegsOf(s) \subseteq OrderLegs /\ None \notin LegsOf(s)
      /\ l \in LegsOf(s) /\ LegInv(l) /\ slot[s].other = None
  BY <1>0, <1>1, SlotState DEF SlotInv
<1>3. UNCHANGED <<venueVars, adapterVars, lost>>
  BY <1>1 DEF OeStop
<1>4. ASSUME NEW y \in SlotType, slot' = [slot EXCEPT ![s] = y], y.at # "replace", y.other = None
      PROVE  LegStep(l) /\ oe'[l].order = oe[l].order /\ oe'[l].doing # "create" /\ (oe'[l].doing = "none" => oe'[l].st = "TERMINATED")
  <2>1. \A r \in Slots : SlotInv(r)
    BY DEF LegsInv
  <2>2. ~Replacing(l)'
    BY <1>2, <1>4, <2>1, ReplacingIs
  <2> QED BY <1>1, <1>2, <2>2, StopKeeps
<1>5. CASE oe'[l].doing = "none"
  <2>1. AfterStop(s, oe'[l])
    BY <1>1, <1>5
  <2>2. PICK y \in SlotType : slot' = [slot EXCEPT ![s] = y] /\ y.at = "idle" /\ y.other = None
    BY <1>1, <1>2, <2>1, AfterStopIs
  <2>3. LegStep(l) /\ oe'[l].st = "TERMINATED"
    BY <1>4, <1>5, <2>2
  <2> QED BY <1>0, <1>1, <1>2, <1>3, <1>5, <2>1, <2>3, StopEnds
<1>6. CASE oe'[l].doing # "none"
  <2> DEFINE y == [slot[s] EXCEPT !.at = "stop"]
  <2>1. y \in SlotType /\ y.leg = l /\ y.at = "stop" /\ y.other = None /\ slot' = [slot EXCEPT ![s] = y]
    BY <1>0, <1>1, <1>2, <1>6 DEF SlotType, LegTypes
  <2> HIDE DEF y
  <2>2. LegStep(l) /\ oe'[l].order = oe[l].order /\ oe'[l].doing # "create"
    BY <1>4, <2>1
  <2>3. \A k \in LegsOf(s) \ {l} : oe'[k] = oe[k]
    BY <1>2, <2>2, BecomesIs DEF LegStep
  <2>4. SlotInv(s)'
    <3>1. \A k \in LegsOf(s) : oe'[k].doing # "create"
      BY <1>1, <1>2, <2>2, <2>3 DEF SlotInv
    <3>2. \A k \in LegsOf(s) \ {l} : oe'[k].order \notin book' \cap refs'
      BY <1>0, <1>2, <1>3, <2>3 DEF SlotInv, venueVars
    <3> QED BY <1>1, <1>2, <2>1, <3>1, <3>2, SlotTurns
  <2> QED BY <1>1, <1>2, <1>3, <2>1, <2>2, <2>4, SlotLegStep
<1> QED BY <1>5, <1>6

LEMMA StoppingKeeps ==
  ASSUME AdapterTypes, CallsNameOrders, AdapterInv, LegTypes, LegsInv, UNCHANGED <<pe, session>>, NEW s \in Slots, Stopping(s)
  PROVE  LegsKept
<1> USE DEF OeQuiet, adapterVars
<1>0. PICK l : l = slot[s].leg
  OBVIOUS
<1>1. slot[s].at = "stop" /\ \/ OeStopCancelled(l) /\ UNCHANGED slot
                             \/ OeStopped(l) /\ AfterStop(s, oe'[l])
  BY <1>0 DEF Stopping, At
<1>2. /\ SlotInv(s) /\ slot[s] \in SlotType /\ LegsOf(s) \subseteq OrderLegs /\ None \notin LegsOf(s)
      /\ l \in LegsOf(s) /\ LegInv(l) /\ slot[s].other = None /\ \A r \in Slots : SlotInv(r)
  BY <1>0, <1>1, SlotState DEF SlotInv, LegsInv
<1>3. UNCHANGED <<venueVars, adapterVars, lost>>
  BY <1>1 DEF OeStopCancelled, OeStopped
<1>4. CASE OeStopCancelled(l) /\ UNCHANGED slot
  <2>1. slot' = [slot EXCEPT ![s] = slot[s]]
    BY <1>4 DEF LegTypes
  <2>2. ~Replacing(l)'
    BY <1>1, <1>2, <2>1, ReplacingIs
  <2>3. LegStep(l) /\ oe'[l].order = oe[l].order /\ oe'[l].doing # "create"
    BY <1>2, <1>4, <2>2, StopCancelledKeeps
  <2>4. \A k \in LegsOf(s) \ {l} : oe'[k] = oe[k]
    BY <1>2, <2>3, BecomesIs DEF LegStep
  <2>5. SlotInv(s)'
    <3>1. \A k \in LegsOf(s) : oe'[k].doing # "create"
      BY <1>1, <1>2, <2>3, <2>4 DEF SlotInv
    <3>2. \A k \in LegsOf(s) \ {l} : oe'[k].order \notin book' \cap refs'
      BY <1>0, <1>2, <1>3, <2>4 DEF SlotInv, venueVars
    <3> QED BY <1>0, <1>1, <1>2, <2>1, <3>1, <3>2, SlotTurns
  <2> QED BY <1>1, <1>2, <1>3, <2>1, <2>3, <2>5, SlotLegStep
<1>5. CASE OeStopped(l) /\ AfterStop(s, oe'[l])
  <2>1. PICK y \in SlotType : slot' = [slot EXCEPT ![s] = y] /\ y.at = "idle" /\ y.other = None
    BY <1>1, <1>2, <1>5, AfterStopIs
  <2>2. ~Replacing(l)'
    BY <1>2, <2>1, ReplacingIs
  <2>3. LegStep(l) /\ oe'[l].doing = "none" /\ oe'[l].st = "TERMINATED"
    BY <1>2, <1>5, <2>2, StoppedKeeps
  <2> QED BY <1>0, <1>1, <1>2, <1>3, <1>5, <2>3, StopEnds
<1> QED BY <1>1, <1>4, <1>5

LEMMA ReplaceKeeps ==
  ASSUME AdapterTypes, CallsNameOrders, AdapterInv, LegTypes, LegsInv, UNCHANGED <<pe, session>>, NEW s \in Slots, Replace(s)
  PROVE  LegsKept
<1> USE DEF OeQuiet, adapterVars
<1>0. PICK l : l = slot[s].leg
  OBVIOUS
<1>1. /\ slot[s].at = "idle" /\ l # None /\ Quiet(s) /\ oe[l].st = "ACTIVE" /\ oe[l].order # None
      /\ \E m \in NextLeg(s) : /\ Start(m, CancelAndPlace(oe[l].order, Size))
                               /\ slot' = [slot EXCEPT ![s].at = "replace", ![s].other = m]
      /\ UNCHANGED <<oe, ret, venueVars, adapterVars, lost>>
  BY <1>0 DEF Replace, At
<1>2. PICK m \in NextLeg(s) : /\ Start(m, CancelAndPlace(oe[l].order, Size))
                              /\ slot' = [slot EXCEPT ![s].at = "replace", ![s].other = m]
  BY <1>1
<1>3. /\ SlotInv(s) /\ slot[s] \in SlotType /\ LegsOf(s) \subseteq OrderLegs /\ None \notin LegsOf(s)
      /\ l \in LegsOf(s) /\ LegInv(l) /\ slot[s].other = None /\ \A r \in Slots : SlotInv(r)
  BY <1>0, <1>1, SlotState DEF SlotInv, LegsInv
<1>4. m \in LegsOf(s) /\ oe[m].st = "new"
  BY <1>2 DEF NextLeg, LegsOf, Range
<1>5. /\ m \in OrderLegs /\ LegInv(m) /\ m \in Legs /\ m # l /\ oe[m] = OeFresh /\ Idle(m) /\ oe[l].doing = "none" /\ Idle(l)
      /\ oe[l].order \in Sent /\ oe[l].order \in Orders
  BY <1>1, <1>3, <1>4, SlotState, LegFacts, LegState DEF Quiet, LegInv, LegLives, Sent
<1> DEFINE y == [slot[s] EXCEPT !.at = "replace", !.other = m]
           c == CancelAndPlace(oe[l].order, Size)
<1>6. y \in SlotType /\ y.leg = l /\ y.at = "replace" /\ y.other = m /\ slot' = [slot EXCEPT ![s] = y]
  BY <1>0, <1>2, <1>3, <1>5 DEF SlotType, LegTypes
<1>7. NewCall(c) /\ Start(m, c)
  BY <1>2, <1>5, NewCalls
<1>8. c \in CallType /\ c.op = "replace" /\ ~c.market /\ c.size = Size
  BY <1>5, <1>7, NewCallTypes, AdapterAssumption DEF NewCall
<1> HIDE DEF y, c
<1>9. call' \in [Legs -> CallType] /\ call'[m] = c /\ \A k \in Legs \ {m} : call'[k] = call[k]
  BY <1>5, <1>7, <1>8, StartTypes DEF AdapterTypes
<1>10. ExecutorStep
  <2>1. OwnCalls(m)
    BY <1>1, <1>5, <1>7 DEF OwnCalls
  <2> QED BY <1>1, <1>5, <2>1, OwnStep
<1>11. Replacing(m)' /\ AdapterTypes'
  BY <1>3, <1>4, <1>6, <1>10, ReplacingIs, ExecutorKeeps
<1>12. LegInv(m)'
  <2>1. LegCalls(m)'
    BY <1>1, <1>5, <1>8, <1>9, <1>11, FreshIs DEF LegCalls, Placing, Reading, Cancelling
  <2>2. LegCounts(m)' /\ LegLives(m)'
    BY <1>1, <1>5, FreshIs DEF LegCounts, LegLives, MayStillRest
  <2>3. LegOwns(m)'
    <3>1. Sent' = Sent /\ lost' = lost /\ ret[m].kind # "ok" /\ oe' = oe
      BY <1>1, <1>5 DEF Sent, venueVars, Idle
    <3> QED BY <1>5, <3>1 DEF LegOwns, LegInv
  <2> QED BY <2>1, <2>2, <2>3 DEF LegInv
<1>13. SlotInv(s)'
  <2>1. slot'[s] = y
    BY <1>6 DEF LegTypes
  <2>2. Idle(l)'
    BY <1>1, <1>3, <1>5, <1>9, LegFacts DEF Idle
  <2>3. \A k \in LegsOf(s) : oe'[k].doing # "create"
    BY <1>1, <1>3 DEF SlotInv
  <2>4. \A k \in LegsOf(s) \ {l} : oe'[k].order \notin book' \cap refs'
    BY <1>0, <1>1, <1>3 DEF SlotInv, venueVars
  <2> QED BY <1>1, <1>3, <1>4, <1>5, <1>6, <2>1, <2>2, <2>3, <2>4 DEF SlotInv
<1>14. oe' \in [OrderLegs -> OeType] /\ {m} \in SUBSET LegsOf(s)
  BY <1>1, <1>4 DEF LegTypes
<1>15. /\ \A k \in OrderLegs \ {m} : oe'[k] = oe[k] /\ call'[k] = call[k] /\ ret'[k] = ret[k]
       /\ \A k \in {m} : LegInv(k)'
       /\ \A k \in LegsOf(s) \ {m} : (y.at = "replace" /\ y.other = k) <=> (slot[s].at = "replace" /\ slot[s].other = k)
  BY <1>1, <1>6, <1>9, <1>12, LegFacts
<1> QED BY <1>4, <1>6, <1>10, <1>13, <1>14, <1>15, SlotFrame

LEMMA ReplaceFailedKeeps ==
  ASSUME AdapterTypes, CallsNameOrders, AdapterInv, LegTypes, LegsInv, UNCHANGED <<pe, session>>, NEW s \in Slots, ReplaceFailed(s)
  PROVE  LegsKept
<1> USE DEF OeQuiet, adapterVars
<1>0. PICK m : m = slot[s].other
  OBVIOUS
<1>1. /\ slot[s].at = "replace" /\ ret[m].kind \in {"throttled", "failed"}
      /\ slot' = [slot EXCEPT ![s].at = IF ret[m].kind = "throttled" THEN "idle" ELSE "fallback", ![s].other = None]
      /\ Take(m) /\ UNCHANGED <<oe, call, venueVars, adapterVars, lost>>
  BY <1>0 DEF ReplaceFailed, At
<1>2. /\ SlotInv(s) /\ slot[s] \in SlotType /\ LegsOf(s) \subseteq OrderLegs /\ None \notin LegsOf(s)
      /\ slot[s].leg \in LegsOf(s) /\ m \in LegsOf(s) /\ LegInv(m) /\ oe[m].st = "new" /\ \A r \in Slots : SlotInv(r)
  BY <1>0, <1>1, SlotState DEF SlotInv, LegsInv
<1>3. m \in OrderLegs /\ m \in Legs /\ oe[m] = OeFresh /\ call[m].op = "none"
  BY <1>1, <1>2, LegState DEF LegInv, LegLives
<1> DEFINE y == [slot[s] EXCEPT !.at = IF ret[m].kind = "throttled" THEN "idle" ELSE "fallback", !.other = None]
<1>4. y \in SlotType /\ y.leg = slot[s].leg /\ y.at \in {"idle", "fallback"} /\ y.other = None /\ slot' = [slot EXCEPT ![s] = y]
  BY <1>1, <1>2 DEF SlotType, LegTypes
<1> HIDE DEF y
<1>5. ret' \in [Legs -> RetType] /\ ret'[m] = NoRet /\ \A k \in Legs \ {m} : ret'[k] = ret[k]
  BY <1>1, <1>3, TakeTypes DEF AdapterTypes
<1>6. ExecutorStep
  <2>1. OwnCalls(m)
    BY <1>1 DEF OwnCalls
  <2> QED BY <1>1, <1>3, <2>1, OwnStep
<1>7. ~Replacing(m)'
  BY <1>2, <1>4, ReplacingIs
<1>8. LegInv(m)'
  <2>1. LegCalls(m)'
    BY <1>1, <1>3, <1>5, <1>7, FreshIs, NullTypes DEF LegCalls, Idle, Reading, Cancelling
  <2>2. LegCounts(m)' /\ LegLives(m)'
    BY <1>1, <1>3, FreshIs DEF LegCounts, LegLives, MayStillRest
  <2>3. LegOwns(m)'
    <3>1. Sent' = Sent /\ lost' = lost /\ ret[m].kind # "ok" /\ oe' = oe
      BY <1>1 DEF Sent, venueVars
    <3> QED BY <1>2, <3>1 DEF LegOwns, LegInv
  <2> QED BY <2>1, <2>2, <2>3 DEF LegInv
<1>9. SlotInv(s)'
  <2>1. \A k \in LegsOf(s) : oe'[k].doing # "create"
    BY <1>1, <1>2 DEF SlotInv
  <2>2. \A k \in LegsOf(s) \ {y.leg, y.other} : oe'[k].order \notin book' \cap refs'
    <3>1. \A k \in LegsOf(s) \ {slot[s].leg, m} : oe'[k].order \notin book' \cap refs'
      BY <1>0, <1>1, <1>2 DEF SlotInv, venueVars
    <3>2. oe'[m].order \notin book'
      BY <1>1, <1>3, FreshIs, OrderFacts DEF AdapterTypes, venueVars
    <3> QED BY <1>4, <3>1, <3>2
  <2> QED BY <1>2, <1>4, <2>1, <2>2, SlotTurns
<1>10. oe' \in [OrderLegs -> OeType] /\ {m} \in SUBSET LegsOf(s)
  BY <1>1, <1>2 DEF LegTypes
<1>11. /\ \A k \in OrderLegs \ {m} : oe'[k] = oe[k] /\ call'[k] = call[k] /\ ret'[k] = ret[k]
       /\ \A k \in {m} : LegInv(k)'
       /\ \A k \in LegsOf(s) \ {m} : (y.at = "replace" /\ y.other = k) <=> (slot[s].at = "replace" /\ slot[s].other = k)
  BY <1>0, <1>1, <1>4, <1>5, <1>8, LegFacts
<1> QED BY <1>4, <1>6, <1>9, <1>10, <1>11, SlotFrame

LEMMA ReplaceDoneKeeps ==
  ASSUME AdapterTypes, CallsNameOrders, AdapterInv, LegTypes, LegsInv, UNCHANGED <<pe, session>>, NEW s \in Slots, ReplaceDone(s)
  PROVE  LegsKept
<1> USE DEF OeQuiet, adapterVars
<1>0. PICK m, l : m = slot[s].other /\ l = slot[s].leg
  OBVIOUS
<1>1. /\ slot[s].at = "replace" /\ ret[m].kind = "ok"
      /\ oe' = [oe EXCEPT ![m] = Adopted(ret[m]), ![l].doing = "settle"]
      /\ slot' = [slot EXCEPT ![s] = [leg |-> m, at |-> "settle", other |-> l]]
      /\ Take(m) /\ Start(l, OrderStatus(oe[l].order)) /\ UNCHANGED <<venueVars, adapterVars, lost>>
  BY <1>0 DEF ReplaceDone, At
<1>2. /\ SlotInv(s) /\ slot[s] \in SlotType /\ LegsOf(s) \subseteq OrderLegs /\ None \notin LegsOf(s)
      /\ l \in LegsOf(s) /\ m \in LegsOf(s) /\ LegInv(m) /\ LegInv(l) /\ oe[m].st = "new" /\ \A r \in Slots : SlotInv(r)
      /\ oe[l].st = "ACTIVE" /\ oe[l].order # None /\ oe[l].doing = "none" /\ Idle(l)
  BY <1>0, <1>1, SlotState DEF SlotInv, LegsInv
<1>3. /\ m # l /\ m \in OrderLegs /\ l \in OrderLegs /\ m \in Legs /\ l \in Legs /\ oe[l] \in OeType
      /\ oe[l].order \in Sent /\ TrueOf(oe[l].seen, oe[l].rec, oe[l].order, book, filled)
  BY <1>2, LegState
<1> DEFINE y == [leg |-> m, at |-> "settle", other |-> l]
           x == [oe[l] EXCEPT !.doing = "settle"]
           c == OrderStatus(oe[l].order)
<1>4. y \in SlotType /\ y.leg = m /\ y.at = "settle" /\ y.other = l /\ slot' = [slot EXCEPT ![s] = y]
  BY <1>1, <1>3 DEF SlotType
<1>5. NewCall(c) /\ c \in CallType /\ c.op = "status" /\ c.order = oe[l].order
  <2>1. NewCall(c) /\ oe[l].order \in Orders
    BY <1>3, NewCalls DEF Sent
  <2> QED BY <2>1, NewCallTypes DEF NewCall
<1>6. /\ x \in OeType /\ x.doing = "settle" /\ x.st = "ACTIVE" /\ x.order = oe[l].order /\ x.seen = oe[l].seen /\ x.rec = oe[l].rec
  BY <1>2, <1>3, DoingIs DEF OeDoing
<1>7. oe'[m] = Adopted(ret[m]) /\ oe'[l] = x /\ \A k \in OrderLegs \ {l, m} : oe'[k] = oe[k]
  BY <1>1, <1>3 DEF LegTypes
<1> HIDE DEF y, x, c
<1>8. /\ call' \in [Legs -> CallType] /\ call'[l] = c /\ \A k \in Legs \ {l} : call'[k] = call[k]
      /\ ret' \in [Legs -> RetType] /\ ret'[m] = NoRet /\ \A k \in Legs \ {m} : ret'[k] = ret[k]
  BY <1>1, <1>3, <1>5, TakeTypes, StartTypes DEF AdapterTypes, c
<1>9. Replacing(m) /\ ~Replacing(m)' /\ ~Replacing(l)'
  <2>1. Replacing(m)
    BY <1>0, <1>1 DEF Replacing
  <2> QED BY <1>2, <1>4, <2>1, ReplacingIs
<1>10. LegInv(m)' /\ Adopted(ret[m]) \in OeType /\ oe'[m].doing = "none"
  BY <1>1, <1>2, <1>3, <1>7, <1>8, <1>9, AdoptKeeps DEF venueVars
<1>11. LegInv(l)' /\ oe'[l].doing # "create"
  <2>1. Turns(l, x)
    BY <1>1, <1>6, <1>7 DEF Turns, venueVars
  <2>2. x.doing \in Reading /\ call'[l].order = oe[l].order /\ call'[l].op = "status"
    BY <1>5, <1>6, <1>8 DEF Reading
  <2> QED BY <1>2, <1>3, <1>6, <1>9, <2>1, <2>2, AskKeeps
<1>12. ExecutorStep
  <2>1. call[l].op = "none" /\ ret[l].kind = "none" /\ ret'[l] = ret[l] /\ NewCall(call'[l])
    BY <1>2, <1>3, <1>5, <1>8 DEF Idle
  <2>2. ret[m].kind # "none" /\ ret'[m] = NoRet /\ call'[m] = call[m]
    BY <1>1, <1>3, <1>8
  <2> QED BY <1>1, <1>8, <2>1, <2>2 DEF ExecutorStep
<1>13. SlotInv(s)'
  <2>1. \A k \in LegsOf(s) : oe'[k].doing # "create"
    BY <1>1, <1>2, <1>7, <1>10, <1>11 DEF SlotInv
  <2>2. \A k \in LegsOf(s) \ {l, m} : oe'[k].order \notin book' \cap refs'
    BY <1>0, <1>1, <1>2, <1>7 DEF SlotInv, venueVars
  <2> QED BY <1>2, <1>4, <2>1, <2>2, SlotTurns
<1>14. oe' \in [OrderLegs -> OeType] /\ {l, m} \in SUBSET LegsOf(s)
  <2>1. oe' \in [OrderLegs -> OeType]
    <3>1. oe' = [k \in OrderLegs |-> oe'[k]]
      BY <1>1 DEF LegTypes
    <3>2. \A k \in OrderLegs : oe'[k] \in OeType
      BY <1>6, <1>7, <1>10 DEF LegTypes
    <3> QED BY <3>1, <3>2
  <2> QED BY <1>2, <2>1
<1>15. /\ \A k \in OrderLegs \ {l, m} : oe'[k] = oe[k] /\ call'[k] = call[k] /\ ret'[k] = ret[k]
       /\ \A k \in {l, m} : LegInv(k)'
       /\ \A k \in LegsOf(s) \ {l, m} : (y.at = "replace" /\ y.other = k) <=> (slot[s].at = "replace" /\ slot[s].other = k)
  BY <1>0, <1>4, <1>7, <1>8, <1>10, <1>11, LegFacts
<1> QED BY <1>2, <1>4, <1>12, <1>13, <1>14, <1>15, SlotFrame

LEMMA SettleSlotKeeps ==
  ASSUME AdapterTypes, CallsNameOrders, AdapterInv, LegTypes, LegsInv, UNCHANGED <<pe, session>>, NEW s \in Slots, Settle(s)
  PROVE  LegsKept
<1> USE DEF adapterVars
<1>0. PICK l : l = slot[s].other
  OBVIOUS
<1>1. /\ slot[s].at = "settle" /\ OeSettle(l) /\ UNCHANGED <<venueVars, lost>>
      /\ IF oe'[l].doing = "none"
         THEN ForgetCancelled(oe[l].order) /\ slot' = [slot EXCEPT ![s].at = "idle", ![s].other = None]
         ELSE UNCHANGED <<adapterVars, slot>>
  BY <1>0 DEF Settle, At
<1>2. /\ SlotInv(s) /\ slot[s] \in SlotType /\ LegsOf(s) \subseteq OrderLegs /\ None \notin LegsOf(s)
      /\ l \in LegsOf(s) /\ slot[s].leg \in LegsOf(s) /\ LegInv(l) /\ \A r \in Slots : SlotInv(r)
  BY <1>0, <1>1, SlotState DEF SlotInv, LegsInv
<1> DEFINE z == [slot[s] EXCEPT !.at = "idle", !.other = None]
           y == IF oe'[l].doing = "none" THEN z ELSE slot[s]
<1>3. /\ y \in SlotType /\ y.leg = slot[s].leg /\ y.other \in LegsOf(s) \cup {None} /\ slot' = [slot EXCEPT ![s] = y]
      /\ y.at = (IF oe'[l].doing = "none" THEN "idle" ELSE "settle")
      /\ y.other = (IF oe'[l].doing = "none" THEN None ELSE l)
  BY <1>0, <1>1, <1>2 DEF SlotType, LegTypes
<1> HIDE DEF y
<1>4. ~Replacing(l)'
  BY <1>2, <1>3, ReplacingIs
<1>5. /\ UNCHANGED <<placed, book, filled, lost, heard, dirty>> /\ refs' \subseteq refs
      /\ oe'[l].doing = "none" => oe[l].order \notin refs'
  BY <1>1 DEF venueVars, ForgetCancelled
<1>6. LegStep(l) /\ oe'[l].order = oe[l].order /\ oe'[l].doing # "create" /\ oe[l].order \in Sent
  BY <1>1, <1>2, <1>4, <1>5, SettleKeeps
<1>7. UNCHANGED <<refs, cache, acked, snap>> \/ \E o \in Sent : ForgetCancelled(o)
  BY <1>1, <1>6
<1>8. \A k \in LegsOf(s) \ {l} : oe'[k] = oe[k]
  BY <1>2, <1>6, BecomesIs DEF LegStep
<1>9. SlotInv(s)'
  <2>1. \A k \in LegsOf(s) : oe'[k].doing # "create"
    BY <1>1, <1>2, <1>6, <1>8 DEF SlotInv
  <2>2. \A k \in LegsOf(s) \ {y.leg, y.other} : oe'[k].order \notin book' \cap refs'
    <3>1. \A k \in LegsOf(s) \ {slot[s].leg, l} : oe'[k].order \notin book' \cap refs'
      BY <1>0, <1>2, <1>5, <1>8 DEF SlotInv
    <3>2. oe'[l].doing = "none" => oe'[l].order \notin refs'
      BY <1>5, <1>6
    <3> QED BY <1>3, <3>1, <3>2
  <2> QED BY <1>2, <1>3, <2>1, <2>2, SlotTurns
<1> QED BY <1>1, <1>2, <1>3, <1>5, <1>6, <1>7, <1>9, SlotLegStep

LEMMA SlotKeeps ==
  ASSUME AdapterTypes, CallsNameOrders, AdapterInv, LegTypes, LegsInv, UNCHANGED <<pe, session>>, NEW s \in Slots, SlotStep(s)
  PROVE  LegsKept
  BY TickExecutorsKeeps, QuoteKeeps, QuotedKeeps, ReleaseKeeps, StopSlotKeeps, StoppingKeeps, ReplaceKeeps, ReplaceFailedKeeps,
     ReplaceDoneKeeps, SettleSlotKeeps DEF SlotStep

-----------------------------------------------------------------------------
(* The steps of a position executor.                                         *)

\* The records of position executors that know orders that were sent.
PeGood == {e \in PeType : PeKnows(e)}

LEMMA PeFreshIs == PeFresh \in PeGood
  BY DEF PeFresh, PeGood, PeType, PeKnows, PeDoing

LEMMA PeDoingIs ==
  ASSUME NEW e \in PeGood, NEW d \in PeDoing
  PROVE  [e EXCEPT !.doing = d] \in PeGood
  BY DEF PeGood, PeType, PeKnows

LEMMA PePosIs ==
  ASSUME NEW e \in PeGood, NEW p \in {"OPENING", "ACTIVE_POSITION", "CLOSING", "TERMINATED"}
  PROVE  [e EXCEPT !.pos = p] \in PeGood
<1>1. e \in PeType /\ PeKnows(e)
  BY DEF PeGood
<1>2. [e EXCEPT !.pos = p] \in PeType /\ [e EXCEPT !.pos = p].entry = e.entry /\ [e EXCEPT !.pos = p].exit = e.exit
  BY <1>1 DEF PeType
<1> QED BY <1>1, <1>2 DEF PeGood, PeKnows

LEMMA PeBegunIs ==
  ASSUME NEW e \in PeGood
  PROVE  [e EXCEPT !.st = "ACTIVE", !.doing = "create"] \in PeGood
<1>1. e \in PeType /\ PeKnows(e) /\ "create" \in PeDoing
  BY DEF PeGood, PeDoing
<1>2. [e EXCEPT !.st = "ACTIVE"] \in PeType /\ [e EXCEPT !.st = "ACTIVE"].entry = e.entry /\ [e EXCEPT !.st = "ACTIVE"].exit = e.exit
  BY <1>1 DEF PeType
<1>3. [e EXCEPT !.st = "ACTIVE"] \in PeGood
  BY <1>1, <1>2 DEF PeGood, PeKnows
<1>4. [[e EXCEPT !.st = "ACTIVE"] EXCEPT !.doing = "create"] = [e EXCEPT !.st = "ACTIVE", !.doing = "create"]
  OBVIOUS
<1> QED BY <1>1, <1>3, <1>4, PeDoingIs

LEMMA PeTerminatedIs ==
  ASSUME NEW e \in PeGood, NEW close \in Closes
  PROVE  PeTerminated(e, close) \in PeGood
<1> DEFINE x == [e EXCEPT !.st = "TERMINATED", !.close = close]
<1>1. e \in PeType /\ PeKnows(e)
  BY DEF PeGood
<1>2. x \in PeType
  BY <1>1 DEF PeType, Closes
<1>3. x.entry = e.entry /\ x.exit = e.exit
  BY <1>1 DEF PeType
<1>4. PeTerminated(e, close) = e \/ PeTerminated(e, close) = x
  BY DEF PeTerminated
<1> HIDE DEF x
<1> QED BY <1>1, <1>2, <1>3, <1>4 DEF PeGood, PeKnows

LEMMA PeOps ==
  ASSUME NEW e \in PeGood
  PROVE  Done(e) \in PeGood /\ Failed(e) \in PeGood /\ Opened(e) \in PeGood /\ Finalized(e) \in PeGood
<1>1. \A f \in PeGood : Done(f) \in PeGood
  BY PeDoingIs DEF Done, PeDoing
<1>2. Failed(e) \in PeGood
  BY <1>1, PeTerminatedIs DEF Failed, Closes
<1>3. Opened(e) \in PeGood
  BY PePosIs DEF Opened
<1>4. Finalized(e) \in PeGood
  <2>1. [e EXCEPT !.pos = "TERMINATED", !.doing = "none"] \in PeGood
    <3>1. [e EXCEPT !.pos = "TERMINATED"] \in PeGood /\ "none" \in PeDoing
      BY PePosIs DEF PeDoing
    <3>2. [[e EXCEPT !.pos = "TERMINATED"] EXCEPT !.doing = "none"] = [e EXCEPT !.pos = "TERMINATED", !.doing = "none"]
      OBVIOUS
    <3> QED BY <3>1, <3>2, PeDoingIs
  <2> QED BY <2>1, PeTerminatedIs DEF Finalized, Closes
<1> QED BY <1>1, <1>2, <1>3, <1>4

LEMMA PeIngests ==
  ASSUME NEW e \in PeGood, NEW r \in RetType, r.order \in Sent \cup {None}
  PROVE  PeEntry(e, r) \in PeGood /\ PeExit(e, r) \in PeGood
<1>1. r.st \in {"none", "OPEN", "PARTIALLY_FILLED"} \cup Terminal /\ r.base \in Nat /\ r.order \in Orders \cup {None}
  BY DEF RetType
<1>2. e \in PeType /\ PeKnows(e)
  BY DEF PeGood
<1>3. PeEntry(e, r) \in PeType /\ PeExit(e, r) \in PeType
  <2>1. PICK n \in Nat : n = IF r.base > e.eb THEN r.base ELSE e.eb
    BY <1>1, <1>2 DEF PeType
  <2>2. PICK m \in Nat : m = IF r.base > e.xb THEN r.base ELSE e.xb
    BY <1>1, <1>2 DEF PeType
  <2>3. PeEntry(e, r) = [e EXCEPT !.entry = r.order, !.eseen = r.st, !.eb = n] /\ PeExit(e, r) = [e EXCEPT !.exit = r.order, !.xseen = r.st, !.xb = m]
    BY <1>2, <2>1, <2>2 DEF PeType, PeEntry, PeExit
  <2>4. PeEntry(e, r) \in PeType
    BY <1>1, <1>2, <2>3 DEF PeType
  <2>5. PeExit(e, r) \in PeType
    BY <1>1, <1>2, <2>3 DEF PeType
  <2> QED BY <2>4, <2>5
<1>4. PeKnows(PeEntry(e, r)) /\ PeKnows(PeExit(e, r))
  BY <1>2 DEF PeKnows, PeEntry, PeExit, PeType
<1> QED BY <1>3, <1>4 DEF PeGood

\* What is to be shown of a step: the record stays good, and the calls are those of an executor.
PeSteps(l) == /\ \E x \in PeGood : pe' = [pe EXCEPT ![l] = x]
              /\ OwnCalls(l)
              /\ PeQuiet

\* A close, of what is left to close.
LEMMA ClosingIs ==
  ASSUME AdapterTypes, NEW l \in Legs, NEW e \in PeGood, NEW market \in BOOLEAN, NEW doing \in PeDoing, Closing(l, e, market, doing)
  PROVE  /\ \E x \in PeGood : pe' = [pe EXCEPT ![l] = x]
         /\ UNCHANGED call \/ \E c : NewCall(c) /\ Start(l, c)
<1>1. CASE e.eb - e.xb > 0
  <2> DEFINE x == [e EXCEPT !.pos = "CLOSING", !.doing = doing]
  <2>1. PICK n \in Nat : n = e.eb - e.xb /\ n > 0
    BY <1>1 DEF PeGood, PeType
  <2>2. NewCall(Place(n, market, TRUE))
    <3>1. /\ Place(n, market, TRUE) \in CallType /\ Place(n, market, TRUE).op = "place"
          /\ Place(n, market, TRUE).order = None /\ Place(n, market, TRUE).size = n
      BY DEF Place, NoCall, CallType, Ops
    <3> QED BY <2>1, <3>1 DEF NewCall
  <2>3. x \in PeGood
    <3>1. [e EXCEPT !.pos = "CLOSING"] \in PeGood
      BY PePosIs
    <3>2. [[e EXCEPT !.pos = "CLOSING"] EXCEPT !.doing = doing] = x
      OBVIOUS
    <3> QED BY <3>1, <3>2, PeDoingIs
  <2>4. pe' = [pe EXCEPT ![l] = x] /\ Start(l, Place(n, market, TRUE))
    BY <1>1, <2>1 DEF Closing
  <2> QED BY <2>2, <2>3, <2>4
<1>2. CASE ~(e.eb - e.xb > 0)
  BY <1>2, PeOps DEF Closing
<1> QED BY <1>1, <1>2

\* One case per step.
LEMMA PeStepIs ==
  ASSUME AdapterTypes, AdapterInv, LegTypes, LegsInv, NEW l \in PositionLegs, PeStep(l)
  PROVE  PeSteps(l)
<1> DEFINE e == pe[l]
<1>1. /\ l \in Legs /\ e \in PeGood /\ ret[l] \in RetType /\ ret[l].order \in Sent \cup {None}
      /\ e.entry \in Sent \cup {None} /\ e.exit \in Sent \cup {None}
  BY LegFacts DEF LegTypes, LegsInv, PeGood, PeKnows, AdapterTypes, AdapterInv, OrdersSent
<1>2. /\ PeEntry(e, ret[l]) \in PeGood /\ PeExit(e, ret[l]) \in PeGood
  BY <1>1, PeIngests
<1>3. \A what : PeBack(l, what) => ret[l].kind # "none" /\ Take(l) /\ PeQuiet
  BY DEF PeBack, PeTake, Take
\* An executor that is free starts a call; one that got an answer may.
<1>4. ASSUME \E x \in PeGood : pe' = [pe EXCEPT ![l] = x], UNCHANGED call \/ \E c : NewCall(c) /\ Start(l, c), PeQuiet,
             (Idle(l) /\ UNCHANGED ret) \/ (ret[l].kind # "none" /\ Take(l))
      PROVE  PeSteps(l)
  BY <1>4 DEF PeSteps, OwnCalls
<1>5. CASE PeSpawn(l)
  <2>1. [e EXCEPT !.st = "ACTIVE", !.doing = "create"] \in PeGood
    BY <1>1, PeBegunIs
  <2>2. NewCall(Place(Size, FALSE, FALSE))
    BY NewCalls
  <2> QED BY <1>4, <1>5, <2>1, <2>2 DEF PeSpawn
<1>6. CASE PeSpawned(l)
  <2>1. Done(PeEntry(e, ret[l])) \in PeGood
    BY <1>2, PeOps
  <2>2. Failed(e) \in PeGood /\ Opened(Done(PeEntry(e, ret[l]))) \in PeGood
    BY <1>1, <2>1, PeOps
  <2>3. \E x \in PeGood : pe' = [pe EXCEPT ![l] = x]
    BY <1>6, <2>1, <2>2, PeFreshIs DEF PeSpawned
  <2> QED BY <1>3, <1>4, <1>6, <2>3 DEF PeSpawned
<1>7. CASE PeTickOpening(l) \/ PePoll(l)
  <2>1. [e EXCEPT !.doing = "entry_status"] \in PeGood /\ [e EXCEPT !.doing = "poll"] \in PeGood
    BY <1>1, PeDoingIs DEF PeDoing
  <2>2. NewCall(OrderStatus(e.entry)) /\ NewCall(OrderStatus(e.exit))
    BY <1>1, NewCalls
  <2> QED BY <1>4, <1>7, <2>1, <2>2 DEF PeTickOpening, PePoll, PeFree
<1>8. CASE PeTickedOpening(l)
  <2> DEFINE d == Done(PeEntry(e, ret[l]))
  <2>1. d \in PeGood
    BY <1>2, PeOps
  <2>2. Failed(e) \in PeGood /\ Failed(d) \in PeGood /\ Opened(d) \in PeGood
    BY <1>1, <2>1, PeOps
  <2>3. \E x \in PeGood : pe' = [pe EXCEPT ![l] = x]
    BY <1>8, <2>1, <2>2 DEF PeTickedOpening
  <2> QED BY <1>3, <1>4, <1>8, <2>3 DEF PeTickedOpening
<1>9. CASE PeBarrier(l)
  <2>1. PICK market \in BOOLEAN : Closing(l, e, market, "close")
    BY <1>9 DEF PeBarrier
  <2>2. "close" \in PeDoing
    BY DEF PeDoing
  <2>3. /\ \E x \in PeGood : pe' = [pe EXCEPT ![l] = x]
        /\ UNCHANGED call \/ \E c : NewCall(c) /\ Start(l, c)
    BY <1>1, <2>1, <2>2, ClosingIs
  <2> QED BY <1>4, <1>9, <2>3 DEF PeBarrier, PeFree
<1>10. CASE PeCloseAnswered(l)
  <2> DEFINE d == PeExit(e, ret[l])
  <2>1. Failed(e) \in PeGood /\ Done(e) \in PeGood /\ Finalized(d) \in PeGood /\ Done(d) \in PeGood /\ "escalate" \in PeDoing /\ TRUE \in BOOLEAN
    BY <1>1, <1>2, PeOps DEF PeDoing
  <2>2. \/ pe' = [pe EXCEPT ![l] = Failed(e)] /\ UNCHANGED call
        \/ pe' = [pe EXCEPT ![l] = Done(e)] /\ UNCHANGED call
        \/ pe' = [pe EXCEPT ![l] = Finalized(d)] /\ UNCHANGED call
        \/ pe' = [pe EXCEPT ![l] = Done(d)] /\ UNCHANGED call
        \/ Closing(l, d, TRUE, "escalate")
    BY <1>10 DEF PeCloseAnswered
  <2> HIDE DEF d
  <2>3. /\ \E x \in PeGood : pe' = [pe EXCEPT ![l] = x]
        /\ UNCHANGED call \/ \E c : NewCall(c) /\ Start(l, c)
    BY <1>1, <1>2, <2>1, <2>2, ClosingIs DEF d
  <2> QED BY <1>3, <1>4, <1>10, <2>3 DEF PeCloseAnswered
<1>11. CASE PeEscalated(l)
  <2>1. Failed(e) \in PeGood /\ Finalized(PeExit(e, ret[l])) \in PeGood /\ Done(PeExit(e, ret[l])) \in PeGood
    BY <1>1, <1>2, PeOps
  <2>2. \E x \in PeGood : pe' = [pe EXCEPT ![l] = x]
    BY <1>11, <2>1 DEF PeEscalated
  <2> QED BY <1>3, <1>4, <1>11, <2>2 DEF PeEscalated
<1>12. CASE PeStopOpening(l)
  <2>1. [e EXCEPT !.doing = "stop_cancel"] \in PeGood /\ PeTerminated(e, "EARLY_STOP") \in PeGood
    BY <1>1, PeDoingIs, PeTerminatedIs DEF PeDoing, Closes
  <2>2. NewCall(CancelOrder(e.entry))
    BY <1>1, NewCalls
  <2> QED BY <1>4, <1>12, <2>1, <2>2 DEF PeStopOpening, PeFree
<1>13. CASE PeStopCancelled(l) \/ PeStopCloseCancelled(l)
  <2> DEFINE d == IF ret[l].kind = "failed" THEN PeTerminated(e, "FAILED") ELSE e
  <2>1. d \in PeGood
    BY <1>1, PeTerminatedIs DEF Closes
  <2>2. NewCall(OrderStatus(e.entry)) /\ NewCall(OrderStatus(e.exit))
    BY <1>1, NewCalls
  <2>3. /\ pe' = [pe EXCEPT ![l] = [d EXCEPT !.doing = "stop_status"]] \/ pe' = [pe EXCEPT ![l] = [d EXCEPT !.doing = "stop_close_status"]]
        /\ Start(l, OrderStatus(e.entry)) \/ Start(l, OrderStatus(e.exit))
    BY <1>13 DEF PeStopCancelled, PeStopCloseCancelled
  <2> HIDE DEF d
  <2>4. [d EXCEPT !.doing = "stop_status"] \in PeGood /\ [d EXCEPT !.doing = "stop_close_status"] \in PeGood
    BY <2>1, PeDoingIs DEF PeDoing
  <2> QED BY <1>3, <1>4, <1>13, <2>2, <2>3, <2>4 DEF PeStopCancelled, PeStopCloseCancelled
<1>14. CASE PeStopped(l)
  <2> DEFINE d == Done(PeEntry(e, ret[l]))
  <2>1. d \in PeGood
    BY <1>2, PeOps
  <2>2. Failed(e) \in PeGood /\ Failed(d) \in PeGood /\ Opened(d) \in PeGood /\ PeTerminated(d, "EARLY_STOP") \in PeGood
    BY <1>1, <2>1, PeOps, PeTerminatedIs DEF Closes
  <2>3. \E x \in PeGood : pe' = [pe EXCEPT ![l] = x]
    BY <1>14, <2>1, <2>2 DEF PeStopped
  <2> QED BY <1>3, <1>4, <1>14, <2>3 DEF PeStopped
<1>15. CASE PeStopPosition(l)
  <2>1. PeTerminated([e EXCEPT !.pos = "TERMINATED"], "EARLY_STOP") \in PeGood
    <3>1. [e EXCEPT !.pos = "TERMINATED"] \in PeGood
      BY <1>1, PePosIs
    <3> QED BY <3>1, PeTerminatedIs DEF Closes
  <2>2. \/ pe' = [pe EXCEPT ![l] = PeTerminated([e EXCEPT !.pos = "TERMINATED"], "EARLY_STOP")] /\ UNCHANGED call
        \/ Closing(l, e, TRUE, "close")
    BY <1>15 DEF PeStopPosition
  <2>3. "close" \in PeDoing /\ TRUE \in BOOLEAN
    BY DEF PeDoing
  <2>4. /\ \E x \in PeGood : pe' = [pe EXCEPT ![l] = x]
        /\ UNCHANGED call \/ \E c : NewCall(c) /\ Start(l, c)
    BY <1>1, <2>1, <2>2, <2>3, ClosingIs
  <2> QED BY <1>4, <1>15, <2>4 DEF PeStopPosition, PeFree
<1>16. CASE PeStopClosing(l)
  <2>1. [e EXCEPT !.doing = "stop_close_cancel"] \in PeGood /\ NewCall(CancelOrder(e.exit)) /\ "escalate" \in PeDoing /\ TRUE \in BOOLEAN
    BY <1>1, PeDoingIs, NewCalls DEF PeDoing
  <2>2. \/ pe' = [pe EXCEPT ![l].doing = "stop_close_cancel"] /\ Start(l, CancelOrder(e.exit))
        \/ Closing(l, e, TRUE, "escalate")
    BY <1>16 DEF PeStopClosing
  <2>3. /\ \E x \in PeGood : pe' = [pe EXCEPT ![l] = x]
        /\ UNCHANGED call \/ \E c : NewCall(c) /\ Start(l, c)
    BY <1>1, <2>1, <2>2, ClosingIs
  <2> QED BY <1>4, <1>16, <2>3 DEF PeStopClosing, PeFree
<1>17. CASE PeStopCloseRefreshed(l)
  <2> DEFINE d == IF ret[l].kind = "ok" THEN PeExit(e, ret[l]) ELSE PeTerminated(e, "FAILED")
  <2>1. d \in PeGood /\ "escalate" \in PeDoing /\ TRUE \in BOOLEAN
    BY <1>1, <1>2, PeTerminatedIs DEF Closes, PeDoing
  <2>2. (pe' = [pe EXCEPT ![l] = Done(d)] /\ UNCHANGED call) \/ Closing(l, d, TRUE, "escalate")
    BY <1>17 DEF PeStopCloseRefreshed
  <2> HIDE DEF d
  <2>3. /\ \E x \in PeGood : pe' = [pe EXCEPT ![l] = x]
        /\ UNCHANGED call \/ \E c : NewCall(c) /\ Start(l, c)
    BY <1>1, <2>1, <2>2, ClosingIs, PeOps
  <2> QED BY <1>3, <1>4, <1>17, <2>3 DEF PeStopCloseRefreshed
<1> QED BY <1>5, <1>6, <1>7, <1>8, <1>9, <1>10, <1>11, <1>12, <1>13, <1>14, <1>15, <1>16, <1>17 DEF PeStep

\* A step of a position executor.
LEMMA PositionKeeps ==
  ASSUME AdapterTypes, CallsNameOrders, AdapterInv, LegTypes, LegsInv, NEW l \in PositionLegs,
         PeStep(l), UNCHANGED <<oe, slot, session>>
  PROVE  LegsKept
<1>1. PeSteps(l) /\ l \in Legs /\ l \notin OrderLegs
  BY PeStepIs, LegFacts, SessionsAssumption
<1>2. PICK x \in PeGood : pe' = [pe EXCEPT ![l] = x]
  BY <1>1 DEF PeSteps
<1>3. ExecutorStep /\ \A k \in Legs \ {l} : call'[k] = call[k] /\ ret'[k] = ret[k]
  BY <1>1, OwnStep DEF PeSteps, PeQuiet, adapterVars
<1>4. /\ AdapterTypes' /\ CallsNameOrders' /\ AdapterInv' /\ Sent' = Sent
      /\ \A k \in OrderLegs : LegInv(k)'
      /\ \A r \in Slots : slot'[r] = slot[r] /\ LegsOf(r) \cap {} = {} => SlotInv(r)'
  <2>1. \A k \in OrderLegs \ {} : oe'[k] = oe[k] /\ call'[k] = call[k] /\ ret'[k] = ret[k] /\ (Replacing(k)' <=> Replacing(k))
    BY <1>1, <1>3, LegFacts DEF Replacing
  <2>2. {} \in SUBSET OrderLegs /\ \A k \in {} : LegInv(k)'
    OBVIOUS
  <2> QED BY <1>3, <2>1, <2>2, Frame
<1>5. \A r \in Slots : SlotInv(r)'
  BY <1>4
<1>6. pe' \in [PositionLegs -> PeType] /\ \A k \in PositionLegs : PeKnows(pe[k])'
  <2>1. x \in PeType /\ PeKnows(x)
    BY DEF PeGood
  <2>2. pe \in [PositionLegs -> PeType] /\ \A k \in PositionLegs : PeKnows(pe[k])
    BY DEF LegTypes, LegsInv
  <2>3. pe' \in [PositionLegs -> PeType] /\ pe'[l] = x /\ \A k \in PositionLegs \ {l} : pe'[k] = pe[k]
    BY <1>2, <2>1, <2>2
  <2> QED BY <1>4, <2>1, <2>2, <2>3 DEF PeKnows
<1>7. LegTypes'
  BY <1>6 DEF LegTypes
<1> QED BY <1>4, <1>5, <1>6, <1>7 DEF LegsKept, LegsInv

-----------------------------------------------------------------------------
(* The steps of the calls and of the venue.                                  *)

LEMMA CallLegs ==
  ASSUME AdapterTypes, CallsNameOrders, AdapterInv, LegTypes, LegsInv, NEW l \in Legs,
         AdapterStep(l), UNCHANGED <<oe, slot, pe, session>>
  PROVE  LegsKept
<1>1. AdapterTypes' /\ CallsNameOrders' /\ AdapterInv' /\ CallEffect(l) /\ SentStable /\ RefsStable
  BY CallTypes, AdapterKeeps, CallStep, RefsStay DEF AdapterInv
<1>2. /\ \A k \in Legs \ {l} : call'[k] = call[k] /\ ret'[k] = ret[k]
      /\ ~Idle(l) /\ Sent \subseteq Sent' /\ Sent' \subseteq Sent \cup {NextOrder(l)} /\ NextOrder(l)[1] = l
  BY <1>1 DEF CallEffect, Idle, NextOrder, SentStable
<1>3. ASSUME NEW k \in OrderLegs PROVE LegInv(k)'
  <2>1. LegInv(k) /\ (Replacing(k)' <=> Replacing(k)) /\ oe'[k] = oe[k] /\ k \in Legs
    BY LegFacts DEF LegsInv, Replacing
  <2>2. CASE k = l
    BY <1>1, <2>1, <2>2, CalledLeg
  <2>3. CASE k # l
    <3>1. call'[k] = call[k] /\ ret'[k] = ret[k] /\ \A o \in Sent' \ lost' : o[1] = k => o \in Sent
      BY <1>2, <2>1, <2>3
    <3> QED BY <1>1, <2>1, <3>1, OtherLeg
  <2> QED BY <2>2, <2>3
<1>4. ASSUME NEW s \in Slots PROVE SlotInv(s)'
  <2>1. SlotInv(s) /\ LegsOf(s) \subseteq Legs /\ slot'[s] = slot[s] /\ \A k \in LegsOf(s) : LegCounts(k) /\ oe'[k] = oe[k]
    BY SlotFacts, LegFacts DEF LegsInv, LegInv
  <2>2. \A k \in LegsOf(s) : Idle(k) => Idle(k)'
    BY <1>2, <2>1 DEF Idle
  <2> QED BY <1>1, <2>1, <2>2, OtherSlot
<1>5. LegTypes' /\ \A k \in PositionLegs : PeKnows(pe[k])'
  BY <1>2, PeKnowsStays DEF LegTypes
<1> QED BY <1>1, <1>3, <1>4, <1>5 DEF LegsKept, LegsInv

LEMMA VenueLegs ==
  ASSUME AdapterTypes, CallsNameOrders, AdapterInv, LegTypes, LegsInv, VenueStep, UNCHANGED <<oe, slot, pe, session>>
  PROVE  LegsKept
<1>1. AdapterTypes' /\ CallsNameOrders' /\ AdapterInv' /\ SentStable /\ UNCHANGED <<call, ret, lost>>
  BY VenueTypes, VenueKeeps DEF calls
<1>2. RefsStable /\ Sent' = Sent
  BY DEF VenueStep, BeginCycle, VenueFill, VenueDrop, FeedCatchesUp, StreamEvent, RefsStable, Sent, venueVars, adapterVars
<1>3. \A k \in OrderLegs : LegInv(k)'
  <2>1. TAKE k \in OrderLegs
  <2>2. LegInv(k) /\ (Replacing(k)' <=> Replacing(k)) /\ oe'[k] = oe[k] /\ call'[k] = call[k] /\ ret'[k] = ret[k]
        /\ \A o \in Sent' \ lost' : o[1] = k => o \in Sent
    BY <1>1, <1>2 DEF LegsInv, Replacing
  <2> QED BY <1>1, <1>2, <2>2, OtherLeg
<1>4. \A s \in Slots : SlotInv(s)'
  <2>1. TAKE s \in Slots
  <2>2. SlotInv(s) /\ slot'[s] = slot[s] /\ \A k \in LegsOf(s) : LegCounts(k) /\ oe'[k] = oe[k] /\ (Idle(k) => Idle(k)')
    BY <1>1, SlotFacts DEF LegsInv, LegInv, Idle
  <2> QED BY <1>1, <1>2, <2>2, OtherSlot
<1>5. LegTypes' /\ \A k \in PositionLegs : PeKnows(pe[k])'
  BY <1>2, PeKnowsStays DEF LegTypes
<1> QED BY <1>1, <1>3, <1>4, <1>5 DEF LegsKept, LegsInv

-----------------------------------------------------------------------------
(* The invariant.                                                            *)

Inv == AdapterTypes /\ CallsNameOrders /\ LegTypes /\ AdapterInv /\ LegsInv

LEMMA InitInv == Init => Inv
<1> SUFFICES ASSUME Init PROVE Inv
  OBVIOUS
<1>1. /\ placed = [l \in Legs |-> 0] /\ book = {} /\ reduce = {} /\ lost = {} /\ refs = {} /\ acked = {} /\ heard = {} /\ dirty = {}
      /\ amount = [o \in Orders |-> 0] /\ filled = [o \in Orders |-> 0] /\ feed = [o \in Orders |-> 0]
      /\ cache = [o \in Orders |-> NoStatus] /\ snap = NoSnap
      /\ call = [l \in Legs |-> NoCall] /\ ret = [l \in Legs |-> NoRet]
      /\ oe = [l \in OrderLegs |-> OeFresh] /\ pe = [l \in PositionLegs |-> PeFresh] /\ slot = [s \in Slots |-> EmptySlot]
      /\ session \in Sessions
  BY DEF Init, AdapterInit, OeInit, PeInit, SlotInit
<1>2. Sent = {}
  <2>1. \A o \in Orders : o[1] \in Legs /\ o[2] \in 1..OrdersPer[o[1]] /\ OrdersPer[o[1]] \in Nat
    BY OrderFacts, AdapterAssumption
  <2>2. \A o \in Orders : ~(o[2] <= placed[o[1]])
    BY <1>1, <2>1
  <2> QED BY <2>2 DEF Sent
<1>3. AdapterTypes /\ CallsNameOrders
  BY <1>1, NullTypes DEF AdapterTypes, CallsNameOrders
<1>4. LegTypes
  <2>1. PeFresh \in PeType
    BY PeFreshIs DEF PeGood
  <2> QED BY <1>1, <2>1, FreshIs, EmptyIs DEF LegTypes
<1>5. AdapterInv
  <2>1. OrdersSent /\ RefsAnswered /\ SnapShows /\ AckedGone /\ CallsGone /\ CacheTrue /\ RetTrue /\ OneAtATime
    BY <1>1, <1>2, NullTypes DEF OrdersSent, RefsAnswered, SnapShows, AckedGone, CallsGone, CacheTrue, RetTrue, OneAtATime
  <2>2. Amounts
    BY <1>1 DEF Amounts
  <2> QED BY <2>1, <2>2 DEF AdapterInv
<1>6. ASSUME NEW l \in OrderLegs PROVE LegInv(l)
  <2>1. /\ oe[l] = OeFresh /\ Idle(l) /\ ~Replacing(l)
    BY <1>1, LegFacts, NullTypes, EmptyIs DEF Idle, Replacing
  <2> QED BY <1>2, <2>1, FreshIs DEF LegInv, LegCalls, LegCounts, LegLives, LegOwns, Reading, Cancelling, MayStillRest
<1>7. ASSUME NEW s \in Slots PROVE SlotInv(s)
  <2>1. slot[s] = EmptySlot /\ \A l \in LegsOf(s) : oe[l] = OeFresh
    BY <1>1, SlotFacts
  <2> QED BY <1>1, <2>1, EmptyIs, FreshIs DEF SlotInv
<1>8. \A l \in PositionLegs : PeKnows(pe[l])
  BY <1>1, PeFreshIs DEF PeGood
<1> QED BY <1>3, <1>4, <1>5, <1>6, <1>7, <1>8 DEF Inv, LegsInv

\* One case per disjunct of the next-state relation.
LEMMA NextInv == Inv /\ [Next]_vars => Inv'
<1> SUFFICES ASSUME AdapterTypes, CallsNameOrders, LegTypes, AdapterInv, LegsInv, [Next]_vars PROVE LegsKept
  BY DEF Inv, LegsKept
<1>1. session \subseteq Legs
  BY SessionsAssumption DEF LegTypes
<1>2. CASE UNCHANGED vars
  <2>1. LegTypes' /\ AdapterTypes' /\ CallsNameOrders'
    BY <1>2 DEF vars, adapterAll, LegTypes, AdapterTypes, CallsNameOrders
  <2>2. AdapterInv'
    BY <1>2 DEF vars, adapterAll, AdapterInv, OrdersSent, Amounts, RefsAnswered, SnapShows, AckedGone, CallsGone, CacheTrue, RetTrue,
         OneAtATime, TrueOf, Sent
  <2>3. LegsInv'
    BY <1>2 DEF vars, adapterAll, LegsInv, LegInv, SlotInv, PeKnows, LegCalls, LegCounts, LegLives, LegOwns, TrueOf, Sent, Placing,
         Awaiting, Replacing, Idle, MayStillRest
  <2> QED BY <2>1, <2>2, <2>3 DEF LegsKept
<1>3. CASE Next
  <2>1. UNCHANGED session
    BY <1>3 DEF Next
  <2>2. CASE \E l \in session : AdapterStep(l) /\ UNCHANGED <<oe, slot, pe>>
    BY <1>1, <2>1, <2>2, CallLegs
  <2>3. CASE \E l \in session \cap (OrderLegs \ QuoteLegs) : OeStep(l) /\ UNCHANGED <<slot, pe>>
    BY <2>1, <2>3, LegAlone
  <2>4. CASE \E s \in Slots : LegsOf(s) \subseteq session /\ SlotStep(s) /\ UNCHANGED pe
    BY <2>1, <2>4, SlotKeeps
  <2>5. CASE \E l \in session \cap PositionLegs : PeStep(l) /\ UNCHANGED <<oe, slot>>
    BY <2>1, <2>5, PositionKeeps
  <2>6. CASE VenueStep /\ UNCHANGED <<oe, slot, pe>>
    BY <2>1, <2>6, VenueLegs
  <2> QED BY <1>3, <2>2, <2>3, <2>4, <2>5, <2>6 DEF Next
<1> QED BY <1>2, <1>3

LEMMA Invariance == Spec => []Inv
<1>1. Init => Inv
  BY InitInv
<1>2. Inv /\ [Next]_vars => Inv'
  BY NextInv
<1> QED BY <1>1, <1>2, PTL DEF Spec

\* Every variable of the session keeps its type: a call names orders of its venue, an executor orders of its own
\* history, a slot only executors of its level.
THEOREM TypeCorrect == Spec => []TypeOK
<1>1. Inv => TypeOK
  <2> SUFFICES ASSUME Inv PROVE TypeOK
    OBVIOUS
  <2>1. AdapterTypeOK
    <3>1. /\ \A l \in Legs : call[l] \in CallType /\ ret[l] \in RetType
          /\ snap \in SnapType
      BY DEF Inv, AdapterTypes
    <3>2. \A l \in Legs : call[l].op \in Ops /\ call[l].order \in Orders \cup {None}
      BY <3>1 DEF CallType
    <3>3. \A l \in Legs : ret[l].kind \in {"none", "ok", "failed", "throttled"} /\ ret[l].order \in Orders \cup {None}
      BY <3>1 DEF RetType
    <3>4. snap.kind \in {"none", "list", "denied"} /\ snap.now \in BOOLEAN /\ snap.view \subseteq Orders
      BY <3>1 DEF SnapType
    <3> QED BY <3>2, <3>3, <3>4 DEF Inv, AdapterTypes, AdapterTypeOK
  <2>2. OeTypeOK
    <3>1. \A l \in OrderLegs : oe[l] \in OeType
      BY DEF Inv, LegTypes
    <3> QED BY <3>1 DEF OeType, OeDoing, OeTypeOK
  <2>3. PeTypeOK
    <3>1. \A l \in PositionLegs : pe[l] \in PeType
      BY DEF Inv, LegTypes
    <3> QED BY <3>1 DEF PeType, PeTypeOK
  <2>4. SlotTypeOK /\ session \in Sessions
    <3>1. \A s \in Slots : SlotInv(s) /\ slot[s] \in SlotType
      BY DEF Inv, LegTypes, LegsInv
    <3> QED BY <3>1 DEF Inv, LegTypes, SlotInv, SlotType, SlotTypeOK
  <2> QED BY <2>1, <2>2, <2>3, <2>4 DEF TypeOK
<1> QED BY <1>1, Invariance, PTL

\* An order that a status answer or the status cache calls finished is not on the book: whatever reads of the book
\* were denied or stale, and however a cancel ended, order_status never turns a resting order into a finished one.
THEOREM NeverFalselyGone == Spec => []NoFalseGone
<1>1. Inv => NoFalseGone
  <2> SUFFICES ASSUME Inv PROVE NoFalseGone
    OBVIOUS
  <2>1. \A l \in Legs : ret[l].kind = "ok" /\ ret[l].st \in Terminal => ret[l].order \notin book
    BY OrderFacts DEF Inv, AdapterTypes, AdapterInv, RetTrue, TrueOf
  <2>2. \A o \in book : cache[o].st \notin Terminal
    BY NullTypes DEF Inv, AdapterTypes, AdapterInv, CacheTrue, TrueOf
  <2> QED BY <2>1, <2>2 DEF NoFalseGone
<1> QED BY <1>1, Invariance, PTL

\* What an order executor counts has traded: never a unit twice, and none of an order it does not work, however
\* the statuses it ingests repeat, are stale or are held while the book cannot be read.
THEOREM CountsTrades == Spec => []CountsOnlyTrades
<1>1. Inv => CountsOnlyTrades
  BY DEF Inv, LegsInv, LegInv, LegCounts, TrueOf, CountsOnlyTrades
<1> QED BY <1>1, Invariance, PTL

\* prune_terminated drops no executor that has an order on the book, except one whose placement was never answered.
THEOREM DropsNothingResting == Spec => []DroppedLeavesNothing
<1>1. Inv => DroppedLeavesNothing
  <2> SUFFICES ASSUME Inv, NEW l \in OrderLegs, oe[l].st = "pruned", NEW o \in book, o[1] = l, o \notin lost
               PROVE  FALSE
    BY DEF DroppedLeavesNothing
  <2>1. LegInv(l) /\ o \in Sent \ lost /\ \A s \in Slots : SlotInv(s)
    BY DEF Inv, LegsInv, AdapterInv, OrdersSent
  <2>2. oe[l].doing = "none" /\ ~MayStillRest(oe[l])
    BY <2>1 DEF LegInv, LegLives
  <2>3. ~Replacing(l)
    BY <2>1 DEF Replacing, SlotInv
  <2>4. Idle(l)
    BY <2>1, <2>2, <2>3 DEF LegInv, LegCalls
  <2>5. o = oe[l].order
    BY <2>1, <2>4 DEF LegInv, LegOwns, Idle
  <2>6. oe[l].order # None
    BY <2>5, OrderFacts DEF Inv, AdapterTypes
  <2>7. oe[l].order \notin book
    BY <2>1, <2>2, <2>6 DEF LegInv, LegCounts, MayStillRest, TrueOf
  <2> QED BY <2>5, <2>7
<1> QED BY <1>1, Invariance, PTL

\* No order of a level rests behind its slot's back: it is that of the executor the slot names, or of the one the
\* controller is placing, replacing or stopping, or the adapter has no reference of it.
THEOREM SlotsNameTheirQuotes == Spec => []SlotNamesItsQuote
<1>1. Inv => SlotNamesItsQuote
  <2> SUFFICES ASSUME Inv, NEW s \in Slots, NEW o \in book \cap refs, o[1] \in LegsOf(s) PROVE o[1] \in {slot[s].leg, slot[s].other}
    BY DEF SlotNamesItsQuote
  <2>1. PICK l \in LegsOf(s) : l = o[1]
    OBVIOUS
  <2>2. LegInv(l) /\ SlotInv(s) /\ l \in OrderLegs /\ o \in Sent \ lost /\ o \in Orders
    BY SlotFacts DEF Inv, LegsInv, AdapterInv, OrdersSent, RefsAnswered, Sent
  <2>3. CASE o = oe[l].order
    BY <2>1, <2>2, <2>3 DEF SlotInv
  <2>4. CASE oe[l].order = None /\ call[l].op = "none" /\ ret[l].kind = "ok" /\ ret[l].order = o
    <3>1. oe[l].doing \in {"none", "create"} /\ ~Idle(l)
      BY <2>2, <2>4 DEF LegInv, LegLives, Idle
    <3>2. CASE oe[l].doing = "create"
      BY <2>1, <2>2, <3>2 DEF SlotInv
    <3>3. CASE oe[l].doing = "none"
      <4>1. PICK r \in Slots : slot[r].at = "replace" /\ slot[r].other = l
        BY <2>2, <3>1, <3>3 DEF LegInv, LegCalls, Replacing
      <4>2. l \in LegsOf(r) \cup {None}
        BY <4>1 DEF Inv, LegsInv, SlotInv
      <4>3. r = s
        BY <2>2, <4>2, SlotFacts, LegFacts
      <4> QED BY <2>1, <4>1, <4>3
    <3> QED BY <3>1, <3>2, <3>3
  <2> QED BY <2>1, <2>2, <2>3, <2>4 DEF LegInv, LegOwns
<1> QED BY <1>1, Invariance, PTL

-----------------------------------------------------------------------------
(* Order legs implement OrderLeg. What that needs beyond Inv.                *)

\* Every order of an order leg is for Size units.
Sized == \A o \in Sent : o[1] \in OrderLegs => amount[o] = Size
\* Only a call that succeeded returns an order.
RetNamed == \A l \in Legs : ret[l].kind # "ok" => ret[l].order = None
\* An executor that works has no close type.
ActiveOpen == \A l \in OrderLegs : oe[l].st = "ACTIVE" => oe[l].close = "none"

LegView == Inv /\ Sized /\ RetNamed /\ ActiveOpen

-----------------------------------------------------------------------------
(* What a step of an executor does to a leg: nothing the abstract leg shows, *)
(* or the leg learns, or it declines.                                        *)

Same(l) == LegPhase(l)' = LegPhase(l) /\ LegOrder(l)' = LegOrder(l) /\ oe'[l].rec = oe[l].rec
\* What it counted, and that a leg that settled counted everything, follows from the invariant after the step.
Learns(l) == /\ LegPhase(l) \in {"working", "given_up"} /\ LegOrder(l) # None /\ LegOrder(l)' = LegOrder(l)
             /\ oe'[l].order = LegOrder(l) /\ oe'[l].rec >= oe[l].rec
             /\ \/ LegPhase(l)' \in {LegPhase(l), "given_up"}
                \/ LegPhase(l) = "working" /\ LegPhase(l)' = "settled"
Declines(l) == /\ LegPhase(l) = "idle" /\ LegPhase(l)' = "given_up"
               /\ LegOrder(l)' = LegOrder(l) /\ oe'[l].rec = oe[l].rec
Moves(l) == /\ Same(l) \/ Learns(l) \/ Declines(l)
            /\ oe'[l].st = "ACTIVE" => oe'[l].close = "none"

\* The record of an executor goes on, or ends, with its order.
Follows(e, x) == /\ x.order = e.order /\ x.rec >= e.rec
                 /\ \/ x.st = e.st /\ x.close = e.close
                    \/ x.st = "TERMINATED" /\ (e.st = "TERMINATED" => x.close = e.close)

LEMMA FollowsIs ==
  ASSUME NEW e \in OeType
  PROVE  /\ \A close \in Closes : Follows(e, Terminated(e, close)) /\ Terminated(e, close) \in OeType
         /\ \A d \in OeDoing : Follows(e, [e EXCEPT !.doing = d]) /\ [e EXCEPT !.doing = d] \in OeType
         /\ Follows(e, Completed(e)) /\ Completed(e) \in OeType
         /\ \A r \in RetType : /\ r.order = e.order => Follows(e, Ingested(e, r)) /\ Ingested(e, r) \in OeType
                               /\ Follows(e, Credited(e, r)) /\ Credited(e, r) \in OeType
<1>0. e.rec \in Nat
  BY DEF OeType
<1>1. \A close \in Closes : Follows(e, Terminated(e, close)) /\ Terminated(e, close) \in OeType
  BY <1>0, TerminatedIs DEF Follows
<1>2. \A d \in OeDoing : Follows(e, [e EXCEPT !.doing = d]) /\ [e EXCEPT !.doing = d] \in OeType
  BY <1>0, DoingIs DEF Follows
<1>3. Follows(e, Completed(e)) /\ Completed(e) \in OeType
  BY <1>0, CompletedIs DEF Follows
<1>4. ASSUME NEW r \in RetType
      PROVE  /\ r.order = e.order => Follows(e, Ingested(e, r)) /\ Ingested(e, r) \in OeType
             /\ Follows(e, Credited(e, r)) /\ Credited(e, r) \in OeType
  <2>1. PICK n \in Nat : n = Ingested(e, r).rec /\ n >= e.rec
    BY <1>0, IngestedIs DEF RetType
  <2>2. r.order = e.order => Follows(e, Ingested(e, r)) /\ Ingested(e, r) \in OeType
    BY <2>1, IngestedIs DEF Follows
  <2>3. Credited(e, r) = [e EXCEPT !.rec = n]
    BY <2>1 DEF Credited
  <2>4. Credited(e, r) \in OeType /\ Credited(e, r).rec = n /\ Credited(e, r).order = e.order
        /\ Credited(e, r).st = e.st /\ Credited(e, r).close = e.close
    BY <2>3 DEF OeType
  <2> QED BY <2>1, <2>2, <2>4 DEF Follows
<1> QED BY <1>1, <1>2, <1>3, <1>4

LEMMA FollowsOn ==
  ASSUME NEW e \in OeType, NEW x \in OeType, NEW y \in OeType, Follows(e, x), Follows(x, y)
  PROVE  Follows(e, y)
<1>1. e.rec \in Nat /\ x.rec \in Nat /\ y.rec \in Nat
  BY DEF OeType
<1> QED BY <1>1 DEF Follows

\* Terminated or not, with the call over.
LEMMA FollowsDone ==
  ASSUME NEW e \in OeType, NEW x \in OeType, Follows(e, x), NEW d \in OeDoing
  PROVE  Follows(e, [x EXCEPT !.doing = d])
  BY FollowsIs, FollowsOn

\* An executor at work, or one that failed and is stopped again.
LEMMA OnGoing ==
  ASSUME NEW l \in OrderLegs, NEW x \in OeType, oe[l] \in OeType, oe'[l] = x, oe[l].order # None, Follows(oe[l], x),
         \/ oe[l].st = "ACTIVE" /\ oe[l].close = "none"
         \/ oe[l].st = "TERMINATED" /\ oe[l].close = "FAILED"
  PROVE  Moves(l)
<1>1. LegOrder(l) = oe[l].order /\ LegOrder(l)' = oe[l].order
  BY DEF LegOrder, Follows
<1>2. CASE oe[l].st = "TERMINATED" /\ oe[l].close = "FAILED"
  <2>1. x.st = "TERMINATED" /\ x.close = "FAILED"
    BY <1>2 DEF Follows
  <2>2. LegPhase(l) = "given_up" /\ LegPhase(l)' = "given_up"
    BY <1>2, <2>1 DEF LegPhase, LegGaveUp
  <2> QED BY <1>1, <2>1, <2>2 DEF Moves, Learns, Follows
<1>3. CASE oe[l].st = "ACTIVE" /\ oe[l].close = "none"
  <2>1. LegPhase(l) = "working"
    BY <1>3 DEF LegPhase, LegGaveUp
  <2>2. CASE x.st = "ACTIVE" /\ x.close = "none"
    <3>1. LegPhase(l)' = "working"
      BY <2>2 DEF LegPhase, LegGaveUp, Follows
    <3> QED BY <1>1, <2>1, <2>2, <3>1 DEF Moves, Learns, Follows
  <2>3. CASE x.st = "TERMINATED"
    <3>1. LegPhase(l)' \in {"given_up", "settled"}
      BY <2>3 DEF LegPhase
    <3> QED BY <1>1, <2>1, <2>3, <3>1 DEF Moves, Learns, Follows
  <2> QED BY <1>3, <2>2, <2>3 DEF Follows
<1> QED BY <1>2, <1>3

\* A leg nothing happens to.
LEMMA SameIs ==
  ASSUME NEW l \in OrderLegs, oe'[l] = oe[l], oe[l].order # None \/ (call'[l] = call[l] /\ ret'[l] = ret[l])
  PROVE  Same(l)
  BY DEF Same, LegPhase, LegGaveUp, LegOrder, MayStillRest

\* What an executor's record says of its leg.
LEMMA ViewFacts ==
  ASSUME LegView, NEW l \in OrderLegs
  PROVE  /\ l \in Legs /\ oe[l] \in OeType /\ ret[l] \in RetType /\ call[l] \in CallType /\ LegInv(l)
         /\ oe[l].st = "ACTIVE" => oe[l].close = "none"
         /\ oe[l].order = None => LegOrder(l) = ret[l].order
         /\ oe[l].order # None => LegOrder(l) = oe[l].order
         /\ oe[l].doing # "none" => /\ oe[l].st = "ACTIVE" \/ (oe[l].st = "TERMINATED" /\ oe[l].close = "FAILED")
                                    /\ oe[l].doing # "create" => oe[l].order # None
         /\ ret[l].kind # "ok" => ret[l].order = None
         /\ ret[l].kind # "none" => call[l].op = "none"
         /\ ret[l].kind # "none" /\ oe[l].doing \in Reading \cup Cancelling =>
               ret[l].kind = "failed" \/ (ret[l].kind = "ok" /\ ret[l].order = oe[l].order)
  BY LegState DEF LegView, Inv, LegsInv, ActiveOpen, RetNamed, LegInv, LegLives, LegOrder

\* One case per step of an order executor.
LEMMA ExecutorMoves ==
  ASSUME LegView, NEW l \in OrderLegs, OeStep(l) \/ OeSettle(l)
  PROVE  /\ Moves(l)
         /\ \A k \in OrderLegs \ {l} : Same(k) /\ oe'[k] = oe[k]
<1> PICK e : e = oe[l]
  OBVIOUS
<1>0. /\ oe \in [OrderLegs -> OeType] /\ call \in [Legs -> CallType] /\ ret \in [Legs -> RetType] /\ OrderLegs \subseteq Legs /\ l \in Legs
      /\ e \in OeType /\ ret[l] \in RetType /\ LegInv(l) /\ (e.st = "ACTIVE" => e.close = "none")
      /\ e.doing # "none" => /\ e.st = "ACTIVE" \/ (e.st = "TERMINATED" /\ e.close = "FAILED")
                             /\ e.doing # "create" => e.order # None
      /\ ret[l].kind # "ok" => ret[l].order = None
      /\ ret[l].kind # "none" => call[l].op = "none"
      /\ ret[l].kind # "none" /\ e.doing \in Reading \cup Cancelling =>
            ret[l].kind = "failed" \/ (ret[l].kind = "ok" /\ ret[l].order = e.order)
  BY LegFacts, ViewFacts DEF LegView, Inv, LegTypes, AdapterTypes
<1> USE DEF OeDoing, Closes
<1>1. /\ \E x : oe' = [oe EXCEPT ![l] = x]
      /\ UNCHANGED call \/ \E c : Start(l, c)
      /\ UNCHANGED ret \/ Take(l)
  BY DEF OeStep, OeSettle, OeSpawn, OeSpawned, OeTick, OeTicked, OeStop, OeStopCancelled, OeStopped, OePrune,
     OeSettleRead, OeSettleCancelled, OeSettleChecked
<1>2. \A k \in OrderLegs \ {l} : oe'[k] = oe[k] /\ call'[k] = call[k] /\ ret'[k] = ret[k]
  BY <1>0, <1>1 DEF Start, Take
<1>3. \A k \in OrderLegs \ {l} : Same(k) /\ oe'[k] = oe[k]
  BY <1>2, SameIs
<1> SUFFICES Moves(l)
  BY <1>3
<1>f. Follows(e, e)
  BY <1>0 DEF Follows, OeType
<1>4. ASSUME NEW x \in OeType, oe' = [oe EXCEPT ![l] = x], Follows(e, x), e.order # None,
             \/ e.st = "ACTIVE" /\ e.close = "none"
             \/ e.st = "TERMINATED" /\ e.close = "FAILED"
      PROVE  Moves(l)
  BY <1>0, <1>4, OnGoing
<1>5. CASE OeSpawn(l)
  <2>1. e = OeFresh /\ call[l].op = "none" /\ ret[l].kind = "none" /\ ret[l].order = None
    BY <1>0, <1>5 DEF OeSpawn, Idle, LegInv, LegLives
  <2>2. oe'[l] = [OeFresh EXCEPT !.st = "ACTIVE", !.doing = "create"] /\ ret' = ret /\ call'[l] = Place(Size, FALSE, FALSE)
    BY <1>0, <1>5, <2>1 DEF OeSpawn, Start
  <2>3. /\ oe'[l].st = "ACTIVE" /\ oe'[l].close = "none" /\ oe'[l].order = None /\ oe'[l].rec = 0
    BY <2>2 DEF OeFresh
  <2>4. LegPhase(l) = "idle" /\ LegPhase(l)' = "idle"
    <3>1. ~LegGaveUp(l) /\ ~LegGaveUp(l)'
      BY <2>1, <2>3, FreshIs DEF LegGaveUp, MayStillRest
    <3>2. oe[l].st = "new" /\ oe[l].order = None
      BY <2>1, FreshIs
    <3>3. LegPhase(l) = "idle"
      BY <2>1, <3>1, <3>2 DEF LegPhase
    <3>4. LegPhase(l)' = "idle"
      BY <2>1, <2>2, <2>3, <3>1 DEF LegPhase
    <3> QED BY <3>3, <3>4
  <2>5. LegOrder(l)' = LegOrder(l) /\ oe'[l].rec = oe[l].rec
    BY <2>1, <2>2, <2>3, FreshIs DEF LegOrder
  <2> QED BY <2>3, <2>4, <2>5 DEF Moves, Same
<1>6. CASE OeSpawned(l)
  <2>1. /\ e.st = "ACTIVE" /\ e.close = "none" /\ e.order = None /\ e.rec = 0 /\ e.doing = "create"
        /\ ret[l].kind # "none" /\ call[l].op = "none" /\ call' = call /\ ret'[l] = NoRet
    BY <1>0, <1>6 DEF OeSpawned, Take, LegInv, LegLives, LegCalls, LegCounts
  <2>2. CASE ret[l].kind = "throttled"
    <3>1. oe'[l] = OeFresh
      BY <1>0, <1>6, <2>2 DEF OeSpawned
    <3>2. oe'[l].st = "new" /\ oe'[l].close = "none" /\ oe'[l].order = None /\ oe'[l].rec = 0
      BY <3>1, FreshIs
    <3>3. ~LegGaveUp(l) /\ ~LegGaveUp(l)'
      BY <2>1, <3>2 DEF LegGaveUp, MayStillRest
    <3>4. ret'[l].kind = "none" /\ ret'[l].order = None /\ ret[l].order = None
      BY <1>0, <2>1, <2>2 DEF NoRet
    <3>5. LegPhase(l) = "idle"
      BY <2>1, <2>2, <3>3 DEF LegPhase
    <3>6. LegPhase(l)' = "idle"
      BY <3>2, <3>3, <3>4 DEF LegPhase
    <3>7. LegOrder(l)' = LegOrder(l) /\ oe'[l].rec = oe[l].rec
      BY <2>1, <3>2, <3>4 DEF LegOrder
    <3> QED BY <3>2, <3>5, <3>6, <3>7 DEF Moves, Same
  <2>3. CASE ret[l].kind = "failed"
    <3>1. oe'[l] = [Terminated(e, "FAILED") EXCEPT !.doing = "none"]
      BY <1>0, <1>6, <2>3 DEF OeSpawned
    <3>2. oe'[l].st = "TERMINATED" /\ oe'[l].close = "FAILED" /\ oe'[l].order = None /\ oe'[l].rec = 0
      <4>1. Terminated(e, "FAILED") = [e EXCEPT !.st = "TERMINATED", !.close = "FAILED"]
        BY <2>1 DEF Terminated
      <4>2. oe'[l] = [e EXCEPT !.st = "TERMINATED", !.close = "FAILED", !.doing = "none"]
        BY <1>0, <3>1, <4>1 DEF OeType
      <4> QED BY <1>0, <2>1, <4>2 DEF OeType
    <3>3. ~LegGaveUp(l) /\ LegGaveUp(l)'
      BY <2>1, <3>2 DEF LegGaveUp, MayStillRest
    <3>4. LegPhase(l) = "idle"
      BY <2>1, <2>3, <3>3 DEF LegPhase
    <3>5. LegPhase(l)' = "given_up"
      BY <3>3 DEF LegPhase
    <3>6. ret'[l].order = None /\ ret[l].order = None
      BY <1>0, <2>1, <2>3 DEF NoRet
    <3>7. LegOrder(l)' = LegOrder(l) /\ oe'[l].rec = oe[l].rec
      BY <2>1, <3>2, <3>6 DEF LegOrder
    <3> QED BY <3>2, <3>4, <3>5, <3>7 DEF Moves, Declines
  <2>4. CASE ret[l].kind = "ok"
    <3> DEFINE x == [Completed(Ingested(e, ret[l])) EXCEPT !.doing = "none"]
               o == ret[l].order
    <3>1. oe'[l] = x
      BY <1>0, <1>6, <2>4 DEF OeSpawned
    <3>2. o # None
      BY <2>1, <2>4, LegState, OrderFacts DEF LegView, Inv, LegsInv
    <3>3. /\ Ingested(e, ret[l]) \in OeType /\ Ingested(e, ret[l]).order = o /\ Ingested(e, ret[l]).rec >= 0
          /\ Ingested(e, ret[l]).st = "ACTIVE" /\ Ingested(e, ret[l]).close = "none"
      BY <1>0, <2>1, IngestedIs DEF OeType
    <3>4. /\ x \in OeType /\ x.order = o /\ x.rec >= 0
          /\ (x.st = "ACTIVE" /\ x.close = "none") \/ x.st = "TERMINATED"
      BY <3>3, JudgedIs DEF Judged
    <3> HIDE DEF x
    <3>5. LegPhase(l) = "working" /\ LegPhase(l)' \in {"working", "given_up", "settled"}
      BY <2>1, <2>4, <3>1, <3>2, <3>4 DEF LegPhase, LegGaveUp, MayStillRest
    <3>6. LegOrder(l) = o /\ LegOrder(l)' = o
      BY <2>1, <3>1, <3>2, <3>4 DEF LegOrder
    <3> QED BY <2>1, <3>1, <3>2, <3>4, <3>5, <3>6 DEF Moves, Learns
  <2> QED BY <1>0, <2>1, <2>2, <2>3, <2>4 DEF RetType
<1>7. CASE OeTick(l)
  <2>1. Follows(e, [e EXCEPT !.doing = "tick"]) /\ [e EXCEPT !.doing = "tick"] \in OeType
    BY <1>0, FollowsIs
  <2> QED BY <1>0, <1>4, <1>7, <2>1 DEF OeTick
<1>8. CASE OeTicked(l)
  <2> DEFINE y == IF ret[l].kind = "failed" THEN Terminated(e, "FAILED") ELSE Completed(Ingested(e, ret[l]))
  <2>1. e.doing = "tick" /\ ret[l].kind # "none" /\ oe' = [oe EXCEPT ![l] = [y EXCEPT !.doing = "none"]]
    BY <1>8 DEF OeTicked
  <2>2. ret[l].kind = "failed" \/ ret[l].order = e.order
    BY <1>0, <2>1 DEF Reading
  <2>3. Follows(e, y) /\ y \in OeType
    <3>1. CASE ret[l].kind = "failed"
      BY <1>0, <3>1, FollowsIs
    <3>2. CASE ret[l].kind # "failed"
      <4>1. Follows(e, Ingested(e, ret[l])) /\ Ingested(e, ret[l]) \in OeType
        BY <1>0, <2>2, <3>2, FollowsIs
      <4>2. Follows(Ingested(e, ret[l]), y) /\ y \in OeType
        BY <3>2, <4>1, FollowsIs
      <4> QED BY <1>0, <4>1, <4>2, FollowsOn
    <3> QED BY <3>1, <3>2
  <2> HIDE DEF y
  <2>4. Follows(e, [y EXCEPT !.doing = "none"]) /\ [y EXCEPT !.doing = "none"] \in OeType
    BY <1>0, <2>3, FollowsDone, FollowsIs
  <2> QED BY <1>0, <1>4, <2>1, <2>4
<1>9. CASE OeStop(l)
  <2>1. /\ e.st = "ACTIVE" \/ (e.st = "TERMINATED" /\ e.close = "FAILED")
        /\ e.order # None
    BY <1>0, <1>9 DEF OeStop, LegInv, LegLives, MayStillRest
  <2>2. \E x \in {[e EXCEPT !.doing = "stop_cancel"], Terminated(e, "EARLY_STOP")} : oe' = [oe EXCEPT ![l] = x]
    BY <1>9 DEF OeStop
  <2>3. \A x \in {[e EXCEPT !.doing = "stop_cancel"], Terminated(e, "EARLY_STOP")} : Follows(e, x) /\ x \in OeType
    BY <1>0, FollowsIs
  <2> QED BY <1>0, <1>4, <2>1, <2>2, <2>3
<1>10. CASE OeStopCancelled(l)
  <2> DEFINE y == IF ret[l].kind = "failed" THEN Terminated(e, "FAILED") ELSE e
  <2>1. e.doing = "stop_cancel" /\ oe' = [oe EXCEPT ![l] = [y EXCEPT !.doing = "stop_status"]]
    BY <1>10 DEF OeStopCancelled
  <2>2. Follows(e, y) /\ y \in OeType
    BY <1>0, <1>f, FollowsIs
  <2> HIDE DEF y
  <2>3. Follows(e, [y EXCEPT !.doing = "stop_status"]) /\ [y EXCEPT !.doing = "stop_status"] \in OeType
    BY <1>0, <2>2, FollowsDone, FollowsIs
  <2> QED BY <1>0, <1>4, <2>1, <2>3
<1>11. CASE OeStopped(l)
  <2> DEFINE i == IF ret[l].kind = "ok" THEN Ingested(e, ret[l]) ELSE e
             close == IF ret[l].kind = "ok" /\ i.seen \in Terminal THEN "EARLY_STOP" ELSE "FAILED"
  <2>1. e.doing = "stop_status" /\ ret[l].kind # "none" /\ oe' = [oe EXCEPT ![l] = [Terminated(i, close) EXCEPT !.doing = "none"]]
    BY <1>11 DEF OeStopped
  <2>2. ret[l].kind = "ok" => ret[l].order = e.order
    BY <1>0, <2>1 DEF Reading
  <2>3. Follows(e, i) /\ i \in OeType
    <3>1. CASE ret[l].kind = "ok"
      BY <1>0, <2>2, <3>1, FollowsIs
    <3>2. CASE ret[l].kind # "ok"
      BY <1>0, <1>f, <3>2
    <3> QED BY <3>1, <3>2
  <2>4. Follows(i, Terminated(i, close)) /\ Terminated(i, close) \in OeType
    BY <2>3, FollowsIs
  <2>5. Follows(e, Terminated(i, close))
    BY <1>0, <2>3, <2>4, FollowsOn
  <2> HIDE DEF i, close
  <2>6. Follows(e, [Terminated(i, close) EXCEPT !.doing = "none"]) /\ [Terminated(i, close) EXCEPT !.doing = "none"] \in OeType
    BY <1>0, <2>4, <2>5, FollowsDone, FollowsIs
  <2> QED BY <1>0, <1>4, <2>1, <2>6
<1>12. CASE OePrune(l)
  <2>1. e.st = "TERMINATED" /\ ~MayStillRest(e) /\ oe'[l] = [e EXCEPT !.st = "pruned"] /\ call' = call /\ ret' = ret
    BY <1>0, <1>12 DEF OePrune
  <2>2. /\ oe'[l].st = "pruned" /\ oe'[l].close = e.close /\ oe'[l].order = e.order /\ oe'[l].seen = e.seen /\ oe'[l].rec = e.rec
    BY <1>0, <2>1 DEF OeType
  <2>3. LegPhase(l)' = LegPhase(l)
    BY <2>1, <2>2 DEF LegPhase, LegGaveUp
  <2> QED BY <2>1, <2>2, <2>3 DEF Moves, Same, LegOrder
<1>13. CASE OeSettleRead(l)
  <2> DEFINE i == IF ret[l].kind = "ok" THEN Ingested(e, ret[l]) ELSE Terminated(e, "FAILED")
  <2>1. e.doing = "settle" /\ ret[l].kind # "none" /\ oe' = [oe EXCEPT ![l] = Settling(l, ret[l])]
    BY <1>13 DEF OeSettleRead
  <2>2. ret[l].kind = "ok" => ret[l].order = e.order
    BY <1>0, <2>1 DEF Reading
  <2>3. Follows(e, i) /\ i \in OeType
    BY <1>0, <2>2, FollowsIs
  <2>4. Settling(l, ret[l]) \in {[Terminated(i, "EARLY_STOP") EXCEPT !.doing = "none"], [i EXCEPT !.doing = "settle_cancel"]}
    BY DEF Settling
  <2> HIDE DEF i
  <2>5. Follows(i, Terminated(i, "EARLY_STOP")) /\ Terminated(i, "EARLY_STOP") \in OeType
    BY <2>3, FollowsIs
  <2>6. Follows(e, Terminated(i, "EARLY_STOP"))
    BY <1>0, <2>3, <2>5, FollowsOn
  <2>7. /\ Follows(e, [Terminated(i, "EARLY_STOP") EXCEPT !.doing = "none"]) /\ [Terminated(i, "EARLY_STOP") EXCEPT !.doing = "none"] \in OeType
        /\ Follows(e, [i EXCEPT !.doing = "settle_cancel"]) /\ [i EXCEPT !.doing = "settle_cancel"] \in OeType
    BY <1>0, <2>3, <2>5, <2>6, FollowsDone, FollowsIs
  <2> QED BY <1>0, <1>4, <2>1, <2>4, <2>7
<1>14. CASE OeSettleCancelled(l)
  <2>1. e.doing = "settle_cancel" /\ \E x \in {[e EXCEPT !.doing = "settle_check"], [Terminated(e, "FAILED") EXCEPT !.doing = "none"]} :
           oe' = [oe EXCEPT ![l] = x]
    BY <1>14 DEF OeSettleCancelled
  <2>2. Follows(e, Terminated(e, "FAILED")) /\ Terminated(e, "FAILED") \in OeType
    BY <1>0, FollowsIs
  <2>3. /\ Follows(e, [Terminated(e, "FAILED") EXCEPT !.doing = "none"]) /\ [Terminated(e, "FAILED") EXCEPT !.doing = "none"] \in OeType
        /\ Follows(e, [e EXCEPT !.doing = "settle_check"]) /\ [e EXCEPT !.doing = "settle_check"] \in OeType
    BY <1>0, <2>2, FollowsDone, FollowsIs
  <2> QED BY <1>0, <1>4, <2>1, <2>3
<1>15. CASE OeSettleChecked(l)
  <2> DEFINE i == IF ret[l].kind = "ok" THEN Credited(e, ret[l]) ELSE e
             close == IF ret[l].kind = "ok" THEN "EARLY_STOP" ELSE "FAILED"
  <2>1. e.doing = "settle_check" /\ oe' = [oe EXCEPT ![l] = [Terminated(i, close) EXCEPT !.doing = "none"]]
    BY <1>15 DEF OeSettleChecked
  <2>2. Follows(e, i) /\ i \in OeType
    <3>1. CASE ret[l].kind = "ok"
      BY <1>0, <3>1, FollowsIs
    <3>2. CASE ret[l].kind # "ok"
      BY <1>0, <1>f, <3>2
    <3> QED BY <3>1, <3>2
  <2>3. Follows(i, Terminated(i, close)) /\ Terminated(i, close) \in OeType
    BY <2>2, FollowsIs
  <2>4. Follows(e, Terminated(i, close))
    BY <1>0, <2>2, <2>3, FollowsOn
  <2> HIDE DEF i, close
  <2>5. Follows(e, [Terminated(i, close) EXCEPT !.doing = "none"]) /\ [Terminated(i, close) EXCEPT !.doing = "none"] \in OeType
    BY <1>0, <2>3, <2>4, FollowsDone, FollowsIs
  <2> QED BY <1>0, <1>4, <2>1, <2>5
<1> QED BY <1>3, <1>5, <1>6, <1>7, <1>8, <1>9, <1>10, <1>11, <1>12, <1>13, <1>14, <1>15 DEF OeStep, OeSettle

-----------------------------------------------------------------------------
(* Nothing else an executor or a slot does is seen of more than one leg.     *)

Still(l) == Same(l) /\ (oe'[l].st = "ACTIVE" => oe'[l].close = "none")
OneMoves == \/ \A k \in OrderLegs : Still(k)
            \/ \E m \in OrderLegs : Moves(m) /\ \A k \in OrderLegs \ {m} : Still(k)

LEMMA StepMoves ==
  ASSUME LegView, NEW l \in OrderLegs, OeStep(l) \/ OeSettle(l)
  PROVE  OneMoves
  BY ExecutorMoves DEF OneMoves, Still, LegView, ActiveOpen

\* The executor a slot turns to, before its order is adopted.
LEMMA FreshLeg ==
  ASSUME LegView, NEW l \in OrderLegs, oe[l].st = "new"
  PROVE  /\ oe[l] = OeFresh /\ oe[l].order = None /\ oe[l].rec = 0 /\ oe[l].close = "none" /\ LegOrder(l) = ret[l].order
         /\ LegPhase(l) = (IF call[l].op = "none" /\ ret[l].kind = "ok" THEN "working" ELSE "idle")
<1>1. oe[l] = OeFresh /\ oe[l].order = None /\ oe[l].rec = 0 /\ oe[l].close = "none"
  BY ViewFacts, FreshIs DEF LegInv, LegLives
<1>2. ~LegGaveUp(l)
  BY <1>1 DEF LegGaveUp
<1> QED BY <1>1, <1>2 DEF LegPhase, LegOrder

LEMMA ReplaceMoves ==
  ASSUME LegView, NEW s \in Slots, Replace(s)
  PROVE  OneMoves
<1>1. PICK l : l = slot[s].leg
  OBVIOUS
<1>2. PICK m \in NextLeg(s) : Start(m, CancelAndPlace(oe[l].order, Size))
  BY <1>1 DEF Replace
<1>3. m \in LegsOf(s) /\ oe[m].st = "new"
  BY <1>2 DEF NextLeg, LegsOf, Range
<1>4. m \in OrderLegs /\ m \in Legs /\ call \in [Legs -> CallType] /\ oe' = oe /\ ret' = ret /\ Idle(m)
  BY <1>3, SlotFacts, LegFacts DEF Replace, Quiet, LegView, Inv, AdapterTypes
<1>5. call'[m].op = "replace" /\ \A k \in OrderLegs \ {m} : call'[k] = call[k]
  BY <1>2, <1>4, LegFacts DEF Start, CancelAndPlace, NoCall
<1>6. oe[m].order = None /\ LegPhase(m) = "idle" /\ oe[m].close = "none" /\ LegOrder(m) = ret[m].order
  BY <1>3, <1>4, FreshLeg DEF Idle
<1>7. LegPhase(m)' = "idle" /\ LegOrder(m)' = ret[m].order
  BY <1>3, <1>4, <1>5, <1>6 DEF LegPhase, LegGaveUp, LegOrder
<1>8. \A k \in OrderLegs : Same(k)
  BY <1>4, <1>5, <1>6, <1>7, SameIs DEF Same
<1> QED BY <1>4, <1>8 DEF OneMoves, Still, LegView, ActiveOpen

LEMMA ReplaceFailedMoves ==
  ASSUME LegView, NEW s \in Slots, ReplaceFailed(s)
  PROVE  OneMoves
<1>1. PICK m : m = slot[s].other
  OBVIOUS
<1>2. slot[s].at = "replace" /\ ret[m].kind \in {"throttled", "failed"} /\ Take(m) /\ oe' = oe /\ call' = call
  BY <1>1 DEF ReplaceFailed, At
<1>3. m \in OrderLegs /\ m \in Legs /\ oe[m].st = "new" /\ ret \in [Legs -> RetType] /\ ret[m].order = None
  BY <1>1, <1>2, SlotState, LegFacts DEF LegView, Inv, LegsInv, SlotInv, AdapterTypes, RetNamed
<1>4. ret'[m] = NoRet /\ \A k \in OrderLegs \ {m} : ret'[k] = ret[k]
  BY <1>2, <1>3, LegFacts DEF Take
<1>5. oe[m].order = None /\ LegPhase(m) = "idle" /\ oe[m].close = "none" /\ LegOrder(m) = None
  BY <1>2, <1>3, FreshLeg
<1>6. LegPhase(m)' = "idle" /\ LegOrder(m)' = None
  BY <1>2, <1>3, <1>4, <1>5, NullTypes DEF LegPhase, LegGaveUp, LegOrder
<1>7. \A k \in OrderLegs : Same(k)
  BY <1>2, <1>4, <1>5, <1>6, SameIs DEF Same
<1> QED BY <1>2, <1>7 DEF OneMoves, Still, LegView, ActiveOpen

\* The order is adopted: its leg learns of it, and nothing is seen of the one replaced.
LEMMA ReplaceDoneMoves ==
  ASSUME LegView, NEW s \in Slots, ReplaceDone(s)
  PROVE  OneMoves
<1>1. PICK m, l : m = slot[s].other /\ l = slot[s].leg
  OBVIOUS
<1>2. /\ slot[s].at = "replace" /\ ret[m].kind = "ok" /\ oe' = [oe EXCEPT ![m] = Adopted(ret[m]), ![l].doing = "settle"]
      /\ Take(m) /\ Start(l, OrderStatus(oe[l].order))
  BY <1>1 DEF ReplaceDone, At
<1>3. SlotInv(s) /\ m \in LegsOf(s) /\ l \in LegsOf(s) /\ oe[l].st = "ACTIVE" /\ oe[l].order # None /\ oe[m].st = "new"
  BY <1>1, <1>2 DEF LegView, Inv, LegsInv, SlotInv
<1>4. /\ m \in OrderLegs /\ l \in OrderLegs /\ m # l /\ Replacing(m)
      /\ oe \in [OrderLegs -> OeType] /\ ret \in [Legs -> RetType] /\ call \in [Legs -> CallType] /\ ret[m] \in RetType
      /\ call[m].op = "none" /\ oe[l] \in OeType /\ oe[l].close = "none"
  BY <1>1, <1>2, <1>3, SlotFacts, ViewFacts DEF LegView, Inv, AdapterTypes, LegTypes, Replacing
<1>5. ret[m].order # None
  BY <1>2, <1>4, LegState DEF LegView, Inv, LegsInv
<1>6. /\ Adopted(ret[m]).st = "ACTIVE" /\ Adopted(ret[m]).close = "none" /\ Adopted(ret[m]).order = ret[m].order
      /\ Adopted(ret[m]).rec \in Nat
  <2> DEFINE e == [OeFresh EXCEPT !.st = "ACTIVE"]
  <2>1. e \in OeType /\ e.st = "ACTIVE" /\ e.close = "none"
    BY FreshIs DEF OeType, OeStates
  <2>2. Adopted(ret[m]) = Ingested(e, ret[m])
    BY DEF Adopted
  <2> HIDE DEF e
  <2> QED BY <1>4, <2>1, <2>2, IngestedIs DEF OeType
<1>7. /\ oe'[m] = Adopted(ret[m]) /\ oe'[l] = [oe[l] EXCEPT !.doing = "settle"]
      /\ \A k \in OrderLegs \ {m, l} : oe'[k] = oe[k] /\ call'[k] = call[k] /\ ret'[k] = ret[k]
  BY <1>2, <1>4, LegFacts DEF Take, Start
<1>8. Moves(m)
  <2>1. LegPhase(m) = "working" /\ LegOrder(m) = ret[m].order /\ oe[m].rec = 0
    BY <1>2, <1>3, <1>4, FreshLeg
  <2>2. ~LegGaveUp(m)' /\ oe'[m].st = "ACTIVE" /\ oe'[m].order # None
    BY <1>5, <1>6, <1>7 DEF LegGaveUp
  <2>3. LegPhase(m)' = "working" /\ LegOrder(m)' = ret[m].order
    BY <1>6, <1>7, <2>2 DEF LegPhase, LegOrder
  <2> QED BY <1>5, <1>6, <1>7, <2>1, <2>2, <2>3 DEF Moves, Learns
<1>9. Still(l)
  <2>1. /\ oe'[l].st = "ACTIVE" /\ oe'[l].close = "none" /\ oe'[l].order = oe[l].order /\ oe'[l].rec = oe[l].rec
    BY <1>3, <1>4, <1>7, DoingIs DEF OeDoing
  <2>2. LegPhase(l) = "working" /\ LegOrder(l) = oe[l].order
    BY <1>3, <1>4 DEF LegPhase, LegGaveUp, LegOrder
  <2>3. LegPhase(l)' = "working" /\ LegOrder(l)' = oe[l].order
    BY <1>3, <2>1 DEF LegPhase, LegGaveUp, LegOrder
  <2> QED BY <2>1, <2>2, <2>3 DEF Still, Same
<1>10. \A k \in OrderLegs \ {m, l} : Still(k)
  BY <1>7, SameIs DEF Still, LegView, ActiveOpen
<1> QED BY <1>4, <1>8, <1>9, <1>10 DEF OneMoves

LEMMA SlotMoves ==
  ASSUME LegView, NEW s \in Slots, SlotStep(s)
  PROVE  OneMoves
<1>1. /\ slot[s].at \in {"spawn", "settle"} => slot[s].other \in OrderLegs
      /\ slot[s].at \in {"stop", "fallback"} => slot[s].leg \in OrderLegs
      /\ slot[s].leg # None => slot[s].leg \in OrderLegs
      /\ LegsOf(s) \subseteq OrderLegs /\ NextLeg(s) \subseteq LegsOf(s)
  BY SlotFacts DEF LegView, Inv, LegsInv, SlotInv, NextLeg, LegsOf, Range
<1>2. CASE TickExecutors(s) \/ Quote(s) \/ Quoted(s) \/ Stop(s) \/ Stopping(s)
  <2>1. \E l \in OrderLegs : OeStep(l)
    BY <1>1, <1>2 DEF TickExecutors, Quote, Quoted, Stop, Stopping, At, OeStep
  <2> QED BY <2>1, StepMoves
<1>3. CASE Settle(s)
  BY <1>1, <1>3, StepMoves DEF Settle, At
<1>4. CASE Release(s)
  BY <1>4, SameIs DEF Release, OneMoves, Still, LegView, ActiveOpen
<1> QED BY <1>2, <1>3, <1>4, ReplaceMoves, ReplaceFailedMoves, ReplaceDoneMoves DEF SlotStep

LEMMA PositionMoves ==
  ASSUME LegView, NEW l \in PositionLegs, PeStep(l), UNCHANGED oe
  PROVE  OneMoves
<1>1. l \in Legs /\ l \notin OrderLegs /\ PeSteps(l)
  BY PeStepIs, LegFacts, SessionsAssumption DEF LegView, Inv
<1>2. \A k \in OrderLegs : call'[k] = call[k] /\ ret'[k] = ret[k]
  BY <1>1, OwnStep, LegFacts DEF PeSteps, PeQuiet, adapterVars, LegView, Inv
<1> QED BY <1>2, SameIs DEF OneMoves, Still, LegView, ActiveOpen

-----------------------------------------------------------------------------
(* A step of an executor is a step of the abstract legs.                     *)

\* The order of a leg is its own, and was sent.
LEMMA OrderOwned ==
  ASSUME LegView, NEW l \in OrderLegs
  PROVE  /\ LegOrder(l) \in Sent \cup {None} /\ (LegOrder(l) # None => LegOrder(l)[1] = l)
         /\ None \notin Sent /\ None \notin book
<1>1. None \notin Sent /\ None \notin book
  BY OrderFacts DEF LegView, Inv, AdapterTypes, Sent
<1>2. CASE oe[l].order # None
  BY <1>1, <1>2, ViewFacts DEF LegInv, LegCounts
<1>3. CASE oe[l].order = None
  <2>1. LegOrder(l) = ret[l].order
    BY <1>3, ViewFacts
  <2>2. CASE ret[l].kind # "ok"
    BY <1>1, <2>1, <2>2, ViewFacts
  <2>3. CASE ret[l].kind = "ok"
    <3>1. oe[l].doing \in {"none", "create"} /\ ~Idle(l)
      BY <1>3, <2>3, ViewFacts DEF LegInv, LegLives, Idle
    <3>2. Placing(l)
      BY <3>1, ViewFacts DEF LegInv, LegCalls
    <3>3. call[l].op = "none"
      BY <2>3, ViewFacts
    <3> QED BY <1>1, <2>1, <2>3, <3>2, <3>3 DEF Placing
  <2> QED BY <2>2, <2>3
<1> QED BY <1>1, <1>2, <1>3

\* A leg that settled has nothing on the book and counted every unit: what it saw of its order is final.
LEMMA LearnStep ==
  ASSUME LegView, Inv', NEW l \in PromptLegs, Learns(l), \A k \in OrderLegs \ {l} : Same(k), UNCHANGED <<book, filled>>
  PROVE  Leg!Learn(l)
<1>1. l \in OrderLegs /\ PromptLegs \subseteq OrderLegs
  BY DEF PromptLegs
<1>2. PICK o : o = LegOrder(l) /\ o # None /\ LegOrder(l)' = o /\ oe'[l].order = o
  BY DEF Learns
<1>3. oe[l].rec \in Nat /\ oe'[l].rec \in Nat
  BY <1>1 DEF LegView, Inv, LegTypes, OeType
<1>4. oe'[l].rec <= filled[o] /\ filled[o] \in Nat
  <2>1. LegCounts(l)' /\ o \in Orders
    BY <1>1, <1>2, OrderOwned DEF Inv, LegsInv, LegInv, Sent
  <2> QED BY <1>2, <2>1 DEF LegCounts, TrueOf, LegView, Inv, AdapterTypes
<1>5. LegPhase(l)' = "settled" => o \notin book /\ oe'[l].rec = filled[o]
  <2> SUFFICES ASSUME LegPhase(l)' = "settled" PROVE o \notin book /\ oe'[l].rec = filled[o]
    OBVIOUS
  <2>1. "lag" \notin Faults[l] /\ LegCounts(l)' /\ LegLives(l)'
    BY <1>1 DEF PromptLegs, Inv, LegsInv, LegInv
  <2>2. ~LegGaveUp(l)' /\ oe'[l].st \in {"TERMINATED", "pruned"}
    BY DEF LegPhase
  <2>3. ~MayStillRest(oe[l])'
    BY <2>1, <2>2 DEF LegGaveUp, LegLives
  <2>4. oe'[l].seen \in Terminal
    BY <1>2, <2>3 DEF MayStillRest
  <2> QED BY <1>2, <2>1, <2>4 DEF LegCounts, TrueOf
<1>6. oe'[l].rec \in oe[l].rec..filled[o]
  BY <1>3, <1>4 DEF Learns
<1>7. \A k \in PromptLegs : LegOrder(k)' = LegOrder(k) /\ (k # l => LegPhase(k)' = LegPhase(k) /\ oe'[k].rec = oe[k].rec)
  BY <1>1 DEF Learns, Same
<1>8. [k \in PromptLegs |-> oe'[k].rec] = [[k \in PromptLegs |-> oe[k].rec] EXCEPT ![l] = oe'[l].rec]
  BY <1>7
<1>9. [k \in PromptLegs |-> LegPhase(k)'] = [[k \in PromptLegs |-> LegPhase(k)] EXCEPT ![l] = LegPhase(l)']
  BY <1>7
<1>10. /\ [k \in PromptLegs |-> LegOrder(k)' \in book'] = [k \in PromptLegs |-> LegOrder(k) \in book]
       /\ [k \in PromptLegs |-> IF LegOrder(k)' = None THEN 0 ELSE filled'[LegOrder(k)']]
          = [k \in PromptLegs |-> IF LegOrder(k) = None THEN 0 ELSE filled[LegOrder(k)]]
  BY <1>7
<1>11. /\ LegPhase(l) \in {"working", "given_up"}
       /\ LegPhase(l)' \in {LegPhase(l), "given_up"} \/ (LegPhase(l) = "working" /\ LegPhase(l)' = "settled")
  BY DEF Learns
<1>12. LegPhase(l)' = LegPhase(l) => [k \in PromptLegs |-> LegPhase(k)'] = [k \in PromptLegs |-> LegPhase(k)]
  BY <1>7
<1> QED BY <1>2, <1>5, <1>6, <1>8, <1>9, <1>10, <1>11, <1>12 DEF Leg!Learn

LEMMA DeclineStep ==
  ASSUME NEW l \in PromptLegs, Declines(l), \A k \in OrderLegs \ {l} : Same(k), UNCHANGED <<book, filled>>
  PROVE  Leg!Decline(l)
<1>1. \A k \in PromptLegs : /\ LegOrder(k)' = LegOrder(k) /\ oe'[k].rec = oe[k].rec
                            /\ k # l => LegPhase(k)' = LegPhase(k)
  BY DEF Declines, Same, PromptLegs
<1>2. [k \in PromptLegs |-> LegPhase(k)'] = [[k \in PromptLegs |-> LegPhase(k)] EXCEPT ![l] = "given_up"]
  BY <1>1 DEF Declines
<1> QED BY <1>1, <1>2 DEF Declines, Leg!Decline

\* What is seen of the prompt legs alone, unchanged.
LEMMA StutterStep ==
  ASSUME \A k \in PromptLegs : Same(k) /\ (LegOrder(k) \in book' <=> LegOrder(k) \in book)
                               /\ (LegOrder(k) # None => filled'[LegOrder(k)] = filled[LegOrder(k)])
  PROVE  UNCHANGED Leg!vars
<1>1. \A k \in PromptLegs : /\ LegPhase(k)' = LegPhase(k) /\ LegOrder(k)' = LegOrder(k) /\ oe'[k].rec = oe[k].rec
                            /\ LegOrder(k)' \in book' <=> LegOrder(k) \in book
  BY DEF Same
<1> QED BY <1>1 DEF Leg!vars

LEMMA MovesImplement ==
  ASSUME LegView, Inv', OneMoves, UNCHANGED <<book, filled>>
  PROVE  [Leg!Next]_(Leg!vars)
<1>1. CASE \A k \in OrderLegs : Same(k)
  BY <1>1, StutterStep DEF PromptLegs
<1>2. CASE \E m \in OrderLegs : Moves(m) /\ \A k \in OrderLegs \ {m} : Same(k)
  <2>1. PICK m \in OrderLegs : Moves(m) /\ \A k \in OrderLegs \ {m} : Same(k)
    BY <1>2
  <2>2. CASE m \notin PromptLegs
    BY <2>1, <2>2, StutterStep DEF PromptLegs
  <2>3. CASE m \in PromptLegs /\ Same(m)
    BY <1>1, <2>1, <2>3
  <2>4. CASE m \in PromptLegs /\ Learns(m)
    BY <2>1, <2>4, LearnStep DEF Leg!Next
  <2>5. CASE m \in PromptLegs /\ Declines(m)
    BY <2>1, <2>5, DeclineStep DEF Leg!Next
  <2> QED BY <2>1, <2>2, <2>3, <2>4, <2>5 DEF Moves
<1> QED BY <1>1, <1>2 DEF OneMoves, Still

-----------------------------------------------------------------------------
(* A step of a call or of the venue is a step of the abstract legs.          *)

\* Orders sent before trade nothing in a call, and only the order it names leaves the book; a new one rests.
VenueEffect(l) ==
    /\ \A o \in Sent : filled'[o] = filled[o] /\ (o \in book' => o \in book) /\ (o \in book /\ o # call[l].order => o \in book')
    /\ Sent' # Sent /\ ~call[l].market => NextOrder(l) \in book' /\ filled'[NextOrder(l)] = 0

LEMMA CallOnVenue ==
  ASSUME AdapterTypes, NEW l \in Legs, AdapterStep(l)
  PROVE  VenueEffect(l)
<1>0. Sent \subseteq Orders
  BY DEF Sent
<1>1. ASSUME NEW n \in Nat, NEW gone \in SUBSET {call[l].order}, OnVenue(l, n, gone), ~call[l].market => n = 0
      PROVE  VenueEffect(l)
  <2>1. /\ NextOrder(l) \notin Sent /\ filled'[NextOrder(l)] = n /\ \A o \in Orders \ {NextOrder(l)} : filled'[o] = filled[o]
        /\ book' = (book \ gone) \cup (IF call[l].market THEN {} ELSE {NextOrder(l)})
    BY <1>1, OnVenueTypes
  <2> QED BY <1>0, <1>1, <2>1 DEF VenueEffect
<1>2. ASSUME UNCHANGED <<placed, filled>>, book' \in {book, book \ {call[l].order}} PROVE VenueEffect(l)
  BY <1>2 DEF VenueEffect, Sent
<1>3. CASE PlaceAccepted(l) \/ PlaceUnanswered(l)
  <2>1. OnVenue(l, Crossed(l), {}) /\ Crossed(l) \in Nat /\ (~call[l].market => Crossed(l) = 0)
    <3>1. call[l].size \in Nat
      BY DEF AdapterTypes, CallType
    <3> QED BY <1>3, <3>1, CrossedTypes DEF PlaceAccepted, PlaceUnanswered
  <2> QED BY <1>1, <2>1
<1>4. CASE Replaced(l) \/ ReplaceUnanswered(l)
  <2>1. PICK gone \in SUBSET {call[l].order} : OnVenue(l, 0, gone)
    BY <1>4 DEF Replaced, ReplaceUnanswered
  <2> QED BY <1>1, <2>1
<1>5. CASE Cancelled(l) \/ CancelNotConfirmed(l)
  BY <1>2, <1>5 DEF Cancelled, CancelNotConfirmed
<1>6. CASE PlacedFills(l) \/ PlaceRejected(l) \/ PlaceThrottled(l) \/ ReplaceRejected(l) \/ ReplaceThrottled(l)
           \/ CancelVerified(l) \/ CancelRefuted(l) \/ CancelUnknown(l)
  BY <1>2, <1>6 DEF PlacedFills, PlaceRejected, PlaceThrottled, ReplaceRejected, ReplaceThrottled, CancelVerified, CancelRefuted,
     CancelUnknown, venueVars
<1>7. CASE StatusCached(l) \/ StatusUnknown(l) \/ StatusBook(l) \/ HeldFills(l) \/ FinalFills(l) \/ StatusError(l)
  BY <1>2, <1>7 DEF StatusCached, StatusUnknown, StatusBook, HeldFills, FinalFills, StatusError, venueVars
<1> QED BY <1>3, <1>4, <1>5, <1>6, <1>7 DEF AdapterStep

\* The leg of a call sees its order open, or nothing.
Opens(l) == /\ LegPhase(l) = "idle" /\ LegPhase(l)' = "working" /\ oe'[l].rec = oe[l].rec
            /\ LegOrder(l) = None /\ LegOrder(l)' = NextOrder(l) /\ Sent' # Sent /\ ~call[l].market /\ oe[l].rec = 0

LEMMA CallOpens ==
  ASSUME LegView, NEW l \in OrderLegs, AdapterStep(l), UNCHANGED oe
  PROVE  Same(l) \/ Opens(l)
<1>1. l \in Legs /\ CallEffect(l)
  BY LegFacts, CallStep DEF LegView, Inv, AdapterInv
<1>2. CASE oe[l].order # None
  BY <1>2, SameIs
<1>3. CASE oe[l].order = None
  <2>1. ret[l].kind = "none" /\ call[l].op # "none" /\ ~Idle(l)
    BY <1>1 DEF CallEffect, Idle
  <2>2. oe[l].doing = "create" \/ (oe[l].doing = "none" /\ Replacing(l))
    BY <1>3, <2>1, ViewFacts DEF LegInv, LegLives, LegCalls
  <2>3. call[l].op \in {"place", "replace"} /\ ~call[l].market
    BY <2>1, <2>2, ViewFacts DEF LegInv, LegCalls, Placing
  <2>4. oe[l].st \in {"ACTIVE", "new"} /\ oe[l].close = "none"
    <3>1. CASE oe[l].doing = "create"
      BY <3>1, ViewFacts DEF LegInv, LegLives
    <3>2. CASE Replacing(l)
      <4>1. oe[l].st = "new"
        BY <3>2 DEF Replacing, LegView, Inv, LegsInv, SlotInv
      <4> QED BY <4>1, FreshLeg
    <3> QED BY <2>2, <3>1, <3>2
  <2>5. ~LegGaveUp(l) /\ ~LegGaveUp(l)' /\ oe[l].rec = 0
    BY <1>3, <2>4, ViewFacts DEF LegGaveUp, LegInv, LegCounts
  <2>6. LegPhase(l) = "idle" /\ LegOrder(l) = None
    BY <1>3, <2>1, <2>4, <2>5, ViewFacts DEF LegPhase
  <2>7. /\ LegPhase(l)' = (IF call'[l].op = "none" /\ ret'[l].kind = "ok" THEN "working" ELSE "idle")
        /\ LegOrder(l)' = ret'[l].order
    BY <1>3, <2>4, <2>5 DEF LegPhase, LegOrder
  <2>8. \/ ret'[l] = ret[l]
        \/ ret'[l].kind # "ok" /\ ret'[l].order = None
        \/ call'[l].op = "none" /\ ret'[l].kind = "ok" /\ ret'[l].order = NextOrder(l) /\ Sent' # Sent
    BY <1>1, <2>3, NullTypes DEF CallEffect
  <2>9. ret[l].order = None
    BY <2>1, ViewFacts
  <2> QED BY <2>1, <2>3, <2>5, <2>6, <2>7, <2>8, <2>9 DEF Same, Opens
<1> QED BY <1>2, <1>3

\* Whose order rests, when it changes for one leg or two.
LEMMA RestsChange ==
  ASSUME NEW P, NEW f \in [P -> BOOLEAN], NEW g \in [P -> BOOLEAN], NEW x \in P, NEW b \in BOOLEAN,
         f[x] = b, \A k \in P \ {x} : f[k] = g[k]
  PROVE  f = [g EXCEPT ![x] = b]
  OBVIOUS

LEMMA RestsLeave ==
  ASSUME NEW x \in PromptLegs, LegOrder(x)' \notin book',
         \A k \in PromptLegs \ {x} : LegOrder(k)' \in book' <=> LegOrder(k) \in book
  PROVE  [k \in PromptLegs |-> LegOrder(k)' \in book'] = [[k \in PromptLegs |-> LegOrder(k) \in book] EXCEPT ![x] = FALSE]
<1> DEFINE f == [k \in PromptLegs |-> LegOrder(k)' \in book']
           g == [k \in PromptLegs |-> LegOrder(k) \in book]
<1>1. LegOrder(x)' \notin book' /\ \A k \in PromptLegs \ {x} : LegOrder(k)' \in book' <=> LegOrder(k) \in book
  OBVIOUS
<1>2. f \in [PromptLegs -> BOOLEAN] /\ g \in [PromptLegs -> BOOLEAN]
      /\ \A k \in PromptLegs : (f[k] <=> LegOrder(k)' \in book') /\ (g[k] <=> LegOrder(k) \in book)
  <2>1. \A k \in PromptLegs : (LegOrder(k)' \in book') \in BOOLEAN /\ (LegOrder(k) \in book) \in BOOLEAN
    OBVIOUS
  <2>2. f \in [PromptLegs -> BOOLEAN]
    BY <2>1, Zenon
  <2>3. g \in [PromptLegs -> BOOLEAN]
    BY <2>1, Zenon
  <2>4. \A k \in PromptLegs : (f[k] <=> LegOrder(k)' \in book') /\ (g[k] <=> LegOrder(k) \in book)
    BY Zenon
  <2> QED BY <2>2, <2>3, <2>4
<1> HIDE DEF f, g
<1>3. f[x] = FALSE /\ \A k \in PromptLegs \ {x} : f[k] = g[k]
  BY <1>1, <1>2
<1>4. f = [g EXCEPT ![x] = FALSE]
  BY <1>2, <1>3, RestsChange
<1> QED BY <1>4 DEF f, g

\* The order of one leg leaves the book, and no other is touched.
LEMMA LeaveStep ==
  ASSUME LegView, NEW x \in PromptLegs, LegOrder(x) \in book, LegOrder(x) \notin book',
         \A k \in PromptLegs : Same(k) /\ (LegOrder(k) # None => filled'[LegOrder(k)] = filled[LegOrder(k)]),
         \A k \in PromptLegs \ {x} : LegOrder(k) \in book' <=> LegOrder(k) \in book
  PROVE  Leg!Leave(x)
<1>1. \A k \in PromptLegs : LegPhase(k)' = LegPhase(k) /\ LegOrder(k)' = LegOrder(k) /\ oe'[k].rec = oe[k].rec
  BY DEF Same
<1>2. [k \in PromptLegs |-> LegOrder(k)' \in book'] = [[k \in PromptLegs |-> LegOrder(k) \in book] EXCEPT ![x] = FALSE]
  BY <1>1, RestsLeave
<1>3. [k \in PromptLegs |-> IF LegOrder(k)' = None THEN 0 ELSE filled'[LegOrder(k)']]
      = [k \in PromptLegs |-> IF LegOrder(k) = None THEN 0 ELSE filled[LegOrder(k)]]
  BY <1>1
<1> QED BY <1>1, <1>2, <1>3 DEF Leg!Leave

LEMMA OpenStep ==
  ASSUME NEW l \in PromptLegs, Opens(l), NextOrder(l) # None, NextOrder(l) \in book', filled'[NextOrder(l)] = 0, None \notin book,
         \A k \in PromptLegs \ {l} : /\ Same(k) /\ (LegOrder(k) # None => filled'[LegOrder(k)] = filled[LegOrder(k)])
                                     /\ LegOrder(k) \in book' <=> LegOrder(k) \in book
  PROVE  Leg!Open(l)
<1>1. \A k \in PromptLegs : /\ oe'[k].rec = oe[k].rec
                            /\ k # l => LegPhase(k)' = LegPhase(k) /\ LegOrder(k)' = LegOrder(k)
  BY DEF Opens, Same
<1>2. [k \in PromptLegs |-> LegPhase(k)'] = [[k \in PromptLegs |-> LegPhase(k)] EXCEPT ![l] = "working"]
  BY <1>1 DEF Opens
<1>3. [k \in PromptLegs |-> LegOrder(k)' \in book'] = [[k \in PromptLegs |-> LegOrder(k) \in book] EXCEPT ![l] = TRUE]
  <2> DEFINE f == [k \in PromptLegs |-> LegOrder(k)' \in book']
             g == [k \in PromptLegs |-> LegOrder(k) \in book]
  <2>1. LegOrder(l)' \in book' /\ \A k \in PromptLegs \ {l} : LegOrder(k)' \in book' <=> LegOrder(k) \in book
    BY <1>1 DEF Opens
  <2>2. f \in [PromptLegs -> BOOLEAN] /\ g \in [PromptLegs -> BOOLEAN]
        /\ \A k \in PromptLegs : (f[k] <=> LegOrder(k)' \in book') /\ (g[k] <=> LegOrder(k) \in book)
    <3>1. \A k \in PromptLegs : (LegOrder(k)' \in book') \in BOOLEAN /\ (LegOrder(k) \in book) \in BOOLEAN
      OBVIOUS
    <3>2. f \in [PromptLegs -> BOOLEAN]
      BY <3>1, Zenon
    <3>3. g \in [PromptLegs -> BOOLEAN]
      BY <3>1, Zenon
    <3>4. \A k \in PromptLegs : (f[k] <=> LegOrder(k)' \in book') /\ (g[k] <=> LegOrder(k) \in book)
      BY Zenon
    <3> QED BY <3>2, <3>3, <3>4
  <2> HIDE DEF f, g
  <2>3. f[l] = TRUE /\ \A k \in PromptLegs \ {l} : f[k] = g[k]
    BY <2>1, <2>2
  <2>4. f = [g EXCEPT ![l] = TRUE]
    BY <2>2, <2>3, RestsChange
  <2> QED BY <2>4 DEF f, g
<1>4. [k \in PromptLegs |-> IF LegOrder(k)' = None THEN 0 ELSE filled'[LegOrder(k)']]
      = [k \in PromptLegs |-> IF LegOrder(k) = None THEN 0 ELSE filled[LegOrder(k)]]
  BY <1>1 DEF Opens
<1> QED BY <1>1, <1>2, <1>3, <1>4 DEF Opens, Leg!Open

LEMMA ReplaceStep ==
  ASSUME NEW l \in PromptLegs, Opens(l), NextOrder(l) # None, NextOrder(l) \in book', filled'[NextOrder(l)] = 0, None \notin book,
         NEW x \in PromptLegs \ {l}, LegOrder(x) \in book, LegOrder(x) \notin book',
         \A k \in PromptLegs \ {l} : Same(k) /\ (LegOrder(k) # None => filled'[LegOrder(k)] = filled[LegOrder(k)]),
         \A k \in PromptLegs \ {l, x} : LegOrder(k) \in book' <=> LegOrder(k) \in book
  PROVE  Leg!Replace(x, l)
<1>1. \A k \in PromptLegs : /\ oe'[k].rec = oe[k].rec
                            /\ k # l => LegPhase(k)' = LegPhase(k) /\ LegOrder(k)' = LegOrder(k)
  BY DEF Opens, Same
<1>2. [k \in PromptLegs |-> LegPhase(k)'] = [[k \in PromptLegs |-> LegPhase(k)] EXCEPT ![l] = "working"]
  BY <1>1 DEF Opens
<1>3. [k \in PromptLegs |-> LegOrder(k)' \in book']
      = [[k \in PromptLegs |-> LegOrder(k) \in book] EXCEPT ![x] = FALSE, ![l] = TRUE]
  <2> DEFINE f == [k \in PromptLegs |-> LegOrder(k)' \in book']
             g == [k \in PromptLegs |-> LegOrder(k) \in book]
  <2>1. /\ LegOrder(l)' \in book' /\ LegOrder(x)' \notin book'
        /\ \A k \in PromptLegs \ {l, x} : LegOrder(k)' \in book' <=> LegOrder(k) \in book
    BY <1>1 DEF Opens
  <2>2. f \in [PromptLegs -> BOOLEAN] /\ g \in [PromptLegs -> BOOLEAN]
        /\ \A k \in PromptLegs : (f[k] <=> LegOrder(k)' \in book') /\ (g[k] <=> LegOrder(k) \in book)
    <3>1. \A k \in PromptLegs : (LegOrder(k)' \in book') \in BOOLEAN /\ (LegOrder(k) \in book) \in BOOLEAN
      OBVIOUS
    <3>2. f \in [PromptLegs -> BOOLEAN]
      BY <3>1, Zenon
    <3>3. g \in [PromptLegs -> BOOLEAN]
      BY <3>1, Zenon
    <3>4. \A k \in PromptLegs : (f[k] <=> LegOrder(k)' \in book') /\ (g[k] <=> LegOrder(k) \in book)
      BY Zenon
    <3> QED BY <3>2, <3>3, <3>4
  <2> HIDE DEF f, g
  <2>3. PICK h \in [PromptLegs -> BOOLEAN] : h = [g EXCEPT ![x] = FALSE]
    BY <2>2
  <2>4. h[x] = FALSE /\ \A k \in PromptLegs \ {x} : h[k] = g[k]
    BY <2>2, <2>3
  <2>5. f[l] = TRUE /\ \A k \in PromptLegs \ {l} : f[k] = h[k]
    BY <2>1, <2>2, <2>4
  <2>6. f = [h EXCEPT ![l] = TRUE]
    BY <2>2, <2>5, RestsChange
  <2> QED BY <2>3, <2>6 DEF f, g
<1>4. [k \in PromptLegs |-> IF LegOrder(k)' = None THEN 0 ELSE filled'[LegOrder(k)']]
      = [k \in PromptLegs |-> IF LegOrder(k) = None THEN 0 ELSE filled[LegOrder(k)]]
  BY <1>1 DEF Opens
<1> QED BY <1>1, <1>2, <1>3, <1>4 DEF Opens, Leg!Replace

LEMMA CallImplements ==
  ASSUME LegView, NEW l \in Legs, AdapterStep(l), UNCHANGED oe
  PROVE  [Leg!Next]_(Leg!vars)
<1>1. CallEffect(l) /\ VenueEffect(l) /\ AdapterTypes
  BY CallStep, CallOnVenue DEF LegView, Inv, AdapterInv
<1>2. \A k \in PromptLegs \ {l} : Same(k)
  <2>1. \A k \in PromptLegs \ {l} : k \in OrderLegs /\ k \in Legs \ {l}
    BY LegFacts DEF PromptLegs
  <2> QED BY <1>1, <2>1, SameIs DEF CallEffect
<1>3. \A k \in PromptLegs : /\ k \in OrderLegs /\ LegOrder(k) \in Sent \cup {None} /\ None \notin Sent /\ None \notin book
                            /\ LegOrder(k) # None => LegOrder(k)[1] = k /\ filled'[LegOrder(k)] = filled[LegOrder(k)]
  BY <1>1, OrderOwned DEF PromptLegs, VenueEffect
<1>4. None \notin Orders /\ NextOrder(l) # None /\ None \notin book /\ None \notin book'
  <2>1. AdapterTypes' /\ None \notin Orders
    BY CallTypes, OrderFacts DEF LegView, Inv
  <2>2. NextOrder(l) \in Legs \X Nat
    BY <1>1 DEF NextOrder, AdapterTypes
  <2> QED BY <1>1, <2>1, <2>2, AdapterAssumption DEF AdapterTypes
<1>5. PICK o : o = call[l].order
  OBVIOUS
<1>6. \A k \in PromptLegs : LegOrder(k) # o \/ o \notin book \/ o \in book' => (LegOrder(k) \in book' <=> LegOrder(k) \in book)
  BY <1>1, <1>3, <1>4, <1>5 DEF VenueEffect
<1>7. CASE l \in PromptLegs /\ Opens(l)
  <2>1. NextOrder(l) \in book' /\ filled'[NextOrder(l)] = 0
    BY <1>1, <1>7 DEF Opens, VenueEffect
  <2>2. CASE \E x \in PromptLegs : LegOrder(x) = o /\ o \in book /\ o \notin book'
    <3>1. PICK x \in PromptLegs : LegOrder(x) = o /\ o \in book /\ o \notin book'
      BY <2>2
    <3>2. x # l
      BY <1>4, <1>7, <3>1 DEF Opens
    <3>3. \A k \in PromptLegs \ {l, x} : LegOrder(k) # o
      BY <1>3, <1>4, <3>1
    <3>4. Leg!Replace(x, l)
      BY <1>2, <1>3, <1>4, <1>6, <1>7, <2>1, <3>1, <3>2, <3>3, ReplaceStep
    <3> QED BY <1>7, <3>2, <3>4 DEF Leg!Next
  <2>3. CASE ~\E x \in PromptLegs : LegOrder(x) = o /\ o \in book /\ o \notin book'
    <3>1. Leg!Open(l)
      BY <1>2, <1>3, <1>4, <1>6, <1>7, <2>1, <2>3, OpenStep
    <3> QED BY <1>7, <3>1 DEF Leg!Next
  <2> QED BY <2>2, <2>3
<1>8. CASE \A k \in PromptLegs : Same(k)
  <2>1. CASE \E x \in PromptLegs : LegOrder(x) = o /\ o \in book /\ o \notin book'
    <3>1. PICK x \in PromptLegs : LegOrder(x) = o /\ o \in book /\ o \notin book'
      BY <2>1
    <3>2. \A k \in PromptLegs \ {x} : LegOrder(k) # o
      BY <1>3, <1>4, <3>1
    <3>3. Leg!Leave(x)
      BY <1>3, <1>6, <1>8, <3>1, <3>2, LeaveStep
    <3> QED BY <3>3 DEF Leg!Next
  <2>2. CASE ~\E x \in PromptLegs : LegOrder(x) = o /\ o \in book /\ o \notin book'
    BY <1>3, <1>6, <1>8, <2>2, StutterStep
  <2> QED BY <2>1, <2>2
<1>9. l \in PromptLegs => Same(l) \/ Opens(l)
  BY CallOpens DEF PromptLegs
<1> QED BY <1>2, <1>7, <1>8, <1>9

\* A unit of the order of one leg trades; the last one takes it off the book.
LEMMA TradeStep ==
  ASSUME LegView, NEW x \in PromptLegs, LegOrder(x) \in book, VenueFill(LegOrder(x)), \A k \in PromptLegs : Same(k)
  PROVE  Leg!Trade(x)
<1>1. PICK o : o = LegOrder(x)
  OBVIOUS
<1>2. /\ x \in OrderLegs /\ o \in Sent /\ o[1] = x /\ o # None
      /\ \A k \in PromptLegs \ {x} : LegOrder(k) # o
  BY <1>1, OrderOwned DEF PromptLegs
<1>3. /\ o \in Orders /\ filled[o] \in Nat /\ amount[o] = Size /\ filled[o] < Size
      /\ filled' = [filled EXCEPT ![o] = @ + 1] /\ book' \in {book, book \ {o}}
  BY <1>1, <1>2 DEF VenueFill, LegView, Inv, AdapterInv, Amounts, AdapterTypes, Sized, Sent
<1>4. \A k \in PromptLegs : /\ LegPhase(k)' = LegPhase(k) /\ LegOrder(k)' = LegOrder(k) /\ oe'[k].rec = oe[k].rec
                            /\ LegOrder(k) \in Orders \cup {None}
  BY OrderOwned DEF Same, PromptLegs, Sent
<1>5. [k \in PromptLegs |-> IF LegOrder(k)' = None THEN 0 ELSE filled'[LegOrder(k)']]
      = [[k \in PromptLegs |-> IF LegOrder(k) = None THEN 0 ELSE filled[LegOrder(k)]] EXCEPT ![x] = @ + 1]
  <2>1. filled'[o] = filled[o] + 1 /\ \A p \in Orders \ {o} : filled'[p] = filled[p]
    BY <1>3 DEF LegView, Inv, AdapterTypes
  <2>2. \A k \in PromptLegs \ {x} : (IF LegOrder(k)' = None THEN 0 ELSE filled'[LegOrder(k)'])
                                     = (IF LegOrder(k) = None THEN 0 ELSE filled[LegOrder(k)])
    BY <1>2, <1>4, <2>1
  <2>3. (IF LegOrder(x)' = None THEN 0 ELSE filled'[LegOrder(x)']) = (IF LegOrder(x) = None THEN 0 ELSE filled[LegOrder(x)]) + 1
    BY <1>1, <1>2, <1>4, <2>1
  <2> QED BY <2>2, <2>3
<1>6. \A k \in PromptLegs \ {x} : LegOrder(k) \in book' <=> LegOrder(k) \in book
  BY <1>2, <1>3
<1>7. \/ [k \in PromptLegs |-> LegOrder(k)' \in book'] = [k \in PromptLegs |-> LegOrder(k) \in book]
      \/ [k \in PromptLegs |-> LegOrder(k)' \in book'] = [[k \in PromptLegs |-> LegOrder(k) \in book] EXCEPT ![x] = FALSE]
  <2>1. CASE o \in book'
    BY <1>1, <1>4, <1>6, <2>1
  <2>2. CASE o \notin book'
    BY <1>1, <1>4, <1>6, <2>2, RestsLeave
  <2> QED BY <2>1, <2>2
<1>8. /\ [k \in PromptLegs |-> LegPhase(k)'] = [k \in PromptLegs |-> LegPhase(k)]
      /\ [k \in PromptLegs |-> oe'[k].rec] = [k \in PromptLegs |-> oe[k].rec]
  BY <1>4
<1>9. LegOrder(x) \in book /\ (IF LegOrder(x) = None THEN 0 ELSE filled[LegOrder(x)]) < Size
  BY <1>1, <1>2, <1>3
<1> QED BY ONLY x \in PromptLegs, <1>5, <1>7, <1>8, <1>9 DEF Leg!Trade

LEMMA VenueImplements ==
  ASSUME LegView, VenueStep, UNCHANGED oe
  PROVE  [Leg!Next]_(Leg!vars)
<1>1. UNCHANGED <<call, ret>>
  BY DEF VenueStep, BeginCycle, VenueFill, VenueDrop, FeedCatchesUp, StreamEvent, calls
<1>2. \A k \in PromptLegs : Same(k)
  BY <1>1, SameIs DEF PromptLegs
<1>3. CASE UNCHANGED <<book, filled>>
  BY <1>2, <1>3, StutterStep
<1>4. CASE \E o \in Orders : VenueFill(o) \/ VenueDrop(o)
  <2>1. PICK o \in Orders : VenueFill(o) \/ VenueDrop(o)
    BY <1>4
  <2>2. /\ o \in book /\ filled \in [Orders -> Nat] /\ book' \in {book, book \ {o}}
        /\ filled' = filled \/ filled' = [filled EXCEPT ![o] = @ + 1]
    BY <2>1 DEF VenueFill, VenueDrop, LegView, Inv, AdapterTypes
  <2>3. \A k \in PromptLegs : LegOrder(k) \in Orders \cup {None} /\ (LegOrder(k) # None => LegOrder(k)[1] = k)
    BY OrderOwned DEF PromptLegs, Sent
  <2>4. CASE \A k \in PromptLegs : LegOrder(k) # o
    BY <1>2, <2>2, <2>3, <2>4, StutterStep
  <2>5. CASE \E x \in PromptLegs : LegOrder(x) = o
    <3>1. PICK x \in PromptLegs : LegOrder(x) = o
      BY <2>5
    <3>2. \A k \in PromptLegs \ {x} : LegOrder(k) # o
      BY <2>2, <2>3, <3>1, OrderOwned DEF PromptLegs
    <3>3. CASE VenueFill(o)
      BY <1>2, <2>2, <3>1, <3>3, TradeStep DEF Leg!Next
    <3>4. CASE VenueDrop(o)
      <4>1. book' = book \ {o} /\ filled' = filled
        BY <3>4 DEF VenueDrop
      <4>2. Leg!Leave(x)
        BY <1>2, <2>2, <3>1, <3>2, <4>1, LeaveStep
      <4> QED BY <4>2 DEF Leg!Next
    <3> QED BY <2>1, <3>3, <3>4
  <2> QED BY <2>4, <2>5
<1> QED BY <1>3, <1>4 DEF VenueStep, BeginCycle, FeedCatchesUp, StreamEvent, venueVars

-----------------------------------------------------------------------------
(* The theorem.                                                              *)

LEMMA InitView == Init => LegView /\ Leg!Init
<1> SUFFICES ASSUME Init PROVE LegView /\ Leg!Init
  OBVIOUS
<1>1. Inv
  BY InitInv
<1>2. /\ placed = [l \in Legs |-> 0] /\ book = {} /\ call = [l \in Legs |-> NoCall] /\ ret = [l \in Legs |-> NoRet]
      /\ oe = [l \in OrderLegs |-> OeFresh]
  BY DEF Init, AdapterInit, OeInit
<1>3. Sized
  BY <1>2, OrderFacts, AdapterAssumption DEF Sized, Sent
<1>4. RetNamed /\ ActiveOpen
  BY <1>2, NullTypes, FreshIs DEF RetNamed, ActiveOpen
<1>5. LegView
  BY <1>1, <1>3, <1>4 DEF LegView
<1>6. \A l \in PromptLegs : LegPhase(l) = "idle" /\ LegOrder(l) = None /\ oe[l].rec = 0 /\ LegOrder(l) \notin book
  <2>1. TAKE l \in PromptLegs
  <2>2. l \in OrderLegs /\ l \in Legs /\ ret[l] = NoRet /\ oe[l].st = "new"
    BY <1>2, LegFacts, FreshIs DEF PromptLegs
  <2> QED BY <1>2, <1>5, <2>2, FreshLeg, NullTypes
<1>7. Leg!Init
  <2>1. \A l \in PromptLegs : (LegOrder(l) \in book) = FALSE
    BY <1>6
  <2>2. [l \in PromptLegs |-> LegOrder(l) \in book] = [l \in PromptLegs |-> FALSE]
    BY <2>1, Zenon
  <2> QED BY <1>6, <2>2 DEF Leg!Init
<1> QED BY <1>5, <1>7

LEMMA ViewStays ==
  ASSUME LegView, Inv', Sized', RetNamed', ActiveOpen'
  PROVE  LegView'
  BY DEF LegView

\* Executors place orders of no other size, and take what their calls return.
LEMMA NextView ==
  ASSUME LegView, [Next]_vars
  PROVE  LegView' /\ [Leg!Next]_(Leg!vars)
<1>1. Inv'
  BY NextInv DEF LegView
<1>2. session \subseteq Legs
  BY SessionsAssumption DEF LegView, Inv, LegTypes
<1>3. ret \in [Legs -> RetType] /\ AdapterTypes
  BY DEF LegView, Inv, AdapterTypes
\* A step of an executor.
<1>4. ASSUME OneMoves, UNCHANGED <<placed, amount, book, filled>>, UNCHANGED ret \/ \E l \in Legs : Take(l)
      PROVE  LegView' /\ [Leg!Next]_(Leg!vars)
  <2>1. Sized'
    BY <1>4 DEF LegView, Sized, Sent
  <2>2. RetNamed'
    BY <1>3, <1>4, TakeTypes, NullTypes DEF LegView, RetNamed
  <2>3. ActiveOpen'
    BY <1>4 DEF OneMoves, Moves, Still, ActiveOpen
  <2> QED BY <1>1, <1>4, <2>1, <2>2, <2>3, MovesImplement, ViewStays
<1>5. CASE \E l \in session : AdapterStep(l) /\ UNCHANGED <<oe, slot, pe>>
  <2>1. PICK l \in Legs : AdapterStep(l) /\ UNCHANGED oe
    BY <1>2, <1>5
  <2>2. CallEffect(l) /\ SentStable /\ NextOrder(l)[1] = l
    BY <2>1, CallStep DEF LegView, Inv, AdapterInv, NextOrder
  <2>3. Sized'
    <3>1. ASSUME NEW o \in Sent', o[1] \in OrderLegs, o \notin Sent PROVE amount'[o] = Size
      <4>1. o = NextOrder(l) /\ l \in OrderLegs /\ call[l].op \in {"place", "replace"} /\ amount'[o] = call[l].size
        BY <2>2, <3>1 DEF CallEffect
      <4>2. ~Idle(l) /\ ret[l].kind = "none"
        BY <2>2 DEF CallEffect, Idle
      <4>3. oe[l].doing = "create" \/ Replacing(l)
        <5>1. oe[l].doing \notin Reading \cup Cancelling
          BY <4>1, <4>2, ViewFacts DEF LegInv, LegCalls, Awaiting, Asks, Cancels
        <5> QED BY <4>1, <4>2, <5>1, ViewFacts DEF LegInv, LegCalls, OeType, OeDoing, Reading, Cancelling
      <4> QED BY <4>1, <4>2, <4>3, ViewFacts DEF LegInv, LegCalls, Placing
    <3>2. \A o \in Sent : o[1] \in OrderLegs => amount'[o] = Size
      BY <2>2 DEF LegView, Sized, SentStable
    <3> QED BY <3>1, <3>2 DEF Sized
  <2>4. RetNamed'
    BY <2>2, NullTypes DEF LegView, RetNamed, CallEffect
  <2>5. ActiveOpen'
    BY <2>1 DEF LegView, ActiveOpen
  <2> QED BY <1>1, <2>1, <2>3, <2>4, <2>5, CallImplements, ViewStays
<1>6. CASE \E l \in session \cap (OrderLegs \ QuoteLegs) : OeStep(l) /\ UNCHANGED <<slot, pe>>
  <2>1. PICK l \in OrderLegs : OeStep(l) /\ l \in Legs
    BY <1>2, <1>6
  <2>2. UNCHANGED <<placed, amount, book, filled>> /\ (UNCHANGED ret \/ Take(l))
    BY <2>1 DEF OeStep, OeSpawn, OeSpawned, OeTick, OeTicked, OeStop, OeStopCancelled, OeStopped, OePrune, OeQuiet, venueVars
  <2> QED BY <1>4, <2>1, <2>2, StepMoves
<1>7. CASE \E s \in Slots : LegsOf(s) \subseteq session /\ SlotStep(s) /\ UNCHANGED pe
  <2>1. PICK s \in Slots : LegsOf(s) \subseteq session /\ SlotStep(s)
    BY <1>7
  <2>2. OneMoves
    BY <2>1, SlotMoves
  <2>3. UNCHANGED <<placed, amount, book, filled>> /\ (UNCHANGED ret \/ \E l \in LegsOf(s) : Take(l))
    <3>1. /\ slot[s].at \in {"spawn", "settle", "replace"} => slot[s].other \in LegsOf(s)
          /\ slot[s].at \in {"stop", "fallback"} => slot[s].leg \in LegsOf(s)
          /\ slot[s].leg # None => slot[s].leg \in LegsOf(s)
      BY DEF LegView, Inv, LegsInv, SlotInv
    <3> USE DEF OeQuiet, venueVars, At
    <3>2. CASE TickExecutors(s) \/ Quote(s) \/ Release(s) \/ Replace(s)
      BY <3>2 DEF TickExecutors, Quote, Release, Replace, OeTick, OeTicked, OePrune, OeSpawn
    <3>3. CASE Quoted(s) \/ Stop(s) \/ Stopping(s)
      BY <3>1, <3>3 DEF Quoted, Stop, Stopping, OeSpawned, OeStop, OeStopCancelled, OeStopped
    <3>4. CASE ReplaceFailed(s) \/ ReplaceDone(s) \/ Settle(s)
      BY <3>1, <3>4 DEF ReplaceFailed, ReplaceDone, Settle, OeSettle, OeSettleRead, OeSettleCancelled, OeSettleChecked
    <3> QED BY <2>1, <3>2, <3>3, <3>4 DEF SlotStep
  <2> QED BY <1>2, <1>4, <2>1, <2>2, <2>3
<1>8. CASE \E l \in session \cap PositionLegs : PeStep(l) /\ UNCHANGED <<oe, slot>>
  <2>1. PICK l \in PositionLegs : PeStep(l) /\ l \in Legs /\ UNCHANGED oe
    BY <1>2, <1>8
  <2>2. OneMoves /\ PeSteps(l)
    BY <2>1, PositionMoves, PeStepIs DEF LegView, Inv
  <2>3. UNCHANGED <<placed, amount, book, filled>> /\ (UNCHANGED ret \/ Take(l))
    BY <2>2 DEF PeSteps, PeQuiet, OwnCalls, venueVars
  <2> QED BY <1>4, <2>1, <2>2, <2>3
<1>9. CASE VenueStep /\ UNCHANGED <<oe, slot, pe>>
  <2>1. UNCHANGED <<placed, amount, ret>>
    BY <1>9 DEF VenueStep, BeginCycle, VenueFill, VenueDrop, FeedCatchesUp, StreamEvent, venueVars, calls
  <2>2. Sized' /\ RetNamed' /\ ActiveOpen'
    BY <1>9, <2>1 DEF LegView, Sized, Sent, RetNamed, ActiveOpen
  <2> QED BY <1>1, <1>9, <2>2, VenueImplements, ViewStays
<1>10. CASE UNCHANGED vars
  <2>1. UNCHANGED <<placed, amount, book, filled, call, ret, oe>>
    BY <1>10 DEF vars, adapterAll
  <2>2. Sized' /\ RetNamed' /\ ActiveOpen'
    BY <2>1 DEF LegView, Sized, Sent, RetNamed, ActiveOpen
  <2>3. UNCHANGED Leg!vars
    BY <2>1, SameIs, StutterStep DEF PromptLegs
  <2> QED BY <1>1, <2>2, <2>3, ViewStays
<1> QED BY <1>5, <1>6, <1>7, <1>8, <1>9, <1>10 DEF Next

\* An order leg keeps the promise of OrderLeg: it never says it settled while its order rests or a unit of it is not
\* counted, nothing trades or is counted after that, and a leg that cannot know says that it gave up, whatever the
\* venue and the reads of it do and however often its stop is retried.
THEOREM LegsImplemented == Spec => LegImplemented
<1>1. Init => LegView /\ Leg!Init
  BY InitView
<1>2. LegView /\ [Next]_vars => LegView' /\ [Leg!Next]_(Leg!vars)
  BY NextView
<1> QED BY <1>1, <1>2, PTL DEF Spec, LegImplemented, Leg!Spec

-----------------------------------------------------------------------------
(* A position leg that completed is flat. What that needs beyond Inv.        *)

\* What reduce-only orders sold.
Sells == Total(filled, reduce)

\* The orders of l the adapter was told of: those that close and those that open.
Known(l) == {o \in Sent \ lost : o[1] = l}
Exits(l) == Known(l) \cap reduce
Entries(l) == Known(l) \ reduce

\* What a call of l came back with.
Returned(l, o) == call[l].op = "none" /\ ret[l].kind = "ok" /\ ret[l].order = o
Refused(l) == call[l].op = "none" /\ ret[l].kind \in {"failed", "throttled"}
\* A call about order o is under way or came back.
Answering(l, ops, o) == \/ call[l].op \in ops /\ call[l].order = o
                        \/ call[l].op = "none" /\ ret[l].kind = "failed"
                        \/ Returned(l, o)

\* A closing order that came back filled closed what the entry opened.
SaysFilled(l, e) == ret[l].st # "none" /\ (ret[l].st = "FILLED" => e.eb <= Sells)

\* The call a position executor waits for.
PeWaits(l, e) ==
    /\ e.doing = "none" => Idle(l)
    /\ e.doing = "create" =>
          \/ call[l].op = "place" /\ ~call[l].market /\ ~call[l].exit
          \/ Refused(l)
          \/ \E o \in Entries(l) : Returned(l, o) /\ ret[l].st = "OPEN"
    /\ e.doing \in {"close", "escalate"} =>
          \/ call[l].op = "place" /\ call[l].exit /\ call[l].size = e.eb - e.xb
          \/ call[l].op = "placed_fills" /\ call[l].order \in Exits(l) /\ e.eb <= Sells
          \/ Refused(l)
          \/ \E o \in Exits(l) : Returned(l, o) /\ SaysFilled(l, e)
    /\ e.doing \in {"entry_status", "stop_status"} => Answering(l, Asks, e.entry)
    /\ e.doing = "stop_cancel" => Answering(l, Cancels, e.entry)
    /\ e.doing \in {"poll", "stop_close_status"} => Answering(l, Asks, e.exit) /\ (Returned(l, e.exit) => SaysFilled(l, e))
    /\ e.doing = "stop_close_cancel" => Answering(l, Cancels, e.exit) /\ (Returned(l, e.exit) => e.exit \notin book)

\* How far it is: a close has no other close order resting beside it, and one that completed sold its entry.
PeLives(e) ==
    /\ e.st = "new" => e = PeFresh
    /\ e.doing = "create" => e.pos = "OPENING" /\ e.entry = None
    /\ e.doing \in {"entry_status", "stop_cancel", "stop_status"} => e.pos = "OPENING" /\ e.entry # None
    /\ e.doing \in {"close", "escalate"} => e.pos = "CLOSING" /\ e.exit \notin book
    /\ e.doing \in {"poll", "stop_close_cancel", "stop_close_status"} => e.pos = "CLOSING" /\ e.exit # None
    /\ e.doing = "stop_close_status" /\ e.st = "ACTIVE" => e.exit \notin book
    /\ e.pos \in {"OPENING", "ACTIVE_POSITION"} => e.exit = None
    /\ e.close = "COMPLETED" => /\ e.st = "TERMINATED" /\ e.doing = "none" /\ e.pos # "OPENING"
                                /\ e.exit \notin book /\ e.eb <= Sells

\* What it recorded of its entry, all of it once the entry is over.
PeEntered(l, e) ==
    /\ e.entry = None => e.eb = 0 /\ e.pos = "OPENING"
    /\ e.entry # None => e.entry \in Entries(l) /\ e.eb <= filled[e.entry]
    /\ e.pos # "OPENING" => e.entry \notin book /\ e.eb = filled[e.entry]

\* What it recorded of its exit.
PeExited(l, e) ==
    /\ e.exit = None => e.xb = 0
    /\ e.exit # None => e.exit \in Exits(l) /\ (e.xseen \notin {"OPEN", "PARTIALLY_FILLED"} => e.exit \notin book)
    /\ e.xb <= Sells

\* A closing order, filled, sells what is left.
PeSells(l, e) ==
    \A o \in reduce : o[1] = l => e.pos # "OPENING" /\ e.eb <= Sells + amount[o] - filled[o]

\* An order of l that rests or opened something is the one it works, or the one a placement just returned.
PeOwns(l, e) ==
    \A o \in Known(l) : o \in book \/ o \notin reduce =>
        \/ o \in {e.entry, e.exit}
        \/ Returned(l, o) /\ e.doing \in {"create", "close", "escalate"}

PeHolds(l, e) == PeLives(e) /\ PeEntered(l, e) /\ PeExited(l, e) /\ PeSells(l, e)
PeInv(l) == PeHolds(l, pe[l]) /\ PeWaits(l, pe[l]) /\ PeOwns(l, pe[l])

\* A status that says an order filled is right about all of it.
FilledIsAll == \A o \in Orders : cache[o].st = "FILLED" => filled[o] = amount[o]
\* Only position legs of the session close.
ExitsOnly == /\ reduce \subseteq Sent
             /\ \A o \in reduce : o[1] \in session \cap PositionLegs
             /\ \A k \in Legs : call[k].exit => k \in session \cap PositionLegs
\* Those of no session did nothing.
Away == \A l \in PositionLegs \ session : pe[l] = PeFresh
\* An answer that is none has no status.
RetPlain == \A l \in Legs : ret[l].kind # "ok" => ret[l].st = "none"
FlatInv == /\ FilledIsAll /\ ExitsOnly /\ Away /\ RetPlain
           /\ \A l \in session \cap PositionLegs : "lag" \notin Faults[l] => PeInv(l)

-----------------------------------------------------------------------------
(* What was sold.                                                            *)

LEMMA OrdersFinite == IsFiniteSet(Orders)
<1> DEFINE L == {{l} \X (1..OrdersPer[l]) : l \in Legs}
<1>1. IsFiniteSet(L)
  <2> DEFINE f == [l \in Legs |-> {l} \X (1..OrdersPer[l])]
  <2>1. f \in Surjection(Legs, L)
    BY Zenon DEF Surjection
  <2> HIDE DEF f, L
  <2> QED BY <2>1, AdapterAssumption, FS_Surjection
<1>2. \A l \in Legs : IsFiniteSet({l} \X (1..OrdersPer[l]))
  <2> TAKE l \in Legs
  <2>1. OrdersPer[l] \in Int /\ 1 \in Int
    BY AdapterAssumption
  <2>2. IsFiniteSet(1..OrdersPer[l]) /\ IsFiniteSet({l})
    BY <2>1, FS_Interval, FS_Singleton
  <2> QED BY <2>2, FS_Product
<1>3. \A S \in L : IsFiniteSet(S)
  BY <1>2
<1> HIDE DEF L
<1>4. IsFiniteSet(UNION L)
  BY <1>1, <1>3, FS_UNION
<1> QED BY <1>4 DEF L, Orders

LEMMA SellsIs ==
  ASSUME AdapterTypes
  PROVE  /\ IsFiniteSet(reduce) /\ Sells \in Nat /\ \A o \in reduce : filled[o] \in Nat /\ filled[o] <= Sells
<1>1. IsFiniteSet(reduce) /\ \A o \in reduce : filled[o] \in Nat
  BY OrdersFinite, FS_Subset DEF AdapterTypes
<1> QED BY <1>1, TotalNat DEF Sells

LEMMA SellsNext ==
  ASSUME AdapterTypes'
  PROVE  Sells' \in Nat
<1>1. IsFiniteSet(reduce') /\ \A o \in reduce' : filled'[o] \in Nat
  BY OrdersFinite, FS_Subset DEF AdapterTypes
<1> QED BY <1>1, TotalNat DEF Sells

\* A trade of one order, of those that sell or of the others.
LEMMA SellsOfFill ==
  ASSUME AdapterTypes, AdapterTypes', NEW o \in Orders, \A p \in Orders \ {o} : filled'[p] = filled[p], reduce' = reduce
  PROVE  Sells' = IF o \in reduce THEN Sells - filled[o] + filled'[o] ELSE Sells
<1>1. IsFiniteSet(reduce) /\ \A p \in reduce : p \in Orders /\ filled[p] \in Nat /\ filled'[p] \in Nat
  BY SellsIs DEF AdapterTypes
<1>2. CASE o \in reduce
  <2>1. Total(filled', reduce) = Total(filled, reduce) - filled[o] + filled'[o]
    BY <1>1, <1>2, TotalChanges
  <2> QED BY <1>2, <2>1 DEF Sells
<1>3. CASE o \notin reduce
  <2>1. Total(filled', reduce) = Total(filled, reduce)
    BY <1>1, <1>3, TotalSame
  <2> QED BY <1>3, <2>1 DEF Sells
<1> QED BY <1>2, <1>3

\* An order that sells is sent.
LEMMA SellsOfNew ==
  ASSUME AdapterTypes, AdapterTypes', reduce \subseteq Sent, NEW l \in Legs, NEW n \in Nat, NEW gone, OnVenue(l, n, gone)
  PROVE  /\ reduce' = IF call[l].exit THEN reduce \cup {NextOrder(l)} ELSE reduce
         /\ Sells' = IF call[l].exit THEN Sells + n ELSE Sells
<1>1. /\ NextOrder(l) \notin Sent /\ filled'[NextOrder(l)] = n
      /\ \A o \in Orders \ {NextOrder(l)} : filled'[o] = filled[o]
  BY OnVenueTypes
<1>2. reduce' = IF call[l].exit THEN reduce \cup {NextOrder(l)} ELSE reduce
  BY DEF OnVenue
<1>3. IsFiniteSet(reduce) /\ IsFiniteSet(reduce') /\ \A o \in reduce : filled[o] \in Int /\ filled'[o] = filled[o]
  BY <1>1, SellsIs, OrdersFinite, FS_Subset DEF AdapterTypes
<1>4. Total(filled', reduce) = Total(filled, reduce)
  BY <1>3, TotalSame
<1>5. CASE call[l].exit
  <2>1. NextOrder(l) \in reduce' /\ reduce' \ {NextOrder(l)} = reduce
    BY <1>1, <1>2, <1>5
  <2>2. \A o \in reduce' : filled'[o] \in Int
    BY DEF AdapterTypes
  <2>3. Total(filled', reduce') = filled'[NextOrder(l)] + Total(filled', reduce' \ {NextOrder(l)}) /\ Total(filled', reduce' \ {NextOrder(l)}) \in Int
    BY <1>3, <2>1, <2>2, TotalTakes
  <2>4. Total(filled', reduce') = n + Total(filled, reduce) /\ Total(filled, reduce) \in Int
    BY <1>1, <1>4, <2>1, <2>3
  <2> QED BY <1>2, <1>5, <2>4 DEF Sells
<1>6. CASE ~call[l].exit
  BY <1>2, <1>4, <1>6 DEF Sells
<1> QED BY <1>2, <1>5, <1>6

-----------------------------------------------------------------------------
(* Steps that leave the orders of l as they are, but for their fills.        *)

Onward(l) ==
    /\ SentStable /\ Exits(l) \subseteq Exits(l)' /\ Entries(l) \subseteq Entries(l)'
    /\ Sells <= Sells' /\ \A o \in reduce : Sells - filled[o] <= Sells' - filled'[o]
Calm(l) == Onward(l) /\ Known(l)' = Known(l) /\ \A o \in reduce' : o[1] = l => o \in reduce

\* A step of no order.
LEMMA CalmQuiet ==
  ASSUME AdapterTypes, AdapterTypes', UNCHANGED <<placed, amount, filled, reduce, lost>>, book' \subseteq book
  PROVE  /\ Sells' = Sells
         /\ \A l \in Legs : Calm(l) /\ Entries(l)' = Entries(l) /\ Exits(l)' = Exits(l)
<1>1. SentStable /\ Sent' = Sent
  BY SameStable
<1>2. Sells' = Sells /\ Sells \in Nat
  BY SellsIs DEF Sells
<1>3. \A l \in Legs : Entries(l)' = Entries(l) /\ Exits(l)' = Exits(l) /\ Known(l)' = Known(l)
  BY <1>1 DEF Known, Entries, Exits
<1>4. \A o \in reduce : filled[o] \in Nat
  BY SellsIs
<1> QED BY <1>1, <1>2, <1>3, <1>4 DEF Calm, Onward

LEMMA CalmVenue ==
  ASSUME AdapterTypes, CallsNameOrders, AdapterInv, VenueStep, NEW l \in Legs
  PROVE  Calm(l)
<1>1. AdapterTypes' /\ SentStable
  BY VenueTypes, VenueKeeps
<1>2. CASE BeginCycle \/ \E o \in Orders : VenueDrop(o) \/ FeedCatchesUp(o) \/ StreamEvent(o)
  <2>1. UNCHANGED <<placed, amount, filled, reduce, lost>> /\ book' \subseteq book
    BY <1>2 DEF BeginCycle, VenueDrop, FeedCatchesUp, StreamEvent, venueVars, calls
  <2> QED BY <1>1, <2>1, CalmQuiet
<1>3. CASE \E o \in Orders : VenueFill(o)
  <2>1. PICK o \in Orders : VenueFill(o)
    BY <1>3
  <2>2. UNCHANGED <<placed, reduce, lost>> /\ filled' = [filled EXCEPT ![o] = @ + 1]
    BY <2>1 DEF VenueFill, calls
  <2>3. Entries(l)' = Entries(l) /\ Exits(l)' = Exits(l) /\ Known(l)' = Known(l)
    BY <2>2 DEF Known, Entries, Exits, Sent
  <2>4. filled[o] \in Nat /\ filled'[o] = filled[o] + 1 /\ \A p \in Orders \ {o} : filled'[p] = filled[p]
    BY <2>2 DEF AdapterTypes
  <2>5. Sells' = IF o \in reduce THEN Sells - filled[o] + filled'[o] ELSE Sells
    BY <1>1, <2>2, <2>4, SellsOfFill
  <2>6. Sells \in Nat /\ reduce \subseteq Orders /\ \A p \in reduce : filled[p] \in Nat
    BY SellsIs DEF AdapterTypes
  <2>7. Sells <= Sells' /\ \A p \in reduce : Sells - filled[p] <= Sells' - filled'[p]
    BY <2>4, <2>5, <2>6
  <2> QED BY <1>1, <2>2, <2>3, <2>7 DEF Calm, Onward
<1> QED BY <1>2, <1>3 DEF VenueStep

\* What a call does on the venue: no new order, or one.
Sends(k, n, gone) == /\ OnVenue(k, n, gone) /\ call[k].op \in {"place", "replace"} /\ (call[k].op = "place" => n = Crossed(k))
                     /\ lost' = lost \/ lost' = lost \cup {NextOrder(k)}
SendsNothing == UNCHANGED <<placed, amount, filled, reduce, lost>> /\ book' \subseteq book

LEMMA CallSends ==
  ASSUME AdapterTypes, NEW k \in Legs, AdapterStep(k)
  PROVE  SendsNothing \/ \E n \in Nat, gone \in SUBSET (Orders \cup {None}) : Sends(k, n, gone)
<1> USE DEF SendsNothing, venueVars, adapterVars
<1>0. call[k].order \in Orders \cup {None} /\ Crossed(k) \in Nat
  BY CrossedTypes DEF AdapterTypes, CallType
<1>1. CASE PlaceAccepted(k) \/ PlaceUnanswered(k)
  <2>1. Sends(k, Crossed(k), {})
    BY <1>1 DEF PlaceAccepted, PlaceUnanswered, Sends
  <2> QED BY <1>0, <2>1
<1>2. CASE Replaced(k) \/ ReplaceUnanswered(k)
  <2>1. \E gone \in {{call[k].order}, {}} : Sends(k, 0, gone)
    BY <1>2 DEF Replaced, ReplaceUnanswered, Sends
  <2> QED BY <1>0, <2>1
<1>3. CASE PlacedFills(k) \/ PlaceRejected(k) \/ PlaceThrottled(k) \/ ReplaceRejected(k) \/ ReplaceThrottled(k)
  BY <1>3 DEF PlacedFills, PlaceRejected, PlaceThrottled, ReplaceRejected, ReplaceThrottled
<1>4. CASE Cancelled(k) \/ CancelNotConfirmed(k) \/ CancelVerified(k) \/ CancelRefuted(k) \/ CancelUnknown(k)
  BY <1>4 DEF Cancelled, CancelNotConfirmed, CancelVerified, CancelRefuted, CancelUnknown
<1>5. CASE StatusCached(k) \/ StatusUnknown(k) \/ StatusBook(k) \/ HeldFills(k) \/ FinalFills(k) \/ StatusError(k)
  BY <1>5 DEF StatusCached, StatusUnknown, StatusBook, HeldFills, FinalFills, StatusError
<1> QED BY <1>1, <1>2, <1>3, <1>4, <1>5 DEF AdapterStep

\* A new order is one of its leg, which opens or closes.
LEMMA NewOrder ==
  ASSUME AdapterTypes, AdapterTypes', OrdersSent, reduce \subseteq Sent, NEW k \in Legs, NEW n \in Nat, NEW gone, Sends(k, n, gone)
  PROVE  /\ \A l \in Legs : Onward(l) /\ (l # k => Calm(l))
         /\ NextOrder(k) \notin Sent /\ NextOrder(k)[1] = k
         /\ reduce' = IF call[k].exit THEN reduce \cup {NextOrder(k)} ELSE reduce
         /\ Sells' = IF call[k].exit THEN Sells + n ELSE Sells
         /\ Known(k)' = IF lost' = lost THEN Known(k) \cup {NextOrder(k)} ELSE Known(k)
         /\ amount'[NextOrder(k)] = call[k].size /\ filled'[NextOrder(k)] = n
<1>1. /\ NextOrder(k) \notin Sent /\ NextOrder(k)[1] = k /\ Sent' = Sent \cup {NextOrder(k)}
      /\ amount'[NextOrder(k)] = call[k].size /\ filled'[NextOrder(k)] = n
      /\ \A o \in Sent : o \in Orders \ {NextOrder(k)} /\ filled'[o] = filled[o]
  BY OnVenueTypes DEF Sends, Sent
<1>2. SentStable /\ lost \subseteq Sent
  BY NewStable DEF Sends, OrdersSent
<1>3. /\ reduce' = IF call[k].exit THEN reduce \cup {NextOrder(k)} ELSE reduce
      /\ Sells' = IF call[k].exit THEN Sells + n ELSE Sells
  BY SellsOfNew DEF Sends
<1>4. lost' = lost \/ lost' = lost \cup {NextOrder(k)}
  BY DEF Sends
<1>5. Known(k)' = IF lost' = lost THEN Known(k) \cup {NextOrder(k)} ELSE Known(k)
  BY <1>1, <1>2, <1>4 DEF Known
<1>6. Sells \in Nat /\ \A o \in reduce : filled[o] \in Nat /\ filled'[o] = filled[o]
  BY <1>1, SellsIs
<1>7. Sells <= Sells' /\ \A o \in reduce : Sells - filled[o] <= Sells' - filled'[o]
  BY <1>3, <1>6
<1>8. ASSUME NEW l \in Legs PROVE Onward(l) /\ (l # k => Calm(l))
  <2>1. Known(l) \subseteq Known(l)' /\ (l # k => Known(l)' = Known(l))
    BY <1>1, <1>2, <1>4 DEF Known
  <2>2. Known(l) \subseteq Sent
    BY DEF Known
  <2>3. Exits(l) \subseteq Exits(l)' /\ Entries(l) \subseteq Entries(l)'
    BY <1>1, <1>3, <2>1, <2>2 DEF Exits, Entries
  <2>4. \A o \in reduce' : o[1] = l /\ l # k => o \in reduce
    BY <1>1, <1>3
  <2> QED BY <1>2, <1>7, <2>1, <2>3, <2>4 DEF Onward, Calm
<1> QED BY <1>1, <1>3, <1>5, <1>8
\* What holds of a record still holds of it.
LEMMA HoldsOn ==
  ASSUME AdapterTypes, AdapterTypes', NEW l \in Legs, Onward(l), NEW e \in PeGood
  PROVE  /\ PeLives(e) => PeLives(e)'
         /\ PeEntered(l, e) => PeEntered(l, e)'
         /\ PeExited(l, e) => PeExited(l, e)'
<1>1. /\ e \in PeType /\ e.exit \in Sent \cup {None} /\ e.entry \in Sent \cup {None} /\ None \notin book'
      /\ e.eb \in Nat /\ e.xb \in Nat
  BY OrderFacts DEF PeGood, PeType, PeKnows, AdapterTypes
<1>2. \A o \in Sent \cup {None} : o \notin book => o \notin book'
  BY <1>1 DEF Onward, SentStable
<1>3. Sells \in Nat /\ Sells' \in Nat /\ Sells <= Sells'
  BY SellsIs, SellsNext DEF Onward
<1>5. ASSUME PeLives(e) PROVE PeLives(e)'
  BY <1>1, <1>2, <1>3, <1>5 DEF PeLives
<1>6. ASSUME PeEntered(l, e) PROVE PeEntered(l, e)'
  <2>1. CASE e.entry = None
    BY <1>1, <1>6, <2>1, OrderFacts DEF PeEntered
  <2>2. CASE e.entry # None
    <3>1. e.entry \in Sent /\ e.entry \in Orders /\ filled[e.entry] \in Nat /\ filled'[e.entry] \in Nat
      BY <1>1, <2>2 DEF Sent, AdapterTypes
    <3>2. filled'[e.entry] >= filled[e.entry] /\ (e.entry \notin book => e.entry \notin book' /\ filled'[e.entry] = filled[e.entry])
          /\ Entries(l) \subseteq Entries(l)'
      BY <3>1 DEF Onward, SentStable
    <3> QED BY <1>1, <1>6, <2>2, <3>1, <3>2 DEF PeEntered
  <2> QED BY <2>1, <2>2
<1>7. ASSUME PeExited(l, e) PROVE PeExited(l, e)'
  BY <1>1, <1>2, <1>3, <1>7 DEF PeExited, Onward
<1> QED BY <1>5, <1>6, <1>7

LEMMA SellsOn ==
  ASSUME AdapterTypes, AdapterTypes', NEW l \in Legs, Onward(l), reduce \subseteq Sent, NEW e \in PeGood, PeSells(l, e)
  PROVE  \A o \in reduce : o[1] = l => e.pos # "OPENING" /\ e.eb <= Sells' + amount'[o] - filled'[o]
<1> SUFFICES ASSUME NEW o \in reduce, o[1] = l PROVE e.pos # "OPENING" /\ e.eb <= Sells' + amount'[o] - filled'[o]
  OBVIOUS
<1>1. e.pos # "OPENING" /\ e.eb <= Sells + amount[o] - filled[o]
  BY DEF PeSells
<1>2. amount'[o] = amount[o] /\ Sells - filled[o] <= Sells' - filled'[o]
  BY DEF Onward, SentStable
<1>3. /\ e.eb \in Nat /\ Sells \in Nat /\ Sells' \in Nat /\ amount[o] \in Nat /\ filled[o] \in Nat /\ filled'[o] \in Nat
  <2>1. o \in Orders /\ Sells \in Nat
    BY SellsIs DEF AdapterTypes
  <2>2. Sells' \in Nat
    BY SellsNext
  <2> QED BY <2>1, <2>2 DEF AdapterTypes, PeGood, PeType
<1> QED BY <1>1, <1>2, <1>3

\* A step of others changes nothing for l.
LEMMA OthersCalm ==
  ASSUME AdapterTypes, AdapterTypes', reduce \subseteq Sent, NEW l \in PositionLegs, l \in Legs, Calm(l), pe[l] \in PeGood, PeInv(l),
         pe'[l] = pe[l], call'[l] = call[l], ret'[l] = ret[l]
  PROVE  PeInv(l)'
<1> PICK e : e = pe[l] /\ e \in PeGood
  OBVIOUS
<1>1. PeHolds(l, e) /\ PeWaits(l, e) /\ PeOwns(l, e) /\ Onward(l)
  BY DEF PeInv, Calm
<1>2. PeLives(e)' /\ PeEntered(l, e)' /\ PeExited(l, e)'
  BY <1>1, HoldsOn DEF PeHolds
<1>3. PeSells(l, e)'
  BY <1>1, SellsOn DEF PeHolds, PeSells, Calm
<1>4. \A o : Returned(l, o)' <=> Returned(l, o)
  BY DEF Returned
<1>5. Exits(l) \subseteq Exits(l)' /\ Entries(l) \subseteq Entries(l)' /\ Known(l)' = Known(l) /\ Sells \in Nat /\ Sells' \in Nat /\ Sells <= Sells'
      /\ e.eb \in Nat /\ e.xb \in Nat
  BY <1>1, SellsIs, SellsNext DEF Calm, Onward, PeGood, PeType
<1>6. PeOwns(l, e)'
  <2>1. \A o \in Known(l) : o \in Sent /\ (o \in book' => o \in book) /\ (o \notin reduce' => o \notin reduce)
    BY <1>1, <1>5 DEF Known, Onward, SentStable, Exits
  <2> QED BY <1>1, <1>4, <1>5, <2>1 DEF PeOwns
<1>7. PeWaits(l, e)'
  <2>1. e.exit \notin book => e.exit \notin book'
    <3>1. e.exit \in Sent \cup {None} /\ None \notin book'
      BY OrderFacts DEF PeGood, PeKnows, AdapterTypes
    <3> QED BY <1>1, <3>1 DEF Onward, SentStable
  <2>2. SaysFilled(l, e) => SaysFilled(l, e)'
    BY <1>5 DEF SaysFilled
  <2>3. (Idle(l) => Idle(l)') /\ (Refused(l) => Refused(l)')
    BY DEF Idle, Refused
  <2>4. \A ops, o : Answering(l, ops, o) => Answering(l, ops, o)'
    BY <1>4 DEF Answering
  <2>5. e.eb <= Sells => e.eb <= Sells'
    BY <1>5
  <2> QED BY <1>1, <1>4, <1>5, <2>1, <2>2, <2>3, <2>4, <2>5 DEF PeWaits
<1> QED BY <1>2, <1>3, <1>6, <1>7 DEF PeInv, PeHolds

-----------------------------------------------------------------------------
(* The steps of a position leg's own call.                                   *)

LEMMA AtMost ==
  ASSUME NEW m \in Int, NEW s \in Nat
  PROVE  Cardinality({j \in 1..s : j <= m}) = s \/ Cardinality({j \in 1..s : j <= m}) >= m
<1>1. CASE m >= s
  <2>1. {j \in 1..s : j <= m} = 1..s
    BY <1>1
  <2>2. Cardinality(1..s) = s
    BY FS_Interval
  <2> QED BY <2>1, <2>2
<1>2. CASE m < s
  <2>1. {j \in 1..s : j <= m} = 1..m
    BY <1>2
  <2>2. Cardinality(1..m) = IF 1 > m THEN 0 ELSE m - 1 + 1
    BY FS_Interval
  <2>3. Cardinality(1..m) >= m
    BY <2>2
  <2> QED BY <2>1, <2>3
<1> QED BY <1>1, <1>2

\* The position is at least what is left of the entry of l.
LEMMA PositionHolds ==
  ASSUME AdapterTypes, NEW o \in Orders \ reduce
  PROVE  Position \in Int /\ Position >= filled[o] - Sells
<1>1. IsFiniteSet(Orders \ reduce) /\ \A p \in Orders \ reduce : filled[p] \in Nat
  BY OrdersFinite, FS_Subset DEF AdapterTypes
<1>2. Total(filled, Orders \ reduce) \in Nat /\ filled[o] <= Total(filled, Orders \ reduce)
  BY <1>1, TotalNat
<1>3. Position = Total(filled, Orders \ reduce) - Sells
  BY DEF Position, Sells, Total, MapThenSumSet, MapThenFoldSet
<1>4. Sells \in Nat /\ filled[o] \in Nat
  BY <1>1, SellsIs
<1> QED BY <1>2, <1>3, <1>4

\* A market order that closes fills what is left of the position, and that is at least what is left of the entry.
LEMMA Crosses ==
  ASSUME AdapterTypes, NEW l \in Legs, NEW e \in PeGood, PeHolds(l, e), e.pos = "CLOSING",
         call[l].market, call[l].exit, call[l].size = e.eb - e.xb
  PROVE  e.eb <= Sells + Crossed(l)
<1>1. e.entry \in Entries(l) /\ e.eb = filled[e.entry] /\ e.xb <= Sells
  BY DEF PeHolds, PeEntered, PeExited
<1>2. e.entry \in Orders \ reduce
  BY <1>1 DEF Entries, Known, Sent
<1>3. Position \in Int /\ Position >= e.eb - Sells
  BY <1>1, <1>2, PositionHolds
<1>4. Crossed(l) = Cardinality({j \in 1..call[l].size : j <= Position}) /\ Crossed(l) \in Nat /\ call[l].size \in Nat
  BY CrossedTypes DEF Crossed, AdapterTypes, CallType
<1>5. Crossed(l) = call[l].size \/ Crossed(l) >= Position
  BY <1>3, <1>4, AtMost
<1>6. e.eb \in Nat /\ e.xb \in Nat /\ Sells \in Nat
  BY SellsIs DEF PeGood, PeType
<1> QED BY <1>1, <1>3, <1>4, <1>5, <1>6

\* The placement goes on as it was.
Again(l) == call'[l].op = "place" /\ call'[l].market = call[l].market /\ call'[l].exit = call[l].exit /\ call'[l].size = call[l].size
\* What becomes of a placement: nothing, an order that rests, one that crossed, or one nobody was told of.
LEMMA PlaceTells ==
  ASSUME AdapterTypes, CallsNameOrders, NEW l \in Legs, AdapterStep(l), call[l].op = "place"
  PROVE  \/ SendsNothing /\ (Again(l) \/ Refused(l)')
         \/ /\ Sends(l, 0, {}) /\ lost' = lost /\ ~call[l].market
            /\ call'[l].op = "none" /\ ret'[l].kind = "ok" /\ ret'[l].order = NextOrder(l) /\ ret'[l].st = "OPEN"
         \/ /\ Sends(l, Crossed(l), {}) /\ lost' = lost /\ call[l].market
            /\ call'[l].op = "placed_fills" /\ call'[l].order = NextOrder(l)
         \/ /\ Sends(l, Crossed(l), {}) /\ lost' = lost \cup {NextOrder(l)}
            /\ Again(l) \/ Refused(l)'
<1>0. call[l] \in CallType /\ NoCall.op = "none"
  BY NullTypes DEF AdapterTypes
<1>1. PlaceAccepted(l) \/ PlaceRejected(l) \/ PlaceUnanswered(l) \/ PlaceThrottled(l)
  BY DEF AdapterStep, PlacedFills, Cancelled, CancelNotConfirmed, CancelVerified, CancelRefuted, CancelUnknown, Replaced, ReplaceRejected,
         ReplaceUnanswered, ReplaceThrottled, StatusCached, StatusUnknown, StatusBook, HeldFills, FinalFills, StatusError
<1>2. Retry(l) => Again(l) \/ Refused(l)'
  BY <1>0, RetryTypes DEF Again, Refused
<1>3. CASE PlaceRejected(l)
  BY <1>2, <1>3 DEF PlaceRejected, SendsNothing, venueVars
<1>4. CASE PlaceThrottled(l)
  <2> DEFINE r == [NoRet EXCEPT !.kind = "throttled"]
  <2>1. r \in RetType /\ r.kind = "throttled" /\ Deliver(l, r)
    BY <1>4 DEF PlaceThrottled, RetType, NoRet
  <2> HIDE DEF r
  <2>2. Refused(l)'
    BY <1>0, <2>1, DeliverTypes DEF Refused
  <2> QED BY <1>4, <2>2 DEF PlaceThrottled, SendsNothing, venueVars
<1>5. CASE PlaceUnanswered(l)
  BY <1>2, <1>5 DEF PlaceUnanswered, Sends
<1>6. CASE PlaceAccepted(l)
  <2>1. Sends(l, Crossed(l), {}) /\ lost' = lost /\ NextOrder(l) \in Orders
    BY <1>6, OnVenueTypes, CrossedTypes DEF PlaceAccepted, Sends
  <2>2. CASE call[l].market
    <3>1. call' = [call EXCEPT ![l].op = "placed_fills", ![l].order = NextOrder(l)]
      BY <1>6, <2>2 DEF PlaceAccepted
    <3> QED BY <1>0, <2>1, <2>2, <3>1 DEF AdapterTypes, CallType
  <2>3. CASE ~call[l].market
    <3> DEFINE r == [kind |-> "ok", order |-> NextOrder(l), st |-> "OPEN", base |-> 0]
    <3>1. r \in RetType /\ r.kind = "ok" /\ r.order = NextOrder(l) /\ r.st = "OPEN" /\ Deliver(l, r)
      BY <1>6, <2>1, <2>3 DEF PlaceAccepted, RetType
    <3>2. Crossed(l) = 0
      BY <2>3, CrossedTypes
    <3> HIDE DEF r
    <3>3. call'[l].op = "none" /\ ret'[l].kind = "ok" /\ ret'[l].order = NextOrder(l) /\ ret'[l].st = "OPEN"
      <4>1. call'[l] = NoCall /\ ret'[l] = r
        BY <3>1, DeliverTypes
      <4> QED BY <1>0, <3>1, <4>1
    <3> QED BY <2>1, <2>3, <3>2, <3>3
  <2> QED BY <2>2, <2>3
<1> QED BY <1>1, <1>3, <1>4, <1>5, <1>6
\* l and its record, in a step of the call it waits for.
OwnCall(l, e) == /\ e = pe[l] /\ e \in PeGood /\ pe'[l] = e /\ PeInv(l) /\ AdapterStep(l) /\ call[l].op # "none" /\ ret[l].kind = "none"
                 /\ AdapterTypes /\ AdapterTypes' /\ CallsNameOrders /\ OrdersSent /\ reduce \subseteq Sent

LEMMA NothingSent ==
  ASSUME NEW l \in Legs, NEW e, OwnCall(l, e), SendsNothing, PeWaits(l, e)'
  PROVE  PeInv(l)'
<1>1. PeHolds(l, e) /\ PeOwns(l, e) /\ AdapterTypes /\ AdapterTypes' /\ reduce \subseteq Sent /\ e \in PeGood /\ pe'[l] = e
  BY DEF OwnCall, PeInv
<1>2. Calm(l) /\ Onward(l)
  BY <1>1, CalmQuiet DEF SendsNothing, Calm
<1>3. PeHolds(l, e)'
  BY <1>1, <1>2, HoldsOn, SellsOn DEF PeHolds, PeSells, Calm
<1>4. PeOwns(l, e)'
  <2>1. \A o : ~Returned(l, o)
    BY DEF OwnCall, Returned
  <2>2. Known(l)' = Known(l) /\ \A o \in Known(l) : (o \in book' => o \in book) /\ (o \notin reduce' => o \notin reduce)
    BY <1>2 DEF SendsNothing, Calm
  <2> QED BY <1>1, <2>1, <2>2 DEF PeOwns
<1> QED BY <1>1, <1>3, <1>4 DEF PeInv

LEMMA PlaceKeeps ==
  ASSUME NEW l \in Legs, NEW e, OwnCall(l, e), call[l].op = "place"
  PROVE  PeInv(l)'
<1> PICK n : n = NextOrder(l)
  OBVIOUS
<1>1. /\ PeHolds(l, e) /\ PeOwns(l, e) /\ PeWaits(l, e) /\ AdapterTypes /\ AdapterTypes' /\ OrdersSent /\ reduce \subseteq Sent
      /\ e \in PeGood /\ e \in PeType /\ pe'[l] = e /\ CallsNameOrders /\ AdapterStep(l)
  BY DEF OwnCall, PeInv, PeGood
\* It opens, or it closes.
<1>2. \/ e.doing = "create" /\ ~call[l].market /\ ~call[l].exit
      \/ /\ e.doing \in {"close", "escalate"} /\ e.doing # "create" /\ e.pos = "CLOSING"
         /\ call[l].exit /\ call[l].size = e.eb - e.xb
  <2>1. ~Refused(l) /\ ~Idle(l) /\ \A o : ~Returned(l, o)
    BY DEF OwnCall, Refused, Returned, Idle
  <2>2. call[l].op \notin Asks \cup Cancels \cup {"none", "placed_fills"}
    BY DEF Asks, Cancels
  <2>3. \A o : ~Answering(l, Asks, o) /\ ~Answering(l, Cancels, o)
    BY <2>1, <2>2 DEF Answering
  <2>4. e.doing \in {"create", "close", "escalate"}
    BY <1>1, <2>1, <2>3 DEF PeWaits, PeType, PeDoing
  <2> QED BY <1>1, <2>1, <2>2, <2>4 DEF PeWaits, PeHolds, PeLives
<1>3. CASE SendsNothing /\ (Again(l) \/ Refused(l)')
  <2>1. PeWaits(l, e)'
    BY <1>2, <1>3 DEF PeWaits, Again, Refused
  <2> QED BY <1>3, <2>1, NothingSent
<1>4. ASSUME NEW k \in Nat, Sends(l, k, {}),
             call[l].market => k = Crossed(l),
             ~call[l].market => k = 0,
             \/ lost' # lost /\ (Again(l) \/ Refused(l)')
             \/ /\ lost' = lost /\ ~call[l].market /\ call'[l].op = "none" /\ ret'[l].kind = "ok"
                /\ ret'[l].order = n /\ ret'[l].st = "OPEN"
             \/ /\ lost' = lost /\ call[l].market /\ call'[l].op = "placed_fills" /\ call'[l].order = n
      PROVE  PeInv(l)'
  <2>1. /\ Onward(l) /\ n \notin Sent /\ n[1] = l
        /\ reduce' = IF call[l].exit THEN reduce \cup {n} ELSE reduce
        /\ Sells' = IF call[l].exit THEN Sells + k ELSE Sells
        /\ Known(l)' = IF lost' = lost THEN Known(l) \cup {n} ELSE Known(l)
        /\ amount'[n] = call[l].size /\ filled'[n] = k
    BY <1>1, <1>4, NewOrder
  <2>2. PeLives(e)' /\ PeEntered(l, e)' /\ PeExited(l, e)'
    BY <1>1, <2>1, HoldsOn DEF PeHolds
  <2>3. /\ e.eb \in Nat /\ e.xb \in Nat /\ Sells \in Nat /\ call[l].size \in Nat /\ k <= call[l].size
        /\ e.xb <= Sells
    <3>1. call[l].size \in Nat /\ Crossed(l) \in 0..call[l].size
      BY <1>1, CrossedTypes DEF AdapterTypes, CallType
    <3> QED BY <1>1, <1>4, <3>1, SellsIs DEF PeType, PeHolds, PeExited
  <2>4. call[l].market => e.eb <= Sells'
    <3>1. call[l].market => call[l].exit /\ e.eb <= Sells + Crossed(l)
      BY <1>1, <1>2, Crosses
    <3> QED BY <1>4, <2>1, <3>1
  <2>5. PeSells(l, e)'
    <3>1. \A o \in reduce : o[1] = l => e.pos # "OPENING" /\ e.eb <= Sells' + amount'[o] - filled'[o]
      BY <1>1, <2>1, SellsOn DEF PeHolds
    <3>2. call[l].exit => e.pos # "OPENING" /\ e.eb <= Sells' + amount'[n] - filled'[n]
      <4>1. CASE call[l].market
        BY <1>2, <2>1, <2>3, <2>4, <4>1
      <4>2. CASE ~call[l].market
        BY <1>2, <1>4, <2>1, <2>3, <4>2
      <4> QED BY <4>1, <4>2
    <3>3. \A o \in reduce' : o \in reduce \/ (o = n /\ call[l].exit)
      BY <2>1
    <3>4. \A o \in reduce' : o[1] = l => e.pos # "OPENING" /\ e.eb <= Sells' + amount'[o] - filled'[o]
      BY <3>1, <3>2, <3>3
    <3> QED BY <3>4 DEF PeSells
  <2>6. PeOwns(l, e)'
    <3>1. \A o \in Known(l) : (o \in book' => o \in book) /\ (o \notin reduce' => o \notin reduce) /\ ~Returned(l, o)
      BY <2>1 DEF Known, Onward, SentStable, OwnCall, Returned
    <3>2. book' = (book \ {}) \cup (IF call[l].market THEN {} ELSE {n}) /\ n \notin book
      BY <1>1, <1>4, <2>1, OnVenueTypes DEF Sends, OrdersSent
    <3>3. lost' = lost /\ call[l].market => n \in reduce' /\ n \notin book'
      BY <1>2, <2>1, <3>2
    <3>4. lost' = lost /\ ~call[l].market => Returned(l, n)' /\ e.doing \in {"create", "close", "escalate"}
      BY <1>2, <1>4 DEF Returned
    <3> QED BY <1>1, <2>1, <3>1, <3>3, <3>4 DEF PeOwns
  <2>7. PeWaits(l, e)'
    <3>1. CASE lost' # lost
      BY <1>2, <1>4, <3>1 DEF PeWaits, Again, Refused
    <3>2. CASE lost' = lost /\ ~call[l].market
      <4>1. n \in Known(l)' /\ Returned(l, n)' /\ n \notin reduce
        BY <1>1, <1>4, <2>1, <3>2 DEF Returned
      <4>2. (call[l].exit => n \in Exits(l)') /\ (~call[l].exit => n \in Entries(l)')
        BY <2>1, <4>1 DEF Exits, Entries
      <4>3. SaysFilled(l, e)' /\ ret'[l].st = "OPEN"
        BY <1>4, <3>2 DEF SaysFilled
      <4> QED BY <1>2, <4>1, <4>2, <4>3 DEF PeWaits
    <3>3. CASE lost' = lost /\ call[l].market
      <4>1. n \in Exits(l)'
        BY <1>2, <2>1, <3>3 DEF Exits
      <4> QED BY <1>2, <1>4, <2>4, <3>3, <4>1 DEF PeWaits
    <3> QED BY <3>1, <3>2, <3>3
  <2> QED BY <1>1, <2>2, <2>5, <2>6, <2>7 DEF PeInv, PeHolds
<1>5. Crossed(l) \in Nat /\ (~call[l].market => Crossed(l) = 0) /\ n \notin lost
  <2>1. n \notin Sent
    BY <1>1 DEF NextOrder, Sent, AdapterTypes
  <2> QED BY <1>1, <2>1, CrossedTypes DEF AdapterTypes, CallType, OrdersSent
<1> QED BY <1>1, <1>3, <1>4, <1>5, PlaceTells
\* What the adapter decides on a read of the fills feed.
LEMMA FeedSays ==
  ASSUME AdapterTypes, CallsNameOrders, AdapterInv, NEW l \in Legs, HeldFills(l) \/ FinalFills(l)
  PROVE  /\ call[l].order \in Sent
         /\ \E s \in Status : /\ Answer(l, s) /\ (s.st = "FILLED" => filled[call[l].order] = amount[call[l].order])
                              /\ cache' = cache \/ cache' = [cache EXCEPT ![call[l].order] = s]
<1> DEFINE o == call[l].order
<1>1. /\ o \in Sent /\ o \in Orders /\ cache[o] \in Status \cup {NoStatus}
      /\ feed[o] \in Nat /\ filled[o] \in Nat /\ amount[o] \in Nat /\ feed[o] <= filled[o] /\ filled[o] <= amount[o]
  <2>1. o # None /\ o \in Sent \cup {None}
    BY DEF HeldFills, FinalFills, CallsNameOrders, AdapterInv, OrdersSent
  <2> QED BY <2>1 DEF Sent, AdapterTypes, AdapterInv, Amounts
<1> HIDE DEF o
<1>2. HeldStatus(o) \in Status /\ HeldStatus(o).st # "FILLED"
  <2>1. CASE cache[o] # NoStatus /\ cache[o].st \notin Terminal
    BY <1>1, <2>1 DEF HeldStatus, Terminal
  <2>2. CASE ~(cache[o] # NoStatus /\ cache[o].st \notin Terminal)
    BY <2>2 DEF HeldStatus, Status
  <2> QED BY <2>1, <2>2
<1>3. ASSUME Answer(l, HeldStatus(o)), UNCHANGED cache
      PROVE  \E s \in Status : Answer(l, s) /\ (s.st = "FILLED" => filled[o] = amount[o]) /\ (cache' = cache \/ cache' = [cache EXCEPT ![o] = s])
  BY <1>2, <1>3
<1>4. ASSUME NEW s \in Status, Answer(l, s), Keep(o, s), s.st = "FILLED" => filled[o] = amount[o]
      PROVE  \E t \in Status : Answer(l, t) /\ (t.st = "FILLED" => filled[o] = amount[o]) /\ (cache' = cache \/ cache' = [cache EXCEPT ![o] = t])
  <2>1. cache' = cache \/ cache' = [cache EXCEPT ![o] = s]
    BY <1>4 DEF Keep
  <2> QED BY <1>4, <2>1
<1>5. CASE HeldFills(l)
  <2>1. PICK fb \in 0..feed[o] :
          IF fb = 0 THEN Answer(l, HeldStatus(o)) /\ UNCHANGED <<cache, dirty>>
          ELSE LET s == [st |-> IF fb = amount[o] THEN "FILLED" ELSE "PARTIALLY_FILLED", base |-> fb]
               IN Answer(l, s) /\ Keep(o, s)
    BY <1>5 DEF HeldFills, o
  <2>2. CASE fb = 0
    BY <1>1, <1>3, <2>1, <2>2 DEF o
  <2>3. CASE fb # 0
    <3> DEFINE s == [st |-> IF fb = amount[o] THEN "FILLED" ELSE "PARTIALLY_FILLED", base |-> fb]
    <3>1. s \in Status /\ (s.st = "FILLED" => fb = amount[o])
      BY <1>1 DEF Status, Terminal
    <3>2. Answer(l, s) /\ Keep(o, s)
      BY <2>1, <2>3
    <3> HIDE DEF s
    <3>3. s.st = "FILLED" => filled[o] = amount[o]
      BY <1>1, <3>1
    <3> QED BY <1>1, <1>4, <3>1, <3>2, <3>3 DEF o
  <2> QED BY <2>2, <2>3
<1>6. CASE FinalFills(l)
  <2> DEFINE s == [st |-> IF feed[o] = amount[o] THEN "FILLED" ELSE "CANCELLED", base |-> feed[o]]
  <2>1. s \in Status /\ (s.st = "FILLED" => filled[o] = amount[o])
    BY <1>1 DEF Status, Terminal
  <2>2. (Answer(l, s) /\ Keep(o, s)) \/ (Answer(l, HeldStatus(o)) /\ UNCHANGED cache)
    BY <1>6 DEF FinalFills, o
  <2> HIDE DEF s
  <2> QED BY <1>1, <1>3, <1>4, <2>1, <2>2 DEF o
<1> QED BY <1>5, <1>6

LEMMA StatusNamed == /\ \A s \in Status : s.st # "none" /\ s # NoStatus
                     /\ NoStatus.st = "none"
  BY DEF Status, Terminal, NoStatus

\* A status that answers is one, and says that an order filled only when it did.
LEMMA AskTells ==
  ASSUME AdapterTypes, CallsNameOrders, AdapterInv, FilledIsAll, NEW l \in Legs, AdapterStep(l), call[l].op \in Asks, ret'[l].kind = "ok"
  PROVE  ret'[l].st # "none" /\ (ret'[l].st = "FILLED" => filled[call[l].order] = amount[call[l].order])
<1> DEFINE o == call[l].order
<1>0. /\ call[l].op \in {"status", "final_fills", "held_fills"} /\ ret[l].kind = "none" /\ call[l].order \in Sent \cup {None}
      /\ \A p \in Orders : cache[p] \in Status \cup {NoStatus}
  BY DEF Asks, AdapterTypes, AdapterInv, OneAtATime, OrdersSent
<1>1. ASSUME NEW s \in Status, Answer(l, s), s.st = "FILLED" => filled[o] = amount[o]
      PROVE  ret'[l].st # "none" /\ (ret'[l].st = "FILLED" => filled[o] = amount[o])
  BY <1>1, AnswerTypes, StatusNamed
<1>2. StatusCached(l) \/ StatusUnknown(l) \/ StatusBook(l) \/ HeldFills(l) \/ FinalFills(l) \/ StatusError(l)
  BY <1>0 DEF AdapterStep, PlaceAccepted, PlacedFills, PlaceRejected, PlaceUnanswered, PlaceThrottled, Cancelled, CancelNotConfirmed,
         CancelVerified, CancelRefuted, CancelUnknown, Replaced, ReplaceRejected, ReplaceUnanswered, ReplaceThrottled
<1>3. CASE StatusCached(l)
  <2>1. o \in Orders /\ cache[o] # NoStatus /\ Answer(l, cache[o])
    BY <1>0, <1>3 DEF StatusCached, ShortCircuit, AdapterTypes
  <2>2. cache[o] \in Status /\ (cache[o].st = "FILLED" => filled[o] = amount[o])
    BY <1>0, <2>1 DEF FilledIsAll
  <2> QED BY <1>1, <2>1, <2>2
<1>4. CASE StatusUnknown(l) \/ StatusError(l)
  <2>1. Retry(l)
    BY <1>4 DEF StatusUnknown, StatusError
  <2> QED BY <1>0, <2>1, RetryTypes
<1>5. CASE StatusBook(l)
  <2>1. Answer(l, [st |-> "OPEN", base |-> 0]) \/ ret' = ret
    BY <1>5 DEF StatusBook
  <2>2. [st |-> "OPEN", base |-> 0] \in Status /\ [st |-> "OPEN", base |-> 0].st # "FILLED"
    BY DEF Status
  <2> QED BY <1>0, <1>1, <2>1, <2>2
<1>6. CASE HeldFills(l) \/ FinalFills(l)
  BY <1>1, <1>6, FeedSays
<1> QED BY <1>2, <1>3, <1>4, <1>5, <1>6

\* So the cache.
LEMMA CacheStep ==
  ASSUME AdapterTypes, CallsNameOrders, AdapterInv, NEW l \in Legs, AdapterStep(l)
  PROVE  \A o \in Orders : cache'[o] = cache[o] \/ cache'[o].st # "FILLED" \/ (o \in Sent /\ filled[o] = amount[o])
<1> SUFFICES ASSUME NEW o \in Orders
             PROVE  cache'[o] = cache[o] \/ cache'[o].st # "FILLED" \/ (o \in Sent /\ filled[o] = amount[o])
  OBVIOUS
<1>0. cache \in [Orders -> Status \cup {NoStatus}]
  BY DEF AdapterTypes
<1> USE DEF adapterVars
<1>1. CASE \/ PlaceAccepted(l) \/ PlacedFills(l) \/ PlaceRejected(l) \/ PlaceUnanswered(l) \/ PlaceThrottled(l)
           \/ Replaced(l) \/ ReplaceRejected(l) \/ ReplaceUnanswered(l) \/ ReplaceThrottled(l)
  BY <1>1 DEF PlaceAccepted, PlacedFills, PlaceRejected, PlaceUnanswered, PlaceThrottled, Replaced, ReplaceRejected, ReplaceUnanswered, ReplaceThrottled
<1>2. CASE CancelNotConfirmed(l) \/ CancelRefuted(l) \/ CancelUnknown(l) \/ StatusCached(l) \/ StatusUnknown(l) \/ StatusError(l)
  BY <1>2 DEF CancelNotConfirmed, CancelRefuted, CancelUnknown, StatusCached, StatusUnknown, StatusError
<1>3. CASE Cancelled(l) \/ CancelVerified(l)
  <2>1. cache' = [cache EXCEPT ![call[l].order] = NoStatus]
    BY <1>3 DEF Cancelled, CancelVerified, Gone
  <2> QED BY <1>0, <2>1, StatusNamed
<1>4. CASE StatusBook(l)
  <2>1. cache' = cache \/ cache' = [cache EXCEPT ![call[l].order] = [st |-> "OPEN", base |-> 0]]
    BY <1>4 DEF StatusBook
  <2> QED BY <1>0, <2>1
<1>5. CASE HeldFills(l) \/ FinalFills(l)
  <2>1. PICK s \in Status : (s.st = "FILLED" => filled[call[l].order] = amount[call[l].order])
                            /\ (cache' = cache \/ cache' = [cache EXCEPT ![call[l].order] = s])
    BY <1>5, FeedSays
  <2> QED BY <1>0, <1>5, <2>1, FeedSays
<1> QED BY <1>1, <1>2, <1>3, <1>4, <1>5 DEF AdapterStep

\* An order that filled stays filled.
LEMMA FilledStays ==
  ASSUME AdapterTypes, AdapterTypes', AdapterInv, AdapterInv', SentStable, FilledIsAll,
         \A o \in Orders : cache'[o] = cache[o] \/ cache'[o].st # "FILLED" \/ (o \in Sent /\ filled[o] = amount[o])
  PROVE  FilledIsAll'
<1> SUFFICES ASSUME NEW o \in Orders, cache'[o].st = "FILLED" PROVE filled'[o] = amount'[o]
  BY DEF FilledIsAll
<1>1. o \in Sent /\ filled[o] = amount[o]
  <2>1. CASE o \in Sent
    BY <2>1 DEF FilledIsAll
  <2>2. CASE o \notin Sent
    BY <2>2, StatusNamed DEF AdapterInv, OrdersSent
  <2> QED BY <2>1, <2>2
<1>2. amount'[o] = amount[o] /\ filled'[o] >= filled[o] /\ filled'[o] <= amount'[o]
  BY <1>1 DEF SentStable, AdapterInv, Amounts
<1>3. filled'[o] \in Nat /\ amount'[o] \in Nat /\ filled[o] \in Nat /\ amount[o] \in Nat
  BY DEF AdapterTypes
<1> QED BY <1>1, <1>2, <1>3

\* A cancel that is answered is of an order that rests no more.
LEMMA CancelTells ==
  ASSUME AdapterTypes, CallsNameOrders, AdapterInv, NEW l \in Legs, AdapterStep(l), call[l].op \in Cancels, ret'[l].kind = "ok"
  PROVE  call[l].order \notin book'
<1>0. call[l].op \in {"cancel", "verify"} /\ ret[l].kind = "none"
  BY DEF Cancels, AdapterInv, OneAtATime
<1>1. Cancelled(l) \/ CancelNotConfirmed(l) \/ CancelVerified(l) \/ CancelRefuted(l) \/ CancelUnknown(l)
  BY <1>0 DEF AdapterStep, PlaceAccepted, PlacedFills, PlaceRejected, PlaceUnanswered, PlaceThrottled, Replaced, ReplaceRejected,
         ReplaceUnanswered, ReplaceThrottled, StatusCached, StatusUnknown, StatusBook, HeldFills, FinalFills, StatusError
<1>2. CASE Cancelled(l) \/ CancelVerified(l) \/ CancelUnknown(l)
  BY <1>2 DEF Cancelled, CancelVerified, CancelUnknown, venueVars
<1>3. ~CancelNotConfirmed(l)
  BY <1>0 DEF CancelNotConfirmed
<1>4. ~CancelRefuted(l)
  BY <1>0, RetryTypes DEF CancelRefuted
<1> QED BY <1>1, <1>2, <1>3, <1>4

\* What the call under way of a position executor is about.
LEMMA OwnCallIs ==
  ASSUME NEW l \in Legs, NEW e, OwnCall(l, e)
  PROVE  \/ call[l].op = "place"
         \/ call[l].op = "placed_fills" /\ e.doing \in {"close", "escalate"} /\ call[l].order \in Exits(l) /\ e.eb <= Sells
         \/ call[l].op \in Asks /\ e.doing \in {"entry_status", "stop_status"} /\ call[l].order = e.entry
         \/ call[l].op \in Cancels /\ e.doing = "stop_cancel" /\ call[l].order = e.entry
         \/ call[l].op \in Asks /\ e.doing \in {"poll", "stop_close_status"} /\ call[l].order = e.exit
         \/ call[l].op \in Cancels /\ e.doing = "stop_close_cancel" /\ call[l].order = e.exit
<1>1. PeWaits(l, e) /\ e.doing \in PeDoing
  BY DEF OwnCall, PeInv, PeGood, PeType
<1>2. ~Idle(l) /\ ~Refused(l) /\ \A o : ~Returned(l, o)
  BY DEF OwnCall, Idle, Refused, Returned
<1>3. \A ops, o : Answering(l, ops, o) => call[l].op \in ops /\ call[l].order = o
  BY <1>2 DEF Answering, OwnCall
<1> QED BY <1>1, <1>2, <1>3 DEF PeWaits, PeDoing

\* A call that goes on, is answered, or is given up.
LEMMA CallGoesOn ==
  ASSUME AdapterTypes, CallsNameOrders, OneAtATime, NEW l \in Legs, AdapterStep(l), NEW ops, ops = Asks \/ ops = Cancels,
         call[l].op \in ops, NEW o, o = call[l].order
  PROVE  Answering(l, ops, o)'
<1>1. CallEffect(l) /\ call[l].op \notin {"place", "replace"} /\ Asks \cap Cancels = {}
  BY CallStep DEF Asks, Cancels
<1>2. Sent' = Sent
  BY <1>1 DEF CallEffect
<1>3. \/ /\ call'[l].order = o
         /\ \/ call'[l].op = call[l].op
            \/ call[l].op \in Asks /\ call'[l].op \in Asks
            \/ call[l].op \in Cancels /\ call'[l].op \in Cancels
      \/ call'[l] = NoCall /\ ret'[l].kind = "ok" /\ ret'[l].order = o
      \/ call'[l] = NoCall /\ ret'[l].kind = "failed"
  BY <1>1, <1>2 DEF CallEffect
<1>4. NoCall.op = "none"
  BY NullTypes
<1> QED BY <1>1, <1>3, <1>4 DEF Answering, Returned

LEMMA PlacedFillsTells ==
  ASSUME AdapterTypes, NEW l \in Legs, call[l].op = "placed_fills", AdapterStep(l), NEW o, o = call[l].order
  PROVE  Returned(l, o)' /\ ret'[l].st # "none"
<1>1. PlacedFills(l)
  <2>1. ~PlaceAccepted(l) /\ ~PlaceRejected(l) /\ ~PlaceUnanswered(l) /\ ~PlaceThrottled(l)
    BY DEF PlaceAccepted, PlaceRejected, PlaceUnanswered, PlaceThrottled
  <2>2. ~Replaced(l) /\ ~ReplaceRejected(l) /\ ~ReplaceUnanswered(l) /\ ~ReplaceThrottled(l)
    BY DEF Replaced, ReplaceRejected, ReplaceUnanswered, ReplaceThrottled
  <2>3. ~Cancelled(l) /\ ~CancelNotConfirmed(l) /\ ~CancelVerified(l) /\ ~CancelRefuted(l) /\ ~CancelUnknown(l)
    BY DEF Cancelled, CancelNotConfirmed, CancelVerified, CancelRefuted, CancelUnknown
  <2>4. ~StatusCached(l) /\ ~StatusUnknown(l) /\ ~StatusBook(l) /\ ~HeldFills(l) /\ ~FinalFills(l) /\ ~StatusError(l)
    BY DEF StatusCached, StatusUnknown, StatusBook, HeldFills, FinalFills, StatusError
  <2> QED BY <2>1, <2>2, <2>3, <2>4 DEF AdapterStep
<1>3. \/ feed[call[l].order] > 0 /\ Answer(l, [st |-> "FILLED", base |-> feed[call[l].order]])
      \/ Answer(l, [st |-> "PARTIALLY_FILLED", base |-> 0])
  BY <1>1 DEF PlacedFills
<1>4. ASSUME NEW s, Answer(l, s), s.st \in {"FILLED", "PARTIALLY_FILLED"}
      PROVE  Returned(l, o)' /\ ret'[l].st # "none"
  <2> PICK r : r = [kind |-> "ok", order |-> o, st |-> s.st, base |-> s.base]
    OBVIOUS
  <2>1. Deliver(l, r) /\ r.kind = "ok" /\ r.order = o /\ r.st = s.st
    BY <1>4 DEF Answer
  <2>2. call'[l] = NoCall /\ ret'[l] = r
    BY <2>1 DEF Deliver, AdapterTypes
  <2> QED BY <1>4, <2>1, <2>2, NullTypes DEF Returned
<1> QED BY <1>3, <1>4

\* A step of the call of a position executor.
LEMMA OwnCallKeeps ==
  ASSUME NEW l \in Legs, NEW e, OwnCall(l, e), AdapterInv, FilledIsAll
  PROVE  PeInv(l)'
<1>1. /\ PeHolds(l, e) /\ AdapterTypes /\ AdapterTypes' /\ CallsNameOrders /\ AdapterStep(l) /\ OneAtATime /\ e \in PeType
      /\ call[l].order \in Orders \cup {None} /\ CallEffect(l)
  BY CallStep DEF OwnCall, PeInv, AdapterInv, AdapterTypes, CallType, PeGood
<1>2. CASE call[l].op = "place"
  BY <1>2, PlaceKeeps
<1>3. ASSUME call[l].op \in Asks \cup Cancels \cup {"placed_fills"}
      PROVE  SendsNothing /\ Sells' = Sells /\ Exits(l)' = Exits(l)
  <2>1. SendsNothing
    BY <1>1, <1>3, CallSends DEF Sends, Asks, Cancels
  <2> QED BY <1>1, <2>1, CalmQuiet DEF SendsNothing
<1>4. CASE call[l].op = "placed_fills" /\ e.doing \in {"close", "escalate"} /\ call[l].order \in Exits(l) /\ e.eb <= Sells
  <2> PICK o : o = call[l].order
    OBVIOUS
  <2>1. Returned(l, o)' /\ SaysFilled(l, e)'
    BY <1>1, <1>3, <1>4, PlacedFillsTells DEF SaysFilled
  <2>2. o \in Exits(l)'
    BY <1>3, <1>4
  <2>3. PeWaits(l, e)'
    BY <1>4, <2>1, <2>2 DEF PeWaits
  <2> QED BY <1>3, <1>4, <2>3, NothingSent
<1>5. CASE call[l].op \in Asks /\ e.doing \in {"entry_status", "stop_status"} /\ call[l].order = e.entry
  <2>1. Answering(l, Asks, e.entry)'
    BY <1>1, <1>5, CallGoesOn
  <2>2. PeWaits(l, e)'
    BY <1>5, <2>1 DEF PeWaits
  <2> QED BY <1>3, <1>5, <2>2, NothingSent
<1>6. CASE call[l].op \in Cancels /\ e.doing = "stop_cancel" /\ call[l].order = e.entry
  <2>1. Answering(l, Cancels, e.entry)'
    BY <1>1, <1>6, CallGoesOn
  <2>2. PeWaits(l, e)'
    BY <1>6, <2>1 DEF PeWaits
  <2> QED BY <1>3, <1>6, <2>2, NothingSent
<1>7. CASE call[l].op \in Asks /\ e.doing \in {"poll", "stop_close_status"} /\ call[l].order = e.exit
  <2>1. Answering(l, Asks, e.exit)'
    BY <1>1, <1>7, CallGoesOn
  <2>2. Returned(l, e.exit)' => SaysFilled(l, e)'
    <3> SUFFICES ASSUME Returned(l, e.exit)' PROVE ret'[l].st # "none" /\ (ret'[l].st = "FILLED" => e.eb <= Sells')
      BY DEF SaysFilled
    <3>1. ret'[l].st # "none" /\ (ret'[l].st = "FILLED" => filled[e.exit] = amount[e.exit])
      BY <1>1, <1>7, AskTells DEF Returned
    <3>2. e.exit \in reduce /\ e.exit[1] = l /\ e.exit \in Orders
      BY <1>1, <1>7 DEF PeHolds, PeLives, PeExited, Exits, Known, Sent
    <3>3. e.eb <= Sells + amount[e.exit] - filled[e.exit] /\ Sells \in Nat /\ filled[e.exit] \in Nat /\ e.eb \in Nat /\ amount[e.exit] \in Nat
      BY <1>1, <3>2, SellsIs DEF PeHolds, PeSells, AdapterTypes, PeType
    <3> QED BY <1>3, <1>7, <3>1, <3>3
  <2>3. PeWaits(l, e)'
    BY <1>7, <2>1, <2>2 DEF PeWaits
  <2> QED BY <1>3, <1>7, <2>3, NothingSent
<1>8. CASE call[l].op \in Cancels /\ e.doing = "stop_close_cancel" /\ call[l].order = e.exit
  <2>1. Returned(l, e.exit)' => e.exit \notin book'
    BY <1>1, <1>8, CancelTells DEF Returned, OwnCall
  <2>2. Answering(l, Cancels, e.exit)'
    BY <1>1, <1>8, CallGoesOn
  <2>3. PeWaits(l, e)'
    BY <1>8, <2>1, <2>2 DEF PeWaits
  <2> QED BY <1>3, <1>8, <2>3, NothingSent
<1> QED BY <1>2, <1>4, <1>5, <1>6, <1>7, <1>8, OwnCallIs

-----------------------------------------------------------------------------
(* The steps of a position executor itself.                                  *)

\* Two records of the same orders and amounts.
Kin(e, x) == /\ x.entry = e.entry /\ x.eb = e.eb /\ x.exit = e.exit /\ x.xb = e.xb /\ (x.xseen = e.xseen \/ x.exit = None)
             /\ (x.pos = "OPENING" <=> e.pos = "OPENING")
\* ... that are at the same point, but for what they wait for.
Twin(e, x) == Kin(e, x) /\ x.pos = e.pos /\ x.st = e.st /\ x.close = e.close

LEMMA DoneIs ==
  ASSUME NEW e \in PeType, NEW d \in PeDoing
  PROVE  /\ Done(e).doing = "none" /\ Twin(e, Done(e)) /\ Done(e).eseen = e.eseen
         /\ [e EXCEPT !.doing = d].doing = d /\ Twin(e, [e EXCEPT !.doing = d])
  BY DEF Done, Twin, Kin, PeType

LEMMA PeEndedIs ==
  ASSUME NEW e \in PeType, NEW close \in Closes, NEW x, x = PeTerminated(e, close)
  PROVE  /\ x.st = "TERMINATED" /\ x.doing = e.doing /\ x.pos = e.pos /\ Kin(e, x) /\ x \in PeType
             /\ x.close = IF e.st = "TERMINATED" THEN e.close ELSE close
<1>1. CASE e.st = "TERMINATED"
  <2>1. x = e
    BY <1>1 DEF PeTerminated
  <2> QED BY <1>1, <2>1 DEF Kin
<1>2. CASE e.st # "TERMINATED"
  <2>1. x = [e EXCEPT !.st = "TERMINATED", !.close = close]
    BY <1>2 DEF PeTerminated
  <2>2. x.st = "TERMINATED" /\ x.close = close /\ x.doing = e.doing /\ x.pos = e.pos /\ Kin(e, x) /\ x \in PeType
    BY <2>1 DEF PeType, Closes, Kin
  <2> QED BY <1>2, <2>2
<1> QED BY <1>1, <1>2

LEMMA FailedIs ==
  ASSUME NEW e \in PeType
  PROVE  /\ Failed(e).st = "TERMINATED" /\ Failed(e).doing = "none" /\ Failed(e).pos = e.pos /\ Kin(e, Failed(e))
         /\ Failed(e).close = IF e.st = "TERMINATED" THEN e.close ELSE "FAILED"
<1> PICK x : x = PeTerminated(e, "FAILED")
  OBVIOUS
<1>1. /\ x.st = "TERMINATED" /\ x.pos = e.pos /\ Kin(e, x) /\ x \in PeType
      /\ x.close = IF e.st = "TERMINATED" THEN e.close ELSE "FAILED"
  BY PeEndedIs DEF Closes
<1>2. Failed(e) = Done(x) /\ Done(x).doing = "none" /\ Twin(x, Done(x))
  BY <1>1, DoneIs DEF Failed, PeDoing
<1> QED BY <1>1, <1>2 DEF Twin, Kin

LEMMA FinalizedIs ==
  ASSUME NEW e \in PeType, e.pos # "OPENING"
  PROVE  /\ Finalized(e).st = "TERMINATED" /\ Finalized(e).doing = "none" /\ Finalized(e).pos = "TERMINATED" /\ Kin(e, Finalized(e))
<1>0. PICK x : x = [e EXCEPT !.pos = "TERMINATED", !.doing = "none"]
  OBVIOUS
<1>1. x.pos = "TERMINATED" /\ x.doing = "none" /\ Kin(e, x) /\ x \in PeType
  BY <1>0 DEF PeType, PeDoing, Kin
<1>2. PICK y : y = PeTerminated(x, "COMPLETED") /\ y = Finalized(e)
  BY <1>0 DEF Finalized
<1>3. y.st = "TERMINATED" /\ y.doing = x.doing /\ y.pos = x.pos /\ Kin(x, y)
  <2>1. x \in PeType /\ "COMPLETED" \in Closes
    BY <1>1 DEF Closes
  <2> QED BY <1>2, <2>1, PeEndedIs
<1> QED BY <1>1, <1>2, <1>3 DEF Kin

LEMMA KeptPosIs ==
  ASSUME NEW e \in PeType, e.pos # "OPENING", NEW x, x = PeTerminated([e EXCEPT !.pos = "TERMINATED"], "EARLY_STOP")
  PROVE  /\ x.st = "TERMINATED" /\ x.doing = e.doing /\ x.pos = "TERMINATED" /\ Kin(e, x)
         /\ x.close = IF e.st = "TERMINATED" THEN e.close ELSE "EARLY_STOP"
<1>0. PICK d : d = [e EXCEPT !.pos = "TERMINATED"]
  OBVIOUS
<1>1. d.pos = "TERMINATED" /\ d.doing = e.doing /\ d.st = e.st /\ d.close = e.close /\ Kin(e, d) /\ d \in PeType
  BY <1>0 DEF PeType, Kin
<1>2. x.st = "TERMINATED" /\ x.doing = d.doing /\ x.pos = d.pos /\ Kin(d, x) /\ x.close = IF d.st = "TERMINATED" THEN d.close ELSE "EARLY_STOP"
  <2>1. d \in PeType /\ "EARLY_STOP" \in Closes /\ x = PeTerminated(d, "EARLY_STOP")
    BY <1>0, <1>1 DEF Closes
  <2> QED BY <2>1, PeEndedIs
<1> QED BY <1>1, <1>2 DEF Kin

LEMMA BegunRecord ==
  ASSUME NEW e \in PeType, NEW x, x = [e EXCEPT !.st = "ACTIVE", !.doing = "create"]
  PROVE  x.st = "ACTIVE" /\ x.doing = "create" /\ x.pos = e.pos /\ x.close = e.close /\ Kin(e, x)
  BY DEF PeType, Kin

LEMMA EntryRecord ==
  ASSUME NEW e \in PeType, NEW r \in RetType, NEW x, x = Done(PeEntry(e, r))
  PROVE  /\ x \in PeType /\ x.doing = "none" /\ x.st = e.st /\ x.close = e.close /\ x.pos = e.pos
             /\ x.exit = e.exit /\ x.xb = e.xb /\ x.xseen = e.xseen /\ x.entry = r.order /\ x.eseen = r.st
             /\ x.eb = IF r.base > e.eb THEN r.base ELSE e.eb
<1>1. r.st \in {"none", "OPEN", "PARTIALLY_FILLED"} \cup Terminal /\ r.base \in Nat /\ r.order \in Orders \cup {None} /\ e.eb \in Nat
  BY DEF RetType, PeType
<1> PICK n \in Nat : n = IF r.base > e.eb THEN r.base ELSE e.eb
  BY <1>1
<1>0. PICK d : d = [e EXCEPT !.entry = r.order, !.eseen = r.st, !.eb = n]
  OBVIOUS
<1>2. d = PeEntry(e, r)
  BY <1>0 DEF PeEntry, PeType
<1>3. /\ d \in PeType /\ d.doing = e.doing /\ d.st = e.st /\ d.close = e.close /\ d.pos = e.pos
      /\ d.exit = e.exit /\ d.xb = e.xb /\ d.xseen = e.xseen /\ d.entry = r.order /\ d.eseen = r.st /\ d.eb = n
  BY <1>0, <1>1 DEF PeType
<1>4. d \in PeType /\ x = [d EXCEPT !.doing = "none"] /\ "none" \in PeDoing
  BY <1>2, <1>3 DEF Done, PeDoing
<1>5. /\ x \in PeType /\ x.doing = "none" /\ x.st = d.st /\ x.close = d.close /\ x.pos = d.pos
      /\ x.exit = d.exit /\ x.xb = d.xb /\ x.xseen = d.xseen /\ x.entry = d.entry /\ x.eseen = d.eseen /\ x.eb = d.eb
  BY <1>4 DEF PeType
<1> QED BY <1>3, <1>5

LEMMA ExitRecord ==
  ASSUME NEW e \in PeType, NEW r \in RetType, NEW x, x = PeExit(e, r)
  PROVE  /\ x \in PeType /\ x.doing = e.doing /\ x.st = e.st /\ x.close = e.close /\ x.pos = e.pos
             /\ x.entry = e.entry /\ x.eb = e.eb /\ x.exit = r.order /\ x.xseen = r.st
             /\ x.xb = IF r.base > e.xb THEN r.base ELSE e.xb
<1>1. r.st \in {"none", "OPEN", "PARTIALLY_FILLED"} \cup Terminal /\ r.base \in Nat /\ r.order \in Orders \cup {None} /\ e.xb \in Nat
  BY DEF RetType, PeType
<1> PICK n \in Nat : n = IF r.base > e.xb THEN r.base ELSE e.xb
  BY <1>1
<1> PICK d : d = [e EXCEPT !.exit = r.order, !.xseen = r.st, !.xb = n]
  OBVIOUS
<1>2. d = PeExit(e, r)
  BY DEF PeExit, PeType
<1>3. /\ d \in PeType /\ d.doing = e.doing /\ d.st = e.st /\ d.close = e.close /\ d.pos = e.pos
      /\ d.entry = e.entry /\ d.eb = e.eb /\ d.exit = r.order /\ d.xseen = r.st /\ d.xb = n
  BY <1>1 DEF PeType
<1> QED BY <1>2, <1>3

LEMMA OpenedIs ==
  ASSUME NEW e \in PeType
  PROVE  \/ Opened(e) = e
         \/ LET x == Opened(e)
            IN  /\ x.pos = "ACTIVE_POSITION" /\ x.doing = e.doing /\ x.st = e.st /\ x.close = e.close
                /\ x.entry = e.entry /\ x.eb = e.eb /\ x.exit = e.exit /\ x.xseen = e.xseen /\ x.xb = e.xb
  BY DEF Opened, PeType

\* The orders a record must name, and what it records of them.
PeNames(l, x) == \A o \in Known(l) : o \in book \/ o \notin reduce => o \in {x.entry, x.exit}
Kept(l, x) == PeEntered(l, x) /\ PeExited(l, x) /\ PeSells(l, x) /\ PeNames(l, x)

\* l and its record, in a step of its executor.
PeGo(l, e) == /\ l \in PositionLegs /\ l \in Legs /\ e = pe[l] /\ e \in PeGood /\ PeInv(l) /\ "lag" \notin Faults[l] /\ PeQuiet
              /\ AdapterTypes /\ AdapterTypes' /\ AdapterInv /\ RetPlain /\ reduce \subseteq Sent /\ pe \in [PositionLegs -> PeType]

LEMMA PeTurned ==
  ASSUME NEW l, NEW e, PeGo(l, e), NEW x, pe' = [pe EXCEPT ![l] = x], Kept(l, x), PeLives(x), PeWaits(l, x)'
  PROVE  PeInv(l)'
<1>1. /\ pe'[l] = x /\ l \in Legs /\ AdapterTypes /\ AdapterTypes'
      /\ UNCHANGED <<placed, amount, filled, reduce, lost, book>>
  BY DEF PeGo, PeQuiet, venueVars
<1>2. Sells' = Sells /\ Entries(l)' = Entries(l) /\ Exits(l)' = Exits(l) /\ Known(l)' = Known(l)
  BY <1>1, CalmQuiet DEF Calm
<1>3. PeLives(x)'
  BY <1>1, <1>2 DEF PeLives
<1>4. PeEntered(l, x)' /\ PeExited(l, x)' /\ PeSells(l, x)'
  BY <1>1, <1>2 DEF Kept, PeEntered, PeExited, PeSells
<1>5. PeOwns(l, x)'
  BY <1>1, <1>2 DEF Kept, PeNames, PeOwns
<1> QED BY <1>1, <1>3, <1>4, <1>5 DEF PeInv, PeHolds

LEMMA KeptSame ==
  ASSUME NEW l, NEW e, NEW x, Kept(l, e), Kin(e, x)
  PROVE  Kept(l, x)
<1>1. PeEntered(l, x)
  BY DEF Kept, Kin, PeEntered
<1>2. PeExited(l, x)
  BY DEF Kept, Kin, PeExited
<1>3. PeSells(l, x) /\ PeNames(l, x)
  BY DEF Kept, Kin, PeSells, PeNames
<1> QED BY <1>1, <1>2, <1>3 DEF Kept

\* Its own record does, but for an order a placement just returned.
LEMMA KeptOwn ==
  ASSUME NEW l, NEW e, PeGo(l, e), e.doing \notin {"create", "close", "escalate"} \/ ret[l].kind # "ok"
  PROVE  Kept(l, e)
  BY DEF PeGo, PeInv, PeHolds, PeOwns, Returned, Kept, PeNames

\* An answer tells the truth of an order.
LEMMA AnswerTrue ==
  ASSUME NEW l, NEW e, PeGo(l, e), NEW o, Returned(l, o), o \in Known(l)
  PROVE  /\ ret[l].base \in Nat /\ filled[o] \in Nat /\ ret[l].base <= filled[o] /\ ret[l].order = o /\ ret[l] \in RetType /\ o # None
         /\ ret[l].st \in Terminal => o \notin book /\ ret[l].base = filled[o]
<1>1. o \in Orders /\ o # None /\ o[1] = l /\ l \in Legs /\ ret[l].kind = "ok" /\ ret[l].order = o
  BY OrderFacts DEF Known, Sent, PeGo, Returned
<1>2. ret[l] \in RetType /\ filled[o] \in Nat
  BY <1>1 DEF PeGo, AdapterTypes
<1>3. TrueOf(ret[l].st, ret[l].base, o, book, filled)
  BY <1>1 DEF PeGo, AdapterInv, RetTrue
<1>4. "lag" \notin Faults[o[1]]
  BY <1>1 DEF PeGo
<1> QED BY <1>1, <1>2, <1>3, <1>4 DEF TrueOf, RetType

LEMMA KeptEntry ==
  ASSUME NEW l, NEW e, PeGo(l, e), e.pos = "OPENING", NEW o \in Entries(l), Returned(l, o), e.entry \in {None, o},
         NEW x, x.entry = o, x.eb = (IF ret[l].base > e.eb THEN ret[l].base ELSE e.eb),
         x.exit = e.exit, x.xseen = e.xseen, x.xb = e.xb, x.pos = "OPENING" \/ ret[l].st \in Terminal
  PROVE  Kept(l, x)
<1>1. /\ PeHolds(l, e) /\ PeOwns(l, e) /\ e.eb \in Nat /\ o \in Known(l) /\ o \notin reduce /\ None \notin Known(l)
  BY OrderFacts DEF PeGo, PeInv, PeGood, PeType, Entries, Known, Sent
<1>2. /\ ret[l].base \in Nat /\ filled[o] \in Nat /\ ret[l].base <= filled[o] /\ o # None
      /\ ret[l].st \in Terminal => o \notin book /\ ret[l].base = filled[o]
  BY <1>1, AnswerTrue
<1>3. e.eb <= filled[o]
  BY <1>1, <1>2 DEF PeHolds, PeEntered
<1>4. PeEntered(l, x)
  <2>1. x.eb <= filled[o] /\ (ret[l].st \in Terminal => x.eb = filled[o])
    BY <1>1, <1>2, <1>3
  <2> QED BY <1>2, <2>1 DEF PeEntered
<1>5. PeExited(l, x)
  BY <1>1 DEF PeHolds, PeExited
<1>6. PeSells(l, x)
  BY <1>1 DEF PeHolds, PeSells
<1>7. PeNames(l, x)
  <2>1. e.exit = None
    BY <1>1 DEF PeHolds, PeLives
  <2> QED BY <1>1, <2>1 DEF PeOwns, PeNames, Returned
<1> QED BY <1>4, <1>5, <1>6, <1>7 DEF Kept

LEMMA KeptExit ==
  ASSUME NEW l, NEW e, PeGo(l, e), e.pos = "CLOSING", NEW o \in Exits(l), Returned(l, o), ret[l].st # "none",
         e.exit = o \/ e.exit \notin book, NEW x, x = PeExit(e, ret[l])
  PROVE  /\ Kept(l, x) /\ x \in PeType /\ x.doing = e.doing /\ x.st = e.st /\ x.close = e.close /\ x.pos = "CLOSING"
         /\ x.exit = o /\ x.xseen = ret[l].st /\ x.eb = e.eb /\ (x.xseen \in Terminal => o \notin book)
<1>1. /\ PeHolds(l, e) /\ PeOwns(l, e) /\ e \in PeType /\ e.xb \in Nat /\ o \in Known(l) /\ o \in reduce /\ AdapterTypes
  BY DEF PeGo, PeInv, PeGood, PeType, Exits
<1>2. /\ ret[l].base \in Nat /\ filled[o] \in Nat /\ ret[l].base <= filled[o] /\ ret[l].order = o /\ ret[l] \in RetType
      /\ ret[l].st \in Terminal => o \notin book
  BY <1>1, AnswerTrue
<1>3. /\ x \in PeType /\ x.doing = e.doing /\ x.st = e.st /\ x.close = e.close /\ x.pos = e.pos
      /\ x.entry = e.entry /\ x.eb = e.eb /\ x.exit = o /\ x.xseen = ret[l].st
      /\ x.xb = IF ret[l].base > e.xb THEN ret[l].base ELSE e.xb
  BY <1>1, <1>2, ExitRecord
<1>4. PeEntered(l, x)
  BY <1>1, <1>3 DEF PeHolds, PeEntered
<1>5. PeExited(l, x)
  <2>1. x.xb <= Sells
    <3>1. filled[o] <= Sells /\ Sells \in Nat /\ e.xb <= Sells
      BY <1>1, SellsIs DEF PeHolds, PeExited
    <3> QED BY <1>1, <1>2, <1>3, <3>1
  <2>2. ret[l].st \in {"OPEN", "PARTIALLY_FILLED"} \cup Terminal
    BY <1>2 DEF RetType
  <2>3. o # None
    BY <1>1, AnswerTrue
  <2> QED BY <1>2, <1>3, <2>1, <2>2, <2>3 DEF PeExited
<1>6. PeSells(l, x)
  BY <1>1, <1>3 DEF PeHolds, PeSells
<1>7. PeNames(l, x)
  <2>1. ASSUME NEW p \in Known(l), p \in book \/ p \notin reduce PROVE p \in {x.entry, x.exit}
    <3>1. p \in {e.entry, e.exit} \/ p = o
      BY <1>1, <2>1 DEF PeOwns, Returned
    <3>2. e.exit # None /\ e.exit \notin book => e.exit \in reduce
      BY <1>1 DEF PeHolds, PeExited, Exits
    <3>3. p # None
      BY OrderFacts DEF Known, Sent
    <3> QED BY <1>3, <2>1, <3>1, <3>2, <3>3
  <2> QED BY <2>1 DEF PeNames
<1> QED BY <1>2, <1>3, <1>4, <1>5, <1>6, <1>7 DEF Kept

\* What a record waits for, from the call that was started.
LEMMA WaitsNone ==
  ASSUME NEW l, NEW x, Idle(l)', x.doing = "none"
  PROVE  PeWaits(l, x)'
  BY DEF PeWaits

LEMMA WaitsCreate ==
  ASSUME NEW l, NEW x, call'[l] = Place(Size, FALSE, FALSE), x.doing = "create"
  PROVE  PeWaits(l, x)'
<1>1. Place(Size, FALSE, FALSE).op = "place" /\ ~Place(Size, FALSE, FALSE).market /\ ~Place(Size, FALSE, FALSE).exit
  BY DEF Place, NoCall
<1> QED BY <1>1 DEF PeWaits

LEMMA WaitsClose ==
  ASSUME NEW l, NEW x, NEW market \in BOOLEAN, call'[l] = Place(x.eb - x.xb, market, TRUE), x.doing \in {"close", "escalate"}
  PROVE  PeWaits(l, x)'
<1>0. PICK n : n = x.eb - x.xb
  OBVIOUS
<1>1. Place(n, market, TRUE).op = "place" /\ Place(n, market, TRUE).exit /\ Place(n, market, TRUE).size = n
  BY DEF Place, NoCall
<1> QED BY <1>0, <1>1 DEF PeWaits

LEMMA WaitsAnswer ==
  ASSUME NEW l, NEW x
  PROVE  /\ call'[l] = OrderStatus(x.entry) /\ x.doing \in {"entry_status", "stop_status"} => PeWaits(l, x)'
         /\ call'[l] = CancelOrder(x.entry) /\ x.doing = "stop_cancel" => PeWaits(l, x)'
         /\ call'[l] = OrderStatus(x.exit) /\ x.doing \in {"poll", "stop_close_status"} => PeWaits(l, x)'
         /\ call'[l] = CancelOrder(x.exit) /\ x.doing = "stop_close_cancel" => PeWaits(l, x)'
<1>1. \A o : /\ OrderStatus(o).op = "status" /\ OrderStatus(o).order = o /\ OrderStatus(o).op \in Asks /\ OrderStatus(o).op # "none"
             /\ CancelOrder(o).op = "cancel" /\ CancelOrder(o).order = o /\ CancelOrder(o).op \in Cancels /\ CancelOrder(o).op # "none"
  BY DEF OrderStatus, CancelOrder, NoCall, Asks, Cancels
<1>2. ASSUME call'[l] = OrderStatus(x.entry), x.doing \in {"entry_status", "stop_status"} PROVE PeWaits(l, x)'
  <2>1. Answering(l, Asks, x.entry)'
    BY <1>1, <1>2 DEF Answering
  <2> QED BY <1>2, <2>1 DEF PeWaits
<1>3. ASSUME call'[l] = CancelOrder(x.entry), x.doing = "stop_cancel" PROVE PeWaits(l, x)'
  <2>1. Answering(l, Cancels, x.entry)'
    BY <1>1, <1>3 DEF Answering
  <2> QED BY <1>3, <2>1 DEF PeWaits
<1>4. ASSUME call'[l] = OrderStatus(x.exit), x.doing \in {"poll", "stop_close_status"} PROVE PeWaits(l, x)'
  <2>1. Answering(l, Asks, x.exit)' /\ ~Returned(l, x.exit)'
    BY <1>1, <1>4 DEF Answering, Returned
  <2> QED BY <1>4, <2>1 DEF PeWaits
<1>5. ASSUME call'[l] = CancelOrder(x.exit), x.doing = "stop_close_cancel" PROVE PeWaits(l, x)'
  <2>1. Answering(l, Cancels, x.exit)' /\ ~Returned(l, x.exit)'
    BY <1>1, <1>5 DEF Answering, Returned
  <2> QED BY <1>5, <2>1 DEF PeWaits
<1> QED BY <1>2, <1>3, <1>4, <1>5

\* An executor is free, or has an answer.
LEMMA PeFreeIs ==
  ASSUME NEW l, NEW e, PeGo(l, e), PeFree(l), UNCHANGED ret
  PROVE  /\ e.doing = "none" /\ ret[l].kind = "none" /\ call[l].op = "none" /\ ret'[l].kind = "none"
         /\ (\A o : ~Returned(l, o)) /\ Kept(l, e)
         /\ call' = call => Idle(l)'
         /\ \A c : Start(l, c) => call'[l] = c
<1>1. e.doing = "none" /\ ret[l].kind = "none" /\ call[l].op = "none" /\ ret'[l].kind = "none"
  BY DEF PeGo, PeFree, Idle
<1> QED BY <1>1, KeptOwn DEF Returned, Idle, Start, PeGo, AdapterTypes

LEMMA PeBackIs ==
  ASSUME NEW l, NEW e, PeGo(l, e), NEW what, PeBack(l, what)
  PROVE  /\ e.doing = what /\ ret[l].kind # "none" /\ call[l].op = "none" /\ ret'[l].kind = "none"
         /\ call' = call => Idle(l)'
         /\ \A c : Start(l, c) => call'[l] = c
<1>1. e.doing = what /\ ret[l].kind # "none" /\ ret' = [ret EXCEPT ![l] = NoRet] /\ l \in Legs
  BY DEF PeBack, PeTake, PeGo
<1>2. call[l].op = "none"
  BY <1>1 DEF PeGo, AdapterInv, OneAtATime
<1>3. ret'[l].kind = "none"
  BY <1>1, NullTypes DEF PeGo, AdapterTypes
<1> QED BY <1>1, <1>2, <1>3 DEF Idle, Start, PeGo, AdapterTypes

\* What a record that waits is like.
LEMMA PeBusy ==
  ASSUME NEW l, NEW e, PeGo(l, e)
  PROVE  /\ PeHolds(l, e) /\ PeWaits(l, e) /\ e \in PeType /\ PeLives(e)
         /\ e.st = "ACTIVE" \/ e.doing # "none" => e.close # "COMPLETED"
         /\ e.doing # "none" => e.st # "new"
         /\ None \notin book
<1>1. PeHolds(l, e) /\ PeWaits(l, e) /\ e \in PeType /\ PeLives(e)
  BY DEF PeGo, PeInv, PeGood, PeHolds
<1>2. PeFresh.doing = "none"
  BY DEF PeFresh
<1> QED BY <1>1, <1>2, OrderFacts DEF PeLives, PeGo, AdapterTypes

\* A record that ended without completing, or that goes on with the same orders.
LEMMA PeEnds ==
  ASSUME NEW l, NEW e, PeGo(l, e), NEW d, Kept(l, d), NEW x, Kin(d, x), x.close # "COMPLETED", x.doing = "none", x.st # "new", Idle(l)',
         d.pos = "OPENING" => d.exit = None, x.pos = "ACTIVE_POSITION" => x.exit = None, pe' = [pe EXCEPT ![l] = x]
  PROVE  PeInv(l)'
<1>1. Kept(l, x)
  BY KeptSame
<1>2. PeLives(x)
  BY DEF PeLives, Kin
<1> QED BY <1>1, <1>2, PeTurned, WaitsNone

\* A close is placed, or nothing is left to close.
LEMMA PeClosing ==
  ASSUME NEW l, NEW e, PeGo(l, e), NEW d \in PeType, Kept(l, d), d.pos \in {"ACTIVE_POSITION", "CLOSING"}, d.st # "new", d.close # "COMPLETED",
         d.exit \notin book, NEW market \in BOOLEAN, NEW doing, doing \in {"close", "escalate"}, Closing(l, d, market, doing),
         call' = call => Idle(l)', \A c : Start(l, c) => call'[l] = c
  PROVE  PeInv(l)'
<1>1. CASE d.eb - d.xb > 0
  <2>0. PICK x : x = [d EXCEPT !.pos = "CLOSING", !.doing = doing]
    OBVIOUS
  <2>1. x.pos = "CLOSING" /\ x.doing = doing /\ x.st = d.st /\ x.close = d.close /\ Kin(d, x)
    <3>1. doing \in PeDoing /\ d.pos # "OPENING"
      BY DEF PeDoing
    <3> QED BY <2>0, <3>1 DEF PeType, Kin
  <2>2. pe' = [pe EXCEPT ![l] = x] /\ Start(l, Place(d.eb - d.xb, market, TRUE))
    BY <1>1, <2>0 DEF Closing
  <2>3. call'[l] = Place(x.eb - x.xb, market, TRUE)
    BY <2>1, <2>2 DEF Kin
  <2>4. PeLives(x)
    BY <2>1 DEF PeLives, Kin
  <2> QED BY <2>1, <2>2, <2>3, <2>4, KeptSame, PeTurned, WaitsClose
<1>2. CASE ~(d.eb - d.xb > 0)
  <2>1. PICK x : x = Finalized(d) /\ pe' = [pe EXCEPT ![l] = x] /\ call' = call
    BY <1>2 DEF Closing
  <2>2. x.st = "TERMINATED" /\ x.doing = "none" /\ x.pos = "TERMINATED" /\ Kin(d, x)
    BY <2>1, FinalizedIs
  <2>3. d.eb <= Sells
    <3>1. Sells \in Nat /\ d.eb \in Nat /\ d.xb \in Nat
      BY SellsIs DEF PeGo, PeType
    <3> QED BY <1>2, <3>1 DEF Kept, PeExited
  <2>4. PeLives(x)
    BY <2>2, <2>3 DEF PeLives, Kin
  <2> QED BY <2>1, <2>2, <2>4, KeptSame, PeTurned, WaitsNone
<1> QED BY <1>1, <1>2

\* A close order that filled finishes.
LEMMA PeFinishes ==
  ASSUME NEW l, NEW e, PeGo(l, e), NEW d \in PeType, Kept(l, d), d.pos = "CLOSING", d.exit \notin book, d.eb <= Sells, Idle(l)',
         pe' = [pe EXCEPT ![l] = Finalized(d)]
  PROVE  PeInv(l)'
<1>1. PICK x : x = Finalized(d)
  OBVIOUS
<1>2. x.st = "TERMINATED" /\ x.doing = "none" /\ x.pos = "TERMINATED" /\ Kin(d, x)
  BY <1>1, FinalizedIs
<1>3. PeLives(x)
  BY <1>2 DEF PeLives, Kin
<1> QED BY <1>1, <1>2, <1>3, KeptSame, PeTurned, WaitsNone

\* One lemma per step.
LEMMA SpawnFlat ==
  ASSUME NEW l, NEW e, PeGo(l, e), PeSpawn(l)
  PROVE  PeInv(l)'
<1>1. /\ e.st = "new" /\ Idle(l) /\ UNCHANGED ret /\ Start(l, Place(Size, FALSE, FALSE)) /\ PeLives(e) /\ e \in PeType
      /\ e = PeFresh /\ PeFresh.doing = "none" /\ PeFresh.pos = "OPENING" /\ PeFresh.entry = None /\ PeFresh.exit = None /\ PeFresh.close = "none"
  BY PeBusy DEF PeSpawn, PeGo, PeLives, PeFresh
<1>2. PICK x : x = [e EXCEPT !.st = "ACTIVE", !.doing = "create"] /\ pe' = [pe EXCEPT ![l] = x]
  BY DEF PeSpawn, PeGo
<1>3. x.st = "ACTIVE" /\ x.doing = "create" /\ x.pos = e.pos /\ x.close = e.close /\ Kin(e, x)
  BY <1>1, <1>2, BegunRecord
<1>4. Kept(l, e) /\ call'[l] = Place(Size, FALSE, FALSE)
  <2>1. PeFree(l)
    BY <1>1 DEF PeFree, PeGo
  <2> QED BY <1>1, <2>1, PeFreeIs
<1>5. PeLives(x)
  BY <1>1, <1>3 DEF PeLives, Kin
<1> QED BY <1>2, <1>3, <1>4, <1>5, KeptSame, PeTurned, WaitsCreate

LEMMA SpawnedFlat ==
  ASSUME NEW l, NEW e, PeGo(l, e), PeSpawned(l)
  PROVE  PeInv(l)'
<1>1. /\ e.doing = "create" /\ PeLives(e) /\ PeWaits(l, e) /\ e \in PeType /\ e.close # "COMPLETED" /\ e.st # "new" /\ Idle(l)'
      /\ call[l].op = "none" /\ ret[l].kind # "none" /\ e.pos = "OPENING" /\ e.entry = None /\ e.exit = None
  <2>1. PeBack(l, "create") /\ call' = call
    BY DEF PeSpawned
  <2>2. e.doing = "create" /\ call[l].op = "none" /\ ret[l].kind # "none" /\ Idle(l)'
    BY <2>1, PeBackIs
  <2> QED BY <2>2, PeBusy DEF PeLives
<1>2. Refused(l) \/ \E o \in Entries(l) : Returned(l, o) /\ ret[l].st = "OPEN"
  BY <1>1 DEF PeWaits
<1>3. CASE ret[l].kind = "throttled"
  <2>1. pe' = [pe EXCEPT ![l] = PeFresh]
    BY <1>3 DEF PeSpawned
  <2>2. Kept(l, e) /\ e.eb = 0 /\ e.xb = 0
    BY <1>1, <1>3, KeptOwn DEF Kept, PeEntered, PeExited
  <2>3. Kin(e, PeFresh) /\ PeFresh.doing = "none" /\ PeFresh.close = "none" /\ PeFresh.pos = "OPENING" /\ PeFresh.exit = None
    BY <1>1, <2>2 DEF PeFresh, Kin
  <2>4. PeLives(PeFresh)
    BY <2>3 DEF PeLives
  <2>5. PICK x : x = PeFresh
    OBVIOUS
  <2> QED BY <1>1, <2>1, <2>2, <2>3, <2>4, <2>5, KeptSame, PeTurned, WaitsNone
<1>4. CASE ret[l].kind = "failed"
  <2>1. PICK x : x = Failed(e) /\ pe' = [pe EXCEPT ![l] = x]
    BY <1>4 DEF PeSpawned, PeGo
  <2>2. x.st = "TERMINATED" /\ x.doing = "none" /\ x.pos = e.pos /\ Kin(e, x) /\ x.close # "COMPLETED"
    BY <1>1, <2>1, FailedIs
  <2> QED BY <1>1, <1>4, <2>1, <2>2, KeptOwn, PeEnds
<1>5. CASE ret[l].kind \notin {"throttled", "failed"}
  <2>1. PICK o \in Entries(l) : Returned(l, o) /\ ret[l].st = "OPEN"
    BY <1>2, <1>5 DEF Refused
  <2>2. ret[l] \in RetType /\ ret[l].order = o
    BY <2>1 DEF PeGo, AdapterTypes, Returned
  <2>3. PICK x : x = Done(PeEntry(e, ret[l]))
    OBVIOUS
  <2>4. /\ x.doing = "none" /\ x.st = e.st /\ x.close = e.close /\ x.pos = e.pos
        /\ x.exit = e.exit /\ x.xb = e.xb /\ x.xseen = e.xseen /\ x.entry = o /\ x.eseen = "OPEN"
        /\ x.eb = IF ret[l].base > e.eb THEN ret[l].base ELSE e.eb
    BY <1>1, <2>1, <2>2, <2>3, EntryRecord
  <2>5. pe' = [pe EXCEPT ![l] = x]
    BY <1>5, <2>3, <2>4 DEF PeSpawned, PeGo
  <2>6. Kept(l, x)
    BY <1>1, <2>1, <2>4, KeptEntry
  <2>7. PeLives(x)
    BY <1>1, <2>4 DEF PeLives
  <2> QED BY <1>1, <2>4, <2>5, <2>6, <2>7, PeTurned, WaitsNone
<1> QED BY <1>3, <1>4, <1>5

\* A read of an order, or a cancel of it, is started.
LEMMA AskFlat ==
  ASSUME NEW l, NEW e, PeGo(l, e), PeTickOpening(l) \/ PePoll(l)
  PROVE  PeInv(l)'
<1>1. PeFree(l) /\ UNCHANGED ret /\ e.st = "ACTIVE"
  BY DEF PeTickOpening, PePoll, PeGo
<1>2. /\ Kept(l, e) /\ e \in PeType /\ PeLives(e) /\ e.close # "COMPLETED"
      /\ \A c : Start(l, c) => call'[l] = c
  BY <1>1, PeFreeIs, PeBusy
<1>3. CASE PeTickOpening(l)
  <2>1. PICK x : x = [e EXCEPT !.doing = "entry_status"] /\ pe' = [pe EXCEPT ![l] = x]
    BY <1>3 DEF PeTickOpening, PeGo
  <2>2. x.doing = "entry_status" /\ Twin(e, x)
    BY <1>2, <2>1, DoneIs DEF PeDoing
  <2>3. call'[l] = OrderStatus(x.entry)
    BY <1>2, <1>3, <2>2 DEF PeTickOpening, PeGo, Twin, Kin
  <2>4. e.pos = "OPENING" /\ e.entry # None
    BY <1>3 DEF PeTickOpening, PeGo
  <2>5. PeLives(x) /\ Kin(e, x)
    BY <1>1, <1>2, <2>2, <2>4 DEF PeLives, Twin, Kin
  <2> QED BY <1>2, <2>1, <2>2, <2>3, <2>5, KeptSame, PeTurned, WaitsAnswer
<1>4. CASE PePoll(l)
  <2>1. PICK x : x = [e EXCEPT !.doing = "poll"] /\ pe' = [pe EXCEPT ![l] = x]
    BY <1>4 DEF PePoll, PeGo
  <2>2. x.doing = "poll" /\ Twin(e, x)
    BY <1>2, <2>1, DoneIs DEF PeDoing
  <2>3. call'[l] = OrderStatus(x.exit)
    BY <1>2, <1>4, <2>2 DEF PePoll, PeGo, Twin, Kin
  <2>4. e.pos = "CLOSING" /\ e.exit # None
    BY <1>4 DEF PePoll, PeGo
  <2>5. PeLives(x) /\ Kin(e, x)
    BY <1>1, <1>2, <2>2, <2>4 DEF PeLives, Twin, Kin
  <2> QED BY <1>2, <2>1, <2>2, <2>3, <2>5, KeptSame, PeTurned, WaitsAnswer
<1> QED BY <1>3, <1>4

\* What a read of the entry makes of the record.
LEMMA EntryRead ==
  ASSUME NEW l, NEW e, PeGo(l, e), e.doing \in {"entry_status", "stop_status"}, ret[l].kind = "ok", call[l].op = "none"
  PROVE  \E x \in PeType :
           /\ x = Done(PeEntry(e, ret[l])) /\ Kept(l, x) /\ x.eseen = ret[l].st /\ x.pos = "OPENING" /\ x.exit = None
           /\ x.doing = "none" /\ x.st = e.st /\ x.close = e.close
           /\ \E y \in PeType : y = Opened(x) /\ (ret[l].st \in Terminal => Kept(l, y)) /\ y.exit = None /\ y.doing = "none" /\ y.st = e.st /\ y.close = e.close
<1>1. /\ PeHolds(l, e) /\ PeWaits(l, e) /\ e \in PeType /\ e.pos = "OPENING" /\ e.entry # None /\ e.exit = None /\ ret[l] \in RetType
  BY PeBusy DEF PeLives, PeGo, AdapterTypes
<1>2. Returned(l, e.entry) /\ e.entry \in Entries(l) /\ ret[l].order = e.entry
  BY <1>1 DEF PeWaits, Answering, Returned, PeHolds, PeEntered, Asks
<1>3. PICK x : x = Done(PeEntry(e, ret[l]))
  OBVIOUS
<1>4. /\ x \in PeType /\ x.doing = "none" /\ x.st = e.st /\ x.close = e.close /\ x.pos = e.pos
      /\ x.exit = e.exit /\ x.xb = e.xb /\ x.xseen = e.xseen /\ x.entry = e.entry /\ x.eseen = ret[l].st
      /\ x.eb = IF ret[l].base > e.eb THEN ret[l].base ELSE e.eb
  BY <1>1, <1>2, <1>3, EntryRecord
<1>5. Kept(l, x)
  BY <1>1, <1>2, <1>4, KeptEntry
<1>6. PICK y : y = Opened(x)
  OBVIOUS
<1>7. y \in PeType
  BY <1>4, <1>6 DEF Opened, PeType
<1>8. \/ y = x
      \/ /\ y.pos = "ACTIVE_POSITION" /\ y.doing = x.doing /\ y.st = x.st /\ y.close = x.close
         /\ y.entry = x.entry /\ y.eb = x.eb /\ y.exit = x.exit /\ y.xseen = x.xseen /\ y.xb = x.xb
  BY <1>4, <1>6, OpenedIs
<1>9. ret[l].st \in Terminal => Kept(l, y)
  BY <1>1, <1>2, <1>4, <1>5, <1>8, KeptEntry
<1> QED BY <1>1, <1>3, <1>4, <1>5, <1>6, <1>7, <1>8, <1>9

LEMMA TickedOpeningFlat ==
  ASSUME NEW l, NEW e, PeGo(l, e), PeTickedOpening(l)
  PROVE  PeInv(l)'
<1>1. /\ e.doing = "entry_status" /\ PeLives(e) /\ PeWaits(l, e) /\ e \in PeType /\ e.close # "COMPLETED" /\ e.st # "new" /\ Idle(l)'
      /\ call[l].op = "none" /\ ret[l].kind # "none" /\ e.pos = "OPENING" /\ e.exit = None
  <2>1. PeBack(l, "entry_status") /\ call' = call
    BY DEF PeTickedOpening
  <2>2. e.doing = "entry_status" /\ call[l].op = "none" /\ ret[l].kind # "none" /\ Idle(l)'
    BY <2>1, PeBackIs
  <2> QED BY <2>2, PeBusy DEF PeLives
<1>2. CASE ret[l].kind = "failed"
  <2>1. PICK x : x = Failed(e) /\ pe' = [pe EXCEPT ![l] = x]
    BY <1>2 DEF PeTickedOpening, PeGo
  <2>2. x.st = "TERMINATED" /\ x.doing = "none" /\ x.pos = e.pos /\ Kin(e, x) /\ x.close # "COMPLETED"
    BY <1>1, <2>1, FailedIs
  <2> QED BY <1>1, <1>2, <2>1, <2>2, KeptOwn, PeEnds
<1>3. CASE ret[l].kind # "failed"
  <2>1. ret[l].kind = "ok"
    BY <1>1, <1>3 DEF PeWaits, Answering, Returned, Asks
  <2>2. PICK d \in PeType :
           /\ d = Done(PeEntry(e, ret[l])) /\ Kept(l, d) /\ d.eseen = ret[l].st /\ d.pos = "OPENING" /\ d.exit = None
           /\ d.doing = "none" /\ d.st = e.st /\ d.close = e.close
           /\ \E y \in PeType : y = Opened(d) /\ (ret[l].st \in Terminal => Kept(l, y)) /\ y.exit = None /\ y.doing = "none" /\ y.st = e.st /\ y.close = e.close
    BY <1>1, <2>1, EntryRead
  <2>3. PICK y \in PeType : y = Opened(d) /\ (ret[l].st \in Terminal => Kept(l, y)) /\ y.exit = None /\ y.doing = "none" /\ y.st = e.st /\ y.close = e.close
    BY <2>2
  <2>4. PICK f : f = Failed(d)
    OBVIOUS
  <2>5. f.st = "TERMINATED" /\ f.doing = "none" /\ f.pos = d.pos /\ Kin(d, f) /\ f.close # "COMPLETED"
    BY <1>1, <2>2, <2>4, FailedIs
  <2>6. \/ pe' = [pe EXCEPT ![l] = y] /\ ret[l].st \in Terminal
        \/ pe' = [pe EXCEPT ![l] = f]
        \/ pe' = [pe EXCEPT ![l] = d]
    <3>1. pe' = [pe EXCEPT ![l] = CASE d.eseen = "FILLED" -> y
                                   [] d.eseen \in {"CANCELLED", "REJECTED"} -> IF d.eb > 0 THEN y ELSE f
                                   [] OTHER -> d]
      BY <1>3, <2>2, <2>3, <2>4 DEF PeTickedOpening, PeGo
    <3> QED BY <2>2, <3>1 DEF Terminal
  <2>7. Kin(y, y) /\ Kin(d, d)
    BY DEF Kin
  <2>8. CASE pe' = [pe EXCEPT ![l] = y] /\ ret[l].st \in Terminal
    BY <1>1, <2>3, <2>7, <2>8, PeEnds
  <2>9. CASE pe' = [pe EXCEPT ![l] = f]
    BY <1>1, <2>2, <2>5, <2>9, PeEnds
  <2>10. CASE pe' = [pe EXCEPT ![l] = d]
    BY <1>1, <2>2, <2>7, <2>10, PeEnds
  <2> QED BY <2>6, <2>8, <2>9, <2>10
<1> QED BY <1>2, <1>3

LEMMA StoppedFlat ==
  ASSUME NEW l, NEW e, PeGo(l, e), PeStopped(l)
  PROVE  PeInv(l)'
<1>1. /\ e.doing = "stop_status" /\ PeLives(e) /\ PeWaits(l, e) /\ e \in PeType /\ e.close # "COMPLETED" /\ e.st # "new" /\ Idle(l)'
      /\ call[l].op = "none" /\ ret[l].kind # "none" /\ e.pos = "OPENING" /\ e.exit = None
  <2>1. PeBack(l, "stop_status") /\ call' = call
    BY DEF PeStopped
  <2>2. e.doing = "stop_status" /\ call[l].op = "none" /\ ret[l].kind # "none" /\ Idle(l)'
    BY <2>1, PeBackIs
  <2> QED BY <2>2, PeBusy DEF PeLives
<1>2. CASE ret[l].kind # "ok"
  <2>1. PICK x : x = Failed(e) /\ pe' = [pe EXCEPT ![l] = x]
    BY <1>2 DEF PeStopped, PeGo
  <2>2. x.st = "TERMINATED" /\ x.doing = "none" /\ x.pos = e.pos /\ Kin(e, x) /\ x.close # "COMPLETED"
    BY <1>1, <2>1, FailedIs
  <2> QED BY <1>1, <1>2, <2>1, <2>2, KeptOwn, PeEnds
<1>3. CASE ret[l].kind = "ok"
  <2>2. PICK d \in PeType :
           /\ d = Done(PeEntry(e, ret[l])) /\ Kept(l, d) /\ d.eseen = ret[l].st /\ d.pos = "OPENING" /\ d.exit = None
           /\ d.doing = "none" /\ d.st = e.st /\ d.close = e.close
           /\ \E y \in PeType : y = Opened(d) /\ (ret[l].st \in Terminal => Kept(l, y)) /\ y.exit = None /\ y.doing = "none" /\ y.st = e.st /\ y.close = e.close
    BY <1>1, <1>3, EntryRead
  <2>3. PICK y \in PeType : y = Opened(d) /\ (ret[l].st \in Terminal => Kept(l, y)) /\ y.exit = None /\ y.doing = "none" /\ y.st = e.st /\ y.close = e.close
    BY <2>2
  <2>4. PICK f : f = Failed(d)
    OBVIOUS
  <2>5. f.st = "TERMINATED" /\ f.doing = "none" /\ f.pos = d.pos /\ Kin(d, f) /\ f.close # "COMPLETED"
    BY <1>1, <2>2, <2>4, FailedIs
  <2>6. PICK s : s = PeTerminated(d, "EARLY_STOP")
    OBVIOUS
  <2>7. s.st = "TERMINATED" /\ s.doing = "none" /\ s.pos = d.pos /\ Kin(d, s) /\ s.close # "COMPLETED"
    <3>1. "EARLY_STOP" \in Closes
      BY DEF Closes
    <3>2. s.st = "TERMINATED" /\ s.doing = d.doing /\ s.pos = d.pos /\ Kin(d, s) /\ s.close = IF d.st = "TERMINATED" THEN d.close ELSE "EARLY_STOP"
      BY <2>6, <3>1, PeEndedIs
    <3> QED BY <1>1, <2>2, <3>2
  <2>8. \/ pe' = [pe EXCEPT ![l] = y] /\ ret[l].st \in Terminal
        \/ pe' = [pe EXCEPT ![l] = f]
        \/ pe' = [pe EXCEPT ![l] = s]
    <3>1. pe' = [pe EXCEPT ![l] = IF d.eseen = "FILLED" /\ d.eb > 0 THEN y ELSE IF d.eseen \in Terminal THEN s ELSE f]
      BY <1>3, <2>2, <2>3, <2>4, <2>6 DEF PeStopped, PeGo
    <3> QED BY <2>2, <3>1 DEF Terminal
  <2>9. Kin(y, y)
    BY DEF Kin
  <2>10. CASE pe' = [pe EXCEPT ![l] = y] /\ ret[l].st \in Terminal
    BY <1>1, <2>3, <2>9, <2>10, PeEnds
  <2>11. CASE pe' = [pe EXCEPT ![l] = f]
    BY <1>1, <2>2, <2>5, <2>11, PeEnds
  <2>12. CASE pe' = [pe EXCEPT ![l] = s]
    BY <1>1, <2>2, <2>7, <2>12, PeEnds
  <2> QED BY <2>8, <2>10, <2>11, <2>12
<1> QED BY <1>2, <1>3

LEMMA BarrierFlat ==
  ASSUME NEW l, NEW e, PeGo(l, e), PeBarrier(l)
  PROVE  PeInv(l)'
<1>1. PeFree(l) /\ UNCHANGED ret /\ e.st = "ACTIVE" /\ e.pos = "ACTIVE_POSITION"
  BY DEF PeBarrier, PeGo
<1>2. PICK market \in BOOLEAN : Closing(l, e, market, "close")
  BY DEF PeBarrier, PeGo
<1>3. /\ Kept(l, e) /\ e \in PeType /\ PeLives(e) /\ e.close # "COMPLETED" /\ None \notin book
      /\ (call' = call => Idle(l)') /\ \A c : Start(l, c) => call'[l] = c
  BY <1>1, PeFreeIs, PeBusy
<1>4. e.exit \notin book
  BY <1>1, <1>3 DEF PeLives
<1> QED BY <1>1, <1>2, <1>3, <1>4, PeClosing

LEMMA StopOpeningFlat ==
  ASSUME NEW l, NEW e, PeGo(l, e), PeStopOpening(l)
  PROVE  PeInv(l)'
<1>1. PeFree(l) /\ UNCHANGED ret /\ e.st = "ACTIVE" /\ e.pos = "OPENING"
  BY DEF PeStopOpening, PeGo
<1>2. /\ Kept(l, e) /\ e \in PeType /\ PeLives(e) /\ e.close # "COMPLETED" /\ e.doing = "none" /\ e.exit = None
      /\ (call' = call => Idle(l)') /\ \A c : Start(l, c) => call'[l] = c
  BY <1>1, PeFreeIs, PeBusy DEF PeLives
<1>3. CASE e.entry # None /\ e.eseen = "OPEN"
  <2>1. PICK x : x = [e EXCEPT !.doing = "stop_cancel"] /\ pe' = [pe EXCEPT ![l] = x]
    BY <1>3 DEF PeStopOpening, PeGo
  <2>2. x.doing = "stop_cancel" /\ Twin(e, x)
    BY <1>2, <2>1, DoneIs DEF PeDoing
  <2>3. call'[l] = CancelOrder(x.entry)
    BY <1>2, <1>3, <2>2 DEF PeStopOpening, PeGo, Twin, Kin
  <2>4. PeLives(x) /\ Kin(e, x)
    BY <1>1, <1>2, <1>3, <2>2 DEF PeLives, Twin, Kin
  <2> QED BY <1>2, <2>1, <2>2, <2>3, <2>4, KeptSame, PeTurned, WaitsAnswer
<1>4. CASE ~(e.entry # None /\ e.eseen = "OPEN")
  <2>1. PICK x : x = PeTerminated(e, "EARLY_STOP") /\ pe' = [pe EXCEPT ![l] = x] /\ call' = call
    BY <1>4 DEF PeStopOpening, PeGo
  <2>2. x.st = "TERMINATED" /\ x.doing = "none" /\ x.pos = e.pos /\ Kin(e, x) /\ x.close # "COMPLETED"
    BY <1>1, <1>2, <2>1, PeEndedIs DEF Closes
  <2> QED BY <1>1, <1>2, <2>1, <2>2, PeEnds
<1> QED BY <1>3, <1>4

LEMMA StopPositionFlat ==
  ASSUME NEW l, NEW e, PeGo(l, e), PeStopPosition(l)
  PROVE  PeInv(l)'
<1>1. PeFree(l) /\ UNCHANGED ret /\ e.st = "ACTIVE" /\ e.pos = "ACTIVE_POSITION"
  BY DEF PeStopPosition, PeGo
<1>2. /\ Kept(l, e) /\ e \in PeType /\ PeLives(e) /\ e.close # "COMPLETED" /\ None \notin book /\ e.doing = "none" /\ e.exit = None
      /\ (call' = call => Idle(l)') /\ \A c : Start(l, c) => call'[l] = c
  BY <1>1, PeFreeIs, PeBusy DEF PeLives
<1>3. CASE l \in KeepPosition
  <2>1. PICK x : x = PeTerminated([e EXCEPT !.pos = "TERMINATED"], "EARLY_STOP") /\ pe' = [pe EXCEPT ![l] = x] /\ call' = call
    BY <1>3 DEF PeStopPosition, PeGo
  <2>2. x.st = "TERMINATED" /\ x.doing = "none" /\ x.pos = "TERMINATED" /\ Kin(e, x) /\ x.close # "COMPLETED"
    BY <1>1, <1>2, <2>1, KeptPosIs
  <2> QED BY <1>1, <1>2, <2>1, <2>2, PeEnds
<1>4. CASE l \notin KeepPosition
  <2>1. Closing(l, e, TRUE, "close")
    BY <1>4 DEF PeStopPosition, PeGo
  <2> QED BY <1>1, <1>2, <2>1, PeClosing
<1> QED BY <1>3, <1>4

\* What an answer about the exit makes of the record.
LEMMA ExitRead ==
  ASSUME NEW l, NEW e, PeGo(l, e), e.doing \in {"close", "escalate", "poll", "stop_close_status"}, ret[l].kind = "ok", call[l].op = "none"
  PROVE  \E d \in PeType :
           /\ d = PeExit(e, ret[l]) /\ Kept(l, d) /\ d.xseen = ret[l].st /\ d.pos = "CLOSING" /\ d.exit # None
           /\ d.doing = e.doing /\ d.st = e.st /\ d.close = e.close /\ d.xseen # "none"
           /\ (d.xseen \in Terminal => d.exit \notin book) /\ (d.xseen = "FILLED" => d.eb <= Sells)
           /\ e.doing = "stop_close_status" /\ e.st = "ACTIVE" => d.exit \notin book
<1>1. /\ PeHolds(l, e) /\ PeWaits(l, e) /\ PeLives(e) /\ e \in PeType /\ e.pos = "CLOSING" /\ ret[l] \in RetType
  BY PeBusy DEF PeLives, PeGo, AdapterTypes
<1>2. PICK o \in Exits(l) : Returned(l, o) /\ SaysFilled(l, e) /\ (e.exit = o \/ (e.exit \notin book /\ e.doing \in {"close", "escalate"}))
  <2>1. CASE e.doing \in {"close", "escalate"}
    <3>1. e.exit \notin book
      BY <1>1, <2>1 DEF PeLives
    <3>2. ~Refused(l)
      BY DEF Refused
    <3> QED BY <1>1, <2>1, <3>1, <3>2 DEF PeWaits
  <2>2. CASE e.doing \in {"poll", "stop_close_status"}
    <3>1. Returned(l, e.exit) /\ SaysFilled(l, e)
      BY <1>1, <2>2 DEF PeWaits, Answering, Asks, Returned
    <3>2. e.exit \in Exits(l)
      BY <1>1, <2>2 DEF PeLives, PeHolds, PeExited
    <3> QED BY <3>1, <3>2
  <2> QED BY <2>1, <2>2
<1>3. PICK d : d = PeExit(e, ret[l])
  OBVIOUS
<1>4. ret[l].st # "none" /\ (ret[l].st = "FILLED" => e.eb <= Sells)
  BY <1>2 DEF SaysFilled
<1>5. /\ Kept(l, d) /\ d \in PeType /\ d.doing = e.doing /\ d.st = e.st /\ d.close = e.close /\ d.pos = "CLOSING"
      /\ d.exit = o /\ d.xseen = ret[l].st /\ d.eb = e.eb /\ (d.xseen \in Terminal => o \notin book)
  BY <1>1, <1>2, <1>3, <1>4, KeptExit
<1>6. e.doing = "stop_close_status" /\ e.st = "ACTIVE" => o \notin book
  BY <1>1, <1>2 DEF PeLives
<1>7. o # None
  BY OrderFacts DEF Exits, Known, Sent
<1> QED BY <1>3, <1>4, <1>5, <1>6, <1>7

\* A record whose exit was read goes on.
LEMMA ExitGoesOn ==
  ASSUME NEW l, NEW e, PeGo(l, e), NEW d \in PeType, Kept(l, d), d.pos = "CLOSING", d.st # "new", d.close # "COMPLETED",
         pe' = [pe EXCEPT ![l] = Done(d)], Idle(l)'
  PROVE  PeInv(l)'
<1>1. PICK x : x = Done(d)
  OBVIOUS
<1>2. x.doing = "none" /\ Kin(d, x) /\ x.pos = d.pos /\ x.st = d.st /\ x.close = d.close
  BY <1>1, DoneIs DEF PeDoing, Twin
<1> QED BY <1>1, <1>2, PeEnds

LEMMA FailedFlat ==
  ASSUME NEW l, NEW e, PeGo(l, e), e.doing # "none", ret[l].kind # "ok", Idle(l)', pe' = [pe EXCEPT ![l] = Failed(e)]
  PROVE  PeInv(l)'
<1>1. PICK x : x = Failed(e)
  OBVIOUS
<1>2. PeLives(e) /\ e \in PeType /\ e.close # "COMPLETED" /\ Kept(l, e)
  BY PeBusy, KeptOwn
<1>3. x.st = "TERMINATED" /\ x.doing = "none" /\ x.pos = e.pos /\ Kin(e, x) /\ x.close # "COMPLETED"
  BY <1>1, <1>2, FailedIs
<1>4. (e.pos = "OPENING" => e.exit = None) /\ (x.pos = "ACTIVE_POSITION" => x.exit = None)
  BY <1>2, <1>3 DEF PeLives, Kin
<1> QED BY <1>1, <1>2, <1>3, <1>4, PeEnds

LEMMA CloseAnsweredFlat ==
  ASSUME NEW l, NEW e, PeGo(l, e), PeCloseAnswered(l)
  PROVE  PeInv(l)'
<1>1. PICK what \in {"close", "poll"} : PeBack(l, what)
  BY DEF PeCloseAnswered
<1>2. /\ e.doing \in {"close", "poll"} /\ call[l].op = "none" /\ ret[l].kind # "none"
      /\ (call' = call => Idle(l)') /\ \A c : Start(l, c) => call'[l] = c
  BY <1>1, PeBackIs
<1>3. /\ PeLives(e) /\ e \in PeType /\ e.close # "COMPLETED" /\ e.st # "new" /\ e.pos = "CLOSING" /\ ret[l].kind \in {"ok", "failed", "throttled"}
  BY <1>2, PeBusy DEF PeLives, PeGo, AdapterTypes, RetType
\* An answer that is none has no status.
<1>n. ret[l].kind # "ok" => PeExit(e, ret[l]).xseen = "none"
  <2>1. ret[l] \in RetType /\ (ret[l].kind # "ok" => ret[l].st = "none")
    BY DEF PeGo, AdapterTypes, RetPlain
  <2>2. PICK d : d = PeExit(e, ret[l])
    OBVIOUS
  <2>3. d.xseen = ret[l].st
    BY <1>3, <2>1, <2>2, ExitRecord
  <2> QED BY <2>1, <2>2, <2>3
<1>4. CASE ret[l].kind = "failed"
  <2>1. pe' = [pe EXCEPT ![l] = Failed(e)] /\ call' = call
    BY <1>n, <1>4 DEF PeCloseAnswered, PeGo, CloseDone
  <2> QED BY <1>2, <1>4, <2>1, FailedFlat
<1>5. CASE ret[l].kind = "throttled"
  <2>1. pe' = [pe EXCEPT ![l] = Done(e)] /\ call' = call
    BY <1>n, <1>5 DEF PeCloseAnswered, PeGo, CloseDone
  <2> QED BY <1>2, <1>3, <1>5, <2>1, KeptOwn, ExitGoesOn
<1>6. CASE ret[l].kind = "ok"
  <2>1. PICK d \in PeType :
           /\ d = PeExit(e, ret[l]) /\ Kept(l, d) /\ d.xseen = ret[l].st /\ d.pos = "CLOSING" /\ d.exit # None
           /\ d.doing = e.doing /\ d.st = e.st /\ d.close = e.close /\ d.xseen # "none"
           /\ (d.xseen \in Terminal => d.exit \notin book) /\ (d.xseen = "FILLED" => d.eb <= Sells)
    BY <1>2, <1>6, ExitRead
  <2>2. \/ d.xseen = "FILLED" /\ pe' = [pe EXCEPT ![l] = Finalized(d)] /\ call' = call
        \/ d.xseen \in {"CANCELLED", "REJECTED"} /\ Closing(l, d, TRUE, "escalate")
        \/ pe' = [pe EXCEPT ![l] = Done(d)] /\ call' = call
    BY <1>6, <2>1 DEF PeCloseAnswered, PeGo, CloseDone
  <2>3. CASE d.xseen = "FILLED" /\ pe' = [pe EXCEPT ![l] = Finalized(d)] /\ call' = call
    BY <1>2, <2>1, <2>3, PeFinishes DEF Terminal
  <2>4. CASE d.xseen \in {"CANCELLED", "REJECTED"} /\ Closing(l, d, TRUE, "escalate")
    <3>1. d.exit \notin book
      BY <2>1, <2>4 DEF Terminal
    <3> QED BY <1>2, <1>3, <2>1, <2>4, <3>1, PeClosing
  <2>5. CASE pe' = [pe EXCEPT ![l] = Done(d)] /\ call' = call
    BY <1>2, <1>3, <2>1, <2>5, ExitGoesOn
  <2> QED BY <2>2, <2>3, <2>4, <2>5
<1> QED BY <1>3, <1>4, <1>5, <1>6

LEMMA EscalatedFlat ==
  ASSUME NEW l, NEW e, PeGo(l, e), PeEscalated(l)
  PROVE  PeInv(l)'
<1>1. PeBack(l, "escalate") /\ call' = call
  BY DEF PeEscalated
<1>2. e.doing = "escalate" /\ call[l].op = "none" /\ ret[l].kind # "none" /\ Idle(l)'
  BY <1>1, PeBackIs
<1>3. /\ PeLives(e) /\ e \in PeType /\ e.close # "COMPLETED" /\ e.st # "new"
  BY <1>2, PeBusy
<1>4. CASE ret[l].kind # "ok"
  <2>1. pe' = [pe EXCEPT ![l] = Failed(e)]
    BY <1>4 DEF PeEscalated, PeGo
  <2> QED BY <1>2, <1>4, <2>1, FailedFlat
<1>5. CASE ret[l].kind = "ok"
  <2>1. PICK d \in PeType :
           /\ d = PeExit(e, ret[l]) /\ Kept(l, d) /\ d.xseen = ret[l].st /\ d.pos = "CLOSING" /\ d.exit # None
           /\ d.doing = e.doing /\ d.st = e.st /\ d.close = e.close /\ d.xseen # "none"
           /\ (d.xseen \in Terminal => d.exit \notin book) /\ (d.xseen = "FILLED" => d.eb <= Sells)
    BY <1>2, <1>5, ExitRead
  <2>2. \/ d.xseen = "FILLED" /\ pe' = [pe EXCEPT ![l] = Finalized(d)]
        \/ pe' = [pe EXCEPT ![l] = Done(d)]
    BY <1>5, <2>1 DEF PeEscalated, PeGo, CloseDone
  <2>3. CASE d.xseen = "FILLED" /\ pe' = [pe EXCEPT ![l] = Finalized(d)]
    BY <1>2, <2>1, <2>3, PeFinishes DEF Terminal
  <2>4. CASE pe' = [pe EXCEPT ![l] = Done(d)]
    BY <1>2, <1>3, <2>1, <2>4, ExitGoesOn
  <2> QED BY <2>2, <2>3, <2>4
<1> QED BY <1>4, <1>5

\* A cancel came back, and the status is read.
To(e, doing) == [e EXCEPT !.doing = doing]
LEMMA CancelledIs ==
  ASSUME NEW e \in PeType, e.close # "COMPLETED", e.st # "new", NEW failed \in BOOLEAN, NEW doing \in PeDoing,
         NEW x, x = To(IF failed THEN PeTerminated(e, "FAILED") ELSE e, doing)
  PROVE  /\ x.doing = doing /\ Kin(e, x) /\ x.pos = e.pos /\ x.close # "COMPLETED" /\ x.st # "new"
         /\ failed => x.st = "TERMINATED"
<1>1. CASE failed
  <2>1. PICK d : d = PeTerminated(e, "FAILED")
    OBVIOUS
  <2>2. /\ d.st = "TERMINATED" /\ d.pos = e.pos /\ Kin(e, d) /\ d \in PeType
        /\ d.close = IF e.st = "TERMINATED" THEN e.close ELSE "FAILED"
    BY <2>1, PeEndedIs DEF Closes
  <2>3. x.doing = doing /\ Twin(d, x)
    <3>1. x = [d EXCEPT !.doing = doing]
      BY <1>1, <2>1 DEF To
    <3> QED BY <2>2, <3>1, DoneIs
  <2> QED BY <2>2, <2>3 DEF Twin, Kin
<1>2. CASE ~failed
  <2>1. x.doing = doing /\ Twin(e, x)
    <3>1. x = [e EXCEPT !.doing = doing]
      BY <1>2 DEF To
    <3> QED BY <3>1 DEF PeType, Twin, Kin
  <2> QED BY <1>2, <2>1 DEF Twin
<1> QED BY <1>1, <1>2

LEMMA StopCancelledFlat ==
  ASSUME NEW l, NEW e, PeGo(l, e), PeStopCancelled(l)
  PROVE  PeInv(l)'
<1>1. PeBack(l, "stop_cancel") /\ Start(l, OrderStatus(e.entry))
  BY DEF PeStopCancelled, PeGo
<1>2. e.doing = "stop_cancel" /\ call'[l] = OrderStatus(e.entry)
  BY <1>1, PeBackIs
<1>3. /\ PeLives(e) /\ e \in PeType /\ e.close # "COMPLETED" /\ e.st # "new" /\ e.pos = "OPENING" /\ e.entry # None /\ e.exit = None
  BY <1>2, PeBusy DEF PeLives
<1>4. PICK failed \in BOOLEAN : failed = (ret[l].kind = "failed")
  OBVIOUS
<1>5. PICK x : x = To(IF failed THEN PeTerminated(e, "FAILED") ELSE e, "stop_status") /\ pe' = [pe EXCEPT ![l] = x]
  BY <1>4 DEF PeStopCancelled, PeGo, To
<1>6. x.doing = "stop_status" /\ Kin(e, x) /\ x.pos = e.pos /\ x.close # "COMPLETED" /\ x.st # "new"
  <2>1. "stop_status" \in PeDoing
    BY DEF PeDoing
  <2> QED BY <1>3, <1>5, <2>1, CancelledIs
<1>7. Kept(l, e) /\ PeLives(x) /\ call'[l] = OrderStatus(x.entry)
  BY <1>2, <1>3, <1>6, KeptOwn DEF PeLives, Kin
<1> QED BY <1>5, <1>6, <1>7, KeptSame, PeTurned, WaitsAnswer

LEMMA StopCloseCancelledFlat ==
  ASSUME NEW l, NEW e, PeGo(l, e), PeStopCloseCancelled(l)
  PROVE  PeInv(l)'
<1>1. PeBack(l, "stop_close_cancel") /\ Start(l, OrderStatus(e.exit))
  BY DEF PeStopCloseCancelled, PeGo
<1>2. e.doing = "stop_close_cancel" /\ call'[l] = OrderStatus(e.exit) /\ call[l].op = "none"
  BY <1>1, PeBackIs
<1>3. /\ PeLives(e) /\ PeWaits(l, e) /\ e \in PeType /\ e.close # "COMPLETED" /\ e.st # "new" /\ e.pos = "CLOSING" /\ e.exit # None
  BY <1>2, PeBusy DEF PeLives
<1>4. PICK failed \in BOOLEAN : failed = (ret[l].kind = "failed")
  OBVIOUS
<1>5. PICK x : x = To(IF failed THEN PeTerminated(e, "FAILED") ELSE e, "stop_close_status") /\ pe' = [pe EXCEPT ![l] = x]
  BY <1>4 DEF PeStopCloseCancelled, PeGo, To
<1>6. /\ x.doing = "stop_close_status" /\ Kin(e, x) /\ x.pos = e.pos /\ x.close # "COMPLETED" /\ x.st # "new"
      /\ failed => x.st = "TERMINATED"
  <2>1. "stop_close_status" \in PeDoing
    BY DEF PeDoing
  <2> QED BY <1>3, <1>5, <2>1, CancelledIs
\* A cancel that did not fail took the exit off the book.
<1>7. ~failed => e.exit \notin book
  BY <1>2, <1>3, <1>4 DEF PeWaits, Answering, Cancels
<1>8. Kept(l, e) /\ PeLives(x) /\ call'[l] = OrderStatus(x.exit)
  BY <1>2, <1>3, <1>6, <1>7, KeptOwn DEF PeLives, Kin
<1> QED BY <1>5, <1>6, <1>8, KeptSame, PeTurned, WaitsAnswer

LEMMA StopClosingFlat ==
  ASSUME NEW l, NEW e, PeGo(l, e), PeStopClosing(l)
  PROVE  PeInv(l)'
<1>1. PeFree(l) /\ UNCHANGED ret /\ e.st = "ACTIVE" /\ e.pos = "CLOSING"
  BY DEF PeStopClosing, PeGo
<1>2. /\ Kept(l, e) /\ e \in PeType /\ PeLives(e) /\ e.close # "COMPLETED" /\ None \notin book /\ e.doing = "none"
      /\ (call' = call => Idle(l)') /\ \A c : Start(l, c) => call'[l] = c
  BY <1>1, PeFreeIs, PeBusy
<1>3. CASE e.exit # None /\ e.xseen \in {"OPEN", "PARTIALLY_FILLED"}
  <2>1. PICK x : x = [e EXCEPT !.doing = "stop_close_cancel"] /\ pe' = [pe EXCEPT ![l] = x]
    BY <1>3 DEF PeStopClosing, PeGo
  <2>2. x.doing = "stop_close_cancel" /\ Twin(e, x)
    BY <1>2, <2>1, DoneIs DEF PeDoing
  <2>3. call'[l] = CancelOrder(x.exit)
    BY <1>2, <1>3, <2>2 DEF PeStopClosing, PeGo, Twin, Kin
  <2>4. PeLives(x) /\ Kin(e, x)
    BY <1>1, <1>2, <1>3, <2>2 DEF PeLives, Twin, Kin
  <2> QED BY <1>2, <2>1, <2>2, <2>3, <2>4, KeptSame, PeTurned, WaitsAnswer
<1>4. CASE ~(e.exit # None /\ e.xseen \in {"OPEN", "PARTIALLY_FILLED"})
  <2>1. Closing(l, e, TRUE, "escalate")
    BY <1>4 DEF PeStopClosing, PeGo
  <2>2. e.exit \notin book
    BY <1>2, <1>4 DEF Kept, PeExited
  <2> QED BY <1>1, <1>2, <2>1, <2>2, PeClosing
<1> QED BY <1>3, <1>4

LEMMA StopCloseRefreshedFlat ==
  ASSUME NEW l, NEW e, PeGo(l, e), PeStopCloseRefreshed(l)
  PROVE  PeInv(l)'
<1>1. PeBack(l, "stop_close_status")
  BY DEF PeStopCloseRefreshed
<1>2. /\ e.doing = "stop_close_status" /\ call[l].op = "none"
      /\ (call' = call => Idle(l)') /\ \A c : Start(l, c) => call'[l] = c
  BY <1>1, PeBackIs
<1>3. /\ PeLives(e) /\ e \in PeType /\ e.close # "COMPLETED" /\ e.st # "new" /\ e.pos = "CLOSING"
  BY <1>2, PeBusy DEF PeLives
<1>4. CASE ret[l].kind = "ok"
  <2>1. PICK d \in PeType :
           /\ d = PeExit(e, ret[l]) /\ Kept(l, d) /\ d.pos = "CLOSING" /\ d.st = e.st /\ d.close = e.close
           /\ e.doing = "stop_close_status" /\ e.st = "ACTIVE" => d.exit \notin book
    BY <1>2, <1>4, ExitRead
  <2>2. \/ pe' = [pe EXCEPT ![l] = Done(d)] /\ call' = call
        \/ d.st # "TERMINATED" /\ Closing(l, d, TRUE, "escalate")
    BY <1>4, <2>1 DEF PeStopCloseRefreshed, PeGo
  <2>3. CASE pe' = [pe EXCEPT ![l] = Done(d)] /\ call' = call
    BY <1>2, <1>3, <2>1, <2>3, ExitGoesOn
  <2>4. CASE d.st # "TERMINATED" /\ Closing(l, d, TRUE, "escalate")
    <3>1. d.exit \notin book
      BY <1>2, <1>3, <2>1, <2>4 DEF PeType
    <3> QED BY <1>2, <1>3, <2>1, <2>4, <3>1, PeClosing
  <2> QED BY <2>2, <2>3, <2>4
<1>5. CASE ret[l].kind # "ok"
  <2>1. PICK d : d = PeTerminated(e, "FAILED")
    OBVIOUS
  <2>2. /\ d.st = "TERMINATED" /\ d.pos = e.pos /\ Kin(e, d) /\ d \in PeType
        /\ d.close = IF e.st = "TERMINATED" THEN e.close ELSE "FAILED"
    BY <1>3, <2>1, PeEndedIs DEF Closes
  <2>3. pe' = [pe EXCEPT ![l] = Done(d)] /\ call' = call
    BY <1>5, <2>1, <2>2 DEF PeStopCloseRefreshed, PeGo
  <2>4. Kept(l, d)
    BY <1>5, <2>2, KeptOwn, KeptSame
  <2> QED BY <1>2, <1>3, <2>2, <2>3, <2>4, ExitGoesOn
<1> QED BY <1>4, <1>5

\* So every step of a position executor keeps what is known of its own leg.
LEMMA PeStepFlat ==
  ASSUME NEW l, NEW e, PeGo(l, e), PeStep(l)
  PROVE  PeInv(l)'
  BY SpawnFlat, SpawnedFlat, AskFlat, TickedOpeningFlat, BarrierFlat, CloseAnsweredFlat, EscalatedFlat, StopOpeningFlat, StopCancelledFlat,
     StoppedFlat, StopPositionFlat, StopClosingFlat, StopCloseCancelledFlat, StopCloseRefreshedFlat DEF PeStep

-----------------------------------------------------------------------------
(* What no leg's step disturbs.                                              *)

\* A call under way neither becomes one that closes nor comes back with a status and no answer.
LEMMA CallPlain ==
  ASSUME AdapterTypes, RetPlain, OneAtATime, NEW l \in Legs, AdapterStep(l)
  PROVE  RetPlain' /\ \A k \in Legs : call'[k].exit => call[k].exit
<1>0. ret \in [Legs -> RetType] /\ call \in [Legs -> CallType] /\ ~NoCall.exit
  BY DEF AdapterTypes, NoCall
<1>1. ASSUME \A k \in Legs \ {l} : call'[k] = call[k] /\ ret'[k] = ret[k],
             ret'[l].kind # "ok" => ret'[l].st = "none", call'[l].exit => call[l].exit
      PROVE  RetPlain' /\ \A k \in Legs : call'[k].exit => call[k].exit
  BY <1>1 DEF RetPlain
<1>2. ASSUME NEW r \in RetType, r.kind # "ok" => r.st = "none", Deliver(l, r)
      PROVE  RetPlain' /\ \A k \in Legs : call'[k].exit => call[k].exit
  BY <1>0, <1>1, <1>2, DeliverTypes
<1>3. ASSUME NEW s \in Status \cup {NoStatus}, Answer(l, s)
      PROVE  RetPlain' /\ \A k \in Legs : call'[k].exit => call[k].exit
  BY <1>0, <1>1, <1>3, AnswerTypes
<1>4. ASSUME Retry(l)
      PROVE  RetPlain' /\ \A k \in Legs : call'[k].exit => call[k].exit
  BY <1>0, <1>1, <1>4, RetryTypes DEF RetPlain
<1>5. ASSUME ret' = ret, \A k \in Legs \ {l} : call'[k] = call[k], call'[l].exit = call[l].exit
      PROVE  RetPlain' /\ \A k \in Legs : call'[k].exit => call[k].exit
  BY <1>1, <1>5 DEF RetPlain
<1>6. /\ [NoRet EXCEPT !.kind = "throttled"] \in RetType /\ [NoRet EXCEPT !.kind = "throttled"].st = "none"
      /\ [NoRet EXCEPT !.kind = "failed"] \in RetType /\ [NoRet EXCEPT !.kind = "failed"].st = "none"
  BY DEF NoRet, RetType
<1>7. /\ [st |-> "none", base |-> 0] \in Status \cup {NoStatus} /\ [st |-> "OPEN", base |-> 0] \in Status
      /\ [st |-> "PARTIALLY_FILLED", base |-> 0] \in Status
  BY DEF NoStatus, Status
<1>8. CASE PlaceRejected(l) \/ PlaceUnanswered(l) \/ CancelRefuted(l) \/ StatusUnknown(l) \/ StatusError(l)
  BY <1>4, <1>8 DEF PlaceRejected, PlaceUnanswered, CancelRefuted, StatusUnknown, StatusError
<1>9. CASE PlaceThrottled(l) \/ ReplaceThrottled(l)
  BY <1>2, <1>6, <1>9 DEF PlaceThrottled, ReplaceThrottled
<1>10. CASE ReplaceRejected(l) \/ ReplaceUnanswered(l)
  BY <1>2, <1>6, <1>10 DEF ReplaceRejected, ReplaceUnanswered
<1>11. CASE Cancelled(l) \/ CancelVerified(l) \/ CancelUnknown(l)
  BY <1>3, <1>7, <1>11 DEF Cancelled, CancelVerified, CancelUnknown
<1>12. CASE CancelNotConfirmed(l)
  BY <1>0, <1>5, <1>12 DEF CancelNotConfirmed
<1>13. CASE Replaced(l)
  <2>1. PICK r : r = [kind |-> "ok", order |-> NextOrder(l), st |-> "OPEN", base |-> 0] /\ Deliver(l, r)
    BY <1>13 DEF Replaced
  <2>2. NextOrder(l) \in Orders
    BY <1>13, OnVenueTypes DEF Replaced
  <2>3. r \in RetType /\ r.kind = "ok"
    BY <2>1, <2>2 DEF RetType
  <2> QED BY <1>2, <2>1, <2>3
<1>14. CASE PlaceAccepted(l)
  <2>1. NextOrder(l) \in Orders
    <3>1. Crossed(l) \in Nat
      BY <1>0, CrossedTypes DEF CallType
    <3> QED BY <1>14, <3>1, OnVenueTypes DEF PlaceAccepted
  <2>2. CASE call[l].market
    <3>1. call' = [call EXCEPT ![l].op = "placed_fills", ![l].order = NextOrder(l)] /\ ret' = ret
      BY <1>14, <2>2 DEF PlaceAccepted
    <3>2. (\A k \in Legs \ {l} : call'[k] = call[k]) /\ call'[l].exit = call[l].exit
      BY <1>0, <3>1 DEF CallType
    <3> QED BY <1>5, <3>1, <3>2
  <2>3. CASE ~call[l].market
    <3>1. PICK r : r = [kind |-> "ok", order |-> NextOrder(l), st |-> "OPEN", base |-> 0] /\ Deliver(l, r)
      BY <1>14, <2>3 DEF PlaceAccepted
    <3>2. r \in RetType /\ r.kind = "ok"
      BY <2>1, <3>1 DEF RetType
    <3> QED BY <1>2, <3>1, <3>2
  <2> QED BY <2>2, <2>3
<1>15. CASE PlacedFills(l)
  <2>1. \/ call[l].order \in Orders \cup {None} /\ PlacedFills(l)
    BY <1>0, <1>15 DEF CallType
  <2>2. PICK r : r.kind = "ok" /\ Deliver(l, r)
    BY <1>15 DEF PlacedFills, Answer
  <2>3. call' = [call EXCEPT ![l] = NoCall] /\ ret' = [ret EXCEPT ![l] = r]
    BY <2>2 DEF Deliver
  <2>4. call'[l] = NoCall /\ ret'[l] = r /\ \A k \in Legs \ {l} : call'[k] = call[k] /\ ret'[k] = ret[k]
    BY <1>0, <2>3
  <2> QED BY <1>0, <1>1, <2>2, <2>4
<1>16. CASE StatusCached(l) \/ HeldFills(l) \/ FinalFills(l)
  <2>1. PICK r : r.kind = "ok" /\ Deliver(l, r)
    BY <1>16 DEF StatusCached, HeldFills, FinalFills, Answer
  <2>3. call' = [call EXCEPT ![l] = NoCall] /\ ret' = [ret EXCEPT ![l] = r]
    BY <2>1 DEF Deliver
  <2>4. call'[l] = NoCall /\ ret'[l] = r /\ \A k \in Legs \ {l} : call'[k] = call[k] /\ ret'[k] = ret[k]
    BY <1>0, <2>3
  <2> QED BY <1>0, <1>1, <2>1, <2>4
<1>17. CASE StatusBook(l)
  <2>1. \/ Answer(l, [st |-> "OPEN", base |-> 0])
        \/ ret' = ret /\ \E op : call' = [call EXCEPT ![l].op = op]
    <3>1. PICK s \in OpenOrdersCoalesced(call[l].order) :
             \/ Answer(l, [st |-> "OPEN", base |-> 0])
             \/ call' = [call EXCEPT ![l].op = AfterBook(call[l].order, s)] /\ ret' = ret
      BY <1>17 DEF StatusBook
    <3> QED BY <3>1
  <2>2. CASE Answer(l, [st |-> "OPEN", base |-> 0])
    BY <1>3, <1>7, <2>2
  <2>3. CASE ret' = ret /\ \E op : call' = [call EXCEPT ![l].op = op]
    BY <1>0, <1>5, <2>3 DEF CallType
  <2> QED BY <2>1, <2>2, <2>3
<1> QED BY <1>8, <1>9, <1>10, <1>11, <1>12, <1>13, <1>14, <1>15, <1>16, <1>17 DEF AdapterStep

\* Steps of executors: nothing on the venue changes, one answer is taken, one call starts.
LEMMA QuietFlat ==
  ASSUME Inv, Inv', FlatInv, UNCHANGED <<venueVars, lost, session>>,
         cache' = cache \/ \E o : cache' = [cache EXCEPT ![o] = NoStatus],
         ret' = ret \/ \E m \in Legs : ret' = [ret EXCEPT ![m] = NoRet],
         \A k \in Legs : call'[k].exit => call[k].exit \/ k \in session \cap PositionLegs,
         NEW L \in SUBSET (session \cap PositionLegs),
         \A k \in PositionLegs \ L : pe'[k] = pe[k] /\ call'[k] = call[k] /\ ret'[k] = ret[k],
         \A k \in L : "lag" \notin Faults[k] => PeInv(k)'
  PROVE  FlatInv'
<1>1. AdapterTypes /\ AdapterTypes' /\ AdapterInv /\ AdapterInv' /\ UNCHANGED <<placed, amount, filled, reduce, lost, book, session>>
      /\ reduce \subseteq Sent /\ FilledIsAll /\ ExitsOnly /\ Away
  BY DEF Inv, FlatInv, ExitsOnly, venueVars
<1>2. SentStable /\ Sent' = Sent
  BY <1>1, SameStable
<1>3. FilledIsAll'
  <2>1. \A o \in Orders : cache'[o] = cache[o] \/ cache'[o].st # "FILLED"
    BY <1>1, StatusNamed DEF AdapterTypes
  <2> QED BY <1>1, <1>2, <2>1, FilledStays
<1>4. ExitsOnly'
  BY <1>1, <1>2 DEF ExitsOnly
<1>5. RetPlain'
  BY <1>1, NullTypes DEF FlatInv, RetPlain, AdapterTypes
<1>6. Away'
  BY <1>1 DEF Away
<1>7. ASSUME NEW k \in session \cap PositionLegs, "lag" \notin Faults[k], k \notin L PROVE PeInv(k)'
  <2>1. k \in Legs /\ pe[k] \in PeGood /\ PeInv(k)
    BY <1>7, LegFacts DEF Inv, LegTypes, LegsInv, PeGood, FlatInv
  <2>2. Calm(k)
    BY <1>1, <2>1, CalmQuiet
  <2> QED BY <1>1, <1>7, <2>1, <2>2, OthersCalm
<1> QED BY <1>1, <1>3, <1>4, <1>5, <1>6, <1>7 DEF FlatInv

LEMMA VenueFlat ==
  ASSUME Inv, Inv', FlatInv, VenueStep, UNCHANGED <<pe, session>>
  PROVE  FlatInv'
<1>1. AdapterTypes /\ AdapterTypes' /\ CallsNameOrders /\ AdapterInv /\ AdapterInv' /\ reduce \subseteq Sent /\ FilledIsAll /\ ExitsOnly /\ Away
  BY DEF Inv, FlatInv, ExitsOnly
<1>2. SentStable /\ UNCHANGED <<call, ret, lost>>
  BY <1>1, VenueKeeps DEF calls
<1>3. UNCHANGED <<reduce, cache>>
  BY DEF VenueStep, BeginCycle, VenueFill, VenueDrop, FeedCatchesUp, StreamEvent, venueVars, adapterVars
<1>4. FilledIsAll'
  BY <1>1, <1>2, <1>3, FilledStays
<1>5. ExitsOnly' /\ RetPlain' /\ Away'
  BY <1>1, <1>2, <1>3 DEF ExitsOnly, SentStable, FlatInv, RetPlain, Away
<1>6. ASSUME NEW k \in session \cap PositionLegs, "lag" \notin Faults[k] PROVE PeInv(k)'
  <2>1. k \in Legs /\ pe[k] \in PeGood /\ PeInv(k)
    BY <1>6, LegFacts DEF Inv, LegTypes, LegsInv, PeGood, FlatInv
  <2>2. Calm(k)
    BY <1>1, <2>1, CalmVenue
  <2> QED BY <1>1, <1>2, <1>6, <2>1, <2>2, OthersCalm
<1> QED BY <1>4, <1>5, <1>6 DEF FlatInv

LEMMA CallFlat ==
  ASSUME Inv, Inv', FlatInv, NEW l \in session, AdapterStep(l), UNCHANGED <<pe, session>>
  PROVE  FlatInv'
<1>1. AdapterTypes /\ AdapterTypes' /\ CallsNameOrders /\ AdapterInv /\ AdapterInv' /\ OrdersSent /\ OneAtATime
      /\ reduce \subseteq Sent /\ FilledIsAll /\ ExitsOnly /\ Away /\ RetPlain /\ l \in Legs
  BY SessionsAssumption DEF Inv, FlatInv, ExitsOnly, AdapterInv, LegTypes
<1>2. SentStable /\ CallEffect(l)
  BY <1>1, CallStep
<1>3. FilledIsAll'
  BY <1>1, <1>2, CacheStep, FilledStays
<1>4. RetPlain' /\ \A k \in Legs : call'[k].exit => call[k].exit
  BY <1>1, CallPlain
<1>5. SendsNothing \/ \E n \in Nat, gone \in SUBSET (Orders \cup {None}) : Sends(l, n, gone)
  BY <1>1, CallSends
<1>6. /\ reduce' \subseteq reduce \cup {NextOrder(l)} /\ (NextOrder(l) \in reduce' => NextOrder(l) \in reduce \/ call[l].exit)
      /\ NextOrder(l) \in reduce' => NextOrder(l) \in Sent'
      /\ \A k \in Legs \ {l} : Calm(k)
  <2>1. CASE SendsNothing
    BY <1>1, <2>1, CalmQuiet DEF SendsNothing, Sent
  <2>2. ASSUME NEW n \in Nat, NEW gone, Sends(l, n, gone)
        PROVE  /\ reduce' \subseteq reduce \cup {NextOrder(l)} /\ (NextOrder(l) \in reduce' => NextOrder(l) \in reduce \/ call[l].exit)
               /\ NextOrder(l) \in reduce' => NextOrder(l) \in Sent'
               /\ \A k \in Legs \ {l} : Calm(k)
    <3>1. Sent' = Sent \cup {NextOrder(l)}
      BY <1>1, <2>2, OnVenueTypes DEF Sends
    <3>2. reduce' = IF call[l].exit THEN reduce \cup {NextOrder(l)} ELSE reduce
      BY <1>1, <2>2, NewOrder
    <3>3. \A k \in Legs \ {l} : Calm(k)
      BY <1>1, <2>2, NewOrder
    <3> QED BY <3>1, <3>2, <3>3
  <2> QED BY <1>5, <2>1, <2>2
<1>7. ExitsOnly'
  <2>1. NextOrder(l)[1] = l
    BY DEF NextOrder
  <2>2. \A o \in Sent : o \in Sent'
    BY <1>2 DEF SentStable
  <2> QED BY <1>1, <1>4, <1>6, <2>1, <2>2 DEF ExitsOnly
<1>8. Away'
  BY <1>1 DEF Away
<1>9. ASSUME NEW k \in session \cap PositionLegs, "lag" \notin Faults[k] PROVE PeInv(k)'
  <2>1. k \in Legs /\ pe[k] \in PeGood /\ PeInv(k)
    BY <1>9, LegFacts DEF Inv, LegTypes, LegsInv, PeGood, FlatInv
  <2>2. CASE k = l
    <3>1. PICK e : e = pe[l]
      OBVIOUS
    <3>2. OwnCall(l, e)
      BY <1>1, <1>2, <2>1, <2>2, <3>1 DEF OwnCall, CallEffect
    <3> QED BY <1>1, <2>2, <3>2, OwnCallKeeps
  <2>3. CASE k # l
    <3>1. Calm(k) /\ call'[k] = call[k] /\ ret'[k] = ret[k]
      BY <1>2, <1>6, <2>1, <2>3 DEF CallEffect
    <3> QED BY <1>1, <1>9, <2>1, <3>1, OthersCalm
  <2> QED BY <2>2, <2>3
<1> QED BY <1>3, <1>4, <1>7, <1>8, <1>9 DEF FlatInv

-----------------------------------------------------------------------------
(* Order executors and slots call for their own legs, and never to close.    *)

OrderCalls ==
    /\ UNCHANGED <<venueVars, lost>>
    /\ cache' = cache \/ \E o : cache' = [cache EXCEPT ![o] = NoStatus]
    /\ ret' = ret \/ \E m \in OrderLegs : Take(m)
    /\ call' = call \/ \E m \in OrderLegs : \E c : Start(m, c) /\ ~c.exit

LEMMA NothingToClose == /\ ~Place(Size, FALSE, FALSE).exit
                        /\ \A o : ~OrderStatus(o).exit /\ ~CancelOrder(o).exit /\ ~CancelAndPlace(o, Size).exit
  BY DEF Place, OrderStatus, CancelOrder, CancelAndPlace, NoCall

LEMMA ExecutorCalls ==
  ASSUME NEW l \in OrderLegs, OeStep(l)
  PROVE  OrderCalls
<1> USE DEF OrderCalls, OeQuiet, adapterVars
<1>1. CASE OeSpawn(l) \/ OeTick(l)
  BY <1>1, NothingToClose DEF OeSpawn, OeTick
<1>2. CASE OeSpawned(l) \/ OeTicked(l) \/ OeStopped(l) \/ OePrune(l)
  BY <1>2 DEF OeSpawned, OeTicked, OeStopped, OePrune
<1>3. CASE OeStop(l) \/ OeStopCancelled(l)
  BY <1>3, NothingToClose DEF OeStop, OeStopCancelled
<1> QED BY <1>1, <1>2, <1>3 DEF OeStep

LEMMA SlotCalls ==
  ASSUME LegTypes, LegsInv, NEW s \in Slots, SlotStep(s)
  PROVE  OrderCalls
<1>0. /\ LegsOf(s) \subseteq OrderLegs
      /\ slot[s].at \in {"spawn", "settle", "replace"} => slot[s].other \in LegsOf(s)
      /\ slot[s].at \in {"stop", "fallback", "replace"} => slot[s].leg \in LegsOf(s)
      /\ slot[s].leg # None => slot[s].leg \in LegsOf(s)
  BY LegFacts DEF LegsInv, SlotInv
<1>1. CASE TickExecutors(s)
  BY <1>0, <1>1, ExecutorCalls DEF TickExecutors, OeStep
<1>2. CASE Quote(s)
  BY <1>0, <1>2, ExecutorCalls DEF Quote, OeStep, NextLeg, LegsOf, Range
<1>3. CASE Quoted(s) \/ Stop(s) \/ Stopping(s)
  BY <1>0, <1>3, ExecutorCalls DEF Quoted, Stop, Stopping, OeStep, At
<1>4. CASE Release(s)
  BY <1>4 DEF Release, OeQuiet, OrderCalls, adapterVars
<1>5. CASE Replace(s)
  <2>1. PICK m \in NextLeg(s) : Start(m, CancelAndPlace(oe[slot[s].leg].order, Size))
    BY <1>5 DEF Replace
  <2>2. m \in OrderLegs
    BY <1>0, <2>1 DEF NextLeg, LegsOf, Range
  <2> QED BY <1>5, <2>1, <2>2, NothingToClose DEF Replace, OeQuiet, OrderCalls, adapterVars
<1>6. CASE ReplaceFailed(s)
  BY <1>0, <1>6 DEF ReplaceFailed, At, OeQuiet, OrderCalls, adapterVars
<1>7. CASE ReplaceDone(s)
  BY <1>0, <1>7, NothingToClose DEF ReplaceDone, At, OeQuiet, OrderCalls, adapterVars
<1>8. CASE Settle(s)
  <2>1. PICK l \in OrderLegs : OeSettle(l) /\ l = slot[s].other
    BY <1>0, <1>8 DEF Settle, At
  <2>2. UNCHANGED <<venueVars, lost>> /\ (cache' = cache \/ \E o : cache' = [cache EXCEPT ![o] = NoStatus])
    BY <1>8 DEF Settle, ForgetCancelled, Gone, adapterVars
  <2>3. Take(l) /\ (call' = call \/ \E c : Start(l, c) /\ ~c.exit)
    BY <2>1, NothingToClose DEF OeSettle, OeSettleRead, OeSettleCancelled, OeSettleChecked
  <2> QED BY <2>2, <2>3 DEF OrderCalls
<1> QED BY <1>1, <1>2, <1>3, <1>4, <1>5, <1>6, <1>7, <1>8 DEF SlotStep

LEMMA OrderFlat ==
  ASSUME Inv, Inv', FlatInv, OrderCalls, UNCHANGED <<pe, session>>
  PROVE  FlatInv'
<1>1. call \in [Legs -> CallType] /\ ret \in [Legs -> RetType] /\ OrderLegs \subseteq Legs /\ PositionLegs \subseteq Legs /\ OrderLegs \cap PositionLegs = {}
  BY LegFacts, SessionsAssumption DEF Inv, AdapterTypes
<1>2. \A k \in Legs : call'[k].exit => call[k].exit
  BY <1>1 DEF OrderCalls, Start
<1>3. \A k \in PositionLegs : call'[k] = call[k] /\ ret'[k] = ret[k] /\ pe'[k] = pe[k]
  BY <1>1 DEF OrderCalls, Start, Take
<1>4. ret' = ret \/ \E m \in Legs : ret' = [ret EXCEPT ![m] = NoRet]
  BY <1>1 DEF OrderCalls, Take
<1>5. {} \in SUBSET (session \cap PositionLegs)
  OBVIOUS
<1>6. \A k \in {} : "lag" \notin Faults[k] => PeInv(k)'
  OBVIOUS
<1> QED BY <1>2, <1>3, <1>4, <1>5, <1>6, QuietFlat DEF OrderCalls

\* A position executor is alone with its own leg.
LEMMA PositionFlat ==
  ASSUME Inv, Inv', FlatInv, NEW l \in session \cap PositionLegs, PeStep(l), UNCHANGED session
  PROVE  FlatInv'
<1>1. /\ AdapterTypes /\ AdapterTypes' /\ AdapterInv /\ LegTypes /\ LegsInv /\ l \in Legs /\ RetPlain /\ reduce \subseteq Sent
      /\ pe \in [PositionLegs -> PeType] /\ pe[l] \in PeGood /\ call \in [Legs -> CallType] /\ ret \in [Legs -> RetType]
  BY LegFacts DEF Inv, FlatInv, ExitsOnly, LegTypes, LegsInv, PeGood, AdapterTypes
<1>2. PeSteps(l)
  BY <1>1, PeStepIs
<1>3. PeQuiet /\ OwnCalls(l) /\ \E x : pe' = [pe EXCEPT ![l] = x]
  BY <1>2 DEF PeSteps
<1>4. /\ ret' = ret \/ ret' = [ret EXCEPT ![l] = NoRet]
      /\ call' = call \/ \E c : call' = [call EXCEPT ![l] = c]
  BY <1>3 DEF OwnCalls, Take, Start
<1>5. \A k \in Legs \ {l} : call'[k] = call[k] /\ ret'[k] = ret[k]
  BY <1>1, <1>4
<1>6. \A k \in PositionLegs \ {l} : pe'[k] = pe[k] /\ call'[k] = call[k] /\ ret'[k] = ret[k]
  BY <1>1, <1>3, <1>5, LegFacts
<1>7. "lag" \notin Faults[l] => PeInv(l)'
  <2>1. SUFFICES ASSUME "lag" \notin Faults[l] PROVE PeInv(l)'
    OBVIOUS
  <2>2. PICK e : e = pe[l]
    OBVIOUS
  <2>3. PeGo(l, e)
    BY <1>1, <1>3, <2>1, <2>2 DEF PeGo, FlatInv
  <2> QED BY <2>3, PeStepFlat
<1>8. UNCHANGED <<venueVars, lost, session>> /\ cache' = cache
  BY <1>3 DEF PeQuiet, adapterVars
<1>9. {l} \in SUBSET (session \cap PositionLegs) /\ \A k \in {l} : "lag" \notin Faults[k] => PeInv(k)'
  BY <1>7
<1>10. (\A k \in Legs : call'[k].exit => call[k].exit \/ k \in session \cap PositionLegs) /\ (ret' = ret \/ \E m \in Legs : ret' = [ret EXCEPT ![m] = NoRet])
  BY <1>1, <1>4, <1>5
<1> QED BY <1>6, <1>8, <1>9, <1>10, QuietFlat

LEMMA InitFlat == Init => FlatInv
<1> SUFFICES ASSUME Init PROVE FlatInv
  OBVIOUS
<1>1. /\ placed = [l \in Legs |-> 0] /\ book = {} /\ reduce = {} /\ lost = {} /\ Inv
      /\ filled = [o \in Orders |-> 0] /\ cache = [o \in Orders |-> NoStatus]
      /\ call = [l \in Legs |-> NoCall] /\ ret = [l \in Legs |-> NoRet] /\ pe = [l \in PositionLegs |-> PeFresh]
  BY InitInv DEF Init, AdapterInit, PeInit
<1>2. FilledIsAll /\ RetPlain /\ Away /\ ExitsOnly
  <2>1. ~NoCall.exit
    BY DEF NoCall
  <2> QED BY <1>1, <2>1, NullTypes, StatusNamed DEF FilledIsAll, RetPlain, Away, ExitsOnly
<1>3. ASSUME NEW l \in PositionLegs PROVE PeInv(l)
  <2>1. /\ pe[l] = PeFresh /\ Idle(l)
    BY <1>1, NullTypes, LegFacts DEF Idle
  <2>2. Sells \in Nat
    BY <1>1, SellsIs DEF Inv
  <2>3. Known(l) = {}
    <3>1. Sent = {}
      BY <1>1, OrderFacts, AdapterAssumption DEF Sent
    <3> QED BY <3>1 DEF Known
  <2>4. /\ PeFresh.doing = "none" /\ PeFresh.st = "new" /\ PeFresh.pos = "OPENING" /\ PeFresh.entry = None /\ PeFresh.exit = None
        /\ PeFresh.eb = 0 /\ PeFresh.xb = 0 /\ PeFresh.close = "none"
    BY DEF PeFresh
  <2>5. PeLives(PeFresh) /\ PeEntered(l, PeFresh) /\ PeExited(l, PeFresh)
    BY <2>2, <2>4 DEF PeLives, PeEntered, PeExited
  <2>6. PeSells(l, PeFresh) /\ PeOwns(l, PeFresh)
    BY <1>1, <2>3 DEF PeSells, PeOwns
  <2>7. PeWaits(l, PeFresh)
    BY <2>1, <2>4 DEF PeWaits
  <2> QED BY <2>1, <2>5, <2>6, <2>7 DEF PeInv, PeHolds
<1> QED BY <1>2, <1>3 DEF FlatInv

LEMMA NextFlat == Inv /\ FlatInv /\ [Next]_vars => FlatInv'
<1> SUFFICES ASSUME Inv, FlatInv, [Next]_vars PROVE FlatInv'
  OBVIOUS
<1>1. Inv' /\ LegTypes /\ LegsInv
  BY NextInv DEF Inv
<1>2. CASE UNCHANGED vars
  <2>1. UNCHANGED <<venueVars, lost, session, cache, ret, call, pe>>
    BY <1>2 DEF vars, adapterAll, venueVars
  <2>2. OrderCalls
    BY <2>1 DEF OrderCalls
  <2> QED BY <1>1, <2>1, <2>2, OrderFlat
<1>3. CASE Next
  <2>1. UNCHANGED session
    BY <1>3 DEF Next
  <2>2. CASE \E l \in session : AdapterStep(l) /\ UNCHANGED <<oe, slot, pe>>
    BY <1>1, <2>1, <2>2, CallFlat
  <2>3. CASE \E l \in session \cap (OrderLegs \ QuoteLegs) : OeStep(l) /\ UNCHANGED <<slot, pe>>
    BY <1>1, <2>1, <2>3, ExecutorCalls, OrderFlat
  <2>4. CASE \E s \in Slots : LegsOf(s) \subseteq session /\ SlotStep(s) /\ UNCHANGED pe
    BY <1>1, <2>1, <2>4, SlotCalls, OrderFlat
  <2>5. CASE \E l \in session \cap PositionLegs : PeStep(l) /\ UNCHANGED <<oe, slot>>
    BY <1>1, <2>1, <2>5, PositionFlat
  <2>6. CASE VenueStep /\ UNCHANGED <<oe, slot, pe>>
    BY <1>1, <2>1, <2>6, VenueFlat
  <2> QED BY <1>3, <2>2, <2>3, <2>4, <2>5, <2>6 DEF Next
<1> QED BY <1>2, <1>3

\* At most one leg of a session closes a position: a reduce-only order trades against the account's.
OneCloser == \A s \in Sessions : \A l, m \in s \cap PositionLegs : l = m

LEMMA FlatSays ==
  ASSUME OneCloser, Inv, FlatInv
  PROVE  CompletedIsFlat
<1> SUFFICES ASSUME NEW l \in PositionLegs, "lag" \notin Faults[l], pe[l].st = "TERMINATED", pe[l].close = "COMPLETED"
             PROVE  (\A o \in book : o[1] = l => o \in lost) /\ Bought(l) <= Sold(l)
  BY DEF CompletedIsFlat
<1>1. /\ AdapterTypes /\ book \subseteq Sent /\ (\A o \in Orders \ Sent : filled[o] = 0) /\ session \in Sessions
      /\ ExitsOnly /\ Away
  BY DEF Inv, LegTypes, AdapterInv, OrdersSent, FlatInv
<1>2. l \in session
  BY <1>1 DEF Away, PeFresh
<1>3. PICK e : e = pe[l]
  OBVIOUS
<1>4. PeHolds(l, e) /\ PeOwns(l, e)
  BY <1>2, <1>3 DEF FlatInv, PeInv
<1>5. e.doing = "none" /\ e.pos # "OPENING" /\ e.exit \notin book /\ e.eb <= Sells
  BY <1>3, <1>4 DEF PeHolds, PeLives
<1>6. e.entry \in Entries(l) /\ e.entry \notin book /\ e.eb = filled[e.entry]
  BY <1>4, <1>5 DEF PeHolds, PeEntered
<1>7. \A o \in Known(l) : o \in book \/ o \notin reduce => o \in {e.entry, e.exit}
  BY <1>4, <1>5 DEF PeOwns
\* Nothing of it rests.
<1>8. \A o \in book : o[1] = l => o \in lost
  BY <1>1, <1>5, <1>6, <1>7 DEF Known
\* Only its entry bought, and only its exits sold.
<1>9. Sold(l) = Sells
  <2>1. {o \in reduce : o[1] = l} = reduce
    BY <1>1, <1>2 DEF ExitsOnly, OneCloser
  <2> QED BY <2>1 DEF Sold, Sells, Total
<1>10. Bought(l) = filled[e.entry]
  <2> DEFINE B == {o \in Orders \ (reduce \cup lost) : o[1] = l}
  <2>1. e.entry \in B
    BY <1>6 DEF Entries, Known, Sent
  <2>2. ASSUME NEW o \in B \ {e.entry} PROVE filled[o] = 0
    <3>1. e.exit = None \/ e.exit \in reduce
      BY <1>4 DEF PeHolds, PeExited, Exits
    <3>2. o \notin Sent
      BY <1>7, <3>1, OrderFacts DEF Known
    <3> QED BY <1>1, <3>2
  <2>3. IsFiniteSet(B) /\ IsFiniteSet(B \ {e.entry}) /\ \A o \in B : filled[o] \in Int
    BY <1>1, OrdersFinite, FS_Subset DEF AdapterTypes
  <2>4. Bought(l) = Total(filled, B)
    BY DEF Bought, Total
  <2> HIDE DEF B
  <2>5. Total(filled, B \ {e.entry}) = 0
    BY <2>2, <2>3, TotalNothing
  <2>6. Total(filled, B) = filled[e.entry] + Total(filled, B \ {e.entry})
    BY <2>1, <2>3, TotalTakes
  <2>7. filled[e.entry] \in Int
    BY <2>1, <2>3
  <2> QED BY <2>4, <2>5, <2>6, <2>7
<1> QED BY <1>5, <1>6, <1>8, <1>9, <1>10

\* A position leg that reports itself completed has nothing on the book and holds nothing of what it bought, whatever
\* mix of limit closes, venue cancellations, retries, escalations and stops closed it, where a session has one position
\* leg: the venue reduces the account's position, so a leg beside it may sell what this one bought.
THEOREM CompletedFlat ==
  ASSUME OneCloser
  PROVE  Spec => []CompletedIsFlat
<1>1. Init => Inv /\ FlatInv
  BY InitInv, InitFlat
<1>2. Inv /\ FlatInv /\ [Next]_vars => (Inv /\ FlatInv)'
  BY NextInv, NextFlat
<1>3. Inv /\ FlatInv => CompletedIsFlat
  BY FlatSays
<1> QED BY <1>1, <1>2, <1>3, PTL DEF Spec
=============================================================================
