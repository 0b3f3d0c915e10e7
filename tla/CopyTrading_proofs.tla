------------------------ MODULE CopyTrading_proofs ------------------------
(* One mirror never loses count: whatever the leader, the user, the venue    *)
(* and the archive do, every lot held and every order that rests is answered *)
(* for by exactly one of a copy_positions row, a pending maker open, or the  *)
(* order the poller has in hand, for any products, sizes, orders, faults and *)
(* restarts. Products whose exposure the code is known to let go of (lost)   *)
(* are excepted.                                                             *)
EXTENDS CopyTrading, WellFoundedInduction, TLAPS

\* Every set of naturals that has a member has a least one.
LEMMA LeastNat ==
  ASSUME NEW S \in SUBSET Nat, S # {}
  PROVE  \E x \in S : \A y \in S : x <= y
<1>1. IsWellFoundedOn(OpToRel(<, Nat), Nat)
  BY NatLessThanWellFounded
<1>2. PICK x \in S : \A y \in S : ~(<<y, x>> \in OpToRel(<, Nat))
  BY <1>1, WFMin
<1>3. \A y \in S : ~(y < x)
  BY <1>2 DEF OpToRel
<1> QED BY <1>3

\* The free order that Place takes is an order.
LEMMA MinOrder ==
  ASSUME NEW S \in SUBSET Orders, S # {}, MaxOrders \in Nat
  PROVE  Min(S) \in S
<1>1. PICK x \in S : \A y \in S : x <= y
  BY LeastNat DEF Orders
<1> QED BY <1>1 DEF Min, Orders

\* The newest row of a product is one of its rows.
LEMMA MaxOrder ==
  ASSUME NEW S \in SUBSET Orders, S # {}, MaxOrders \in Nat
  PROVE  Max(S) \in S
<1> DEFINE T == {MaxOrders - x : x \in S}
<1>t. T \in SUBSET Nat /\ T # {}
  <2>1. \A x \in S : MaxOrders - x \in Nat
    BY DEF Orders
  <2>2. PICK x \in S : TRUE
    OBVIOUS
  <2>3. MaxOrders - x \in T
    OBVIOUS
  <2> QED BY <2>1, <2>3
<1> HIDE DEF T
<1>1. PICK t \in T : \A y \in T : t <= y
  BY <1>t, LeastNat
<1>2. PICK x \in S : t = MaxOrders - x
  BY DEF T
<1>3. ASSUME NEW y \in S PROVE x >= y
  <2>1. MaxOrders - x <= MaxOrders - y
    BY <1>1, <1>2 DEF T
  <2> QED BY <2>1 DEF Orders
<1> QED BY <1>3 DEF Max, Orders

\* The rows of a product sum to nothing when there are none.
LEMMA SumEmpty == MapThenSumSet(LAMBDA o : row[o].size, {}) = 0
BY DEF MapThenSumSet, MapThenFoldSet

\* The rows of a product sum to the one row when there is one.
LEMMA SumSingle ==
  ASSUME NEW q, row[q].size \in Nat
  PROVE  MapThenSumSet(LAMBDA o : row[o].size, {q}) = row[q].size
<1> DEFINE Iter(g) == g = [s \in SUBSET {q} |->
                 IF s = {} THEN 0 ELSE LET x == CHOOSE y \in s : TRUE IN row[x].size + g[s \ {x}]]
<1>1. Iter([s \in SUBSET {q} |-> IF s = {} THEN 0 ELSE row[q].size])
  <2>1. SUBSET {q} = {{}, {q}}
    OBVIOUS
  <2>2. (CHOOSE y \in {q} : TRUE) = q
    OBVIOUS
  <2> QED BY <2>1, <2>2
<1> DEFINE g == CHOOSE h : Iter(h)
<1>2. Iter(g)
  BY <1>1
<1> HIDE DEF g
<1>3. g[{}] = 0 /\ g[{q}] = row[q].size + g[{q} \ {q}]
  <2>1. g[{}] = 0
    BY <1>2
  <2>2. (CHOOSE y \in {q} : TRUE) = q
    OBVIOUS
  <2> QED BY <1>2, <2>1, <2>2
<1>4. {q} \ {q} = {}
  OBVIOUS
<1>5. g[{q}] = row[q].size
  BY <1>3, <1>4
<1>6. MapThenSumSet(LAMBDA o : row[o].size, {q}) = g[{q}]
  BY DEF MapThenSumSet, MapThenFoldSet, g
<1> QED BY <1>5, <1>6

-----------------------------------------------------------------------------
(* The inductive invariant *)

\* The types of the variables.
OrderRec == [p : Products, d : Sides, size : 0..MaxLots, filled : 0..MaxLots, live : BOOLEAN]
RowRec == [st : {"none", "open", "closed"}, size : 0..MaxLots, base : 0..MaxLots]
PendRec == [o : 0..MaxOrders, acked : BOOLEAN, age : 0..(2 * GiveUp)]
Locals == [mode : {"copy", "stop", "orphan"}, lmap : [Products -> -MaxLots..MaxLots],
           trusted : BOOLEAN, rows : [Products -> 0..MaxOrders], vmap : [Products -> Int],
           suspect : BOOLEAN, todo : SUBSET Products, p : Products, o : 0..MaxOrders,
           seen : Int, q : PendRec, cut : Int, base : 0..MaxLots, back : {"open", "close"}]
FlatRec == [todo : SUBSET (Orders \X (1..MaxLots)), errs : BOOLEAN, o : 0..MaxOrders]
UserPCs == {"idle", "flatten", "flat_book", "stop_row", "clear"}

MirrorType == mirror \in [active : BOOLEAN, stop : BOOLEAN, paused : BOOLEAN]
HoldType == leader \in [Products -> -MaxLots..MaxLots] /\ held \in [Products -> Int]
OrdType == ord \in [Orders -> OrderRec]
RowType == row \in [Orders -> RowRec]
PendType == pend \in [Products -> PendRec] /\ saved \in [Products -> PendRec]
HistType == suspects \subseteq Products /\ lost \subseteq Products
PcType == pc \in [Actors -> PollPCs] /\ pc["user"] \in UserPCs
LocalType == k \in Locals
FlatType == fl \in [Actors -> FlatRec]
Types ==
    /\ MirrorType /\ HoldType /\ OrdType /\ RowType /\ PendType
    /\ HistType /\ PcType /\ LocalType /\ FlatType

Poll(l) == pc["poll"] \in l
\* The places of the poller where a maker open is in its hand alone.
InFlight == {"wait", "readback", "insert", "register", "late"}
\* The order the poller has in hand: nothing else knows of it yet.
Hand == IF Poll(InFlight) THEN {k.o} ELSE {}
\* The row that an add was sent for and not booked on yet.
Growing == IF Poll({"grow"}) THEN {k.rows[k.p]} ELSE {}
Along(d, x) == IF d = 1 THEN x ELSE -x
\* What is held of an order's product, counted on the order's side.
Toward(o) == Along(ord[o].d, held[ord[o].p])

\* Orders and rows are in order.
Orderly ==
    \A o \in Orders :
      /\ ord[o].filled <= ord[o].size
      /\ ord[o].live => ord[o].filled < ord[o].size
      /\ row[o].st # "none" => row[o].size > 0 /\ row[o].base > 0 /\ ord[o].size > 0
\* What is named exists, and belongs to the product it is named for.
Names ==
    \A p \in Products :
      /\ saved[p].o = pend[p].o
      /\ pend[p].o # 0 => ord[pend[p].o].p = p /\ ord[pend[p].o].size > 0 /\ row[pend[p].o].st = "none"
      /\ k.rows[p] # 0 => ord[k.rows[p]].p = p /\ row[k.rows[p]].st # "none"

Opened == {"check", "place", "wait", "readback", "insert", "register", "recheck", "unwind",
           "rearm_pending", "add", "grow"}
\* What the poller knows at each of its places.
Steps ==
    /\ Poll(InFlight \cup {"verdict", "recheck", "unwind", "rearm"}) =>
         /\ k.o # 0 /\ ord[k.o].p = k.p /\ ord[k.o].size > 0
    /\ Poll(InFlight \cup {"verdict"}) => row[k.o].st = "none"
    /\ Poll({"recheck", "unwind", "rearm", "book"}) => k.o # 0 /\ row[k.o].st # "none"
    /\ Poll({"verdict"}) => pend[k.p].o = k.o \/ (pend[k.p].o = 0 /\ k.p \in lost)
    /\ Poll({"verdict"}) => k.seen \in 0..ord[k.o].filled
    /\ Poll(InFlight \cup {"check", "place", "add", "grow"}) => pend[k.p].o = 0
    /\ Poll({"insert", "late"}) => k.seen > 0 /\ k.seen <= ord[k.o].size
    /\ Poll({"readback", "register"}) => k.q.o = k.o /\ (k.q.acked => ~ord[k.o].live)
    /\ Poll({"open", "book"} \cup Opened) /\ k.back = "open" => \A p \in k.todo : k.lmap[p] # 0
    /\ Poll({"check", "place", "wait", "readback", "insert", "add", "grow"}) => k.lmap[k.p] # 0
    /\ Poll(Opened) => k.p \notin k.todo
    /\ Poll({"sweep", "close"}) \/ (Poll({"book"}) /\ k.back = "close") => \A p \in k.todo : k.rows[p] # 0
    /\ Poll({"check", "place"}) => Placed # Orders
    /\ Poll({"add", "grow"}) => k.rows[k.p] # 0
    /\ Poll({"add"}) => Added(k.p) > 0
    /\ Poll({"grow"}) => k.seen > 0 /\ Copy(k.p).size + k.seen <= MaxLots
    /\ Poll({"book"}) => k.cut \in 0..row[k.o].size /\ (k.cut > 0 => k.base > 0)
    /\ ~Poll({"book"}) => k.back = "open"

\* A flatten works on rows.
Flattening(t) ==
    pc[t] \in {"flatten", "flat_book"} =>
      /\ \A c \in fl[t].todo : row[c[1]].st # "none"
      /\ pc[t] = "flat_book" => fl[t].o # 0 /\ row[fl[t].o].st # "none"
Flattens == \A t \in Actors : Flattening(t)
\* The user flattens a stopped mirror, or rows that are closed already.
UserStops ==
    pc["user"] \in {"flatten", "flat_book"} =>
      \/ Stopped
      \/ /\ \A c \in fl["user"].todo : row[c[1]].st # "open"
         /\ pc["user"] = "flat_book" => row[fl["user"].o].st # "open"

\* Who answers for what is held: an open row, the order in hand, a row being added to, a pending entry.
Owns(o) == row[o].st = "open" \/ o \in Hand \/ o \in Growing \/ pend[ord[o].p].o = o
Owners(p) == {o \in Orders : ord[o].p = p /\ Owns(o)}
\* An add that is not booked yet.
Bound(o) == IF o \in Growing THEN k.seen ELSE 0
\* How much an owner answers for.
Owed(o) == (IF row[o].st = "open" THEN row[o].size ELSE IF row[o].st = "none" THEN ord[o].filled ELSE 0)
            + Bound(o)
\* The products whose rows the poller will still look up in what it read.
Unseen == IF Poll({"venue", "sweep", "close"}) \/ (Poll({"book"}) /\ k.back = "close") THEN Products
          ELSE IF Poll({"open", "book"} \cup Opened) THEN k.todo ELSE {}

\* No two claims on a product: never a row and a pending order, never two rows.
OneOwner(p) == \A o, q \in Owners(p) : o = q
\* What nobody answers for is not held.
FlatUnowned(p) == Owners(p) = {} => held[p] = 0
\* What is held is on the owner's side and within what it answers for.
OwnedHeld(p) == \A o \in Owners(p) : Toward(o) \in 0..Owed(o)
\* An order that rests is pending, or in hand.
LiveOwned(p) ==
    \A o \in Orders : ord[o].live /\ ord[o].p = p =>
        pend[p].o = o \/ (Poll({"wait", "readback", "register"}) /\ k.o = o)
\* The fill that gets a row is the whole fill.
SeenAll(p) == Poll({"insert", "late"}) /\ k.p = p => k.seen = ord[k.o].filled
\* An open is sent for a product without an owner.
OpensBare(p) == Poll({"check", "place"}) /\ k.p = p => Owners(p) = {}
\* An add is sent for the row of its product.
AddsToRow(p) == Poll({"add"}) /\ k.p = p => Owners(p) \subseteq {k.rows[p]}
\* The rows the poller read are the open rows still, or it is about to close the one that is not.
RowsKnown(p) ==
    p \in Unseen => \A o \in Orders : ord[o].p = p /\ row[o].st = "open" =>
        o = k.rows[p] \/ (Poll({"book"}) /\ k.o = o /\ k.cut = 0)
\* A flatten closes rows whole.
FlattensAll(p) ==
    \A t \in Actors : pc[t] \in {"flatten", "flat_book"} =>
        \A c \in fl[t].todo : ord[c[1]].p = p /\ row[c[1]].st = "open" => row[c[1]].size <= c[2]
\* When a flatten is about to close a row, nothing is held for it.
FlatBooked(p) ==
    \A t \in Actors : pc[t] = "flat_book" /\ ord[fl[t].o].p = p /\ row[fl[t].o].st = "open" =>
        Toward(fl[t].o) <= Bound(fl[t].o)
\* When a close is about to be booked, no more is held than what it leaves.
BookedLeft(p) == Poll({"book"}) /\ ord[k.o].p = p /\ row[k.o].st = "open" => Toward(k.o) <= k.cut
\* An unwind closes its row whole.
UnwindsAll(p) == Poll({"recheck", "unwind"}) /\ k.p = p => row[k.o].size <= k.seen
\* What the sweep is about to book for a row covers what is held.
SweptLeft(p) ==
    Poll({"sweep"}) /\ p \in k.todo /\ row[k.rows[p]].st = "open" =>
        Toward(k.rows[p]) <= IF k.vmap[p] * ord[k.rows[p]].d > 0 THEN Abs(k.vmap[p]) ELSE 0
\* A stopped mirror has no open row but the one the poller is about to unwind or close.
StoppedClosed(p) ==
    ~mirror.active => \A o \in Orders : ord[o].p = p /\ row[o].st = "open" => o \in InHand

Holds(p) == OneOwner(p) /\ FlatUnowned(p) /\ OwnedHeld(p)
Opens(p) == LiveOwned(p) /\ SeenAll(p) /\ OpensBare(p) /\ AddsToRow(p)
Books(p) == RowsKnown(p) /\ BookedLeft(p) /\ UnwindsAll(p) /\ SweptLeft(p)
Ends(p) == FlattensAll(p) /\ FlatBooked(p)
Account(p) == Holds(p) /\ Opens(p) /\ Books(p) /\ Ends(p) /\ StoppedClosed(p)

IInv == Types /\ Orderly /\ Names /\ Steps /\ Flattens /\ UserStops /\ \A p \in Products \ lost : Account(p)

-----------------------------------------------------------------------------
(* Types: what each action leaves of them.                                   *)

\* The empty records have their types.
LEMMA RecordTypes ==
  /\ NoPend \in PendRec /\ NoRow \in RowRec
  /\ NoOrder \in OrderRec /\ K0 \in Locals /\ Flat0 \in FlatRec
<1> USE CopyAssumption
<1>1. (CHOOSE p \in Products : TRUE) \in Products
  OBVIOUS
<1>2. NoPend \in PendRec
  BY DEF NoPend, PendRec
<1>3. NoRow \in RowRec
  BY DEF NoRow, RowRec
<1>4. NoOrder \in OrderRec
  BY <1>1 DEF NoOrder, OrderRec, Sides
<1>5. K0 \in Locals
  BY <1>1, <1>2 DEF K0, Locals
<1>6. Flat0 \in FlatRec
  BY DEF Flat0, FlatRec
<1> QED BY <1>2, <1>3, <1>4, <1>5, <1>6

LEMMA AbsLeast ==
  /\ \A x \in Int : Abs(x) \in Nat
  /\ \A x \in -MaxLots..MaxLots : Abs(x) \in 0..MaxLots
  /\ \A x, y \in Int : Least(x, y) \in {x, y} /\ Least(x, y) <= x /\ Least(x, y) <= y
  /\ \A x \in Int : Side(x) \in Sides
BY CopyAssumption DEF Abs, Least, Side, Sides

\* No more is held of any product, and no side is changed.
Shrinks ==
    /\ held' \in [Products -> Int]
    /\ \A p \in Products : (0 <= held'[p] /\ held'[p] <= held[p]) \/ (held[p] <= held'[p] /\ held'[p] <= 0)

\* The fields of an order and of its row.
LEMMA OrderTypes ==
  ASSUME Types, NEW o \in Orders
  PROVE  /\ ord[o].p \in Products /\ ord[o].d \in Sides /\ ord[o].size \in 0..MaxLots
         /\ ord[o].filled \in 0..MaxLots /\ ord[o].live \in BOOLEAN
         /\ row[o].st \in {"none", "open", "closed"} /\ row[o].size \in 0..MaxLots /\ row[o].base \in 0..MaxLots
BY DEF Types, OrdType, RowType, OrderRec, RowRec

\* The fields of the poller's locals.
LEMMA LocalTypes ==
  ASSUME Types
  PROVE  /\ k.mode \in {"copy", "stop", "orphan"} /\ k.lmap \in [Products -> -MaxLots..MaxLots]
         /\ k.trusted \in BOOLEAN /\ k.rows \in [Products -> 0..MaxOrders] /\ k.vmap \in [Products -> Int]
         /\ k.suspect \in BOOLEAN /\ k.todo \subseteq Products /\ k.p \in Products /\ k.o \in 0..MaxOrders
         /\ k.seen \in Int /\ k.q \in PendRec /\ k.cut \in Int /\ k.base \in 0..MaxLots /\ k.back \in {"open", "close"}
BY DEF Types, LocalType, Locals

\* The fields of a pending entry and of its saved copy.
LEMMA PendTypes ==
  ASSUME Types, NEW p \in Products
  PROVE  /\ pend[p].o \in 0..MaxOrders /\ pend[p].acked \in BOOLEAN /\ pend[p].age \in 0..(2 * GiveUp)
         /\ saved[p].o \in 0..MaxOrders /\ saved[p].acked \in BOOLEAN /\ saved[p].age \in 0..(2 * GiveUp)
BY DEF Types, PendType, PendRec

\* A reduce-only close takes what is held nearer to nothing, and never past it.
LEMMA ClosesShrinks ==
  ASSUME Types, NEW o \in Orders, NEW s \in Int, Closes(o, s)
  PROVE  Shrinks
<1> DEFINE q == ord[o].p
           d == ord[o].d
           n == Least(s, Abs(held[q]))
<1>1. q \in Products /\ d \in {-1, 1} /\ held \in [Products -> Int]
  BY OrderTypes DEF Types, HoldType, Sides
<1>2. s > 0 /\ held[q] * d > 0
  BY DEF Closes
<1>3. n \in Int /\ 0 <= n /\ n <= Abs(held[q])
  BY <1>1, <1>2, AbsLeast
<1>4. held' = [held EXCEPT ![q] = held[q] - d * n]
  BY DEF Closes
<1> HIDE DEF n, q, d
<1>5. CASE d = 1
  <2>1. held[q] > 0 /\ Abs(held[q]) = held[q]
    BY <1>1, <1>2, <1>5 DEF Abs
  <2>2. d * n = n
    BY <1>3, <1>5
  <2> QED BY <1>1, <1>3, <1>4, <2>1, <2>2 DEF Shrinks
<1>6. CASE d = -1
  <2>1. held[q] < 0 /\ Abs(held[q]) = -held[q]
    BY <1>1, <1>2, <1>6 DEF Abs
  <2>2. d * n = -n
    BY <1>3, <1>6
  <2> QED BY <1>1, <1>3, <1>4, <2>1, <2>2 DEF Shrinks
<1> QED BY <1>1, <1>5, <1>6

\* A refused close leaves what is held.
LEMMA RefusesShrinks ==
  ASSUME Types, NEW o, NEW s, Refuses(o, s)
  PROVE  Shrinks
BY DEF Refuses, Types, HoldType, Shrinks

\* A share of a is at most a.
LEMMA DivBelow ==
  ASSUME NEW a \in Nat, NEW b \in Nat, b > 0, NEW x \in Nat, x <= b
  PROVE  (a * x) \div b \in 0..a
<1>1. a * x \in Nat /\ a * x <= a * b
  OBVIOUS
<1>2. (a * x) \div b \in Nat /\ b * ((a * x) \div b) <= a * x
  BY <1>1
<1> DEFINE y == (a * x) \div b
<1>3. y \in Nat /\ b * y <= b * a
  BY <1>1, <1>2
<1> HIDE DEF y
<1>4. y <= a
  BY <1>3
<1> QED BY <1>3, <1>4 DEF y

LEMMA DivNat ==
  ASSUME NEW a \in Nat, NEW b \in Nat, b > 0, NEW x \in Nat
  PROVE  (a * x) \div b \in Nat
<1>1. a * x \in Nat
  OBVIOUS
<1> QED BY <1>1

\* A close that is sent, taken or refused, leaves no more than was held.
LEMMA SendShrinks ==
  ASSUME Types, NEW o \in Orders, NEW s \in Int, NEW l, NEW r, SendClose(o, s, l, r)
  PROVE  Shrinks
<1>1. Closes(o, s) \/ Refuses(o, s)
  BY DEF SendClose
<1> QED BY <1>1, ClosesShrinks, RefusesShrinks

\* An external close leaves no more than was held.
LEMMA ExternalShrinks == ASSUME Types, NEW p \in Products, ExternalClose(p) PROVE Shrinks
<1>1. held \in [Products -> Int] /\ held[p] \in Int
  BY DEF Types, HoldType
<1>2. PICK x \in 0..(Abs(held[p]) - 1) : held' = [held EXCEPT ![p] = Side(held[p]) * x]
  BY DEF ExternalClose
<1>3. x \in Int /\ 0 <= x /\ x < Abs(held[p])
  BY <1>1, AbsLeast
<1>4. CASE held[p] < 0
  <2>1. Side(held[p]) * x = -x /\ Abs(held[p]) = -held[p]
    BY <1>1, <1>3, <1>4 DEF Side, Abs
  <2> QED BY <1>1, <1>2, <1>3, <2>1 DEF Shrinks
<1>5. CASE ~(held[p] < 0)
  <2>1. Side(held[p]) * x = x /\ Abs(held[p]) = held[p]
    BY <1>1, <1>3, <1>5 DEF Side, Abs
  <2> QED BY <1>1, <1>2, <1>3, <2>1 DEF Shrinks
<1> QED BY <1>4, <1>5

\* A flatten leaves no more than was held.
LEMMA FlattenShrinks == ASSUME Types, NEW t \in Actors, FlattenClose(t) PROVE Shrinks
<1>1. PICK c \in fl[t].todo : Closes(c[1], c[2]) \/ Refuses(c[1], c[2])
  BY DEF FlattenClose
<1>2. c[1] \in Orders /\ c[2] \in Int
  BY CopyAssumption DEF Types, FlatType, FlatRec
<1> QED BY <1>1, <1>2, ClosesShrinks, RefusesShrinks

\* What the locals name are orders.
LEMMA InHandNamed ==
  ASSUME IInv
  PROVE  /\ \A p \in Products : k.rows[p] # 0 => k.rows[p] \in Orders
         /\ k.o # 0 => k.o \in Orders
BY LocalTypes, CopyAssumption DEF IInv, Orders

\* A trim is of a row that is tracked, on the leader's side and above its size.
LEMMA TrimGuard ==
  ASSUME NEW p, Trim(p)
  PROVE  /\ Opening(p) /\ Tracks(p) /\ SameSide(p) /\ Size(p) < Copy(p).base
         /\ UNCHANGED <<mirror, leader, ord, row, pendVars, lost, fl>>
  BY Zenon DEF Trim

\* What the venue says changes neither the rows the poller took nor where it goes on.
LEMMA VenueLocals ==
  ASSUME Types, ReadVenue
  PROVE  k'.back = k.back /\ k'.rows = k.rows /\ k'.todo \subseteq {p \in Products : k.rows[p] # 0}
<1> DEFINE R == {p \in Products : k.rows[p] # 0}
<1>1. \E v, s, T : k' = [k EXCEPT !.vmap = v, !.suspect = s, !.todo = T] /\ (T = R \/ T = {})
  BY Zenon DEF ReadVenue, Kept
<1>2. PICK v, s, T : k' = [k EXCEPT !.vmap = v, !.suspect = s, !.todo = T] /\ (T = R \/ T = {})
  BY <1>1
<1> HIDE DEF R
<1>3. k'.back = k.back /\ k'.rows = k.rows /\ k'.todo = T
  BY <1>2 DEF Types, LocalType, Locals
<1> QED BY <1>2, <1>3 DEF R

\* A trim is at most the size of its row.
LEMMA TrimSize ==
  ASSUME IInv, NEW p \in Products, Tracks(p), Size(p) < Copy(p).base
  PROVE  (Copy(p).size * (Copy(p).base - Size(p))) \div Copy(p).base \in 0..Copy(p).size
<1>1. k.rows[p] \in Orders /\ Types /\ k.lmap[p] \in Int
  BY InHandNamed, LocalTypes, CopyAssumption DEF Tracks, IInv
<1>2. Copy(p).size \in Nat /\ Copy(p).base \in Nat /\ Size(p) \in Nat
  BY <1>1, OrderTypes, AbsLeast, CopyAssumption DEF Copy, Size
<1>3. Copy(p).base > 0 /\ Copy(p).base - Size(p) \in Nat /\ Copy(p).base - Size(p) <= Copy(p).base
  BY <1>2
<1> QED BY <1>2, <1>3, DivBelow

\* The closes of the poller leave no more than was held.
LEMMA PollCloseShrinks ==
  ASSUME IInv, (\E p \in Products : CloseGone(p) \/ Flip(p) \/ Trim(p)) \/ _unwind_stop_raced_open
  PROVE  Shrinks
<1>t. Types
  BY DEF IInv
<1>1. ASSUME NEW p \in Products, CloseGone(p) PROVE Shrinks
  <2>1. k.rows[p] # 0
    BY <1>1 DEF IInv, Steps, CloseGone, Poll
  <2>2. k.rows[p] \in Orders /\ row[k.rows[p]].size \in Int
    BY <2>1, <1>t, InHandNamed, OrderTypes, CopyAssumption
  <2> QED BY <1>1, <1>t, <2>2, SendShrinks DEF CloseGone
<1>2. ASSUME NEW p \in Products, Flip(p) PROVE Shrinks
  <2>1. k.rows[p] \in Orders /\ Copy(p).size \in Int
    BY <1>2, <1>t, InHandNamed, OrderTypes, CopyAssumption DEF Flip, Tracks, Copy
  <2> QED BY <1>2, <1>t, <2>1, SendShrinks DEF Flip
<1>3. ASSUME NEW p \in Products, Trim(p) PROVE Shrinks
  <2>1. k.rows[p] \in Orders /\ Copy(p).size \in Int
    BY <1>3, <1>t, InHandNamed, OrderTypes, CopyAssumption DEF Trim, Tracks, Copy
  <2>2. (Copy(p).size * (Copy(p).base - Size(p))) \div Copy(p).base \in Int
    BY <1>3, <2>1, TrimSize DEF Trim
  <2> QED BY <1>3, <1>t, <2>1, <2>2, SendShrinks DEF Trim
<1>4. ASSUME _unwind_stop_raced_open PROVE Shrinks
  <2>1. k.o # 0
    BY <1>4 DEF IInv, Steps, _unwind_stop_raced_open, Poll
  <2>2. k.o \in Orders /\ k.seen \in Int
    BY <2>1, <1>t, InHandNamed, LocalTypes
  <2>3. Closes(k.o, k.seen) \/ Refuses(k.o, k.seen)
    BY <1>4 DEF _unwind_stop_raced_open
  <2> QED BY <1>t, <2>2, <2>3, ClosesShrinks, RefusesShrinks
<1> QED BY <1>1, <1>2, <1>3, <1>4

\* The initial state has its types.
LEMMA InitTypes == Init => Types
<1> SUFFICES ASSUME Init PROVE Types
  OBVIOUS
<1> USE CopyAssumption, RecordTypes DEF Init
<1>1. mirror \in [active : BOOLEAN, stop : BOOLEAN, paused : BOOLEAN]
  OBVIOUS
<1>2. leader \in [Products -> -MaxLots..MaxLots] /\ held \in [Products -> Int]
  <2>1. leader \in [Products -> Lots] /\ held = [p \in Products |-> 0]
    OBVIOUS
  <2>2. Lots \subseteq -MaxLots..MaxLots
    BY CopyAssumption
  <2> DEFINE Range0 == -MaxLots..MaxLots
  <2>3. Lots \subseteq Range0
    BY <2>2
  <2> HIDE DEF Range0
  <2>4. leader \in [Products -> Range0]
    BY <2>1, <2>3
  <2>5. held \in [Products -> Int]
    BY <2>1
  <2> QED BY <2>4, <2>5 DEF Range0
<1>3. ord \in [Orders -> OrderRec] /\ row \in [Orders -> RowRec]
  OBVIOUS
<1>4. pend \in [Products -> PendRec] /\ saved \in [Products -> PendRec]
  OBVIOUS
<1>5. suspects \subseteq Products /\ lost \subseteq Products
  OBVIOUS
<1>6. pc \in [Actors -> PollPCs] /\ pc["user"] \in UserPCs
  BY DEF Actors, PollPCs, UserPCs
<1>7. k \in Locals /\ fl \in [Actors -> FlatRec]
  OBVIOUS
<1> QED BY <1>1, <1>2, <1>3, <1>4, <1>5, <1>6, <1>7
        DEF Types, MirrorType, HoldType, OrdType, RowType, PendType, HistType, PcType, LocalType, FlatType
LEMMA MirrorUpdates ==
  /\ request_copy_mirror_stop => MirrorType'
  /\ MirrorType /\ stop_copy_mirror => MirrorType'
  /\ auto_stop_mirror => MirrorType'
  /\ mirror' = [active |-> TRUE, stop |-> FALSE, paused |-> FALSE] => MirrorType'
  /\ MirrorType /\ UNCHANGED mirror => MirrorType'
<1>1. request_copy_mirror_stop => MirrorType'
  BY DEF request_copy_mirror_stop, MirrorType
<1>2. MirrorType /\ stop_copy_mirror => MirrorType'
  BY DEF stop_copy_mirror, MirrorType
<1>3. auto_stop_mirror => MirrorType'
  BY DEF auto_stop_mirror, MirrorType
<1>4. mirror' = [active |-> TRUE, stop |-> FALSE, paused |-> FALSE] => MirrorType'
  BY DEF MirrorType
<1>5. MirrorType /\ UNCHANGED mirror => MirrorType'
  BY DEF MirrorType
<1> QED BY <1>1, <1>2, <1>3, <1>4, <1>5

LEMMA BeginTypes == ASSUME IInv, NEW t \in Actors, BeginFlatten(t) PROVE FlatType'
<1> DEFINE T == {<<o, row[o].size>> : o \in OpenRows}
           E == Pending # {}
<1>1. fl \in [Actors -> FlatRec]
  BY DEF IInv, Types, FlatType
<1>2. T \in SUBSET (Orders \X (1..MaxLots))
  <2>1. ASSUME NEW o \in OpenRows PROVE o \in Orders /\ row[o].size \in 1..MaxLots
    BY OrderTypes, CopyAssumption DEF OpenRows, IInv, Orderly
  <2> QED BY <2>1
<1>3. E \in BOOLEAN
  OBVIOUS
<1>4. fl' = [fl EXCEPT ![t] = [todo |-> T, errs |-> E, o |-> 0]]
  BY DEF BeginFlatten
<1> HIDE DEF T, E
<1>5. [todo |-> T, errs |-> E, o |-> 0] \in FlatRec
  BY <1>2, <1>3, CopyAssumption DEF FlatRec
<1> QED BY <1>1, <1>4, <1>5 DEF FlatType

LEMMA BookedTypes ==
  ASSUME Types, NEW o, NEW left \in 0..MaxLots, NEW base \in 0..MaxLots
  PROVE  Booked(o, left, base) \in [Orders -> RowRec]
<1>1. row \in [Orders -> RowRec]
  BY DEF Types, RowType
<1>2. [row EXCEPT ![o].st = "closed"] \in [Orders -> RowRec]
  BY <1>1 DEF RowRec
<1>3. [row EXCEPT ![o].size = left, ![o].base = base] \in [Orders -> RowRec]
  BY <1>1 DEF RowRec
<1> QED BY <1>1, <1>2, <1>3 DEF Booked

\* The archive never shows more than was filled.
LEMMA ShownTypes ==
  ASSUME Types, NEW o \in Orders, NEW s \in Shown(o)
  PROVE  s \in 0..ord[o].filled
<1>1. ord[o].filled \in Nat
  BY OrderTypes, CopyAssumption
<1> QED BY <1>1 DEF Shown

LEMMA AckTypes ==
  /\ \A o : CancelAcks(o) \subseteq BOOLEAN
  /\ Limited \subseteq BOOLEAN
  /\ Pending \subseteq Products
  /\ PollMode \in {"copy", "stop", "orphan"}
  /\ Actors = {"poll", "user"}
<1>1. \A o : CancelAcks(o) \subseteq BOOLEAN
  BY DEF CancelAcks
<1>2. Limited \subseteq BOOLEAN
  BY DEF Limited
<1>3. Pending \subseteq Products
  BY DEF Pending
<1>4. PollMode \in {"copy", "stop", "orphan"}
  BY DEF PollMode
<1> QED BY <1>1, <1>2, <1>3, <1>4 DEF Actors

\* At the places where it works on an order, the poller has one; a flatten works on orders.
LEMMA InHandTypes ==
  ASSUME IInv
  PROVE  /\ pc["poll"] \in {"wait", "readback", "insert", "register", "late", "verdict", "recheck", "unwind", "rearm", "book"}
              => k.o \in Orders
         /\ pc["poll"] \in {"add", "grow"} => k.rows[k.p] \in Orders
         /\ pc["poll"] \in {"sweep", "close"} => \A p \in k.todo : k.rows[p] \in Orders
         /\ \A t \in Actors : pc[t] = "flat_book" => fl[t].o \in Orders
         /\ \A t \in Actors : \A c \in fl[t].todo : c[1] \in Orders /\ c[2] \in 1..MaxLots
<1>1. pc["poll"] \in {"wait", "readback", "insert", "register", "late", "verdict", "recheck", "unwind", "rearm", "book"}
        => k.o \in Orders
  BY InHandNamed DEF IInv, Steps, Poll, InFlight
<1>2. pc["poll"] \in {"add", "grow"} => k.rows[k.p] \in Orders
  BY InHandNamed, LocalTypes DEF IInv, Steps, Poll
<1>3. pc["poll"] \in {"sweep", "close"} => \A p \in k.todo : k.rows[p] \in Orders
  BY InHandNamed, LocalTypes DEF IInv, Steps, Poll
<1>4. \A t \in Actors : pc[t] = "flat_book" => fl[t].o \in Orders
  BY CopyAssumption DEF IInv, Types, FlatType, FlatRec, Flattens, Flattening, Orders
<1>5. \A t \in Actors : \A c \in fl[t].todo : c[1] \in Orders /\ c[2] \in 1..MaxLots
  BY DEF IInv, Types, FlatType, FlatRec
<1> QED BY <1>1, <1>2, <1>3, <1>4, <1>5

\* The newest row of a product is named by an order, or by nothing.
LEMMA NewestTypes == ASSUME NEW p \in Products PROVE Newest(p) \in 0..MaxOrders
<1> DEFINE rs == {o \in OpenRows : ord[o].p = p}
<1>1. rs \subseteq Orders
  BY DEF OpenRows
<1>2. CASE rs = {}
  BY <1>2, CopyAssumption DEF Newest
<1>3. CASE rs # {}
  <2>1. Max(rs) \in rs
    BY <1>1, <1>3, MaxOrder, CopyAssumption
  <2>2. Newest(p) = Max(rs)
    BY <1>3 DEF Newest
  <2> QED BY <1>1, <2>1, <2>2, CopyAssumption DEF Orders
<1> QED BY <1>2, <1>3

\* An add stays within the budget.
LEMMA AddedTypes ==
  ASSUME IInv, NEW p \in Products, k.rows[p] # 0
  PROVE  /\ k.rows[p] \in Orders /\ row[k.rows[p]].size \in 1..MaxLots /\ row[k.rows[p]].base \in 1..MaxLots
         /\ Added(p) \in Int /\ Copy(p).size + Added(p) <= MaxLots /\ Added(p) <= MaxLots
         /\ Size(p) \in 0..MaxLots
<1>1. k.rows[p] \in Orders /\ Types /\ k.lmap[p] \in -MaxLots..MaxLots
  BY InHandNamed, LocalTypes DEF IInv
<1>2. Copy(p).size \in 1..MaxLots /\ Copy(p).base \in 1..MaxLots /\ Size(p) \in 0..MaxLots
  BY <1>1, OrderTypes, AbsLeast, CopyAssumption DEF Copy, Size, IInv, Orderly, Names
<1> DEFINE n == (Copy(p).size * Size(p)) \div Copy(p).base
<1>3. n \in Nat
  BY <1>2, DivNat, CopyAssumption
<1>4. Added(p) = Least(MaxLots, n) - Copy(p).size
  BY DEF Added
<1> HIDE DEF n
<1>5. Least(MaxLots, n) \in Int /\ Least(MaxLots, n) <= MaxLots
  BY <1>3, AbsLeast, CopyAssumption
<1> QED BY <1>1, <1>2, <1>4, <1>5, CopyAssumption DEF Copy

LEMMA ShortTypes ==
  ASSUME Types, NEW short, NEW p \in Products, ShortBy(p, short)
  PROVE  lost' \subseteq Products
BY DEF ShortBy, Types, HistType

LEMMA CancelTypes == ASSUME Types, NEW o PROVE Cancelled(o) \in [Orders -> OrderRec]
BY DEF Cancelled, Types, OrdType, OrderRec

LEMMA RowDropped == ASSUME Types, NEW p PROVE [k.rows EXCEPT ![p] = 0] \in [Products -> 0..MaxOrders]
<1>1. k.rows \in [Products -> 0..MaxOrders]
  BY LocalTypes
<1>2. 0 \in 0..MaxOrders
  BY CopyAssumption
<1> QED BY <1>1, <1>2

\* Every step keeps the types.
LEMMA NextTypes == ASSUME IInv, Next PROVE Types'
<1> USE DEF Goto, PollGoto, Kept, Return, Upset, Spend
<1>t. Types
  BY DEF IInv
<1>1. ASSUME NEW p \in Products, LeaderMove(p) PROVE Types'
  <2>1. HoldType'
    <3> DEFINE Range0 == -MaxLots..MaxLots
    <3>1. Lots \subseteq Range0
      BY CopyAssumption
    <3>2. leader \in [Products -> Range0] /\ held \in [Products -> Int]
      BY <1>t DEF Types, HoldType
    <3> HIDE DEF Range0
    <3>3. leader' \in [Products -> Range0] /\ held' = held
      BY <1>1, <3>1, <3>2 DEF LeaderMove
    <3> QED BY <3>2, <3>3 DEF HoldType, Range0
  <2>2. UNCHANGED <<mirror, ord, row, pend, saved, suspects, lost, pc, k, fl>>
    BY <1>1 DEF LeaderMove, venueVars, pendVars
  <2> QED BY <1>t, <2>1, <2>2 DEF Types, MirrorType, OrdType, RowType, PendType, HistType, PcType, LocalType, FlatType
<1>2. ASSUME NEW o \in Orders, Fill(o) PROVE Types'
  <2>1. HoldType'
    BY <1>2, <1>t, OrderTypes, CopyAssumption DEF Fill, Types, HoldType, Sides
  <2>2. OrdType'
    <3> DEFINE f == ord[o].filled + 1
               l == f < ord[o].size
    <3>1. f \in 0..MaxLots /\ l \in BOOLEAN
      BY <1>2, <1>t, OrderTypes, CopyAssumption DEF Fill, IInv, Orderly
    <3>2. ord' = [ord EXCEPT ![o].filled = f, ![o].live = l]
      BY <1>2 DEF Fill
    <3> HIDE DEF f, l
    <3> QED BY <3>1, <3>2, <1>t DEF Types, OrdType, OrderRec
  <2>3. UNCHANGED <<mirror, row, pend, saved, suspects, lost, pc, k, fl>>
    BY <1>2 DEF Fill, venueVars, pendVars
  <2> QED BY <1>t, <2>1, <2>2, <2>3 DEF Types, MirrorType, RowType, PendType, HistType, PcType, LocalType, FlatType
<1>3. ASSUME NEW p \in Products, ExternalClose(p) PROVE Types'
  <2>1. HoldType'
    BY <1>3, <1>t, ExternalShrinks DEF ExternalClose, Types, HoldType, Shrinks
  <2>2. UNCHANGED <<mirror, ord, row, pend, saved, suspects, lost, pc, k, fl>>
    BY <1>3 DEF ExternalClose, venueVars, pendVars
  <2> QED BY <1>t, <2>1, <2>2 DEF Types, MirrorType, OrdType, RowType, PendType, HistType, PcType, LocalType, FlatType
<1>4. ASSUME start_copy PROVE Types'
  <2>1. MirrorType'
    BY <1>4, <1>t, MirrorUpdates DEF start_copy, Types
  <2>2. UNCHANGED <<leader, held, ord, row, pend, saved, suspects, lost, pc, k, fl>>
    BY <1>4 DEF start_copy, venueVars, pendVars
  <2> QED BY <1>t, <2>1, <2>2 DEF Types, HoldType, OrdType, RowType, PendType, HistType, PcType, LocalType, FlatType
<1>5. ASSUME pause_copy PROVE Types'
  <2>1. MirrorType'
    BY <1>5, <1>t DEF pause_copy, Types, MirrorType, request_copy_mirror_stop, stop_copy_mirror, auto_stop_mirror
  <2>2. UNCHANGED <<leader, held, ord, row, pend, saved, suspects, lost, pc, k, fl>>
    BY <1>5 DEF pause_copy, venueVars, pendVars
  <2> QED BY <1>t, <2>1, <2>2 DEF Types, HoldType, OrdType, RowType, PendType, HistType, PcType, LocalType, FlatType
<1>6. ASSUME resume_copy PROVE Types'
  <2>1. MirrorType'
    BY <1>6, <1>t DEF resume_copy, Types, MirrorType, request_copy_mirror_stop, stop_copy_mirror, auto_stop_mirror
  <2>2. UNCHANGED <<leader, held, ord, row, pend, saved, suspects, lost, pc, k, fl>>
    BY <1>6 DEF resume_copy, venueVars, pendVars
  <2> QED BY <1>t, <2>1, <2>2 DEF Types, HoldType, OrdType, RowType, PendType, HistType, PcType, LocalType, FlatType
<1>7. ASSUME stop_copy PROVE Types'
  <2>1. MirrorType'
    BY <1>7, <1>t DEF stop_copy, Types, MirrorType, request_copy_mirror_stop, stop_copy_mirror, auto_stop_mirror
  <2>2. PcType'
    BY <1>7, <1>t DEF stop_copy, Types, PcType, Actors, PollPCs, UserPCs
  <2>3. FlatType'
    BY <1>7, <1>t, BeginTypes, AckTypes DEF stop_copy, Types
  <2>4. UNCHANGED <<leader, held, ord, row, pend, saved, suspects, lost, k>>
    BY <1>7 DEF stop_copy, venueVars, pendVars
  <2> QED BY <1>t, <2>1, <2>2, <2>3, <2>4 DEF Types, HoldType, OrdType, RowType, PendType, HistType, LocalType
<1>8. ASSUME boot_stand_down_mirrors PROVE Types'
  <2>1. MirrorType'
    BY <1>8, <1>t DEF boot_stand_down_mirrors, Types, MirrorType, request_copy_mirror_stop, stop_copy_mirror, auto_stop_mirror
  <2>2. PendType'
    BY <1>8, <1>t DEF boot_stand_down_mirrors, Types, PendType
  <2>3. HistType'
    BY <1>8, <1>t, OrderTypes, LocalTypes DEF boot_stand_down_mirrors, Types, HistType, Unrecorded, OpenRows
  <2>4. PcType'
    BY <1>8, <1>t DEF boot_stand_down_mirrors, Types, PcType, Actors, PollPCs, UserPCs
  <2>5. LocalType'
    BY <1>8, <1>t, LocalTypes, RecordTypes, AbsLeast, CopyAssumption DEF boot_stand_down_mirrors, Types, LocalType, Locals
  <2>6. FlatType'
    BY <1>8, <1>t, RecordTypes DEF boot_stand_down_mirrors, Types, FlatType, Actors
  <2>7. UNCHANGED <<leader, held, ord, row>>
    BY <1>8 DEF boot_stand_down_mirrors, venueVars, pendVars
  <2> QED BY <1>t, <2>1, <2>2, <2>3, <2>4, <2>5, <2>6, <2>7 DEF Types, HoldType, OrdType, RowType
<1>9. ASSUME NEW t \in Actors, FlattenClose(t) PROVE Types'
  <2>1. HoldType'
    BY <1>9, <1>t, FlattenShrinks DEF FlattenClose, Types, HoldType, Shrinks
  <2>2. PcType'
    BY <1>9, <1>t DEF FlattenClose, Types, PcType, Actors, PollPCs, UserPCs
  <2>3. FlatType'
    <3>1. PICK c \in fl[t].todo : fl' = [fl EXCEPT ![t].todo = @ \ {c}, ![t].o = c[1]]
                                 \/ fl' = [fl EXCEPT ![t].todo = @ \ {c}, ![t].errs = TRUE]
      BY <1>9 DEF FlattenClose
    <3>2. c[1] \in 0..MaxOrders
      BY InHandTypes, CopyAssumption DEF Orders
    <3>3. CASE fl' = [fl EXCEPT ![t].todo = @ \ {c}, ![t].o = c[1]]
      <4> DEFINE o == c[1]
                 T == fl[t].todo \ {c}
      <4>1. T \in SUBSET (Orders \X (1..MaxLots)) /\ fl[t] \in FlatRec /\ fl \in [Actors -> FlatRec]
        BY <1>t DEF Types, FlatType, FlatRec
      <4>2. fl' = [fl EXCEPT ![t].todo = T, ![t].o = o]
        BY <3>3
      <4>3. o \in 0..MaxOrders
        BY <3>2
      <4> HIDE DEF o, T
      <4>4. [fl[t] EXCEPT !.todo = T, !.o = o] \in FlatRec
        BY <4>1, <4>3 DEF FlatRec
      <4>5. fl' = [fl EXCEPT ![t] = [fl[t] EXCEPT !.todo = T, !.o = o]]
        BY <4>2
      <4> QED BY <4>1, <4>4, <4>5 DEF FlatType
    <3>4. CASE fl' = [fl EXCEPT ![t].todo = @ \ {c}, ![t].errs = TRUE]
      BY <3>4, <1>t DEF Types, FlatType, FlatRec
    <3> QED BY <3>1, <3>3, <3>4
  <2>4. UNCHANGED <<mirror, ord, row, pend, saved, suspects, lost, k>>
    BY <1>9 DEF FlattenClose, venueVars, pendVars
  <2> QED BY <1>t, <2>1, <2>2, <2>3, <2>4 DEF Types, MirrorType, OrdType, RowType, PendType, HistType, LocalType
<1>10. ASSUME NEW t \in Actors, FlattenBook(t) PROVE Types'
  <2>1. RowType'
    BY <1>10, <1>t, BookedTypes, CopyAssumption DEF FlattenBook, RowType
  <2>2. PcType'
    BY <1>10, <1>t DEF FlattenBook, Types, PcType, Actors, PollPCs, UserPCs
  <2>3. UNCHANGED <<mirror, leader, held, ord, pend, saved, suspects, lost, k, fl>>
    BY <1>10 DEF FlattenBook, venueVars, pendVars
  <2> QED BY <1>t, <2>1, <2>2, <2>3 DEF Types, MirrorType, HoldType, OrdType, PendType, HistType, LocalType, FlatType
<1>11. ASSUME NEW t \in Actors, FlattenEnd(t) PROVE Types'
  <2>1. PcType'
    BY <1>11, <1>t DEF FlattenEnd, Types, PcType, Actors, PollPCs, UserPCs
  <2>2. LocalType'
    BY <1>11, <1>t, LocalTypes, RecordTypes, AbsLeast, CopyAssumption DEF FlattenEnd, Types, LocalType, Locals
  <2>3. FlatType'
    BY <1>11, <1>t, RecordTypes DEF FlattenEnd, Types, FlatType, Actors
  <2>4. UNCHANGED <<mirror, leader, held, ord, row, pend, saved, suspects, lost>>
    BY <1>11 DEF FlattenEnd, venueVars, pendVars
  <2> QED BY <1>t, <2>1, <2>2, <2>3, <2>4 DEF Types, MirrorType, HoldType, OrdType, RowType, PendType, HistType
<1>12. ASSUME NEW t \in Actors, StopRow(t) PROVE Types'
  <2>1. MirrorType'
    BY <1>12, <1>t, MirrorUpdates DEF StopRow, Types
  <2>2. HistType'
    <3>1. \A o \in Orders : ord[o].p \in Products
      BY <1>t, OrderTypes
    <3>2. lost' = lost \cup {ord[o].p : o \in OpenRows \ InHand} /\ suspects' = suspects
      BY <1>12 DEF StopRow, pendVars
    <3>3. OpenRows \subseteq Orders
      BY DEF OpenRows
    <3> HIDE DEF InHand
    <3> QED BY <3>1, <3>2, <3>3, <1>t DEF Types, HistType
  <2>3. PcType'
    BY <1>12, <1>t DEF StopRow, Types, PcType, Actors, PollPCs, UserPCs
  <2>4. UNCHANGED <<leader, held, ord, row, pend, saved, k, fl>>
    BY <1>12 DEF StopRow, venueVars, pendVars
  <2> QED BY <1>t, <2>1, <2>2, <2>3, <2>4 DEF Types, HoldType, OrdType, RowType, PendType, LocalType, FlatType
<1>13. ASSUME NEW t \in Actors, _clear_mirror_runtime_state(t) PROVE Types'
  <2>1. PendType'
    BY <1>13, <1>t, RecordTypes DEF _clear_mirror_runtime_state, Types, PendType
  <2>2. HistType'
    BY <1>13, <1>t, OrderTypes, LocalTypes DEF _clear_mirror_runtime_state, Types, HistType, ShortBy, Unrecorded, Pending
  <2>3. PcType'
    BY <1>13, <1>t DEF _clear_mirror_runtime_state, Types, PcType, Actors, PollPCs, UserPCs
  <2>4. LocalType'
    BY <1>13, <1>t, LocalTypes, RecordTypes, AbsLeast, CopyAssumption DEF _clear_mirror_runtime_state, Types, LocalType, Locals
  <2>5. UNCHANGED <<mirror, leader, held, ord, row, fl>>
    BY <1>13 DEF _clear_mirror_runtime_state, venueVars, pendVars
  <2> QED BY <1>t, <2>1, <2>2, <2>3, <2>4, <2>5 DEF Types, MirrorType, HoldType, OrdType, RowType, FlatType
<1>14. ASSUME _poll_all_mirrors PROVE Types'
  <2>1. OrdType'
    BY <1>14, <1>t, RecordTypes DEF _poll_all_mirrors, Forget, Types, OrdType
  <2>2. RowType'
    BY <1>14, <1>t, RecordTypes DEF _poll_all_mirrors, Forget, Types, RowType
  <2>3. PcType'
    BY <1>14, <1>t DEF _poll_all_mirrors, Types, PcType, Actors, PollPCs, UserPCs
  <2>4. LocalType'
    <3>k. k' = [K0 EXCEPT !.mode = PollMode, !.todo = Pending]
      BY <1>14 DEF _poll_all_mirrors
    <3> QED BY <3>k, <1>t, RecordTypes, AckTypes DEF Types, LocalType, Locals
  <2>5. UNCHANGED <<mirror, leader, held, pend, saved, suspects, lost, fl>>
    BY <1>14 DEF _poll_all_mirrors, venueVars, pendVars
  <2> QED BY <1>t, <2>1, <2>2, <2>3, <2>4, <2>5 DEF Types, MirrorType, HoldType, PendType, HistType, FlatType
<1>15. ASSUME LoadLeader PROVE Types'
  <2>1. PcType'
    BY <1>15, <1>t DEF LoadLeader, Types, PcType, Actors, PollPCs, UserPCs
  <2>2. LocalType'
    <3>1. CASE k' = [k EXCEPT !.mode = "orphan"]
      BY <3>1, <1>t DEF Types, LocalType, Locals
    <3>2. ASSUME NEW lmap, NEW limited, lmap \in [Products -> -MaxLots..MaxLots],
                 k' = [k EXCEPT !.lmap = lmap, !.trusted = _leader_read_is_trustworthy(lmap, limited)]
          PROVE  LocalType'
      <4>1. _leader_read_is_trustworthy(lmap, limited) \in BOOLEAN
        BY DEF _leader_read_is_trustworthy
      <4> QED BY <3>2, <4>1, <1>t DEF Types, LocalType, Locals
    <3>3. leader \in [Products -> -MaxLots..MaxLots]
      BY <1>t DEF Types, HoldType
    <3>4. [p \in Products |-> 0] \in [Products -> -MaxLots..MaxLots]
      BY CopyAssumption
    <3> QED BY <1>15, <3>1, <3>2, <3>3, <3>4 DEF LoadLeader
  <2>3. UNCHANGED <<mirror, leader, held, ord, row, pend, saved, suspects, lost, fl>>
    BY <1>15 DEF LoadLeader, venueVars, pendVars
  <2> QED BY <1>t, <2>1, <2>2, <2>3 DEF Types, MirrorType, HoldType, OrdType, RowType, PendType, HistType, FlatType
<1>16. ASSUME ResolveRead PROVE Types'
  <2>1. PcType'
    BY <1>16, <1>t DEF ResolveRead, Types, PcType, Actors, PollPCs, UserPCs
  <2>2. LocalType'
    <3>1. PICK p \in k.todo :
             \/ k' = [k EXCEPT !.todo = @ \ {p}]
             \/ /\ pend[p].o # 0
                /\ \E s \in Shown(pend[p].o) :
                     k' = [k EXCEPT !.todo = @ \ {p}, !.p = p, !.o = pend[p].o, !.q = pend[p], !.seen = s]
      BY <1>16 DEF ResolveRead
    <3>2. p \in Products
      BY <1>t, LocalTypes
    <3>3. CASE k' = [k EXCEPT !.todo = @ \ {p}]
      BY <3>3, <1>t DEF Types, LocalType, Locals
    <3>4. ASSUME pend[p].o # 0, NEW s \in Shown(pend[p].o),
                 k' = [k EXCEPT !.todo = @ \ {p}, !.p = p, !.o = pend[p].o, !.q = pend[p], !.seen = s]
          PROVE  LocalType'
      <4>1. pend[p].o \in Orders /\ pend[p].o \in 0..MaxOrders /\ pend[p] \in PendRec
        BY <3>2, <3>4, <1>t, PendTypes, CopyAssumption DEF Orders, Types, PendType
      <4>2. s \in Int
        BY <4>1, <1>t, ShownTypes, OrderTypes, CopyAssumption
      <4> QED BY <3>2, <3>4, <4>1, <4>2, <1>t DEF Types, LocalType, Locals
    <3> QED BY <3>1, <3>3, <3>4
  <2>3. UNCHANGED <<mirror, leader, held, ord, row, pend, saved, suspects, lost, fl>>
    BY <1>16 DEF ResolveRead, venueVars, pendVars
  <2> QED BY <1>t, <2>1, <2>2, <2>3 DEF Types, MirrorType, HoldType, OrdType, RowType, PendType, HistType, FlatType
<1>17. ASSUME ResolveVerdict PROVE Types'
  <2>1. OrdType'
    <3>1. UNCHANGED ord \/ ord' = Cancelled(k.o)
      BY <1>17 DEF ResolveVerdict
    <3> QED BY <3>1, <1>t, CancelTypes DEF Types, OrdType
  <2>2. PendType'
    <3>1. k.p \in Products
      BY <1>t, LocalTypes
    <3>2. \A p \in Products : Older(pend[p]) \in PendRec /\ Older(saved[p]) \in PendRec
      BY <1>t, PendTypes, CopyAssumption DEF Older, PendRec, Types, PendType
    <3>3. CASE Pop(k.p)
      BY <3>1, <3>3, <1>t, RecordTypes DEF Pop, Types, PendType
    <3>4. ASSUME NEW acks \in BOOLEAN,
                 pend' = [pend EXCEPT ![k.p] = IF @.o = 0 THEN @ ELSE [Older(@) EXCEPT !.acked = acks]],
                 saved' = [saved EXCEPT ![k.p] = Older(@)]
          PROVE  PendType'
      <4>1. [Older(pend[k.p]) EXCEPT !.acked = acks] \in PendRec
        BY <3>1, <3>2 DEF PendRec
      <4> QED BY <3>1, <3>2, <3>4, <4>1, <1>t DEF Types, PendType
    <3> QED BY <1>17, <3>3, <3>4, AckTypes DEF ResolveVerdict
  <2>3. HistType'
    <3>1. UNCHANGED lost \/ \E short : ShortBy(k.p, short)
      BY <1>17 DEF ResolveVerdict
    <3>2. UNCHANGED suspects
      BY <1>17 DEF ResolveVerdict, pendVars
    <3> QED BY <3>1, <3>2, <1>t, LocalTypes, ShortTypes DEF Types, HistType
  <2>4. PcType'
    BY <1>17, <1>t DEF ResolveVerdict, Types, PcType, Actors, PollPCs, UserPCs
  <2>5. UNCHANGED <<mirror, leader, held, row, k, fl>>
    BY <1>17 DEF ResolveVerdict, venueVars, pendVars
  <2> QED BY <1>t, <2>1, <2>2, <2>3, <2>4, <2>5 DEF Types, MirrorType, HoldType, RowType, LocalType, FlatType
<1>18. ASSUME InsertLate PROVE Types'
  <2>1. RowType'
    <3>1. k.o \in Orders /\ k.seen \in 0..MaxLots /\ ord[k.o].size \in 0..MaxLots
      BY <1>18, <1>t, InHandTypes, OrderTypes, LocalTypes, CopyAssumption DEF InsertLate, IInv, Steps, Poll
    <3> QED BY <1>18, <3>1, <1>t DEF InsertLate, Types, RowType, RowRec
  <2>2. PcType'
    BY <1>18, <1>t DEF InsertLate, Types, PcType, Actors, PollPCs, UserPCs
  <2>3. UNCHANGED <<mirror, leader, held, ord, pend, saved, suspects, lost, k, fl>>
    BY <1>18 DEF InsertLate, venueVars, pendVars
  <2> QED BY <1>t, <2>1, <2>2, <2>3 DEF Types, MirrorType, HoldType, OrdType, PendType, HistType, LocalType, FlatType
<1>19. ASSUME Rearm PROVE Types'
  <2>1. MirrorType'
    BY <1>19, <1>t, MirrorUpdates DEF Rearm, Types
  <2>2. PcType'
    BY <1>19, <1>t DEF Rearm, Types, PcType, Actors, PollPCs, UserPCs
  <2>3. UNCHANGED <<leader, held, ord, row, pend, saved, suspects, lost, k, fl>>
    BY <1>19 DEF Rearm, venueVars, pendVars
  <2> QED BY <1>t, <2>1, <2>2, <2>3 DEF Types, HoldType, OrdType, RowType, PendType, HistType, LocalType, FlatType
<1>20. ASSUME ResolveDone PROVE Types'
  <2>1. PcType'
    BY <1>20, <1>t DEF ResolveDone, Types, PcType, Actors, PollPCs, UserPCs
  <2>2. LocalType'
    <3>1. k' = k \/ k' = K0 \/ k' = [k EXCEPT !.rows = [p \in Products |-> Newest(p)]]
      BY <1>20 DEF ResolveDone
    <3>2. [p \in Products |-> Newest(p)] \in [Products -> 0..MaxOrders]
      BY NewestTypes
    <3>3. CASE k' = k \/ k' = K0
      BY <3>3, <1>t, RecordTypes DEF Types, LocalType
    <3>4. CASE k' = [k EXCEPT !.rows = [p \in Products |-> Newest(p)]]
      BY <3>2, <3>4, <1>t DEF Types, LocalType, Locals
    <3> QED BY <3>1, <3>3, <3>4
  <2>3. FlatType'
    <3>1. BeginFlatten("poll") \/ UNCHANGED fl
      BY <1>20 DEF ResolveDone
    <3> QED BY <3>1, <1>t, BeginTypes, AckTypes DEF Types, FlatType
  <2>4. UNCHANGED <<mirror, leader, held, ord, row, pend, saved, suspects, lost>>
    BY <1>20 DEF ResolveDone, venueVars, pendVars
  <2> QED BY <1>t, <2>1, <2>2, <2>3, <2>4 DEF Types, MirrorType, HoldType, OrdType, RowType, PendType, HistType
<1>21. ASSUME ReadVenue PROVE Types'
  <2>1. PcType'
    BY <1>21, <1>t DEF ReadVenue, Types, PcType, Actors, PollPCs, UserPCs
  <2>2. LocalType'
    <3>1. PICK ok \in BOOLEAN, limited \in BOOLEAN :
            LET vmap == IF ok THEN held ELSE [p \in Products |-> 0]
                blank == (\E p \in Products : k.rows[p] # 0) /\ \A p \in Products : vmap[p] = 0
            IN  k' = [k EXCEPT !.vmap = vmap, !.suspect = ~ok \/ limited \/ blank,
                               !.todo = IF ok /\ ~limited THEN {p \in Products : k.rows[p] # 0} ELSE {}]
      BY <1>21, AckTypes DEF ReadVenue
    <3> DEFINE vmap == IF ok THEN held ELSE [p \in Products |-> 0]
               S == ~ok \/ limited \/ ((\E p \in Products : k.rows[p] # 0) /\ \A p \in Products : vmap[p] = 0)
               T == IF ok /\ ~limited THEN {p \in Products : k.rows[p] # 0} ELSE {}
    <3>2. k' = [k EXCEPT !.vmap = vmap, !.suspect = S, !.todo = T]
      BY <3>1
    <3>3. vmap \in [Products -> Int] /\ T \subseteq Products
      BY <1>t DEF Types, HoldType
    <3>4. S \in BOOLEAN
      OBVIOUS
    <3> HIDE DEF vmap, S, T
    <3> QED BY <3>2, <3>3, <3>4, <1>t DEF Types, LocalType, Locals
  <2>3. UNCHANGED <<mirror, leader, held, ord, row, pend, saved, suspects, lost, fl>>
    BY <1>21 DEF ReadVenue, venueVars, pendVars
  <2> QED BY <1>t, <2>1, <2>2, <2>3 DEF Types, MirrorType, HoldType, OrdType, RowType, PendType, HistType, FlatType
<1>22. ASSUME NEW p \in Products, Sweep(p) PROVE Types'
  <2>1. HistType'
    BY <1>22, <1>t, OrderTypes, LocalTypes DEF Sweep, Types, HistType, ShortBy, Unrecorded, Pending
  <2>2. RowType'
    <3> DEFINE r == k.rows[p]
               v == IF k.vmap[p] * ord[r].d > 0 THEN Abs(k.vmap[p]) ELSE 0
    <3>1. r \in Orders /\ row[r].size \in 0..MaxLots /\ row[r].base \in 0..MaxLots /\ k.vmap[p] \in Int
      BY <1>22, <1>t, InHandTypes, OrderTypes, LocalTypes DEF Sweep
    <3>2. v \in Nat
      BY <3>1, AbsLeast
    <3>3. UNCHANGED row \/ row' = Booked(r, 0, 0) \/ (v < row[r].size /\ row' = Booked(r, v, row[r].base))
      BY <1>22 DEF Sweep
    <3> HIDE DEF v, r
    <3>4. v < row[r].size => v \in 0..MaxLots
      BY <3>1, <3>2, CopyAssumption
    <3>5. Booked(r, 0, 0) \in [Orders -> RowRec]
      BY <1>t, BookedTypes, CopyAssumption
    <3>6. v < row[r].size => Booked(r, v, row[r].base) \in [Orders -> RowRec]
      BY <3>1, <3>4, <1>t, BookedTypes
    <3> QED BY <3>3, <3>5, <3>6, <1>t DEF Types, RowType
  <2>3. LocalType'
    <3>1. k' = [k EXCEPT !.todo = @ \ {p}] \/ k' = [k EXCEPT !.todo = @ \ {p}, !.rows[p] = 0]
      BY <1>22 DEF Sweep
    <3>2. CASE k' = [k EXCEPT !.todo = @ \ {p}]
      BY <3>2, <1>t DEF Types, LocalType, Locals
    <3>3. CASE k' = [k EXCEPT !.todo = @ \ {p}, !.rows[p] = 0]
      <4>1. k' = [k EXCEPT !.todo = k.todo \ {p}, !.rows = [k.rows EXCEPT ![p] = 0]]
        BY <3>3, <1>t DEF Types, LocalType, Locals
      <4> QED BY <4>1, <1>t, RowDropped DEF Types, LocalType, Locals
    <3> QED BY <3>1, <3>2, <3>3
  <2>4. UNCHANGED <<mirror, leader, held, ord, pend, saved, pc, fl>>
    BY <1>22 DEF Sweep, venueVars, pendVars
  <2> QED BY <1>t, <2>1, <2>2, <2>3, <2>4 DEF Types, MirrorType, HoldType, OrdType, PendType, PcType, FlatType
<1>23. ASSUME Rail PROVE Types'
  <2>1. PcType'
    BY <1>23, <1>t DEF Rail, Types, PcType, Actors, PollPCs, UserPCs
  <2>2. LocalType'
    <3> DEFINE T == IF k.trusted THEN {p \in Products : k.rows[p] # 0 /\ k.lmap[p] = 0} ELSE {}
    <3>1. k' = k \/ k' = [k EXCEPT !.todo = T]
      BY <1>23 DEF Rail
    <3>2. T \subseteq Products
      OBVIOUS
    <3> HIDE DEF T
    <3>3. CASE k' = [k EXCEPT !.todo = T]
      BY <3>2, <3>3, <1>t DEF Types, LocalType, Locals
    <3> QED BY <3>1, <3>3, <1>t DEF Types, LocalType
  <2>3. FlatType'
    <3>1. BeginFlatten("poll") \/ UNCHANGED fl
      BY <1>23 DEF Rail
    <3> QED BY <3>1, <1>t, BeginTypes, AckTypes DEF Types, FlatType
  <2>4. UNCHANGED <<mirror, leader, held, ord, row, pend, saved, suspects, lost>>
    BY <1>23 DEF Rail, venueVars, pendVars
  <2> QED BY <1>t, <2>1, <2>2, <2>3, <2>4 DEF Types, MirrorType, HoldType, OrdType, RowType, PendType, HistType
<1>24. ASSUME NEW p \in Products, CloseGone(p) PROVE Types'
  <2>1. HoldType'
    BY <1>24, <1>t, PollCloseShrinks DEF CloseGone, Types, HoldType, Shrinks
  <2>2. PcType'
    BY <1>24, <1>t DEF CloseGone, SendClose, Types, PcType, Actors, PollPCs, UserPCs
  <2>3. LocalType'
    <3>o. k.rows[p] \in Orders /\ k.rows[p] \in 0..MaxOrders
      BY <1>24, <1>t, InHandTypes, LocalTypes, CopyAssumption DEF CloseGone, Tracks, Opening, Orders
    <3>s. row[k.rows[p]].size \in 0..MaxLots
      BY <3>o, <1>t, OrderTypes
    <3>b. pc["poll"] \in {"open", "close"}
      BY <1>24 DEF CloseGone, Opening
    <3> DEFINE n == row[k.rows[p]].size
    <3>n. n \in Int
      BY <3>s, CopyAssumption
    <3>e. n = row[k.rows[p]].size /\ n = Copy(p).size
      BY DEF Copy
    <3> DEFINE c == row[k.rows[p]].size - n
               b == pc["poll"]
    <3>c. c \in Int /\ b \in {"open", "close"}
      BY <3>s, <3>b, <3>n, CopyAssumption
    <3> HIDE DEF n
    <3>1. k' = [Without(p) EXCEPT !.o = k.rows[p], !.cut = c, !.back = b] \/ k' = Without(p)
      BY <1>24, <3>e DEF CloseGone, SendClose
    <3> HIDE DEF c, b
    <3>2. Without(p) \in Locals
      BY <1>t DEF Without, Types, LocalType, Locals
    <3>3. Without(p) \in Locals
      BY <3>2, <1>t, LocalTypes, AbsLeast, CopyAssumption DEF Types, LocalType, Locals, Size
    <3>4. CASE k' = [Without(p) EXCEPT !.o = k.rows[p], !.cut = c, !.back = b]
      BY <3>3, <3>4, <3>o, <3>c DEF LocalType, Locals
    <3> QED BY <3>1, <3>2, <3>4 DEF LocalType
  <2>4. UNCHANGED <<mirror, ord, row, pend, saved, suspects, lost, fl>>
    BY <1>24 DEF CloseGone, venueVars, pendVars
  <2> QED BY <1>t, <2>1, <2>2, <2>3, <2>4 DEF Types, MirrorType, OrdType, RowType, PendType, HistType, FlatType
<1>25. ASSUME CloseGoneDone PROVE Types'
  <2>1. PcType'
    BY <1>25, <1>t DEF CloseGoneDone, Types, PcType, Actors, PollPCs, UserPCs
  <2>2. LocalType'
    BY <1>25, <1>t, LocalTypes, RecordTypes, AbsLeast, CopyAssumption DEF CloseGoneDone, Types, LocalType, Locals
  <2>3. UNCHANGED <<mirror, leader, held, ord, row, pend, saved, suspects, lost, fl>>
    BY <1>25 DEF CloseGoneDone, venueVars, pendVars
  <2> QED BY <1>t, <2>1, <2>2, <2>3 DEF Types, MirrorType, HoldType, OrdType, RowType, PendType, HistType, FlatType
<1>26. ASSUME NEW p \in Products, Flip(p) PROVE Types'
  <2>1. HoldType'
    BY <1>26, <1>t, PollCloseShrinks DEF Flip, Types, HoldType, Shrinks
  <2>2. PcType'
    BY <1>26, <1>t DEF Flip, SendClose, Types, PcType, Actors, PollPCs, UserPCs
  <2>3. LocalType'
    <3>o. k.rows[p] \in Orders /\ k.rows[p] \in 0..MaxOrders
      BY <1>26, <1>t, InHandTypes, LocalTypes, CopyAssumption DEF Flip, Tracks, Opening, Orders
    <3>s. row[k.rows[p]].size \in 0..MaxLots
      BY <3>o, <1>t, OrderTypes
    <3>b. pc["poll"] \in {"open", "close"}
      BY <1>26 DEF Flip, Opening
    <3> DEFINE n == row[k.rows[p]].size
    <3>n. n \in Int
      BY <3>s, CopyAssumption
    <3>e. n = row[k.rows[p]].size /\ n = Copy(p).size
      BY DEF Copy
    <3> DEFINE c == row[k.rows[p]].size - n
               b == pc["poll"]
    <3>c. c \in Int /\ b \in {"open", "close"}
      BY <3>s, <3>b, <3>n, CopyAssumption
    <3> HIDE DEF n
    <3>1. k' = [[k EXCEPT !.rows[p] = 0] EXCEPT !.o = k.rows[p], !.cut = c, !.back = b] \/ k' = Without(p)
      BY <1>26, <3>e DEF Flip, SendClose
    <3> HIDE DEF c, b
    <3>2. Without(p) \in Locals
      BY <1>t DEF Without, Types, LocalType, Locals
    <3>3. [k EXCEPT !.rows[p] = 0] \in Locals
      <4>1. [k EXCEPT !.rows[p] = 0] = [k EXCEPT !.rows = [k.rows EXCEPT ![p] = 0]]
        BY <1>t DEF Types, LocalType, Locals
      <4> QED BY <4>1, <1>t, RowDropped DEF Types, LocalType, Locals
    <3>4. CASE k' = [[k EXCEPT !.rows[p] = 0] EXCEPT !.o = k.rows[p], !.cut = c, !.back = b]
      BY <3>3, <3>4, <3>o, <3>c DEF LocalType, Locals
    <3> QED BY <3>1, <3>2, <3>4 DEF LocalType
  <2>4. UNCHANGED <<mirror, ord, row, pend, saved, suspects, lost, fl>>
    BY <1>26 DEF Flip, venueVars, pendVars
  <2> QED BY <1>t, <2>1, <2>2, <2>3, <2>4 DEF Types, MirrorType, OrdType, RowType, PendType, HistType, FlatType
<1>27. ASSUME NEW p \in Products, Trim(p) PROVE Types'
  <2>1. HoldType'
    BY <1>27, <1>t, PollCloseShrinks DEF Trim, Types, HoldType, Shrinks
  <2>2. PcType'
    BY <1>27, <1>t DEF Trim, SendClose, Types, PcType, Actors, PollPCs, UserPCs
  <2>3. LocalType'
    <3>o. k.rows[p] \in Orders /\ k.rows[p] \in 0..MaxOrders
      BY <1>27, <1>t, InHandTypes, LocalTypes, CopyAssumption DEF Trim, Tracks, Opening, Orders
    <3>s. row[k.rows[p]].size \in 0..MaxLots
      BY <3>o, <1>t, OrderTypes
    <3>b. pc["poll"] \in {"open", "close"}
      BY <1>27, TrimGuard DEF Opening
    <3> DEFINE n == (Copy(p).size * (Copy(p).base - Size(p))) \div Copy(p).base
    <3>n. n \in Int
      BY <1>27, <3>s, TrimGuard, TrimSize, CopyAssumption DEF Copy
    <3>e. n = (Copy(p).size * (Copy(p).base - Size(p))) \div Copy(p).base
      OBVIOUS
    <3> DEFINE c == row[k.rows[p]].size - n
               b == pc["poll"]
    <3>c. c \in Int /\ b \in {"open", "close"}
      BY <3>s, <3>b, <3>n, CopyAssumption
    <3> HIDE DEF n
    <3>1. k' = [[Without(p) EXCEPT !.base = Size(p)] EXCEPT !.o = k.rows[p], !.cut = c, !.back = b] \/ k' = Without(p)
      BY <1>27, <3>e DEF Trim, SendClose
    <3> HIDE DEF c, b
    <3>2. Without(p) \in Locals
      BY <1>t DEF Without, Types, LocalType, Locals
    <3>3. [Without(p) EXCEPT !.base = Size(p)] \in Locals
      BY <3>2, <1>t, LocalTypes, AbsLeast, CopyAssumption DEF Types, LocalType, Locals, Size
    <3>4. CASE k' = [[Without(p) EXCEPT !.base = Size(p)] EXCEPT !.o = k.rows[p], !.cut = c, !.back = b]
      BY <3>3, <3>4, <3>o, <3>c DEF LocalType, Locals
    <3> QED BY <3>1, <3>2, <3>4 DEF LocalType
  <2>4. UNCHANGED <<mirror, ord, row, pend, saved, suspects, lost, fl>>
    BY <1>27 DEF Trim, venueVars, pendVars
  <2> QED BY <1>t, <2>1, <2>2, <2>3, <2>4 DEF Types, MirrorType, OrdType, RowType, PendType, HistType, FlatType
<1>28. ASSUME BookClose PROVE Types'
  <2>1. RowType'
    <3>1. k.cut \in 0..MaxLots /\ k.base \in 0..MaxLots
      BY <1>28, <1>t, LocalTypes, InHandTypes, OrderTypes, CopyAssumption DEF BookClose, IInv, Steps, Poll
    <3> QED BY <1>28, <3>1, <1>t, BookedTypes DEF BookClose, RowType
  <2>2. PcType'
    BY <1>28, <1>t, LocalTypes DEF BookClose, Types, PcType, Actors, PollPCs, UserPCs
  <2>3. LocalType'
    <3>1. 0 \in 0..MaxLots
      BY CopyAssumption
    <3>2. k' = [k EXCEPT !.base = 0, !.back = "open"]
      BY <1>28 DEF BookClose
    <3> QED BY <3>1, <3>2, <1>t DEF Types, LocalType, Locals
  <2>4. UNCHANGED <<mirror, leader, held, ord, pend, saved, suspects, lost, fl>>
    BY <1>28 DEF BookClose, venueVars, pendVars
  <2> QED BY <1>t, <2>1, <2>2, <2>3, <2>4 DEF Types, MirrorType, HoldType, OrdType, PendType, HistType, FlatType
<1>29. ASSUME NEW p \in Products, Add(p) PROVE Types'
  <2>1. RowType'
    <3>1. Copy(p).size \in 0..MaxLots /\ Size(p) \in 0..MaxLots
      BY <1>29, <1>t, AddedTypes, CopyAssumption DEF Add, Tracks, Copy
    <3>2. UNCHANGED row \/ row' = Booked(k.rows[p], Copy(p).size, Size(p))
      BY <1>29 DEF Add
    <3> QED BY <3>1, <3>2, <1>t, BookedTypes DEF Types, RowType
  <2>2. PcType'
    BY <1>29, <1>t DEF Add, Types, PcType, Actors, PollPCs, UserPCs
  <2>3. LocalType'
    <3>1. k' = Without(p) \/ k' = [Without(p) EXCEPT !.p = p]
      BY <1>29 DEF Add
    <3>2. Without(p) \in Locals /\ [Without(p) EXCEPT !.p = p] \in Locals
      BY <1>t DEF Without, Types, LocalType, Locals
    <3> QED BY <3>1, <3>2 DEF LocalType
  <2>4. UNCHANGED <<mirror, leader, held, ord, pend, saved, suspects, lost, fl>>
    BY <1>29 DEF Add, venueVars, pendVars
  <2> QED BY <1>t, <2>1, <2>2, <2>3, <2>4 DEF Types, MirrorType, HoldType, OrdType, PendType, HistType, FlatType
<1>30. ASSUME AddSend PROVE Types'
  <2>1. HoldType'
    <3>1. k.rows[k.p] # 0 /\ k.p \in Products
      BY <1>30, <1>t, LocalTypes DEF AddSend, IInv, Steps, Poll
    <3>2. Added(k.p) \in Int /\ ord[k.rows[k.p]].d \in {-1, 1}
      BY <3>1, <1>t, AddedTypes, OrderTypes DEF Sides
    <3>3. ord[k.rows[k.p]].d * Added(k.p) \in Int
      BY <3>2
    <3> QED BY <1>30, <3>1, <3>3, <1>t DEF AddSend, Types, HoldType
  <2>2. PcType'
    BY <1>30, <1>t DEF AddSend, Types, PcType, Actors, PollPCs, UserPCs
  <2>3. LocalType'
    <3>1. k.rows[k.p] # 0 /\ k.p \in Products
      BY <1>30, <1>t, LocalTypes DEF AddSend, IInv, Steps, Poll
    <3>2. Added(k.p) \in Int
      BY <3>1, AddedTypes
    <3>3. k' = k \/ k' = [k EXCEPT !.seen = Added(k.p)]
      BY <1>30 DEF AddSend
    <3> QED BY <3>2, <3>3, <1>t DEF Types, LocalType, Locals
  <2>4. UNCHANGED <<mirror, ord, row, pend, saved, suspects, lost, fl>>
    BY <1>30 DEF AddSend, venueVars, pendVars
  <2> QED BY <1>t, <2>1, <2>2, <2>3, <2>4 DEF Types, MirrorType, OrdType, RowType, PendType, HistType, FlatType
<1>31. ASSUME Grow PROVE Types'
  <2>1. RowType'
    <3>1. k.rows[k.p] # 0 /\ k.p \in Products /\ k.seen \in Nat /\ Copy(k.p).size + k.seen <= MaxLots
      BY <1>31, <1>t, LocalTypes DEF Grow, IInv, Steps, Poll
    <3>2. Copy(k.p).size + k.seen \in 0..MaxLots /\ Size(k.p) \in 0..MaxLots
      BY <3>1, AddedTypes, CopyAssumption DEF Copy
    <3> QED BY <1>31, <3>2, <1>t, BookedTypes DEF Grow, RowType
  <2>2. HistType'
    <3>1. UNCHANGED lost \/ \E short : ShortBy(k.p, short)
      BY <1>31 DEF Grow
    <3>2. UNCHANGED suspects
      BY <1>31 DEF Grow, pendVars
    <3> QED BY <3>1, <3>2, <1>t, LocalTypes, ShortTypes DEF Types, HistType
  <2>3. PcType'
    BY <1>31, <1>t DEF Grow, Types, PcType, Actors, PollPCs, UserPCs
  <2>4. UNCHANGED <<mirror, leader, held, ord, pend, saved, k, fl>>
    BY <1>31 DEF Grow, venueVars, pendVars
  <2> QED BY <1>t, <2>1, <2>2, <2>3, <2>4 DEF Types, MirrorType, HoldType, OrdType, PendType, LocalType, FlatType
<1>32. ASSUME NEW p \in Products, Skip(p) PROVE Types'
  <2>1. PcType'
    BY <1>32, <1>t DEF Skip, Types, PcType, Actors, PollPCs, UserPCs
  <2>2. LocalType'
    <3>1. k' = Without(p)
      BY <1>32 DEF Skip
    <3> QED BY <3>1, <1>t DEF Without, Types, LocalType, Locals
  <2>3. UNCHANGED <<mirror, leader, held, ord, row, pend, saved, suspects, lost, fl>>
    BY <1>32 DEF Skip, venueVars, pendVars
  <2> QED BY <1>t, <2>1, <2>2, <2>3 DEF Types, MirrorType, HoldType, OrdType, RowType, PendType, HistType, FlatType
<1>33. ASSUME NEW p \in Products, Open(p) PROVE Types'
  <2>1. PcType'
    BY <1>33, <1>t DEF Open, Types, PcType, Actors, PollPCs, UserPCs
  <2>2. LocalType'
    <3>1. k' = [Without(p) EXCEPT !.p = p]
      BY <1>33 DEF Open
    <3>2. Without(p) \in Locals /\ [Without(p) EXCEPT !.p = p] \in Locals
      BY <1>t DEF Without, Types, LocalType, Locals
    <3> QED BY <3>1, <3>2 DEF LocalType
  <2>3. UNCHANGED <<mirror, leader, held, ord, row, pend, saved, suspects, lost, fl>>
    BY <1>33 DEF Open, venueVars, pendVars
  <2> QED BY <1>t, <2>1, <2>2, <2>3 DEF Types, MirrorType, HoldType, OrdType, RowType, PendType, HistType, FlatType
<1>34. ASSUME CheckLive PROVE Types'
  <2>1. PcType'
    BY <1>34, <1>t DEF CheckLive, Types, PcType, Actors, PollPCs, UserPCs
  <2>2. LocalType'
    BY <1>34, <1>t, LocalTypes, RecordTypes, AbsLeast, CopyAssumption DEF CheckLive, Types, LocalType, Locals
  <2>3. UNCHANGED <<mirror, leader, held, ord, row, pend, saved, suspects, lost, fl>>
    BY <1>34 DEF CheckLive, venueVars, pendVars
  <2> QED BY <1>t, <2>1, <2>2, <2>3 DEF Types, MirrorType, HoldType, OrdType, RowType, PendType, HistType, FlatType
<1>35. ASSUME Place PROVE Types'
  <2>1. OrdType'
    <3> DEFINE r == [p |-> k.p, d |-> Side(k.lmap[k.p]), size |-> Size(k.p), filled |-> 0, live |-> TRUE]
    <3>1. k.p \in Products /\ k.lmap[k.p] \in -MaxLots..MaxLots
      BY <1>t, LocalTypes
    <3>2. r \in OrderRec
      BY <3>1, AbsLeast, CopyAssumption DEF OrderRec, Size
    <3>3. UNCHANGED ord \/ ord' = [ord EXCEPT ![Min(Orders \ Placed)] = r]
      BY <1>35 DEF Place
    <3> QED BY <3>2, <3>3, <1>t DEF Types, OrdType
  <2>2. PcType'
    BY <1>35, <1>t DEF Place, Types, PcType, Actors, PollPCs, UserPCs
  <2>3. LocalType'
    <3>1. k' = k \/ k' = [k EXCEPT !.o = Min(Orders \ Placed)]
      BY <1>35 DEF Place
    <3>2. Min(Orders \ Placed) \in Orders \ Placed
      <4>1. Orders \ Placed # {}
        BY <1>35 DEF Place, IInv, Steps, Poll, Placed
      <4> QED BY <4>1, MinOrder, CopyAssumption
    <3>3. Min(Orders \ Placed) \in 0..MaxOrders
      BY <3>2, CopyAssumption DEF Orders
    <3> QED BY <3>1, <3>3, <1>t DEF Types, LocalType, Locals
  <2>4. UNCHANGED <<mirror, leader, held, row, pend, saved, suspects, lost, fl>>
    BY <1>35 DEF Place, venueVars, pendVars
  <2> QED BY <1>t, <2>1, <2>2, <2>3, <2>4 DEF Types, MirrorType, HoldType, RowType, PendType, HistType, FlatType
<1>36. ASSUME WaitFilled PROVE Types'
  <2>1. PcType'
    BY <1>36, <1>t DEF WaitFilled, Types, PcType, Actors, PollPCs, UserPCs
  <2>2. LocalType'
    <3>1. ord[k.o].size \in Int
      BY <1>36, <1>t, InHandTypes, OrderTypes, CopyAssumption DEF WaitFilled
    <3> QED BY <1>36, <3>1, <1>t DEF WaitFilled, Types, LocalType, Locals
  <2>3. UNCHANGED <<mirror, leader, held, ord, row, pend, saved, suspects, lost, fl>>
    BY <1>36 DEF WaitFilled, venueVars, pendVars
  <2> QED BY <1>t, <2>1, <2>2, <2>3 DEF Types, MirrorType, HoldType, OrdType, RowType, PendType, HistType, FlatType
<1>37. ASSUME WaitOver PROVE Types'
  <2>1. OrdType'
    <3>1. UNCHANGED ord \/ ord' = Cancelled(k.o)
      BY <1>37 DEF WaitOver
    <3> QED BY <3>1, <1>t, CancelTypes DEF Types, OrdType
  <2>2. PcType'
    BY <1>37, <1>t DEF WaitOver, Types, PcType, Actors, PollPCs, UserPCs
  <2>3. LocalType'
    <3>1. PICK acks \in CancelAcks(k.o) : k' = [k EXCEPT !.q = [o |-> k.o, acked |-> acks, age |-> 0]]
      BY <1>37 DEF WaitOver
    <3>2. acks \in BOOLEAN /\ k.o \in 0..MaxOrders
      BY <1>t, AckTypes, LocalTypes
    <3>3. [o |-> k.o, acked |-> acks, age |-> 0] \in PendRec
      BY <3>2, CopyAssumption DEF PendRec
    <3> QED BY <3>1, <3>3, <1>t DEF Types, LocalType, Locals
  <2>4. UNCHANGED <<mirror, leader, held, row, pend, saved, suspects, lost, fl>>
    BY <1>37 DEF WaitOver, venueVars, pendVars
  <2> QED BY <1>t, <2>1, <2>2, <2>3, <2>4 DEF Types, MirrorType, HoldType, RowType, PendType, HistType, FlatType
<1>38. ASSUME ReadBack PROVE Types'
  <2>1. HistType'
    <3>1. UNCHANGED lost \/ \E short : ShortBy(k.p, short)
      BY <1>38 DEF ReadBack
    <3>2. UNCHANGED suspects
      BY <1>38 DEF ReadBack, pendVars
    <3> QED BY <3>1, <3>2, <1>t, LocalTypes, ShortTypes DEF Types, HistType
  <2>2. PcType'
    BY <1>38, <1>t DEF ReadBack, Types, PcType, Actors, PollPCs, UserPCs
  <2>3. LocalType'
    <3>1. k' = k \/ \E s \in Shown(k.o) : k' = [k EXCEPT !.seen = s]
      BY <1>38 DEF ReadBack
    <3>2. k.o \in Orders
      BY <1>38, InHandTypes DEF ReadBack
    <3>3. \A s \in Shown(k.o) : s \in Int
      BY <3>2, <1>t, ShownTypes, OrderTypes, CopyAssumption
    <3> QED BY <3>1, <3>3, <1>t DEF Types, LocalType, Locals
  <2>4. UNCHANGED <<mirror, leader, held, ord, row, pend, saved, fl>>
    BY <1>38 DEF ReadBack, venueVars, pendVars
  <2> QED BY <1>t, <2>1, <2>2, <2>3, <2>4 DEF Types, MirrorType, HoldType, OrdType, RowType, PendType, FlatType
<1>39. ASSUME InsertRow PROVE Types'
  <2>1. RowType'
    <3>1. k.o \in Orders /\ k.seen \in 0..MaxLots /\ ord[k.o].size \in 0..MaxLots
      BY <1>39, <1>t, InHandTypes, OrderTypes, LocalTypes, CopyAssumption DEF InsertRow, IInv, Steps, Poll
    <3>2. Size(k.p) \in 0..MaxLots
      BY <1>t, LocalTypes, AbsLeast DEF Size
    <3> QED BY <1>39, <3>1, <3>2, <1>t DEF InsertRow, Types, RowType, RowRec
  <2>2. PcType'
    BY <1>39, <1>t DEF InsertRow, Types, PcType, Actors, PollPCs, UserPCs
  <2>3. UNCHANGED <<mirror, leader, held, ord, pend, saved, suspects, lost, k, fl>>
    BY <1>39 DEF InsertRow, venueVars, pendVars
  <2> QED BY <1>t, <2>1, <2>2, <2>3 DEF Types, MirrorType, HoldType, OrdType, PendType, HistType, LocalType, FlatType
<1>40. ASSUME Recheck PROVE Types'
  <2>1. PcType'
    BY <1>40, <1>t DEF Recheck, Types, PcType, Actors, PollPCs, UserPCs
  <2>2. UNCHANGED <<mirror, leader, held, ord, row, pend, saved, suspects, lost, k, fl>>
    BY <1>40 DEF Recheck, venueVars, pendVars
  <2> QED BY <1>t, <2>1, <2>2 DEF Types, MirrorType, HoldType, OrdType, RowType, PendType, HistType, LocalType, FlatType
<1>41. ASSUME _unwind_stop_raced_open PROVE Types'
  <2>1. HoldType'
    BY <1>41, <1>t, PollCloseShrinks DEF _unwind_stop_raced_open, Types, HoldType, Shrinks
  <2>2. MirrorType'
    BY <1>41, <1>t, MirrorUpdates DEF _unwind_stop_raced_open, Types
  <2>3. PcType'
    BY <1>41, <1>t DEF _unwind_stop_raced_open, Types, PcType, Actors, PollPCs, UserPCs
  <2>4. LocalType'
    <3>1. k' = k \/ k' = [k EXCEPT !.cut = 0]
      BY <1>41 DEF _unwind_stop_raced_open
    <3> QED BY <3>1, <1>t DEF Types, LocalType, Locals
  <2>5. UNCHANGED <<ord, row, pend, saved, suspects, lost, fl>>
    BY <1>41 DEF _unwind_stop_raced_open, venueVars, pendVars
  <2> QED BY <1>t, <2>1, <2>2, <2>3, <2>4, <2>5 DEF Types, OrdType, RowType, PendType, HistType, FlatType
<1>42. ASSUME _register_pending_maker_open PROVE Types'
  <2>1. PendType'
    BY <1>42, <1>t, LocalTypes DEF _register_pending_maker_open, Types, PendType
  <2>2. PcType'
    BY <1>42, <1>t DEF _register_pending_maker_open, Types, PcType, Actors, PollPCs, UserPCs
  <2>3. UNCHANGED <<mirror, leader, held, ord, row, suspects, lost, k, fl>>
    BY <1>42 DEF _register_pending_maker_open, venueVars, pendVars
  <2> QED BY <1>t, <2>1, <2>2, <2>3 DEF Types, MirrorType, HoldType, OrdType, RowType, HistType, LocalType, FlatType
<1>43. ASSUME RearmPending PROVE Types'
  <2>1. MirrorType'
    BY <1>43, <1>t, MirrorUpdates DEF RearmPending, Types
  <2>2. PcType'
    BY <1>43, <1>t DEF RearmPending, Types, PcType, Actors, PollPCs, UserPCs
  <2>3. UNCHANGED <<leader, held, ord, row, pend, saved, suspects, lost, k, fl>>
    BY <1>43 DEF RearmPending, venueVars, pendVars
  <2> QED BY <1>t, <2>1, <2>2, <2>3 DEF Types, HoldType, OrdType, RowType, PendType, HistType, LocalType, FlatType
<1>44. ASSUME SyncDone PROVE Types'
  <2>1. PcType'
    BY <1>44, <1>t DEF SyncDone, Types, PcType, Actors, PollPCs, UserPCs
  <2>2. LocalType'
    BY <1>44, <1>t, LocalTypes, RecordTypes, AbsLeast, CopyAssumption DEF SyncDone, Types, LocalType, Locals
  <2>3. UNCHANGED <<mirror, leader, held, ord, row, pend, saved, suspects, lost, fl>>
    BY <1>44 DEF SyncDone, venueVars, pendVars
  <2> QED BY <1>t, <2>1, <2>2, <2>3 DEF Types, MirrorType, HoldType, OrdType, RowType, PendType, HistType, FlatType
<1> QED BY <1>1, <1>2, <1>3, <1>4, <1>5, <1>6, <1>7, <1>8, <1>9, <1>10, <1>11, <1>12, <1>13, <1>14, <1>15, <1>16, <1>17, <1>18, <1>19, <1>20, <1>21, <1>22, <1>23, <1>24, <1>25, <1>26, <1>27, <1>28, <1>29, <1>30, <1>31, <1>32, <1>33, <1>34, <1>35, <1>36, <1>37, <1>38, <1>39, <1>40, <1>41, <1>42, <1>43, <1>44 DEF Next, World, PollStep, UserStep, FlattenStep, Actors

-----------------------------------------------------------------------------
(* Orderly: an order is never filled beyond its size, and a row has an order *)
(* and a size.                                                               *)

\* Booking changes one open row, and closes it when nothing is left.
LEMMA BookedEffect ==
  ASSUME Types, NEW o \in Orders, NEW left \in 0..MaxLots, NEW base \in 0..MaxLots, row' = Booked(o, left, base)
  PROVE  /\ \A q \in Orders : q # o => row'[q] = row[q]
         /\ row[o].st # "open" => row'[o] = row[o]
         /\ row[o].st = "open" /\ left = 0 => row'[o].st = "closed" /\ row'[o].size = row[o].size /\ row'[o].base = row[o].base
         /\ row[o].st = "open" /\ left # 0 => row'[o].st = "open" /\ row'[o].size = left /\ row'[o].base = base
<1>1. row \in [Orders -> RowRec]
  BY DEF Types, RowType
<1>2. CASE row[o].st # "open"
  BY <1>1, <1>2 DEF Booked
<1>3. CASE row[o].st = "open" /\ left = 0
  <2>1. row' = [row EXCEPT ![o].st = "closed"]
    BY <1>3 DEF Booked
  <2> QED BY <1>1, <1>3, <2>1 DEF RowRec
<1>4. CASE row[o].st = "open" /\ left # 0
  <2>1. row' = [row EXCEPT ![o].size = left, ![o].base = base]
    BY <1>4 DEF Booked
  <2> QED BY <1>1, <1>4, <2>1 DEF RowRec
<1> QED BY <1>2, <1>3, <1>4

Rebooks ==
    \/ UNCHANGED row
    \/ \E o \in Orders, left \in 0..MaxLots, base \in 0..MaxLots :
         (left > 0 => base > 0) /\ row' = Booked(o, left, base)

\* Booking never opens a row.
LEMMA RebooksEffect ==
  ASSUME Types, Rebooks
  PROVE  \A q \in Orders :
           /\ row'[q].st = "none" <=> row[q].st = "none"
           /\ row'[q].st = "open" => row[q].st = "open"
           /\ row[q].st # "open" => row'[q] = row[q]
           /\ row[q].size > 0 /\ row[q].base > 0 => row'[q].size > 0 /\ row'[q].base > 0
<1>1. CASE UNCHANGED row
  BY <1>1
<1>2. ASSUME NEW o \in Orders, NEW left \in 0..MaxLots, NEW base \in 0..MaxLots,
             left > 0 => base > 0, row' = Booked(o, left, base), NEW q \in Orders
      PROVE  /\ row'[q].st = "none" <=> row[q].st = "none"
             /\ row'[q].st = "open" => row[q].st = "open"
             /\ row[q].st # "open" => row'[q] = row[q]
             /\ row[q].size > 0 /\ row[q].base > 0 => row'[q].size > 0 /\ row'[q].base > 0
  <2>1. /\ q # o => row'[q] = row[q]
        /\ row[o].st # "open" => row'[o] = row[o]
        /\ row[o].st = "open" /\ left = 0 => row'[o].st = "closed" /\ row'[o].size = row[o].size /\ row'[o].base = row[o].base
        /\ row[o].st = "open" /\ left # 0 => row'[o].st = "open" /\ row'[o].size = left /\ row'[o].base = base
    BY <1>2, BookedEffect
  <2>2. left # 0 => left > 0 /\ base > 0
    BY <1>2, CopyAssumption
  <2> QED BY <2>1, <2>2
<1> QED BY <1>1, <1>2 DEF Rebooks

\* A cancel changes nothing of an order but that it rests.
LEMMA CancelEffect ==
  ASSUME Types, NEW o, UNCHANGED ord \/ ord' = Cancelled(o)
  PROVE  \A q \in Orders :
           /\ ord'[q].p = ord[q].p /\ ord'[q].d = ord[q].d /\ ord'[q].size = ord[q].size /\ ord'[q].filled = ord[q].filled
           /\ ord'[q].live => ord[q].live
           /\ q # o => ord'[q] = ord[q]
           /\ ord' = Cancelled(o) /\ q = o => ~ord'[q].live
<1>1. ord \in [Orders -> OrderRec]
  BY DEF Types, OrdType
<1> QED BY <1>1 DEF Cancelled, OrderRec

\* A fill is of one lot, of the order and of what is held alike.
LEMMA FillEffect ==
  ASSUME Types, NEW o \in Orders, Fill(o)
  PROVE  /\ \A q \in Orders : q # o => ord'[q] = ord[q]
         /\ ord'[o].p = ord[o].p /\ ord'[o].d = ord[o].d /\ ord'[o].size = ord[o].size
         /\ ord'[o].filled = ord[o].filled + 1
         /\ ord[o].live /\ (ord'[o].live => ord'[o].filled < ord'[o].size)
         /\ \A p \in Products : p # ord[o].p => held'[p] = held[p]
         /\ held'[ord[o].p] = held[ord[o].p] + ord[o].d
<1> DEFINE f == ord[o].filled + 1
           l == f < ord[o].size
<1>1. ord \in [Orders -> OrderRec] /\ held \in [Products -> Int] /\ ord[o].p \in Products
  BY OrderTypes DEF Types, OrdType, HoldType
<1>2. ord' = [ord EXCEPT ![o].filled = f, ![o].live = l] /\ ord[o].live
  BY DEF Fill
<1>3. held' = [held EXCEPT ![ord[o].p] = @ + ord[o].d]
  BY DEF Fill
<1>4. l => f < ord[o].size
  OBVIOUS
<1>5. f = ord[o].filled + 1
  OBVIOUS
<1> HIDE DEF f, l
<1>6. /\ \A q \in Orders : q # o => ord'[q] = ord[q]
      /\ ord'[o].p = ord[o].p /\ ord'[o].d = ord[o].d /\ ord'[o].size = ord[o].size
      /\ ord'[o].filled = f /\ ord'[o].live = l
  BY <1>1, <1>2 DEF OrderRec
<1> QED BY <1>1, <1>2, <1>3, <1>4, <1>5, <1>6

\* An order is forgotten with its row, or neither is.
LEMMA ForgetEffect ==
  ASSUME Types, Forget
  PROVE  \A q \in Orders : \/ Settled(q) /\ ord'[q] = NoOrder /\ row'[q] = NoRow
                           \/ ~Settled(q) /\ ord'[q] = ord[q] /\ row'[q] = row[q]
BY DEF Forget

\* An open is refused, or takes an order that is free.
LEMMA PlaceEffect ==
  ASSUME IInv, Place
  PROVE  \/ UNCHANGED <<ord, k>> /\ pc'["poll"] = "open"
         \/ \E o \in Orders :
              /\ ord[o].size = 0 /\ k' = [k EXCEPT !.o = o] /\ pc'["poll"] = "wait"
              /\ \A q \in Orders : q # o => ord'[q] = ord[q]
              /\ ord'[o].p = k.p /\ ord'[o].d = Side(k.lmap[k.p]) /\ ord'[o].size = Size(k.p)
              /\ ord'[o].filled = 0 /\ ord'[o].live
<1> DEFINE o == Min(Orders \ Placed)
<1>1. o \in Orders \ Placed
  <2>1. Orders \ Placed # {}
    BY DEF Place, IInv, Steps, Poll, Placed
  <2> QED BY <2>1, MinOrder, CopyAssumption
<1>2. ord \in [Orders -> OrderRec] /\ pc \in [Actors -> PollPCs]
  BY DEF IInv, Types, OrdType, PcType
<1> HIDE DEF o
<1>3. ord[o].size = 0
  BY <1>1, OrderTypes, CopyAssumption DEF Placed, IInv
<1>4. \/ UNCHANGED <<ord, k>> /\ pc' = [pc EXCEPT !["poll"] = "open"]
      \/ /\ ord' = [ord EXCEPT ![o] = [p |-> k.p, d |-> Side(k.lmap[k.p]), size |-> Size(k.p), filled |-> 0, live |-> TRUE]]
         /\ k' = [k EXCEPT !.o = o] /\ pc' = [pc EXCEPT !["poll"] = "wait"]
  BY DEF Place, Kept, PollGoto, Goto, o
<1> QED BY <1>1, <1>2, <1>3, <1>4, AckTypes

\* A fill that is booked gets the row of its order, which had none.
LEMMA InsertEffect ==
  ASSUME IInv, InsertLate \/ InsertRow
  PROVE  /\ k.o \in Orders /\ row[k.o].st = "none" /\ ord[k.o].size > 0
         /\ \A q \in Orders : q # k.o => row'[q] = row[q]
         /\ row'[k.o].st = "open" /\ row'[k.o].size = k.seen /\ row'[k.o].base > 0 /\ k.seen > 0
<1>1. row \in [Orders -> RowRec] /\ Types
  BY DEF IInv, Types, RowType
<1>2. pc["poll"] \in {"insert", "late"}
  BY DEF InsertLate, InsertRow
<1>3. k.o \in Orders /\ row[k.o].st = "none" /\ ord[k.o].size > 0 /\ k.seen > 0
  BY <1>2, InHandTypes DEF IInv, Steps, Poll, InFlight
<1>4. InsertRow => Size(k.p) > 0
  <2> SUFFICES ASSUME InsertRow PROVE Size(k.p) > 0
    OBVIOUS
  <2>1. k.lmap[k.p] # 0
    BY DEF IInv, Steps, Poll, InsertRow
  <2>2. k.lmap[k.p] \in Int
    BY <1>1, LocalTypes, CopyAssumption
  <2> QED BY <2>1, <2>2 DEF Size, Abs
<1>5. CASE InsertLate
  BY <1>1, <1>3, <1>5 DEF InsertLate
<1>6. CASE InsertRow
  BY <1>1, <1>3, <1>4, <1>6 DEF InsertRow
<1> QED BY <1>5, <1>6

\* The steps that book on rows.
LEMMA Rebooking ==
  ASSUME IInv, (\E t \in Actors : FlattenBook(t)) \/ (\E p \in Products : Sweep(p) \/ Add(p)) \/ BookClose \/ Grow
  PROVE  Rebooks
<1>t. Types
  BY DEF IInv
<1>1. ASSUME NEW t \in Actors, FlattenBook(t) PROVE Rebooks
  BY <1>1, InHandTypes, CopyAssumption DEF FlattenBook, Rebooks
<1>2. ASSUME NEW p \in Products, Sweep(p) PROVE Rebooks
  <2> DEFINE r == k.rows[p]
             v == IF k.vmap[p] * ord[r].d > 0 THEN Abs(k.vmap[p]) ELSE 0
  <2>1. r \in Orders /\ row[r].size \in 0..MaxLots /\ row[r].base \in 0..MaxLots /\ k.vmap[p] \in Int
    BY Zenon, <1>2, <1>t, InHandTypes, OrderTypes, LocalTypes DEF Sweep
  <2>2. v \in Nat
    BY <2>1, AbsLeast
  <2>3. UNCHANGED row \/ row' = Booked(r, 0, 0) \/ (v < row[r].size /\ row' = Booked(r, v, row[r].base))
    BY Zenon, <1>2 DEF Sweep
  <2>4. row[r].base > 0
    <3>1. k.rows[p] # 0
      BY <2>1, CopyAssumption DEF Orders
    <3> QED BY <3>1, AddedTypes, CopyAssumption
  <2> HIDE DEF v, r
  <2>5. v < row[r].size => v \in 0..MaxLots
    BY <2>1, <2>2, CopyAssumption
  <2> QED BY <2>1, <2>3, <2>4, <2>5, CopyAssumption DEF Rebooks
<1>3. ASSUME NEW p \in Products, Add(p) PROVE Rebooks
  <2>1. k.rows[p] \in Orders /\ Copy(p).size \in 0..MaxLots /\ Size(p) \in 0..MaxLots /\ Copy(p).base \in 1..MaxLots
    BY <1>3, <1>t, AddedTypes, CopyAssumption DEF Add, Tracks, Copy
  <2>2. UNCHANGED row \/ row' = Booked(k.rows[p], Copy(p).size, Size(p))
    BY <1>3 DEF Add
  <2>3. Size(p) > 0
    BY <1>3, <2>1, CopyAssumption DEF Add
  <2> QED BY <2>1, <2>2, <2>3 DEF Rebooks
<1>4. ASSUME BookClose PROVE Rebooks
  <2>1. k.o \in Orders /\ k.cut \in 0..MaxLots /\ k.base \in 0..MaxLots /\ (k.cut > 0 => k.base > 0)
    BY <1>4, <1>t, LocalTypes, InHandTypes, OrderTypes, CopyAssumption DEF BookClose, IInv, Steps, Poll
  <2> QED BY <1>4, <2>1 DEF BookClose, Rebooks
<1>5. ASSUME Grow PROVE Rebooks
  <2>1. k.rows[k.p] # 0 /\ k.p \in Products /\ k.seen \in Nat /\ Copy(k.p).size + k.seen <= MaxLots /\ k.lmap[k.p] # 0
    BY <1>5, <1>t, LocalTypes DEF Grow, IInv, Steps, Poll
  <2>2. k.rows[k.p] \in Orders /\ Copy(k.p).size + k.seen \in 0..MaxLots /\ Size(k.p) \in 0..MaxLots
    BY <2>1, AddedTypes, CopyAssumption DEF Copy
  <2>3. Size(k.p) > 0
    BY <2>1, <1>t, LocalTypes, CopyAssumption DEF Size, Abs
  <2> QED BY <1>5, <2>2, <2>3 DEF Grow, Rebooks
<1> QED BY <1>1, <1>2, <1>3, <1>4, <1>5

\* Every step keeps Orderly.
LEMMA NextOrderly == ASSUME IInv, Next, Types' PROVE Orderly'
<1> USE DEF Goto, PollGoto, Kept, Return, Upset, Spend
<1>t. Types /\ Orderly
  BY DEF IInv
<1>1. ASSUME NEW p \in Products, LeaderMove(p) PROVE Orderly'
  <2>1. UNCHANGED <<ord, row>>
    BY <1>1 DEF LeaderMove, venueVars, pendVars
  <2> QED BY <2>1, <1>t DEF Orderly
<1>2. ASSUME NEW o \in Orders, Fill(o) PROVE Orderly'
  <2>1. UNCHANGED row
    BY <1>2 DEF Fill
  <2> QED BY <2>1, <1>2, <1>t, FillEffect, OrderTypes, CopyAssumption DEF Orderly
<1>3. ASSUME NEW p \in Products, ExternalClose(p) PROVE Orderly'
  <2>1. UNCHANGED <<ord, row>>
    BY <1>3 DEF ExternalClose, venueVars, pendVars
  <2> QED BY <2>1, <1>t DEF Orderly
<1>4. ASSUME start_copy PROVE Orderly'
  <2>1. UNCHANGED <<ord, row>>
    BY <1>4 DEF start_copy, venueVars, pendVars
  <2> QED BY <2>1, <1>t DEF Orderly
<1>5. ASSUME pause_copy PROVE Orderly'
  <2>1. UNCHANGED <<ord, row>>
    BY <1>5 DEF pause_copy, venueVars, pendVars
  <2> QED BY <2>1, <1>t DEF Orderly
<1>6. ASSUME resume_copy PROVE Orderly'
  <2>1. UNCHANGED <<ord, row>>
    BY <1>6 DEF resume_copy, venueVars, pendVars
  <2> QED BY <2>1, <1>t DEF Orderly
<1>7. ASSUME stop_copy PROVE Orderly'
  <2>1. UNCHANGED <<ord, row>>
    BY <1>7 DEF stop_copy, venueVars, pendVars
  <2> QED BY <2>1, <1>t DEF Orderly
<1>8. ASSUME boot_stand_down_mirrors PROVE Orderly'
  <2>1. UNCHANGED <<ord, row>>
    BY <1>8 DEF boot_stand_down_mirrors, venueVars, pendVars
  <2> QED BY <2>1, <1>t DEF Orderly
<1>9. ASSUME NEW t \in Actors, FlattenClose(t) PROVE Orderly'
  <2>1. UNCHANGED <<ord, row>>
    BY <1>9 DEF FlattenClose, venueVars, pendVars
  <2> QED BY <2>1, <1>t DEF Orderly
<1>10. ASSUME NEW t \in Actors, FlattenBook(t) PROVE Orderly'
  <2>1. Rebooks /\ UNCHANGED ord
    BY <1>10, Rebooking DEF FlattenBook, venueVars
  <2> QED BY <2>1, <1>t, RebooksEffect DEF Orderly
<1>11. ASSUME NEW t \in Actors, FlattenEnd(t) PROVE Orderly'
  <2>1. UNCHANGED <<ord, row>>
    BY <1>11 DEF FlattenEnd, venueVars, pendVars
  <2> QED BY <2>1, <1>t DEF Orderly
<1>12. ASSUME NEW t \in Actors, StopRow(t) PROVE Orderly'
  <2>1. UNCHANGED <<ord, row>>
    BY <1>12 DEF StopRow, venueVars, pendVars
  <2> QED BY <2>1, <1>t DEF Orderly
<1>13. ASSUME NEW t \in Actors, _clear_mirror_runtime_state(t) PROVE Orderly'
  <2>1. UNCHANGED <<ord, row>>
    BY <1>13 DEF _clear_mirror_runtime_state, venueVars, pendVars
  <2> QED BY <2>1, <1>t DEF Orderly
<1>14. ASSUME _poll_all_mirrors PROVE Orderly'
  <2>1. Forget
    BY <1>14 DEF _poll_all_mirrors
  <2>2. NoOrder.filled = 0 /\ NoOrder.size = 0 /\ NoOrder.live = FALSE /\ NoRow.st = "none"
    BY DEF NoOrder, NoRow
  <2> QED BY <2>1, <2>2, <1>t, ForgetEffect DEF Orderly
<1>15. ASSUME LoadLeader PROVE Orderly'
  <2>1. UNCHANGED <<ord, row>>
    BY <1>15 DEF LoadLeader, venueVars, pendVars
  <2> QED BY <2>1, <1>t DEF Orderly
<1>16. ASSUME ResolveRead PROVE Orderly'
  <2>1. UNCHANGED <<ord, row>>
    BY <1>16 DEF ResolveRead, venueVars, pendVars
  <2> QED BY <2>1, <1>t DEF Orderly
<1>17. ASSUME ResolveVerdict PROVE Orderly'
  <2>1. UNCHANGED row /\ (UNCHANGED ord \/ ord' = Cancelled(k.o))
    BY <1>17 DEF ResolveVerdict
  <2> QED BY <2>1, <1>t, CancelEffect DEF Orderly
<1>18. ASSUME InsertLate PROVE Orderly'
  BY <1>18, <1>t, InsertEffect, OrderTypes, LocalTypes, AbsLeast, CopyAssumption DEF InsertLate, IInv, Orderly, venueVars, Size
<1>19. ASSUME Rearm PROVE Orderly'
  <2>1. UNCHANGED <<ord, row>>
    BY <1>19 DEF Rearm, venueVars, pendVars
  <2> QED BY <2>1, <1>t DEF Orderly
<1>20. ASSUME ResolveDone PROVE Orderly'
  <2>1. UNCHANGED <<ord, row>>
    BY <1>20 DEF ResolveDone, venueVars, pendVars
  <2> QED BY <2>1, <1>t DEF Orderly
<1>21. ASSUME ReadVenue PROVE Orderly'
  <2>1. UNCHANGED <<ord, row>>
    BY <1>21 DEF ReadVenue, venueVars, pendVars
  <2> QED BY <2>1, <1>t DEF Orderly
<1>22. ASSUME NEW p \in Products, Sweep(p) PROVE Orderly'
  <2>1. Rebooks /\ UNCHANGED ord
    BY Zenon, <1>22, Rebooking DEF Sweep, venueVars
  <2> QED BY <2>1, <1>t, RebooksEffect DEF Orderly
<1>23. ASSUME Rail PROVE Orderly'
  <2>1. UNCHANGED <<ord, row>>
    BY <1>23 DEF Rail, venueVars, pendVars
  <2> QED BY <2>1, <1>t DEF Orderly
<1>24. ASSUME NEW p \in Products, CloseGone(p) PROVE Orderly'
  <2>1. UNCHANGED <<ord, row>>
    BY <1>24 DEF CloseGone, venueVars, pendVars
  <2> QED BY <2>1, <1>t DEF Orderly
<1>25. ASSUME CloseGoneDone PROVE Orderly'
  <2>1. UNCHANGED <<ord, row>>
    BY <1>25 DEF CloseGoneDone, venueVars, pendVars
  <2> QED BY <2>1, <1>t DEF Orderly
<1>26. ASSUME NEW p \in Products, Flip(p) PROVE Orderly'
  <2>1. UNCHANGED <<ord, row>>
    BY <1>26 DEF Flip, venueVars, pendVars
  <2> QED BY <2>1, <1>t DEF Orderly
<1>27. ASSUME NEW p \in Products, Trim(p) PROVE Orderly'
  <2>1. UNCHANGED <<ord, row>>
    BY <1>27 DEF Trim, venueVars, pendVars
  <2> QED BY <2>1, <1>t DEF Orderly
<1>28. ASSUME BookClose PROVE Orderly'
  <2>1. Rebooks /\ UNCHANGED ord
    BY <1>28, Rebooking DEF BookClose, venueVars
  <2> QED BY <2>1, <1>t, RebooksEffect DEF Orderly
<1>29. ASSUME NEW p \in Products, Add(p) PROVE Orderly'
  <2>1. Rebooks /\ UNCHANGED ord
    BY <1>29, Rebooking DEF Add, venueVars
  <2> QED BY <2>1, <1>t, RebooksEffect DEF Orderly
<1>30. ASSUME AddSend PROVE Orderly'
  <2>1. UNCHANGED <<ord, row>>
    BY <1>30 DEF AddSend, venueVars, pendVars
  <2> QED BY <2>1, <1>t DEF Orderly
<1>31. ASSUME Grow PROVE Orderly'
  <2>1. Rebooks /\ UNCHANGED ord
    BY <1>31, Rebooking DEF Grow, venueVars
  <2> QED BY <2>1, <1>t, RebooksEffect DEF Orderly
<1>32. ASSUME NEW p \in Products, Skip(p) PROVE Orderly'
  <2>1. UNCHANGED <<ord, row>>
    BY <1>32 DEF Skip, venueVars, pendVars
  <2> QED BY <2>1, <1>t DEF Orderly
<1>33. ASSUME NEW p \in Products, Open(p) PROVE Orderly'
  <2>1. UNCHANGED <<ord, row>>
    BY <1>33 DEF Open, venueVars, pendVars
  <2> QED BY <2>1, <1>t DEF Orderly
<1>34. ASSUME CheckLive PROVE Orderly'
  <2>1. UNCHANGED <<ord, row>>
    BY <1>34 DEF CheckLive, venueVars, pendVars
  <2> QED BY <2>1, <1>t DEF Orderly
<1>35. ASSUME Place PROVE Orderly'
  <2>1. UNCHANGED row
    BY <1>35 DEF Place
  <2>2. CASE UNCHANGED ord
    BY <2>1, <2>2, <1>t DEF Orderly
  <2>3. CASE ord # ord'
    <3>1. PICK o \in Orders : /\ ord[o].size = 0 /\ \A q \in Orders : q # o => ord'[q] = ord[q]
                             /\ ord'[o].size = Size(k.p) /\ ord'[o].filled = 0
      BY <1>35, <2>3, PlaceEffect
    <3>2. Size(k.p) \in Int /\ Size(k.p) > 0
      <4>1. k.lmap[k.p] # 0
        BY <1>35 DEF IInv, Steps, Poll, Place
      <4>2. k.lmap[k.p] \in Int
        BY <1>t, LocalTypes, CopyAssumption
      <4> QED BY <4>1, <4>2 DEF Size, Abs
    <3>3. row[o].st = "none"
      BY <3>1, <1>t DEF Orderly
    <3> QED BY <2>1, <3>1, <3>2, <3>3, <1>t DEF Orderly
  <2> QED BY <2>2, <2>3
<1>36. ASSUME WaitFilled PROVE Orderly'
  <2>1. UNCHANGED <<ord, row>>
    BY <1>36 DEF WaitFilled, venueVars, pendVars
  <2> QED BY <2>1, <1>t DEF Orderly
<1>37. ASSUME WaitOver PROVE Orderly'
  <2>1. UNCHANGED row /\ (UNCHANGED ord \/ ord' = Cancelled(k.o))
    BY <1>37 DEF WaitOver
  <2> QED BY <2>1, <1>t, CancelEffect DEF Orderly
<1>38. ASSUME ReadBack PROVE Orderly'
  <2>1. UNCHANGED <<ord, row>>
    BY <1>38 DEF ReadBack, venueVars, pendVars
  <2> QED BY <2>1, <1>t DEF Orderly
<1>39. ASSUME InsertRow PROVE Orderly'
  BY <1>39, <1>t, InsertEffect, OrderTypes, LocalTypes, AbsLeast, CopyAssumption DEF InsertRow, IInv, Orderly, venueVars, Size
<1>40. ASSUME Recheck PROVE Orderly'
  <2>1. UNCHANGED <<ord, row>>
    BY <1>40 DEF Recheck, venueVars, pendVars
  <2> QED BY <2>1, <1>t DEF Orderly
<1>41. ASSUME _unwind_stop_raced_open PROVE Orderly'
  <2>1. UNCHANGED <<ord, row>>
    BY <1>41 DEF _unwind_stop_raced_open, venueVars, pendVars
  <2> QED BY <2>1, <1>t DEF Orderly
<1>42. ASSUME _register_pending_maker_open PROVE Orderly'
  <2>1. UNCHANGED <<ord, row>>
    BY <1>42 DEF _register_pending_maker_open, venueVars, pendVars
  <2> QED BY <2>1, <1>t DEF Orderly
<1>43. ASSUME RearmPending PROVE Orderly'
  <2>1. UNCHANGED <<ord, row>>
    BY <1>43 DEF RearmPending, venueVars, pendVars
  <2> QED BY <2>1, <1>t DEF Orderly
<1>44. ASSUME SyncDone PROVE Orderly'
  <2>1. UNCHANGED <<ord, row>>
    BY <1>44 DEF SyncDone, venueVars, pendVars
  <2> QED BY <2>1, <1>t DEF Orderly
<1> QED BY <1>1, <1>2, <1>3, <1>4, <1>5, <1>6, <1>7, <1>8, <1>9, <1>10, <1>11, <1>12, <1>13, <1>14, <1>15, <1>16, <1>17, <1>18, <1>19, <1>20, <1>21, <1>22, <1>23, <1>24, <1>25, <1>26, <1>27, <1>28, <1>29, <1>30, <1>31, <1>32, <1>33, <1>34, <1>35, <1>36, <1>37, <1>38, <1>39, <1>40, <1>41, <1>42, <1>43, <1>44 DEF Next, World, PollStep, UserStep, FlattenStep, Actors

-----------------------------------------------------------------------------
(* Flattens: what a flatten works on are rows.                               *)

\* Rows and flattens are left as they are, or the rows only closed.
Keep == \A o \in Orders : row[o].st # "none" => row'[o].st # "none"

LEMMA FlatteningKept ==
  ASSUME IInv, NEW t \in Actors, Keep, fl'[t] = fl[t], pc'[t] = pc[t]
  PROVE  Flattening(t)'
<1>1. Flattening(t)
  BY DEF IInv, Flattens
<1>2. \A c \in fl[t].todo : c[1] \in Orders
  BY InHandTypes
<1>3. pc[t] = "flat_book" => fl[t].o \in Orders
  BY InHandTypes
<1> QED BY <1>1, <1>2, <1>3 DEF Flattening, Keep

LEMMA FlatteningBegins ==
  ASSUME IInv, NEW t \in Actors, BeginFlatten(t), UNCHANGED row, pc'[t] = "flatten"
  PROVE  Flattening(t)'
<1> DEFINE T == {<<o, row[o].size>> : o \in OpenRows}
           E == Pending # {}
<1>1. fl \in [Actors -> FlatRec]
  BY DEF IInv, Types, FlatType
<1>2. \A c \in T : row[c[1]].st = "open"
  BY DEF OpenRows
<1>3. fl' = [fl EXCEPT ![t] = [todo |-> T, errs |-> E, o |-> 0]]
  BY DEF BeginFlatten
<1> HIDE DEF T, E
<1>4. fl'[t].todo = T
  BY <1>1, <1>3
<1> QED BY <1>2, <1>4 DEF Flattening

LEMMA KeepRows == ASSUME IInv, UNCHANGED row \/ Rebooks \/ InsertLate \/ InsertRow PROVE Keep
<1>t. Types
  BY DEF IInv
<1>1. CASE UNCHANGED row
  BY <1>1 DEF Keep
<1>2. CASE Rebooks
  BY <1>2, <1>t, RebooksEffect DEF Keep
<1>3. CASE InsertLate \/ InsertRow
  BY <1>3, InsertEffect DEF Keep
<1> QED BY <1>1, <1>2, <1>3

\* Every step keeps Flattens.
LEMMA NextFlattens == ASSUME IInv, Next, Types' PROVE Flattens'
<1> USE DEF Goto, PollGoto, Kept, Return, Upset, Spend
<1>t. Types /\ Flattens
  BY DEF IInv
<1>1. ASSUME NEW p \in Products, LeaderMove(p) PROVE Flattens'
  <2>1. UNCHANGED <<row, pc, fl>>
    BY <1>1 DEF LeaderMove, venueVars, pendVars
  <2> QED BY <2>1, <1>t DEF Flattens, Flattening, Actors
<1>2. ASSUME NEW o \in Orders, Fill(o) PROVE Flattens'
  <2>1. UNCHANGED <<row, pc, fl>>
    BY <1>2 DEF Fill, venueVars, pendVars
  <2> QED BY <2>1, <1>t DEF Flattens, Flattening, Actors
<1>3. ASSUME NEW p \in Products, ExternalClose(p) PROVE Flattens'
  <2>1. UNCHANGED <<row, pc, fl>>
    BY <1>3 DEF ExternalClose, venueVars, pendVars
  <2> QED BY <2>1, <1>t DEF Flattens, Flattening, Actors
<1>4. ASSUME start_copy PROVE Flattens'
  <2>1. UNCHANGED <<row, pc, fl>>
    BY <1>4 DEF start_copy, venueVars, pendVars
  <2> QED BY <2>1, <1>t DEF Flattens, Flattening, Actors
<1>5. ASSUME pause_copy PROVE Flattens'
  <2>1. UNCHANGED <<row, pc, fl>>
    BY <1>5 DEF pause_copy, venueVars, pendVars
  <2> QED BY <2>1, <1>t DEF Flattens, Flattening, Actors
<1>6. ASSUME resume_copy PROVE Flattens'
  <2>1. UNCHANGED <<row, pc, fl>>
    BY <1>6 DEF resume_copy, venueVars, pendVars
  <2> QED BY <2>1, <1>t DEF Flattens, Flattening, Actors
<1>7. ASSUME stop_copy PROVE Flattens'
  <2>1. Keep
    BY <1>7, KeepRows DEF stop_copy
  <2>o. ASSUME NEW s \in Actors, s # "user" PROVE Flattening(s)'
    <3>1. fl'[s] = fl[s] /\ pc'[s] = pc[s]
      BY <1>7, <1>t, <2>o DEF stop_copy, BeginFlatten, Types, PcType, FlatType
    <3> QED BY <2>1, <3>1, FlatteningKept
  <2>2. Flattening("user")'
    BY <1>7, <1>t, FlatteningBegins, AckTypes DEF stop_copy, Types, PcType
  <2> QED BY <2>o, <2>2 DEF Flattens
<1>8. ASSUME boot_stand_down_mirrors PROVE Flattens'
  <2>1. \A t \in Actors : pc'[t] = "idle"
    BY <1>8 DEF boot_stand_down_mirrors
  <2> QED BY <2>1 DEF Flattens, Flattening
<1>9. ASSUME NEW t \in Actors, FlattenClose(t) PROVE Flattens'
  <2>1. Keep
    BY <1>9, KeepRows DEF FlattenClose
  <2>o. ASSUME NEW s \in Actors, s # t PROVE Flattening(s)'
    <3>1. fl'[s] = fl[s] /\ pc'[s] = pc[s]
      BY <1>9, <1>t, <2>o DEF FlattenClose, BeginFlatten, Types, PcType, FlatType
    <3> QED BY <2>1, <3>1, FlatteningKept
  <2>2. Flattening(t)'
    <3>1. Flattening(t) /\ pc[t] = "flatten" /\ fl \in [Actors -> FlatRec]
      BY <1>9, <1>t DEF FlattenClose, Flattens, Types, FlatType
    <3>2. PICK c \in fl[t].todo :
             \/ /\ Closes(c[1], c[2])
                /\ fl' = [fl EXCEPT ![t].todo = @ \ {c}, ![t].o = c[1]] /\ Goto(t, "flat_book")
             \/ /\ Refuses(c[1], c[2])
                /\ fl' = [fl EXCEPT ![t].todo = @ \ {c}, ![t].errs = TRUE] /\ UNCHANGED pc
      BY <1>9 DEF FlattenClose
    <3>3. c[1] # 0 /\ row[c[1]].st # "none"
      BY <3>1, InHandTypes, CopyAssumption DEF Flattening, Orders
    <3>4. row' = row
      BY <1>9 DEF FlattenClose
    <3>5. CASE fl' = [fl EXCEPT ![t].todo = @ \ {c}, ![t].o = c[1]]
      <4> DEFINE o == c[1]
                 T == fl[t].todo \ {c}
      <4>1. fl' = [fl EXCEPT ![t].todo = T, ![t].o = o]
        BY <3>5
      <4>2. T \subseteq fl[t].todo /\ o # 0 /\ row[o].st # "none"
        BY <3>3
      <4> HIDE DEF T, o
      <4>3. fl'[t].todo = T /\ fl'[t].o = o
        BY <3>1, <4>1 DEF FlatRec
      <4> QED BY <3>1, <3>4, <4>2, <4>3 DEF Flattening
    <3>6. CASE fl' = [fl EXCEPT ![t].todo = @ \ {c}, ![t].errs = TRUE] /\ UNCHANGED pc
      <4>1. fl'[t].todo \subseteq fl[t].todo /\ pc'[t] = "flatten"
        BY <3>1, <3>6 DEF FlatRec
      <4> QED BY <3>1, <3>4, <4>1 DEF Flattening
    <3> QED BY <3>2, <3>5, <3>6
  <2> QED BY <2>o, <2>2 DEF Flattens
<1>10. ASSUME NEW t \in Actors, FlattenBook(t) PROVE Flattens'
  <2>1. Keep
    BY <1>10, KeepRows, Rebooking DEF FlattenBook
  <2>o. ASSUME NEW s \in Actors, s # t PROVE Flattening(s)'
    <3>1. fl'[s] = fl[s] /\ pc'[s] = pc[s]
      BY <1>10, <1>t, <2>o DEF FlattenBook, BeginFlatten, Types, PcType, FlatType
    <3> QED BY <2>1, <3>1, FlatteningKept
  <2>2. Flattening(t)'
    <3>1. Flattening(t) /\ pc[t] = "flat_book" /\ fl' = fl /\ pc'[t] = "flatten"
      BY <1>10, <1>t DEF FlattenBook, Flattens, Types, PcType
    <3>2. \A c \in fl[t].todo : c[1] \in Orders
      BY InHandTypes
    <3> QED BY <2>1, <3>1, <3>2 DEF Flattening, Keep
  <2> QED BY <2>o, <2>2 DEF Flattens
<1>11. ASSUME NEW t \in Actors, FlattenEnd(t) PROVE Flattens'
  <2>1. Keep
    BY <1>11, KeepRows DEF FlattenEnd
  <2>o. ASSUME NEW s \in Actors, s # t PROVE Flattening(s)'
    <3>1. fl'[s] = fl[s] /\ pc'[s] = pc[s]
      BY <1>11, <1>t, <2>o DEF FlattenEnd, BeginFlatten, Types, PcType, FlatType
    <3> QED BY <2>1, <3>1, FlatteningKept
  <2>2. Flattening(t)'
    <3>1. pc'[t] \notin {"flatten", "flat_book"}
      BY <1>11, <1>t DEF FlattenEnd, Types, PcType
    <3> QED BY <3>1 DEF Flattening
  <2> QED BY <2>o, <2>2 DEF Flattens
<1>12. ASSUME NEW t \in Actors, StopRow(t) PROVE Flattens'
  <2>1. Keep
    BY <1>12, KeepRows DEF StopRow
  <2>o. ASSUME NEW s \in Actors, s # t PROVE Flattening(s)'
    <3>1. fl'[s] = fl[s] /\ pc'[s] = pc[s]
      BY <1>12, <1>t, <2>o DEF StopRow, BeginFlatten, Types, PcType, FlatType
    <3> QED BY <2>1, <3>1, FlatteningKept
  <2>2. Flattening(t)'
    <3>1. pc'[t] \notin {"flatten", "flat_book"}
      BY <1>12, <1>t DEF StopRow, Types, PcType
    <3> QED BY <3>1 DEF Flattening
  <2> QED BY <2>o, <2>2 DEF Flattens
<1>13. ASSUME NEW t \in Actors, _clear_mirror_runtime_state(t) PROVE Flattens'
  <2>1. Keep
    BY <1>13, KeepRows DEF _clear_mirror_runtime_state
  <2>o. ASSUME NEW s \in Actors, s # t PROVE Flattening(s)'
    <3>1. fl'[s] = fl[s] /\ pc'[s] = pc[s]
      BY <1>13, <1>t, <2>o DEF _clear_mirror_runtime_state, BeginFlatten, Types, PcType, FlatType
    <3> QED BY <2>1, <3>1, FlatteningKept
  <2>2. Flattening(t)'
    <3>1. pc'[t] \notin {"flatten", "flat_book"}
      BY <1>13, <1>t DEF _clear_mirror_runtime_state, Types, PcType
    <3> QED BY <3>1 DEF Flattening
  <2> QED BY <2>o, <2>2 DEF Flattens
<1>14. ASSUME _poll_all_mirrors PROVE Flattens'
  <2>1. Forget /\ fl' = fl /\ pc'["user"] = pc["user"] /\ pc'["poll"] \notin {"flatten", "flat_book"}
    BY <1>14, <1>t DEF _poll_all_mirrors, Types, PcType, Actors
  <2>2. Flattening("user") /\ (pc["user"] = "flat_book" => fl["user"].o \in Orders)
    BY <1>t, InHandTypes, AckTypes DEF Flattens
  <2>3. \A c \in fl["user"].todo : c[1] \in Orders /\ ~Settled(c[1])
    BY InHandTypes, AckTypes DEF Settled
  <2>4. fl["user"].o \in Orders => ~Settled(fl["user"].o)
    BY DEF Settled
  <2>5. Flattening("user")'
    BY <2>1, <2>2, <2>3, <2>4, <1>t, ForgetEffect DEF Flattening
  <2> QED BY <2>1, <2>5, AckTypes DEF Flattens, Flattening
<1>15. ASSUME LoadLeader PROVE Flattens'
  <2>1. Keep
    BY <1>15, KeepRows DEF LoadLeader
  <2>2. fl' = fl /\ pc'["user"] = pc["user"] /\ pc'["poll"] \notin {"flatten", "flat_book"}
    BY <1>15, <1>t DEF LoadLeader, venueVars, Types, PcType, PollPCs, UserPCs, Actors
  <2>3. Flattening("user")'
    BY <2>1, <2>2, FlatteningKept, AckTypes
  <2> QED BY <2>2, <2>3, AckTypes DEF Flattens, Flattening
<1>16. ASSUME ResolveRead PROVE Flattens'
  <2>1. Keep
    BY <1>16, KeepRows DEF ResolveRead
  <2>2. fl' = fl /\ pc'["user"] = pc["user"] /\ pc'["poll"] \notin {"flatten", "flat_book"}
    BY <1>16, <1>t DEF ResolveRead, venueVars, Types, PcType, PollPCs, UserPCs, Actors
  <2>3. Flattening("user")'
    BY <2>1, <2>2, FlatteningKept, AckTypes
  <2> QED BY <2>2, <2>3, AckTypes DEF Flattens, Flattening
<1>17. ASSUME ResolveVerdict PROVE Flattens'
  <2>1. Keep
    BY <1>17, KeepRows DEF ResolveVerdict
  <2>2. fl' = fl /\ pc'["user"] = pc["user"] /\ pc'["poll"] \notin {"flatten", "flat_book"}
    BY <1>17, <1>t DEF ResolveVerdict, venueVars, Types, PcType, PollPCs, UserPCs, Actors
  <2>3. Flattening("user")'
    BY <2>1, <2>2, FlatteningKept, AckTypes
  <2> QED BY <2>2, <2>3, AckTypes DEF Flattens, Flattening
<1>18. ASSUME InsertLate PROVE Flattens'
  <2>1. Keep
    BY <1>18, KeepRows DEF InsertLate
  <2>2. fl' = fl /\ pc'["user"] = pc["user"] /\ pc'["poll"] \notin {"flatten", "flat_book"}
    BY <1>18, <1>t DEF InsertLate, venueVars, Types, PcType, PollPCs, UserPCs, Actors
  <2>3. Flattening("user")'
    BY <2>1, <2>2, FlatteningKept, AckTypes
  <2> QED BY <2>2, <2>3, AckTypes DEF Flattens, Flattening
<1>19. ASSUME Rearm PROVE Flattens'
  <2>1. Keep
    BY <1>19, KeepRows DEF Rearm
  <2>2. fl' = fl /\ pc'["user"] = pc["user"] /\ pc'["poll"] \notin {"flatten", "flat_book"}
    BY <1>19, <1>t DEF Rearm, venueVars, Types, PcType, PollPCs, UserPCs, Actors
  <2>3. Flattening("user")'
    BY <2>1, <2>2, FlatteningKept, AckTypes
  <2> QED BY <2>2, <2>3, AckTypes DEF Flattens, Flattening
<1>20. ASSUME ResolveDone PROVE Flattens'
  <2>1. Keep /\ UNCHANGED row
    BY <1>20, KeepRows DEF ResolveDone
  <2>2. pc'["user"] = pc["user"] /\ fl'["user"] = fl["user"]
    BY <1>20, <1>t DEF ResolveDone, BeginFlatten, Types, PcType, FlatType, Actors
  <2>3. Flattening("user")'
    BY <2>1, <2>2, FlatteningKept, AckTypes
  <2>4. (BeginFlatten("poll") /\ pc'["poll"] = "flatten") \/ pc'["poll"] \notin {"flatten", "flat_book"}
    BY <1>20, <1>t DEF ResolveDone, Types, PcType, Actors
  <2>5. Flattening("poll")'
    BY <2>1, <2>4, FlatteningBegins, AckTypes DEF Flattening
  <2> QED BY <2>3, <2>5, AckTypes DEF Flattens
<1>21. ASSUME ReadVenue PROVE Flattens'
  <2>1. Keep
    BY <1>21, KeepRows DEF ReadVenue
  <2>2. fl' = fl /\ pc'["user"] = pc["user"] /\ pc'["poll"] \notin {"flatten", "flat_book"}
    BY <1>21, <1>t DEF ReadVenue, venueVars, Types, PcType, PollPCs, UserPCs, Actors
  <2>3. Flattening("user")'
    BY <2>1, <2>2, FlatteningKept, AckTypes
  <2> QED BY <2>2, <2>3, AckTypes DEF Flattens, Flattening
<1>22. ASSUME NEW p \in Products, Sweep(p) PROVE Flattens'
  <2>1. Keep
    BY Zenon, <1>22, KeepRows, Rebooking DEF Sweep
  <2>2. fl' = fl /\ pc'["user"] = pc["user"] /\ pc'["poll"] \notin {"flatten", "flat_book"}
    BY <1>22, <1>t DEF Sweep, venueVars, Types, PcType, PollPCs, UserPCs, Actors
  <2>3. Flattening("user")'
    BY <2>1, <2>2, FlatteningKept, AckTypes
  <2> QED BY <2>2, <2>3, AckTypes DEF Flattens, Flattening
<1>23. ASSUME Rail PROVE Flattens'
  <2>1. Keep /\ UNCHANGED row
    BY <1>23, KeepRows DEF Rail
  <2>2. pc'["user"] = pc["user"] /\ fl'["user"] = fl["user"]
    BY <1>23, <1>t DEF Rail, BeginFlatten, Types, PcType, FlatType, Actors
  <2>3. Flattening("user")'
    BY <2>1, <2>2, FlatteningKept, AckTypes
  <2>4. (BeginFlatten("poll") /\ pc'["poll"] = "flatten") \/ pc'["poll"] \notin {"flatten", "flat_book"}
    BY <1>23, <1>t DEF Rail, Types, PcType, Actors
  <2>5. Flattening("poll")'
    BY <2>1, <2>4, FlatteningBegins, AckTypes DEF Flattening
  <2> QED BY <2>3, <2>5, AckTypes DEF Flattens
<1>24. ASSUME NEW p \in Products, CloseGone(p) PROVE Flattens'
  <2>1. Keep
    BY <1>24, KeepRows DEF CloseGone
  <2>2. fl' = fl /\ pc'["user"] = pc["user"] /\ pc'["poll"] \notin {"flatten", "flat_book"}
    BY <1>24, <1>t DEF CloseGone, venueVars, Types, PcType, PollPCs, UserPCs, Actors, SendClose, Opening
  <2>3. Flattening("user")'
    BY <2>1, <2>2, FlatteningKept, AckTypes
  <2> QED BY <2>2, <2>3, AckTypes DEF Flattens, Flattening
<1>25. ASSUME CloseGoneDone PROVE Flattens'
  <2>1. Keep
    BY <1>25, KeepRows DEF CloseGoneDone
  <2>2. fl' = fl /\ pc'["user"] = pc["user"] /\ pc'["poll"] \notin {"flatten", "flat_book"}
    BY <1>25, <1>t DEF CloseGoneDone, venueVars, Types, PcType, PollPCs, UserPCs, Actors
  <2>3. Flattening("user")'
    BY <2>1, <2>2, FlatteningKept, AckTypes
  <2> QED BY <2>2, <2>3, AckTypes DEF Flattens, Flattening
<1>26. ASSUME NEW p \in Products, Flip(p) PROVE Flattens'
  <2>1. Keep
    BY <1>26, KeepRows DEF Flip
  <2>2. fl' = fl /\ pc'["user"] = pc["user"] /\ pc'["poll"] \notin {"flatten", "flat_book"}
    BY <1>26, <1>t DEF Flip, venueVars, Types, PcType, PollPCs, UserPCs, Actors, SendClose, Opening
  <2>3. Flattening("user")'
    BY <2>1, <2>2, FlatteningKept, AckTypes
  <2> QED BY <2>2, <2>3, AckTypes DEF Flattens, Flattening
<1>27. ASSUME NEW p \in Products, Trim(p) PROVE Flattens'
  <2>1. Keep
    BY <1>27, KeepRows DEF Trim
  <2>2. fl' = fl /\ pc'["user"] = pc["user"] /\ pc'["poll"] \notin {"flatten", "flat_book"}
    BY <1>27, <1>t DEF Trim, venueVars, Types, PcType, PollPCs, UserPCs, Actors, SendClose, Opening
  <2>3. Flattening("user")'
    BY <2>1, <2>2, FlatteningKept, AckTypes
  <2> QED BY <2>2, <2>3, AckTypes DEF Flattens, Flattening
<1>28. ASSUME BookClose PROVE Flattens'
  <2>1. Keep
    BY <1>28, KeepRows, Rebooking DEF BookClose
  <2>2. fl' = fl /\ pc'["user"] = pc["user"] /\ pc'["poll"] \notin {"flatten", "flat_book"}
    BY <1>28, <1>t, LocalTypes DEF BookClose, venueVars, Types, PcType, PollPCs, UserPCs, Actors
  <2>3. Flattening("user")'
    BY <2>1, <2>2, FlatteningKept, AckTypes
  <2> QED BY <2>2, <2>3, AckTypes DEF Flattens, Flattening
<1>29. ASSUME NEW p \in Products, Add(p) PROVE Flattens'
  <2>1. Keep
    BY <1>29, KeepRows, Rebooking DEF Add
  <2>2. fl' = fl /\ pc'["user"] = pc["user"] /\ pc'["poll"] \notin {"flatten", "flat_book"}
    BY <1>29, <1>t DEF Add, venueVars, Types, PcType, PollPCs, UserPCs, Actors, Opening
  <2>3. Flattening("user")'
    BY <2>1, <2>2, FlatteningKept, AckTypes
  <2> QED BY <2>2, <2>3, AckTypes DEF Flattens, Flattening
<1>30. ASSUME AddSend PROVE Flattens'
  <2>1. Keep
    BY <1>30, KeepRows DEF AddSend
  <2>2. fl' = fl /\ pc'["user"] = pc["user"] /\ pc'["poll"] \notin {"flatten", "flat_book"}
    BY <1>30, <1>t DEF AddSend, venueVars, Types, PcType, PollPCs, UserPCs, Actors
  <2>3. Flattening("user")'
    BY <2>1, <2>2, FlatteningKept, AckTypes
  <2> QED BY <2>2, <2>3, AckTypes DEF Flattens, Flattening
<1>31. ASSUME Grow PROVE Flattens'
  <2>1. Keep
    BY <1>31, KeepRows, Rebooking DEF Grow
  <2>2. fl' = fl /\ pc'["user"] = pc["user"] /\ pc'["poll"] \notin {"flatten", "flat_book"}
    BY <1>31, <1>t DEF Grow, venueVars, Types, PcType, PollPCs, UserPCs, Actors
  <2>3. Flattening("user")'
    BY <2>1, <2>2, FlatteningKept, AckTypes
  <2> QED BY <2>2, <2>3, AckTypes DEF Flattens, Flattening
<1>32. ASSUME NEW p \in Products, Skip(p) PROVE Flattens'
  <2>1. Keep
    BY <1>32, KeepRows DEF Skip
  <2>2. fl' = fl /\ pc'["user"] = pc["user"] /\ pc'["poll"] \notin {"flatten", "flat_book"}
    BY <1>32, <1>t DEF Skip, venueVars, Types, PcType, PollPCs, UserPCs, Actors, Opening
  <2>3. Flattening("user")'
    BY <2>1, <2>2, FlatteningKept, AckTypes
  <2> QED BY <2>2, <2>3, AckTypes DEF Flattens, Flattening
<1>33. ASSUME NEW p \in Products, Open(p) PROVE Flattens'
  <2>1. Keep
    BY <1>33, KeepRows DEF Open
  <2>2. fl' = fl /\ pc'["user"] = pc["user"] /\ pc'["poll"] \notin {"flatten", "flat_book"}
    BY <1>33, <1>t DEF Open, venueVars, Types, PcType, PollPCs, UserPCs, Actors, Opening
  <2>3. Flattening("user")'
    BY <2>1, <2>2, FlatteningKept, AckTypes
  <2> QED BY <2>2, <2>3, AckTypes DEF Flattens, Flattening
<1>34. ASSUME CheckLive PROVE Flattens'
  <2>1. Keep
    BY <1>34, KeepRows DEF CheckLive
  <2>2. fl' = fl /\ pc'["user"] = pc["user"] /\ pc'["poll"] \notin {"flatten", "flat_book"}
    BY <1>34, <1>t DEF CheckLive, venueVars, Types, PcType, PollPCs, UserPCs, Actors
  <2>3. Flattening("user")'
    BY <2>1, <2>2, FlatteningKept, AckTypes
  <2> QED BY <2>2, <2>3, AckTypes DEF Flattens, Flattening
<1>35. ASSUME Place PROVE Flattens'
  <2>1. Keep
    BY <1>35, KeepRows DEF Place
  <2>2. fl' = fl /\ pc'["user"] = pc["user"] /\ pc'["poll"] \notin {"flatten", "flat_book"}
    BY <1>35, <1>t DEF Place, venueVars, Types, PcType, PollPCs, UserPCs, Actors
  <2>3. Flattening("user")'
    BY <2>1, <2>2, FlatteningKept, AckTypes
  <2> QED BY <2>2, <2>3, AckTypes DEF Flattens, Flattening
<1>36. ASSUME WaitFilled PROVE Flattens'
  <2>1. Keep
    BY <1>36, KeepRows DEF WaitFilled
  <2>2. fl' = fl /\ pc'["user"] = pc["user"] /\ pc'["poll"] \notin {"flatten", "flat_book"}
    BY <1>36, <1>t DEF WaitFilled, venueVars, Types, PcType, PollPCs, UserPCs, Actors
  <2>3. Flattening("user")'
    BY <2>1, <2>2, FlatteningKept, AckTypes
  <2> QED BY <2>2, <2>3, AckTypes DEF Flattens, Flattening
<1>37. ASSUME WaitOver PROVE Flattens'
  <2>1. Keep
    BY <1>37, KeepRows DEF WaitOver
  <2>2. fl' = fl /\ pc'["user"] = pc["user"] /\ pc'["poll"] \notin {"flatten", "flat_book"}
    BY <1>37, <1>t DEF WaitOver, venueVars, Types, PcType, PollPCs, UserPCs, Actors
  <2>3. Flattening("user")'
    BY <2>1, <2>2, FlatteningKept, AckTypes
  <2> QED BY <2>2, <2>3, AckTypes DEF Flattens, Flattening
<1>38. ASSUME ReadBack PROVE Flattens'
  <2>1. Keep
    BY <1>38, KeepRows DEF ReadBack
  <2>2. fl' = fl /\ pc'["user"] = pc["user"] /\ pc'["poll"] \notin {"flatten", "flat_book"}
    BY <1>38, <1>t DEF ReadBack, venueVars, Types, PcType, PollPCs, UserPCs, Actors
  <2>3. Flattening("user")'
    BY <2>1, <2>2, FlatteningKept, AckTypes
  <2> QED BY <2>2, <2>3, AckTypes DEF Flattens, Flattening
<1>39. ASSUME InsertRow PROVE Flattens'
  <2>1. Keep
    BY <1>39, KeepRows DEF InsertRow
  <2>2. fl' = fl /\ pc'["user"] = pc["user"] /\ pc'["poll"] \notin {"flatten", "flat_book"}
    BY <1>39, <1>t DEF InsertRow, venueVars, Types, PcType, PollPCs, UserPCs, Actors
  <2>3. Flattening("user")'
    BY <2>1, <2>2, FlatteningKept, AckTypes
  <2> QED BY <2>2, <2>3, AckTypes DEF Flattens, Flattening
<1>40. ASSUME Recheck PROVE Flattens'
  <2>1. Keep
    BY <1>40, KeepRows DEF Recheck
  <2>2. fl' = fl /\ pc'["user"] = pc["user"] /\ pc'["poll"] \notin {"flatten", "flat_book"}
    BY <1>40, <1>t DEF Recheck, venueVars, Types, PcType, PollPCs, UserPCs, Actors
  <2>3. Flattening("user")'
    BY <2>1, <2>2, FlatteningKept, AckTypes
  <2> QED BY <2>2, <2>3, AckTypes DEF Flattens, Flattening
<1>41. ASSUME _unwind_stop_raced_open PROVE Flattens'
  <2>1. Keep
    BY <1>41, KeepRows DEF _unwind_stop_raced_open
  <2>2. fl' = fl /\ pc'["user"] = pc["user"] /\ pc'["poll"] \notin {"flatten", "flat_book"}
    BY <1>41, <1>t DEF _unwind_stop_raced_open, venueVars, Types, PcType, PollPCs, UserPCs, Actors
  <2>3. Flattening("user")'
    BY <2>1, <2>2, FlatteningKept, AckTypes
  <2> QED BY <2>2, <2>3, AckTypes DEF Flattens, Flattening
<1>42. ASSUME _register_pending_maker_open PROVE Flattens'
  <2>1. Keep
    BY <1>42, KeepRows DEF _register_pending_maker_open
  <2>2. fl' = fl /\ pc'["user"] = pc["user"] /\ pc'["poll"] \notin {"flatten", "flat_book"}
    BY <1>42, <1>t DEF _register_pending_maker_open, venueVars, Types, PcType, PollPCs, UserPCs, Actors
  <2>3. Flattening("user")'
    BY <2>1, <2>2, FlatteningKept, AckTypes
  <2> QED BY <2>2, <2>3, AckTypes DEF Flattens, Flattening
<1>43. ASSUME RearmPending PROVE Flattens'
  <2>1. Keep
    BY <1>43, KeepRows DEF RearmPending
  <2>2. fl' = fl /\ pc'["user"] = pc["user"] /\ pc'["poll"] \notin {"flatten", "flat_book"}
    BY <1>43, <1>t DEF RearmPending, venueVars, Types, PcType, PollPCs, UserPCs, Actors
  <2>3. Flattening("user")'
    BY <2>1, <2>2, FlatteningKept, AckTypes
  <2> QED BY <2>2, <2>3, AckTypes DEF Flattens, Flattening
<1>44. ASSUME SyncDone PROVE Flattens'
  <2>1. Keep
    BY <1>44, KeepRows DEF SyncDone
  <2>2. fl' = fl /\ pc'["user"] = pc["user"] /\ pc'["poll"] \notin {"flatten", "flat_book"}
    BY <1>44, <1>t DEF SyncDone, venueVars, Types, PcType, PollPCs, UserPCs, Actors
  <2>3. Flattening("user")'
    BY <2>1, <2>2, FlatteningKept, AckTypes
  <2> QED BY <2>2, <2>3, AckTypes DEF Flattens, Flattening
<1> QED BY <1>1, <1>2, <1>3, <1>4, <1>5, <1>6, <1>7, <1>8, <1>9, <1>10, <1>11, <1>12, <1>13, <1>14, <1>15, <1>16, <1>17, <1>18, <1>19, <1>20, <1>21, <1>22, <1>23, <1>24, <1>25, <1>26, <1>27, <1>28, <1>29, <1>30, <1>31, <1>32, <1>33, <1>34, <1>35, <1>36, <1>37, <1>38, <1>39, <1>40, <1>41, <1>42, <1>43, <1>44 DEF Next, World, PollStep, UserStep, FlattenStep, Actors

-----------------------------------------------------------------------------
(* UserStops: while the user flattens, the mirror is stopped, or was started *)
(* again with no open row.                                                   *)

\* A closed row stays closed.
NoReopen == \A o \in Orders : row'[o].st = "open" => row[o].st \in {"open", "none"}

LEMMA NoReopenRows ==
  ASSUME IInv, UNCHANGED row \/ Rebooks \/ InsertLate \/ InsertRow \/ Forget
  PROVE  NoReopen
<1>t. Types
  BY DEF IInv
<1>1. CASE UNCHANGED row
  BY <1>1 DEF NoReopen
<1>2. CASE Rebooks
  BY <1>2, <1>t, RebooksEffect DEF NoReopen
<1>3. CASE InsertLate \/ InsertRow
  BY <1>3, InsertEffect DEF NoReopen
<1>4. CASE Forget
  BY <1>4, <1>t, ForgetEffect DEF NoReopen, NoRow
<1> QED BY <1>1, <1>2, <1>3, <1>4

LEMMA UserStopsKept ==
  ASSUME IInv, NoReopen, pc'["user"] = pc["user"], fl'["user"] = fl["user"], Stopped => Stopped'
  PROVE  UserStops'
<1>1. UserStops /\ Flattening("user")
  BY AckTypes DEF IInv, Flattens
<1>2. \A c \in fl["user"].todo : c[1] \in Orders
  BY InHandTypes, AckTypes
<1>3. pc["user"] = "flat_book" => fl["user"].o \in Orders
  BY InHandTypes, AckTypes
<1> QED BY <1>1, <1>2, <1>3 DEF UserStops, Flattening, NoReopen

LEMMA StaysStopped ==
  ASSUME Types, UNCHANGED mirror \/ request_copy_mirror_stop \/ stop_copy_mirror \/ auto_stop_mirror \/ pause_copy \/ resume_copy
  PROVE  Stopped => Stopped'
<1>t. mirror \in [active : BOOLEAN, stop : BOOLEAN, paused : BOOLEAN]
  BY DEF Types, MirrorType
<1>1. CASE UNCHANGED mirror
  BY <1>1 DEF Stopped
<1>2. CASE request_copy_mirror_stop
  BY <1>2 DEF Stopped, request_copy_mirror_stop
<1>3. CASE stop_copy_mirror
  BY <1>3, <1>t DEF Stopped, stop_copy_mirror
<1>4. CASE auto_stop_mirror
  BY <1>4 DEF Stopped, auto_stop_mirror
<1>5. CASE pause_copy
  BY <1>5 DEF pause_copy, Stopped
<1>6. CASE resume_copy
  BY <1>6 DEF resume_copy, Stopped
<1> QED BY <1>1, <1>2, <1>3, <1>4, <1>5, <1>6

\* Every step keeps UserStops.
LEMMA NextUserStops == ASSUME IInv, Next, Types' PROVE UserStops'
<1> USE DEF Goto, PollGoto, Kept, Return, Upset, Spend
<1>t. Types /\ UserStops
  BY DEF IInv
<1>1. ASSUME NEW p \in Products, LeaderMove(p) PROVE UserStops'
  <2>1. UNCHANGED <<mirror, row, pc, fl>>
    BY <1>1 DEF LeaderMove, venueVars, pendVars
  <2> QED BY <2>1, <1>t DEF UserStops, Stopped
<1>2. ASSUME NEW o \in Orders, Fill(o) PROVE UserStops'
  <2>1. UNCHANGED <<mirror, row, pc, fl>>
    BY <1>2 DEF Fill, venueVars, pendVars
  <2> QED BY <2>1, <1>t DEF UserStops, Stopped
<1>3. ASSUME NEW p \in Products, ExternalClose(p) PROVE UserStops'
  <2>1. UNCHANGED <<mirror, row, pc, fl>>
    BY <1>3 DEF ExternalClose, venueVars, pendVars
  <2> QED BY <2>1, <1>t DEF UserStops, Stopped
<1>4. ASSUME start_copy PROVE UserStops'
  <2>1. UNCHANGED <<row, pc, fl>>
    BY <1>4 DEF start_copy
  <2>2. NoReopen
    BY <2>1, NoReopenRows
  <2>3. CASE OpenRows # {}
    <3>1. request_copy_mirror_stop
      BY <1>4, <2>3 DEF start_copy
    <3> QED BY <2>1, <2>2, <3>1, <1>t, StaysStopped, UserStopsKept
  <2>4. CASE OpenRows = {}
    <3>1. \A o \in Orders : row[o].st # "open"
      BY <2>4 DEF OpenRows
    <3>2. \A c \in fl["user"].todo : c[1] \in Orders
      BY InHandTypes, AckTypes
    <3>3. pc["user"] = "flat_book" => fl["user"].o \in Orders
      BY InHandTypes, AckTypes
    <3> QED BY <2>1, <3>1, <3>2, <3>3 DEF UserStops
  <2> QED BY <2>3, <2>4
<1>5. ASSUME pause_copy PROVE UserStops'
  <2>1. NoReopen
    BY <1>5, NoReopenRows DEF pause_copy
  <2>2. Stopped => Stopped'
    BY <1>5, <1>t, StaysStopped
  <2>3. pc'["user"] = pc["user"] /\ fl'["user"] = fl["user"]
    BY <1>5, <1>t DEF pause_copy, venueVars, Types, PcType, FlatType, Actors, BeginFlatten
  <2> QED BY <2>1, <2>2, <2>3, UserStopsKept
<1>6. ASSUME resume_copy PROVE UserStops'
  <2>1. NoReopen
    BY <1>6, NoReopenRows DEF resume_copy
  <2>2. Stopped => Stopped'
    BY <1>6, <1>t, StaysStopped
  <2>3. pc'["user"] = pc["user"] /\ fl'["user"] = fl["user"]
    BY <1>6, <1>t DEF resume_copy, venueVars, Types, PcType, FlatType, Actors, BeginFlatten
  <2> QED BY <2>1, <2>2, <2>3, UserStopsKept
<1>7. ASSUME stop_copy PROVE UserStops'
  <2>1. request_copy_mirror_stop
    BY <1>7 DEF stop_copy
  <2>2. Stopped'
    BY <2>1 DEF request_copy_mirror_stop, Stopped
  <2> QED BY <2>2 DEF UserStops
<1>8. ASSUME boot_stand_down_mirrors PROVE UserStops'
  <2>1. pc'["user"] = "idle"
    BY <1>8, AckTypes DEF boot_stand_down_mirrors
  <2> QED BY <2>1 DEF UserStops
<1>9. ASSUME NEW t \in Actors, FlattenClose(t) PROVE UserStops'
  <2>1. NoReopen
    BY <1>9, NoReopenRows DEF FlattenClose
  <2>2. Stopped => Stopped'
    BY <1>9, <1>t, StaysStopped DEF FlattenClose
  <2>3. CASE t # "user"
    <3>1. pc'["user"] = pc["user"] /\ fl'["user"] = fl["user"]
      BY <1>9, <1>t, <2>3 DEF FlattenClose, Types, PcType, FlatType, Actors
    <3> QED BY <2>1, <2>2, <3>1, UserStopsKept
  <2>4. CASE t = "user"
    <3>1. UserStops /\ pc["user"] = "flatten" /\ fl \in [Actors -> FlatRec] /\ "user" \in Actors
      BY <1>9, <1>t, <2>4, AckTypes DEF FlattenClose, Types, FlatType
    <3>2. PICK c \in fl["user"].todo :
             \/ fl' = [fl EXCEPT !["user"].todo = @ \ {c}, !["user"].o = c[1]]
             \/ /\ fl' = [fl EXCEPT !["user"].todo = @ \ {c}, !["user"].errs = TRUE] /\ UNCHANGED pc
      <4>1. PICK c \in fl[t].todo :
             \/ /\ Closes(c[1], c[2])
                /\ fl' = [fl EXCEPT ![t].todo = @ \ {c}, ![t].o = c[1]] /\ Goto(t, "flat_book")
             \/ /\ Refuses(c[1], c[2])
                /\ fl' = [fl EXCEPT ![t].todo = @ \ {c}, ![t].errs = TRUE] /\ UNCHANGED pc
        BY <1>9 DEF FlattenClose
      <4> QED BY <4>1, <2>4
    <3>3. UNCHANGED <<row, mirror>>
      BY <1>9 DEF FlattenClose
    <3>4. CASE fl' = [fl EXCEPT !["user"].todo = @ \ {c}, !["user"].o = c[1]]
      <4> DEFINE o == c[1]
                 T == fl["user"].todo \ {c}
      <4>1. fl' = [fl EXCEPT !["user"].todo = T, !["user"].o = o]
        BY <3>4
      <4>2. T \subseteq fl["user"].todo /\ c \in fl["user"].todo
        OBVIOUS
      <4>3. Stopped \/ row[o].st # "open"
        BY <3>1 DEF UserStops
      <4> HIDE DEF T, o
      <4>4. fl'["user"].todo = T /\ fl'["user"].o = o
        BY <3>1, <4>1 DEF FlatRec
      <4> QED BY <3>1, <3>3, <4>2, <4>3, <4>4 DEF UserStops, Stopped
    <3>5. CASE fl' = [fl EXCEPT !["user"].todo = @ \ {c}, !["user"].errs = TRUE] /\ UNCHANGED pc
      <4>1. fl'["user"].todo \subseteq fl["user"].todo /\ pc'["user"] = "flatten"
        BY <3>1, <3>5 DEF FlatRec
      <4> QED BY <3>1, <3>3, <4>1 DEF UserStops, Stopped
    <3> QED BY <3>2, <3>4, <3>5
  <2> QED BY <2>3, <2>4
<1>10. ASSUME NEW t \in Actors, FlattenBook(t) PROVE UserStops'
  <2>1. NoReopen
    BY <1>10, NoReopenRows, Rebooking DEF FlattenBook
  <2>2. Stopped => Stopped'
    BY <1>10, <1>t, StaysStopped DEF FlattenBook
  <2>3. CASE t # "user"
    <3>1. pc'["user"] = pc["user"] /\ fl'["user"] = fl["user"]
      BY <1>10, <1>t, <2>3 DEF FlattenBook, Types, PcType, FlatType, Actors
    <3> QED BY <2>1, <2>2, <3>1, UserStopsKept
  <2>4. CASE t = "user"
    <3>1. pc["user"] = "flat_book" /\ fl' = fl /\ pc'["user"] = "flatten"
      BY <1>10, <1>t, <2>4, AckTypes DEF FlattenBook, Types, PcType
    <3>2. \A c \in fl["user"].todo : c[1] \in Orders /\ row[c[1]].st # "none"
      BY <1>t, <3>1, InHandTypes, AckTypes DEF IInv, Flattens, Flattening
    <3> QED BY <1>t, <2>1, <2>2, <3>1, <3>2 DEF UserStops, NoReopen
  <2> QED BY <2>3, <2>4
<1>11. ASSUME NEW t \in Actors, FlattenEnd(t) PROVE UserStops'
  <2>1. NoReopen
    BY <1>11, NoReopenRows DEF FlattenEnd
  <2>2. Stopped => Stopped'
    BY <1>11, <1>t, StaysStopped DEF FlattenEnd
  <2>3. CASE t = "user"
    <3>1. pc'["user"] \notin {"flatten", "flat_book"}
      BY <1>11, <1>t, <2>3 DEF FlattenEnd, Types, PcType, Actors
    <3> QED BY <3>1 DEF UserStops
  <2>4. CASE t # "user"
    <3>1. pc'["user"] = pc["user"] /\ fl'["user"] = fl["user"]
      BY <1>11, <1>t, <2>4 DEF FlattenEnd, Types, PcType, FlatType, Actors
    <3> QED BY <2>1, <2>2, <3>1, UserStopsKept
  <2> QED BY <2>3, <2>4
<1>12. ASSUME NEW t \in Actors, StopRow(t) PROVE UserStops'
  <2>1. NoReopen
    BY <1>12, NoReopenRows DEF StopRow
  <2>2. Stopped => Stopped'
    BY <1>12, <1>t, StaysStopped DEF StopRow
  <2>3. CASE t = "user"
    <3>1. pc'["user"] \notin {"flatten", "flat_book"}
      BY <1>12, <1>t, <2>3 DEF StopRow, Types, PcType, Actors
    <3> QED BY <3>1 DEF UserStops
  <2>4. CASE t # "user"
    <3>1. pc'["user"] = pc["user"] /\ fl'["user"] = fl["user"]
      BY <1>12, <1>t, <2>4 DEF StopRow, Types, PcType, FlatType, Actors
    <3> QED BY <2>1, <2>2, <3>1, UserStopsKept
  <2> QED BY <2>3, <2>4
<1>13. ASSUME NEW t \in Actors, _clear_mirror_runtime_state(t) PROVE UserStops'
  <2>1. NoReopen
    BY <1>13, NoReopenRows DEF _clear_mirror_runtime_state
  <2>2. Stopped => Stopped'
    BY <1>13, <1>t, StaysStopped DEF _clear_mirror_runtime_state
  <2>3. CASE t = "user"
    <3>1. pc'["user"] \notin {"flatten", "flat_book"}
      BY <1>13, <1>t, <2>3 DEF _clear_mirror_runtime_state, Types, PcType, Actors
    <3> QED BY <3>1 DEF UserStops
  <2>4. CASE t # "user"
    <3>1. pc'["user"] = pc["user"] /\ fl'["user"] = fl["user"]
      BY <1>13, <1>t, <2>4 DEF _clear_mirror_runtime_state, Types, PcType, FlatType, Actors
    <3> QED BY <2>1, <2>2, <3>1, UserStopsKept
  <2> QED BY <2>3, <2>4
<1>14. ASSUME _poll_all_mirrors PROVE UserStops'
  <2>1. NoReopen
    BY <1>14, NoReopenRows DEF _poll_all_mirrors
  <2>2. Stopped => Stopped'
    BY <1>14, <1>t, StaysStopped DEF _poll_all_mirrors
  <2>3. pc'["user"] = pc["user"] /\ fl'["user"] = fl["user"]
    BY <1>14, <1>t DEF _poll_all_mirrors, venueVars, Types, PcType, FlatType, Actors, BeginFlatten
  <2> QED BY <2>1, <2>2, <2>3, UserStopsKept
<1>15. ASSUME LoadLeader PROVE UserStops'
  <2>1. NoReopen
    BY <1>15, NoReopenRows DEF LoadLeader
  <2>2. Stopped => Stopped'
    BY <1>15, <1>t, StaysStopped DEF LoadLeader
  <2>3. pc'["user"] = pc["user"] /\ fl'["user"] = fl["user"]
    BY <1>15, <1>t DEF LoadLeader, venueVars, Types, PcType, FlatType, Actors, BeginFlatten
  <2> QED BY <2>1, <2>2, <2>3, UserStopsKept
<1>16. ASSUME ResolveRead PROVE UserStops'
  <2>1. NoReopen
    BY <1>16, NoReopenRows DEF ResolveRead
  <2>2. Stopped => Stopped'
    BY <1>16, <1>t, StaysStopped DEF ResolveRead
  <2>3. pc'["user"] = pc["user"] /\ fl'["user"] = fl["user"]
    BY <1>16, <1>t DEF ResolveRead, venueVars, Types, PcType, FlatType, Actors, BeginFlatten
  <2> QED BY <2>1, <2>2, <2>3, UserStopsKept
<1>17. ASSUME ResolveVerdict PROVE UserStops'
  <2>1. NoReopen
    BY <1>17, NoReopenRows DEF ResolveVerdict
  <2>2. Stopped => Stopped'
    BY <1>17, <1>t, StaysStopped DEF ResolveVerdict
  <2>3. pc'["user"] = pc["user"] /\ fl'["user"] = fl["user"]
    BY <1>17, <1>t DEF ResolveVerdict, venueVars, Types, PcType, FlatType, Actors, BeginFlatten
  <2> QED BY <2>1, <2>2, <2>3, UserStopsKept
<1>18. ASSUME InsertLate PROVE UserStops'
  <2>1. NoReopen
    BY <1>18, NoReopenRows DEF InsertLate
  <2>2. Stopped => Stopped'
    BY <1>18, <1>t, StaysStopped DEF InsertLate
  <2>3. pc'["user"] = pc["user"] /\ fl'["user"] = fl["user"]
    BY <1>18, <1>t DEF InsertLate, venueVars, Types, PcType, FlatType, Actors, BeginFlatten
  <2> QED BY <2>1, <2>2, <2>3, UserStopsKept
<1>19. ASSUME Rearm PROVE UserStops'
  <2>1. NoReopen
    BY <1>19, NoReopenRows DEF Rearm
  <2>2. Stopped => Stopped'
    BY <1>19, <1>t, StaysStopped DEF Rearm
  <2>3. pc'["user"] = pc["user"] /\ fl'["user"] = fl["user"]
    BY <1>19, <1>t DEF Rearm, venueVars, Types, PcType, FlatType, Actors, BeginFlatten
  <2> QED BY <2>1, <2>2, <2>3, UserStopsKept
<1>20. ASSUME ResolveDone PROVE UserStops'
  <2>1. NoReopen
    BY <1>20, NoReopenRows DEF ResolveDone
  <2>2. Stopped => Stopped'
    BY <1>20, <1>t, StaysStopped DEF ResolveDone
  <2>3. pc'["user"] = pc["user"] /\ fl'["user"] = fl["user"]
    BY <1>20, <1>t DEF ResolveDone, venueVars, Types, PcType, FlatType, Actors, BeginFlatten
  <2> QED BY <2>1, <2>2, <2>3, UserStopsKept
<1>21. ASSUME ReadVenue PROVE UserStops'
  <2>1. NoReopen
    BY <1>21, NoReopenRows DEF ReadVenue
  <2>2. Stopped => Stopped'
    BY <1>21, <1>t, StaysStopped DEF ReadVenue
  <2>3. pc'["user"] = pc["user"] /\ fl'["user"] = fl["user"]
    BY <1>21, <1>t DEF ReadVenue, venueVars, Types, PcType, FlatType, Actors, BeginFlatten
  <2> QED BY <2>1, <2>2, <2>3, UserStopsKept
<1>22. ASSUME NEW p \in Products, Sweep(p) PROVE UserStops'
  <2>1. NoReopen
    BY Zenon, <1>22, NoReopenRows, Rebooking DEF Sweep
  <2>2. Stopped => Stopped'
    BY <1>22, <1>t, StaysStopped DEF Sweep
  <2>3. pc'["user"] = pc["user"] /\ fl'["user"] = fl["user"]
    BY <1>22, <1>t DEF Sweep, venueVars, Types, PcType, FlatType, Actors, BeginFlatten
  <2> QED BY <2>1, <2>2, <2>3, UserStopsKept
<1>23. ASSUME Rail PROVE UserStops'
  <2>1. NoReopen
    BY <1>23, NoReopenRows DEF Rail
  <2>2. Stopped => Stopped'
    BY <1>23, <1>t, StaysStopped DEF Rail
  <2>3. pc'["user"] = pc["user"] /\ fl'["user"] = fl["user"]
    BY <1>23, <1>t DEF Rail, venueVars, Types, PcType, FlatType, Actors, BeginFlatten
  <2> QED BY <2>1, <2>2, <2>3, UserStopsKept
<1>24. ASSUME NEW p \in Products, CloseGone(p) PROVE UserStops'
  <2>1. NoReopen
    BY <1>24, NoReopenRows DEF CloseGone
  <2>2. Stopped => Stopped'
    BY <1>24, <1>t, StaysStopped DEF CloseGone
  <2>3. pc'["user"] = pc["user"] /\ fl'["user"] = fl["user"]
    BY <1>24, <1>t DEF CloseGone, venueVars, Types, PcType, FlatType, Actors, BeginFlatten, SendClose
  <2> QED BY <2>1, <2>2, <2>3, UserStopsKept
<1>25. ASSUME CloseGoneDone PROVE UserStops'
  <2>1. NoReopen
    BY <1>25, NoReopenRows DEF CloseGoneDone
  <2>2. Stopped => Stopped'
    BY <1>25, <1>t, StaysStopped DEF CloseGoneDone
  <2>3. pc'["user"] = pc["user"] /\ fl'["user"] = fl["user"]
    BY <1>25, <1>t DEF CloseGoneDone, venueVars, Types, PcType, FlatType, Actors, BeginFlatten
  <2> QED BY <2>1, <2>2, <2>3, UserStopsKept
<1>26. ASSUME NEW p \in Products, Flip(p) PROVE UserStops'
  <2>1. NoReopen
    BY <1>26, NoReopenRows DEF Flip
  <2>2. Stopped => Stopped'
    BY <1>26, <1>t, StaysStopped DEF Flip
  <2>3. pc'["user"] = pc["user"] /\ fl'["user"] = fl["user"]
    BY <1>26, <1>t DEF Flip, venueVars, Types, PcType, FlatType, Actors, BeginFlatten, SendClose
  <2> QED BY <2>1, <2>2, <2>3, UserStopsKept
<1>27. ASSUME NEW p \in Products, Trim(p) PROVE UserStops'
  <2>1. NoReopen
    BY <1>27, NoReopenRows DEF Trim
  <2>2. Stopped => Stopped'
    BY <1>27, <1>t, StaysStopped DEF Trim
  <2>3. pc'["user"] = pc["user"] /\ fl'["user"] = fl["user"]
    BY <1>27, <1>t DEF Trim, venueVars, Types, PcType, FlatType, Actors, BeginFlatten, SendClose
  <2> QED BY <2>1, <2>2, <2>3, UserStopsKept
<1>28. ASSUME BookClose PROVE UserStops'
  <2>1. NoReopen
    BY <1>28, NoReopenRows, Rebooking DEF BookClose
  <2>2. Stopped => Stopped'
    BY <1>28, <1>t, StaysStopped DEF BookClose
  <2>3. pc'["user"] = pc["user"] /\ fl'["user"] = fl["user"]
    BY <1>28, <1>t DEF BookClose, venueVars, Types, PcType, FlatType, Actors, BeginFlatten
  <2> QED BY <2>1, <2>2, <2>3, UserStopsKept
<1>29. ASSUME NEW p \in Products, Add(p) PROVE UserStops'
  <2>1. NoReopen
    BY <1>29, NoReopenRows, Rebooking DEF Add
  <2>2. Stopped => Stopped'
    BY <1>29, <1>t, StaysStopped DEF Add
  <2>3. pc'["user"] = pc["user"] /\ fl'["user"] = fl["user"]
    BY <1>29, <1>t DEF Add, venueVars, Types, PcType, FlatType, Actors, BeginFlatten
  <2> QED BY <2>1, <2>2, <2>3, UserStopsKept
<1>30. ASSUME AddSend PROVE UserStops'
  <2>1. NoReopen
    BY <1>30, NoReopenRows DEF AddSend
  <2>2. Stopped => Stopped'
    BY <1>30, <1>t, StaysStopped DEF AddSend
  <2>3. pc'["user"] = pc["user"] /\ fl'["user"] = fl["user"]
    BY <1>30, <1>t DEF AddSend, venueVars, Types, PcType, FlatType, Actors, BeginFlatten
  <2> QED BY <2>1, <2>2, <2>3, UserStopsKept
<1>31. ASSUME Grow PROVE UserStops'
  <2>1. NoReopen
    BY <1>31, NoReopenRows, Rebooking DEF Grow
  <2>2. Stopped => Stopped'
    BY <1>31, <1>t, StaysStopped DEF Grow
  <2>3. pc'["user"] = pc["user"] /\ fl'["user"] = fl["user"]
    BY <1>31, <1>t DEF Grow, venueVars, Types, PcType, FlatType, Actors, BeginFlatten
  <2> QED BY <2>1, <2>2, <2>3, UserStopsKept
<1>32. ASSUME NEW p \in Products, Skip(p) PROVE UserStops'
  <2>1. NoReopen
    BY <1>32, NoReopenRows DEF Skip
  <2>2. Stopped => Stopped'
    BY <1>32, <1>t, StaysStopped DEF Skip
  <2>3. pc'["user"] = pc["user"] /\ fl'["user"] = fl["user"]
    BY <1>32, <1>t DEF Skip, venueVars, Types, PcType, FlatType, Actors, BeginFlatten
  <2> QED BY <2>1, <2>2, <2>3, UserStopsKept
<1>33. ASSUME NEW p \in Products, Open(p) PROVE UserStops'
  <2>1. NoReopen
    BY <1>33, NoReopenRows DEF Open
  <2>2. Stopped => Stopped'
    BY <1>33, <1>t, StaysStopped DEF Open
  <2>3. pc'["user"] = pc["user"] /\ fl'["user"] = fl["user"]
    BY <1>33, <1>t DEF Open, venueVars, Types, PcType, FlatType, Actors, BeginFlatten
  <2> QED BY <2>1, <2>2, <2>3, UserStopsKept
<1>34. ASSUME CheckLive PROVE UserStops'
  <2>1. NoReopen
    BY <1>34, NoReopenRows DEF CheckLive
  <2>2. Stopped => Stopped'
    BY <1>34, <1>t, StaysStopped DEF CheckLive
  <2>3. pc'["user"] = pc["user"] /\ fl'["user"] = fl["user"]
    BY <1>34, <1>t DEF CheckLive, venueVars, Types, PcType, FlatType, Actors, BeginFlatten
  <2> QED BY <2>1, <2>2, <2>3, UserStopsKept
<1>35. ASSUME Place PROVE UserStops'
  <2>1. NoReopen
    BY <1>35, NoReopenRows DEF Place
  <2>2. Stopped => Stopped'
    BY <1>35, <1>t, StaysStopped DEF Place
  <2>3. pc'["user"] = pc["user"] /\ fl'["user"] = fl["user"]
    BY <1>35, <1>t DEF Place, venueVars, Types, PcType, FlatType, Actors, BeginFlatten
  <2> QED BY <2>1, <2>2, <2>3, UserStopsKept
<1>36. ASSUME WaitFilled PROVE UserStops'
  <2>1. NoReopen
    BY <1>36, NoReopenRows DEF WaitFilled
  <2>2. Stopped => Stopped'
    BY <1>36, <1>t, StaysStopped DEF WaitFilled
  <2>3. pc'["user"] = pc["user"] /\ fl'["user"] = fl["user"]
    BY <1>36, <1>t DEF WaitFilled, venueVars, Types, PcType, FlatType, Actors, BeginFlatten
  <2> QED BY <2>1, <2>2, <2>3, UserStopsKept
<1>37. ASSUME WaitOver PROVE UserStops'
  <2>1. NoReopen
    BY <1>37, NoReopenRows DEF WaitOver
  <2>2. Stopped => Stopped'
    BY <1>37, <1>t, StaysStopped DEF WaitOver
  <2>3. pc'["user"] = pc["user"] /\ fl'["user"] = fl["user"]
    BY <1>37, <1>t DEF WaitOver, venueVars, Types, PcType, FlatType, Actors, BeginFlatten
  <2> QED BY <2>1, <2>2, <2>3, UserStopsKept
<1>38. ASSUME ReadBack PROVE UserStops'
  <2>1. NoReopen
    BY <1>38, NoReopenRows DEF ReadBack
  <2>2. Stopped => Stopped'
    BY <1>38, <1>t, StaysStopped DEF ReadBack
  <2>3. pc'["user"] = pc["user"] /\ fl'["user"] = fl["user"]
    BY <1>38, <1>t DEF ReadBack, venueVars, Types, PcType, FlatType, Actors, BeginFlatten
  <2> QED BY <2>1, <2>2, <2>3, UserStopsKept
<1>39. ASSUME InsertRow PROVE UserStops'
  <2>1. NoReopen
    BY <1>39, NoReopenRows DEF InsertRow
  <2>2. Stopped => Stopped'
    BY <1>39, <1>t, StaysStopped DEF InsertRow
  <2>3. pc'["user"] = pc["user"] /\ fl'["user"] = fl["user"]
    BY <1>39, <1>t DEF InsertRow, venueVars, Types, PcType, FlatType, Actors, BeginFlatten
  <2> QED BY <2>1, <2>2, <2>3, UserStopsKept
<1>40. ASSUME Recheck PROVE UserStops'
  <2>1. NoReopen
    BY <1>40, NoReopenRows DEF Recheck
  <2>2. Stopped => Stopped'
    BY <1>40, <1>t, StaysStopped DEF Recheck
  <2>3. pc'["user"] = pc["user"] /\ fl'["user"] = fl["user"]
    BY <1>40, <1>t DEF Recheck, venueVars, Types, PcType, FlatType, Actors, BeginFlatten
  <2> QED BY <2>1, <2>2, <2>3, UserStopsKept
<1>41. ASSUME _unwind_stop_raced_open PROVE UserStops'
  <2>1. NoReopen
    BY <1>41, NoReopenRows DEF _unwind_stop_raced_open
  <2>2. Stopped => Stopped'
    BY <1>41, <1>t, StaysStopped DEF _unwind_stop_raced_open
  <2>3. pc'["user"] = pc["user"] /\ fl'["user"] = fl["user"]
    BY <1>41, <1>t DEF _unwind_stop_raced_open, venueVars, Types, PcType, FlatType, Actors, BeginFlatten
  <2> QED BY <2>1, <2>2, <2>3, UserStopsKept
<1>42. ASSUME _register_pending_maker_open PROVE UserStops'
  <2>1. NoReopen
    BY <1>42, NoReopenRows DEF _register_pending_maker_open
  <2>2. Stopped => Stopped'
    BY <1>42, <1>t, StaysStopped DEF _register_pending_maker_open
  <2>3. pc'["user"] = pc["user"] /\ fl'["user"] = fl["user"]
    BY <1>42, <1>t DEF _register_pending_maker_open, venueVars, Types, PcType, FlatType, Actors, BeginFlatten
  <2> QED BY <2>1, <2>2, <2>3, UserStopsKept
<1>43. ASSUME RearmPending PROVE UserStops'
  <2>1. NoReopen
    BY <1>43, NoReopenRows DEF RearmPending
  <2>2. Stopped => Stopped'
    BY <1>43, <1>t, StaysStopped DEF RearmPending
  <2>3. pc'["user"] = pc["user"] /\ fl'["user"] = fl["user"]
    BY <1>43, <1>t DEF RearmPending, venueVars, Types, PcType, FlatType, Actors, BeginFlatten
  <2> QED BY <2>1, <2>2, <2>3, UserStopsKept
<1>44. ASSUME SyncDone PROVE UserStops'
  <2>1. NoReopen
    BY <1>44, NoReopenRows DEF SyncDone
  <2>2. Stopped => Stopped'
    BY <1>44, <1>t, StaysStopped DEF SyncDone
  <2>3. pc'["user"] = pc["user"] /\ fl'["user"] = fl["user"]
    BY <1>44, <1>t DEF SyncDone, venueVars, Types, PcType, FlatType, Actors, BeginFlatten
  <2> QED BY <2>1, <2>2, <2>3, UserStopsKept
<1> QED BY <1>1, <1>2, <1>3, <1>4, <1>5, <1>6, <1>7, <1>8, <1>9, <1>10, <1>11, <1>12, <1>13, <1>14, <1>15, <1>16, <1>17, <1>18, <1>19, <1>20, <1>21, <1>22, <1>23, <1>24, <1>25, <1>26, <1>27, <1>28, <1>29, <1>30, <1>31, <1>32, <1>33, <1>34, <1>35, <1>36, <1>37, <1>38, <1>39, <1>40, <1>41, <1>42, <1>43, <1>44 DEF Next, World, PollStep, UserStep, FlattenStep, Actors

-----------------------------------------------------------------------------
(* Names: pending entries and locals of the poller name orders of their      *)
(* product.                                                                  *)

SameNames == \A o \in Orders : ord[o].size > 0 => ord'[o].p = ord[o].p /\ ord'[o].size = ord[o].size
SameBooks == \A o \in Orders : row'[o].st = "none" <=> row[o].st = "none"
SamePends == \A p \in Products : pend'[p].o \in {pend[p].o, 0} /\ saved'[p].o = pend'[p].o
SameRows == \A p \in Products : k'.rows[p] \in {k.rows[p], 0}

LEMMA NamedOrders ==
  ASSUME IInv, NEW p \in Products
  PROVE  /\ pend[p].o # 0 => pend[p].o \in Orders
         /\ k.rows[p] # 0 => k.rows[p] \in Orders
BY PendTypes, InHandNamed, CopyAssumption DEF IInv, Orders

LEMMA NamesKept ==
  ASSUME IInv, SameNames, SameBooks, SamePends, SameRows
  PROVE  Names'
<1> SUFFICES ASSUME NEW p \in Products
             PROVE  /\ saved'[p].o = pend'[p].o
                    /\ pend'[p].o # 0 => ord'[pend'[p].o].p = p /\ ord'[pend'[p].o].size > 0 /\ row'[pend'[p].o].st = "none"
                    /\ k'.rows[p] # 0 => ord'[k'.rows[p]].p = p /\ row'[k'.rows[p]].st # "none"
  BY DEF Names
<1>1. /\ pend[p].o # 0 => ord[pend[p].o].p = p /\ ord[pend[p].o].size > 0 /\ row[pend[p].o].st = "none"
      /\ k.rows[p] # 0 => ord[k.rows[p]].p = p /\ row[k.rows[p]].st # "none"
  BY DEF IInv, Names
<1>2. k.rows[p] # 0 => ord[k.rows[p]].size > 0
  BY <1>1, NamedOrders DEF IInv, Orderly
<1> QED BY <1>1, <1>2, NamedOrders DEF SameNames, SameBooks, SamePends, SameRows

LEMMA SameNamesOf ==
  ASSUME IInv, UNCHANGED ord \/ (\E o : ord' = Cancelled(o)) \/ (\E o \in Orders : Fill(o)) \/ Place
  PROVE  SameNames
<1>t. Types
  BY DEF IInv
<1>1. CASE UNCHANGED ord
  BY <1>1 DEF SameNames
<1>2. CASE \E o : ord' = Cancelled(o)
  BY <1>2, <1>t, CancelEffect DEF SameNames
<1>3. ASSUME NEW o \in Orders, Fill(o) PROVE SameNames
  BY <1>3, <1>t, FillEffect DEF SameNames
<1>4. CASE Place
  BY <1>4, PlaceEffect DEF SameNames
<1> QED BY <1>1, <1>2, <1>3, <1>4

LEMMA SameBooksOf == ASSUME Types, UNCHANGED row \/ Rebooks PROVE SameBooks
<1>1. CASE UNCHANGED row
  BY <1>1 DEF SameBooks
<1>2. CASE Rebooks
  BY <1>2, RebooksEffect DEF SameBooks
<1> QED BY <1>1, <1>2

LEMMA SamePendsOf == ASSUME IInv, UNCHANGED <<pend, saved>> PROVE SamePends
BY DEF IInv, Names, SamePends

LEMMA SameRowsOf ==
  ASSUME Types, NEW p, UNCHANGED k \/ k'.rows = k.rows \/ k' = K0 \/ k'.rows = [k.rows EXCEPT ![p] = 0]
  PROVE  SameRows
<1>1. k.rows \in [Products -> 0..MaxOrders]
  BY LocalTypes
<1>2. K0.rows = [q \in Products |-> 0]
  BY DEF K0
<1> QED BY <1>1, <1>2 DEF SameRows

\* The newest row of a product is an open row of it.
LEMMA NewestRow ==
  ASSUME NEW p \in Products, Newest(p) # 0
  PROVE  Newest(p) \in Orders /\ ord[Newest(p)].p = p /\ row[Newest(p)].st = "open"
<1> DEFINE rs == {o \in OpenRows : ord[o].p = p}
<1>1. rs \subseteq Orders /\ \A o \in rs : ord[o].p = p /\ row[o].st = "open"
  BY DEF OpenRows
<1>2. rs # {} /\ Newest(p) = Max(rs)
  BY DEF Newest
<1> HIDE DEF rs
<1> QED BY <1>1, <1>2, MaxOrder, CopyAssumption

\* A verdict drops the pending entry it looked up or leaves its order; no other entry changes.
LEMMA VerdictPends ==
  ASSUME IInv, ResolveVerdict
  PROVE  /\ \A p \in Products : pend'[p].o \in {pend[p].o, 0} /\ saved'[p].o = pend'[p].o
         /\ \A p \in Products : p # k.p => pend'[p] = pend[p]
<1>1. k.p \in Products /\ pend \in [Products -> PendRec] /\ saved \in [Products -> PendRec]
  BY LocalTypes DEF IInv, Types, PendType
<1>2. \A p \in Products : saved[p].o = pend[p].o
  BY DEF IInv, Names
<1>3. NoPend.o = 0 /\ \A q \in PendRec : Older(q).o = q.o /\ \A b : [Older(q) EXCEPT !.acked = b].o = q.o
  BY DEF NoPend, Older, PendRec
<1>4. CASE Pop(k.p)
  <2>1. pend' = [pend EXCEPT ![k.p] = NoPend]
    BY <1>4 DEF Pop
  <2>2. CASE pend[k.p].o = 0
    <3>1. saved' = saved
      BY <1>4, <2>2 DEF Pop
    <3> QED BY <1>1, <1>2, <1>3, <2>1, <2>2, <3>1
  <2>3. CASE pend[k.p].o # 0
    <3>1. saved' = pend'
      BY <1>4, <2>3 DEF Pop
    <3> QED BY <1>1, <1>2, <1>3, <2>1, <2>3, <3>1
  <2> QED BY <2>2, <2>3
<1>5. ASSUME NEW acks,
             pend' = [pend EXCEPT ![k.p] = IF @.o = 0 THEN @ ELSE [Older(@) EXCEPT !.acked = acks]],
             saved' = [saved EXCEPT ![k.p] = Older(@)]
      PROVE  /\ \A p \in Products : pend'[p].o \in {pend[p].o, 0} /\ saved'[p].o = pend'[p].o
             /\ \A p \in Products : p # k.p => pend'[p] = pend[p]
  <2>1. pend'[k.p].o = pend[k.p].o /\ saved'[k.p].o = saved[k.p].o
    BY <1>1, <1>3, <1>5
  <2>2. \A p \in Products : p # k.p => pend'[p] = pend[p]
    BY <1>1, <1>5
  <2>3. \A p \in Products : p # k.p => saved'[p] = saved[p]
    BY <1>1, <1>5
  <2> QED BY <1>1, <1>2, <2>1, <2>2, <2>3
<1> QED BY <1>4, <1>5 DEF ResolveVerdict

\* Every step keeps Names.
LEMMA NextNames == ASSUME IInv, Next, Types' PROVE Names'
<1> USE DEF Goto, PollGoto, Kept, Return, Upset, Spend
<1>t. Types /\ Names
  BY DEF IInv
<1>1. ASSUME NEW p \in Products, LeaderMove(p) PROVE Names'
  <2>1. UNCHANGED <<ord, row, pend, saved, k>>
    BY <1>1 DEF LeaderMove, venueVars, pendVars
  <2> QED BY <2>1, <1>t DEF Names
<1>2. ASSUME NEW o \in Orders, Fill(o) PROVE Names'
  <2>1. SameNames
    BY <1>2, SameNamesOf DEF Fill, venueVars
  <2>2. SameBooks
    BY <1>2, <1>t, SameBooksOf DEF Fill
  <2>3. SamePends
    BY <1>2, SamePendsOf DEF Fill, pendVars
  <2>4. SameRows
    BY <1>2, <1>t, SameRowsOf DEF Fill
  <2> QED BY <2>1, <2>2, <2>3, <2>4, NamesKept
<1>3. ASSUME NEW p \in Products, ExternalClose(p) PROVE Names'
  <2>1. UNCHANGED <<ord, row, pend, saved, k>>
    BY <1>3 DEF ExternalClose, venueVars, pendVars
  <2> QED BY <2>1, <1>t DEF Names
<1>4. ASSUME start_copy PROVE Names'
  <2>1. UNCHANGED <<ord, row, pend, saved, k>>
    BY <1>4 DEF start_copy, venueVars, pendVars
  <2> QED BY <2>1, <1>t DEF Names
<1>5. ASSUME pause_copy PROVE Names'
  <2>1. UNCHANGED <<ord, row, pend, saved, k>>
    BY <1>5 DEF pause_copy, venueVars, pendVars
  <2> QED BY <2>1, <1>t DEF Names
<1>6. ASSUME resume_copy PROVE Names'
  <2>1. UNCHANGED <<ord, row, pend, saved, k>>
    BY <1>6 DEF resume_copy, venueVars, pendVars
  <2> QED BY <2>1, <1>t DEF Names
<1>7. ASSUME stop_copy PROVE Names'
  <2>1. UNCHANGED <<ord, row, pend, saved, k>>
    BY <1>7 DEF stop_copy, venueVars, pendVars
  <2> QED BY <2>1, <1>t DEF Names
<1>8. ASSUME boot_stand_down_mirrors PROVE Names'
  <2>1. SameNames
    BY <1>8, SameNamesOf DEF boot_stand_down_mirrors, venueVars
  <2>2. SameBooks
    BY <1>8, <1>t, SameBooksOf DEF boot_stand_down_mirrors
  <2>3. SamePends
    BY <1>8, <1>t DEF boot_stand_down_mirrors, Names, SamePends
  <2>4. SameRows
    <3>1. k'.rows = k.rows \/ k' = K0
      BY <1>8, <1>t DEF boot_stand_down_mirrors, Types, LocalType, Locals
    <3> QED BY <3>1, <1>t, SameRowsOf
  <2> QED BY <2>1, <2>2, <2>3, <2>4, NamesKept
<1>9. ASSUME NEW t \in Actors, FlattenClose(t) PROVE Names'
  <2>1. UNCHANGED <<ord, row, pend, saved, k>>
    BY <1>9 DEF FlattenClose, venueVars, pendVars
  <2> QED BY <2>1, <1>t DEF Names
<1>10. ASSUME NEW t \in Actors, FlattenBook(t) PROVE Names'
  <2>1. SameNames
    BY <1>10, SameNamesOf DEF FlattenBook, venueVars
  <2>2. SameBooks
    BY <1>10, <1>t, SameBooksOf, Rebooking DEF FlattenBook
  <2>3. SamePends
    BY <1>10, SamePendsOf DEF FlattenBook, pendVars
  <2>4. SameRows
    BY <1>10, <1>t, SameRowsOf DEF FlattenBook
  <2> QED BY <2>1, <2>2, <2>3, <2>4, NamesKept
<1>11. ASSUME NEW t \in Actors, FlattenEnd(t) PROVE Names'
  <2>1. SameNames
    BY <1>11, SameNamesOf DEF FlattenEnd, venueVars
  <2>2. SameBooks
    BY <1>11, <1>t, SameBooksOf DEF FlattenEnd
  <2>3. SamePends
    BY <1>11, SamePendsOf DEF FlattenEnd, pendVars
  <2>4. SameRows
    <3>1. UNCHANGED k \/ k' = K0
      BY <1>11, <1>t DEF FlattenEnd, Types, LocalType, Locals
    <3> QED BY <3>1, <1>t, SameRowsOf
  <2> QED BY <2>1, <2>2, <2>3, <2>4, NamesKept
<1>12. ASSUME NEW t \in Actors, StopRow(t) PROVE Names'
  <2>1. UNCHANGED <<ord, row, pend, saved, k>>
    BY <1>12 DEF StopRow, venueVars, pendVars
  <2> QED BY <2>1, <1>t DEF Names
<1>13. ASSUME NEW t \in Actors, _clear_mirror_runtime_state(t) PROVE Names'
  <2>1. SameNames
    BY <1>13, SameNamesOf DEF _clear_mirror_runtime_state, venueVars
  <2>2. SameBooks
    BY <1>13, <1>t, SameBooksOf DEF _clear_mirror_runtime_state
  <2>3. SamePends
    <3>1. pend' = [p \in Products |-> NoPend] /\ saved' = IF Pending = {} THEN saved ELSE pend'
      BY <1>13 DEF _clear_mirror_runtime_state
    <3>2. \A p \in Products : pend'[p].o = 0
      BY <3>1 DEF NoPend
    <3>3. CASE Pending = {}
      BY <3>1, <3>2, <3>3, <1>t DEF Names, SamePends, Pending
    <3>4. CASE Pending # {}
      BY <3>1, <3>2, <3>4 DEF SamePends
    <3> QED BY <3>3, <3>4
  <2>4. SameRows
    <3>1. UNCHANGED k \/ k' = K0
      BY <1>13, <1>t DEF _clear_mirror_runtime_state, Types, LocalType, Locals
    <3> QED BY <3>1, <1>t, SameRowsOf
  <2> QED BY <2>1, <2>2, <2>3, <2>4, NamesKept
<1>14. ASSUME _poll_all_mirrors PROVE Names'
  <2>1. Forget /\ UNCHANGED <<pend, saved>> /\ k' = [K0 EXCEPT !.mode = PollMode, !.todo = Pending]
    BY <1>14 DEF _poll_all_mirrors, pendVars
  <2>2. \A p \in Products : k'.rows[p] = 0
    BY <2>1 DEF K0
  <2>3. \A p \in Products : pend[p].o # 0 => pend[p].o \in Orders /\ ~Settled(pend[p].o)
    BY NamedOrders DEF Settled
  <2> QED BY <2>1, <2>2, <2>3, <1>t, ForgetEffect DEF Names
<1>15. ASSUME LoadLeader PROVE Names'
  <2>1. SameNames
    BY <1>15, SameNamesOf DEF LoadLeader, venueVars
  <2>2. SameBooks
    BY <1>15, <1>t, SameBooksOf DEF LoadLeader
  <2>3. SamePends
    BY <1>15, SamePendsOf DEF LoadLeader, pendVars
  <2>4. SameRows
    <3>1. k'.rows = k.rows \/ k' = K0
      BY <1>15, <1>t DEF LoadLeader, Types, LocalType, Locals
    <3> QED BY <3>1, <1>t, SameRowsOf
  <2> QED BY <2>1, <2>2, <2>3, <2>4, NamesKept
<1>16. ASSUME ResolveRead PROVE Names'
  <2>1. SameNames
    BY <1>16, SameNamesOf DEF ResolveRead, venueVars
  <2>2. SameBooks
    BY <1>16, <1>t, SameBooksOf DEF ResolveRead
  <2>3. SamePends
    BY <1>16, SamePendsOf DEF ResolveRead, pendVars
  <2>4. SameRows
    <3>1. k'.rows = k.rows \/ k' = K0
      BY <1>16, <1>t DEF ResolveRead, Types, LocalType, Locals
    <3> QED BY <3>1, <1>t, SameRowsOf
  <2> QED BY <2>1, <2>2, <2>3, <2>4, NamesKept
<1>17. ASSUME ResolveVerdict PROVE Names'
  <2>1. SameNames
    BY <1>17, SameNamesOf DEF ResolveVerdict
  <2>2. SameBooks
    BY <1>17, <1>t, SameBooksOf DEF ResolveVerdict
  <2>3. SamePends
    BY <1>17, VerdictPends DEF SamePends
  <2>4. SameRows
    BY <1>17, <1>t, SameRowsOf DEF ResolveVerdict
  <2> QED BY <2>1, <2>2, <2>3, <2>4, NamesKept
<1>18. ASSUME InsertLate PROVE Names'
  <2>1. UNCHANGED <<ord, pend, saved, k>>
    BY <1>18 DEF InsertLate, venueVars, pendVars
  <2>2. pend[k.p].o = 0 /\ ord[k.o].p = k.p /\ k.o # 0
    BY <1>18 DEF InsertLate, IInv, Steps, Poll, InFlight
  <2>3. \A q \in Orders : row[q].st = "none" /\ q # k.o => row'[q].st = "none"
    BY <1>18, InsertEffect
  <2>4. \A q \in Orders : row[q].st # "none" => row'[q].st # "none"
    BY <1>18, InsertEffect
  <2>5. \A p \in Products : pend[p].o # 0 => pend[p].o # k.o
    BY <2>2, <1>t DEF Names
  <2> QED BY <2>1, <2>3, <2>4, <2>5, <1>t, NamedOrders DEF Names
<1>19. ASSUME Rearm PROVE Names'
  <2>1. UNCHANGED <<ord, row, pend, saved, k>>
    BY <1>19 DEF Rearm, venueVars, pendVars
  <2> QED BY <2>1, <1>t DEF Names
<1>20. ASSUME ResolveDone PROVE Names'
  <2>1. UNCHANGED <<ord, row, pend, saved>>
    BY <1>20 DEF ResolveDone, venueVars, pendVars
  <2>2. k' = k \/ k' = K0 \/ k' = [k EXCEPT !.rows = [p \in Products |-> Newest(p)]]
    BY <1>20 DEF ResolveDone
  <2>3. CASE k' = k \/ k' = K0
    <3>1. \A p \in Products : K0.rows[p] = 0
      BY DEF K0
    <3> QED BY <2>1, <2>3, <3>1, <1>t DEF Names
  <2>4. CASE k' = [k EXCEPT !.rows = [p \in Products |-> Newest(p)]]
    <3>1. \A p \in Products : k'.rows[p] = Newest(p)
      BY <2>4, <1>t DEF Types, LocalType, Locals
    <3> QED BY <2>1, <3>1, <1>t, NewestRow DEF Names
  <2> QED BY <2>2, <2>3, <2>4
<1>21. ASSUME ReadVenue PROVE Names'
  <2>1. SameNames
    BY <1>21, SameNamesOf DEF ReadVenue, venueVars
  <2>2. SameBooks
    BY <1>21, <1>t, SameBooksOf DEF ReadVenue
  <2>3. SamePends
    BY <1>21, SamePendsOf DEF ReadVenue, pendVars
  <2>4. SameRows
    <3>1. k'.rows = k.rows \/ k' = K0
      BY <1>21, <1>t, VenueLocals
    <3> QED BY <3>1, <1>t, SameRowsOf
  <2> QED BY <2>1, <2>2, <2>3, <2>4, NamesKept
<1>22. ASSUME NEW p \in Products, Sweep(p) PROVE Names'
  <2>1. SameNames
    BY <1>22, SameNamesOf DEF Sweep, venueVars
  <2>2. SameBooks
    BY Zenon, <1>22, <1>t, SameBooksOf, Rebooking DEF Sweep
  <2>3. SamePends
    BY <1>22, SamePendsOf DEF Sweep, pendVars
  <2>4. SameRows
    <3>1. k'.rows = k.rows \/ k'.rows = [k.rows EXCEPT ![p] = 0]
      BY <1>22, <1>t DEF Sweep, Types, LocalType, Locals
    <3> QED BY <3>1, <1>t, SameRowsOf
  <2> QED BY <2>1, <2>2, <2>3, <2>4, NamesKept
<1>23. ASSUME Rail PROVE Names'
  <2>1. SameNames
    BY <1>23, SameNamesOf DEF Rail, venueVars
  <2>2. SameBooks
    BY <1>23, <1>t, SameBooksOf DEF Rail
  <2>3. SamePends
    BY <1>23, SamePendsOf DEF Rail, pendVars
  <2>4. SameRows
    <3>1. k'.rows = k.rows \/ k' = K0
      BY <1>23, <1>t DEF Rail, Types, LocalType, Locals
    <3> QED BY <3>1, <1>t, SameRowsOf
  <2> QED BY <2>1, <2>2, <2>3, <2>4, NamesKept
<1>24. ASSUME NEW p \in Products, CloseGone(p) PROVE Names'
  <2>1. SameNames
    BY <1>24, SameNamesOf DEF CloseGone, venueVars
  <2>2. SameBooks
    BY <1>24, <1>t, SameBooksOf DEF CloseGone
  <2>3. SamePends
    BY <1>24, SamePendsOf DEF CloseGone, pendVars
  <2>4. SameRows
    <3>1. k'.rows = k.rows \/ k' = K0
      BY <1>24, <1>t DEF CloseGone, Without, SendClose, Types, LocalType, Locals
    <3> QED BY <3>1, <1>t, SameRowsOf
  <2> QED BY <2>1, <2>2, <2>3, <2>4, NamesKept
<1>25. ASSUME CloseGoneDone PROVE Names'
  <2>1. SameNames
    BY <1>25, SameNamesOf DEF CloseGoneDone, venueVars
  <2>2. SameBooks
    BY <1>25, <1>t, SameBooksOf DEF CloseGoneDone
  <2>3. SamePends
    BY <1>25, SamePendsOf DEF CloseGoneDone, pendVars
  <2>4. SameRows
    <3>1. k'.rows = k.rows \/ k' = K0
      BY <1>25, <1>t DEF CloseGoneDone, Types, LocalType, Locals
    <3> QED BY <3>1, <1>t, SameRowsOf
  <2> QED BY <2>1, <2>2, <2>3, <2>4, NamesKept
<1>26. ASSUME NEW p \in Products, Flip(p) PROVE Names'
  <2>1. SameNames
    BY <1>26, SameNamesOf DEF Flip, venueVars
  <2>2. SameBooks
    BY <1>26, <1>t, SameBooksOf DEF Flip
  <2>3. SamePends
    BY <1>26, SamePendsOf DEF Flip, pendVars
  <2>4. SameRows
    <3>1. k'.rows = k.rows \/ k'.rows = [k.rows EXCEPT ![p] = 0]
      BY <1>26, <1>t DEF Flip, Without, SendClose, Types, LocalType, Locals
    <3> QED BY <3>1, <1>t, SameRowsOf
  <2> QED BY <2>1, <2>2, <2>3, <2>4, NamesKept
<1>27. ASSUME NEW p \in Products, Trim(p) PROVE Names'
  <2>1. SameNames
    BY <1>27, SameNamesOf DEF Trim, venueVars
  <2>2. SameBooks
    BY <1>27, <1>t, SameBooksOf DEF Trim
  <2>3. SamePends
    BY <1>27, SamePendsOf DEF Trim, pendVars
  <2>4. SameRows
    <3>1. k'.rows = k.rows \/ k' = K0
      BY <1>27, <1>t DEF Trim, Without, SendClose, Types, LocalType, Locals
    <3> QED BY <3>1, <1>t, SameRowsOf
  <2> QED BY <2>1, <2>2, <2>3, <2>4, NamesKept
<1>28. ASSUME BookClose PROVE Names'
  <2>1. SameNames
    BY <1>28, SameNamesOf DEF BookClose, venueVars
  <2>2. SameBooks
    BY <1>28, <1>t, SameBooksOf, Rebooking DEF BookClose
  <2>3. SamePends
    BY <1>28, SamePendsOf DEF BookClose, pendVars
  <2>4. SameRows
    <3>1. k'.rows = k.rows \/ k' = K0
      BY <1>28, <1>t DEF BookClose, Types, LocalType, Locals
    <3> QED BY <3>1, <1>t, SameRowsOf
  <2> QED BY <2>1, <2>2, <2>3, <2>4, NamesKept
<1>29. ASSUME NEW p \in Products, Add(p) PROVE Names'
  <2>1. SameNames
    BY <1>29, SameNamesOf DEF Add, venueVars
  <2>2. SameBooks
    BY <1>29, <1>t, SameBooksOf, Rebooking DEF Add
  <2>3. SamePends
    BY <1>29, SamePendsOf DEF Add, pendVars
  <2>4. SameRows
    <3>1. k'.rows = k.rows \/ k' = K0
      BY <1>29, <1>t DEF Add, Without, Types, LocalType, Locals
    <3> QED BY <3>1, <1>t, SameRowsOf
  <2> QED BY <2>1, <2>2, <2>3, <2>4, NamesKept
<1>30. ASSUME AddSend PROVE Names'
  <2>1. SameNames
    BY <1>30, SameNamesOf DEF AddSend, venueVars
  <2>2. SameBooks
    BY <1>30, <1>t, SameBooksOf DEF AddSend
  <2>3. SamePends
    BY <1>30, SamePendsOf DEF AddSend, pendVars
  <2>4. SameRows
    <3>1. k'.rows = k.rows \/ k' = K0
      BY <1>30, <1>t DEF AddSend, Types, LocalType, Locals
    <3> QED BY <3>1, <1>t, SameRowsOf
  <2> QED BY <2>1, <2>2, <2>3, <2>4, NamesKept
<1>31. ASSUME Grow PROVE Names'
  <2>1. SameNames
    BY <1>31, SameNamesOf DEF Grow, venueVars
  <2>2. SameBooks
    BY <1>31, <1>t, SameBooksOf, Rebooking DEF Grow
  <2>3. SamePends
    BY <1>31, SamePendsOf DEF Grow, pendVars
  <2>4. SameRows
    BY <1>31, <1>t, SameRowsOf DEF Grow
  <2> QED BY <2>1, <2>2, <2>3, <2>4, NamesKept
<1>32. ASSUME NEW p \in Products, Skip(p) PROVE Names'
  <2>1. SameNames
    BY <1>32, SameNamesOf DEF Skip, venueVars
  <2>2. SameBooks
    BY <1>32, <1>t, SameBooksOf DEF Skip
  <2>3. SamePends
    BY <1>32, SamePendsOf DEF Skip, pendVars
  <2>4. SameRows
    <3>1. k'.rows = k.rows \/ k' = K0
      BY <1>32, <1>t DEF Skip, Without, Types, LocalType, Locals
    <3> QED BY <3>1, <1>t, SameRowsOf
  <2> QED BY <2>1, <2>2, <2>3, <2>4, NamesKept
<1>33. ASSUME NEW p \in Products, Open(p) PROVE Names'
  <2>1. SameNames
    BY <1>33, SameNamesOf DEF Open, venueVars
  <2>2. SameBooks
    BY <1>33, <1>t, SameBooksOf DEF Open
  <2>3. SamePends
    BY <1>33, SamePendsOf DEF Open, pendVars
  <2>4. SameRows
    <3>1. k'.rows = k.rows \/ k' = K0
      BY <1>33, <1>t DEF Open, Without, Types, LocalType, Locals
    <3> QED BY <3>1, <1>t, SameRowsOf
  <2> QED BY <2>1, <2>2, <2>3, <2>4, NamesKept
<1>34. ASSUME CheckLive PROVE Names'
  <2>1. SameNames
    BY <1>34, SameNamesOf DEF CheckLive, venueVars
  <2>2. SameBooks
    BY <1>34, <1>t, SameBooksOf DEF CheckLive
  <2>3. SamePends
    BY <1>34, SamePendsOf DEF CheckLive, pendVars
  <2>4. SameRows
    <3>1. k'.rows = k.rows \/ k' = K0
      BY <1>34, <1>t DEF CheckLive, Types, LocalType, Locals
    <3> QED BY <3>1, <1>t, SameRowsOf
  <2> QED BY <2>1, <2>2, <2>3, <2>4, NamesKept
<1>35. ASSUME Place PROVE Names'
  <2>1. SameNames
    BY <1>35, SameNamesOf DEF Place, venueVars
  <2>2. SameBooks
    BY <1>35, <1>t, SameBooksOf DEF Place
  <2>3. SamePends
    BY <1>35, SamePendsOf DEF Place, pendVars
  <2>4. SameRows
    <3>1. k'.rows = k.rows \/ k' = K0
      BY <1>35, <1>t DEF Place, Types, LocalType, Locals
    <3> QED BY <3>1, <1>t, SameRowsOf
  <2> QED BY <2>1, <2>2, <2>3, <2>4, NamesKept
<1>36. ASSUME WaitFilled PROVE Names'
  <2>1. SameNames
    BY <1>36, SameNamesOf DEF WaitFilled, venueVars
  <2>2. SameBooks
    BY <1>36, <1>t, SameBooksOf DEF WaitFilled
  <2>3. SamePends
    BY <1>36, SamePendsOf DEF WaitFilled, pendVars
  <2>4. SameRows
    <3>1. k'.rows = k.rows \/ k' = K0
      BY <1>36, <1>t DEF WaitFilled, Types, LocalType, Locals
    <3> QED BY <3>1, <1>t, SameRowsOf
  <2> QED BY <2>1, <2>2, <2>3, <2>4, NamesKept
<1>37. ASSUME WaitOver PROVE Names'
  <2>1. SameNames
    BY <1>37, SameNamesOf DEF WaitOver, venueVars
  <2>2. SameBooks
    BY <1>37, <1>t, SameBooksOf DEF WaitOver
  <2>3. SamePends
    BY <1>37, SamePendsOf DEF WaitOver, pendVars
  <2>4. SameRows
    <3>1. k'.rows = k.rows \/ k' = K0
      BY <1>37, <1>t DEF WaitOver, Types, LocalType, Locals
    <3> QED BY <3>1, <1>t, SameRowsOf
  <2> QED BY <2>1, <2>2, <2>3, <2>4, NamesKept
<1>38. ASSUME ReadBack PROVE Names'
  <2>1. SameNames
    BY <1>38, SameNamesOf DEF ReadBack, venueVars
  <2>2. SameBooks
    BY <1>38, <1>t, SameBooksOf DEF ReadBack
  <2>3. SamePends
    BY <1>38, SamePendsOf DEF ReadBack, pendVars
  <2>4. SameRows
    <3>1. k'.rows = k.rows \/ k' = K0
      BY <1>38, <1>t DEF ReadBack, Types, LocalType, Locals
    <3> QED BY <3>1, <1>t, SameRowsOf
  <2> QED BY <2>1, <2>2, <2>3, <2>4, NamesKept
<1>39. ASSUME InsertRow PROVE Names'
  <2>1. UNCHANGED <<ord, pend, saved, k>>
    BY <1>39 DEF InsertRow, venueVars, pendVars
  <2>2. pend[k.p].o = 0 /\ ord[k.o].p = k.p /\ k.o # 0
    BY <1>39 DEF InsertRow, IInv, Steps, Poll, InFlight
  <2>3. \A q \in Orders : row[q].st = "none" /\ q # k.o => row'[q].st = "none"
    BY <1>39, InsertEffect
  <2>4. \A q \in Orders : row[q].st # "none" => row'[q].st # "none"
    BY <1>39, InsertEffect
  <2>5. \A p \in Products : pend[p].o # 0 => pend[p].o # k.o
    BY <2>2, <1>t DEF Names
  <2> QED BY <2>1, <2>3, <2>4, <2>5, <1>t, NamedOrders DEF Names
<1>40. ASSUME Recheck PROVE Names'
  <2>1. UNCHANGED <<ord, row, pend, saved, k>>
    BY <1>40 DEF Recheck, venueVars, pendVars
  <2> QED BY <2>1, <1>t DEF Names
<1>41. ASSUME _unwind_stop_raced_open PROVE Names'
  <2>1. SameNames
    BY <1>41, SameNamesOf DEF _unwind_stop_raced_open, venueVars
  <2>2. SameBooks
    BY <1>41, <1>t, SameBooksOf DEF _unwind_stop_raced_open
  <2>3. SamePends
    BY <1>41, SamePendsOf DEF _unwind_stop_raced_open, pendVars
  <2>4. SameRows
    <3>1. k'.rows = k.rows \/ k' = K0
      BY <1>41, <1>t DEF _unwind_stop_raced_open, Types, LocalType, Locals
    <3> QED BY <3>1, <1>t, SameRowsOf
  <2> QED BY <2>1, <2>2, <2>3, <2>4, NamesKept
<1>42. ASSUME _register_pending_maker_open PROVE Names'
  <2>1. UNCHANGED <<ord, row, k>> /\ pend' = [pend EXCEPT ![k.p] = k.q] /\ saved' = pend'
    BY <1>42 DEF _register_pending_maker_open, venueVars
  <2>2. k.p \in Products /\ k.q.o = k.o /\ ord[k.o].p = k.p /\ ord[k.o].size > 0 /\ row[k.o].st = "none"
    BY <1>42, <1>t, LocalTypes DEF _register_pending_maker_open, IInv, Steps, Poll, InFlight
  <2>3. pend \in [Products -> PendRec]
    BY <1>t DEF Types, PendType
  <2>4. \A p \in Products : p # k.p => pend'[p] = pend[p]
    BY <2>1, <2>3
  <2>5. pend'[k.p] = k.q
    BY <2>1, <2>2, <2>3
  <2> QED BY <2>1, <2>2, <2>4, <2>5, <1>t DEF Names
<1>43. ASSUME RearmPending PROVE Names'
  <2>1. UNCHANGED <<ord, row, pend, saved, k>>
    BY <1>43 DEF RearmPending, venueVars, pendVars
  <2> QED BY <2>1, <1>t DEF Names
<1>44. ASSUME SyncDone PROVE Names'
  <2>1. SameNames
    BY <1>44, SameNamesOf DEF SyncDone, venueVars
  <2>2. SameBooks
    BY <1>44, <1>t, SameBooksOf DEF SyncDone
  <2>3. SamePends
    BY <1>44, SamePendsOf DEF SyncDone, pendVars
  <2>4. SameRows
    <3>1. k'.rows = k.rows \/ k' = K0
      BY <1>44, <1>t DEF SyncDone, Types, LocalType, Locals
    <3> QED BY <3>1, <1>t, SameRowsOf
  <2> QED BY <2>1, <2>2, <2>3, <2>4, NamesKept
<1> QED BY <1>1, <1>2, <1>3, <1>4, <1>5, <1>6, <1>7, <1>8, <1>9, <1>10, <1>11, <1>12, <1>13, <1>14, <1>15, <1>16, <1>17, <1>18, <1>19, <1>20, <1>21, <1>22, <1>23, <1>24, <1>25, <1>26, <1>27, <1>28, <1>29, <1>30, <1>31, <1>32, <1>33, <1>34, <1>35, <1>36, <1>37, <1>38, <1>39, <1>40, <1>41, <1>42, <1>43, <1>44 DEF Next, World, PollStep, UserStep, FlattenStep, Actors

-----------------------------------------------------------------------------
(* Steps: what the poller knows at each of its places.                       *)

LEMMA StepsAtHome ==
  ASSUME pc'["poll"] \in {"idle", "leader", "resolve", "venue", "flatten", "flat_book", "stop_row", "clear"},
         k'.back = "open"
  PROVE  Steps'
BY DEF Steps, Poll, InFlight, Opened

LEMMA StepsAtOpen ==
  ASSUME pc'["poll"] = "open", k'.back = "open", \A p \in k'.todo : k'.lmap[p] # 0
  PROVE  Steps'
BY DEF Steps, Poll, InFlight, Opened

\* A step beside the poller leaves what the poller knows.
LEMMA StepsKept ==
  ASSUME IInv, pc'["poll"] = pc["poll"], k' = k, lost \subseteq lost',
         \A o \in Orders : /\ ord'[o].size = ord[o].size /\ ord'[o].filled \in Int /\ ord'[o].filled >= ord[o].filled
                           /\ ord'[o].p = ord[o].p /\ (ord'[o].live => ord[o].live)
                           /\ row'[o].size = row[o].size /\ row'[o].base = row[o].base
                           /\ (row'[o].st = "none" <=> row[o].st = "none"),
         \A p \in Products : pend'[p].o = pend[p].o \/ (pend'[p].o = 0 /\ p \in lost')
  PROVE  Steps'
<1>1. Steps /\ Types
  BY DEF IInv
<1>2. k.p \in Products /\ k.o \in 0..MaxOrders /\ (k.o # 0 => k.o \in Orders)
  BY <1>1, LocalTypes, CopyAssumption DEF Orders
<1>3. Placed' = Placed
  BY DEF Placed
<1>4. Poll({"add", "grow"}) => Added(k.p)' = Added(k.p) /\ Copy(k.p).size' = Copy(k.p).size
  <2>1. Poll({"add", "grow"}) => k.rows[k.p] \in Orders
    BY InHandTypes DEF Poll
  <2> QED BY <2>1 DEF Added, Copy, Size
<1>5. /\ (Poll(InFlight \cup {"verdict", "recheck", "unwind", "rearm"}) =>
            k.o # 0 /\ ord[k.o].p = k.p /\ ord[k.o].size > 0)'
      /\ (Poll(InFlight \cup {"verdict"}) => row[k.o].st = "none")'
      /\ (Poll({"recheck", "unwind", "rearm", "book"}) => k.o # 0 /\ row[k.o].st # "none")'
  BY <1>1, <1>2 DEF Steps, Poll, InFlight
<1>6. /\ (Poll({"verdict"}) => pend[k.p].o = k.o \/ (pend[k.p].o = 0 /\ k.p \in lost))'
      /\ (Poll(InFlight \cup {"check", "place", "add", "grow"}) => pend[k.p].o = 0)'
  BY <1>1, <1>2 DEF Steps, Poll, InFlight
<1>7. /\ (Poll({"verdict"}) => k.seen \in 0..ord[k.o].filled)'
      /\ (Poll({"insert", "late"}) => k.seen > 0 /\ k.seen <= ord[k.o].size)'
      /\ (Poll({"readback", "register"}) => k.q.o = k.o /\ (k.q.acked => ~ord[k.o].live))'
  <2>1. k.o # 0 => ord[k.o].filled \in Nat
    BY <1>1, <1>2, OrderTypes, CopyAssumption
  <2> QED BY <1>1, <1>2, <2>1 DEF Steps, Poll, InFlight
<1>8. /\ (Poll({"open", "book"} \cup Opened) /\ k.back = "open" => \A p \in k.todo : k.lmap[p] # 0)'
      /\ (Poll({"check", "place", "wait", "readback", "insert", "add", "grow"}) => k.lmap[k.p] # 0)'
      /\ (Poll(Opened) => k.p \notin k.todo)'
      /\ (Poll({"check", "place"}) => Placed # Orders)'
  BY <1>1, <1>3 DEF Steps, Poll, Opened
<1>9. /\ (Poll({"sweep", "close"}) \/ (Poll({"book"}) /\ k.back = "close") => \A p \in k.todo : k.rows[p] # 0)'
      /\ (Poll({"add", "grow"}) => k.rows[k.p] # 0)'
      /\ (Poll({"add"}) => Added(k.p) > 0)'
      /\ (Poll({"grow"}) => k.seen > 0 /\ Copy(k.p).size + k.seen <= MaxLots)'
      /\ (Poll({"book"}) => k.cut \in 0..row[k.o].size /\ (k.cut > 0 => k.base > 0))'
      /\ (~Poll({"book"}) => k.back = "open")'
  <2>1. Poll({"book"}) => row'[k.o].size = row[k.o].size
    BY InHandTypes DEF Poll
  <2> QED BY <1>1, <1>4, <2>1 DEF Steps, Poll
<1> QED BY <1>5, <1>6, <1>7, <1>8, <1>9 DEF Steps

\* Every step keeps Steps.
LEMMA NextSteps == ASSUME IInv, Next, Types' PROVE Steps'
<1> USE DEF Goto, PollGoto, Kept, Return, Upset, Spend
<1>t. Types /\ Steps
  BY DEF IInv
<1>1. ASSUME NEW p \in Products, LeaderMove(p) PROVE Steps'
  <2>1. UNCHANGED <<ord, row, pend, saved, suspects, lost, pc, k>>
    BY <1>1 DEF LeaderMove, venueVars, pendVars
  <2> QED BY <2>1, <1>t DEF Steps, Poll, Added, Size, Copy, Placed
<1>2. ASSUME NEW o \in Orders, Fill(o) PROVE Steps'
  <2>1. pc'["poll"] = pc["poll"] /\ k' = k /\ UNCHANGED <<row, pend, lost>>
    BY <1>2 DEF Fill, pendVars
  <2>2. \A q \in Orders : /\ ord'[q].size = ord[q].size /\ ord'[q].filled \in Int /\ ord'[q].filled >= ord[q].filled
                          /\ ord'[q].p = ord[q].p /\ (ord'[q].live => ord[q].live)
    BY <1>2, <1>t, FillEffect, OrderTypes, CopyAssumption
  <2> QED BY <2>1, <2>2, StepsKept
<1>3. ASSUME NEW p \in Products, ExternalClose(p) PROVE Steps'
  <2>1. UNCHANGED <<ord, row, pend, saved, suspects, lost, pc, k>>
    BY <1>3 DEF ExternalClose, venueVars, pendVars
  <2> QED BY <2>1, <1>t DEF Steps, Poll, Added, Size, Copy, Placed
<1>4. ASSUME start_copy PROVE Steps'
  <2>1. UNCHANGED <<ord, row, pend, saved, suspects, lost, pc, k>>
    BY <1>4 DEF start_copy, venueVars, pendVars
  <2> QED BY <2>1, <1>t DEF Steps, Poll, Added, Size, Copy, Placed
<1>5. ASSUME pause_copy PROVE Steps'
  <2>1. UNCHANGED <<ord, row, pend, saved, suspects, lost, pc, k>>
    BY <1>5 DEF pause_copy, venueVars, pendVars
  <2> QED BY <2>1, <1>t DEF Steps, Poll, Added, Size, Copy, Placed
<1>6. ASSUME resume_copy PROVE Steps'
  <2>1. UNCHANGED <<ord, row, pend, saved, suspects, lost, pc, k>>
    BY <1>6 DEF resume_copy, venueVars, pendVars
  <2> QED BY <2>1, <1>t DEF Steps, Poll, Added, Size, Copy, Placed
<1>7. ASSUME stop_copy PROVE Steps'
  <2>1. pc'["poll"] = pc["poll"] /\ k' = k /\ UNCHANGED <<ord, row, pend, lost>>
    BY <1>7, <1>t DEF stop_copy, venueVars, pendVars, Types, PcType, Actors
  <2> QED BY <2>1, <1>t, StepsKept, OrderTypes, CopyAssumption
<1>8. ASSUME boot_stand_down_mirrors PROVE Steps'
  <2>1. pc'["poll"] = "idle" /\ k'.back = "open"
    BY <1>8, AckTypes DEF boot_stand_down_mirrors, K0
  <2> QED BY <2>1, StepsAtHome
<1>9. ASSUME NEW t \in Actors, FlattenClose(t) PROVE Steps'
  <2>1. CASE t = "user"
    <3>1. pc'["poll"] = pc["poll"] /\ k' = k /\ UNCHANGED <<ord, row, pend, lost>>
      BY <1>9, <1>t, <2>1 DEF FlattenClose, venueVars, pendVars, Types, PcType, Actors
    <3> QED BY <3>1, <1>t, StepsKept, OrderTypes, CopyAssumption
  <2>2. CASE t = "poll"
    <3>1. pc'["poll"] \in {"idle", "flatten", "flat_book", "stop_row", "clear"} /\ (k' = k \/ k' = K0)
      BY <1>9, <1>t, <2>2 DEF FlattenClose, Types, PcType, Actors
    <3>2. pc["poll"] # "book"
      BY <1>9, <2>2 DEF FlattenClose
    <3> QED BY <3>1, <3>2, <1>t, StepsAtHome DEF Steps, Poll, K0
  <2> QED BY <2>1, <2>2, AckTypes
<1>10. ASSUME NEW t \in Actors, FlattenBook(t) PROVE Steps'
  <2>1. CASE t = "user"
    <3>1. pc'["poll"] = pc["poll"] /\ k' = k /\ UNCHANGED <<ord, pend, lost>>
      BY <1>10, <1>t, <2>1 DEF FlattenBook, venueVars, pendVars, Types, PcType, Actors
    <3>2. \A o \in Orders : /\ row'[o].size = row[o].size /\ row'[o].base = row[o].base
                           /\ (row'[o].st = "none" <=> row[o].st = "none")
      <4>1. fl[t].o \in Orders /\ row' = Booked(fl[t].o, 0, 0) /\ 0 \in 0..MaxLots
        BY <1>10, InHandTypes, CopyAssumption DEF FlattenBook
      <4> QED BY <4>1, <1>t, BookedEffect
    <3> QED BY <3>1, <3>2, <1>t, StepsKept, OrderTypes, CopyAssumption
  <2>2. CASE t = "poll"
    <3>1. pc'["poll"] \in {"idle", "flatten", "flat_book", "stop_row", "clear"} /\ (k' = k \/ k' = K0)
      BY <1>10, <1>t, <2>2 DEF FlattenBook, Types, PcType, Actors
    <3>2. pc["poll"] # "book"
      BY <1>10, <2>2 DEF FlattenBook
    <3> QED BY <3>1, <3>2, <1>t, StepsAtHome DEF Steps, Poll, K0
  <2> QED BY <2>1, <2>2, AckTypes
<1>11. ASSUME NEW t \in Actors, FlattenEnd(t) PROVE Steps'
  <2>1. CASE t = "user"
    <3>1. pc'["poll"] = pc["poll"] /\ k' = k /\ UNCHANGED <<ord, row, pend, lost>>
      BY <1>11, <1>t, <2>1 DEF FlattenEnd, venueVars, pendVars, Types, PcType, Actors
    <3> QED BY <3>1, <1>t, StepsKept, OrderTypes, CopyAssumption
  <2>2. CASE t = "poll"
    <3>1. pc'["poll"] \in {"idle", "flatten", "flat_book", "stop_row", "clear"} /\ (k' = k \/ k' = K0)
      BY <1>11, <1>t, <2>2 DEF FlattenEnd, Types, PcType, Actors
    <3>2. pc["poll"] # "book"
      BY <1>11, <2>2 DEF FlattenEnd
    <3> QED BY <3>1, <3>2, <1>t, StepsAtHome DEF Steps, Poll, K0
  <2> QED BY <2>1, <2>2, AckTypes
<1>12. ASSUME NEW t \in Actors, StopRow(t) PROVE Steps'
  <2>1. CASE t = "user"
    <3>1. pc'["poll"] = pc["poll"] /\ k' = k /\ UNCHANGED <<ord, row, pend>> /\ lost \subseteq lost'
      BY <1>12, <1>t, <2>1 DEF StopRow, venueVars, pendVars, Types, PcType, Actors
    <3> QED BY <3>1, <1>t, StepsKept, OrderTypes, CopyAssumption
  <2>2. CASE t = "poll"
    <3>1. pc'["poll"] \in {"idle", "flatten", "flat_book", "stop_row", "clear"} /\ (k' = k \/ k' = K0)
      BY <1>12, <1>t, <2>2 DEF StopRow, Types, PcType, Actors
    <3>2. pc["poll"] # "book"
      BY <1>12, <2>2 DEF StopRow
    <3> QED BY <3>1, <3>2, <1>t, StepsAtHome DEF Steps, Poll, K0
  <2> QED BY <2>1, <2>2, AckTypes
<1>13. ASSUME NEW t \in Actors, _clear_mirror_runtime_state(t) PROVE Steps'
  <2>1. CASE t = "user"
    <3>1. pc'["poll"] = pc["poll"] /\ k' = k /\ UNCHANGED <<ord, row>> /\ lost' = lost \cup Pending
      BY <1>13, <1>t, <2>1 DEF _clear_mirror_runtime_state, venueVars, Types, PcType, Actors
    <3>2. \A p \in Products : pend'[p].o = 0
      BY <1>13 DEF _clear_mirror_runtime_state, NoPend
    <3>3. \A p \in Products : pend[p].o # 0 => p \in lost'
      BY <3>1 DEF Pending
    <3> QED BY <3>1, <3>2, <3>3, <1>t, StepsKept, OrderTypes, CopyAssumption
  <2>2. CASE t = "poll"
    <3>1. pc'["poll"] \in {"idle", "flatten", "flat_book", "stop_row", "clear"} /\ (k' = k \/ k' = K0)
      BY <1>13, <1>t, <2>2 DEF _clear_mirror_runtime_state, Types, PcType, Actors
    <3>2. pc["poll"] # "book"
      BY <1>13, <2>2 DEF _clear_mirror_runtime_state
    <3> QED BY <3>1, <3>2, <1>t, StepsAtHome DEF Steps, Poll, K0
  <2> QED BY <2>1, <2>2, AckTypes
<1>14. ASSUME _poll_all_mirrors PROVE Steps'
  <2>1. pc'["poll"] \in {"idle", "leader", "resolve", "venue", "flatten"} /\ pc["poll"] # "book"
    BY <1>14, <1>t DEF _poll_all_mirrors, Types, PcType, Actors
  <2>2. k' = [K0 EXCEPT !.mode = PollMode, !.todo = Pending]
    BY <1>14 DEF _poll_all_mirrors, Kept
  <2>3. k'.back = K0.back
    BY <2>2, RecordTypes DEF Locals
  <2> QED BY <2>1, <2>3, <1>t, StepsAtHome DEF Steps, Poll, K0
<1>15. ASSUME LoadLeader PROVE Steps'
  <2>1. pc'["poll"] \in {"idle", "leader", "resolve", "venue", "flatten"} /\ pc["poll"] # "book"
    BY <1>15, <1>t DEF LoadLeader, Types, PcType, Actors
  <2>2. k'.back = k.back \/ k'.back = K0.back
    BY <1>15, <1>t DEF LoadLeader, Types, LocalType, Locals, K0
  <2> QED BY <2>1, <2>2, <1>t, StepsAtHome DEF Steps, Poll, K0
<1>16. ASSUME ResolveRead PROVE Steps'
  <2>1. pc["poll"] = "resolve" /\ UNCHANGED <<ord, row, pend, lost>>
    BY <1>16 DEF ResolveRead, venueVars, pendVars
  <2>2. k.back = "open"
    BY <2>1, <1>t DEF Steps, Poll
  <2>3. PICK p \in k.todo :
           \/ k' = [k EXCEPT !.todo = @ \ {p}] /\ UNCHANGED pc
           \/ /\ pend[p].o # 0
              /\ \E s \in Shown(pend[p].o) :
                   Kept("verdict", [k EXCEPT !.todo = @ \ {p}, !.p = p, !.o = pend[p].o, !.q = pend[p], !.seen = s])
    BY <1>16 DEF ResolveRead
  <2>4. CASE k' = [k EXCEPT !.todo = @ \ {p}] /\ UNCHANGED pc
    <3>1. k'.back = k.back
      BY <2>4, <1>t DEF Types, LocalType, Locals
    <3> QED BY <2>1, <2>2, <2>4, <3>1, StepsAtHome
  <2>5. ASSUME pend[p].o # 0, NEW s \in Shown(pend[p].o),
               Kept("verdict", [k EXCEPT !.todo = @ \ {p}, !.p = p, !.o = pend[p].o, !.q = pend[p], !.seen = s])
        PROVE  Steps'
    <3>1. p \in Products /\ pend[p].o \in Orders
      BY <2>5, <1>t, LocalTypes, NamedOrders
    <3>2. pc'["poll"] = "verdict" /\ k'.p = p /\ k'.o = pend[p].o /\ k'.seen = s /\ k'.back = k.back
      BY <2>5, <1>t DEF Types, LocalType, Locals, PcType, Actors
    <3>3. ord[pend[p].o].p = p /\ ord[pend[p].o].size > 0 /\ row[pend[p].o].st = "none"
      BY <2>5, <3>1, <1>t DEF IInv, Names
    <3>4. s \in 0..ord[pend[p].o].filled
      BY <3>1, <1>t, ShownTypes
    <3> QED BY <2>1, <2>2, <2>5, <3>1, <3>2, <3>3, <3>4, CopyAssumption DEF Steps, Poll, InFlight, Opened, Orders
  <2> QED BY <2>3, <2>4, <2>5
<1>17. ASSUME ResolveVerdict PROVE Steps'
  <2>1. pc["poll"] = "verdict" /\ UNCHANGED <<row, k>> /\ (UNCHANGED ord \/ ord' = Cancelled(k.o))
    BY <1>17 DEF ResolveVerdict
  <2>2. /\ k.back = "open" /\ k.o \in Orders /\ k.p \in Products /\ ord[k.o].p = k.p /\ ord[k.o].size > 0
        /\ row[k.o].st = "none" /\ k.seen \in 0..ord[k.o].filled
    BY <2>1, <1>t, InHandTypes, LocalTypes DEF Steps, Poll, InFlight
  <2>3. \/ pc' = [pc EXCEPT !["poll"] = "resolve"]
        \/ Pop(k.p) /\ k.seen > 0 /\ pc' = [pc EXCEPT !["poll"] = "late"]
    BY <1>17 DEF ResolveVerdict
  <2>4. CASE pc' = [pc EXCEPT !["poll"] = "resolve"]
    <3>1. pc'["poll"] = "resolve"
      BY <2>4, <1>t DEF Types, PcType, Actors
    <3> QED BY <2>1, <2>2, <3>1, StepsAtHome
  <2>5. CASE Pop(k.p) /\ k.seen > 0 /\ pc' = [pc EXCEPT !["poll"] = "late"]
    <3>1. pc'["poll"] = "late"
      BY <2>5, <1>t DEF Types, PcType, Actors
    <3>2. pend'[k.p].o = 0
      BY <2>2, <2>5, <1>t DEF Pop, NoPend, Types, PendType
    <3>3. ord'[k.o].p = k.p /\ ord'[k.o].size = ord[k.o].size
      BY <2>1, <2>2, <1>t, CancelEffect
    <3>4. k.seen <= ord[k.o].size
      BY <2>2, <1>t, OrderTypes, CopyAssumption DEF IInv, Orderly
    <3> QED BY <2>1, <2>2, <2>5, <3>1, <3>2, <3>3, <3>4, CopyAssumption DEF Steps, Poll, InFlight, Opened, Orders
  <2> QED BY <2>3, <2>4, <2>5
<1>18. ASSUME InsertLate PROVE Steps'
  <2>1. pc["poll"] \in {"late", "insert"} /\ pc'["poll"] = "rearm" /\ UNCHANGED <<ord, k>>
    BY <1>18, <1>t DEF InsertLate, venueVars, Types, PcType, Actors
  <2>2. k.o \in Orders /\ row'[k.o].st = "open"
    BY <1>18, InsertEffect
  <2> QED BY <1>18, <2>1, <2>2, <1>t, CopyAssumption DEF InsertLate, Steps, Poll, InFlight, Opened, Orders
<1>19. ASSUME Rearm PROVE Steps'
  <2>1. pc'["poll"] \in {"idle", "leader", "resolve", "venue", "flatten"} /\ pc["poll"] # "book"
    BY <1>19, <1>t DEF Rearm, Types, PcType, Actors
  <2>2. k'.back = k.back \/ k'.back = K0.back
    BY <1>19, <1>t DEF Rearm, Types, LocalType, Locals, K0
  <2> QED BY <2>1, <2>2, <1>t, StepsAtHome DEF Steps, Poll, K0
<1>20. ASSUME ResolveDone PROVE Steps'
  <2>1. pc'["poll"] \in {"idle", "leader", "resolve", "venue", "flatten"} /\ pc["poll"] # "book"
    BY <1>20, <1>t DEF ResolveDone, Types, PcType, Actors
  <2>2. k'.back = k.back \/ k'.back = K0.back
    BY <1>20, <1>t DEF ResolveDone, Types, LocalType, Locals, K0
  <2> QED BY <2>1, <2>2, <1>t, StepsAtHome DEF Steps, Poll, K0
<1>21. ASSUME ReadVenue PROVE Steps'
  <2>1. pc["poll"] = "venue" /\ pc'["poll"] = "sweep"
    BY <1>21, <1>t DEF ReadVenue, Types, PcType, Actors
  <2>2. k'.back = k.back /\ k'.rows = k.rows /\ k'.todo \subseteq {p \in Products : k.rows[p] # 0}
    BY <1>21, <1>t, VenueLocals
  <2> QED BY <2>1, <2>2, <1>t DEF Steps, Poll, InFlight, Opened
<1>22. ASSUME NEW p \in Products, Sweep(p) PROVE Steps'
  <2>1. pc["poll"] = "sweep" /\ UNCHANGED pc
    BY <1>22 DEF Sweep
  <2>2. k'.back = k.back /\ k'.todo = k.todo \ {p} /\ (k'.rows = k.rows \/ k'.rows = [k.rows EXCEPT ![p] = 0])
    <3>1. k' = [k EXCEPT !.todo = @ \ {p}] \/ k' = [k EXCEPT !.todo = @ \ {p}, !.rows[p] = 0]
      BY <1>22 DEF Sweep
    <3> QED BY <3>1, <1>t DEF Types, LocalType, Locals
  <2>3. \A q \in k.todo : q # p => k'.rows[q] = k.rows[q]
    BY <2>2, <1>t, LocalTypes
  <2> QED BY <2>1, <2>2, <2>3, <1>t DEF Steps, Poll, InFlight, Opened
<1>23. ASSUME Rail PROVE Steps'
  <2>1. pc["poll"] = "sweep" /\ k.back = "open"
    BY <1>23, <1>t DEF Rail, Steps, Poll
  <2> DEFINE T == IF k.trusted THEN {p \in Products : k.rows[p] # 0 /\ k.lmap[p] = 0} ELSE {}
  <2>2. \/ pc' = [pc EXCEPT !["poll"] = "flatten"] /\ k' = k
        \/ pc' = [pc EXCEPT !["poll"] = "close"] /\ k' = [k EXCEPT !.todo = T]
    BY <1>23 DEF Rail
  <2>3. \A p \in T : k.rows[p] # 0
    OBVIOUS
  <2> HIDE DEF T
  <2>4. \/ pc'["poll"] = "flatten" /\ k' = k
        \/ pc'["poll"] = "close" /\ k'.todo = T /\ k'.rows = k.rows /\ k'.back = k.back
    BY <2>2, <1>t DEF Types, PcType, Actors, LocalType, Locals
  <2>5. CASE pc'["poll"] = "flatten" /\ k' = k
    BY <2>1, <2>5, StepsAtHome
  <2>6. CASE pc'["poll"] = "close" /\ k'.todo = T /\ k'.rows = k.rows /\ k'.back = k.back
    BY <2>1, <2>3, <2>6 DEF Steps, Poll, InFlight, Opened
  <2> QED BY <2>4, <2>5, <2>6
<1>24. ASSUME NEW p \in Products, CloseGone(p) PROVE Steps'
  <2>1. pc["poll"] = "close" /\ p \in k.todo /\ p \in Products /\ k.rows[p] # 0 /\ k.back = "open" /\ UNCHANGED row
    BY <1>24, <1>t DEF CloseGone, Opening, Tracks, Steps, Poll
  <2>2. k.rows[p] \in Orders /\ row[k.rows[p]].st # "none" /\ row[k.rows[p]].size \in 1..MaxLots
    BY <2>1, AddedTypes DEF IInv, Names
  <2> DEFINE m == row[k.rows[p]].size
             c == row[k.rows[p]].size - m
             l == Without(p)
  <2>3. m \in 0..row[k.rows[p]].size
    BY <2>2, CopyAssumption
  <2>4. \/ pc' = [pc EXCEPT !["poll"] = "book"] /\ k' = [l EXCEPT !.o = k.rows[p], !.cut = c, !.back = "close"]
        \/ pc' = [pc EXCEPT !["poll"] = "close"] /\ k' = Without(p)
    BY <1>24, <2>1 DEF CloseGone, SendClose, Copy
  <2>5. c \in 0..row[k.rows[p]].size
    BY <2>2, <2>3, CopyAssumption
  <2>6. c > 0 => l.base > 0
    BY <2>2, CopyAssumption
  <2> HIDE DEF m, c
  <2>7. l.todo \subseteq k.todo /\ l.rows \in {k.rows, [k.rows EXCEPT ![p] = 0]} /\ l.lmap = k.lmap /\ l \in Locals
        /\ ("close" = "close" => l.rows = k.rows)
    BY <1>t, RowDropped, LocalTypes, AbsLeast DEF Without, Size, Types, LocalType, Locals
  <2> HIDE DEF l
  <2>8. CASE pc' = [pc EXCEPT !["poll"] = "book"] /\ k' = [l EXCEPT !.o = k.rows[p], !.cut = c, !.back = "close"]
    <3>1. /\ pc'["poll"] = "book" /\ k'.o = k.rows[p] /\ k'.cut = c /\ k'.back = "close" /\ k'.base = l.base
          /\ k'.todo = l.todo /\ k'.rows = l.rows /\ k'.lmap = l.lmap
      BY <2>7, <2>8, <1>t DEF Types, PcType, Actors, Locals
    <3> QED BY <2>1, <2>2, <2>5, <2>6, <2>7, <3>1, <1>t DEF Steps, Poll, InFlight, Opened
  <2>9. CASE pc' = [pc EXCEPT !["poll"] = "close"] /\ k' = Without(p)
    <3>1. pc'["poll"] = "close" /\ k'.todo \subseteq k.todo /\ k'.rows = k.rows /\ k'.lmap = k.lmap /\ k'.back = k.back
      BY <2>9, <1>t DEF Without, Types, PcType, Actors, LocalType, Locals
    <3> QED BY <2>1, <3>1, <1>t DEF Steps, Poll, InFlight, Opened
  <2> QED BY <2>4, <2>8, <2>9
<1>25. ASSUME CloseGoneDone PROVE Steps'
  <2>1. pc'["poll"] = "open" /\ pc["poll"] # "book"
    BY <1>25, <1>t DEF CloseGoneDone, Opening, Types, PcType, Actors
  <2>2. k'.back = k.back /\ k'.lmap = k.lmap /\ (k'.todo \subseteq k.todo \/ k'.todo = {p \in Products : k.lmap[p] # 0})
    BY <1>25, <1>t DEF CloseGoneDone, Without, Types, LocalType, Locals
  <2>3. k.back = "open" /\ (pc["poll"] # "close" => \A p \in k.todo : k.lmap[p] # 0)
    BY <1>25, <2>1, <1>t DEF CloseGoneDone, Opening, Steps, Poll, Opened
  <2>4. pc["poll"] = "close" => k'.todo = {p \in Products : k.lmap[p] # 0}
    BY <1>25, <1>t DEF CloseGoneDone, Opening, Types, LocalType, Locals
  <2> QED BY <2>1, <2>2, <2>3, <2>4, StepsAtOpen
<1>26. ASSUME NEW p \in Products, Flip(p) PROVE Steps'
  <2>1. pc["poll"] = "open" /\ p \in k.todo /\ p \in Products /\ k.rows[p] # 0 /\ k.back = "open" /\ UNCHANGED row
    BY <1>26, <1>t DEF Flip, Opening, Tracks, Steps, Poll
  <2>2. k.rows[p] \in Orders /\ row[k.rows[p]].st # "none" /\ row[k.rows[p]].size \in 1..MaxLots
    BY <2>1, AddedTypes DEF IInv, Names
  <2> DEFINE m == row[k.rows[p]].size
             c == row[k.rows[p]].size - m
             l == [k EXCEPT !.rows[p] = 0]
  <2>3. m \in 0..row[k.rows[p]].size
    BY <2>2, CopyAssumption
  <2>4. \/ pc' = [pc EXCEPT !["poll"] = "book"] /\ k' = [l EXCEPT !.o = k.rows[p], !.cut = c, !.back = "open"]
        \/ pc' = [pc EXCEPT !["poll"] = "open"] /\ k' = Without(p)
    BY <1>26, <2>1 DEF Flip, SendClose, Copy
  <2>5. c \in 0..row[k.rows[p]].size
    BY <2>2, <2>3, CopyAssumption
  <2>6. c > 0 => l.base > 0
    BY <2>2, CopyAssumption
  <2> HIDE DEF m, c
  <2>7. l.todo \subseteq k.todo /\ l.rows \in {k.rows, [k.rows EXCEPT ![p] = 0]} /\ l.lmap = k.lmap /\ l \in Locals
        /\ ("open" = "close" => l.rows = k.rows)
    BY <1>t, RowDropped, LocalTypes, AbsLeast DEF Without, Size, Types, LocalType, Locals
  <2> HIDE DEF l
  <2>8. CASE pc' = [pc EXCEPT !["poll"] = "book"] /\ k' = [l EXCEPT !.o = k.rows[p], !.cut = c, !.back = "open"]
    <3>1. /\ pc'["poll"] = "book" /\ k'.o = k.rows[p] /\ k'.cut = c /\ k'.back = "open" /\ k'.base = l.base
          /\ k'.todo = l.todo /\ k'.rows = l.rows /\ k'.lmap = l.lmap
      BY <2>7, <2>8, <1>t DEF Types, PcType, Actors, Locals
    <3> QED BY <2>1, <2>2, <2>5, <2>6, <2>7, <3>1, <1>t DEF Steps, Poll, InFlight, Opened
  <2>9. CASE pc' = [pc EXCEPT !["poll"] = "open"] /\ k' = Without(p)
    <3>1. pc'["poll"] = "open" /\ k'.todo \subseteq k.todo /\ k'.rows = k.rows /\ k'.lmap = k.lmap /\ k'.back = k.back
      BY <2>9, <1>t DEF Without, Types, PcType, Actors, LocalType, Locals
    <3> QED BY <2>1, <3>1, <1>t DEF Steps, Poll, InFlight, Opened
  <2> QED BY <2>4, <2>8, <2>9
<1>27. ASSUME NEW p \in Products, Trim(p) PROVE Steps'
  <2>1. pc["poll"] = "open" /\ p \in k.todo /\ p \in Products /\ k.rows[p] # 0 /\ k.back = "open" /\ UNCHANGED row
    BY <1>27, <1>t, TrimGuard, SMTT(30) DEF Opening, Tracks, Steps, Poll
  <2>2. k.rows[p] \in Orders /\ row[k.rows[p]].st # "none" /\ row[k.rows[p]].size \in 1..MaxLots
    BY <2>1, AddedTypes DEF IInv, Names
  <2> DEFINE m == (Copy(p).size * (Copy(p).base - Size(p))) \div Copy(p).base
             c == row[k.rows[p]].size - m
             l == [Without(p) EXCEPT !.base = Size(p)]
  <2>3. m \in 0..row[k.rows[p]].size
    BY <1>27, TrimSize DEF Trim, Copy
  <2>4. \/ pc' = [pc EXCEPT !["poll"] = "book"] /\ k' = [l EXCEPT !.o = k.rows[p], !.cut = c, !.back = "open"]
        \/ pc' = [pc EXCEPT !["poll"] = "open"] /\ k' = Without(p)
    BY <1>27, <2>1 DEF Trim, SendClose, Copy
  <2>5. c \in 0..row[k.rows[p]].size
    BY <2>2, <2>3, CopyAssumption
  <2>6. c > 0 => l.base > 0
    <3>1. k.lmap[p] # 0 /\ k.lmap[p] \in Int
      BY <2>1, <1>t, LocalTypes, CopyAssumption DEF Steps, Poll
    <3>2. l.base = Size(p)
      BY <1>t DEF Without, Types, LocalType, Locals
    <3> QED BY <3>1, <3>2 DEF Size, Abs
  <2> HIDE DEF m, c
  <2>7. l.todo \subseteq k.todo /\ l.rows \in {k.rows, [k.rows EXCEPT ![p] = 0]} /\ l.lmap = k.lmap /\ l \in Locals
        /\ ("open" = "close" => l.rows = k.rows)
    BY <1>t, RowDropped, LocalTypes, AbsLeast DEF Without, Size, Types, LocalType, Locals
  <2> HIDE DEF l
  <2>8. CASE pc' = [pc EXCEPT !["poll"] = "book"] /\ k' = [l EXCEPT !.o = k.rows[p], !.cut = c, !.back = "open"]
    <3>1. /\ pc'["poll"] = "book" /\ k'.o = k.rows[p] /\ k'.cut = c /\ k'.back = "open" /\ k'.base = l.base
          /\ k'.todo = l.todo /\ k'.rows = l.rows /\ k'.lmap = l.lmap
      BY <2>7, <2>8, <1>t DEF Types, PcType, Actors, Locals
    <3> QED BY <2>1, <2>2, <2>5, <2>6, <2>7, <3>1, <1>t DEF Steps, Poll, InFlight, Opened
  <2>9. CASE pc' = [pc EXCEPT !["poll"] = "open"] /\ k' = Without(p)
    <3>1. pc'["poll"] = "open" /\ k'.todo \subseteq k.todo /\ k'.rows = k.rows /\ k'.lmap = k.lmap /\ k'.back = k.back
      BY <2>9, <1>t DEF Without, Types, PcType, Actors, LocalType, Locals
    <3> QED BY <2>1, <3>1, <1>t DEF Steps, Poll, InFlight, Opened
  <2> QED BY <2>4, <2>8, <2>9
<1>28. ASSUME BookClose PROVE Steps'
  <2>1. pc["poll"] = "book" /\ pc'["poll"] = k.back /\ k.back \in {"open", "close"}
    BY <1>28, <1>t, LocalTypes DEF BookClose, Types, PcType, Actors
  <2>2. k'.back = "open" /\ k'.todo = k.todo /\ k'.rows = k.rows /\ k'.lmap = k.lmap
    BY <1>28, <1>t DEF BookClose, Types, LocalType, Locals
  <2> QED BY <2>1, <2>2, <1>t DEF Steps, Poll, InFlight, Opened
<1>29. ASSUME NEW p \in Products, Add(p) PROVE Steps'
  <2>1. pc["poll"] = "open" /\ p \in k.todo /\ k.rows[p] # 0 /\ k.back = "open" /\ UNCHANGED pend
    BY <1>29, <1>t DEF Add, Opening, Tracks, Steps, Poll, pendVars
  <2>2. \/ pc' = [pc EXCEPT !["poll"] = "open"] /\ (k' = Without(p) \/ k' = [Without(p) EXCEPT !.p = p])
        \/ /\ pc' = [pc EXCEPT !["poll"] = "add"] /\ k' = [Without(p) EXCEPT !.p = p]
           /\ ~(Added(p) <= 0) /\ pend[p].o = 0 /\ UNCHANGED row
    BY <1>29 DEF Add
  <2>3. k'.back = k.back /\ k'.todo = k.todo \ {p} /\ k'.lmap = k.lmap /\ k'.rows = k.rows
    BY <2>2, <1>t DEF Without, Types, LocalType, Locals
  <2>4. CASE pc' = [pc EXCEPT !["poll"] = "open"]
    <3>1. pc'["poll"] = "open"
      BY <2>4, <1>t DEF Types, PcType, Actors
    <3> QED BY <2>1, <2>3, <3>1, <1>t, StepsAtOpen DEF Steps, Poll, Opened
  <2>5. CASE pc' = [pc EXCEPT !["poll"] = "add"] /\ k' = [Without(p) EXCEPT !.p = p]
              /\ ~(Added(p) <= 0) /\ pend[p].o = 0 /\ UNCHANGED row
    <3>1. pc'["poll"] = "add" /\ k'.p = p
      BY <2>5, <1>t DEF Without, Types, PcType, Actors, LocalType, Locals
    <3>2. Added(p) > 0
      BY <2>1, <2>5, AddedTypes
    <3>3. (Added(k.p) > 0)'
      BY <2>3, <2>5, <3>1, <3>2 DEF Added, Copy, Size
    <3> QED BY <2>1, <2>3, <2>5, <3>1, <3>3, <1>t DEF Steps, Poll, InFlight, Opened
  <2> QED BY <2>2, <2>4, <2>5
<1>30. ASSUME AddSend PROVE Steps'
  <2>1. pc["poll"] = "add" /\ UNCHANGED <<row, ord, pend>> /\ k.back = "open"
    BY <1>30, <1>t DEF AddSend, pendVars, Steps, Poll
  <2>2. /\ k.rows[k.p] # 0 /\ k.p \in Products /\ Added(k.p) > 0 /\ k.p \notin k.todo /\ pend[k.p].o = 0
        /\ k.lmap[k.p] # 0 /\ \A p \in k.todo : k.lmap[p] # 0
    BY <2>1, <1>t, LocalTypes DEF Steps, Poll, Opened
  <2>3. \/ pc' = [pc EXCEPT !["poll"] = "grow"] /\ k' = [k EXCEPT !.seen = Added(k.p)]
        \/ pc' = [pc EXCEPT !["poll"] = "open"] /\ k' = k
    BY <1>30 DEF AddSend
  <2>4. CASE pc' = [pc EXCEPT !["poll"] = "grow"] /\ k' = [k EXCEPT !.seen = Added(k.p)]
    <3>1. /\ pc'["poll"] = "grow" /\ k'.seen = Added(k.p) /\ k'.rows = k.rows /\ k'.lmap = k.lmap /\ k'.p = k.p
          /\ k'.todo = k.todo /\ k'.back = k.back
      BY <2>4, <1>t DEF Types, PcType, Actors, LocalType, Locals
    <3>2. Copy(k.p).size + Added(k.p) <= MaxLots
      BY <2>2, AddedTypes
    <3> QED BY <2>1, <2>2, <3>1, <3>2 DEF Steps, Poll, InFlight, Opened, Copy
  <2>5. CASE pc' = [pc EXCEPT !["poll"] = "open"] /\ k' = k
    <3>1. pc'["poll"] = "open"
      BY <2>5, <1>t DEF Types, PcType, Actors
    <3> QED BY <2>1, <2>2, <2>5, <3>1, StepsAtOpen
  <2> QED BY <2>3, <2>4, <2>5
<1>31. ASSUME Grow PROVE Steps'
  <2>1. pc'["poll"] = "open" /\ pc["poll"] # "book"
    BY <1>31, <1>t DEF Grow, Opening, Types, PcType, Actors
  <2>2. k'.back = k.back /\ k'.lmap = k.lmap /\ (k'.todo \subseteq k.todo \/ k'.todo = {z \in Products : k.lmap[z] # 0})
    BY <1>31, <1>t DEF Grow, Without, Types, LocalType, Locals
  <2>3. k.back = "open" /\ (pc["poll"] # "close" => \A p \in k.todo : k.lmap[p] # 0)
    BY <1>31, <2>1, <1>t DEF Grow, Opening, Steps, Poll, Opened
  <2>4. pc["poll"] = "close" => k'.todo = {z \in Products : k.lmap[z] # 0}
    BY <1>31, <1>t DEF Grow, Opening, Types, LocalType, Locals
  <2> QED BY <2>1, <2>2, <2>3, <2>4, StepsAtOpen
<1>32. ASSUME NEW p \in Products, Skip(p) PROVE Steps'
  <2>1. pc'["poll"] = "open" /\ pc["poll"] # "book"
    BY <1>32, <1>t DEF Skip, Opening, Types, PcType, Actors
  <2>2. k'.back = k.back /\ k'.lmap = k.lmap /\ (k'.todo \subseteq k.todo \/ k'.todo = {z \in Products : k.lmap[z] # 0})
    BY <1>32, <1>t DEF Skip, Without, Types, LocalType, Locals
  <2>3. k.back = "open" /\ (pc["poll"] # "close" => \A z \in k.todo : k.lmap[z] # 0)
    BY <1>32, <2>1, <1>t DEF Skip, Opening, Steps, Poll, Opened
  <2>4. pc["poll"] = "close" => k'.todo = {z \in Products : k.lmap[z] # 0}
    BY <1>32, <1>t DEF Skip, Opening, Types, LocalType, Locals
  <2> QED BY <2>1, <2>2, <2>3, <2>4, StepsAtOpen
<1>33. ASSUME NEW p \in Products, Open(p) PROVE Steps'
  <2>1. /\ pc["poll"] = "open" /\ p \in k.todo /\ k.back = "open" /\ UNCHANGED <<pend, ord>> /\ pend[p].o = 0
        /\ Placed # Orders
    BY <1>33, <1>t DEF Open, Opening, MayOpen, Steps, Poll, pendVars, venueVars
  <2>2. pc'["poll"] = "check" /\ k'.p = p /\ k'.back = k.back /\ k'.todo = k.todo \ {p} /\ k'.lmap = k.lmap
    BY <1>33, <1>t DEF Open, Without, Types, PcType, Actors, LocalType, Locals
  <2> QED BY <2>1, <2>2, <1>t DEF Steps, Poll, InFlight, Opened, Placed
<1>34. ASSUME CheckLive PROVE Steps'
  <2>1. pc["poll"] = "check" /\ UNCHANGED <<pend, ord>>
    BY <1>34 DEF CheckLive, pendVars, venueVars
  <2>2. \/ pc'["poll"] = "idle" /\ k' = K0
        \/ pc'["poll"] = "place" /\ k' = k
    BY <1>34, <1>t DEF CheckLive, Types, PcType, Actors
  <2>3. CASE pc'["poll"] = "idle" /\ k' = K0
    BY <2>3, StepsAtHome DEF K0
  <2>4. CASE pc'["poll"] = "place" /\ k' = k
    BY <2>1, <2>4, <1>t DEF Steps, Poll, InFlight, Opened, Placed
  <2> QED BY <2>2, <2>3, <2>4
<1>35. ASSUME Place PROVE Steps'
  <2>1. pc["poll"] = "place" /\ UNCHANGED <<row, pend>> /\ k.back = "open"
    BY <1>35, <1>t DEF Place, pendVars, Steps, Poll
  <2>2. /\ k.p \in Products /\ k.p \notin k.todo /\ pend[k.p].o = 0 /\ k.lmap[k.p] # 0 /\ k.lmap[k.p] \in Int
        /\ \A p \in k.todo : k.lmap[p] # 0
    BY <2>1, <1>t, LocalTypes, CopyAssumption DEF Steps, Poll, Opened, InFlight
  <2>3. CASE UNCHANGED <<ord, k>>
    <3>1. ord # [ord EXCEPT ![Min(Orders \ Placed)] = [p |-> k.p, d |-> Side(k.lmap[k.p]), size |-> Size(k.p),
                                                       filled |-> 0, live |-> TRUE]]
      <4>1. Min(Orders \ Placed) \in Orders \ Placed
        <5>1. Orders \ Placed # {}
          BY <2>1, <1>t DEF Steps, Poll, Placed
        <5> QED BY <5>1, MinOrder, CopyAssumption
      <4>2. ~(ord[Min(Orders \ Placed)].size > 0) /\ Size(k.p) > 0
        BY <2>2, <4>1 DEF Placed, Size, Abs
      <4> QED BY <4>1, <4>2, <1>t DEF Types, OrdType
    <3>2. pc'["poll"] = "open"
      BY <1>35, <2>3, <3>1, <1>t DEF Place, Types, PcType, Actors
    <3> QED BY <2>1, <2>2, <2>3, <3>2, StepsAtOpen
  <2>4. CASE ~UNCHANGED <<ord, k>>
    <3>1. PICK o \in Orders :
              /\ ord[o].size = 0 /\ k' = [k EXCEPT !.o = o] /\ pc'["poll"] = "wait"
              /\ ord'[o].p = k.p /\ ord'[o].size = Size(k.p)
      BY <1>35, <2>4, PlaceEffect
    <3>2. k'.o = o /\ k'.p = k.p /\ k'.todo = k.todo /\ k'.lmap = k.lmap /\ k'.back = k.back
      BY <3>1, <1>t DEF Types, LocalType, Locals
    <3>3. Size(k.p) > 0 /\ o # 0
      BY <2>2, CopyAssumption DEF Size, Abs, Orders
    <3>4. row[o].st = "none"
      BY <3>1, <1>t DEF IInv, Orderly
    <3> QED BY <2>1, <2>2, <3>1, <3>2, <3>3, <3>4 DEF Steps, Poll, InFlight, Opened
  <2> QED BY <2>3, <2>4
<1>36. ASSUME WaitFilled PROVE Steps'
  <2>1. pc["poll"] = "wait" /\ pc'["poll"] = "insert" /\ UNCHANGED <<ord, row, pend>>
    BY <1>36, <1>t DEF WaitFilled, venueVars, pendVars, Types, PcType, Actors
  <2>2. k.o \in Orders /\ ord[k.o].size \in Int
    BY <2>1, <1>t, InHandTypes, OrderTypes, CopyAssumption
  <2>3. /\ k'.seen = ord[k.o].size /\ k'.o = k.o /\ k'.p = k.p /\ k'.todo = k.todo /\ k'.lmap = k.lmap /\ k'.back = k.back
    BY <1>36, <1>t DEF WaitFilled, Types, LocalType, Locals
  <2> QED BY <2>1, <2>2, <2>3, <1>t DEF Steps, Poll, InFlight, Opened
<1>37. ASSUME WaitOver PROVE Steps'
  <2>1. pc["poll"] = "wait" /\ pc'["poll"] = "readback" /\ UNCHANGED <<row, pend>>
    BY <1>37, <1>t DEF WaitOver, pendVars, Types, PcType, Actors
  <2>2. k.o \in Orders
    BY <2>1, InHandTypes
  <2>3. PICK acks \in CancelAcks(k.o) :
           /\ ord' = IF acks THEN Cancelled(k.o) ELSE ord
           /\ k' = [k EXCEPT !.q = [o |-> k.o, acked |-> acks, age |-> 0]]
    BY <1>37 DEF WaitOver
  <2>4. /\ k'.q = [o |-> k.o, acked |-> acks, age |-> 0] /\ k'.o = k.o /\ k'.p = k.p /\ k'.todo = k.todo
        /\ k'.lmap = k.lmap /\ k'.back = k.back
    BY <2>3, <1>t DEF Types, LocalType, Locals
  <2>5. k'.q.o = k.o /\ k'.q.acked = acks
    BY <2>4
  <2>6. UNCHANGED ord \/ ord' = Cancelled(k.o)
    BY <2>3
  <2>7. ord'[k.o].p = ord[k.o].p /\ ord'[k.o].size = ord[k.o].size
    BY <2>2, <2>6, <1>t, CancelEffect
  <2>8. acks => ~ord'[k.o].live
    BY <2>2, <2>3, <1>t, CancelEffect
  <2> QED BY <2>1, <2>2, <2>4, <2>5, <2>7, <2>8, <1>t DEF Steps, Poll, InFlight, Opened
<1>38. ASSUME ReadBack PROVE Steps'
  <2>1. pc["poll"] = "readback" /\ UNCHANGED <<ord, row, pend>>
    BY <1>38 DEF ReadBack, venueVars, pendVars
  <2>2. k.o \in Orders /\ ord[k.o].filled \in Int /\ ord[k.o].size \in Int /\ ord[k.o].filled <= ord[k.o].size
    BY <2>1, <1>t, InHandTypes, OrderTypes, CopyAssumption DEF IInv, Orderly
  <2>3. \/ \E s \in Shown(k.o) : s > 0 /\ pc' = [pc EXCEPT !["poll"] = "insert"] /\ k' = [k EXCEPT !.seen = s]
        \/ pc' = [pc EXCEPT !["poll"] = "open"] /\ k' = k
        \/ pc' = [pc EXCEPT !["poll"] = "register"] /\ k' = k
    BY <1>38 DEF ReadBack
  <2>4. ASSUME NEW s \in Shown(k.o), s > 0, pc' = [pc EXCEPT !["poll"] = "insert"], k' = [k EXCEPT !.seen = s]
        PROVE  Steps'
    <3>1. pc'["poll"] = "insert" /\ k'.seen = s /\ k'.o = k.o /\ k'.p = k.p /\ k'.todo = k.todo /\ k'.lmap = k.lmap /\ k'.back = k.back
      BY <2>4, <1>t DEF Types, PcType, Actors, LocalType, Locals
    <3>2. s \in 0..ord[k.o].filled
      BY <2>2, <1>t, ShownTypes
    <3> QED BY <2>1, <2>2, <2>4, <3>1, <3>2, <1>t DEF Steps, Poll, InFlight, Opened
  <2>5. CASE pc' = [pc EXCEPT !["poll"] = "open"] /\ k' = k
    <3>1. pc'["poll"] = "open"
      BY <2>5, <1>t DEF Types, PcType, Actors
    <3> QED BY <2>1, <2>5, <3>1, <1>t, StepsAtOpen DEF Steps, Poll, Opened
  <2>6. CASE pc' = [pc EXCEPT !["poll"] = "register"] /\ k' = k
    <3>1. pc'["poll"] = "register"
      BY <2>6, <1>t DEF Types, PcType, Actors
    <3> QED BY <2>1, <2>6, <3>1, <1>t DEF Steps, Poll, InFlight, Opened
  <2> QED BY <2>3, <2>4, <2>5, <2>6
<1>39. ASSUME InsertRow PROVE Steps'
  <2>1. pc["poll"] \in {"late", "insert"} /\ pc'["poll"] = "recheck" /\ UNCHANGED <<ord, k>>
    BY <1>39, <1>t DEF InsertRow, venueVars, Types, PcType, Actors
  <2>2. k.o \in Orders /\ row'[k.o].st = "open"
    BY <1>39, InsertEffect
  <2> QED BY <1>39, <2>1, <2>2, <1>t, CopyAssumption DEF InsertRow, Steps, Poll, InFlight, Opened, Orders
<1>40. ASSUME Recheck PROVE Steps'
  <2>1. pc["poll"] = "recheck" /\ pc'["poll"] \in {"unwind", "open"} /\ UNCHANGED <<ord, row, pend, k>>
    BY <1>40, <1>t DEF Recheck, venueVars, pendVars, Types, PcType, Actors
  <2> QED BY <2>1, <1>t DEF Steps, Poll, InFlight, Opened
<1>41. ASSUME _unwind_stop_raced_open PROVE Steps'
  <2>1. pc["poll"] = "unwind" /\ UNCHANGED <<ord, row, pend>>
    BY <1>41 DEF _unwind_stop_raced_open, venueVars, pendVars
  <2>2. \/ pc' = [pc EXCEPT !["poll"] = "book"] /\ k' = [k EXCEPT !.cut = 0]
        \/ pc' = [pc EXCEPT !["poll"] = "open"] /\ k' = k
    BY <1>41 DEF _unwind_stop_raced_open
  <2>3. CASE pc' = [pc EXCEPT !["poll"] = "book"] /\ k' = [k EXCEPT !.cut = 0]
    <3>1. pc'["poll"] = "book" /\ k'.cut = 0 /\ k'.o = k.o /\ k'.todo = k.todo /\ k'.lmap = k.lmap /\ k'.back = k.back
      BY <2>3, <1>t DEF Types, PcType, Actors, LocalType, Locals
    <3>2. row[k.o].size \in Nat
      BY <2>1, <1>t, InHandTypes, OrderTypes, CopyAssumption
    <3> QED BY <2>1, <3>1, <3>2, <1>t, CopyAssumption DEF Steps, Poll, InFlight, Opened
  <2>4. CASE pc' = [pc EXCEPT !["poll"] = "open"] /\ k' = k
    <3>1. pc'["poll"] = "open"
      BY <2>4, <1>t DEF Types, PcType, Actors
    <3> QED BY <2>1, <2>4, <3>1, <1>t, StepsAtOpen DEF Steps, Poll, Opened
  <2> QED BY <2>2, <2>3, <2>4
<1>42. ASSUME _register_pending_maker_open PROVE Steps'
  <2>1. pc["poll"] = "register" /\ pc'["poll"] = "rearm_pending" /\ UNCHANGED k
    BY <1>42, <1>t DEF _register_pending_maker_open, Types, PcType, Actors
  <2> QED BY <2>1, <1>t DEF Steps, Poll, InFlight, Opened
<1>43. ASSUME RearmPending PROVE Steps'
  <2>1. pc'["poll"] = "open" /\ pc["poll"] # "book"
    BY <1>43, <1>t DEF RearmPending, Opening, Types, PcType, Actors
  <2>2. k'.back = k.back /\ k'.lmap = k.lmap /\ (k'.todo \subseteq k.todo \/ k'.todo = {p \in Products : k.lmap[p] # 0})
    BY <1>43, <1>t DEF RearmPending, Without, Types, LocalType, Locals
  <2>3. k.back = "open" /\ (pc["poll"] # "close" => \A p \in k.todo : k.lmap[p] # 0)
    BY <1>43, <2>1, <1>t DEF RearmPending, Opening, Steps, Poll, Opened
  <2>4. pc["poll"] = "close" => k'.todo = {p \in Products : k.lmap[p] # 0}
    BY <1>43, <1>t DEF RearmPending, Opening, Types, LocalType, Locals
  <2> QED BY <2>1, <2>2, <2>3, <2>4, StepsAtOpen
<1>44. ASSUME SyncDone PROVE Steps'
  <2>1. pc'["poll"] \in {"idle", "leader", "resolve", "venue", "flatten"} /\ pc["poll"] # "book"
    BY <1>44, <1>t DEF SyncDone, Types, PcType, Actors
  <2>2. k'.back = k.back \/ k'.back = K0.back
    BY <1>44, <1>t DEF SyncDone, Types, LocalType, Locals, K0
  <2> QED BY <2>1, <2>2, <1>t, StepsAtHome DEF Steps, Poll, K0
<1> QED BY <1>1, <1>2, <1>3, <1>4, <1>5, <1>6, <1>7, <1>8, <1>9, <1>10, <1>11, <1>12, <1>13, <1>14, <1>15, <1>16, <1>17, <1>18, <1>19, <1>20, <1>21, <1>22, <1>23, <1>24, <1>25, <1>26, <1>27, <1>28, <1>29, <1>30, <1>31, <1>32, <1>33, <1>34, <1>35, <1>36, <1>37, <1>38, <1>39, <1>40, <1>41, <1>42, <1>43, <1>44 DEF Next, World, PollStep, UserStep, FlattenStep, Actors

-----------------------------------------------------------------------------
(* Account: what keeps each of its parts.                                    *)

\* No more is held of x, and its side is the same.
Nearer(x) ==
    \/ 0 <= held'[x] /\ held'[x] <= held[x]
    \/ held[x] <= held'[x] /\ held'[x] <= 0
\* Orders are whose they were, filled as they were, and none rests that did not.
SameOrders ==
    \A o \in Orders : /\ ord'[o].p = ord[o].p /\ ord'[o].d = ord[o].d /\ ord'[o].filled = ord[o].filled
                      /\ ord'[o].live => ord[o].live
\* Rows do not open and do not grow.
OnlyCloses ==
    \A o \in Orders : row'[o].size <= row[o].size /\ (row'[o].st = "open" => row[o].st = "open")
\* Rows are open or closed as they were, at their sizes.
SameSizes == \A o \in Orders : row'[o].st = row[o].st /\ row'[o].size = row[o].size
\* A flatten is where it was, or has booked its close, or is over.
FlattensStay ==
    \A t \in Actors : \/ fl'[t] = fl[t] /\ (pc'[t] = pc[t] \/ (pc[t] = "flat_book" /\ pc'[t] = "flatten"))
                      \/ pc'[t] \notin {"flatten", "flat_book"}

\* A cancel leaves whose order it is and what it filled.
LEMMA SameOrdersOf == ASSUME Types, NEW o, UNCHANGED ord \/ ord' = Cancelled(o) PROVE SameOrders
<1>1. CASE UNCHANGED ord
  BY <1>1 DEF SameOrders
<1>2. CASE ord' = Cancelled(o)
  BY <1>2 DEF SameOrders, Cancelled, Types, OrdType, OrderRec
<1> QED BY <1>1, <1>2

LEMMA SizesSame == ASSUME Types, SameSizes PROVE OnlyCloses
BY OrderTypes, CopyAssumption DEF OnlyCloses, SameSizes

LEMMA RowsSame == ASSUME Types, UNCHANGED row PROVE OnlyCloses /\ SameSizes
BY SizesSame DEF SameSizes

LEMMA NearerSame == ASSUME Types, NEW x \in Products, held'[x] = held[x] PROVE Nearer(x)
<1>1. held[x] \in Int
  BY DEF Types, HoldType
<1> QED BY <1>1 DEF Nearer

LEMMA NearerOf == ASSUME Types, NEW x \in Products, UNCHANGED held \/ Shrinks PROVE Nearer(x)
<1>1. CASE UNCHANGED held
  BY <1>1, NearerSame
<1>2. CASE Shrinks
  BY <1>2 DEF Shrinks, Nearer
<1> QED BY <1>1, <1>2

LEMMA TowardInt == ASSUME Types, NEW o \in Orders PROVE Toward(o) \in Int /\ held[ord[o].p] \in Int
BY OrderTypes DEF Toward, Along, Types, HoldType, Sides

\* What is held toward a row shrinks with what is held.
LEMMA TowardNearer ==
  ASSUME Types, Types', NEW o \in Orders, ord'[o].p = ord[o].p, ord'[o].d = ord[o].d, Nearer(ord[o].p)
  PROVE  /\ Toward(o) \in Int /\ Toward(o)' \in Int
         /\ Toward(o) >= 0 => 0 <= Toward(o)' /\ Toward(o)' <= Toward(o)
         /\ Toward(o) <= 0 => Toward(o)' <= 0
<1>1. ord[o].p \in Products /\ ord[o].d \in {-1, 1}
  BY OrderTypes DEF Sides
<1>2. held[ord[o].p] \in Int /\ held'[ord[o].p] \in Int
  BY <1>1 DEF Types, HoldType
<1>3. CASE ord[o].d = 1
  <2>1. Toward(o) = held[ord[o].p] /\ Toward(o)' = held'[ord[o].p]
    BY <1>3 DEF Toward, Along
  <2> QED BY <1>2, <2>1 DEF Nearer
<1>4. CASE ord[o].d = -1
  <2>1. Toward(o) = -held[ord[o].p] /\ Toward(o)' = -held'[ord[o].p]
    BY <1>4 DEF Toward, Along
  <2> QED BY <1>2, <2>1 DEF Nearer
<1> QED BY <1>1, <1>3, <1>4

LEMMA OwedInt ==
  ASSUME IInv, NEW o \in Orders
  PROVE  Bound(o) \in Nat /\ Owed(o) \in Nat
<1>1. Types /\ Steps
  BY DEF IInv
<1>2. Bound(o) \in Nat
  BY <1>1, LocalTypes DEF Bound, Growing, Steps, Poll
<1>3. row[o].size \in Nat /\ ord[o].filled \in Nat
  BY <1>1, OrderTypes, CopyAssumption
<1> QED BY <1>2, <1>3 DEF Owed

\* The owners of x and what they owe are the same, and no more is held.
LEMMA HoldsKept ==
  ASSUME IInv, Types', NEW x \in Products, Holds(x), SameOrders, Nearer(x),
         \A o \in Orders : ord[o].p = x => (Owns(o)' <=> Owns(o)),
         \A o \in Orders : ord[o].p = x /\ Owns(o) => Owed(o)' = Owed(o)
  PROVE  Holds(x)' /\ Owners(x)' = Owners(x)
<1>t. Types
  BY DEF IInv
<1>1. Owners(x)' = Owners(x)
  BY DEF Owners, SameOrders
<1>2. OneOwner(x)'
  BY <1>1 DEF Holds, OneOwner
<1>3. FlatUnowned(x)'
  <2>1. held[x] \in Int /\ held'[x] \in Int
    BY <1>t DEF Types, HoldType
  <2> QED BY <1>1, <2>1 DEF Holds, FlatUnowned, Nearer
<1>4. OwnedHeld(x)'
  <2> SUFFICES ASSUME NEW o \in Owners(x) PROVE Toward(o)' \in 0..Owed(o)'
    BY <1>1 DEF OwnedHeld
  <2>1. o \in Orders /\ ord[o].p = x /\ Owns(o)
    BY DEF Owners
  <2>2. Toward(o) \in 0..Owed(o)
    BY DEF Holds, OwnedHeld
  <2>3. Owed(o) \in Nat /\ Owed(o)' = Owed(o)
    BY <2>1, OwedInt
  <2> QED BY <1>t, <2>1, <2>2, <2>3, TowardNearer DEF SameOrders
<1> QED BY <1>1, <1>2, <1>3, <1>4 DEF Holds

\* Nobody's claim on x moved: the rows, the pending entry and the order in hand are the same.
LEMMA HoldsCalm ==
  ASSUME IInv, Types', NEW x \in Products, Holds(x), SameOrders, Nearer(x), SameSizes, pend'[x].o = pend[x].o,
         Hand' = Hand, Growing' = Growing, Growing = {} \/ k'.seen = k.seen
  PROVE  Holds(x)' /\ Owners(x)' = Owners(x)
<1>1. \A o \in Orders : ord[o].p = x => (Owns(o)' <=> Owns(o))
  BY DEF Owns, SameOrders, SameSizes
<1>2. \A o \in Orders : ord[o].p = x /\ Owns(o) => Owed(o)' = Owed(o)
  BY DEF Owed, Bound, SameOrders, SameSizes
<1> QED BY <1>1, <1>2, HoldsKept

\* The poller stays where it is, and x has no new owner.
LEMMA OpensKept ==
  ASSUME IInv, NEW x \in Products, Opens(x), SameOrders, Owners(x)' \subseteq Owners(x), pend'[x].o = pend[x].o,
         pc'["poll"] = pc["poll"], k' = k
  PROVE  Opens(x)'
<1>1. Poll({"insert", "late"}) => k.o \in Orders
  BY InHandTypes DEF Poll
<1>2. LiveOwned(x)'
  BY DEF Opens, LiveOwned, SameOrders, Poll
<1>3. SeenAll(x)'
  BY <1>1 DEF Opens, SeenAll, SameOrders, Poll
<1>4. OpensBare(x)' /\ AddsToRow(x)'
  BY DEF Opens, OpensBare, AddsToRow, Poll
<1> QED BY <1>2, <1>3, <1>4 DEF Opens

\* The poller leaves for a place where it opens nothing.
LEMMA OpensAway ==
  ASSUME IInv, NEW x \in Products, Opens(x), SameOrders, pend'[x].o = pend[x].o,
         pc["poll"] \notin {"wait", "readback", "register"},
         pc'["poll"] \notin {"insert", "late", "check", "place", "add"}
  PROVE  Opens(x)'
<1>2. LiveOwned(x)'
  BY DEF Opens, LiveOwned, SameOrders, Poll
<1> QED BY <1>2 DEF Opens, SeenAll, OpensBare, AddsToRow, Poll

\* The poller stays where it is, and rows only close.
LEMMA BooksKept ==
  ASSUME IInv, Types', NEW x \in Products, Books(x), SameOrders, Nearer(x), OnlyCloses,
         pc'["poll"] = pc["poll"], k' = k
  PROVE  Books(x)'
<1>t. Types /\ Steps
  BY DEF IInv
<1>1. RowsKnown(x)'
  BY DEF Books, RowsKnown, Unseen, Poll, SameOrders, OnlyCloses
<1>2. BookedLeft(x)'
  <2> SUFFICES ASSUME Poll({"book"}), ord'[k.o].p = x, row'[k.o].st = "open" PROVE Toward(k.o)' <= k.cut
    BY DEF BookedLeft, Poll, Toward
  <2>1. k.o \in Orders
    BY InHandTypes DEF Poll
  <2>2. Toward(k.o) <= k.cut /\ ord[k.o].p = x
    BY <2>1 DEF Books, BookedLeft, OnlyCloses, SameOrders
  <2>3. k.cut \in Nat
    BY <1>t, <2>1, OrderTypes, CopyAssumption DEF Steps
  <2> QED BY <1>t, <2>1, <2>2, <2>3, TowardNearer DEF SameOrders
<1>3. UnwindsAll(x)'
  <2> SUFFICES ASSUME Poll({"recheck", "unwind"}), k.p = x PROVE row'[k.o].size <= k.seen
    BY DEF UnwindsAll, Poll
  <2>1. k.o \in Orders
    BY InHandTypes DEF Poll
  <2>2. row[k.o].size <= k.seen
    BY DEF Books, UnwindsAll
  <2>3. row'[k.o].size <= row[k.o].size
    BY <2>1 DEF OnlyCloses
  <2>4. row[k.o].size \in Int /\ row'[k.o].size \in Int /\ k.seen \in Int
    BY <1>t, <2>1, OrderTypes, LocalTypes, CopyAssumption DEF Types, RowType, RowRec
  <2> QED BY <2>2, <2>3, <2>4
<1>4. SweptLeft(x)'
  <2> DEFINE o == k.rows[x]
  <2> SUFFICES ASSUME Poll({"sweep"}), x \in k.todo, row'[o].st = "open"
               PROVE  Toward(o)' <= IF k.vmap[x] * ord'[o].d > 0 THEN Abs(k.vmap[x]) ELSE 0
    BY DEF SweptLeft, Poll, Toward
  <2>1. o \in Orders
    BY InHandTypes DEF Poll
  <2>2. ord[o].p = x /\ ord'[o].d = ord[o].d /\ ord'[o].p = ord[o].p
    BY <1>t, <2>1, CopyAssumption DEF IInv, Names, Orders, SameOrders
  <2> DEFINE v == IF k.vmap[x] * ord[o].d > 0 THEN Abs(k.vmap[x]) ELSE 0
  <2>3. Toward(o) <= v
    BY <2>1 DEF Books, SweptLeft, OnlyCloses
  <2>4. v \in Nat
    BY <1>t, LocalTypes, AbsLeast
  <2> HIDE DEF v
  <2>5. Toward(o)' <= v
    BY <1>t, <2>1, <2>2, <2>3, <2>4, TowardNearer
  <2> QED BY <2>2, <2>5 DEF v
<1> QED BY <1>1, <1>2, <1>3, <1>4 DEF Books

\* The poller is where it has read no rows yet.
LEMMA BooksAtHome ==
  ASSUME NEW x, pc'["poll"] \notin {"venue", "sweep", "close", "open", "book"} \cup Opened
  PROVE  Books(x)'
BY DEF Books, RowsKnown, BookedLeft, UnwindsAll, SweptLeft, Unseen, Poll, Opened

\* The poller moves on between places where it has no close to book.
LEMMA BooksAtOpen ==
  ASSUME IInv, NEW x \in Products, Books(x), SameOrders, OnlyCloses, pc["poll"] # "book",
         pc'["poll"] \in {"open", "close", "venue"} \cup (Opened \ {"recheck", "unwind"}),
         x \in Unseen' => x \in Unseen /\ k'.rows[x] = k.rows[x]
  PROVE  Books(x)'
<1>1. RowsKnown(x)'
  BY DEF Books, RowsKnown, Poll, SameOrders, OnlyCloses
<1>2. BookedLeft(x)' /\ UnwindsAll(x)' /\ SweptLeft(x)'
  BY DEF BookedLeft, UnwindsAll, SweptLeft, Poll, Opened
<1> QED BY <1>1, <1>2 DEF Books

\* Flattens go on, and rows only close.
LEMMA EndsKept ==
  ASSUME IInv, Types', NEW x \in Products, Ends(x), SameOrders, Nearer(x), OnlyCloses, FlattensStay,
         Growing' = Growing, Growing = {} \/ k'.seen = k.seen
  PROVE  Ends(x)'
<1>t. Types
  BY DEF IInv
<1>1. FlattensAll(x)'
  <2> SUFFICES ASSUME NEW t \in Actors, pc'[t] \in {"flatten", "flat_book"}, NEW c \in fl'[t].todo,
                      ord'[c[1]].p = x, row'[c[1]].st = "open"
               PROVE  row'[c[1]].size <= c[2]
    BY DEF FlattensAll
  <2>1. fl'[t] = fl[t] /\ pc[t] \in {"flatten", "flat_book"}
    BY DEF FlattensStay
  <2>2. c[1] \in Orders /\ c[2] \in 1..MaxLots
    BY <2>1, InHandTypes
  <2>3. row[c[1]].size <= c[2] /\ row'[c[1]].size <= row[c[1]].size
    BY <2>1, <2>2 DEF Ends, FlattensAll, OnlyCloses, SameOrders
  <2>4. row[c[1]].size \in Int /\ row'[c[1]].size \in Int
    BY <1>t, <2>2, OrderTypes, CopyAssumption DEF Types, RowType, RowRec
  <2> QED BY <2>2, <2>3, <2>4, CopyAssumption
<1>2. FlatBooked(x)'
  <2>0. ASSUME NEW t \in Actors, pc'[t] = "flat_book", NEW o, o = fl'[t].o, ord'[o].p = x, row'[o].st = "open"
        PROVE  Toward(o)' <= Bound(o)'
    <3>1. fl'[t] = fl[t] /\ pc'[t] = pc[t]
      BY <2>0 DEF FlattensStay
    <3>2. o \in Orders /\ o = fl[t].o
      BY <2>0, <3>1, InHandTypes
    <3>3. Toward(o) <= Bound(o) /\ ord[o].p = x
      BY <2>0, <3>1, <3>2 DEF Ends, FlatBooked, OnlyCloses, SameOrders
    <3>4. Bound(o) \in Nat
      BY <3>2, OwedInt
    <3>5. Bound(o)' = Bound(o)
      BY DEF Bound
    <3> QED BY <1>t, <3>2, <3>3, <3>4, <3>5, TowardNearer DEF SameOrders
  <2> QED BY <2>0 DEF FlatBooked, Toward, Bound
<1> QED BY <1>1, <1>2 DEF Ends

\* The mirror runs, or no row leaves the hand of the poller.
LEMMA StoppedKept ==
  ASSUME NEW x, StoppedClosed(x), SameOrders, OnlyCloses, mirror'.active \/ (~mirror.active /\ InHand \subseteq InHand')
  PROVE  StoppedClosed(x)'
BY DEF StoppedClosed, SameOrders, OnlyCloses

\* A flatten begins with every open row, at its size.
LEMMA EndsBegin ==
  ASSUME IInv, Types', NEW x \in Products, Ends(x), NEW t \in Actors, BeginFlatten(t), UNCHANGED <<ord, row>>, Nearer(x),
         pc'[t] = "flatten", \A s \in Actors : s # t => pc'[s] = pc[s],
         Growing' = Growing, Growing = {} \/ k'.seen = k.seen
  PROVE  Ends(x)'
<1>t. Types
  BY DEF IInv
<1> DEFINE T == {<<o, row[o].size>> : o \in OpenRows}
           E == Pending # {}
<1>1. fl \in [Actors -> FlatRec]
  BY <1>t DEF Types, FlatType
<1>2. \A c \in T : row[c[1]].size <= c[2]
  <2>1. ASSUME NEW o \in OpenRows PROVE row[o].size <= row[o].size
    BY <1>t, OrderTypes, CopyAssumption DEF OpenRows
  <2> QED BY <2>1
<1>3. fl' = [fl EXCEPT ![t] = [todo |-> T, errs |-> E, o |-> 0]]
  BY DEF BeginFlatten
<1> HIDE DEF T, E
<1>4. fl'[t].todo = T /\ \A s \in Actors : s # t => fl'[s] = fl[s]
  BY <1>1, <1>3
<1>5. FlattensAll(x)'
  BY <1>2, <1>4 DEF Ends, FlattensAll
<1>6. FlatBooked(x)'
  <2>0. ASSUME NEW s \in Actors, pc'[s] = "flat_book", NEW o, o = fl'[s].o, ord[o].p = x, row[o].st = "open"
        PROVE  Toward(o)' <= Bound(o)'
    <3>1. fl'[s] = fl[s] /\ pc'[s] = pc[s]
      BY <2>0, <1>4
    <3>2. o \in Orders /\ o = fl[s].o
      BY <2>0, <3>1, InHandTypes
    <3>3. Toward(o) <= Bound(o)
      BY <2>0, <3>1, <3>2 DEF Ends, FlatBooked
    <3>4. Bound(o) \in Nat
      BY <3>2, OwedInt
    <3>5. Bound(o)' = Bound(o)
      BY DEF Bound
    <3> QED BY <1>t, <2>0, <3>2, <3>3, <3>4, <3>5, TowardNearer
  <2> QED BY <2>0 DEF FlatBooked, Toward, Bound
<1> QED BY <1>5, <1>6 DEF Ends

\* A step that is not the poller's and leaves the rows and the pending entry of x alone.
LEMMA AccountStill ==
  ASSUME IInv, Types', NEW x \in Products \ lost, SameOrders, Nearer(x), SameSizes, pend'[x].o = pend[x].o,
         pc'["poll"] = pc["poll"], k' = k, Ends(x)', StoppedClosed(x)'
  PROVE  Account(x)'
<1>1. Account(x) /\ Types
  BY DEF IInv
<1>2. Hand' = Hand /\ Growing' = Growing
  BY DEF Hand, Growing, Poll
<1>3. OnlyCloses
  BY <1>1, SizesSame
<1>4. Holds(x)' /\ Owners(x)' = Owners(x)
  BY <1>1, <1>2, HoldsCalm DEF Account
<1>5. Opens(x)'
  BY <1>1, <1>4, OpensKept DEF Account
<1>6. Books(x)'
  BY <1>1, <1>3, BooksKept DEF Account
<1> QED BY <1>4, <1>5, <1>6 DEF Account

\* A step of the poller between places where it has no order in hand.
LEMMA AccountMoves ==
  ASSUME IInv, Types', NEW x \in Products \ lost, SameOrders, Nearer(x), SameSizes, pend'[x].o = pend[x].o,
         pc["poll"] \notin InFlight \cup {"grow"}, pc'["poll"] \notin InFlight \cup {"grow", "check", "place", "add"},
         Books(x)', Ends(x)', StoppedClosed(x)'
  PROVE  Account(x)'
<1>1. Account(x)
  BY DEF IInv
<1>2. Hand = {} /\ Hand' = {} /\ Growing = {} /\ Growing' = {}
  BY DEF Hand, Growing, Poll, InFlight
<1>4. Holds(x)' /\ Owners(x)' = Owners(x)
  BY <1>1, <1>2, HoldsCalm DEF Account
<1>5. Opens(x)'
  BY <1>1, OpensAway DEF Account, InFlight
<1> QED BY <1>4, <1>5 DEF Account

LEMMA AccountShifts ==
  ASSUME IInv, Types', NEW x \in Products \ lost, SameOrders, Nearer(x), SameSizes, pend'[x].o = pend[x].o,
         Hand' = Hand, Growing' = Growing, Growing = {}, Opens(x)', Books(x)', Ends(x)', StoppedClosed(x)'
  PROVE  Account(x)'
<1>1. Account(x)
  BY DEF IInv
<1>2. Holds(x)'
  BY <1>1, HoldsCalm DEF Account
<1> QED BY <1>2 DEF Account

LEMMA NewestOpen ==
  ASSUME IInv, NEW o \in Orders, row[o].st = "open"
  PROVE  LET p == ord[o].p IN Newest(p) \in Orders /\ ord[Newest(p)].p = p /\ row[Newest(p)].st = "open"
<1> DEFINE p == ord[o].p
           rs == {q \in OpenRows : ord[q].p = p}
<1>1. o \in rs /\ rs \subseteq Orders /\ \A q \in rs : ord[q].p = p /\ row[q].st = "open"
  BY DEF OpenRows
<1>2. Newest(p) = Max(rs)
  BY <1>1 DEF Newest
<1> HIDE DEF rs
<1> QED BY <1>1, <1>2, MaxOrder, CopyAssumption

\* An open row, an order in hand and a pending order of one product are one order.
LEMMA OneClaim ==
  ASSUME IInv, NEW x \in Products \ lost
  PROVE  \A o, q \in Orders : ord[o].p = x /\ Owns(o) /\ ord[q].p = x /\ Owns(q) => o = q
BY DEF IInv, Account, Holds, OneOwner, Owners

\* Booking what is left of a row, when no more than that is held for it.
LEMMA HoldsBooked ==
  ASSUME IInv, Types', NEW x \in Products \ lost, SameOrders, Nearer(x), held'[x] = held[x], pend'[x].o = pend[x].o,
         Hand' = Hand, Growing' = Growing, Growing = {} \/ k'.seen = k.seen,
         NEW r \in Orders, NEW left \in 0..MaxLots, NEW base \in 0..MaxLots, row' = Booked(r, left, base),
         row[r].st = "open" => left <= row[r].size,
         ord[r].p = x /\ row[r].st = "open" => Toward(r) <= left + Bound(r)
  PROVE  Holds(x)' /\ Owners(x)' \subseteq Owners(x) /\ OnlyCloses
<1>t. Types /\ Holds(x) /\ Orderly
  BY DEF IInv, Account
<1>b. /\ \A q \in Orders : q # r => row'[q] = row[q]
      /\ row[r].st # "open" => row'[r] = row[r]
      /\ row[r].st = "open" /\ left = 0 => row'[r].st = "closed" /\ row'[r].size = row[r].size
      /\ row[r].st = "open" /\ left # 0 => row'[r].st = "open" /\ row'[r].size = left
  BY <1>t, BookedEffect
<1>1. OnlyCloses
  <2>1. \A q \in Orders : row[q].size \in Nat
    BY <1>t, OrderTypes, CopyAssumption
  <2> QED BY <1>b, <2>1, CopyAssumption DEF OnlyCloses
<1>2. Owners(x)' \subseteq Owners(x)
  BY <1>1 DEF Owners, Owns, OnlyCloses, SameOrders
<1>3. CASE row[r].st # "open" \/ ord[r].p # x
  <2>1. \A o \in Orders : ord[o].p = x => row'[o] = row[o]
    BY <1>b, <1>3
  <2>2. \A o \in Orders : ord[o].p = x => (Owns(o)' <=> Owns(o))
    BY <2>1 DEF Owns, SameOrders
  <2>3. \A o \in Orders : ord[o].p = x /\ Owns(o) => Owed(o)' = Owed(o)
    BY <2>1 DEF Owed, Bound, SameOrders
  <2> QED BY <1>1, <1>2, <1>t, <2>2, <2>3, HoldsKept
<1>4. CASE row[r].st = "open" /\ ord[r].p = x
  <2>1. r \in Owners(x) /\ \A o \in Owners(x) : o = r
    BY <1>4, <1>t DEF Holds, OneOwner, Owners, Owns
  <2>2. Toward(r) \in 0..Owed(r) /\ Toward(r) <= left + Bound(r)
    BY <1>4, <1>t, <2>1 DEF Holds, OwnedHeld
  <2>3. Toward(r)' = Toward(r) /\ Toward(r) \in Int /\ held[x] \in Int /\ (Toward(r) = 0 <=> held[x] = 0)
    BY <1>4, <1>t, OrderTypes DEF Toward, Along, SameOrders, Types, HoldType, Sides
  <2>4. Bound(r)' = Bound(r) /\ Bound(r) \in Nat
    BY OwedInt DEF Bound
  <2>5. OneOwner(x)'
    BY <1>2, <2>1 DEF OneOwner
  <2>6. CASE left # 0
    <3>1. row'[r].st = "open" /\ row'[r].size = left
      BY <1>b, <1>4, <2>6
    <3>2. r \in Owners(x)' /\ Owed(r)' = left + Bound(r)
      BY <1>4, <2>4, <3>1 DEF Owners, Owns, Owed, SameOrders
    <3>3. FlatUnowned(x)'
      BY <3>2 DEF FlatUnowned
    <3>4. OwnedHeld(x)'
      <4>1. Toward(r)' \in 0..Owed(r)'
        BY <2>2, <2>3, <2>4, <3>2, CopyAssumption
      <4> QED BY <1>2, <2>1, <4>1 DEF OwnedHeld
    <3> QED BY <1>1, <1>2, <2>5, <3>3, <3>4 DEF Holds
  <2>7. CASE left = 0
    <3>1. row'[r].st = "closed"
      BY <1>b, <1>4, <2>7
    <3>2. Owed(r)' = Bound(r)
      BY <2>4, <3>1 DEF Owed
    <3>3. Toward(r)' \in 0..Owed(r)'
      BY <2>2, <2>3, <2>4, <2>7, <3>2
    <3>4. OwnedHeld(x)'
      BY <1>2, <2>1, <3>3 DEF OwnedHeld
    <3>5. FlatUnowned(x)'
      <4> SUFFICES ASSUME Owners(x)' = {} PROVE held'[x] = 0
        BY DEF FlatUnowned
      <4>1. ~(r \in Growing)
        BY <1>4 DEF Owners, Owns, SameOrders
      <4>2. Bound(r) = 0
        BY <4>1 DEF Bound
      <4> QED BY <2>2, <2>3, <2>7, <4>2
    <3> QED BY <1>1, <1>2, <2>5, <3>4, <3>5 DEF Holds
  <2> QED BY <2>6, <2>7
<1> QED BY <1>3, <1>4

-----------------------------------------------------------------------------
(* Account: the world, the user, and the steps that only move the poller.    *)

LEMMA LeaderMoveAccount ==
  ASSUME IInv, Types', NEW p \in Products, LeaderMove(p), NEW x \in Products \ lost'
  PROVE  Account(x)'
<1> USE DEF Goto, PollGoto, Kept, Return, Upset, Spend
<1>t. Types /\ x \in Products \ lost /\ x \in Products
  BY DEF IInv, LeaderMove
<1>a. Account(x) /\ Holds(x) /\ Opens(x) /\ Books(x) /\ Ends(x) /\ StoppedClosed(x)
  BY <1>t DEF IInv, Account
<1>1. UNCHANGED <<ord, row>> /\ pend'[x].o = pend[x].o /\ pc'["poll"] = pc["poll"] /\ k' = k
  BY <1>t DEF LeaderMove, venueVars, pendVars, Types, PcType, Actors
<1>2. SameOrders /\ OnlyCloses /\ SameSizes /\ Growing' = Growing /\ InHand' = InHand
  BY <1>1, <1>t, SameOrdersOf, RowsSame DEF Growing, InHand, Poll
<1>3. Nearer(x)
  BY <1>t, NearerOf DEF LeaderMove, venueVars
<1>4. Ends(x)'
  <2>1. FlattensStay
    BY <1>t DEF LeaderMove, FlattensStay, Types, PcType, FlatType, Actors
  <2> QED BY <1>1, <1>2, <1>3, <1>a, <1>t, <2>1, EndsKept
<1>5. StoppedClosed(x)'
  BY <1>a, <1>2, StoppedKept DEF LeaderMove
<1> QED BY <1>t, <1>1, <1>2, <1>3, <1>4, <1>5, AccountStill

LEMMA pause_copyAccount ==
  ASSUME IInv, Types', pause_copy, NEW x \in Products \ lost'
  PROVE  Account(x)'
<1> USE DEF Goto, PollGoto, Kept, Return, Upset, Spend
<1>t. Types /\ x \in Products \ lost /\ x \in Products
  BY DEF IInv, pause_copy
<1>a. Account(x) /\ Holds(x) /\ Opens(x) /\ Books(x) /\ Ends(x) /\ StoppedClosed(x)
  BY <1>t DEF IInv, Account
<1>1. UNCHANGED <<ord, row>> /\ pend'[x].o = pend[x].o /\ pc'["poll"] = pc["poll"] /\ k' = k
  BY <1>t DEF pause_copy, venueVars, pendVars, Types, PcType, Actors
<1>2. SameOrders /\ OnlyCloses /\ SameSizes /\ Growing' = Growing /\ InHand' = InHand
  BY <1>1, <1>t, SameOrdersOf, RowsSame DEF Growing, InHand, Poll
<1>3. Nearer(x)
  BY <1>t, NearerOf DEF pause_copy, venueVars
<1>4. Ends(x)'
  <2>1. FlattensStay
    BY <1>t DEF pause_copy, FlattensStay, Types, PcType, FlatType, Actors
  <2> QED BY <1>1, <1>2, <1>3, <1>a, <1>t, <2>1, EndsKept
<1>5. StoppedClosed(x)'
  <2>1. mirror'.active \/ ~mirror.active
    BY <1>t DEF pause_copy, Types, MirrorType
  <2> QED BY <1>a, <1>2, <2>1, StoppedKept
<1> QED BY <1>t, <1>1, <1>2, <1>3, <1>4, <1>5, AccountStill

LEMMA resume_copyAccount ==
  ASSUME IInv, Types', resume_copy, NEW x \in Products \ lost'
  PROVE  Account(x)'
<1> USE DEF Goto, PollGoto, Kept, Return, Upset, Spend
<1>t. Types /\ x \in Products \ lost /\ x \in Products
  BY DEF IInv, resume_copy
<1>a. Account(x) /\ Holds(x) /\ Opens(x) /\ Books(x) /\ Ends(x) /\ StoppedClosed(x)
  BY <1>t DEF IInv, Account
<1>1. UNCHANGED <<ord, row>> /\ pend'[x].o = pend[x].o /\ pc'["poll"] = pc["poll"] /\ k' = k
  BY <1>t DEF resume_copy, venueVars, pendVars, Types, PcType, Actors
<1>2. SameOrders /\ OnlyCloses /\ SameSizes /\ Growing' = Growing /\ InHand' = InHand
  BY <1>1, <1>t, SameOrdersOf, RowsSame DEF Growing, InHand, Poll
<1>3. Nearer(x)
  BY <1>t, NearerOf DEF resume_copy, venueVars
<1>4. Ends(x)'
  <2>1. FlattensStay
    BY <1>t DEF resume_copy, FlattensStay, Types, PcType, FlatType, Actors
  <2> QED BY <1>1, <1>2, <1>3, <1>a, <1>t, <2>1, EndsKept
<1>5. StoppedClosed(x)'
  <2>1. mirror'.active \/ ~mirror.active
    BY <1>t DEF resume_copy, Types, MirrorType
  <2> QED BY <1>a, <1>2, <2>1, StoppedKept
<1> QED BY <1>t, <1>1, <1>2, <1>3, <1>4, <1>5, AccountStill

LEMMA ExternalCloseAccount ==
  ASSUME IInv, Types', NEW p \in Products, ExternalClose(p), NEW x \in Products \ lost'
  PROVE  Account(x)'
<1> USE DEF Goto, PollGoto, Kept, Return, Upset, Spend
<1>t. Types /\ x \in Products \ lost /\ x \in Products
  BY DEF IInv, ExternalClose
<1>a. Account(x) /\ Holds(x) /\ Opens(x) /\ Books(x) /\ Ends(x) /\ StoppedClosed(x)
  BY <1>t DEF IInv, Account
<1>1. UNCHANGED <<ord, row>> /\ pend'[x].o = pend[x].o /\ pc'["poll"] = pc["poll"] /\ k' = k
  BY <1>t DEF ExternalClose, venueVars, pendVars, Types, PcType, Actors
<1>2. SameOrders /\ OnlyCloses /\ SameSizes /\ Growing' = Growing /\ InHand' = InHand
  BY <1>1, <1>t, SameOrdersOf, RowsSame DEF Growing, InHand, Poll
<1>3. Nearer(x)
  BY <1>t, ExternalShrinks, NearerOf
<1>4. Ends(x)'
  <2>1. FlattensStay
    BY <1>t DEF ExternalClose, FlattensStay, Types, PcType, FlatType, Actors
  <2> QED BY <1>1, <1>2, <1>3, <1>a, <1>t, <2>1, EndsKept
<1>5. StoppedClosed(x)'
  BY <1>a, <1>2, StoppedKept DEF ExternalClose
<1> QED BY <1>t, <1>1, <1>2, <1>3, <1>4, <1>5, AccountStill

LEMMA start_copyAccount ==
  ASSUME IInv, Types', start_copy, NEW x \in Products \ lost'
  PROVE  Account(x)'
<1> USE DEF Goto, PollGoto, Kept, Return, Upset, Spend
<1>t. Types /\ x \in Products \ lost /\ x \in Products
  BY DEF IInv, start_copy
<1>a. Account(x) /\ Holds(x) /\ Opens(x) /\ Books(x) /\ Ends(x) /\ StoppedClosed(x)
  BY <1>t DEF IInv, Account
<1>1. UNCHANGED <<ord, row>> /\ pend'[x].o = pend[x].o /\ pc'["poll"] = pc["poll"] /\ k' = k
  BY <1>t DEF start_copy, venueVars, pendVars, Types, PcType, Actors
<1>2. SameOrders /\ OnlyCloses /\ SameSizes /\ Growing' = Growing /\ InHand' = InHand
  BY <1>1, <1>t, SameOrdersOf, RowsSame DEF Growing, InHand, Poll
<1>3. Nearer(x)
  BY <1>t, NearerOf DEF start_copy, venueVars
<1>4. Ends(x)'
  <2>1. FlattensStay
    BY <1>t DEF start_copy, FlattensStay, Types, PcType, FlatType, Actors
  <2> QED BY <1>1, <1>2, <1>3, <1>a, <1>t, <2>1, EndsKept
<1>5. StoppedClosed(x)'
  <2>1. request_copy_mirror_stop \/ mirror' = [active |-> TRUE, stop |-> FALSE, paused |-> FALSE]
    BY DEF start_copy
  <2>2. mirror'.active
    BY <2>1 DEF request_copy_mirror_stop
  <2> QED BY <2>2 DEF StoppedClosed
<1> QED BY <1>t, <1>1, <1>2, <1>3, <1>4, <1>5, AccountStill

LEMMA stop_copyAccount ==
  ASSUME IInv, Types', stop_copy, NEW x \in Products \ lost'
  PROVE  Account(x)'
<1> USE DEF Goto, PollGoto, Kept, Return, Upset, Spend
<1>t. Types /\ x \in Products \ lost /\ x \in Products
  BY DEF IInv, stop_copy
<1>a. Account(x) /\ Holds(x) /\ Opens(x) /\ Books(x) /\ Ends(x) /\ StoppedClosed(x)
  BY <1>t DEF IInv, Account
<1>1. UNCHANGED <<ord, row>> /\ pend'[x].o = pend[x].o /\ pc'["poll"] = pc["poll"] /\ k' = k
  BY <1>t DEF stop_copy, venueVars, pendVars, Types, PcType, Actors
<1>2. SameOrders /\ OnlyCloses /\ SameSizes /\ Growing' = Growing /\ InHand' = InHand
  BY <1>1, <1>t, SameOrdersOf, RowsSame DEF Growing, InHand, Poll
<1>3. Nearer(x)
  BY <1>t, NearerOf DEF stop_copy, venueVars
<1>4. Ends(x)'
  <2>1. "user" \in Actors /\ BeginFlatten("user") /\ pc'["user"] = "flatten"
    BY <1>t DEF stop_copy, Types, PcType, Actors
  <2>2. \A s \in Actors : s # "user" => pc'[s] = pc[s]
    BY <1>t DEF stop_copy, Types, PcType, Actors
  <2> QED BY <1>1, <1>2, <1>3, <1>a, <1>t, <2>1, <2>2, EndsBegin
<1>5. StoppedClosed(x)'
  <2>1. mirror' \in [active : {TRUE}, stop : BOOLEAN, paused : BOOLEAN]
    BY DEF stop_copy, request_copy_mirror_stop
  <2> QED BY <2>1 DEF StoppedClosed
<1> QED BY <1>t, <1>1, <1>2, <1>3, <1>4, <1>5, AccountStill

LEMMA FlattenEndAccount ==
  ASSUME IInv, Types', NEW t \in Actors, FlattenEnd(t), NEW x \in Products \ lost'
  PROVE  Account(x)'
<1> USE DEF Goto, PollGoto, Kept, Return, Upset, Spend
<1>t. Types /\ x \in Products \ lost /\ x \in Products
  BY DEF IInv, FlattenEnd
<1>a. Account(x) /\ Holds(x) /\ Opens(x) /\ Books(x) /\ Ends(x) /\ StoppedClosed(x)
  BY <1>t DEF IInv, Account
<1>1. UNCHANGED <<ord, row, held>> /\ FlattensStay
  BY <1>t DEF FlattenEnd, venueVars, FlattensStay, FlatType, Types, PcType, Actors
<1>2. SameOrders /\ OnlyCloses /\ SameSizes /\ Nearer(x)
  BY <1>1, <1>t, SameOrdersOf, RowsSame, NearerOf
<1>3. pend'[x].o = pend[x].o
  BY DEF FlattenEnd, pendVars
<1>4. CASE t = "user"
  <2>1. pc'["poll"] = pc["poll"] /\ k' = k
    BY <1>t, <1>4 DEF FlattenEnd, Types, PcType, Actors
  <2>2. Growing' = Growing /\ InHand' = InHand
    BY <2>1 DEF Growing, InHand, Poll
  <2>3. Ends(x)'
    BY <1>1, <1>2, <1>a, <1>t, <2>1, <2>2, EndsKept
  <2>4. StoppedClosed(x)'
    BY <1>a, <1>2, <2>2, StoppedKept DEF FlattenEnd
  <2> QED BY <1>t, <1>1, <1>2, <1>3, <2>1, <2>3, <2>4, AccountStill
<1>5. CASE t = "poll"
  <2>1. pc["poll"] \in {"flatten", "stop_row", "clear"} /\ pc'["poll"] \in {"idle", "stop_row", "clear"}
    BY <1>t, <1>5 DEF FlattenEnd, Types, PcType, Actors
  <2>2. Growing = {} /\ Growing' = {} /\ InHand = {} /\ InHand' = {}
    BY <2>1 DEF Growing, InHand, Poll
  <2>3. Ends(x)'
    BY <1>1, <1>2, <1>a, <1>t, <2>2, EndsKept
  <2>4. StoppedClosed(x)'
    BY <1>a, <1>2, <2>2, StoppedKept DEF FlattenEnd
  <2>5. Books(x)'
    BY <2>1, BooksAtHome DEF Opened
  <2> QED BY <1>t, <1>1, <1>2, <1>3, <2>1, <2>3, <2>4, <2>5, AccountMoves DEF InFlight
<1> QED BY <1>4, <1>5, AckTypes

LEMMA clear_mirror_runtime_stateAccount ==
  ASSUME IInv, Types', NEW t \in Actors, _clear_mirror_runtime_state(t), NEW x \in Products \ lost'
  PROVE  Account(x)'
<1> USE DEF Goto, PollGoto, Kept, Return, Upset, Spend
<1>t. Types /\ x \in Products \ lost /\ x \in Products
  BY DEF IInv, _clear_mirror_runtime_state
<1>a. Account(x) /\ Holds(x) /\ Opens(x) /\ Books(x) /\ Ends(x) /\ StoppedClosed(x)
  BY <1>t DEF IInv, Account
<1>1. UNCHANGED <<ord, row, held>> /\ FlattensStay
  BY <1>t DEF _clear_mirror_runtime_state, venueVars, FlattensStay, FlatType, Types, PcType, Actors
<1>2. SameOrders /\ OnlyCloses /\ SameSizes /\ Nearer(x)
  BY <1>1, <1>t, SameOrdersOf, RowsSame, NearerOf
<1>3. pend'[x].o = pend[x].o
  <2>1. pend' = [p \in Products |-> NoPend] /\ x \notin Pending
    BY DEF _clear_mirror_runtime_state
  <2> QED BY <1>t, <2>1 DEF Pending, NoPend
<1>4. CASE t = "user"
  <2>1. pc'["poll"] = pc["poll"] /\ k' = k
    BY <1>t, <1>4 DEF _clear_mirror_runtime_state, Types, PcType, Actors
  <2>2. Growing' = Growing /\ InHand' = InHand
    BY <2>1 DEF Growing, InHand, Poll
  <2>3. Ends(x)'
    BY <1>1, <1>2, <1>a, <1>t, <2>1, <2>2, EndsKept
  <2>4. StoppedClosed(x)'
    BY <1>a, <1>2, <2>2, StoppedKept DEF _clear_mirror_runtime_state
  <2> QED BY <1>t, <1>1, <1>2, <1>3, <2>1, <2>3, <2>4, AccountStill
<1>5. CASE t = "poll"
  <2>1. pc["poll"] \in {"flatten", "stop_row", "clear"} /\ pc'["poll"] \in {"idle", "stop_row", "clear"}
    BY <1>t, <1>5 DEF _clear_mirror_runtime_state, Types, PcType, Actors
  <2>2. Growing = {} /\ Growing' = {} /\ InHand = {} /\ InHand' = {}
    BY <2>1 DEF Growing, InHand, Poll
  <2>3. Ends(x)'
    BY <1>1, <1>2, <1>a, <1>t, <2>2, EndsKept
  <2>4. StoppedClosed(x)'
    BY <1>a, <1>2, <2>2, StoppedKept DEF _clear_mirror_runtime_state
  <2>5. Books(x)'
    BY <2>1, BooksAtHome DEF Opened
  <2> QED BY <1>t, <1>1, <1>2, <1>3, <2>1, <2>3, <2>4, <2>5, AccountMoves DEF InFlight
<1> QED BY <1>4, <1>5, AckTypes

LEMMA StopRowAccount ==
  ASSUME IInv, Types', NEW t \in Actors, StopRow(t), NEW x \in Products \ lost'
  PROVE  Account(x)'
<1> USE DEF Goto, PollGoto, Kept, Return, Upset, Spend
<1>t. Types /\ x \in Products \ lost /\ x \in Products
  BY DEF IInv, StopRow
<1>a. Account(x) /\ Holds(x) /\ Opens(x) /\ Books(x) /\ Ends(x) /\ StoppedClosed(x)
  BY <1>t DEF IInv, Account
<1>1. UNCHANGED <<ord, row, held>> /\ FlattensStay
  BY <1>t DEF StopRow, venueVars, FlattensStay, FlatType, Types, PcType, Actors
<1>2. SameOrders /\ OnlyCloses /\ SameSizes /\ Nearer(x)
  BY <1>1, <1>t, SameOrdersOf, RowsSame, NearerOf
<1>3. pend'[x].o = pend[x].o
  BY DEF StopRow, pendVars
<1>4. CASE t = "user"
  <2>1. pc'["poll"] = pc["poll"] /\ k' = k
    BY <1>t, <1>4 DEF StopRow, Types, PcType, Actors
  <2>2. Growing' = Growing /\ InHand' = InHand
    BY <2>1 DEF Growing, InHand, Poll
  <2>3. Ends(x)'
    BY <1>1, <1>2, <1>a, <1>t, <2>1, <2>2, EndsKept
  <2>4. StoppedClosed(x)'
    <3>1. \A o \in Orders : row[o].st = "open" /\ ord[o].p = x => o \in InHand
      BY <1>t DEF StopRow, OpenRows
    <3> QED BY <1>1, <3>1, <2>2 DEF StoppedClosed
  <2> QED BY <1>t, <1>1, <1>2, <1>3, <2>1, <2>3, <2>4, AccountStill
<1>5. CASE t = "poll"
  <2>1. pc["poll"] \in {"flatten", "stop_row", "clear"} /\ pc'["poll"] \in {"idle", "stop_row", "clear"}
    BY <1>t, <1>5 DEF StopRow, Types, PcType, Actors
  <2>2. Growing = {} /\ Growing' = {} /\ InHand = {} /\ InHand' = {}
    BY <2>1 DEF Growing, InHand, Poll
  <2>3. Ends(x)'
    BY <1>1, <1>2, <1>a, <1>t, <2>2, EndsKept
  <2>4. StoppedClosed(x)'
    <3>1. \A o \in Orders : row[o].st = "open" /\ ord[o].p = x => o \in InHand
      BY <1>t DEF StopRow, OpenRows
    <3> QED BY <1>1, <3>1, <2>2 DEF StoppedClosed
  <2>5. Books(x)'
    BY <2>1, BooksAtHome DEF Opened
  <2> QED BY <1>t, <1>1, <1>2, <1>3, <2>1, <2>3, <2>4, <2>5, AccountMoves DEF InFlight
<1> QED BY <1>4, <1>5, AckTypes

LEMMA LoadLeaderAccount ==
  ASSUME IInv, Types', LoadLeader, NEW x \in Products \ lost'
  PROVE  Account(x)'
<1> USE DEF Goto, PollGoto, Kept, Return, Upset, Spend
<1>t. Types /\ x \in Products \ lost /\ x \in Products
  BY DEF IInv, LoadLeader
<1>a. Account(x) /\ Holds(x) /\ Opens(x) /\ Books(x) /\ Ends(x) /\ StoppedClosed(x)
  BY <1>t DEF IInv, Account
<1>1. /\ UNCHANGED <<ord, row, held>> /\ pend'[x].o = pend[x].o
      /\ pc["poll"] \in {"leader"} /\ pc'["poll"] \in {"resolve"}
  BY <1>t DEF LoadLeader, venueVars, pendVars, Types, PcType, Actors
<1>2. SameOrders /\ OnlyCloses /\ SameSizes /\ Nearer(x)
  BY <1>1, <1>t, SameOrdersOf, RowsSame, NearerOf
<1>3. Growing = {} /\ Growing' = {}
  BY <1>1 DEF Growing, Poll
<1>4. Books(x)'
  BY <1>1, BooksAtHome DEF Opened
<1>5. Ends(x)'
  <2>1. FlattensStay
    BY <1>1, <1>t DEF LoadLeader, FlattensStay, FlatType, Types, PcType, Actors
  <2> QED BY <1>1, <1>2, <1>3, <1>a, <1>t, <2>1, EndsKept
<1>6. StoppedClosed(x)'
  <2>1. InHand = {} /\ UNCHANGED mirror
    BY <1>1 DEF LoadLeader, InHand
  <2> QED BY <1>a, <1>2, <2>1, StoppedKept
<1> QED BY <1>t, <1>1, <1>2, <1>4, <1>5, <1>6, AccountMoves DEF InFlight

LEMMA ResolveReadAccount ==
  ASSUME IInv, Types', ResolveRead, NEW x \in Products \ lost'
  PROVE  Account(x)'
<1> USE DEF Goto, PollGoto, Kept, Return, Upset, Spend
<1>t. Types /\ x \in Products \ lost /\ x \in Products
  BY DEF IInv, ResolveRead
<1>a. Account(x) /\ Holds(x) /\ Opens(x) /\ Books(x) /\ Ends(x) /\ StoppedClosed(x)
  BY <1>t DEF IInv, Account
<1>1. /\ UNCHANGED <<ord, row, held>> /\ pend'[x].o = pend[x].o
      /\ pc["poll"] \in {"resolve"} /\ pc'["poll"] \in {"resolve", "verdict"}
  BY <1>t DEF ResolveRead, venueVars, pendVars, Types, PcType, Actors
<1>2. SameOrders /\ OnlyCloses /\ SameSizes /\ Nearer(x)
  BY <1>1, <1>t, SameOrdersOf, RowsSame, NearerOf
<1>3. Growing = {} /\ Growing' = {}
  BY <1>1 DEF Growing, Poll
<1>4. Books(x)'
  BY <1>1, BooksAtHome DEF Opened
<1>5. Ends(x)'
  <2>1. FlattensStay
    BY <1>1, <1>t DEF ResolveRead, FlattensStay, FlatType, Types, PcType, Actors
  <2> QED BY <1>1, <1>2, <1>3, <1>a, <1>t, <2>1, EndsKept
<1>6. StoppedClosed(x)'
  <2>1. InHand = {} /\ UNCHANGED mirror
    BY <1>1 DEF ResolveRead, InHand
  <2> QED BY <1>a, <1>2, <2>1, StoppedKept
<1> QED BY <1>t, <1>1, <1>2, <1>4, <1>5, <1>6, AccountMoves DEF InFlight

LEMMA RearmAccount ==
  ASSUME IInv, Types', Rearm, NEW x \in Products \ lost'
  PROVE  Account(x)'
<1> USE DEF Goto, PollGoto, Kept, Return, Upset, Spend
<1>t. Types /\ x \in Products \ lost /\ x \in Products
  BY DEF IInv, Rearm
<1>a. Account(x) /\ Holds(x) /\ Opens(x) /\ Books(x) /\ Ends(x) /\ StoppedClosed(x)
  BY <1>t DEF IInv, Account
<1>1. /\ UNCHANGED <<ord, row, held>> /\ pend'[x].o = pend[x].o
      /\ pc["poll"] \in {"rearm"} /\ pc'["poll"] \in {"resolve"}
  BY <1>t DEF Rearm, venueVars, pendVars, Types, PcType, Actors
<1>2. SameOrders /\ OnlyCloses /\ SameSizes /\ Nearer(x)
  BY <1>1, <1>t, SameOrdersOf, RowsSame, NearerOf
<1>3. Growing = {} /\ Growing' = {}
  BY <1>1 DEF Growing, Poll
<1>4. Books(x)'
  BY <1>1, BooksAtHome DEF Opened
<1>5. Ends(x)'
  <2>1. FlattensStay
    BY <1>1, <1>t DEF Rearm, FlattensStay, FlatType, Types, PcType, Actors
  <2> QED BY <1>1, <1>2, <1>3, <1>a, <1>t, <2>1, EndsKept
<1>6. StoppedClosed(x)'
  <2>1. request_copy_mirror_stop \/ (UNCHANGED mirror /\ ~Stopped)
    BY DEF Rearm
  <2>2. mirror'.active
    BY <2>1 DEF request_copy_mirror_stop, Stopped
  <2> QED BY <2>2 DEF StoppedClosed
<1> QED BY <1>t, <1>1, <1>2, <1>4, <1>5, <1>6, AccountMoves DEF InFlight

LEMMA RearmPendingAccount ==
  ASSUME IInv, Types', RearmPending, NEW x \in Products \ lost'
  PROVE  Account(x)'
<1> USE DEF Goto, PollGoto, Kept, Return, Upset, Spend
<1>t. Types /\ x \in Products \ lost /\ x \in Products
  BY DEF IInv, RearmPending
<1>a. Account(x) /\ Holds(x) /\ Opens(x) /\ Books(x) /\ Ends(x) /\ StoppedClosed(x)
  BY <1>t DEF IInv, Account
<1>1. /\ UNCHANGED <<ord, row, held>> /\ pend'[x].o = pend[x].o
      /\ pc["poll"] \in {"rearm_pending"} /\ pc'["poll"] \in {"open"}
  BY <1>t DEF RearmPending, venueVars, pendVars, Types, PcType, Actors
<1>2. SameOrders /\ OnlyCloses /\ SameSizes /\ Nearer(x)
  BY <1>1, <1>t, SameOrdersOf, RowsSame, NearerOf
<1>3. Growing = {} /\ Growing' = {}
  BY <1>1 DEF Growing, Poll
<1>4. Books(x)'
  <2>1. x \in Unseen' => x \in Unseen /\ k'.rows[x] = k.rows[x]
    BY <1>1 DEF RearmPending, Unseen, Poll, Opened
  <2> QED BY <1>1, <1>2, <1>a, <1>t, <2>1, BooksAtOpen DEF Opened
<1>5. Ends(x)'
  <2>1. FlattensStay
    BY <1>1, <1>t DEF RearmPending, FlattensStay, FlatType, Types, PcType, Actors
  <2> QED BY <1>1, <1>2, <1>3, <1>a, <1>t, <2>1, EndsKept
<1>6. StoppedClosed(x)'
  <2>1. request_copy_mirror_stop \/ (UNCHANGED mirror /\ ~Stopped)
    BY DEF RearmPending
  <2>2. mirror'.active
    BY <2>1 DEF request_copy_mirror_stop, Stopped
  <2> QED BY <2>2 DEF StoppedClosed
<1> QED BY <1>t, <1>1, <1>2, <1>4, <1>5, <1>6, AccountMoves DEF InFlight

LEMMA CloseGoneDoneAccount ==
  ASSUME IInv, Types', CloseGoneDone, NEW x \in Products \ lost'
  PROVE  Account(x)'
<1> USE DEF Goto, PollGoto, Kept, Return, Upset, Spend
<1>t. Types /\ x \in Products \ lost /\ x \in Products
  BY DEF IInv, CloseGoneDone
<1>a. Account(x) /\ Holds(x) /\ Opens(x) /\ Books(x) /\ Ends(x) /\ StoppedClosed(x)
  BY <1>t DEF IInv, Account
<1>1. /\ UNCHANGED <<ord, row, held>> /\ pend'[x].o = pend[x].o
      /\ pc["poll"] \in {"close"} /\ pc'["poll"] \in {"open"}
  BY <1>t DEF CloseGoneDone, venueVars, pendVars, Types, PcType, Actors
<1>2. SameOrders /\ OnlyCloses /\ SameSizes /\ Nearer(x)
  BY <1>1, <1>t, SameOrdersOf, RowsSame, NearerOf
<1>3. Growing = {} /\ Growing' = {}
  BY <1>1 DEF Growing, Poll
<1>4. Books(x)'
  <2>1. x \in Unseen' => x \in Unseen /\ k'.rows[x] = k.rows[x]
    <3>1. k'.rows = k.rows
      BY <1>t DEF CloseGoneDone, Types, LocalType, Locals
    <3> QED BY <1>1, <1>t, <3>1 DEF Unseen, Poll, Opened
  <2> QED BY <1>1, <1>2, <1>a, <1>t, <2>1, BooksAtOpen DEF Opened
<1>5. Ends(x)'
  <2>1. FlattensStay
    BY <1>1, <1>t DEF CloseGoneDone, FlattensStay, FlatType, Types, PcType, Actors
  <2> QED BY <1>1, <1>2, <1>3, <1>a, <1>t, <2>1, EndsKept
<1>6. StoppedClosed(x)'
  <2>1. InHand = {} /\ UNCHANGED mirror
    BY <1>1 DEF CloseGoneDone, InHand
  <2> QED BY <1>a, <1>2, <2>1, StoppedKept
<1> QED BY <1>t, <1>1, <1>2, <1>4, <1>5, <1>6, AccountMoves DEF InFlight

LEMMA SyncDoneAccount ==
  ASSUME IInv, Types', SyncDone, NEW x \in Products \ lost'
  PROVE  Account(x)'
<1> USE DEF Goto, PollGoto, Kept, Return, Upset, Spend
<1>t. Types /\ x \in Products \ lost /\ x \in Products
  BY DEF IInv, SyncDone
<1>a. Account(x) /\ Holds(x) /\ Opens(x) /\ Books(x) /\ Ends(x) /\ StoppedClosed(x)
  BY <1>t DEF IInv, Account
<1>1. /\ UNCHANGED <<ord, row, held>> /\ pend'[x].o = pend[x].o
      /\ pc["poll"] \in {"open"} /\ pc'["poll"] \in {"idle"}
  BY <1>t DEF SyncDone, venueVars, pendVars, Types, PcType, Actors
<1>2. SameOrders /\ OnlyCloses /\ SameSizes /\ Nearer(x)
  BY <1>1, <1>t, SameOrdersOf, RowsSame, NearerOf
<1>3. Growing = {} /\ Growing' = {}
  BY <1>1 DEF Growing, Poll
<1>4. Books(x)'
  BY <1>1, BooksAtHome DEF Opened
<1>5. Ends(x)'
  <2>1. FlattensStay
    BY <1>1, <1>t DEF SyncDone, FlattensStay, FlatType, Types, PcType, Actors
  <2> QED BY <1>1, <1>2, <1>3, <1>a, <1>t, <2>1, EndsKept
<1>6. StoppedClosed(x)'
  <2>1. InHand = {} /\ UNCHANGED mirror
    BY <1>1 DEF SyncDone, InHand
  <2> QED BY <1>a, <1>2, <2>1, StoppedKept
<1> QED BY <1>t, <1>1, <1>2, <1>4, <1>5, <1>6, AccountMoves DEF InFlight

LEMMA SkipAccount ==
  ASSUME IInv, Types', NEW p \in Products, Skip(p), NEW x \in Products \ lost'
  PROVE  Account(x)'
<1> USE DEF Goto, PollGoto, Kept, Return, Upset, Spend
<1>t. Types /\ x \in Products \ lost /\ x \in Products
  BY DEF IInv, Skip
<1>a. Account(x) /\ Holds(x) /\ Opens(x) /\ Books(x) /\ Ends(x) /\ StoppedClosed(x)
  BY <1>t DEF IInv, Account
<1>1. /\ UNCHANGED <<ord, row, held>> /\ pend'[x].o = pend[x].o
      /\ pc["poll"] \in {"open"} /\ pc'["poll"] \in {"open"}
  BY <1>t DEF Skip, venueVars, pendVars, Types, PcType, Actors, Opening
<1>2. SameOrders /\ OnlyCloses /\ SameSizes /\ Nearer(x)
  BY <1>1, <1>t, SameOrdersOf, RowsSame, NearerOf
<1>3. Growing = {} /\ Growing' = {}
  BY <1>1 DEF Growing, Poll
<1>4. Books(x)'
  <2>1. x \in Unseen' => x \in Unseen /\ k'.rows[x] = k.rows[x]
    <3>1. k'.rows = k.rows /\ k'.todo \subseteq k.todo
      BY <1>t DEF Skip, Without, Types, LocalType, Locals
    <3> QED BY <1>1, <1>t, <3>1 DEF Unseen, Poll, Opened
  <2> QED BY <1>1, <1>2, <1>a, <1>t, <2>1, BooksAtOpen DEF Opened
<1>5. Ends(x)'
  <2>1. FlattensStay
    BY <1>1, <1>t DEF Skip, Opening, FlattensStay, FlatType, Types, PcType, Actors
  <2> QED BY <1>1, <1>2, <1>3, <1>a, <1>t, <2>1, EndsKept
<1>6. StoppedClosed(x)'
  <2>1. InHand = {} /\ UNCHANGED mirror
    BY <1>1 DEF Skip, InHand
  <2> QED BY <1>a, <1>2, <2>1, StoppedKept
<1> QED BY <1>t, <1>1, <1>2, <1>4, <1>5, <1>6, AccountMoves DEF InFlight

LEMMA ResolveDoneAccount ==
  ASSUME IInv, Types', ResolveDone, NEW x \in Products \ lost'
  PROVE  Account(x)'
<1> USE DEF Goto, PollGoto, Kept, Return, Upset, Spend
<1>t. Types /\ x \in Products \ lost /\ x \in Products
  BY DEF IInv, ResolveDone
<1>a. Account(x) /\ Holds(x) /\ Opens(x) /\ Books(x) /\ Ends(x) /\ StoppedClosed(x)
  BY <1>t DEF IInv, Account
<1>1. /\ UNCHANGED <<ord, row, held>> /\ pend'[x].o = pend[x].o
      /\ pc["poll"] \in {"resolve"} /\ pc'["poll"] \in {"flatten", "idle", "venue"}
  BY <1>t DEF ResolveDone, venueVars, pendVars, Types, PcType, Actors
<1>2. SameOrders /\ OnlyCloses /\ SameSizes /\ Nearer(x)
  BY <1>1, <1>t, SameOrdersOf, RowsSame, NearerOf
<1>3. Growing = {} /\ Growing' = {}
  BY <1>1 DEF Growing, Poll
<1>4. Books(x)'
  <2>1. CASE pc'["poll"] # "venue"
    BY <1>1, <2>1, BooksAtHome DEF Opened
  <2>2. CASE pc'["poll"] = "venue"
    <3>1. k' = [k EXCEPT !.rows = [p \in Products |-> Newest(p)]]
      BY <1>t, <2>2 DEF ResolveDone, Types, PcType, Actors
    <3>2. k'.rows[x] = Newest(x)
      BY <1>t, <3>1 DEF Types, LocalType, Locals
    <3>3. \A o \in Orders : ord[o].p = x /\ row[o].st = "open" => o = Newest(x)
      BY <1>t, NewestOpen, OneClaim DEF Owns
    <3>4. RowsKnown(x)'
      BY <1>1, <3>2, <3>3 DEF RowsKnown
    <3> QED BY <2>2, <3>4 DEF Books, BookedLeft, UnwindsAll, SweptLeft, Poll
  <2> QED BY <2>1, <2>2
<1>5. Ends(x)'
  <2>1. "poll" \in Actors /\ \A s \in Actors : s # "poll" => pc'[s] = pc[s]
    BY <1>t DEF ResolveDone, Types, PcType, Actors
  <2>2. CASE pc'["poll"] = "flatten"
    <3>1. BeginFlatten("poll")
      BY <1>1, <1>t, <2>2 DEF ResolveDone, Types, PcType, Actors
    <3> QED BY <1>1, <1>2, <1>3, <1>a, <1>t, <2>1, <2>2, <3>1, EndsBegin
  <2>3. CASE pc'["poll"] # "flatten"
    <3>1. FlattensStay
      BY <1>1, <1>t, <2>3 DEF ResolveDone, FlattensStay, FlatType, Types, PcType, Actors
    <3> QED BY <1>1, <1>2, <1>3, <1>a, <1>t, <3>1, EndsKept
  <2> QED BY <2>2, <2>3
<1>6. StoppedClosed(x)'
  <2>1. InHand = {} /\ UNCHANGED mirror
    BY <1>1 DEF ResolveDone, InHand
  <2> QED BY <1>a, <1>2, <2>1, StoppedKept
<1> QED BY <1>t, <1>1, <1>2, <1>4, <1>5, <1>6, AccountMoves DEF InFlight

LEMMA RailAccount ==
  ASSUME IInv, Types', Rail, NEW x \in Products \ lost'
  PROVE  Account(x)'
<1> USE DEF Goto, PollGoto, Kept, Return, Upset, Spend
<1>t. Types /\ x \in Products \ lost /\ x \in Products
  BY DEF IInv, Rail
<1>a. Account(x) /\ Holds(x) /\ Opens(x) /\ Books(x) /\ Ends(x) /\ StoppedClosed(x)
  BY <1>t DEF IInv, Account
<1>1. /\ UNCHANGED <<ord, row, held>> /\ pend'[x].o = pend[x].o
      /\ pc["poll"] \in {"sweep"} /\ pc'["poll"] \in {"flatten", "close"}
  BY <1>t DEF Rail, venueVars, pendVars, Types, PcType, Actors
<1>2. SameOrders /\ OnlyCloses /\ SameSizes /\ Nearer(x)
  BY <1>1, <1>t, SameOrdersOf, RowsSame, NearerOf
<1>3. Growing = {} /\ Growing' = {}
  BY <1>1 DEF Growing, Poll
<1>4. Books(x)'
  <2>1. CASE pc'["poll"] = "flatten"
    BY <2>1, BooksAtHome DEF Opened
  <2>2. CASE pc'["poll"] = "close"
    <3>1. k'.rows = k.rows
      BY <1>t, <2>2 DEF Rail, Types, LocalType, Locals
    <3> QED BY <1>1, <1>2, <1>a, <1>t, <2>2, <3>1, BooksAtOpen DEF Opened, Unseen, Poll
  <2> QED BY <1>1, <2>1, <2>2
<1>5. Ends(x)'
  <2>1. "poll" \in Actors /\ \A s \in Actors : s # "poll" => pc'[s] = pc[s]
    BY <1>t DEF Rail, Types, PcType, Actors
  <2>2. CASE pc'["poll"] = "flatten"
    <3>1. BeginFlatten("poll")
      BY <1>1, <1>t, <2>2 DEF Rail, Types, PcType, Actors
    <3> QED BY <1>1, <1>2, <1>3, <1>a, <1>t, <2>1, <2>2, <3>1, EndsBegin
  <2>3. CASE pc'["poll"] # "flatten"
    <3>1. FlattensStay
      BY <1>1, <1>t, <2>3 DEF Rail, FlattensStay, FlatType, Types, PcType, Actors
    <3> QED BY <1>1, <1>2, <1>3, <1>a, <1>t, <3>1, EndsKept
  <2> QED BY <2>2, <2>3
<1>6. StoppedClosed(x)'
  <2>1. InHand = {} /\ UNCHANGED mirror
    BY <1>1 DEF Rail, InHand
  <2> QED BY <1>a, <1>2, <2>1, StoppedKept
<1> QED BY <1>t, <1>1, <1>2, <1>4, <1>5, <1>6, AccountMoves DEF InFlight

LEMMA ReadVenueAccount ==
  ASSUME IInv, Types', ReadVenue, NEW x \in Products \ lost'
  PROVE  Account(x)'
<1> USE DEF Goto, PollGoto, Kept, Return, Upset, Spend
<1>t. Types /\ x \in Products \ lost /\ x \in Products
  BY DEF IInv, ReadVenue
<1>a. Account(x) /\ Holds(x) /\ Opens(x) /\ Books(x) /\ Ends(x) /\ StoppedClosed(x)
  BY <1>t DEF IInv, Account
<1>1. /\ UNCHANGED <<ord, row, held>> /\ pend'[x].o = pend[x].o
      /\ pc["poll"] \in {"venue"} /\ pc'["poll"] \in {"sweep"}
  BY <1>t DEF ReadVenue, venueVars, pendVars, Types, PcType, Actors
<1>2. SameOrders /\ OnlyCloses /\ SameSizes /\ Nearer(x)
  BY <1>1, <1>t, SameOrdersOf, RowsSame, NearerOf
<1>3. Growing = {} /\ Growing' = {}
  BY <1>1 DEF Growing, Poll
<1>4. Books(x)'
  <2>1. k'.rows = k.rows /\ (x \in k'.todo => k'.vmap = held /\ k.rows[x] # 0)
    <3>1. PICK ok \in BOOLEAN, b \in BOOLEAN, limited \in Limited :
             k' = [k EXCEPT !.vmap = IF ok THEN held ELSE [p \in Products |-> 0], !.suspect = b,
                            !.todo = IF ok /\ ~limited THEN {p \in Products : k.rows[p] # 0} ELSE {}]
      <4>1. PICK ok \in BOOLEAN, limited \in Limited :
               k' = [k EXCEPT !.vmap = IF ok THEN held ELSE [p \in Products |-> 0],
                              !.suspect = ~ok \/ limited \/ ((\E p \in Products : k.rows[p] # 0)
                                            /\ \A p \in Products : (IF ok THEN held ELSE [q \in Products |-> 0])[p] = 0),
                              !.todo = IF ok /\ ~limited THEN {p \in Products : k.rows[p] # 0} ELSE {}]
        BY DEF ReadVenue
      <4>2. limited \in BOOLEAN
        BY AckTypes
      <4> DEFINE b == ~ok \/ limited \/ ((\E p \in Products : k.rows[p] # 0)
                                            /\ \A p \in Products : (IF ok THEN held ELSE [q \in Products |-> 0])[p] = 0)
      <4>3. b \in BOOLEAN
        BY <4>2
      <4> HIDE DEF b
      <4> QED BY <4>1, <4>3 DEF b
    <3> DEFINE V == IF ok THEN held ELSE [p \in Products |-> 0]
               T == IF ok /\ ~limited THEN {p \in Products : k.rows[p] # 0} ELSE {}
    <3>2. k' = [k EXCEPT !.vmap = V, !.suspect = b, !.todo = T]
      BY <3>1
    <3>3. x \in T => V = held /\ k.rows[x] # 0
      OBVIOUS
    <3> HIDE DEF V, T
    <3>4. k'.vmap = V /\ k'.todo = T /\ k'.rows = k.rows
      BY <1>t, <3>2 DEF Types, LocalType, Locals
    <3> QED BY <3>3, <3>4
  <2>2. RowsKnown(x)'
    BY <1>1, <1>a, <2>1 DEF Books, RowsKnown, Unseen, Poll
  <2>0. x \in k'.todo => k.rows[x] \in Orders
    BY <1>t, <2>1, NamedOrders
  <2>3. ASSUME x \in k'.todo, NEW o \in Orders, o = k.rows[x]
        PROVE  Toward(o)' <= IF held[x] * ord[o].d > 0 THEN Abs(held[x]) ELSE 0
    <3>1. o \in Orders /\ ord[o].p = x
      BY <1>t, <2>1, <2>3 DEF IInv, Names
    <3>2. held[x] \in Int /\ ord[o].d \in {-1, 1}
      BY <1>t, <3>1, OrderTypes DEF Types, HoldType, Sides
    <3>3. Toward(o)' = Along(ord[o].d, held[x])
      BY <1>1, <3>1 DEF Toward
    <3>4. CASE ord[o].d = 1
      BY <3>2, <3>3, <3>4 DEF Along, Abs
    <3>5. CASE ord[o].d = -1
      BY <3>2, <3>3, <3>5 DEF Along, Abs
    <3> QED BY <3>2, <3>4, <3>5
  <2>4. SweptLeft(x)'
    BY <1>1, <2>0, <2>1, <2>3 DEF SweptLeft, Toward
  <2> QED BY <1>1, <2>2, <2>4 DEF Books, BookedLeft, UnwindsAll, Poll
<1>5. Ends(x)'
  <2>1. FlattensStay
    BY <1>1, <1>t DEF ReadVenue, FlattensStay, FlatType, Types, PcType, Actors
  <2> QED BY <1>1, <1>2, <1>3, <1>a, <1>t, <2>1, EndsKept
<1>6. StoppedClosed(x)'
  <2>1. InHand = {} /\ UNCHANGED mirror
    BY <1>1 DEF ReadVenue, InHand
  <2> QED BY <1>a, <1>2, <2>1, StoppedKept
<1> QED BY <1>t, <1>1, <1>2, <1>4, <1>5, <1>6, AccountMoves DEF InFlight

LEMMA RecheckAccount ==
  ASSUME IInv, Types', Recheck, NEW x \in Products \ lost'
  PROVE  Account(x)'
<1> USE DEF Goto, PollGoto, Kept, Return, Upset, Spend
<1>t. Types /\ x \in Products \ lost /\ x \in Products
  BY DEF IInv, Recheck
<1>a. Account(x) /\ Holds(x) /\ Opens(x) /\ Books(x) /\ Ends(x) /\ StoppedClosed(x)
  BY <1>t DEF IInv, Account
<1>1. /\ UNCHANGED <<ord, row, held>> /\ pend'[x].o = pend[x].o
      /\ pc["poll"] \in {"recheck"} /\ pc'["poll"] \in {"unwind", "open"}
  BY <1>t DEF Recheck, venueVars, pendVars, Types, PcType, Actors
<1>2. SameOrders /\ OnlyCloses /\ SameSizes /\ Nearer(x)
  BY <1>1, <1>t, SameOrdersOf, RowsSame, NearerOf
<1>3. Growing = {} /\ Growing' = {}
  BY <1>1 DEF Growing, Poll
<1>4. Books(x)'
  <2>1. k' = k
    BY DEF Recheck
  <2>2. CASE pc'["poll"] = "open"
    BY <1>1, <1>2, <1>a, <1>t, <2>1, <2>2, BooksAtOpen DEF Opened, Unseen, Poll
  <2>3. CASE pc'["poll"] = "unwind"
    BY <1>1, <1>a, <2>1, <2>3 DEF Books, RowsKnown, BookedLeft, UnwindsAll, SweptLeft, Unseen, Poll, Opened
  <2> QED BY <1>1, <2>2, <2>3
<1>5. Ends(x)'
  <2>1. FlattensStay
    BY <1>1, <1>t DEF Recheck, FlattensStay, FlatType, Types, PcType, Actors
  <2> QED BY <1>1, <1>2, <1>3, <1>a, <1>t, <2>1, EndsKept
<1>6. StoppedClosed(x)'
  <2>1. UNCHANGED <<mirror, k>> /\ (pc'["poll"] = "open" => ~Stopped)
    BY <1>1, <1>t DEF Recheck, Types, PcType, Actors
  <2>2. pc'["poll"] = "unwind" => InHand' = InHand
    BY <1>1, <2>1 DEF InHand
  <2> QED BY <1>1, <1>2, <1>a, <2>1, <2>2, StoppedKept DEF Stopped
<1> QED BY <1>t, <1>1, <1>2, <1>4, <1>5, <1>6, AccountMoves DEF InFlight

LEMMA CheckLiveAccount ==
  ASSUME IInv, Types', CheckLive, NEW x \in Products \ lost'
  PROVE  Account(x)'
<1> USE DEF Goto, PollGoto, Kept, Return, Upset, Spend
<1>t. Types /\ x \in Products \ lost /\ x \in Products
  BY DEF IInv, CheckLive
<1>a. Account(x) /\ Holds(x) /\ Opens(x) /\ Books(x) /\ Ends(x) /\ StoppedClosed(x)
  BY <1>t DEF IInv, Account
<1>1. /\ UNCHANGED <<ord, row, held>> /\ pend'[x].o = pend[x].o
      /\ pc["poll"] \in {"check"} /\ pc'["poll"] \in {"idle", "place"}
  BY <1>t DEF CheckLive, venueVars, pendVars, Types, PcType, Actors
<1>2. SameOrders /\ OnlyCloses /\ SameSizes /\ Nearer(x)
  BY <1>1, <1>t, SameOrdersOf, RowsSame, NearerOf
<1>3. Growing = {} /\ Growing' = {}
  BY <1>1 DEF Growing, Poll
<1>4. Books(x)'
  <2>1. pc'["poll"] = "place" => k' = k
    BY <1>t DEF CheckLive, Types, PcType, Actors
  <2>2. CASE pc'["poll"] = "place"
    BY <1>1, <1>2, <1>a, <1>t, <2>1, <2>2, BooksAtOpen DEF Opened, Unseen, Poll
  <2> QED BY <1>1, <2>2, BooksAtHome DEF Opened
<1>5. Ends(x)'
  <2>1. FlattensStay
    BY <1>1, <1>t DEF CheckLive, FlattensStay, FlatType, Types, PcType, Actors
  <2> QED BY <1>1, <1>2, <1>3, <1>a, <1>t, <2>1, EndsKept
<1>6. StoppedClosed(x)'
  <2>1. InHand = {} /\ UNCHANGED mirror
    BY <1>1 DEF CheckLive, InHand
  <2> QED BY <1>a, <1>2, <2>1, StoppedKept
<1>7. Hand' = Hand
  BY <1>t, <1>1 DEF CheckLive, Hand, Poll, InFlight, Types, LocalType, Locals
<1>8. Opens(x)'
  <2>1. pc'["poll"] = "place" => k' = k
    BY <1>t DEF CheckLive, Types, PcType, Actors
  <2>2. Owners(x)' = Owners(x)
    BY <1>1, <1>2, <1>3, <1>7 DEF Owners, Owns, SameOrders, SameSizes
  <2>3. LiveOwned(x)'
    BY <1>1, <1>2, <1>a DEF Opens, LiveOwned, SameOrders, Poll
  <2> QED BY <1>1, <1>a, <2>1, <2>2, <2>3 DEF Opens, SeenAll, OpensBare, AddsToRow, Poll
<1> QED BY <1>t, <1>1, <1>2, <1>3, <1>4, <1>5, <1>6, <1>7, <1>8, AccountShifts

LEMMA OpenAccount ==
  ASSUME IInv, Types', NEW p \in Products, Open(p), NEW x \in Products \ lost'
  PROVE  Account(x)'
<1> USE DEF Goto, PollGoto, Kept, Return, Upset, Spend
<1>t. Types /\ x \in Products \ lost /\ x \in Products
  BY DEF IInv, Open
<1>a. Account(x) /\ Holds(x) /\ Opens(x) /\ Books(x) /\ Ends(x) /\ StoppedClosed(x)
  BY <1>t DEF IInv, Account
<1>1. /\ UNCHANGED <<ord, row, held>> /\ pend'[x].o = pend[x].o
      /\ pc["poll"] \in {"open"} /\ pc'["poll"] \in {"check"}
  BY <1>t DEF Open, venueVars, pendVars, Types, PcType, Actors, Opening
<1>2. SameOrders /\ OnlyCloses /\ SameSizes /\ Nearer(x)
  BY <1>1, <1>t, SameOrdersOf, RowsSame, NearerOf
<1>3. Growing = {} /\ Growing' = {}
  BY <1>1 DEF Growing, Poll
<1>4. Books(x)'
  <2>1. x \in Unseen' => x \in Unseen /\ k'.rows[x] = k.rows[x]
    <3>1. k'.rows = k.rows /\ k'.todo \subseteq k.todo
      BY <1>t DEF Open, Without, Types, LocalType, Locals
    <3> QED BY <1>1, <1>t, <3>1 DEF Unseen, Poll, Opened
  <2> QED BY <1>1, <1>2, <1>a, <1>t, <2>1, BooksAtOpen DEF Opened
<1>5. Ends(x)'
  <2>1. FlattensStay
    BY <1>1, <1>t DEF Open, Opening, FlattensStay, FlatType, Types, PcType, Actors
  <2> QED BY <1>1, <1>2, <1>3, <1>a, <1>t, <2>1, EndsKept
<1>6. StoppedClosed(x)'
  <2>1. InHand = {} /\ UNCHANGED mirror
    BY <1>1 DEF Open, InHand
  <2> QED BY <1>a, <1>2, <2>1, StoppedKept
<1>7. Hand' = Hand
  BY <1>t, <1>1 DEF Open, Hand, Poll, InFlight, Types, LocalType, Locals
<1>8. Opens(x)'
  <2>1. k'.p = p /\ p \in k.todo /\ k.rows[p] = 0 /\ pend[p].o = 0
    BY <1>t DEF Open, Opening, Tracks, MayOpen, Without, Types, LocalType, Locals
  <2>2. x = p => Owners(x) = {}
    <3>1. x = p => \A o \in Orders : ord[o].p = x => row[o].st # "open"
      BY <1>1, <1>a, <2>1, CopyAssumption DEF Books, RowsKnown, Unseen, Poll, Orders
    <3>2. Hand = {}
      BY <1>1 DEF Hand, Poll, InFlight
    <3> QED BY <1>3, <2>1, <3>1, <3>2, CopyAssumption DEF Owners, Owns, Orders
  <2>3. Owners(x)' = Owners(x)
    BY <1>1, <1>2, <1>3, <1>7 DEF Owners, Owns, SameOrders, SameSizes
  <2>4. LiveOwned(x)'
    BY <1>1, <1>2, <1>a DEF Opens, LiveOwned, SameOrders, Poll
  <2> QED BY <1>1, <2>1, <2>2, <2>3, <2>4 DEF Opens, SeenAll, OpensBare, AddsToRow, Poll
<1> QED BY <1>t, <1>1, <1>2, <1>3, <1>4, <1>5, <1>6, <1>7, <1>8, AccountShifts

-----------------------------------------------------------------------------
(* Account: rows closed by the sweep, the flatten and the closes.            *)

LEMMA SweepAccount ==
  ASSUME IInv, Types', NEW p \in Products, Sweep(p), NEW x \in Products \ lost'
  PROVE  Account(x)'
<1> USE DEF Goto, PollGoto, Kept, Return, Upset, Spend
<1>t. Types /\ x \in Products \ lost /\ x \in Products
  BY DEF IInv, Sweep
<1>a. Account(x) /\ Holds(x) /\ Opens(x) /\ Books(x) /\ Ends(x) /\ StoppedClosed(x)
  BY <1>t DEF IInv, Account
<1>1. /\ UNCHANGED <<ord, held, pend, pc, fl, mirror>> /\ pc["poll"] = "sweep" /\ p \in k.todo
  BY <1>t DEF Sweep, venueVars
<1>2. SameOrders /\ Nearer(x)
  BY <1>1, <1>t, SameOrdersOf, NearerOf
<1>3. Hand = {} /\ Hand' = {} /\ Growing = {} /\ Growing' = {} /\ InHand = {}
  BY <1>1 DEF Hand, Growing, InHand, Poll, InFlight
<1> DEFINE r == k.rows[p]
           v == IF k.vmap[p] * ord[r].d > 0 THEN Abs(k.vmap[p]) ELSE 0
<1>4. r \in Orders /\ ord[r].p = p /\ p \in Products /\ v \in Nat
  <2>1. r \in Orders /\ r # 0
    BY <1>1, InHandTypes, CopyAssumption DEF Orders
  <2>2. ord[r].p = p
    BY <1>1, <1>t, <2>1 DEF IInv, Names
  <2>3. v \in Nat
    BY <1>t, LocalTypes, AbsLeast
  <2> QED BY <2>1, <2>2, <2>3
<1>5. row[r].size \in 0..MaxLots /\ row[r].base \in 0..MaxLots
  BY <1>t, <1>4, OrderTypes
<1>6. x = p /\ row[r].st = "open" => Toward(r) <= v
  BY <1>1, <1>a DEF Books, SweptLeft, Poll
<1>7. \/ UNCHANGED row /\ k' = [k EXCEPT !.todo = @ \ {p}]
      \/ v = 0 /\ row' = Booked(r, 0, 0) /\ k' = [k EXCEPT !.todo = @ \ {p}, !.rows[p] = 0]
      \/ v > 0 /\ v < row[r].size /\ row' = Booked(r, v, row[r].base) /\ k' = [k EXCEPT !.todo = @ \ {p}]
  BY DEF Sweep
<1>8. /\ k'.todo = k.todo \ {p} /\ k'.vmap = k.vmap /\ \A q \in Products : q # p => k'.rows[q] = k.rows[q]
      /\ k'.rows[p] = k.rows[p] \/ (row' = Booked(r, 0, 0) /\ k'.rows[p] = 0)
  <2>1. CASE k' = [k EXCEPT !.todo = @ \ {p}]
    <3>1. k'.todo = k.todo \ {p} /\ k'.vmap = k.vmap /\ k'.rows = k.rows
      BY <1>t, <2>1 DEF Types, LocalType, Locals
    <3> QED BY <3>1
  <2>2. CASE row' = Booked(r, 0, 0) /\ k' = [k EXCEPT !.todo = @ \ {p}, !.rows[p] = 0]
    <3>1. k'.todo = k.todo \ {p} /\ k'.vmap = k.vmap /\ k'.rows = [k.rows EXCEPT ![p] = 0]
      BY <1>t, <2>2 DEF Types, LocalType, Locals
    <3>2. k.rows \in [Products -> 0..MaxOrders]
      BY <1>t, LocalTypes
    <3> QED BY <2>2, <3>1, <3>2, <1>4
  <2> QED BY <1>7, <2>1, <2>2
<1>9. Holds(x)' /\ OnlyCloses
  <2>1. CASE UNCHANGED row
    <3>1. SameSizes /\ OnlyCloses
      BY <1>t, <2>1, RowsSame
    <3> QED BY <1>1, <1>2, <1>3, <1>a, <1>t, <3>1, HoldsCalm
  <2>2. CASE v = 0 /\ row' = Booked(r, 0, 0)
    <3>1. row[r].st = "open" => 0 <= row[r].size
      BY <1>5, CopyAssumption
    <3>2. Bound(r) = 0
      BY <1>3 DEF Bound
    <3>3. 0 \in 0..MaxLots
      BY CopyAssumption
    <3>4. ord[r].p = x /\ row[r].st = "open" => Toward(r) <= 0 + Bound(r)
      BY <1>4, <1>6, <2>2, <3>2
    <3> QED BY <1>1, <1>2, <1>3, <1>4, <1>t, <2>2, <3>1, <3>3, <3>4, HoldsBooked
  <2>3. CASE v > 0 /\ v < row[r].size /\ row' = Booked(r, v, row[r].base)
    <3>1. v \in 0..MaxLots /\ (row[r].st = "open" => v <= row[r].size)
      BY <1>4, <1>5, <2>3, CopyAssumption
    <3>2. Bound(r) = 0
      BY <1>3 DEF Bound
    <3>4. ord[r].p = x /\ row[r].st = "open" => Toward(r) <= v + Bound(r)
      BY <1>4, <1>6, <3>2
    <3> HIDE DEF v
    <3> QED BY <1>1, <1>2, <1>3, <1>4, <1>5, <1>t, <2>3, <3>1, <3>4, HoldsBooked
  <2> QED BY <1>7, <2>1, <2>2, <2>3
<1>10. Opens(x)'
  BY <1>1, <1>2, <1>a, <1>t, OpensAway
<1>11. Books(x)'
  <2>1. RowsKnown(x)'
    <3>1. \A o \in Orders : ord[o].p = x /\ row[o].st = "open" => o = k.rows[x]
      BY <1>1, <1>a, <1>t DEF Books, RowsKnown, Unseen, Poll
    <3>2. CASE k'.rows[x] = k.rows[x]
      BY <1>2, <1>9, <3>1, <3>2 DEF RowsKnown, OnlyCloses, SameOrders
    <3>3. CASE x = p /\ row' = Booked(r, 0, 0)
      <4>1. row'[r].st # "open"
        BY <1>4, <1>t, <3>3, BookedEffect, CopyAssumption
      <4> QED BY <1>2, <1>9, <3>1, <3>3, <4>1 DEF RowsKnown, OnlyCloses, SameOrders
    <3> QED BY <1>8, <1>t, <3>2, <3>3
  <2>2. SweptLeft(x)'
    <3>1. CASE x \in k'.todo
      <4>1. x # p /\ k'.rows[x] = k.rows[x] /\ x \in k.todo
        BY <1>8, <1>t, <3>1
      <4>2. k.rows[x] \in Orders
        BY <1>1, <4>1, InHandTypes
      <4>3. row'[k.rows[x]].st = "open" => row[k.rows[x]].st = "open"
        BY <1>9, <4>2 DEF OnlyCloses
      <4> QED BY <1>1, <1>8, <1>a, <4>1, <4>3 DEF Books, SweptLeft, Poll, Toward
    <3>2. CASE x \notin k'.todo
      BY <3>2 DEF SweptLeft
    <3> QED BY <3>1, <3>2
  <2> QED BY <1>1, <2>1, <2>2 DEF Books, BookedLeft, UnwindsAll, Poll
<1>12. Ends(x)'
  <2>1. FlattensStay
    BY <1>1 DEF FlattensStay
  <2> QED BY <1>2, <1>3, <1>9, <1>a, <1>t, <2>1, EndsKept
<1>13. StoppedClosed(x)'
  BY <1>1, <1>2, <1>3, <1>9, <1>a, StoppedKept
<1> QED BY <1>9, <1>10, <1>11, <1>12, <1>13 DEF Account

LEMMA FlattenBookAccount ==
  ASSUME IInv, Types', NEW t \in Actors, FlattenBook(t), NEW x \in Products \ lost'
  PROVE  Account(x)'
<1> USE DEF Goto, PollGoto, Kept, Return, Upset, Spend
<1>t. Types /\ x \in Products \ lost /\ x \in Products
  BY DEF IInv, FlattenBook
<1>a. Account(x) /\ Holds(x) /\ Opens(x) /\ Books(x) /\ Ends(x) /\ StoppedClosed(x)
  BY <1>t DEF IInv, Account
<1>1. /\ UNCHANGED <<ord, held, pend, k, fl, mirror>> /\ pc[t] = "flat_book" /\ pc'[t] = "flatten"
      /\ \A s \in Actors : s # t => pc'[s] = pc[s]
  BY <1>t DEF FlattenBook, venueVars, pendVars, Types, PcType
<1>2. SameOrders /\ Nearer(x)
  BY <1>1, <1>t, SameOrdersOf, NearerOf
<1>3. Hand' = Hand /\ Growing' = Growing /\ InHand' = InHand
  BY <1>1, AckTypes DEF Hand, Growing, InHand, Poll, InFlight
<1> DEFINE r == fl[t].o
<1>4. r \in Orders /\ row' = Booked(r, 0, 0) /\ row[r].size \in 0..MaxLots
  BY <1>1, <1>t, InHandTypes, OrderTypes DEF FlattenBook
<1>5. ord[r].p = x /\ row[r].st = "open" => Toward(r) <= 0 + Bound(r)
  <2>1. Bound(r) \in Nat
    BY <1>4, OwedInt
  <2> QED BY <1>1, <1>a, <2>1 DEF Ends, FlatBooked
<1>6. Holds(x)' /\ OnlyCloses /\ Owners(x)' \subseteq Owners(x)
  <2>1. 0 \in 0..MaxLots /\ (row[r].st = "open" => 0 <= row[r].size)
    BY <1>4, CopyAssumption
  <2> HIDE DEF r
  <2> QED BY <1>1, <1>2, <1>3, <1>4, <1>5, <1>t, <2>1, HoldsBooked
<1>7. Opens(x)' /\ Books(x)'
  <2>1. CASE pc'["poll"] = pc["poll"]
    BY <1>1, <1>2, <1>6, <1>a, <1>t, <2>1, OpensKept, BooksKept
  <2>2. CASE pc["poll"] = "flat_book" /\ pc'["poll"] = "flatten"
    BY <1>1, <1>2, <1>a, <1>t, <2>2, OpensAway, BooksAtHome DEF Opened
  <2> QED BY <1>1, <2>1, <2>2, AckTypes
<1>8. Ends(x)'
  <2>1. FlattensStay
    BY <1>1 DEF FlattensStay
  <2> QED BY <1>1, <1>2, <1>3, <1>6, <1>a, <1>t, <2>1, EndsKept
<1>9. StoppedClosed(x)'
  BY <1>1, <1>2, <1>3, <1>6, <1>a, StoppedKept
<1> QED BY <1>6, <1>7, <1>8, <1>9 DEF Account

LEMMA BookCloseAccount ==
  ASSUME IInv, Types', BookClose, NEW x \in Products \ lost'
  PROVE  Account(x)'
<1> USE DEF Goto, PollGoto, Kept, Return, Upset, Spend
<1>t. Types /\ x \in Products \ lost /\ x \in Products
  BY DEF IInv, BookClose
<1>a. Account(x) /\ Holds(x) /\ Opens(x) /\ Books(x) /\ Ends(x) /\ StoppedClosed(x)
  BY <1>t DEF IInv, Account
<1>1. /\ UNCHANGED <<ord, held, pend, fl, mirror>> /\ pc["poll"] = "book" /\ pc'["poll"] = k.back
      /\ pc'["user"] = pc["user"] /\ k.back \in {"open", "close"}
  BY <1>t, LocalTypes DEF BookClose, venueVars, pendVars, Types, PcType, Actors
<1>2. SameOrders /\ Nearer(x)
  BY <1>1, <1>t, SameOrdersOf, NearerOf
<1>3. Hand = {} /\ Hand' = {} /\ Growing = {} /\ Growing' = {} /\ InHand' = {}
  BY <1>1 DEF Hand, Growing, InHand, Poll, InFlight
<1> DEFINE r == k.o
<1>4. r \in Orders /\ row' = Booked(r, k.cut, k.base) /\ k.cut \in 0..row[r].size /\ row[r].size \in 0..MaxLots /\ k.base \in 0..MaxLots
  BY <1>1, <1>t, InHandTypes, OrderTypes, LocalTypes DEF BookClose, IInv, Steps, Poll
<1>5. ord[r].p = x /\ row[r].st = "open" => Toward(r) <= k.cut + Bound(r)
  <2>1. Bound(r) = 0 /\ k.cut \in Int
    BY <1>3, <1>4 DEF Bound
  <2> QED BY <1>1, <1>a, <2>1 DEF Books, BookedLeft, Poll
<1>6. Holds(x)' /\ OnlyCloses
  <2>1. k.cut \in 0..MaxLots /\ (row[r].st = "open" => k.cut <= row[r].size)
    BY <1>4, CopyAssumption
  <2> HIDE DEF r
  <2> QED BY <1>1, <1>2, <1>3, <1>4, <1>5, <1>t, <2>1, HoldsBooked
<1>7. Opens(x)'
  BY <1>1, <1>2, <1>a, <1>t, OpensAway
<1>8. k.cut = 0 => row'[r].st # "open"
  BY <1>4, <1>t, BookedEffect, CopyAssumption
<1>9. Books(x)'
  <2>1. k'.rows = k.rows /\ k'.todo = k.todo
    BY <1>t DEF BookClose, Types, LocalType, Locals
  <2>2. x \in Unseen' => x \in Unseen
    BY <1>1, <1>t, <2>1 DEF Unseen, Poll, Opened
  <2>3. RowsKnown(x)'
    BY <1>2, <1>6, <1>8, <1>a, <2>1, <2>2 DEF Books, RowsKnown, OnlyCloses, SameOrders
  <2> QED BY <1>1, <2>3 DEF Books, BookedLeft, UnwindsAll, SweptLeft, Poll
<1>10. Ends(x)'
  <2>1. FlattensStay
    BY <1>1, AckTypes DEF FlattensStay
  <2> QED BY <1>2, <1>3, <1>6, <1>a, <1>t, <2>1, EndsKept
<1>11. StoppedClosed(x)'
  BY <1>1, <1>2, <1>6, <1>8, <1>a DEF StoppedClosed, InHand, OnlyCloses, SameOrders
<1> QED BY <1>6, <1>7, <1>9, <1>10, <1>11 DEF Account

-----------------------------------------------------------------------------
(* Account: a maker open until its fill is known or it is pending.           *)

LEMMA WaitFilledAccount ==
  ASSUME IInv, Types', WaitFilled, NEW x \in Products \ lost'
  PROVE  Account(x)'
<1> USE DEF Goto, PollGoto, Kept, Return, Upset, Spend
<1>t. Types /\ x \in Products \ lost /\ x \in Products
  BY DEF IInv, WaitFilled
<1>a. Account(x) /\ Holds(x) /\ Opens(x) /\ Books(x) /\ Ends(x) /\ StoppedClosed(x)
  BY <1>t DEF IInv, Account
<1>1. /\ UNCHANGED <<ord, row, held, pend, fl, mirror>> /\ pc["poll"] = "wait" /\ pc'["poll"] = "insert"
      /\ pc'["user"] = pc["user"] /\ ord[k.o].filled = ord[k.o].size
  BY <1>t DEF WaitFilled, venueVars, pendVars, Types, PcType, Actors
<1>k. k'.seen = ord[k.o].size /\ k'.o = k.o /\ k'.p = k.p /\ k'.rows = k.rows /\ k'.todo = k.todo
  BY <1>t DEF WaitFilled, Types, LocalType, Locals
<1>2. SameOrders /\ Nearer(x) /\ SameSizes /\ OnlyCloses
  BY <1>1, <1>t, SameOrdersOf, NearerOf, RowsSame
<1>3. Hand' = Hand /\ Growing = {} /\ Growing' = {} /\ InHand = {} /\ InHand' = {}
  BY <1>1, <1>k DEF Hand, Growing, InHand, Poll, InFlight
<1>4. k.o \in Orders /\ ~ord[k.o].live
  <2>1. k.o \in Orders
    BY <1>1, InHandTypes
  <2>2. ord[k.o].filled \in Int
    BY <1>t, <2>1, OrderTypes, CopyAssumption
  <2> QED BY <1>1, <2>1, <2>2 DEF IInv, Orderly
<1>5. Opens(x)'
  <2>1. LiveOwned(x)'
    BY <1>1, <1>4, <1>a DEF Opens, LiveOwned, Poll
  <2> QED BY <1>1, <1>k, <2>1 DEF Opens, SeenAll, OpensBare, AddsToRow, Poll
<1>6. Books(x)'
  <2>1. x \in Unseen' => x \in Unseen
    BY <1>1, <1>k DEF Unseen, Poll, Opened
  <2> QED BY <1>1, <1>2, <1>k, <1>a, <1>t, <2>1, BooksAtOpen DEF Opened
<1>7. Ends(x)'
  <2>1. FlattensStay
    BY <1>1, AckTypes DEF FlattensStay
  <2> QED BY <1>2, <1>3, <1>a, <1>t, <2>1, EndsKept
<1>8. StoppedClosed(x)'
  BY <1>1, <1>2, <1>3, <1>a, StoppedKept
<1> QED BY <1>1, <1>2, <1>3, <1>t, <1>5, <1>6, <1>7, <1>8, AccountShifts

LEMMA WaitOverAccount ==
  ASSUME IInv, Types', WaitOver, NEW x \in Products \ lost'
  PROVE  Account(x)'
<1> USE DEF Goto, PollGoto, Kept, Return, Upset, Spend
<1>t. Types /\ x \in Products \ lost /\ x \in Products
  BY DEF IInv, WaitOver
<1>a. Account(x) /\ Holds(x) /\ Opens(x) /\ Books(x) /\ Ends(x) /\ StoppedClosed(x)
  BY <1>t DEF IInv, Account
<1>1. /\ UNCHANGED <<row, held, pend, fl, mirror>> /\ pc["poll"] = "wait" /\ pc'["poll"] = "readback"
      /\ pc'["user"] = pc["user"] /\ (UNCHANGED ord \/ ord' = Cancelled(k.o))
  BY <1>t DEF WaitOver, pendVars, Types, PcType, Actors
<1>k. k'.o = k.o /\ k'.p = k.p /\ k'.rows = k.rows /\ k'.todo = k.todo
  BY <1>t DEF WaitOver, Types, LocalType, Locals
<1>2. SameOrders /\ Nearer(x) /\ SameSizes /\ OnlyCloses
  BY <1>1, <1>t, SameOrdersOf, NearerOf, RowsSame
<1>3. Hand' = Hand /\ Growing = {} /\ Growing' = {} /\ InHand = {} /\ InHand' = {}
  BY <1>1, <1>k DEF Hand, Growing, InHand, Poll, InFlight
<1>5. Opens(x)'
  <2>1. LiveOwned(x)'
    BY <1>1, <1>2, <1>k, <1>a DEF Opens, LiveOwned, SameOrders, Poll
  <2> QED BY <1>1, <1>k, <2>1 DEF Opens, SeenAll, OpensBare, AddsToRow, Poll
<1>6. Books(x)'
  <2>1. x \in Unseen' => x \in Unseen
    BY <1>1, <1>k DEF Unseen, Poll, Opened
  <2> QED BY <1>1, <1>2, <1>k, <1>a, <1>t, <2>1, BooksAtOpen DEF Opened
<1>7. Ends(x)'
  <2>1. FlattensStay
    BY <1>1, AckTypes DEF FlattensStay
  <2> QED BY <1>2, <1>3, <1>a, <1>t, <2>1, EndsKept
<1>8. StoppedClosed(x)'
  BY <1>1, <1>2, <1>3, <1>a, StoppedKept
<1> QED BY <1>1, <1>2, <1>3, <1>t, <1>5, <1>6, <1>7, <1>8, AccountShifts

LEMMA ReadBackAccount ==
  ASSUME IInv, Types', ReadBack, NEW x \in Products \ lost'
  PROVE  Account(x)'
<1> USE DEF Goto, PollGoto, Kept, Return, Upset, Spend
<1>t. Types /\ x \in Products \ lost /\ x \in Products
  BY DEF IInv, ReadBack, ShortBy
<1>a. Account(x) /\ Holds(x) /\ Opens(x) /\ Books(x) /\ Ends(x) /\ StoppedClosed(x)
  BY <1>t DEF IInv, Account
<1>1. /\ UNCHANGED <<ord, row, held, pend, fl, mirror>> /\ pc["poll"] = "readback"
      /\ pc'["poll"] \in {"insert", "open", "register"} /\ pc'["user"] = pc["user"]
  BY <1>t DEF ReadBack, venueVars, pendVars, Types, PcType, Actors
<1>k. /\ k'.o = k.o /\ k'.p = k.p /\ k'.rows = k.rows /\ k'.todo = k.todo /\ k'.q = k.q
      /\ pc'["poll"] = "insert" /\ x = k.p => k'.seen = ord[k.o].filled /\ ~ord[k.o].live
      /\ pc'["poll"] = "open" => k.q.acked /\ held[k.p] = 0
  <2>1. \/ \E s \in Shown(k.o) : /\ pc' = [pc EXCEPT !["poll"] = "insert"] /\ k' = [k EXCEPT !.seen = s]
                                 /\ ShortBy(k.p, s # ord[k.o].filled \/ ord[k.o].live)
        \/ pc' = [pc EXCEPT !["poll"] = "open"] /\ k' = k /\ k.q.acked /\ held[k.p] = 0
        \/ pc' = [pc EXCEPT !["poll"] = "register"] /\ k' = k
    BY DEF ReadBack
  <2>2. ASSUME NEW s \in Shown(k.o), pc' = [pc EXCEPT !["poll"] = "insert"], k' = [k EXCEPT !.seen = s],
               ShortBy(k.p, s # ord[k.o].filled \/ ord[k.o].live)
        PROVE  /\ pc'["poll"] = "insert" /\ k'.seen = s /\ k'.o = k.o /\ k'.p = k.p /\ k'.rows = k.rows /\ k'.todo = k.todo /\ k'.q = k.q
               /\ x = k.p => s = ord[k.o].filled /\ ~ord[k.o].live
    <3>1. pc'["poll"] = "insert" /\ k'.seen = s /\ k'.o = k.o /\ k'.p = k.p /\ k'.rows = k.rows /\ k'.todo = k.todo /\ k'.q = k.q
      BY <1>t, <2>2 DEF Types, PcType, Actors, LocalType, Locals
    <3>2. x = k.p => ~(s # ord[k.o].filled \/ ord[k.o].live)
      BY <2>2 DEF ShortBy
    <3> QED BY <3>1, <3>2
  <2>3. CASE pc' = [pc EXCEPT !["poll"] = "open"] /\ k' = k /\ k.q.acked /\ held[k.p] = 0
    BY <1>t, <2>3 DEF Types, PcType, Actors
  <2>4. CASE pc' = [pc EXCEPT !["poll"] = "register"] /\ k' = k
    BY <1>t, <2>4 DEF Types, PcType, Actors
  <2> QED BY <2>1, <2>2, <2>3, <2>4
<1>2. SameOrders /\ Nearer(x) /\ SameSizes /\ OnlyCloses
  BY <1>1, <1>t, SameOrdersOf, NearerOf, RowsSame
<1>3. Hand = {k.o} /\ Growing = {} /\ Growing' = {} /\ InHand = {} /\ InHand' = {}
  BY <1>1 DEF Hand, Growing, InHand, Poll, InFlight
<1>4. k.o \in Orders /\ ord[k.o].p = k.p /\ row[k.o].st = "none" /\ pend[k.p].o = 0 /\ (k.q.acked => ~ord[k.o].live)
  BY <1>1, InHandTypes DEF IInv, Steps, Poll, InFlight
<1>6. Books(x)'
  <2>1. x \in Unseen' => x \in Unseen
    BY <1>1, <1>k DEF Unseen, Poll, Opened
  <2> QED BY <1>1, <1>2, <1>k, <1>a, <1>t, <2>1, BooksAtOpen DEF Opened
<1>7. Ends(x)'
  <2>1. FlattensStay
    BY <1>1, AckTypes DEF FlattensStay
  <2> QED BY <1>2, <1>3, <1>a, <1>t, <2>1, EndsKept
<1>8. StoppedClosed(x)'
  BY <1>1, <1>2, <1>3, <1>a, StoppedKept
<1>9. CASE pc'["poll"] \in {"insert", "register"}
  <2>1. Hand' = Hand
    BY <1>1, <1>k, <1>9 DEF Hand, Poll, InFlight
  <2>2. LiveOwned(x)'
    <3>1. CASE x = k.p /\ pc'["poll"] = "insert"
      BY <1>1, <1>a, <1>k, <3>1 DEF Opens, LiveOwned, Poll
    <3>2. CASE x # k.p
      BY <1>1, <1>4, <1>a, <3>2 DEF Opens, LiveOwned, Poll
    <3>3. CASE pc'["poll"] = "register"
      BY <1>1, <1>a, <1>k, <3>3 DEF Opens, LiveOwned, Poll
    <3> QED BY <1>9, <3>1, <3>2, <3>3
  <2>3. SeenAll(x)'
    BY <1>1, <1>9, <1>k DEF SeenAll, Poll
  <2>4. Opens(x)'
    BY <1>9, <2>2, <2>3 DEF Opens, OpensBare, AddsToRow, Poll
  <2> QED BY <1>1, <1>2, <1>3, <1>t, <1>6, <1>7, <1>8, <2>1, <2>4, AccountShifts
<1>10. CASE pc'["poll"] = "open"
  <2>1. Hand' = {}
    BY <1>10 DEF Hand, Poll, InFlight
  <2>2. LiveOwned(x)'
    BY <1>1, <1>4, <1>k, <1>10, <1>a DEF Opens, LiveOwned, Poll
  <2>3. Opens(x)'
    BY <1>10, <2>2 DEF Opens, SeenAll, OpensBare, AddsToRow, Poll
  <2>4. CASE x # k.p
    <3>1. \A o \in Orders : ord[o].p = x => (Owns(o)' <=> Owns(o))
      BY <1>1, <1>3, <1>4, <2>1, <2>4 DEF Owns
    <3>2. \A o \in Orders : ord[o].p = x /\ Owns(o) => Owed(o)' = Owed(o)
      BY <1>1, <1>3 DEF Owed, Bound
    <3>3. Holds(x)'
      BY <1>2, <1>a, <1>t, <3>1, <3>2, HoldsKept
    <3> QED BY <1>6, <1>7, <1>8, <2>3, <3>3 DEF Account
  <2>5. CASE x = k.p
    <3>1. \A o \in Orders : ord[o].p = x /\ Owns(o) => o = k.o
      BY <1>3, <1>4, <1>t, <2>5, OneClaim DEF Owns
    <3>2. Owners(x)' = {}
      BY <1>1, <1>3, <1>4, <2>1, <2>5, <3>1, CopyAssumption DEF Owners, Owns, Orders
    <3>3. held'[x] = 0
      BY <1>1, <1>10, <1>k, <2>5
    <3>4. Holds(x)'
      BY <3>2, <3>3 DEF Holds, OneOwner, FlatUnowned, OwnedHeld
    <3> QED BY <1>6, <1>7, <1>8, <2>3, <3>4 DEF Account
  <2> QED BY <2>4, <2>5
<1> QED BY <1>1, <1>9, <1>10

LEMMA register_pending_maker_openAccount ==
  ASSUME IInv, Types', _register_pending_maker_open, NEW x \in Products \ lost'
  PROVE  Account(x)'
<1> USE DEF Goto, PollGoto, Kept, Return, Upset, Spend
<1>t. Types /\ x \in Products \ lost /\ x \in Products
  BY DEF IInv, _register_pending_maker_open
<1>a. Account(x) /\ Holds(x) /\ Opens(x) /\ Books(x) /\ Ends(x) /\ StoppedClosed(x)
  BY <1>t DEF IInv, Account
<1>1. /\ UNCHANGED <<ord, row, held, fl, mirror, k>> /\ pc["poll"] = "register" /\ pc'["poll"] = "rearm_pending"
      /\ pc'["user"] = pc["user"]
  BY <1>t DEF _register_pending_maker_open, venueVars, Types, PcType, Actors
<1>2. SameOrders /\ Nearer(x) /\ SameSizes /\ OnlyCloses
  BY <1>1, <1>t, SameOrdersOf, NearerOf, RowsSame
<1>3. Hand = {k.o} /\ Hand' = {} /\ Growing = {} /\ Growing' = {} /\ InHand = {} /\ InHand' = {}
  BY <1>1 DEF Hand, Growing, InHand, Poll, InFlight
<1>4. k.o \in Orders /\ ord[k.o].p = k.p /\ pend[k.p].o = 0 /\ k.p \in Products /\ k.q.o = k.o
  BY <1>1, <1>t, InHandTypes, LocalTypes DEF IInv, Steps, Poll, InFlight
<1>5. pend'[k.p].o = k.o /\ (x # k.p => pend'[x] = pend[x])
  BY <1>4, <1>t DEF _register_pending_maker_open, Types, PendType
<1>6. \A o \in Orders : ord[o].p = x => (Owns(o)' <=> Owns(o))
  BY <1>1, <1>3, <1>4, <1>5, CopyAssumption DEF Owns, Orders
<1>7. \A o \in Orders : ord[o].p = x /\ Owns(o) => Owed(o)' = Owed(o)
  BY <1>1, <1>3 DEF Owed, Bound
<1>8. Holds(x)'
  BY <1>2, <1>6, <1>7, <1>a, <1>t, HoldsKept
<1>9. Opens(x)'
  <2>1. LiveOwned(x)'
    BY <1>1, <1>4, <1>5, <1>a, CopyAssumption DEF Opens, LiveOwned, Poll, Orders
  <2> QED BY <1>1, <2>1 DEF Opens, SeenAll, OpensBare, AddsToRow, Poll
<1>10. Books(x)'
  <2>1. x \in Unseen' => x \in Unseen
    BY <1>1 DEF Unseen, Poll, Opened
  <2> QED BY <1>1, <1>2, <1>a, <1>t, <2>1, BooksAtOpen DEF Opened
<1>11. Ends(x)'
  <2>1. FlattensStay
    BY <1>1, AckTypes DEF FlattensStay
  <2> QED BY <1>2, <1>3, <1>a, <1>t, <2>1, EndsKept
<1>12. StoppedClosed(x)'
  BY <1>1, <1>2, <1>3, <1>a, StoppedKept
<1> QED BY <1>8, <1>9, <1>10, <1>11, <1>12 DEF Account

-----------------------------------------------------------------------------
(* Account: adds.                                                            *)

LEMMA AddAccount ==
  ASSUME IInv, Types', NEW p \in Products, Add(p), NEW x \in Products \ lost'
  PROVE  Account(x)'
<1> USE DEF Goto, PollGoto, Kept, Return, Upset, Spend
<1>t. Types /\ x \in Products \ lost /\ x \in Products
  BY DEF IInv, Add
<1>a. Account(x) /\ Holds(x) /\ Opens(x) /\ Books(x) /\ Ends(x) /\ StoppedClosed(x)
  BY <1>t DEF IInv, Account
<1>1. /\ UNCHANGED <<ord, held, pend, fl, mirror>> /\ pc["poll"] = "open" /\ pc'["poll"] \in {"open", "add"}
      /\ pc'["user"] = pc["user"] /\ p \in k.todo /\ k.rows[p] # 0
  BY <1>t DEF Add, Opening, Tracks, venueVars, pendVars, Types, PcType, Actors
<1>k. /\ k'.rows = k.rows /\ k'.todo \subseteq k.todo
      /\ pc'["poll"] = "add" => k'.p = p /\ pend[p].o = 0
  <2>1. \/ pc' = [pc EXCEPT !["poll"] = "open"] /\ (k' = Without(p) \/ k' = [Without(p) EXCEPT !.p = p])
        \/ pc' = [pc EXCEPT !["poll"] = "add"] /\ k' = [Without(p) EXCEPT !.p = p] /\ pend[p].o = 0
    BY DEF Add
  <2>2. Without(p).rows = k.rows /\ Without(p).todo \subseteq k.todo /\ Without(p) \in Locals
    BY <1>t DEF Without, Types, LocalType, Locals
  <2>3. k' = Without(p) \/ (k'.rows = Without(p).rows /\ k'.todo = Without(p).todo /\ k'.p = p)
    BY <2>1, <2>2 DEF Locals
  <2>4. pc'["poll"] = "add" => k'.p = p /\ pend[p].o = 0
    <3>1. CASE pc' = [pc EXCEPT !["poll"] = "open"]
      BY <1>t, <3>1 DEF Types, PcType, Actors
    <3>2. CASE k' = [Without(p) EXCEPT !.p = p] /\ pend[p].o = 0
      BY <2>2, <3>2 DEF Locals
    <3> QED BY <2>1, <3>1, <3>2
  <2> QED BY <2>2, <2>3, <2>4
<1>r. SameSizes
  <2>1. k.rows[p] \in Orders /\ Copy(p).size \in 1..MaxLots /\ Size(p) \in 0..MaxLots
    BY <1>1, AddedTypes DEF Copy
  <2>2. CASE UNCHANGED row
    BY <2>2 DEF SameSizes
  <2>3. CASE row' = Booked(k.rows[p], Copy(p).size, Size(p))
    <3>1. Copy(p).size \in 0..MaxLots /\ Copy(p).size # 0
      BY <2>1, CopyAssumption
    <3> QED BY <1>t, <2>1, <2>3, <3>1, BookedEffect DEF SameSizes, Copy
  <2> QED BY <2>2, <2>3 DEF Add
<1>2. SameOrders /\ Nearer(x) /\ OnlyCloses
  BY <1>1, <1>r, <1>t, SameOrdersOf, NearerOf, SizesSame
<1>3. Hand = {} /\ Hand' = {} /\ Growing = {} /\ Growing' = {} /\ InHand = {} /\ InHand' = {}
  BY <1>1 DEF Hand, Growing, InHand, Poll, InFlight
<1>4. Opens(x)'
  <2>1. LiveOwned(x)'
    BY <1>1, <1>2, <1>a DEF Opens, LiveOwned, SameOrders, Poll
  <2>2. AddsToRow(x)'
    <3> SUFFICES ASSUME pc'["poll"] = "add", x = p PROVE Owners(x)' \subseteq {k.rows[p]}
      BY <1>k DEF AddsToRow, Poll
    <3>1. \A o \in Orders : ord[o].p = x /\ row[o].st = "open" => o = k.rows[x]
      BY <1>1, <1>a DEF Books, RowsKnown, Unseen, Poll
    <3>2. pend[x].o = 0
      BY <1>k
    <3> QED BY <1>1, <1>3, <1>r, <3>1, <3>2, CopyAssumption DEF Owners, Owns, SameSizes, Orders
  <2> QED BY <1>1, <2>1, <2>2 DEF Opens, SeenAll, OpensBare, Poll
<1>5. Books(x)'
  <2>1. x \in Unseen' => x \in Unseen
    BY <1>1, <1>k DEF Unseen, Poll, Opened
  <2> QED BY <1>1, <1>2, <1>k, <1>a, <1>t, <2>1, BooksAtOpen DEF Opened
<1>6. Ends(x)'
  <2>1. FlattensStay
    BY <1>1, AckTypes DEF FlattensStay
  <2> QED BY <1>2, <1>3, <1>a, <1>t, <2>1, EndsKept
<1>7. StoppedClosed(x)'
  BY <1>1, <1>2, <1>3, <1>a, StoppedKept
<1> QED BY <1>1, <1>2, <1>3, <1>r, <1>t, <1>4, <1>5, <1>6, <1>7, AccountShifts

LEMMA AddSendAccount ==
  ASSUME IInv, Types', AddSend, NEW x \in Products \ lost'
  PROVE  Account(x)'
<1> USE DEF Goto, PollGoto, Kept, Return, Upset, Spend
<1>t. Types /\ x \in Products \ lost /\ x \in Products
  BY DEF IInv, AddSend
<1>a. Account(x) /\ Holds(x) /\ Opens(x) /\ Books(x) /\ Ends(x) /\ StoppedClosed(x)
  BY <1>t DEF IInv, Account
<1>1. /\ UNCHANGED <<ord, row, pend, fl, mirror>> /\ pc["poll"] = "add" /\ pc'["poll"] \in {"open", "grow"}
      /\ pc'["user"] = pc["user"]
  BY <1>t DEF AddSend, pendVars, Types, PcType, Actors
<1>k. /\ k'.rows = k.rows /\ k'.todo = k.todo /\ k'.p = k.p
      /\ \/ pc'["poll"] = "open" /\ held' = held
         \/ pc'["poll"] = "grow" /\ held' = [held EXCEPT ![k.p] = @ + ord[k.rows[k.p]].d * Added(k.p)] /\ k'.seen = Added(k.p)
  <2>1. CASE k' = k /\ pc' = [pc EXCEPT !["poll"] = "open"] /\ UNCHANGED held
    BY <1>t, <2>1 DEF Types, PcType, Actors
  <2>2. CASE /\ k' = [k EXCEPT !.seen = Added(k.p)] /\ pc' = [pc EXCEPT !["poll"] = "grow"]
             /\ held' = [held EXCEPT ![k.p] = @ + ord[k.rows[k.p]].d * Added(k.p)]
    BY <1>t, <2>2 DEF Types, PcType, Actors, LocalType, Locals
  <2> QED BY <2>1, <2>2 DEF AddSend
<1>2. SameOrders /\ OnlyCloses /\ SameSizes
  BY <1>1, <1>t, SameOrdersOf, RowsSame
<1>3. Hand = {} /\ Hand' = {} /\ Growing = {} /\ InHand = {} /\ InHand' = {}
  BY <1>1 DEF Hand, Growing, InHand, Poll, InFlight
<1>0. k.p \in Products /\ k.rows[k.p] # 0 /\ Added(k.p) > 0
  BY <1>1, <1>t, LocalTypes DEF IInv, Steps, Poll
<1>r. PICK r \in Orders : r = k.rows[k.p]
  BY <1>0, AddedTypes
<1>n. PICK n \in Int : n = Added(k.p)
  BY <1>0, AddedTypes
<1>4. ord[r].p = k.p /\ row[r].st # "none" /\ k.p \in Products /\ n > 0
  BY <1>0, <1>r, <1>n DEF IInv, Names
<1>5. Opens(x)'
  BY <1>1, <1>2, <1>a, <1>t, OpensAway
<1>6. Books(x)'
  <2>1. x \in Unseen' => x \in Unseen
    BY <1>1, <1>k DEF Unseen, Poll, Opened
  <2> QED BY <1>1, <1>2, <1>k, <1>a, <1>t, <2>1, BooksAtOpen DEF Opened
<1>7. StoppedClosed(x)'
  BY <1>1, <1>2, <1>3, <1>a, StoppedKept
<1>8. FlattensStay
  BY <1>1, AckTypes DEF FlattensStay
<1>9. CASE pc'["poll"] = "open"
  <2>1. Growing' = {} /\ Nearer(x)
    BY <1>9, <1>k, <1>t, NearerOf DEF Growing, Poll
  <2>2. Ends(x)'
    BY <1>2, <1>3, <1>8, <1>a, <1>t, <2>1, EndsKept
  <2> QED BY <1>1, <1>2, <1>3, <1>t, <1>5, <1>6, <1>7, <2>1, <2>2, AccountShifts
<1>10. CASE pc'["poll"] = "grow"
  <2>1. Growing' = {r} /\ k'.seen = n /\ held' = [held EXCEPT ![k.p] = @ + ord[r].d * n]
    BY <1>10, <1>k, <1>r, <1>n DEF Growing, Poll
  <2>2. CASE x # k.p
    <3>1. Nearer(x)
      BY <1>t, <2>1, <2>2, NearerSame DEF Types, HoldType
    <3>2. \A o \in Orders : ord[o].p = x => Bound(o) = 0 /\ Bound(o)' = 0
      BY <1>3, <1>4, <2>1, <2>2 DEF Bound
    <3>3. \A o \in Orders : ord[o].p = x => (Owns(o)' <=> Owns(o))
      BY <1>1, <1>3, <1>4, <2>1, <2>2 DEF Owns
    <3>4. \A o \in Orders : ord[o].p = x /\ Owns(o) => Owed(o)' = Owed(o)
      BY <1>1, <3>2 DEF Owed
    <3>5. Holds(x)'
      BY <1>2, <1>a, <1>t, <3>1, <3>3, <3>4, HoldsKept
    <3>6. FlattensAll(x)'
      BY <1>1, <1>8, <1>a DEF Ends, FlattensAll, FlattensStay
    <3>7. FlatBooked(x)'
      <4>1. ASSUME NEW t \in Actors, pc'[t] = "flat_book", NEW o, o = fl[t].o, ord[o].p = x, row[o].st = "open"
            PROVE  Toward(o)' <= Bound(o)'
        <5>1. pc[t] = "flat_book" /\ o \in Orders
          BY <1>1, <4>1, AckTypes, InHandTypes
        <5>2. Toward(o) <= 0
          BY <1>a, <3>2, <4>1, <5>1 DEF Ends, FlatBooked
        <5>3. Toward(o)' = Toward(o)
          BY <1>1, <1>t, <2>1, <2>2, <4>1 DEF Toward, Types, HoldType
        <5> QED BY <3>2, <4>1, <5>1, <5>2, <5>3
      <4> QED BY <1>1, <4>1 DEF FlatBooked, Toward, Bound
    <3> QED BY <1>5, <1>6, <1>7, <3>5, <3>6, <3>7 DEF Account, Ends
  <2>3. CASE x = k.p
    <3>1. Owners(x) \subseteq {r}
      BY <1>1, <1>a, <1>r, <2>3 DEF Opens, AddsToRow, Poll
    <3>2. Toward(r)' = Toward(r) + n /\ Toward(r) \in Int
      <4>1. ord[r].d \in {-1, 1} /\ held[x] \in Int /\ held'[x] = held[x] + ord[r].d * n
        BY <1>4, <1>t, <2>1, <2>3, OrderTypes DEF Types, HoldType, Sides
      <4>2. Toward(r) = Along(ord[r].d, held[x]) /\ Toward(r)' = Along(ord[r].d, held'[x])
        BY <1>1, <1>4, <2>3 DEF Toward
      <4>3. CASE ord[r].d = 1
        BY <1>4, <4>1, <4>2, <4>3 DEF Along
      <4>4. CASE ord[r].d = -1
        BY <1>4, <4>1, <4>2, <4>4 DEF Along
      <4> QED BY <4>1, <4>3, <4>4
    <3>3. Owed(r) \in Nat /\ Owed(r)' = Owed(r) + n
      <4>1. Owed(r) \in Nat /\ Bound(r) = 0 /\ Bound(r)' = n
        BY <1>3, <1>4, <2>1, OwedInt DEF Bound
      <4>2. row[r].size \in Nat
        BY <1>4, <1>t, OrderTypes, CopyAssumption
      <4> QED BY <1>1, <1>4, <4>1, <4>2 DEF Owed
    <3>4. Toward(r) \in 0..Owed(r)
      <4>1. CASE r \in Owners(x)
        BY <1>a, <4>1 DEF Holds, OwnedHeld
      <4>2. CASE r \notin Owners(x)
        <5>1. held[x] = 0
          BY <1>a, <3>1, <4>2 DEF Holds, FlatUnowned
        <5>2. Toward(r) = 0
          <6>1. Toward(r) = Along(ord[r].d, held[x]) /\ held[x] \in Int
            BY <1>4, <1>t, <2>3, TowardInt DEF Toward
          <6>2. held[x] <= 0 /\ held[x] >= 0
            BY <5>1
          <6>3. CASE ord[r].d = 1
            BY <6>1, <6>2, <6>3 DEF Along
          <6>4. CASE ord[r].d # 1
            BY <6>1, <6>2, <6>4 DEF Along
          <6> QED BY <6>3, <6>4
        <5> QED BY <3>3, <5>2
      <4> QED BY <4>1, <4>2
    <3>5. Owners(x)' = {r}
      <4>1. r \in Owners(x)'
        BY <1>1, <1>4, <2>1, <2>3 DEF Owners, Owns
      <4>2. \A o \in Orders : o \in Owners(x)' /\ o # r => o \in Owners(x)
        BY <1>1, <1>3, <2>1 DEF Owners, Owns
      <4>3. Owners(x)' \subseteq Orders
        BY DEF Owners
      <4> QED BY <3>1, <4>1, <4>2, <4>3
    <3>6. Holds(x)'
      <4>1. Toward(r)' \in 0..Owed(r)'
        BY <1>4, <3>2, <3>3, <3>4
      <4> QED BY <3>5, <4>1 DEF Holds, OneOwner, FlatUnowned, OwnedHeld
    <3>7. FlattensAll(x)'
      BY <1>1, <1>8, <1>a DEF Ends, FlattensAll, FlattensStay
    <3>8. FlatBooked(x)'
      <4>1. ASSUME NEW t \in Actors, pc'[t] = "flat_book", NEW o, o = fl[t].o, ord[o].p = x, row[o].st = "open"
            PROVE  Toward(o)' <= Bound(o)'
        <5>1. pc[t] = "flat_book" /\ o \in Orders
          BY <1>1, <4>1, AckTypes, InHandTypes
        <5>2. o = r
          BY <3>1, <4>1, <5>1 DEF Owners, Owns
        <5>3. Toward(r) <= 0
          BY <1>3, <1>a, <4>1, <5>1, <5>2 DEF Ends, FlatBooked, Bound
        <5>4. Bound(r)' = n
          BY <2>1 DEF Bound
        <5> QED BY <1>4, <3>2, <5>2, <5>3, <5>4
      <4> QED BY <1>1, <4>1 DEF FlatBooked, Toward, Bound
    <3> QED BY <1>5, <1>6, <1>7, <3>6, <3>7, <3>8 DEF Account, Ends
  <2> QED BY <2>2, <2>3
<1> QED BY <1>1, <1>9, <1>10

LEMMA GrowAccount ==
  ASSUME IInv, Types', Grow, NEW x \in Products \ lost'
  PROVE  Account(x)'
<1> USE DEF Goto, PollGoto, Kept, Return, Upset, Spend
<1>t. Types /\ x \in Products \ lost /\ x \in Products
  BY DEF IInv, Grow, ShortBy
<1>a. Account(x) /\ Holds(x) /\ Opens(x) /\ Books(x) /\ Ends(x) /\ StoppedClosed(x)
  BY <1>t DEF IInv, Account
<1>1. /\ UNCHANGED <<ord, held, pend, fl, mirror, k>> /\ pc["poll"] = "grow" /\ pc'["poll"] = "open"
      /\ pc'["user"] = pc["user"]
  BY <1>t DEF Grow, venueVars, pendVars, Types, PcType, Actors
<1>0. k.p \in Products /\ k.rows[k.p] # 0 /\ k.seen > 0 /\ Copy(k.p).size + k.seen <= MaxLots /\ k.seen \in Int
  BY <1>1, <1>t, LocalTypes DEF IInv, Steps, Poll
<1>r. PICK r \in Orders : r = k.rows[k.p]
  BY <1>0, AddedTypes
<1>e. row[r].size \in 1..MaxLots /\ Size(k.p) \in 0..MaxLots
  BY <1>0, <1>r, AddedTypes
<1>n. PICK n \in 1..MaxLots : n = row[r].size + k.seen
  BY <1>0, <1>r, <1>e, CopyAssumption DEF Copy
<1>4. /\ ord[r].p = k.p /\ k.p \in Products /\ Size(k.p) \in 0..MaxLots
      /\ row[r].size \in Nat /\ k.seen \in Nat
  BY <1>0, <1>r, <1>e, CopyAssumption DEF IInv, Names
<1>5. row' = Booked(r, n, Size(k.p))
  BY <1>r, <1>n DEF Grow, Copy
<1>6. x = k.p => ~Stopped /\ row[r].st = "open"
  BY <1>r DEF Grow, ShortBy, Copy
<1>7. /\ \A q \in Orders : row'[q].st = row[q].st /\ (q # r => row'[q] = row[q])
      /\ row[r].st = "open" => row'[r].size = n
  <2>1. n \in 0..MaxLots /\ n # 0
    BY <1>4
  <2> QED BY <1>4, <1>5, <1>t, <2>1, BookedEffect
<1>2. SameOrders /\ Nearer(x)
  BY <1>1, <1>t, SameOrdersOf, NearerOf
<1>3. Hand = {} /\ Hand' = {} /\ Growing = {r} /\ Growing' = {} /\ InHand = {} /\ InHand' = {}
  BY <1>1, <1>r DEF Hand, Growing, InHand, Poll, InFlight
<1>8. Holds(x)'
  <2>1. \A o \in Orders : ord[o].p = x => (Owns(o)' <=> Owns(o))
    BY <1>1, <1>3, <1>4, <1>6, <1>7 DEF Owns
  <2>2. \A o \in Orders : ord[o].p = x /\ o # r => Owed(o)' = Owed(o)
    BY <1>1, <1>3, <1>7 DEF Owed, Bound
  <2>3. x = k.p => Owed(r)' = Owed(r)
    <3>1. x = k.p => Owed(r) = row[r].size + k.seen
      BY <1>3, <1>6 DEF Owed, Bound
    <3>2. x = k.p => Owed(r)' = n
      BY <1>3, <1>4, <1>6, <1>7 DEF Owed, Bound
    <3> QED BY <1>n, <3>1, <3>2
  <2> QED BY <1>2, <1>4, <1>a, <1>t, <2>1, <2>2, <2>3, HoldsKept
<1>9. Opens(x)'
  BY <1>1, <1>2, <1>a, <1>t, OpensAway
<1>10. Books(x)'
  <2>1. x \in Unseen' => x \in Unseen
    BY <1>1 DEF Unseen, Poll, Opened
  <2>2. RowsKnown(x)'
    BY <1>1, <1>7, <1>a, <2>1 DEF Books, RowsKnown, Poll
  <2> QED BY <1>1, <2>2 DEF Books, BookedLeft, UnwindsAll, SweptLeft, Poll
<1>11. Ends(x)'
  <2>0. \A t \in Actors : pc'[t] \in {"flatten", "flat_book"} => t = "user" /\ pc[t] = pc'[t]
    BY <1>1, AckTypes
  <2>1. FlattensAll(x)'
    <3>1. ASSUME NEW t \in Actors, pc'[t] \in {"flatten", "flat_book"}, NEW c \in fl[t].todo,
                 ord[c[1]].p = x, row'[c[1]].st = "open"
          PROVE  row'[c[1]].size <= c[2]
      <4>1. t = "user" /\ pc["user"] = pc'[t] /\ c[1] \in Orders
        BY <2>0, <3>1, InHandTypes
      <4>2. c[1] # r
        <5>1. c[1] = r => x = k.p
          BY <1>4, <3>1
        <5>2. row[c[1]].st = "open"
          BY <1>7, <3>1, <4>1
        <5> QED BY <1>6, <3>1, <4>1, <5>1, <5>2 DEF IInv, UserStops
      <4> QED BY <1>7, <1>a, <3>1, <4>1, <4>2 DEF Ends, FlattensAll
    <3> QED BY <1>1, <3>1 DEF FlattensAll
  <2>2. FlatBooked(x)'
    <3>1. ASSUME NEW t \in Actors, pc'[t] = "flat_book", NEW o, o = fl[t].o, ord[o].p = x, row'[o].st = "open"
          PROVE  Toward(o)' <= Bound(o)'
      <4>1. t = "user" /\ pc["user"] = "flat_book" /\ o \in Orders
        BY <2>0, <3>1, InHandTypes
      <4>2. row[o].st = "open"
        BY <1>7, <3>1, <4>1
      <4>3. o # r
        BY <1>4, <1>6, <3>1, <4>1, <4>2 DEF IInv, UserStops
      <4>4. Toward(o) <= 0
        BY <1>3, <1>a, <3>1, <4>1, <4>2, <4>3 DEF Ends, FlatBooked, Bound
      <4>5. Toward(o)' = Toward(o) /\ Bound(o)' = 0
        BY <1>1, <1>3 DEF Toward, Bound
      <4> QED BY <4>4, <4>5
    <3> QED BY <1>1, <3>1 DEF FlatBooked, Toward, Bound
  <2> QED BY <2>1, <2>2 DEF Ends
<1>12. StoppedClosed(x)'
  BY <1>1, <1>3, <1>7, <1>a DEF StoppedClosed
<1> QED BY <1>8, <1>9, <1>10, <1>11, <1>12 DEF Account

-----------------------------------------------------------------------------
(* Account: a maker open is placed, and its fill gets a row.                 *)

LEMMA PlaceAccount ==
  ASSUME IInv, Types', Place, NEW x \in Products \ lost'
  PROVE  Account(x)'
<1> USE DEF Goto, PollGoto, Kept, Return, Upset, Spend
<1>t. Types /\ x \in Products \ lost /\ x \in Products
  BY DEF IInv, Place
<1>a. Account(x) /\ Holds(x) /\ Opens(x) /\ Books(x) /\ Ends(x) /\ StoppedClosed(x)
  BY <1>t DEF IInv, Account
<1>1. /\ UNCHANGED <<row, held, pend, fl, mirror>> /\ pc["poll"] = "place" /\ pc'["user"] = pc["user"]
  BY <1>t DEF Place, pendVars, Types, PcType, Actors
<1>2. Hand = {} /\ Growing = {} /\ InHand = {}
  BY <1>1 DEF Hand, Growing, InHand, Poll, InFlight
<1>3. CASE UNCHANGED <<ord, k>> /\ pc'["poll"] = "open"
  <2>1. SameOrders /\ Nearer(x) /\ SameSizes /\ OnlyCloses
    BY <1>1, <1>3, <1>t, SameOrdersOf, NearerOf, RowsSame
  <2>2. InHand' = {} /\ Growing' = {}
    BY <1>3 DEF InHand, Growing, Poll
  <2>3. Books(x)'
    <3>1. x \in Unseen' => x \in Unseen
      BY <1>1, <1>3 DEF Unseen, Poll, Opened
    <3> QED BY <1>1, <1>3, <1>a, <1>t, <2>1, <3>1, BooksAtOpen
  <2>4. Ends(x)'
    <3>1. FlattensStay
      BY <1>1, <1>3, AckTypes DEF FlattensStay
    <3> QED BY <1>2, <1>a, <1>t, <2>1, <2>2, <3>1, EndsKept
  <2>5. StoppedClosed(x)'
    BY <1>1, <1>2, <1>a, <2>1, <2>2, StoppedKept
  <2> QED BY <1>1, <1>3, <1>t, <2>1, <2>3, <2>4, <2>5, AccountMoves DEF InFlight
<1>4. CASE \E o \in Orders :
              /\ ord[o].size = 0 /\ k' = [k EXCEPT !.o = o] /\ pc'["poll"] = "wait"
              /\ \A q \in Orders : q # o => ord'[q] = ord[q]
              /\ ord'[o].p = k.p /\ ord'[o].d = Side(k.lmap[k.p]) /\ ord'[o].size = Size(k.p)
              /\ ord'[o].filled = 0 /\ ord'[o].live
  <2>1. PICK o \in Orders :
              /\ ord[o].size = 0 /\ k' = [k EXCEPT !.o = o] /\ pc'["poll"] = "wait"
              /\ \A q \in Orders : q # o => ord'[q] = ord[q]
              /\ ord'[o].p = k.p /\ ord'[o].d = Side(k.lmap[k.p]) /\ ord'[o].size = Size(k.p)
              /\ ord'[o].filled = 0 /\ ord'[o].live
    BY <1>4
  <2>2. k'.o = o /\ k'.p = k.p /\ k'.rows = k.rows /\ k'.todo = k.todo
    BY <1>t, <2>1 DEF Types, LocalType, Locals
  <2>3. /\ row[o].st = "none" /\ \A q \in Products : pend[q].o # o /\ k.rows[q] # o
        /\ \A t \in Actors : pc[t] \in {"flatten", "flat_book"} => \A c \in fl[t].todo : c[1] # o
        /\ \A t \in Actors : pc[t] = "flat_book" => fl[t].o # o
    <3>1. row[o].st = "none"
      BY <1>t, <2>1, OrderTypes, CopyAssumption DEF IInv, Orderly
    <3>2. o # 0
      BY CopyAssumption DEF Orders
    <3>3. \A q \in Products : pend[q].o # o /\ k.rows[q] # o
      BY <2>1, <3>1, <3>2 DEF IInv, Names
    <3> QED BY <3>1, <3>3 DEF IInv, Flattens, Flattening
  <2>4. Hand' = {o} /\ Growing' = {} /\ InHand' = {}
    BY <2>1, <2>2 DEF Hand, Growing, InHand, Poll, InFlight
  <2>5. \A q \in Orders : q # o => /\ Owns(q)' <=> Owns(q)
                                   /\ Owed(q)' = Owed(q) /\ Toward(q)' = Toward(q) /\ Bound(q)' = Bound(q)
    BY <1>1, <1>2, <2>1, <2>4 DEF Owns, Owed, Bound, Toward
  <2>6. ~Owns(o) /\ Owns(o)'
    BY <1>2, <1>t, <2>3, <2>4, OrderTypes DEF Owns
  <2>7. Holds(x)'
    <3>1. CASE x # k.p
      <4>1. Owners(x)' = Owners(x) /\ o \notin Owners(x)
        BY <2>1, <2>5, <2>6, <3>1 DEF Owners
      <4>2. OneOwner(x)' /\ FlatUnowned(x)'
        BY <1>1, <1>a, <4>1 DEF Holds, OneOwner, FlatUnowned
      <4>3. OwnedHeld(x)'
        <5>1. \A q \in Owners(x) : q \in Orders /\ q # o
          BY <4>1 DEF Owners
        <5> QED BY <1>a, <2>5, <4>1, <5>1 DEF Holds, OwnedHeld
      <4> QED BY <4>2, <4>3 DEF Holds
    <3>2. CASE x = k.p
      <4>1. Owners(x) = {} /\ held[x] = 0
        BY <1>1, <1>a, <3>2 DEF Opens, OpensBare, Poll, Holds, FlatUnowned
      <4>2. Owners(x)' = {o}
        <5>1. o \in Owners(x)'
          BY <2>1, <2>6, <3>2 DEF Owners
        <5>2. \A q \in Owners(x)' : q \in Orders /\ (q # o => q \in Owners(x))
          BY <2>1, <2>5 DEF Owners
        <5> QED BY <4>1, <5>1, <5>2
      <4>3. Owed(o)' = 0
        BY <1>1, <2>1, <2>3, <2>4 DEF Owed, Bound
      <4>4. Toward(o)' = 0
        <5>1. Toward(o)' = Along(ord'[o].d, held[x]) /\ held[x] \in Int
          BY <1>1, <1>t, <2>1, <3>2 DEF Toward, Types, HoldType
        <5>2. held[x] <= 0 /\ held[x] >= 0
          BY <4>1
        <5>3. CASE ord'[o].d = 1
          BY <5>1, <5>2, <5>3 DEF Along
        <5>4. CASE ord'[o].d # 1
          BY <5>1, <5>2, <5>4 DEF Along
        <5> QED BY <5>3, <5>4
      <4> QED BY <4>2, <4>3, <4>4 DEF Holds, OneOwner, FlatUnowned, OwnedHeld
    <3> QED BY <3>1, <3>2
  <2>8. Opens(x)'
    <3>1. LiveOwned(x)'
      BY <1>1, <1>a, <2>1, <2>2 DEF Opens, LiveOwned, Poll
    <3> QED BY <2>1, <3>1 DEF Opens, SeenAll, OpensBare, AddsToRow, Poll
  <2>9. Books(x)'
    <3>1. x \in Unseen' => x \in Unseen
      BY <1>1, <2>1, <2>2 DEF Unseen, Poll, Opened
    <3>2. RowsKnown(x)'
      BY <1>1, <1>a, <2>1, <2>2, <2>3, <3>1 DEF Books, RowsKnown, Poll
    <3> QED BY <2>1, <3>2 DEF Books, BookedLeft, UnwindsAll, SweptLeft, Poll
  <2>10. Ends(x)'
    <3>0. \A t \in Actors : pc'[t] \in {"flatten", "flat_book"} => pc[t] = pc'[t]
      BY <1>1, <2>1, AckTypes
    <3>1. FlattensAll(x)'
      <4>1. ASSUME NEW t \in Actors, pc'[t] \in {"flatten", "flat_book"}, NEW c \in fl[t].todo,
                   ord'[c[1]].p = x, row[c[1]].st = "open"
            PROVE  row[c[1]].size <= c[2]
        <5>1. c[1] \in Orders /\ c[1] # o /\ pc[t] \in {"flatten", "flat_book"}
          BY <2>3, <3>0, <4>1, InHandTypes
        <5> QED BY <1>a, <2>1, <4>1, <5>1 DEF Ends, FlattensAll
      <4> QED BY <1>1, <4>1 DEF FlattensAll
    <3>2. FlatBooked(x)'
      <4>1. ASSUME NEW t \in Actors, pc'[t] = "flat_book", NEW q, q = fl[t].o, ord'[q].p = x, row[q].st = "open"
            PROVE  Toward(q)' <= Bound(q)'
        <5>1. q \in Orders /\ q # o /\ pc[t] = "flat_book"
          BY <2>3, <3>0, <4>1, InHandTypes
        <5>2. Toward(q) <= Bound(q)
          BY <1>a, <2>1, <4>1, <5>1 DEF Ends, FlatBooked
        <5> QED BY <2>5, <5>1, <5>2
      <4> QED BY <1>1, <4>1 DEF FlatBooked, Toward, Bound
    <3> QED BY <3>1, <3>2 DEF Ends
  <2>11. StoppedClosed(x)'
    BY <1>1, <1>2, <1>a, <2>1, <2>3, <2>4 DEF StoppedClosed
  <2> QED BY <2>7, <2>8, <2>9, <2>10, <2>11 DEF Account
<1> QED BY <1>3, <1>4, PlaceEffect

LEMMA InsertAccount ==
  ASSUME IInv, Types', InsertLate \/ InsertRow, NEW x \in Products \ lost'
  PROVE  Account(x)'
<1> USE DEF Goto, PollGoto, Kept, Return, Upset, Spend
<1>t. Types /\ x \in Products \ lost /\ x \in Products
  BY DEF IInv, InsertLate, InsertRow, pendVars
<1>a. Account(x) /\ Holds(x) /\ Opens(x) /\ Books(x) /\ Ends(x) /\ StoppedClosed(x)
  BY <1>t DEF IInv, Account
<1>1. /\ UNCHANGED <<ord, held, pend, fl, mirror, k>> /\ pc'["user"] = pc["user"]
      /\ (pc["poll"] = "late" /\ pc'["poll"] = "rearm") \/ (pc["poll"] = "insert" /\ pc'["poll"] = "recheck")
  BY <1>t DEF InsertLate, InsertRow, venueVars, pendVars, Types, PcType, Actors
<1>r. PICK r \in Orders : r = k.o
  BY InsertEffect
<1>2. /\ row[r].st = "none" /\ \A q \in Orders : q # r => row'[q] = row[q]
      /\ row'[r].st = "open" /\ row'[r].size = k.seen
  BY <1>r, InsertEffect
<1>3. ord[r].p = k.p /\ pend[k.p].o = 0 /\ k.p \in Products /\ k.seen \in Int
  BY <1>1, <1>r, <1>t, LocalTypes DEF IInv, Steps, Poll, InFlight
<1>4. Hand = {r} /\ Hand' = {} /\ Growing = {} /\ Growing' = {} /\ InHand = {}
  BY <1>1, <1>r DEF Hand, Growing, InHand, Poll, InFlight
<1>5. InHand' = {r}
  BY <1>1, <1>r DEF InHand
<1>6. SameOrders /\ Nearer(x)
  BY <1>1, <1>t, SameOrdersOf, NearerOf
<1>7. Holds(x)'
  <2>1. \A o \in Orders : Owns(o)' <=> Owns(o)
    BY <1>1, <1>2, <1>4 DEF Owns
  <2>2. \A o \in Orders : ord[o].p = x => Owed(o)' = Owed(o)
    <3>1. \A o \in Orders : o # r => Owed(o)' = Owed(o)
      BY <1>1, <1>2, <1>4 DEF Owed, Bound
    <3>2. x = k.p => Owed(r) = ord[r].filled + 0 /\ Owed(r)' = k.seen + 0
      BY <1>1, <1>2, <1>4 DEF Owed, Bound
    <3>3. x = k.p => k.seen = ord[r].filled
      BY <1>1, <1>a, <1>r DEF Opens, SeenAll, Poll
    <3> QED BY <1>3, <3>1, <3>2, <3>3
  <2> QED BY <1>6, <1>a, <1>t, <2>1, <2>2, HoldsKept
<1>8. Opens(x)'
  BY <1>1, <1>6, <1>a, <1>t, OpensAway
<1>9. Books(x)'
  <2>1. CASE pc'["poll"] = "rearm"
    BY <2>1, BooksAtHome DEF Opened
  <2>2. CASE pc["poll"] = "insert" /\ pc'["poll"] = "recheck"
    <3>1. x \in Unseen' => x \in Unseen /\ x # k.p
      BY <1>1, <2>2 DEF IInv, Steps, Unseen, Poll, Opened
    <3>2. RowsKnown(x)'
      BY <1>1, <1>2, <1>3, <1>a, <2>2, <3>1 DEF Books, RowsKnown, Poll
    <3>3. UnwindsAll(x)'
      BY <1>1, <1>2, <1>3, <1>r DEF UnwindsAll
    <3> QED BY <2>2, <3>2, <3>3 DEF Books, BookedLeft, SweptLeft, Poll
  <2> QED BY <1>1, <2>1, <2>2
<1>10. Ends(x)'
  <2>0. \A t \in Actors : pc'[t] \in {"flatten", "flat_book"} => pc[t] = pc'[t]
    BY <1>1, AckTypes
  <2>1. FlattensAll(x)'
    <3>1. ASSUME NEW t \in Actors, pc'[t] \in {"flatten", "flat_book"}, NEW c \in fl[t].todo,
                 ord[c[1]].p = x, row'[c[1]].st = "open"
          PROVE  row'[c[1]].size <= c[2]
      <4>1. c[1] \in Orders /\ row[c[1]].st # "none" /\ pc[t] \in {"flatten", "flat_book"}
        BY <2>0, <3>1, InHandTypes DEF IInv, Flattens, Flattening
      <4> QED BY <1>2, <1>a, <3>1, <4>1 DEF Ends, FlattensAll
    <3> QED BY <1>1, <3>1 DEF FlattensAll
  <2>2. FlatBooked(x)'
    <3>1. ASSUME NEW t \in Actors, pc'[t] = "flat_book", NEW q, q = fl[t].o, ord[q].p = x, row'[q].st = "open"
          PROVE  Toward(q)' <= Bound(q)'
      <4>1. q \in Orders /\ row[q].st # "none" /\ pc[t] = "flat_book"
        BY <2>0, <3>1, InHandTypes DEF IInv, Flattens, Flattening
      <4>2. Toward(q) <= Bound(q)
        BY <1>2, <1>a, <3>1, <4>1 DEF Ends, FlatBooked
      <4>3. Toward(q)' = Toward(q) /\ Bound(q)' = Bound(q)
        BY <1>1, <1>4 DEF Toward, Bound
      <4> QED BY <4>2, <4>3
    <3> QED BY <1>1, <3>1 DEF FlatBooked, Toward, Bound
  <2> QED BY <2>1, <2>2 DEF Ends
<1>11. StoppedClosed(x)'
  BY <1>1, <1>2, <1>4, <1>5, <1>a DEF StoppedClosed
<1> QED BY <1>7, <1>8, <1>9, <1>10, <1>11 DEF Account

-----------------------------------------------------------------------------
(* Account: the verdict on a pending order.                                  *)

LEMMA ResolveVerdictAccount ==
  ASSUME IInv, Types', ResolveVerdict, NEW x \in Products \ lost'
  PROVE  Account(x)'
<1> USE DEF Goto, PollGoto, Kept, Return, Upset, Spend
<1>t. Types /\ x \in Products \ lost /\ x \in Products
  BY DEF IInv, ResolveVerdict, ShortBy
<1>a. Account(x) /\ Holds(x) /\ Opens(x) /\ Books(x) /\ Ends(x) /\ StoppedClosed(x)
  BY <1>t DEF IInv, Account
<1>1. /\ UNCHANGED <<held, row, fl, mirror, k>> /\ pc["poll"] = "verdict" /\ pc'["poll"] \in {"late", "resolve"}
      /\ pc'["user"] = pc["user"] /\ (UNCHANGED ord \/ ord' = Cancelled(k.o))
  BY <1>t DEF ResolveVerdict, Types, PcType, Actors
<1>r. PICK r \in Orders : r = k.o
  BY <1>1, InHandTypes
<1>2. SameOrders /\ Nearer(x) /\ SameSizes /\ OnlyCloses
  BY <1>1, <1>t, SameOrdersOf, NearerOf, RowsSame
<1>3. Hand = {} /\ Growing = {} /\ Growing' = {} /\ InHand = {} /\ InHand' = {}
  BY <1>1 DEF Hand, Growing, InHand, Poll, InFlight
<1>4. /\ ord[r].p = k.p /\ k.p \in Products /\ row[r].st = "none" /\ (x = k.p => pend[x].o = r) /\ r # 0
  BY <1>1, <1>r, <1>t, LocalTypes, CopyAssumption DEF IInv, Steps, Poll, InFlight
<1>5. Books(x)'
  BY <1>1, BooksAtHome DEF Opened
<1>6. Ends(x)'
  <2>1. FlattensStay
    BY <1>1, AckTypes DEF FlattensStay
  <2> QED BY <1>2, <1>3, <1>a, <1>t, <2>1, EndsKept
<1>7. StoppedClosed(x)'
  BY <1>1, <1>2, <1>3, <1>a, StoppedKept
<1>8. \A q \in Products : q # k.p => pend'[q] = pend[q]
  BY VerdictPends
<1>9. Pop(k.p) => pend'[k.p].o = 0
  BY <1>4, <1>t DEF Pop, Types, PendType, NoPend
<1>10. Pop(k.p) /\ x = k.p /\ ~ord'[r].live => \A o \in Orders : ord'[o].p = x => ~ord'[o].live
  BY <1>1, <1>2, <1>4, <1>a DEF Opens, LiveOwned, SameOrders, Poll
<1>11. CASE k.seen > 0 /\ Pop(k.p) /\ PollGoto("late") /\ ShortBy(k.p, ord[k.o].filled # k.seen) /\ ord' = Cancelled(k.o)
  <2>1. pc'["poll"] = "late" /\ Hand' = {r}
    BY <1>1, <1>11, <1>r, <1>t DEF Hand, Poll, InFlight, Types, PcType, Actors
  <2>2. /\ x = k.p => k.seen = ord[r].filled
        /\ ~ord'[r].live
    BY <1>11, <1>r, <1>t, CancelEffect DEF ShortBy
  <2>3. \A o \in Orders : ord[o].p = x => (Owns(o)' <=> Owns(o))
    <3>1. CASE x # k.p
      BY <1>1, <1>2, <1>3, <1>4, <1>8, <1>t, <2>1, <3>1 DEF Owns, SameOrders
    <3>2. CASE x = k.p
      BY <1>1, <1>2, <1>3, <1>4, <1>9, <1>11, <2>1, <3>2, CopyAssumption DEF Owns, SameOrders, Orders
    <3> QED BY <3>1, <3>2
  <2>4. \A o \in Orders : Owed(o)' = Owed(o)
    BY <1>1, <1>2, <1>3 DEF Owed, Bound, SameOrders
  <2>5. Holds(x)'
    BY <1>2, <1>a, <1>t, <2>3, <2>4, HoldsKept
  <2>6. LiveOwned(x)'
    <3>1. CASE x # k.p
      BY <1>1, <1>2, <1>8, <1>a, <1>t, <3>1 DEF Opens, LiveOwned, SameOrders, Poll
    <3>2. CASE x = k.p
      BY <1>10, <1>11, <2>2, <3>2 DEF LiveOwned
    <3> QED BY <3>1, <3>2
  <2>7. SeenAll(x)'
    BY <1>1, <1>2, <1>r, <2>2 DEF SeenAll, SameOrders
  <2>8. Opens(x)'
    BY <2>1, <2>6, <2>7 DEF Opens, OpensBare, AddsToRow, Poll
  <2> QED BY <1>5, <1>6, <1>7, <2>5, <2>8 DEF Account
<1>12. CASE k.seen = 0 /\ Pop(k.p) /\ PollGoto("resolve") /\ ShortBy(k.p, ord'[k.o].live \/ ord[k.o].filled > 0)
  <2>1. pc'["poll"] = "resolve" /\ Hand' = {}
    BY <1>1, <1>12, <1>t DEF Hand, Poll, InFlight, Types, PcType, Actors
  <2>2. x = k.p => ~ord'[r].live /\ ~(ord[r].filled > 0)
    BY <1>12, <1>r DEF ShortBy
  <2>3. \A o \in Orders : Owed(o)' = Owed(o)
    BY <1>1, <1>2, <1>3 DEF Owed, Bound, SameOrders
  <2>4. Holds(x)'
    <3>1. CASE x # k.p
      <4>1. \A o \in Orders : ord[o].p = x => (Owns(o)' <=> Owns(o))
        BY <1>1, <1>2, <1>3, <1>4, <1>8, <1>t, <2>1, <3>1 DEF Owns, SameOrders
      <4> QED BY <1>2, <1>a, <1>t, <2>3, <4>1, HoldsKept
    <3>2. CASE x = k.p
      <4>1. r \in Owners(x) /\ \A o \in Owners(x) : o = r
        BY <1>4, <1>a, <3>2 DEF Owners, Owns, Holds, OneOwner
      <4>2. Owners(x)' = {}
        <5>1. \A o \in Orders : ord[o].p = x /\ row[o].st = "open" => o = r
          BY <4>1 DEF Owners, Owns
        <5> QED BY <1>1, <1>2, <1>3, <1>4, <1>9, <1>12, <2>1, <3>2, <5>1, CopyAssumption DEF Owners, Owns, SameOrders, Orders
      <4>3. Owed(r) = ord[r].filled + 0 /\ ord[r].filled \in Nat
        BY <1>3, <1>4, <1>t, OrderTypes, CopyAssumption DEF Owed, Bound
      <4>4. Toward(r) <= 0 /\ Toward(r) >= 0
        BY <1>a, <2>2, <3>2, <4>1, <4>3 DEF Holds, OwnedHeld
      <4>5. held[x] = 0
        <5>1. Toward(r) = Along(ord[r].d, held[x]) /\ held[x] \in Int
          BY <1>4, <1>t, <3>2 DEF Toward, Types, HoldType
        <5>2. CASE ord[r].d = 1
          BY <4>4, <5>1, <5>2 DEF Along
        <5>3. CASE ord[r].d # 1
          BY <4>4, <5>1, <5>3 DEF Along
        <5> QED BY <5>2, <5>3
      <4> QED BY <1>1, <4>2, <4>5 DEF Holds, OneOwner, FlatUnowned, OwnedHeld
    <3> QED BY <3>1, <3>2
  <2>5. LiveOwned(x)'
    <3>1. CASE x # k.p
      BY <1>1, <1>2, <1>8, <1>a, <1>t, <3>1 DEF Opens, LiveOwned, SameOrders, Poll
    <3>2. CASE x = k.p
      BY <1>10, <1>12, <2>2, <3>2 DEF LiveOwned
    <3> QED BY <3>1, <3>2
  <2>6. Opens(x)'
    BY <2>1, <2>5 DEF Opens, SeenAll, OpensBare, AddsToRow, Poll
  <2> QED BY <1>5, <1>6, <1>7, <2>4, <2>6 DEF Account
<1>13. ASSUME NEW acks, pend' = [pend EXCEPT ![k.p] = IF @.o = 0 THEN @ ELSE [Older(@) EXCEPT !.acked = acks]], PollGoto("resolve")
       PROVE  Account(x)'
  <2>1. pend'[x].o = pend[x].o
    <3>1. \A q \in PendRec : Older(q).o = q.o /\ \A b : [Older(q) EXCEPT !.acked = b].o = q.o
      BY DEF Older, PendRec
    <3>2. pend \in [Products -> PendRec]
      BY <1>t DEF Types, PendType
    <3>3. pend'[k.p].o = pend[k.p].o
      BY <1>4, <1>13, <3>1, <3>2
    <3> QED BY <1>8, <1>t, <3>3
  <2>2. pc'["poll"] = "resolve"
    BY <1>13, <1>t DEF Types, PcType, Actors
  <2> QED BY <1>1, <1>2, <1>t, <1>5, <1>6, <1>7, <2>1, <2>2, AccountMoves DEF InFlight
<1> QED
  <2>1. PICK acks \in IF k.q.acked \/ k.seen = ord[k.o].size THEN {TRUE} ELSE CancelAcks(k.o), gone \in BOOLEAN :
             /\ ord' = IF acks THEN Cancelled(k.o) ELSE ord
             /\ \/ /\ k.seen > 0 /\ acks
                   /\ Pop(k.p) /\ PollGoto("late") /\ ShortBy(k.p, ord[k.o].filled # k.seen)
                \/ /\ k.seen = 0 /\ gone
                   /\ Pop(k.p) /\ PollGoto("resolve") /\ ShortBy(k.p, ord'[k.o].live \/ ord[k.o].filled > 0)
                \/ /\ pend' = [pend EXCEPT ![k.p] = IF @.o = 0 THEN @ ELSE [Older(@) EXCEPT !.acked = acks]]
                   /\ PollGoto("resolve")
    BY DEF ResolveVerdict
  <2> QED BY <1>11, <1>12, <1>13, <2>1

-----------------------------------------------------------------------------
(* Account: closes that are sent for a row.                                  *)

\* A close takes at most what is held on the row's side.
LEMMA ClosesToward ==
  ASSUME Types, NEW o \in Orders, NEW s \in Int, Closes(o, s), UNCHANGED ord
  PROVE  /\ Toward(o) \in Int /\ Toward(o)' \in Int /\ Toward(o) > 0
         /\ Toward(o)' = 0 \/ Toward(o)' = Toward(o) - s
<1> DEFINE q == ord[o].p
           d == ord[o].d
           n == Least(s, Abs(held[q]))
<1>1. q \in Products /\ d \in {-1, 1} /\ held \in [Products -> Int]
  BY OrderTypes DEF Types, HoldType, Sides
<1>2. s > 0 /\ held[q] * d > 0
  BY DEF Closes
<1>3. n \in Int /\ n \in {s, Abs(held[q])}
  BY <1>1, <1>2, AbsLeast
<1>4. held' = [held EXCEPT ![q] = held[q] - d * n]
  BY DEF Closes
<1>5. Toward(o) = Along(d, held[q]) /\ Toward(o)' = Along(d, held'[q])
  BY DEF Toward
<1> HIDE DEF n, q, d
<1>6. CASE d = 1
  <2>1. held[q] > 0 /\ Abs(held[q]) = held[q]
    BY <1>1, <1>2, <1>6 DEF Abs
  <2>2. d * n = n
    BY <1>3, <1>6
  <2>3. Toward(o) = held[q] /\ Toward(o)' = held[q] - n
    BY <1>1, <1>4, <1>5, <1>6, <2>2 DEF Along
  <2> QED BY <1>1, <1>3, <2>1, <2>3
<1>7. CASE d = -1
  <2>1. held[q] < 0 /\ Abs(held[q]) = -held[q]
    BY <1>1, <1>2, <1>7 DEF Abs
  <2>2. d * n = -n
    BY <1>3, <1>7
  <2>3. Toward(o) = -held[q] /\ Toward(o)' = -(held[q] + n)
    BY <1>1, <1>3, <1>4, <1>5, <1>7, <2>2 DEF Along
  <2> QED BY <1>1, <1>3, <2>1, <2>3
<1> QED BY <1>1, <1>6, <1>7

\* What is held for an open row nothing is being added to is within the row.
LEMMA RowHeld ==
  ASSUME IInv, NEW r \in Orders, ord[r].p \notin lost, row[r].st = "open"
  PROVE  Toward(r) \in 0..(row[r].size + Bound(r)) /\ row[r].size \in Nat /\ Bound(r) \in Nat
<1>t. Types
  BY DEF IInv
<1>1. ord[r].p \in Products \ lost /\ row[r].size \in Nat /\ Bound(r) \in Nat
  BY <1>t, OrderTypes, OwedInt, CopyAssumption
<1>2. r \in Owners(ord[r].p)
  BY DEF Owners, Owns
<1>3. Toward(r) \in 0..Owed(r)
  BY <1>1, <1>2 DEF IInv, Account, Holds, OwnedHeld
<1> QED BY <1>1, <1>3 DEF Owed

\* A close of s lots of row r is taken, and its booking is next, or it is refused.
LEMMA ClosingAccount ==
  ASSUME IInv, Types', NEW x \in Products \ lost, NEW r \in Orders, NEW s \in Int, s <= row[r].size,
         pc["poll"] \in {"open", "close"}, pc'["user"] = pc["user"], UNCHANGED <<mirror, ord, row, pend, fl>>,
         \/ Closes(r, s) /\ pc'["poll"] = "book" /\ k'.o = r /\ k'.cut = row[r].size - s /\ k'.back = pc["poll"]
         \/ UNCHANGED held /\ pc'["poll"] = pc["poll"],
         x \in Unseen' => /\ x \in Unseen
                          /\ \/ k'.rows[x] = k.rows[x]
                             \/ pc'["poll"] = "book" /\ k.rows[x] = r /\ s = row[r].size
  PROVE  Account(x)'
<1>t. Types /\ x \in Products
  BY DEF IInv
<1>a. Account(x) /\ Holds(x) /\ Opens(x) /\ Books(x) /\ Ends(x) /\ StoppedClosed(x)
  BY <1>t DEF IInv, Account
<1>1. SameOrders /\ SameSizes /\ OnlyCloses
  BY <1>t, SameOrdersOf, RowsSame
<1>2. Nearer(x)
  BY <1>t, ClosesShrinks, NearerOf
<1>3. Growing = {} /\ Growing' = {} /\ InHand = {}
  BY DEF Growing, InHand, Poll
<1>s. row[r].size \in Nat
  BY <1>t, OrderTypes, CopyAssumption
<1>4. Books(x)'
  <2>1. CASE UNCHANGED held /\ pc'["poll"] = pc["poll"]
    BY <1>1, <1>a, <1>t, <2>1, BooksAtOpen
  <2>2. CASE Closes(r, s) /\ pc'["poll"] = "book" /\ k'.o = r /\ k'.cut = row[r].size - s /\ k'.back = pc["poll"]
    <3>1. RowsKnown(x)'
      <4> SUFFICES ASSUME x \in Unseen', NEW o \in Orders, ord[o].p = x, row[o].st = "open"
                   PROVE  o = k'.rows[x] \/ (k'.o = o /\ k'.cut = 0)
        BY <2>2 DEF RowsKnown, Poll
      <4>1. o = k.rows[x]
        BY <1>a DEF Books, RowsKnown, Poll
      <4>2. s = row[r].size => k'.cut = 0
        BY <1>s, <2>2
      <4> QED BY <2>2, <4>1, <4>2
    <3>2. BookedLeft(x)'
      <4> SUFFICES ASSUME ord[r].p = x, row[r].st = "open" PROVE Toward(r)' <= row[r].size - s
        BY <2>2 DEF BookedLeft, Poll, Toward
      <4>1. Toward(r) \in 0..(row[r].size + Bound(r)) /\ Bound(r) = 0
        BY <1>3, <1>t, RowHeld DEF Bound
      <4>2. Toward(r)' = 0 \/ Toward(r)' = Toward(r) - s
        BY <1>t, <2>2, ClosesToward
      <4> QED BY <1>s, <4>1, <4>2
    <3> QED BY <2>2, <3>1, <3>2 DEF Books, UnwindsAll, SweptLeft, Poll
  <2> QED BY <2>1, <2>2
<1>5. Ends(x)'
  <2>1. FlattensStay
    BY AckTypes DEF FlattensStay
  <2> QED BY <1>1, <1>2, <1>3, <1>a, <1>t, <2>1, EndsKept
<1>6. StoppedClosed(x)'
  BY <1>1, <1>3, <1>a, StoppedKept
<1> QED BY <1>1, <1>2, <1>t, <1>4, <1>5, <1>6, AccountMoves DEF InFlight

LEMMA CloseGoneAccount ==
  ASSUME IInv, Types', NEW p \in Products, CloseGone(p), NEW x \in Products \ lost'
  PROVE  Account(x)'
<1> USE DEF Goto, PollGoto, Kept, Return, Upset, Spend
<1>t. Types /\ x \in Products \ lost /\ x \in Products
  BY DEF IInv, CloseGone
<1>a. Account(x) /\ Holds(x) /\ Opens(x) /\ Books(x) /\ Ends(x) /\ StoppedClosed(x)
  BY <1>t DEF IInv, Account
<1>0. k.rows[p] # 0
  BY DEF CloseGone, IInv, Steps, Poll
<1>1. /\ UNCHANGED <<mirror, ord, row, pend, fl>> /\ pc["poll"] \in {"open", "close"} /\ pc'["user"] = pc["user"] /\ p \in k.todo
  BY <1>t DEF CloseGone, Opening, SendClose, pendVars, Types, PcType, Actors
<1>r. PICK r \in Orders : r = k.rows[p]
  BY <1>0, <1>t, InHandNamed
<1>s. PICK s \in Int : s <= row[r].size /\ s = row[r].size
  BY <1>r, <1>t, OrderTypes, CopyAssumption
<1>2. \/ Closes(r, s) /\ Kept("book", [Without(p) EXCEPT !.o = r, !.cut = row[r].size - s, !.back = pc["poll"]])
      \/ Refuses(r, s) /\ Kept(pc["poll"], Without(p))
  BY <1>r, <1>s DEF CloseGone, SendClose, Copy
<1>3. Without(p) \in Locals /\ Without(p).rows = k.rows /\ Without(p).todo = k.todo \ {p} /\ TRUE
  BY <1>t DEF Without, Types, LocalType, Locals
<1>4. CASE Closes(r, s) /\ Kept("book", [Without(p) EXCEPT !.o = r, !.cut = row[r].size - s, !.back = pc["poll"]])
  <2>1. /\ pc'["poll"] = "book" /\ k'.o = r /\ k'.cut = row[r].size - s /\ k'.back = pc["poll"]
        /\ k'.rows = k.rows /\ k'.todo \subseteq k.todo
    BY <1>3, <1>4, <1>t DEF Types, PcType, Actors, LocalType, Locals
  <2>2. x \in Unseen' => /\ x \in Unseen
                         /\ k'.rows[x] = k.rows[x] \/ (k.rows[x] = r /\ s = row[r].size)
    BY <1>1, <2>1 DEF CloseGone, Unseen, Poll, Opened
  <2> QED BY <1>1, <1>4, <1>s, <1>t, <2>1, <2>2, ClosingAccount
<1>5. CASE Refuses(r, s) /\ Kept(pc["poll"], Without(p))
  <2>1. UNCHANGED held /\ pc'["poll"] = pc["poll"] /\ k'.rows = k.rows /\ k'.todo \subseteq k.todo
    BY <1>3, <1>5, <1>t DEF Refuses, Types, PcType, Actors
  <2>2. x \in Unseen' => x \in Unseen
    BY <1>1, <2>1 DEF Unseen, Poll, Opened
  <2> QED BY <1>1, <1>s, <1>t, <2>1, <2>2, ClosingAccount
<1> QED BY <1>2, <1>4, <1>5

LEMMA FlipAccount ==
  ASSUME IInv, Types', NEW p \in Products, Flip(p), NEW x \in Products \ lost'
  PROVE  Account(x)'
<1> USE DEF Goto, PollGoto, Kept, Return, Upset, Spend
<1>t. Types /\ x \in Products \ lost /\ x \in Products
  BY DEF IInv, Flip
<1>a. Account(x) /\ Holds(x) /\ Opens(x) /\ Books(x) /\ Ends(x) /\ StoppedClosed(x)
  BY <1>t DEF IInv, Account
<1>0. k.rows[p] # 0
  BY DEF Flip, Tracks
<1>1. /\ UNCHANGED <<mirror, ord, row, pend, fl>> /\ pc["poll"] \in {"open", "close"} /\ pc'["user"] = pc["user"] /\ p \in k.todo
  BY <1>t DEF Flip, Opening, SendClose, pendVars, Types, PcType, Actors
<1>r. PICK r \in Orders : r = k.rows[p]
  BY <1>0, <1>t, InHandNamed
<1>s. PICK s \in Int : s <= row[r].size /\ s = row[r].size
  BY <1>r, <1>t, OrderTypes, CopyAssumption
<1>2. \/ Closes(r, s) /\ Kept("book", [[k EXCEPT !.rows[p] = 0] EXCEPT !.o = r, !.cut = row[r].size - s, !.back = pc["poll"]])
      \/ Refuses(r, s) /\ Kept(pc["poll"], Without(p))
  BY <1>r, <1>s DEF Flip, SendClose, Copy
<1>3. Without(p) \in Locals /\ Without(p).rows = k.rows /\ Without(p).todo = k.todo \ {p} /\ TRUE
  BY <1>t DEF Without, Types, LocalType, Locals
<1>4. CASE Closes(r, s) /\ Kept("book", [[k EXCEPT !.rows[p] = 0] EXCEPT !.o = r, !.cut = row[r].size - s, !.back = pc["poll"]])
  <2>1. /\ pc'["poll"] = "book" /\ k'.o = r /\ k'.cut = row[r].size - s /\ k'.back = pc["poll"]
        /\ k'.todo = k.todo /\ k'.rows = [k.rows EXCEPT ![p] = 0]
    BY <1>3, <1>4, <1>t DEF Types, PcType, Actors, LocalType, Locals
  <2>2. x \in Unseen' => /\ x \in Unseen
                         /\ k'.rows[x] = k.rows[x] \/ (k.rows[x] = r /\ s = row[r].size)
    <3>1. k.rows \in [Products -> 0..MaxOrders]
      BY <1>t, LocalTypes
    <3>2. x # p => k'.rows[x] = k.rows[x]
      BY <1>t, <2>1, <3>1
    <3> QED BY <1>1, <1>r, <1>s, <2>1, <3>2 DEF Flip, Opening, Unseen, Poll, Opened
  <2> QED BY <1>1, <1>4, <1>s, <1>t, <2>1, <2>2, ClosingAccount
<1>5. CASE Refuses(r, s) /\ Kept(pc["poll"], Without(p))
  <2>1. UNCHANGED held /\ pc'["poll"] = pc["poll"] /\ k'.rows = k.rows /\ k'.todo \subseteq k.todo
    BY <1>3, <1>5, <1>t DEF Refuses, Types, PcType, Actors
  <2>2. x \in Unseen' => x \in Unseen
    BY <1>1, <2>1 DEF Unseen, Poll, Opened
  <2> QED BY <1>1, <1>s, <1>t, <2>1, <2>2, ClosingAccount
<1> QED BY <1>2, <1>4, <1>5

LEMMA TrimAccount ==
  ASSUME IInv, Types', NEW p \in Products, Trim(p), NEW x \in Products \ lost'
  PROVE  Account(x)'
<1> USE DEF Goto, PollGoto, Kept, Return, Upset, Spend
<1>t. Types /\ x \in Products \ lost /\ x \in Products
  BY DEF IInv, Trim
<1>a. Account(x) /\ Holds(x) /\ Opens(x) /\ Books(x) /\ Ends(x) /\ StoppedClosed(x)
  BY <1>t DEF IInv, Account
<1>0. k.rows[p] # 0
  BY DEF Trim, Tracks
<1>1. /\ UNCHANGED <<mirror, ord, row, pend, fl>> /\ pc["poll"] \in {"open", "close"} /\ pc'["user"] = pc["user"] /\ p \in k.todo
  BY <1>t DEF Trim, Opening, SendClose, pendVars, Types, PcType, Actors
<1>r. PICK r \in Orders : r = k.rows[p]
  BY <1>0, <1>t, InHandNamed
<1>s. PICK s \in Int : s <= row[r].size /\ s = (Copy(p).size * (Copy(p).base - Size(p))) \div Copy(p).base
  <2>1. row[r].size \in Nat /\ Copy(p).size = row[r].size
    BY <1>r, <1>t, OrderTypes, CopyAssumption DEF Copy
  <2> QED BY <2>1, TrimSize DEF Trim
<1>2. \/ Closes(r, s) /\ Kept("book", [[Without(p) EXCEPT !.base = Size(p)] EXCEPT !.o = r, !.cut = row[r].size - s, !.back = pc["poll"]])
      \/ Refuses(r, s) /\ Kept(pc["poll"], Without(p))
  BY <1>r, <1>s DEF Trim, SendClose, Copy
<1>3. Without(p) \in Locals /\ Without(p).rows = k.rows /\ Without(p).todo = k.todo \ {p} /\ TRUE
  BY <1>t DEF Without, Types, LocalType, Locals
<1>4. CASE Closes(r, s) /\ Kept("book", [[Without(p) EXCEPT !.base = Size(p)] EXCEPT !.o = r, !.cut = row[r].size - s, !.back = pc["poll"]])
  <2>1. /\ pc'["poll"] = "book" /\ k'.o = r /\ k'.cut = row[r].size - s /\ k'.back = pc["poll"]
        /\ k'.rows = k.rows /\ k'.todo \subseteq k.todo
    BY <1>3, <1>4, <1>t DEF Types, PcType, Actors, LocalType, Locals
  <2>2. x \in Unseen' => /\ x \in Unseen
                         /\ k'.rows[x] = k.rows[x] \/ (k.rows[x] = r /\ s = row[r].size)
    BY <1>1, <2>1 DEF Trim, Opening, Unseen, Poll, Opened
  <2> QED BY <1>1, <1>4, <1>s, <1>t, <2>1, <2>2, ClosingAccount
<1>5. CASE Refuses(r, s) /\ Kept(pc["poll"], Without(p))
  <2>1. UNCHANGED held /\ pc'["poll"] = pc["poll"] /\ k'.rows = k.rows /\ k'.todo \subseteq k.todo
    BY <1>3, <1>5, <1>t DEF Refuses, Types, PcType, Actors
  <2>2. x \in Unseen' => x \in Unseen
    BY <1>1, <2>1 DEF Unseen, Poll, Opened
  <2> QED BY <1>1, <1>s, <1>t, <2>1, <2>2, ClosingAccount
<1> QED BY <1>2, <1>4, <1>5

-----------------------------------------------------------------------------
(* Account: the unwind, the flatten, and fills.                              *)

LEMMA unwind_stop_raced_openAccount ==
  ASSUME IInv, Types', _unwind_stop_raced_open, NEW x \in Products \ lost'
  PROVE  Account(x)'
<1> USE DEF Goto, PollGoto, Kept, Return, Upset, Spend
<1>t. Types /\ x \in Products \ lost /\ x \in Products
  BY DEF IInv, _unwind_stop_raced_open
<1>a. Account(x) /\ Holds(x) /\ Opens(x) /\ Books(x) /\ Ends(x) /\ StoppedClosed(x)
  BY <1>t DEF IInv, Account
<1>1. /\ UNCHANGED <<ord, row, pend, fl>> /\ pc["poll"] = "unwind" /\ pc'["user"] = pc["user"]
      /\ k.back = "open" /\ k.p \notin k.todo
  BY <1>t DEF _unwind_stop_raced_open, pendVars, Types, PcType, Actors, IInv, Steps, Poll, Opened
<1>r. PICK r \in Orders : r = k.o
  BY <1>1, InHandTypes
<1>s. PICK s \in Int : s = k.seen
  BY <1>t, LocalTypes
<1>0. ord[r].p = k.p /\ row[r].size \in Nat /\ (x = k.p => row[r].size <= s)
  BY <1>1, <1>r, <1>s, <1>a, <1>t, OrderTypes, CopyAssumption DEF IInv, Steps, Poll, Books, UnwindsAll
<1>2. SameOrders /\ SameSizes /\ OnlyCloses
  BY <1>1, <1>t, SameOrdersOf, RowsSame
<1>3. Nearer(x)
  <2>1. Shrinks
    BY PollCloseShrinks
  <2> QED BY <1>t, <2>1, NearerOf
<1>4. CASE Closes(r, s) /\ Kept("book", [k EXCEPT !.cut = 0]) /\ UNCHANGED mirror
  <2>1. pc'["poll"] = "book" /\ k'.cut = 0 /\ k'.o = r /\ k'.rows = k.rows /\ k'.todo = k.todo /\ k'.back = "open"
    BY <1>1, <1>4, <1>r, <1>t DEF Types, PcType, Actors, LocalType, Locals
  <2>2. Growing = {} /\ Growing' = {} /\ InHand = {r} /\ InHand' = {r}
    BY <1>1, <1>r, <2>1 DEF Growing, InHand, Poll
  <2>3. Books(x)'
    <3>1. RowsKnown(x)'
      <4>1. x \in Unseen' => x \in Unseen
        BY <1>1, <2>1 DEF Unseen, Poll, Opened
      <4> QED BY <1>1, <1>a, <2>1, <4>1 DEF Books, RowsKnown, Poll
    <3>2. BookedLeft(x)'
      <4> SUFFICES ASSUME ord[r].p = x, row[r].st = "open" PROVE Toward(r)' <= 0
        BY <1>1, <2>1 DEF BookedLeft, Poll, Toward
      <4>1. Toward(r) \in 0..(row[r].size + Bound(r)) /\ Bound(r) = 0
        BY <1>t, <2>2, RowHeld DEF Bound
      <4>2. Toward(r)' = 0 \/ Toward(r)' = Toward(r) - s
        BY <1>1, <1>4, <1>t, ClosesToward
      <4> QED BY <1>0, <4>1, <4>2
    <3> QED BY <2>1, <3>1, <3>2 DEF Books, UnwindsAll, SweptLeft, Poll
  <2>4. Ends(x)'
    <3>1. FlattensStay
      BY <1>1, <2>1, AckTypes DEF FlattensStay
    <3> QED BY <1>2, <1>3, <1>a, <1>t, <2>2, <3>1, EndsKept
  <2>5. StoppedClosed(x)'
    BY <1>2, <1>4, <1>a, <2>2, StoppedKept
  <2> QED BY <1>1, <1>2, <1>3, <1>t, <2>1, <2>3, <2>4, <2>5, AccountMoves DEF InFlight
<1>5. CASE Refuses(r, s) /\ Kept("open", k) /\ request_copy_mirror_stop
  <2>1. pc'["poll"] = "open" /\ k' = k /\ held' = held
    BY <1>5, <1>t DEF Refuses, Types, PcType, Actors
  <2>2. Growing = {} /\ Growing' = {}
    BY <1>1, <2>1 DEF Growing, Poll
  <2>3. Books(x)'
    <3>1. x \in Unseen' => x \in Unseen
      BY <1>1, <2>1 DEF Unseen, Poll, Opened
    <3> QED BY <1>1, <1>2, <1>a, <1>t, <2>1, <3>1, BooksAtOpen
  <2>4. Ends(x)'
    <3>1. FlattensStay
      BY <1>1, <2>1, AckTypes DEF FlattensStay
    <3> QED BY <1>2, <1>3, <1>a, <1>t, <2>2, <3>1, EndsKept
  <2>5. StoppedClosed(x)'
    BY <1>5 DEF StoppedClosed, request_copy_mirror_stop
  <2> QED BY <1>1, <1>2, <1>3, <1>t, <2>1, <2>3, <2>4, <2>5, AccountMoves DEF InFlight
<1> QED BY <1>4, <1>5, <1>r, <1>s DEF _unwind_stop_raced_open

LEMMA FlattenCloseAccount ==
  ASSUME IInv, Types', NEW t \in Actors, FlattenClose(t), NEW x \in Products \ lost'
  PROVE  Account(x)'
<1> USE DEF Goto, PollGoto, Kept, Return, Upset, Spend
<1>t. Types /\ x \in Products \ lost /\ x \in Products
  BY DEF IInv, FlattenClose
<1>a. Account(x) /\ Holds(x) /\ Opens(x) /\ Books(x) /\ Ends(x) /\ StoppedClosed(x)
  BY <1>t DEF IInv, Account
<1>1. UNCHANGED <<ord, row, pend, k, mirror>> /\ pc[t] = "flatten"
  BY <1>t DEF FlattenClose, pendVars
<1>2. SameOrders /\ SameSizes /\ OnlyCloses
  BY <1>1, <1>t, SameOrdersOf, RowsSame
<1>3. Nearer(x)
  <2>1. Shrinks
    BY <1>t, FlattenShrinks
  <2> QED BY <1>t, <2>1, NearerOf
<1>4. PICK c \in fl[t].todo :
         \/ /\ Closes(c[1], c[2])
            /\ fl' = [fl EXCEPT ![t].todo = @ \ {c}, ![t].o = c[1]] /\ Goto(t, "flat_book")
         \/ /\ Refuses(c[1], c[2])
            /\ fl' = [fl EXCEPT ![t].todo = @ \ {c}, ![t].errs = TRUE] /\ UNCHANGED pc
  BY DEF FlattenClose
<1>5. /\ \A s \in Actors : s # t => pc'[s] = pc[s] /\ fl'[s] = fl[s]
      /\ fl'[t].todo \subseteq fl[t].todo
      /\ \/ pc'[t] = pc[t]
         \/ Closes(c[1], c[2]) /\ pc'[t] = "flat_book" /\ fl'[t].o = c[1]
  <2>1. CASE /\ Closes(c[1], c[2])
             /\ fl' = [fl EXCEPT ![t].todo = @ \ {c}, ![t].o = c[1]] /\ Goto(t, "flat_book")
    BY <1>t, <2>1 DEF Types, FlatType, FlatRec, PcType
  <2>2. CASE /\ fl' = [fl EXCEPT ![t].todo = @ \ {c}, ![t].errs = TRUE] /\ UNCHANGED pc
    <3>1. /\ \A s \in Actors : s # t => fl'[s] = fl[s]
          /\ fl'[t].todo \subseteq fl[t].todo
      BY <1>t, <2>2 DEF Types, FlatType, FlatRec
    <3> QED BY <2>2, <3>1
  <2> QED BY <1>4, <2>1, <2>2
<1>6. c[1] \in Orders /\ c[2] \in 1..MaxLots /\ c[2] \in Int
  BY InHandTypes, CopyAssumption
<1>7. Growing' = Growing
  BY <1>1, <1>5, AckTypes DEF Growing, Poll
<1>8. Ends(x)'
  <2>1. FlattensAll(x)'
    BY <1>1, <1>5, <1>a DEF Ends, FlattensAll
  <2>2. FlatBooked(x)'
    <3>1. ASSUME NEW s \in Actors, pc'[s] = "flat_book", NEW o, o = fl'[s].o, ord[o].p = x, row[o].st = "open"
          PROVE  Toward(o)' <= Bound(o)'
      <4>1. CASE pc[s] = "flat_book" /\ s # t
        <5>1. o \in Orders /\ o = fl[s].o
          BY <1>5, <3>1, <4>1, InHandTypes
        <5>2. Toward(o) <= Bound(o) /\ Bound(o) \in Nat
          BY <1>a, <3>1, <4>1, <5>1, OwedInt DEF Ends, FlatBooked
        <5>3. Bound(o)' = Bound(o)
          BY <1>1, <1>7 DEF Bound
        <5> QED BY <1>1, <1>3, <1>t, <3>1, <5>1, <5>2, <5>3, TowardNearer
      <4>2. CASE s = t /\ Closes(c[1], c[2]) /\ o = c[1]
        <5>1. row[o].size <= c[2]
          BY <1>1, <1>a, <3>1, <4>2 DEF Ends, FlattensAll
        <5>2. Toward(o) \in 0..(row[o].size + Bound(o)) /\ row[o].size \in Nat /\ Bound(o) \in Nat
          BY <1>6, <1>t, <3>1, <4>2, RowHeld
        <5>3. Toward(o)' = 0 \/ Toward(o)' = Toward(o) - c[2]
          BY <1>1, <1>6, <1>t, <4>2, ClosesToward
        <5>4. Bound(o)' = Bound(o)
          BY <1>1, <1>7 DEF Bound
        <5> QED BY <1>6, <5>1, <5>2, <5>3, <5>4
      <4> QED BY <1>1, <1>5, <3>1, <4>1, <4>2
    <3> QED BY <1>1, <3>1 DEF FlatBooked, Toward, Bound
  <2> QED BY <2>1, <2>2 DEF Ends
<1>9. InHand' = InHand
  BY <1>1, <1>5, AckTypes DEF InHand
<1>10. StoppedClosed(x)'
  BY <1>1, <1>2, <1>9, <1>a, StoppedKept
<1>11. CASE pc'["poll"] = pc["poll"]
  BY <1>1, <1>2, <1>3, <1>8, <1>10, <1>11, <1>t, AccountStill
<1>12. CASE pc["poll"] = "flatten" /\ pc'["poll"] = "flat_book"
  <2>1. Books(x)'
    BY <1>12, BooksAtHome DEF Opened
  <2> QED BY <1>1, <1>2, <1>3, <1>8, <1>10, <1>12, <1>t, <2>1, AccountMoves DEF InFlight
<1> QED BY <1>1, <1>5, <1>11, <1>12, AckTypes

LEMMA FillAccount ==
  ASSUME IInv, Types', NEW o \in Orders, Fill(o), NEW x \in Products \ lost'
  PROVE  Account(x)'
<1> USE DEF Goto, PollGoto, Kept, Return, Upset, Spend
<1>t. Types /\ x \in Products \ lost /\ x \in Products
  BY DEF IInv, Fill
<1>a. Account(x) /\ Holds(x) /\ Opens(x) /\ Books(x) /\ Ends(x) /\ StoppedClosed(x)
  BY <1>t DEF IInv, Account
<1>1. UNCHANGED <<row, pend, fl, mirror, k, pc>>
  BY DEF Fill, pendVars
<1>2. /\ \A q \in Orders : q # o => ord'[q] = ord[q]
      /\ ord'[o].p = ord[o].p /\ ord'[o].d = ord[o].d /\ ord'[o].filled = ord[o].filled + 1 /\ ord[o].live
      /\ \A p \in Products : p # ord[o].p => held'[p] = held[p]
      /\ held'[ord[o].p] = held[ord[o].p] + ord[o].d
  BY <1>t, FillEffect
<1>3. Hand' = Hand /\ Growing' = Growing /\ InHand' = InHand /\ Unseen' = Unseen
  BY <1>1 DEF Hand, Growing, InHand, Unseen, Poll
<1>4. \A q \in Orders : ord'[q].p = ord[q].p /\ ord'[q].d = ord[q].d /\ (ord'[q].live => ord[q].live)
  BY <1>2
<1>5. Owners(x)' = Owners(x)
  BY <1>1, <1>3, <1>4 DEF Owners, Owns
<1>6. x = ord[o].p => o \in Owners(x) /\ row[o].st = "none"
  <2> SUFFICES ASSUME x = ord[o].p PROVE o \in Owners(x) /\ row[o].st = "none"
    OBVIOUS
  <2>1. pend[x].o = o \/ (Poll({"wait", "readback", "register"}) /\ k.o = o)
    BY <1>2, <1>a DEF Opens, LiveOwned
  <2>2. o # 0
    BY CopyAssumption DEF Orders
  <2>3. CASE pend[x].o = o
    BY <2>2, <2>3 DEF IInv, Names, Owners, Owns
  <2>4. CASE Poll({"wait", "readback", "register"}) /\ k.o = o
    <3>1. o \in Hand
      BY <2>4 DEF Hand, Poll, InFlight
    <3>2. row[o].st = "none"
      BY <2>4 DEF IInv, Steps, Poll, InFlight
    <3> QED BY <3>1, <3>2 DEF Owners, Owns
  <2> QED BY <2>1, <2>3, <2>4
<1>7. \A q \in Orders : ord[q].p = x /\ Owns(q) /\ x = ord[o].p => q = o
  <2>1. \A q \in Orders : ord[q].p = x /\ Owns(q) => q \in Owners(x)
    BY DEF Owners
  <2> QED BY <1>6, <1>a, <2>1 DEF Holds, OneOwner
<1>8. \A q \in Orders : ord[q].p = x /\ row[q].st = "open" => Toward(q)' = Toward(q) /\ x # ord[o].p
  <2> SUFFICES ASSUME NEW q \in Orders, ord[q].p = x, row[q].st = "open" PROVE Toward(q)' = Toward(q) /\ x # ord[o].p
    OBVIOUS
  <2>1. x # ord[o].p
    BY <1>6, <1>7 DEF Owns
  <2> QED BY <1>2, <1>4, <1>t, <2>1 DEF Toward
<1>9. Holds(x)'
  <2>1. CASE x # ord[o].p
    <3>1. \A q \in Orders : ord[q].p = x => Toward(q)' = Toward(q) /\ Owed(q)' = Owed(q)
      BY <1>1, <1>2, <1>3, <1>t, <2>1 DEF Toward, Owed, Bound
    <3>2. \A q \in Owners(x) : q \in Orders /\ ord[q].p = x
      BY DEF Owners
    <3>3. held'[x] = held[x]
      BY <1>2, <1>t, <2>1
    <3> QED BY <1>5, <1>a, <3>1, <3>2, <3>3 DEF Holds, OneOwner, FlatUnowned, OwnedHeld
  <2>2. CASE x = ord[o].p
    <3>1. Owners(x) = {o}
      BY <1>6, <1>7, <2>2 DEF Owners
    <3>2. Toward(o) \in 0..Owed(o) /\ Owed(o) \in Nat /\ Toward(o) \in Int
      BY <1>a, <1>t, <3>1, OwedInt, TowardInt DEF Holds, OwnedHeld
    <3>3. Toward(o)' = Toward(o) + 1
      <4>1. Toward(o) = Along(ord[o].d, held[x]) /\ Toward(o)' = Along(ord[o].d, held'[x])
        BY <1>2, <2>2 DEF Toward
      <4>2. held[x] \in Int /\ held'[x] = held[x] + ord[o].d /\ ord[o].d \in {-1, 1}
        BY <1>2, <1>t, <2>2, OrderTypes DEF Types, HoldType, Sides
      <4>3. CASE ord[o].d = 1
        BY <4>1, <4>2, <4>3 DEF Along
      <4>4. CASE ord[o].d = -1
        BY <4>1, <4>2, <4>4 DEF Along
      <4> QED BY <4>2, <4>3, <4>4
    <3>4. Owed(o)' = Owed(o) + 1
      <4>1. Owed(o) = ord[o].filled + Bound(o) /\ Owed(o)' = ord'[o].filled + Bound(o)'
        BY <1>1, <1>6, <2>2 DEF Owed
      <4>2. Bound(o)' = Bound(o) /\ Bound(o) \in Nat /\ ord[o].filled \in Nat
        BY <1>1, <1>3, <1>t, OwedInt, OrderTypes, CopyAssumption DEF Bound
      <4> QED BY <1>2, <4>1, <4>2
    <3>5. Toward(o)' \in 0..Owed(o)'
      BY <3>2, <3>3, <3>4
    <3> QED BY <1>5, <3>1, <3>5 DEF Holds, OneOwner, FlatUnowned, OwnedHeld
  <2> QED BY <2>1, <2>2
<1>10. Opens(x)'
  <2>1. LiveOwned(x)'
    BY <1>1, <1>4, <1>a DEF Opens, LiveOwned, Poll
  <2>2. SeenAll(x)'
    <3> SUFFICES ASSUME Poll({"insert", "late"}), k.p = x PROVE k.seen = ord'[k.o].filled
      BY <1>1 DEF SeenAll, Poll
    <3>1. k.o \in Orders /\ ord[k.o].p = k.p /\ k.seen = ord[k.o].filled /\ pend[k.p].o = 0 /\ k.o # 0
      BY <1>a, InHandTypes DEF Opens, SeenAll, IInv, Steps, Poll, InFlight
    <3>2. k.o # o
      BY <1>2, <1>a, <3>1 DEF Opens, LiveOwned, Poll
    <3> QED BY <1>2, <3>1, <3>2
  <2>3. OpensBare(x)' /\ AddsToRow(x)'
    BY <1>1, <1>5, <1>a DEF Opens, OpensBare, AddsToRow, Poll
  <2> QED BY <2>1, <2>2, <2>3 DEF Opens
<1>11. Books(x)'
  <2>1. RowsKnown(x)'
    BY <1>1, <1>3, <1>4, <1>a DEF Books, RowsKnown, Poll
  <2>2. BookedLeft(x)'
    <3> SUFFICES ASSUME Poll({"book"}), ord'[k.o].p = x, row[k.o].st = "open" PROVE Toward(k.o)' <= k.cut
      BY <1>1 DEF BookedLeft, Poll, Toward
    <3>1. PICK r \in Orders : r = k.o
      BY InHandTypes DEF Poll
    <3>2. Toward(r) <= k.cut /\ Toward(r)' = Toward(r) /\ Toward(k.o)' = Toward(r)'
      BY <1>1, <1>4, <1>8, <1>a, <3>1 DEF Books, BookedLeft, Toward
    <3> QED BY <3>2
  <2>3. UnwindsAll(x)'
    BY <1>1, <1>a DEF Books, UnwindsAll, Poll
  <2>4. SweptLeft(x)'
    <3> SUFFICES ASSUME Poll({"sweep"}), x \in k.todo, row[k.rows[x]].st = "open"
                 PROVE  Toward(k.rows[x])' <= IF k.vmap[x] * ord'[k.rows[x]].d > 0 THEN Abs(k.vmap[x]) ELSE 0
      BY <1>1 DEF SweptLeft, Poll, Toward
    <3>1. PICK r \in Orders : r = k.rows[x]
      BY InHandTypes DEF Poll
    <3>2. ord[r].p = x
      BY <1>t, <3>1, CopyAssumption DEF IInv, Names, Orders
    <3>3. Toward(r) <= IF k.vmap[x] * ord[r].d > 0 THEN Abs(k.vmap[x]) ELSE 0
      BY <1>a, <3>1 DEF Books, SweptLeft
    <3>4. Toward(r)' = Toward(r) /\ Toward(k.rows[x])' = Toward(r)' /\ ord'[r].d = ord[r].d
      BY <1>1, <1>4, <1>8, <3>1, <3>2 DEF Toward
    <3> QED BY <3>1, <3>3, <3>4
  <2> QED BY <2>1, <2>2, <2>3, <2>4 DEF Books
<1>12. Ends(x)'
  <2>1. FlattensAll(x)'
    BY <1>1, <1>4, <1>a, InHandTypes DEF Ends, FlattensAll
  <2>2. FlatBooked(x)'
    <3>1. ASSUME NEW t \in Actors, pc[t] = "flat_book", NEW q, q = fl[t].o, ord'[q].p = x, row[q].st = "open"
          PROVE  Toward(q)' <= Bound(q)'
      <4>1. q \in Orders
        BY <3>1, InHandTypes
      <4>2. Toward(q) <= Bound(q) /\ ord[q].p = x
        BY <1>4, <1>a, <3>1, <4>1 DEF Ends, FlatBooked
      <4>3. Bound(q)' = Bound(q)
        BY <1>1, <1>3 DEF Bound
      <4> QED BY <1>8, <3>1, <4>1, <4>2, <4>3
    <3> QED BY <1>1, <3>1 DEF FlatBooked, Toward, Bound
  <2> QED BY <2>1, <2>2 DEF Ends
<1>13. StoppedClosed(x)'
  BY <1>1, <1>3, <1>4, <1>a DEF StoppedClosed
<1> QED BY <1>9, <1>10, <1>11, <1>12, <1>13 DEF Account

-----------------------------------------------------------------------------
(* Account: a restart, and orders that are forgotten.                        *)

LEMMA boot_stand_down_mirrorsAccount ==
  ASSUME IInv, Types', boot_stand_down_mirrors, NEW x \in Products \ lost'
  PROVE  Account(x)'
<1> USE DEF Goto, PollGoto, Kept, Return, Upset, Spend
<1>t. Types /\ x \in Products \ lost /\ x \in Products
  BY DEF IInv, boot_stand_down_mirrors
<1>a. Account(x) /\ Holds(x) /\ Opens(x) /\ Books(x) /\ Ends(x) /\ StoppedClosed(x)
  BY <1>t DEF IInv, Account
<1>1. /\ UNCHANGED <<held, ord, row>> /\ pend' = saved /\ \A t \in Actors : pc'[t] = "idle"
      /\ x \notin Unrecorded /\ (~mirror.active => x \notin {ord[o].p : o \in OpenRows})
  BY <1>t DEF boot_stand_down_mirrors, venueVars
<1>2. SameOrders /\ Nearer(x) /\ SameSizes /\ OnlyCloses
  BY <1>1, <1>t, SameOrdersOf, NearerOf, RowsSame
<1>3. "poll" \in Actors /\ pend'[x].o = pend[x].o
  BY <1>1, <1>t, AckTypes DEF IInv, Names
<1>4. Hand' = {} /\ Growing' = {}
  BY <1>1, <1>3 DEF Hand, Growing, Poll, InFlight
<1>5. \A o \in Orders : ord[o].p = x => o \notin Hand /\ o \notin Growing
  <2>1. \A o \in Hand : ord[o].p # x
    BY <1>1 DEF Hand, Unrecorded, IInv, Steps, Poll, InFlight
  <2>2. \A o \in Growing : ord[o].p # x
    <3>1. pc["poll"] = "grow" => ord[k.rows[k.p]].p = k.p
      BY <1>t, LocalTypes DEF IInv, Steps, Names, Poll
    <3> QED BY <1>1, <3>1 DEF Growing, Unrecorded, Poll
  <2> QED BY <2>1, <2>2
<1>6. Holds(x)'
  <2>1. \A o \in Orders : ord[o].p = x => (Owns(o)' <=> Owns(o))
    BY <1>1, <1>3, <1>4, <1>5 DEF Owns
  <2>2. \A o \in Orders : ord[o].p = x => Owed(o)' = Owed(o)
    BY <1>1, <1>4, <1>5 DEF Owed, Bound
  <2> QED BY <1>2, <1>a, <1>t, <2>1, <2>2, HoldsKept
<1>7. Opens(x)'
  <2>1. LiveOwned(x)'
    <3>1. \A o \in Orders : ord[o].live /\ ord[o].p = x => pend[x].o = o
      BY <1>1, <1>a DEF Opens, LiveOwned, Unrecorded, IInv, Steps, Poll, InFlight
    <3> QED BY <1>1, <1>3, <3>1 DEF LiveOwned
  <2> QED BY <1>1, <1>3, <2>1 DEF Opens, SeenAll, OpensBare, AddsToRow, Poll
<1>8. Books(x)'
  BY <1>1, <1>3, BooksAtHome DEF Opened
<1>9. Ends(x)'
  BY <1>1 DEF Ends, FlattensAll, FlatBooked
<1>10. StoppedClosed(x)'
  <2>1. mirror'.active = mirror.active
    BY <1>t DEF boot_stand_down_mirrors, Types, MirrorType
  <2> QED BY <1>1, <2>1 DEF StoppedClosed, OpenRows
<1> QED BY <1>6, <1>7, <1>8, <1>9, <1>10 DEF Account

LEMMA poll_all_mirrorsAccount ==
  ASSUME IInv, Types', _poll_all_mirrors, NEW x \in Products \ lost'
  PROVE  Account(x)'
<1> USE DEF Goto, PollGoto, Kept, Return, Upset, Spend
<1>t. Types /\ x \in Products \ lost /\ x \in Products
  BY DEF IInv, _poll_all_mirrors
<1>a. Account(x) /\ Holds(x) /\ Opens(x) /\ Books(x) /\ Ends(x) /\ StoppedClosed(x)
  BY <1>t DEF IInv, Account
<1>1. /\ UNCHANGED <<held, pend, fl, mirror>> /\ Forget /\ pc["poll"] = "idle" /\ pc'["poll"] \in {"leader", "resolve"}
      /\ pc'["user"] = pc["user"]
  BY <1>t DEF _poll_all_mirrors, pendVars, Types, PcType, Actors
<1>2. \A q \in Orders : \/ Settled(q) /\ ord'[q] = NoOrder /\ row'[q] = NoRow
                        \/ ~Settled(q) /\ ord'[q] = ord[q] /\ row'[q] = row[q]
  BY <1>1, <1>t, ForgetEffect
<1>3. Hand = {} /\ Hand' = {} /\ Growing = {} /\ Growing' = {} /\ InHand = {} /\ InHand' = {}
  BY <1>1 DEF Hand, Growing, InHand, Poll, InFlight
<1>4. \A q \in Orders : (row'[q].st = "open" => row[q].st = "open" /\ ~Settled(q)) /\ (ord'[q].live => ~Settled(q))
  <2>1. NoRow.st # "open" /\ ~NoOrder.live
    BY DEF NoRow, NoOrder
  <2> QED BY <1>2, <2>1
<1>5. \A q \in Orders : Settled(q) => ~Owns(q) /\ ~Owns(q)'
  <2> SUFFICES ASSUME NEW q \in Orders, Settled(q) PROVE ~Owns(q) /\ ~Owns(q)'
    OBVIOUS
  <2>1. row[q].st # "open" /\ row'[q].st # "open"
    BY <1>4 DEF Settled
  <2>2. \A p \in Products : pend[p].o # q
    BY DEF Settled
  <2>3. ord[q].p \in Products /\ ord'[q].p \in Products
    BY <1>t, OrderTypes DEF Types, OrdType, OrderRec
  <2> QED BY <1>1, <1>3, <2>1, <2>2, <2>3 DEF Owns
<1>6. \A q \in Orders : ~Settled(q) => (Owns(q)' <=> Owns(q)) /\ Owed(q)' = Owed(q) /\ Toward(q)' = Toward(q) /\ Bound(q)' = Bound(q)
  BY <1>1, <1>2, <1>3 DEF Owns, Owed, Bound, Toward
<1>7. Owners(x)' = Owners(x) /\ \A q \in Owners(x) : q \in Orders /\ ~Settled(q)
  BY <1>2, <1>5, <1>6 DEF Owners
<1>8. Holds(x)'
  BY <1>1, <1>6, <1>7, <1>a DEF Holds, OneOwner, FlatUnowned, OwnedHeld
<1>9. Opens(x)'
  <2>1. LiveOwned(x)'
    BY <1>1, <1>2, <1>4, <1>a DEF Opens, LiveOwned, Poll
  <2> QED BY <1>1, <2>1 DEF Opens, SeenAll, OpensBare, AddsToRow, Poll
<1>10. Books(x)'
  BY <1>1, BooksAtHome DEF Opened
<1>11. Ends(x)'
  <2>0. \A t \in Actors : pc'[t] \in {"flatten", "flat_book"} => pc[t] = pc'[t]
    BY <1>1, AckTypes
  <2>1. FlattensAll(x)'
    <3>1. ASSUME NEW t \in Actors, pc'[t] \in {"flatten", "flat_book"}, NEW c \in fl[t].todo,
                 ord'[c[1]].p = x, row'[c[1]].st = "open"
          PROVE  row'[c[1]].size <= c[2]
      <4>1. c[1] \in Orders
        BY InHandTypes
      <4>2. row'[c[1]] = row[c[1]] /\ ord'[c[1]] = ord[c[1]] /\ pc[t] \in {"flatten", "flat_book"}
        BY <1>2, <1>4, <2>0, <3>1, <4>1
      <4> QED BY <1>a, <3>1, <4>1, <4>2 DEF Ends, FlattensAll
    <3> QED BY <1>1, <3>1 DEF FlattensAll
  <2>2. FlatBooked(x)'
    <3>1. ASSUME NEW t \in Actors, pc'[t] = "flat_book", NEW q, q = fl[t].o, ord'[q].p = x, row'[q].st = "open"
          PROVE  Toward(q)' <= Bound(q)'
      <4>1. q \in Orders /\ pc[t] = "flat_book"
        BY <2>0, <3>1, InHandTypes
      <4>2. row'[q] = row[q] /\ ord'[q] = ord[q] /\ ~Settled(q)
        BY <1>2, <1>4, <3>1, <4>1
      <4>3. Toward(q) <= Bound(q)
        BY <1>a, <3>1, <4>1, <4>2 DEF Ends, FlatBooked
      <4> QED BY <1>6, <4>1, <4>2, <4>3
    <3> QED BY <1>1, <3>1 DEF FlatBooked, Toward, Bound
  <2> QED BY <2>1, <2>2 DEF Ends
<1>12. StoppedClosed(x)'
  BY <1>1, <1>2, <1>3, <1>4, <1>a DEF StoppedClosed
<1> QED BY <1>8, <1>9, <1>10, <1>11, <1>12 DEF Account

-----------------------------------------------------------------------------
(* The invariant, and what follows from it.                                  *)

\* Every step keeps the account of every product it does not let go of.
LEMMA NextAccount ==
  ASSUME IInv, Next, Types', NEW x \in Products \ lost'
  PROVE  Account(x)'
<1>1. ASSUME NEW p \in Products, LeaderMove(p) PROVE Account(x)'
  BY <1>1, LeaderMoveAccount
<1>2. ASSUME NEW o \in Orders, Fill(o) PROVE Account(x)'
  BY <1>2, FillAccount
<1>3. ASSUME NEW p \in Products, ExternalClose(p) PROVE Account(x)'
  BY <1>3, ExternalCloseAccount
<1>4. ASSUME start_copy PROVE Account(x)'
  BY <1>4, start_copyAccount
<1>5. ASSUME pause_copy PROVE Account(x)'
  BY <1>5, pause_copyAccount
<1>6. ASSUME resume_copy PROVE Account(x)'
  BY <1>6, resume_copyAccount
<1>7. ASSUME stop_copy PROVE Account(x)'
  BY <1>7, stop_copyAccount
<1>8. ASSUME boot_stand_down_mirrors PROVE Account(x)'
  BY <1>8, boot_stand_down_mirrorsAccount
<1>9. ASSUME NEW t \in Actors, FlattenClose(t) PROVE Account(x)'
  BY <1>9, FlattenCloseAccount
<1>10. ASSUME NEW t \in Actors, FlattenBook(t) PROVE Account(x)'
  BY <1>10, FlattenBookAccount
<1>11. ASSUME NEW t \in Actors, FlattenEnd(t) PROVE Account(x)'
  BY <1>11, FlattenEndAccount
<1>12. ASSUME NEW t \in Actors, StopRow(t) PROVE Account(x)'
  BY <1>12, StopRowAccount
<1>13. ASSUME NEW t \in Actors, _clear_mirror_runtime_state(t) PROVE Account(x)'
  BY <1>13, clear_mirror_runtime_stateAccount
<1>14. ASSUME _poll_all_mirrors PROVE Account(x)'
  BY <1>14, poll_all_mirrorsAccount
<1>15. ASSUME LoadLeader PROVE Account(x)'
  BY <1>15, LoadLeaderAccount
<1>16. ASSUME ResolveRead PROVE Account(x)'
  BY <1>16, ResolveReadAccount
<1>17. ASSUME ResolveVerdict PROVE Account(x)'
  BY <1>17, ResolveVerdictAccount
<1>18. ASSUME InsertLate PROVE Account(x)'
  BY <1>18, InsertAccount
<1>19. ASSUME Rearm PROVE Account(x)'
  BY <1>19, RearmAccount
<1>20. ASSUME ResolveDone PROVE Account(x)'
  BY <1>20, ResolveDoneAccount
<1>21. ASSUME ReadVenue PROVE Account(x)'
  BY <1>21, ReadVenueAccount
<1>22. ASSUME NEW p \in Products, Sweep(p) PROVE Account(x)'
  BY <1>22, SweepAccount
<1>23. ASSUME Rail PROVE Account(x)'
  BY <1>23, RailAccount
<1>24. ASSUME NEW p \in Products, CloseGone(p) PROVE Account(x)'
  BY <1>24, CloseGoneAccount
<1>25. ASSUME CloseGoneDone PROVE Account(x)'
  BY <1>25, CloseGoneDoneAccount
<1>26. ASSUME NEW p \in Products, Flip(p) PROVE Account(x)'
  BY <1>26, FlipAccount
<1>27. ASSUME NEW p \in Products, Trim(p) PROVE Account(x)'
  BY <1>27, TrimAccount
<1>28. ASSUME BookClose PROVE Account(x)'
  BY <1>28, BookCloseAccount
<1>29. ASSUME NEW p \in Products, Add(p) PROVE Account(x)'
  BY <1>29, AddAccount
<1>30. ASSUME AddSend PROVE Account(x)'
  BY <1>30, AddSendAccount
<1>31. ASSUME Grow PROVE Account(x)'
  BY <1>31, GrowAccount
<1>32. ASSUME NEW p \in Products, Skip(p) PROVE Account(x)'
  BY <1>32, SkipAccount
<1>33. ASSUME NEW p \in Products, Open(p) PROVE Account(x)'
  BY <1>33, OpenAccount
<1>34. ASSUME CheckLive PROVE Account(x)'
  BY <1>34, CheckLiveAccount
<1>35. ASSUME Place PROVE Account(x)'
  BY <1>35, PlaceAccount
<1>36. ASSUME WaitFilled PROVE Account(x)'
  BY <1>36, WaitFilledAccount
<1>37. ASSUME WaitOver PROVE Account(x)'
  BY <1>37, WaitOverAccount
<1>38. ASSUME ReadBack PROVE Account(x)'
  BY <1>38, ReadBackAccount
<1>39. ASSUME InsertRow PROVE Account(x)'
  BY <1>39, InsertAccount
<1>40. ASSUME Recheck PROVE Account(x)'
  BY <1>40, RecheckAccount
<1>41. ASSUME _unwind_stop_raced_open PROVE Account(x)'
  BY <1>41, unwind_stop_raced_openAccount
<1>42. ASSUME _register_pending_maker_open PROVE Account(x)'
  BY <1>42, register_pending_maker_openAccount
<1>43. ASSUME RearmPending PROVE Account(x)'
  BY <1>43, RearmPendingAccount
<1>44. ASSUME SyncDone PROVE Account(x)'
  BY <1>44, SyncDoneAccount
<1> QED BY <1>1, <1>2, <1>3, <1>4, <1>5, <1>6, <1>7, <1>8, <1>9, <1>10, <1>11, <1>12, <1>13, <1>14, <1>15, <1>16, <1>17, <1>18, <1>19, <1>20, <1>21, <1>22, <1>23, <1>24, <1>25, <1>26, <1>27, <1>28, <1>29, <1>30, <1>31, <1>32, <1>33, <1>34, <1>35, <1>36, <1>37, <1>38, <1>39, <1>40, <1>41, <1>42, <1>43, <1>44 DEF Next, World, PollStep, UserStep, FlattenStep, Actors

\* A mirror just created accounts for everything.
LEMMA IInvInit == Init => IInv
<1> SUFFICES ASSUME Init PROVE IInv
  OBVIOUS
<1>1. Types
  BY InitTypes
<1>2. \A o \in Orders : ord[o] = NoOrder /\ row[o] = NoRow
  BY DEF Init
<1>3. \A p \in Products : pend[p].o = 0 /\ saved[p].o = 0 /\ k.rows[p] = 0 /\ held[p] = 0
  BY DEF Init, NoPend, K0
<1>4. /\ NoOrder.size = 0 /\ NoOrder.filled = 0 /\ NoOrder.live = FALSE /\ NoRow.st = "none" /\ NoRow.size = 0
      /\ k.back = "open" /\ mirror.active
  BY DEF Init, NoOrder, NoRow, K0
<1>5. \A t \in Actors : pc[t] = "idle"
  BY DEF Init
<1>6. "poll" \in Actors /\ "user" \in Actors
  BY DEF Actors
<1>7. Orderly /\ Names
  BY <1>2, <1>3, <1>4 DEF Orderly, Names
<1>8. Steps
  BY <1>4, <1>5, <1>6 DEF Steps, Poll, InFlight, Opened
<1>9. Flattens /\ UserStops
  BY <1>5, <1>6 DEF Flattens, Flattening, UserStops
<1>10. ASSUME NEW x \in Products PROVE Account(x)
  <2>1. Hand = {} /\ Growing = {}
    BY <1>5, <1>6 DEF Hand, Growing, Poll, InFlight
  <2>2. \A o \in Orders : ~Owns(o)
    <3>1. \A o \in Orders : ord[o].p \in Products /\ o # 0
      BY <1>1, OrderTypes, CopyAssumption DEF Orders
    <3> QED BY <1>2, <1>3, <1>4, <2>1, <3>1 DEF Owns
  <2>3. Owners(x) = {}
    BY <2>2 DEF Owners
  <2>4. Holds(x)
    BY <1>3, <2>3 DEF Holds, OneOwner, FlatUnowned, OwnedHeld
  <2>5. Opens(x)
    BY <1>2, <1>4, <1>5, <1>6 DEF Opens, LiveOwned, SeenAll, OpensBare, AddsToRow, Poll
  <2>6. Books(x)
    BY <1>5, <1>6 DEF Books, RowsKnown, BookedLeft, UnwindsAll, SweptLeft, Unseen, Poll, Opened
  <2>7. Ends(x)
    BY <1>5 DEF Ends, FlattensAll, FlatBooked
  <2>8. StoppedClosed(x)
    BY <1>4 DEF StoppedClosed
  <2> QED BY <2>4, <2>5, <2>6, <2>7, <2>8 DEF Account
<1> QED BY <1>1, <1>7, <1>8, <1>9, <1>10 DEF IInv

\* A step of something else leaves the account.
LEMMA IInvStutter == ASSUME IInv, UNCHANGED vars PROVE IInv'
<1>0. UNCHANGED <<mirror, leader, held, ord, row, pend, saved, suspects, lost, pc, k, fl>>
  BY DEF vars
<1>1. Types'
  BY <1>0 DEF IInv, Types, MirrorType, HoldType, OrdType, RowType, PendType, HistType, PcType, LocalType, FlatType
<1>2. Orderly' /\ Names'
  BY <1>0 DEF IInv, Orderly, Names
<1>3. Steps'
  BY <1>0 DEF IInv, Steps, Poll, Placed, Added, Copy, Size
<1>4. Flattens' /\ UserStops'
  BY <1>0 DEF IInv, Flattens, Flattening, UserStops, Stopped
<1>5. ASSUME NEW x \in Products \ lost PROVE Account(x)'
  <2>1. Account(x)
    BY DEF IInv
  <2>2. Hand' = Hand /\ Growing' = Growing /\ InHand' = InHand /\ Unseen' = Unseen
    BY <1>0 DEF Hand, Growing, InHand, Unseen, Poll
  <2>3. \A o : (Owns(o)' <=> Owns(o)) /\ Owed(o)' = Owed(o) /\ Bound(o)' = Bound(o) /\ Toward(o)' = Toward(o)
    BY <1>0, <2>2 DEF Owns, Owed, Bound, Toward
  <2>4. Owners(x)' = Owners(x)
    BY <1>0, <2>3 DEF Owners
  <2>5. Holds(x)'
    BY <1>0, <2>1, <2>3, <2>4 DEF Account, Holds, OneOwner, FlatUnowned, OwnedHeld
  <2>6. Opens(x)'
    BY <1>0, <2>1, <2>4 DEF Account, Opens, LiveOwned, SeenAll, OpensBare, AddsToRow, Poll
  <2>7. Books(x)'
    <3>1. RowsKnown(x)' /\ UnwindsAll(x)'
      BY <1>0, <2>1, <2>2 DEF Account, Books, RowsKnown, UnwindsAll, Poll
    <3>2. BookedLeft(x)' /\ SweptLeft(x)'
      BY <1>0, <2>1 DEF Account, Books, BookedLeft, SweptLeft, Poll, Toward
    <3> QED BY <3>1, <3>2 DEF Books
  <2>8. Ends(x)'
    <3>1. FlattensAll(x)'
      BY <1>0, <2>1 DEF Account, Ends, FlattensAll
    <3>2. FlatBooked(x)'
      BY <1>0, <2>1, <2>2 DEF Account, Ends, FlatBooked, Toward, Bound
    <3> QED BY <3>1, <3>2 DEF Ends
  <2>9. StoppedClosed(x)'
    BY <1>0, <2>1, <2>2 DEF Account, StoppedClosed
  <2> QED BY <2>5, <2>6, <2>7, <2>8, <2>9 DEF Account
<1> QED BY <1>0, <1>1, <1>2, <1>3, <1>4, <1>5 DEF IInv

\* Every step keeps the account.
LEMMA IInvNext == ASSUME IInv, [Next]_vars PROVE IInv'
<1>1. CASE Next
  <2>1. Types'
    BY <1>1, NextTypes
  <2>2. Orderly' /\ Names' /\ Steps' /\ Flattens' /\ UserStops'
    BY <1>1, <2>1, NextOrderly, NextNames, NextSteps, NextFlattens, NextUserStops
  <2>3. \A x \in Products \ lost' : Account(x)'
    BY <1>1, <2>1, NextAccount
  <2> QED BY <2>1, <2>2, <2>3 DEF IInv
<1>2. CASE UNCHANGED vars
  BY <1>2, IInvStutter
<1> QED BY <1>1, <1>2

\* The account of every product that has not been let go of, after every step of
\* the poller, the user, the venue and a restart.
THEOREM AccountKept == Spec => []IInv
<1>1. Init => IInv
  BY IInvInit
<1>2. IInv /\ [Next]_vars => IInv'
  BY IInvNext
<1> QED BY <1>1, <1>2, PTL DEF Spec

\* Every column of the mirror, order, row and pending entry has its type, and an
\* order is never filled beyond its size (create_copy_mirror_v2, insert_copy_position).
THEOREM TypeCorrect == Spec => []TypeOK
<1>1. IInv => TypeOK
  <2> SUFFICES ASSUME IInv PROVE TypeOK
    OBVIOUS
  <2>t. Types /\ Orderly
    BY DEF IInv
  <2>1. /\ mirror \in [active : BOOLEAN, stop : BOOLEAN, paused : BOOLEAN]
        /\ leader \in [Products -> -MaxLots..MaxLots]
        /\ \A p \in Products : held[p] \in Int
    BY <2>t DEF Types, MirrorType, HoldType
  <2>2. \A o \in Orders :
           /\ ord[o].p \in Products /\ ord[o].d \in Sides /\ ord[o].size \in 0..MaxLots
           /\ ord[o].filled \in 0..ord[o].size
           /\ ord[o].live => ord[o].filled < ord[o].size
           /\ row[o].st \in {"none", "open", "closed"}
           /\ row[o].st = "open" => row[o].size > 0 /\ row[o].base \in 1..MaxLots
    <3> SUFFICES ASSUME NEW o \in Orders
                 PROVE  /\ ord[o].p \in Products /\ ord[o].d \in Sides /\ ord[o].size \in 0..MaxLots
                        /\ ord[o].filled \in 0..ord[o].size
                        /\ ord[o].live => ord[o].filled < ord[o].size
                        /\ row[o].st \in {"none", "open", "closed"}
                        /\ row[o].st = "open" => row[o].size > 0 /\ row[o].base \in 1..MaxLots
      OBVIOUS
    <3>1. ord[o].filled \in 0..ord[o].size
      BY <2>t, OrderTypes, CopyAssumption DEF Orderly
    <3>2. row[o].st = "open" => row[o].size > 0 /\ row[o].base \in 1..MaxLots
      BY <2>t, OrderTypes, CopyAssumption DEF Orderly
    <3> QED BY <2>t, <3>1, <3>2, OrderTypes DEF Orderly
  <2>3. \A p \in Products : \A q \in {pend[p], saved[p]} :
          q.o \in 0..MaxOrders /\ q.age \in 0..(2 * GiveUp) /\ q.acked \in BOOLEAN
    BY <2>t, PendTypes
  <2>4. /\ suspects \subseteq Products /\ lost \subseteq Products
        /\ pc["poll"] \in PollPCs /\ pc["user"] \in {"idle", "flatten", "flat_book", "stop_row", "clear"}
    BY <2>t DEF Types, HistType, PcType, UserPCs, Actors
  <2>5. k.todo \subseteq Products /\ k.mode \in {"copy", "stop", "orphan"}
    BY <2>t, LocalTypes
  <2>6. \A t \in Actors : fl[t].todo \subseteq Orders \X (1..MaxLots)
    BY <2>t DEF Types, FlatType, FlatRec
  <2> QED BY <2>1, <2>2, <2>3, <2>4, <2>5, <2>6 DEF TypeOK
<1> QED BY <1>1, AccountKept, PTL

\* COPY-STOP-RACE (stop_copy, _stop_mirror, _unwind_stop_raced_open): once both actors
\* are done, a stopped mirror holds nothing, rests nothing and has no open row, but for
\* an order a pending entry owns and the products a known gap let go of.
THEOREM StoppedFlat == Spec => []StoppedIsFlat
<1>1. IInv => StoppedIsFlat
  <2> SUFFICES ASSUME IInv, ~mirror.active, Quiet, NEW p \in Products \ lost, pend[p].o = 0
               PROVE  held[p] = 0 /\ Live(p) = {} /\ Rows(p) = {}
    BY DEF StoppedIsFlat
  <2>0. pc["poll"] = "idle"
    BY AckTypes DEF Quiet
  <2>1. Account(p)
    BY DEF IInv
  <2>2. InHand = {} /\ Hand = {} /\ Growing = {}
    BY <2>0 DEF InHand, Hand, Growing, Poll, InFlight
  <2>3. Rows(p) = {} /\ \A o \in Orders : ord[o].p = p => row[o].st # "open"
    BY <2>1, <2>2 DEF Account, StoppedClosed, Rows, OpenRows
  <2>4. Live(p) = {}
    BY <2>0, <2>1, CopyAssumption DEF Account, Opens, LiveOwned, Live, Poll, Orders
  <2>5. Owners(p) = {}
    BY <2>2, <2>3, CopyAssumption DEF Owners, Owns, Orders
  <2> QED BY <2>1, <2>3, <2>4, <2>5 DEF Account, Holds, FlatUnowned
<1> QED BY <1>1, AccountKept, PTL

\* The copied rows and _PENDING_MAKER_OPENS account for every lot held and every
\* resting order between polls, whatever fills, trims, adds, flips and restarts
\* happened (products a known gap let go of excepted).
THEOREM EverythingAccounted == Spec => []NothingForgotten
<1>1. IInv => NothingForgotten
  <2> SUFFICES ASSUME IInv, Quiet, NEW p \in Products \ lost
               PROVE  /\ Live(p) \subseteq {pend[p].o}
                      /\ Abs(held[p]) <= MapThenSumSet(LAMBDA o : row[o].size, Rows(p))
                            + (IF pend[p].o = 0 THEN 0 ELSE ord[pend[p].o].filled)
    BY DEF NothingForgotten
  <2>t. Types
    BY DEF IInv
  <2>0. pc["poll"] = "idle"
    BY AckTypes DEF Quiet
  <2>1. Account(p)
    BY DEF IInv
  <2>2. Hand = {} /\ Growing = {}
    BY <2>0 DEF Hand, Growing, Poll, InFlight
  <2>3. Live(p) \subseteq {pend[p].o}
    BY <2>0, <2>1 DEF Account, Opens, LiveOwned, Live, Poll
  <2> DEFINE S == MapThenSumSet(LAMBDA o : row[o].size, Rows(p))
             F == IF pend[p].o = 0 THEN 0 ELSE ord[pend[p].o].filled
  <2>4. F \in Nat /\ held[p] \in Int
    <3>1. pend[p].o # 0 => pend[p].o \in Orders
      BY NamedOrders
    <3> QED BY <2>t, <3>1, OrderTypes, CopyAssumption DEF Types, HoldType
  <2>5. \A o \in Rows(p) : o \in Orders /\ ord[o].p = p /\ row[o].st = "open" /\ o \in Owners(p)
    BY DEF Rows, OpenRows, Owners, Owns
  <2>6. S \in Nat /\ \A o \in Rows(p) : S = row[o].size
    <3>1. CASE Rows(p) = {}
      BY <3>1, SumEmpty
    <3>2. CASE Rows(p) # {}
      <4>1. PICK o : o \in Rows(p)
        BY <3>2
      <4>2. Rows(p) = {o}
        BY <2>1, <2>5, <4>1 DEF Account, Holds, OneOwner
      <4>3. row[o].size \in Nat
        BY <2>5, <2>t, <4>1, OrderTypes, CopyAssumption
      <4>4. S = row[o].size
        BY <4>2, <4>3, SumSingle
      <4> QED BY <4>2, <4>3, <4>4
    <3> QED BY <3>1, <3>2
  <2>7. Abs(held[p]) <= S + F
    <3> HIDE DEF S, F
    <3>1. CASE Owners(p) = {}
      <4>1. held[p] = 0
        BY <2>1, <3>1 DEF Account, Holds, FlatUnowned
      <4> QED BY <2>4, <2>6, <4>1 DEF Abs
    <3>2. CASE Owners(p) # {}
      <4>1. PICK o \in Owners(p) : TRUE
        BY <3>2
      <4>2. o \in Orders /\ ord[o].p = p /\ (row[o].st = "open" \/ pend[p].o = o)
        BY <2>2, <4>1 DEF Owners, Owns
      <4>3. Toward(o) \in 0..Owed(o) /\ Owed(o) \in Nat
        BY <2>1, <4>1, <4>2, OwedInt DEF Account, Holds, OwnedHeld
      <4>4. Owed(o) <= S + F
        <5>1. CASE row[o].st = "open"
          <6>1. o \in Rows(p)
            BY <4>2, <5>1 DEF Rows, OpenRows
          <6>2. Owed(o) = row[o].size + 0
            BY <2>2, <5>1 DEF Owed, Bound
          <6> QED BY <2>4, <2>6, <6>1, <6>2
        <5>2. CASE row[o].st # "open" /\ pend[p].o = o
          <6>1. o # 0 /\ row[o].st = "none"
            BY <4>2, <5>2, CopyAssumption DEF IInv, Names, Orders
          <6>2. Owed(o) = ord[o].filled + 0 /\ F = ord[o].filled
            BY <2>2, <5>2, <6>1 DEF Owed, Bound, F
          <6> QED BY <2>4, <2>6, <6>2
        <5> QED BY <4>2, <5>1, <5>2
      <4>5. Abs(held[p]) = Toward(o)
        <5>1. Toward(o) = Along(ord[o].d, held[p]) /\ Toward(o) >= 0
          BY <4>2, <4>3 DEF Toward
        <5>2. CASE ord[o].d = 1
          BY <2>4, <5>1, <5>2 DEF Along, Abs
        <5>3. CASE ord[o].d # 1
          <6>1. Toward(o) = -held[p]
            BY <5>1, <5>3 DEF Along
          <6>2. CASE held[p] < 0
            BY <6>1, <6>2 DEF Abs
          <6>3. CASE ~(held[p] < 0)
            <7>1. held[p] <= 0 /\ held[p] >= 0
              BY <2>4, <5>1, <6>1, <6>3
            <7> QED BY <2>4, <6>1, <6>3, <7>1 DEF Abs
          <6> QED BY <6>2, <6>3
        <5> QED BY <5>2, <5>3
      <4> QED BY <2>4, <2>6, <4>3, <4>4, <4>5
    <3> QED BY <3>1, <3>2
  <2> QED BY <2>3, <2>7
<1> QED BY <1>1, AccountKept, PTL

\* Only Place gives a free order a size.
LEMMA OnlyPlaceOrders ==
  ASSUME IInv, [Next]_vars, NEW o \in Orders, ord[o].size = 0, ord'[o].size > 0
  PROVE  Place
<1>t. Types
  BY DEF IInv
<1>1. ASSUME UNCHANGED ord \/ (\E q : ord' = Cancelled(q)) \/ (\E q \in Orders : Fill(q)) \/ Forget PROVE FALSE
  <2>1. CASE UNCHANGED ord
    BY <2>1
  <2>2. ASSUME NEW q, ord' = Cancelled(q) PROVE FALSE
    BY <1>t, <2>2, CancelEffect
  <2>3. ASSUME NEW q \in Orders, Fill(q) PROVE FALSE
    BY <1>t, <2>3, FillEffect
  <2>4. CASE Forget
    <3>1. NoOrder.size = 0
      BY DEF NoOrder
    <3> QED BY <1>t, <2>4, <3>1, ForgetEffect
  <2> QED BY <1>1, <2>1, <2>2, <2>3, <2>4
<1>2. UNCHANGED ord => FALSE
  BY <1>1
<1>3. ASSUME NEW p \in Products, LeaderMove(p) PROVE FALSE
  BY <1>2, <1>3 DEF LeaderMove, venueVars
<1>4. ASSUME NEW p \in Products, ExternalClose(p) PROVE FALSE
  BY <1>2, <1>4 DEF ExternalClose, venueVars
<1>5. ASSUME start_copy PROVE FALSE
  BY <1>2, <1>5 DEF start_copy, venueVars
<1>6. ASSUME pause_copy PROVE FALSE
  BY <1>2, <1>6 DEF pause_copy, venueVars
<1>7. ASSUME resume_copy PROVE FALSE
  BY <1>2, <1>7 DEF resume_copy, venueVars
<1>8. ASSUME stop_copy PROVE FALSE
  BY <1>2, <1>8 DEF stop_copy, venueVars
<1>9. ASSUME boot_stand_down_mirrors PROVE FALSE
  BY <1>2, <1>9 DEF boot_stand_down_mirrors, venueVars
<1>10. ASSUME NEW t \in Actors, FlattenClose(t) PROVE FALSE
  BY <1>2, <1>10 DEF FlattenClose, venueVars
<1>11. ASSUME NEW t \in Actors, FlattenBook(t) PROVE FALSE
  BY <1>2, <1>11 DEF FlattenBook, venueVars
<1>12. ASSUME NEW t \in Actors, FlattenEnd(t) PROVE FALSE
  BY <1>2, <1>12 DEF FlattenEnd, venueVars
<1>13. ASSUME NEW t \in Actors, StopRow(t) PROVE FALSE
  BY <1>2, <1>13 DEF StopRow, venueVars
<1>14. ASSUME NEW t \in Actors, _clear_mirror_runtime_state(t) PROVE FALSE
  BY <1>2, <1>14 DEF _clear_mirror_runtime_state, venueVars
<1>15. ASSUME LoadLeader PROVE FALSE
  BY <1>2, <1>15 DEF LoadLeader, venueVars
<1>16. ASSUME ResolveRead PROVE FALSE
  BY <1>2, <1>16 DEF ResolveRead, venueVars
<1>17. ASSUME InsertLate PROVE FALSE
  BY <1>2, <1>17 DEF InsertLate, venueVars
<1>18. ASSUME Rearm PROVE FALSE
  BY <1>2, <1>18 DEF Rearm, venueVars
<1>19. ASSUME ResolveDone PROVE FALSE
  BY <1>2, <1>19 DEF ResolveDone, venueVars
<1>20. ASSUME ReadVenue PROVE FALSE
  BY <1>2, <1>20 DEF ReadVenue, venueVars
<1>21. ASSUME NEW p \in Products, Sweep(p) PROVE FALSE
  BY <1>2, <1>21 DEF Sweep, venueVars
<1>22. ASSUME Rail PROVE FALSE
  BY <1>2, <1>22 DEF Rail, venueVars
<1>23. ASSUME NEW p \in Products, CloseGone(p) PROVE FALSE
  BY <1>2, <1>23 DEF CloseGone, venueVars
<1>24. ASSUME CloseGoneDone PROVE FALSE
  BY <1>2, <1>24 DEF CloseGoneDone, venueVars
<1>25. ASSUME NEW p \in Products, Flip(p) PROVE FALSE
  BY <1>2, <1>25 DEF Flip, venueVars
<1>26. ASSUME NEW p \in Products, Trim(p) PROVE FALSE
  BY <1>2, <1>26 DEF Trim, venueVars
<1>27. ASSUME BookClose PROVE FALSE
  BY <1>2, <1>27 DEF BookClose, venueVars
<1>28. ASSUME NEW p \in Products, Add(p) PROVE FALSE
  BY <1>2, <1>28 DEF Add, venueVars
<1>29. ASSUME AddSend PROVE FALSE
  BY <1>2, <1>29 DEF AddSend, venueVars
<1>30. ASSUME Grow PROVE FALSE
  BY <1>2, <1>30 DEF Grow, venueVars
<1>31. ASSUME NEW p \in Products, Skip(p) PROVE FALSE
  BY <1>2, <1>31 DEF Skip, venueVars
<1>32. ASSUME NEW p \in Products, Open(p) PROVE FALSE
  BY <1>2, <1>32 DEF Open, venueVars
<1>33. ASSUME CheckLive PROVE FALSE
  BY <1>2, <1>33 DEF CheckLive, venueVars
<1>34. ASSUME WaitFilled PROVE FALSE
  BY <1>2, <1>34 DEF WaitFilled, venueVars
<1>35. ASSUME ReadBack PROVE FALSE
  BY <1>2, <1>35 DEF ReadBack, venueVars
<1>36. ASSUME InsertRow PROVE FALSE
  BY <1>2, <1>36 DEF InsertRow, venueVars
<1>37. ASSUME Recheck PROVE FALSE
  BY <1>2, <1>37 DEF Recheck, venueVars
<1>38. ASSUME _unwind_stop_raced_open PROVE FALSE
  BY <1>2, <1>38 DEF _unwind_stop_raced_open, venueVars
<1>39. ASSUME _register_pending_maker_open PROVE FALSE
  BY <1>2, <1>39 DEF _register_pending_maker_open, venueVars
<1>40. ASSUME RearmPending PROVE FALSE
  BY <1>2, <1>40 DEF RearmPending, venueVars
<1>41. ASSUME SyncDone PROVE FALSE
  BY <1>2, <1>41 DEF SyncDone, venueVars
<1>42. ASSUME NEW q \in Orders, Fill(q) PROVE FALSE
  BY <1>1, <1>42
<1>43. ASSUME _poll_all_mirrors PROVE FALSE
  BY <1>1, <1>43 DEF _poll_all_mirrors
<1>44. ASSUME ResolveVerdict PROVE FALSE
  BY <1>1, <1>44 DEF ResolveVerdict
<1>45. ASSUME WaitOver PROVE FALSE
  BY <1>1, <1>45 DEF WaitOver
<1>46. CASE UNCHANGED vars
  BY <1>2, <1>46 DEF vars
<1> QED BY <1>3, <1>4, <1>5, <1>6, <1>7, <1>8, <1>9, <1>10, <1>11, <1>12, <1>13, <1>14, <1>15, <1>16, <1>17, <1>18, <1>19, <1>20, <1>21, <1>22, <1>23, <1>24, <1>25, <1>26, <1>27, <1>28, <1>29, <1>30, <1>31, <1>32, <1>33, <1>34, <1>35, <1>36, <1>37, <1>38, <1>39, <1>40, <1>41, <1>42, <1>43, <1>44, <1>45, <1>46 DEF Next, World, PollStep, UserStep, FlattenStep, Actors

\* "a live resting order + a fresh order = double exposure" (_execute_maker_open):
\* an open is sent only for a product that holds nothing and rests nothing.
THEOREM OpensFlat == Spec => OpensFromFlat
<1>1. ASSUME IInv, [Next]_vars
      PROVE  \A o \in Orders : ord[o].size = 0 /\ ord'[o].size > 0 =>
               LET p == ord'[o].p IN p \in lost \/ (held[p] = 0 /\ Live(p) = {})
  <2> SUFFICES ASSUME NEW o \in Orders, ord[o].size = 0, ord'[o].size > 0, NEW p, p = ord'[o].p, p \notin lost
               PROVE  held[p] = 0 /\ Live(p) = {}
    OBVIOUS
  <2>1. Place
    BY <1>1, OnlyPlaceOrders
  <2>2. p = k.p /\ p \in Products /\ pc["poll"] = "place"
    <3>1. k.p \in Products
      BY <1>1, LocalTypes DEF IInv
    <3> QED BY <1>1, <2>1, <3>1, PlaceEffect DEF Place
  <2>3. Account(p) /\ Owners(p) = {}
    BY <1>1, <2>2 DEF IInv, Account, Opens, OpensBare, Poll
  <2>4. held[p] = 0
    BY <2>3 DEF Account, Holds, FlatUnowned
  <2>5. Live(p) = {}
    BY <2>2, <2>3 DEF Account, Opens, LiveOwned, Live, Poll, Owners, Owns
  <2> QED BY <2>4, <2>5
<1> QED BY <1>1, AccountKept, PTL DEF Spec, OpensFromFlat
=============================================================================
