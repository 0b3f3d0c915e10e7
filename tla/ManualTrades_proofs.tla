-------------------------- MODULE ManualTrades_proofs --------------------------
(* Proofs about ManualTrades, for every set of trades, sizes, limits of the   *)
(* fill sync and faults. IntentInv is about who may send, BookInv about what  *)
(* is booked of what was sent; neither needs the other.                       *)
EXTENDS ManualTrades, Sums, TLAPS

-----------------------------------------------------------------------------
(* Intents *)

\* The call of t has its intent, or its order is or may come on the book.
Under == {"reserved", "recorded", "sent", "booked"}
Owner(t) == call[t] \in Under \/ Landed(t)
Replied(t) == "reply" \in gap[t]
Loose(t) == "unprotected" \in gap[t]

\* An unprotected call may have written over the intent in the window of t.
Tainted(t) == \E v \in Trades : IntentOf(v) = IntentOf(t) /\ Loose(v) /\ at[v] \in (at[t] - 1)..at[t]

IntentTypes ==
    /\ kind \in [Trades -> Kinds]
    /\ call \in [Trades -> {"idle", "reserved", "recorded", "sent", "booked", "done"}]
    /\ order \in [Trades -> {"none", "flight", "resting", "done", "rejected"}]
    /\ intent \in [Intents -> [st : ActiveStatuses \cup {"none", "failed"}, fresh : BOOLEAN]]
    /\ window \in [Intents -> Nat] /\ at \in [Trades -> Nat]
    /\ gap \in [Trades -> SUBSET {"reply", "unprotected", "rebook", "late", "denied", "race"}]

\* Nothing is sent before the row is recorded; only the end of a call that was
\* sent notes a reply that was lost, and only its start that it is unprotected.
InOrder ==
    \A t \in Trades :
        /\ call[t] \in {"idle", "reserved", "recorded"} => order[t] = "none"
        /\ Replied(t) => call[t] = "done"
        /\ Loose(t) => call[t] # "idle"

\* A call under way is in its window or, when it is unprotected, in the one
\* after; an order in its own or a later one.
InWindow ==
    \A t \in Trades :
        /\ Owner(t) => at[t] <= window[IntentOf(t)]
        /\ call[t] \in Under =>
              at[t] = window[IntentOf(t)] \/ (Loose(t) /\ at[t] = window[IntentOf(t)] - 1)

\* While its window lasts, the intent of an order that is or may come on the
\* book blocks another reservation, unless an unprotected call may have written
\* over it.
Blocked ==
    \A t \in Trades :
        Owner(t) /\ at[t] = window[IntentOf(t)] /\ ~Replied(t)
        => ~Free(IntentOf(t)) \/ Tainted(t)

OneOwner ==
    \A t, u \in Trades :
        t # u /\ Owner(t) /\ Owner(u) /\ IntentOf(t) = IntentOf(u) /\ at[t] = at[u]
        => Replied(t) \/ Replied(u) \/ Tainted(t) \/ Tainted(u)

IntentInv == IntentTypes /\ InOrder /\ InWindow /\ Blocked /\ OneOwner

LEMMA IntentOfType == ASSUME IntentTypes PROVE \A t \in Trades : IntentOf(t) \in Intents
  BY DEF IntentTypes, IntentOf, Intents

LEMMA IntentInit == Init => IntentInv
  BY IntentOfType DEF Init, SubmitInit, IntentInv, IntentTypes, InOrder, InWindow, Blocked, OneOwner, Owner, Under, Landed, Replied, Loose

\* What an unprotected call may have done is not undone.
LEMMA TaintStays ==
  ASSUME NEW t \in Trades, Tainted(t), kind' = kind, at'[t] = at[t],
         \A v \in Trades : Loose(v) => Loose(v)' /\ at'[v] = at[v]
  PROVE  Tainted(t)'
<1>1. PICK v \in Trades : IntentOf(v) = IntentOf(t) /\ Loose(v) /\ at[v] \in (at[t] - 1)..at[t]
  BY DEF Tainted
<1>2. IntentOf(v)' = IntentOf(t)'
  BY <1>1 DEF IntentOf
<1>3. Loose(v)' /\ at'[v] \in (at'[t] - 1)..at'[t]
  BY <1>1
<1> QED BY <1>2, <1>3 DEF Tainted

\* Steps that leave calls and intents alone: orders make progress on the venue, and gaps are noted.
LEMMA IntentFrame ==
  ASSUME IntentInv, UNCHANGED <<kind, call, intent, window, at>>,
         order' \in [Trades -> {"none", "flight", "resting", "done", "rejected"}],
         \A t \in Trades : \/ order'[t] = order[t]
                           \/ order[t] \in {"flight", "resting"} /\ order'[t] \in {"resting", "done", "rejected"},
         gap' \in [Trades -> SUBSET {"reply", "unprotected", "rebook", "late", "denied", "race"}],
         \A t \in Trades : (Replied(t)' <=> Replied(t)) /\ (Loose(t)' <=> Loose(t))
  PROVE  IntentInv'
<1> USE DEF IntentInv, IntentTypes
<1>1. \A t \in Trades : Owner(t)' => Owner(t)
  BY DEF Owner, Landed
<1>2. \A t \in Trades : IntentOf(t)' = IntentOf(t) /\ Free(IntentOf(t))' = Free(IntentOf(t))
  BY DEF IntentOf, Free
<1>t. \A t \in Trades : Tainted(t) => Tainted(t)'
  BY TaintStays
<1>3. InOrder'
  BY DEF InOrder
<1>4. InWindow'
  BY <1>1, <1>2 DEF InWindow
<1>5. Blocked'
  BY <1>1, <1>2, <1>t DEF Blocked
<1>6. OneOwner'
  BY <1>1, <1>2, <1>t DEF OneOwner
<1> QED BY <1>3, <1>4, <1>5, <1>6

\* A marker leaves the other intents alone.
LEMMA MarkedIs ==
  ASSUME IntentTypes, NEW i \in Intents, NEW s \in ActiveStatuses \cup {"failed"}, intent' \in Marked(i, s)
  PROVE  /\ intent' \in [Intents -> [st : ActiveStatuses \cup {"none", "failed"}, fresh : BOOLEAN]]
         /\ \A j \in Intents \ {i} : intent'[j] = intent[j]
         /\ intent'[i] = intent[i] \/ intent'[i] = [st |-> s, fresh |-> TRUE]
<1>1. CASE intent' = intent
  BY <1>1 DEF IntentTypes
<1>2. CASE intent' = [intent EXCEPT ![i] = [st |-> s, fresh |-> TRUE]]
  <2>1. [st |-> s, fresh |-> TRUE] \in [st : ActiveStatuses \cup {"none", "failed"}, fresh : BOOLEAN]
    OBVIOUS
  <2> QED BY <1>2, <2>1 DEF IntentTypes
<1> QED BY <1>1, <1>2 DEF Marked

LEMMA SubmitKeepsIntents ==
  ASSUME IntentInv, NEW t \in Trades, SubmitStep(t)
  PROVE  IntentInv'
<1> USE DEF IntentInv, IntentTypes
<1>i. \A u \in Trades : IntentOf(u) \in Intents
  BY IntentOfType
<1>k. kind' = kind
  BY DEF SubmitStep, Refuse, Reserve, ProceedUnprotected, Record, Submit, Refused, TimesOut, Book, Count, Rest, UnknownLapses, VenueRejects, VenueAccepts, VenueEnds
<1>s. \A u \in Trades : IntentOf(u)' = IntentOf(u)
  BY <1>k DEF IntentOf
<1> DEFINE i == IntentOf(t)
<1>1. CASE Refuse(t)
  <2>1. \A u \in Trades : /\ Owner(u)' = Owner(u) /\ Free(IntentOf(u))' = Free(IntentOf(u))
                          /\ Replied(u)' = Replied(u) /\ Loose(u)' = Loose(u)
    BY <1>1, <1>s DEF Refuse, Owner, Under, Landed, Free, Replied, Loose
  <2>2. \A u \in Trades : Tainted(u) => Tainted(u)'
    BY <1>1, <1>k, <2>1, TaintStays DEF Refuse
  <2> QED BY <1>1, <1>s, <2>1, <2>2 DEF Refuse, InOrder, InWindow, Blocked, OneOwner, Under
<1>2. CASE Reserve(t)
  <2>1. /\ intent' \in [Intents -> [st : ActiveStatuses \cup {"none", "failed"}, fresh : BOOLEAN]]
        /\ at' \in [Trades -> Nat] /\ at'[t] = window[i] /\ window' = window
        /\ \A u \in Trades \ {t} : at'[u] = at[u] /\ call'[u] = call[u]
        /\ call' \in [Trades -> {"idle", "reserved", "recorded", "sent", "booked", "done"}]
        /\ call[t] = "idle" /\ call'[t] = "reserved" /\ order' = order /\ gap' = gap
        /\ intent'[i] = [st |-> "pending", fresh |-> TRUE]
        /\ \A j \in Intents \ {i} : intent'[j] = intent[j]
    BY <1>2, <1>i DEF Reserve, ActiveStatuses
  <2>2. Free(i)
    BY <1>2 DEF Reserve
  <2>3. \A u \in Trades \ {t} : Owner(u)' = Owner(u)
    BY <2>1 DEF Owner, Landed
  <2>4. \A u \in Trades : Replied(u)' = Replied(u) /\ Loose(u)' = Loose(u)
    BY <2>1 DEF Replied, Loose
  <2>t. \A u \in Trades \ {t} : Tainted(u) => Tainted(u)'
    <3>1. \A v \in Trades : Loose(v) => v # t
      BY <2>1 DEF InOrder
    <3> QED BY <1>k, <2>1, <2>4, <3>1, TaintStays
  <2>5. \A u \in Trades \ {t} : Owner(u) /\ IntentOf(u) = i /\ at[u] = window[i] => Replied(u) \/ Tainted(u)
    BY <2>2 DEF Blocked
  <2>6. ~Free(i)' /\ \A j \in Intents \ {i} : Free(j)' <=> Free(j)
    <3>1. intent'[i].st \in ActiveStatuses /\ intent'[i].fresh
      BY <2>1 DEF ActiveStatuses
    <3>2. \A j \in Intents \ {i} : intent'[j] = intent[j]
      BY <2>1
    <3>3. ~Free(i)'
      BY <3>1, <1>s DEF Free
    <3>4. ASSUME NEW j \in Intents \ {i} PROVE Free(j)' <=> Free(j)
      <4>1. intent'[j] = intent[j]
        BY <3>2
      <4> QED BY <4>1 DEF Free
    <3> QED BY <3>3, <3>4
  <2>7. InOrder'
    BY <2>1, <2>4 DEF InOrder
  <2>8. InWindow'
    BY <2>1, <2>3, <2>4, <1>s, <1>i DEF InWindow, Under
  <2>9. Blocked'
    <3> SUFFICES ASSUME NEW u \in Trades, Owner(u)', at'[u] = window[IntentOf(u)], ~Replied(u)
                 PROVE  ~Free(IntentOf(u))' \/ Tainted(u)'
      <4>1. Blocked' <=> \A u \in Trades : Owner(u)' /\ at'[u] = window'[IntentOf(u)'] /\ ~Replied(u)'
                                         => ~Free(IntentOf(u))' \/ Tainted(u)'
        BY DEF Blocked
      <4> QED BY <2>1, <2>4, <1>s, <4>1
    <3>1. CASE IntentOf(u) = i
      BY <2>6, <3>1, <1>s
    <3>2. CASE IntentOf(u) # i
      <4>1. Owner(u) /\ at[u] = window[IntentOf(u)] /\ u # t
        BY <2>1, <2>3, <3>2
      <4>2. ~Free(IntentOf(u)) \/ Tainted(u)
        BY <4>1 DEF Blocked
      <4> QED BY <2>6, <2>t, <1>i, <1>s, <3>2, <4>1, <4>2
    <3> QED BY <3>1, <3>2
  <2>10. OneOwner'
    BY <2>1, <2>3, <2>4, <2>t, <2>5, <1>s DEF OneOwner
  <2> QED BY <1>k, <2>1, <2>7, <2>8, <2>9, <2>10
<1>3. CASE ProceedUnprotected(t)
  <2>1. /\ at' \in [Trades -> Nat] /\ at'[t] = window[i] /\ window' = window /\ intent' = intent /\ order' = order
        /\ \A u \in Trades \ {t} : at'[u] = at[u] /\ call'[u] = call[u] /\ gap'[u] = gap[u]
        /\ call' \in [Trades -> {"idle", "reserved", "recorded", "sent", "booked", "done"}]
        /\ gap' \in [Trades -> SUBSET {"reply", "unprotected", "rebook", "late", "denied", "race"}]
        /\ call[t] = "idle" /\ call'[t] = "reserved" /\ gap'[t] = gap[t] \cup {"unprotected"}
    BY <1>3, <1>i DEF ProceedUnprotected, Noted
  <2>2. /\ \A u \in Trades : Replied(u)' = Replied(u)
        /\ \A u \in Trades \ {t} : Loose(u)' = Loose(u)
        /\ Loose(t)'
    BY <2>1 DEF Replied, Loose
  <2>3. \A u \in Trades \ {t} : Owner(u)' = Owner(u)
    BY <2>1 DEF Owner, Landed
  <2>4. \A u \in Trades \ {t} : Tainted(u) => Tainted(u)'
    <3>1. \A v \in Trades : Loose(v) => v # t
      BY <2>1 DEF InOrder
    <3> QED BY <1>k, <2>1, <2>2, <3>1, TaintStays
  <2>5. Tainted(t)'
    <3>1. at'[t] \in (at'[t] - 1)..at'[t]
      BY <2>1
    <3> QED BY <2>2, <3>1 DEF Tainted
  <2>6. \A u \in Trades : Free(IntentOf(u))' = Free(IntentOf(u))
    BY <2>1, <1>s DEF Free
  <2>7. InOrder'
    BY <2>1, <2>2 DEF InOrder
  <2>8. InWindow'
    BY <2>1, <2>2, <2>3, <1>s, <1>i DEF InWindow, Under
  <2>9. Blocked'
    BY <2>1, <2>2, <2>3, <2>4, <2>5, <2>6, <1>s DEF Blocked
  <2>10. OneOwner'
    BY <2>1, <2>2, <2>3, <2>4, <2>5, <1>s DEF OneOwner
  <2> QED BY <1>k, <2>1, <2>7, <2>8, <2>9, <2>10
<1>4. CASE Record(t) \/ Submit(t) \/ TimesOut(t) \/ Book(t) \/ Count(t) \/ Rest(t)
  <2> USE <1>4 DEF Record, Submit, TimesOut, Book, Count, Rest
  <2>1. /\ window' = window /\ at' = at
        /\ \A u \in Trades \ {t} : call'[u] = call[u] /\ order'[u] = order[u]
        /\ call' \in [Trades -> {"idle", "reserved", "recorded", "sent", "booked", "done"}]
        /\ order' \in [Trades -> {"none", "flight", "resting", "done", "rejected"}]
        /\ gap' \in [Trades -> SUBSET {"reply", "unprotected", "rebook", "late", "denied", "race"}]
    BY DEF Noted
  <2>2. \A u \in Trades : Replied(u)' = Replied(u) /\ Loose(u)' = Loose(u)
    BY DEF Replied, Loose, Noted
  <2>t. \A u \in Trades : Tainted(u) => Tainted(u)'
    BY <1>k, <2>1, <2>2, TaintStays
  <2>3. \A u \in Trades : Owner(u)' => Owner(u)
    BY <2>1 DEF Owner, Under, Landed
  <2>u. \A u \in Trades : call'[u] \in Under => call[u] \in Under
    BY <2>1 DEF Under
  <2>m. intent' = intent \/ \E s \in ActiveStatuses : intent' \in Marked(i, s)
    BY DEF ActiveStatuses
  <2>4. intent' \in [Intents -> [st : ActiveStatuses \cup {"none", "failed"}, fresh : BOOLEAN]]
    BY <1>i, <2>m, MarkedIs
  <2>5. \A j \in Intents : ~Free(j) => ~Free(j)'
    <3>1. \A j \in Intents : intent'[j] = intent[j] \/ (intent'[j].st \in ActiveStatuses /\ intent'[j].fresh)
      <4>1. CASE intent' = intent
        BY <4>1
      <4>2. ASSUME NEW s \in ActiveStatuses, intent' \in Marked(i, s)
            PROVE  \A j \in Intents : intent'[j] = intent[j] \/ (intent'[j].st \in ActiveStatuses /\ intent'[j].fresh)
        <5>1. /\ \A j \in Intents \ {i} : intent'[j] = intent[j]
              /\ intent'[i] = intent[i] \/ intent'[i] = [st |-> s, fresh |-> TRUE]
          BY <4>2, <1>i, MarkedIs
        <5> QED BY <5>1
      <4> QED BY <2>m, <4>1, <4>2
    <3> QED BY <3>1 DEF Free
  <2>6. InOrder'
    BY <2>1, <2>2 DEF InOrder
  <2>7. InWindow'
    BY <2>1, <2>2, <2>3, <2>u, <1>s DEF InWindow
  <2>8. Blocked'
    BY <2>1, <2>2, <2>t, <2>3, <2>5, <1>s, <1>i DEF Blocked
  <2>9. OneOwner'
    BY <2>1, <2>2, <2>t, <2>3, <1>s DEF OneOwner
  <2> QED BY <1>k, <2>1, <2>4, <2>6, <2>7, <2>8, <2>9
<1>5. CASE Refused(t)
  <2>m. intent' \in Marked(i, "failed")
    BY <1>5 DEF Refused
  <2>1. /\ window' = window /\ at' = at /\ order' = order
        /\ \A u \in Trades \ {t} : call'[u] = call[u]
        /\ call[t] = "sent" /\ call'[t] = "done"
        /\ call' \in [Trades -> {"idle", "reserved", "recorded", "sent", "booked", "done"}]
        /\ gap' \in [Trades -> SUBSET {"reply", "unprotected", "rebook", "late", "denied", "race"}]
    BY <1>5 DEF Refused, Noted
  <2>i. /\ intent' \in [Intents -> [st : ActiveStatuses \cup {"none", "failed"}, fresh : BOOLEAN]]
        /\ \A j \in Intents \ {i} : intent'[j] = intent[j]
    BY <1>i, <2>m, MarkedIs
  <2>2. /\ \A u \in Trades \ {t} : Replied(u)' = Replied(u)
        /\ \A u \in Trades : Loose(u)' = Loose(u)
        /\ order[t] # "rejected" => Replied(t)'
        /\ Replied(t) => Replied(t)'
    BY <1>5 DEF Refused, Replied, Loose, Noted
  <2>t. \A u \in Trades : Tainted(u) => Tainted(u)'
    BY <1>k, <2>1, <2>2, TaintStays
  <2>3. /\ \A u \in Trades : Owner(u)' => Owner(u)
        /\ \A u \in Trades : call'[u] \in Under => call[u] \in Under
        /\ Owner(t)' => order[t] # "rejected"
    BY <2>1 DEF Owner, Under, Landed
  <2>4. ~Replied(t) /\ Owner(t) /\ (at[t] = window[i] \/ (Loose(t) /\ at[t] = window[i] - 1))
    BY <2>1 DEF InOrder, InWindow, Owner, Under
  <2>5. ASSUME NEW u \in Trades \ {t}, Owner(u), IntentOf(u) = i, at[u] = window[i]
        PROVE  Replied(u) \/ Tainted(u)
    <3>1. CASE at[t] = window[i]
      <4>1. Tainted(t) => Tainted(u)
        BY <2>5, <3>1 DEF Tainted
      <4> QED BY <2>4, <2>5, <3>1, <4>1 DEF OneOwner
    <3>2. CASE Loose(t) /\ at[t] = window[i] - 1
      <4>1. at[t] \in (at[u] - 1)..at[u]
        BY <2>5, <3>2, <1>i
      <4> QED BY <2>5, <3>2, <4>1 DEF Tainted
    <3> QED BY <2>4, <3>1, <3>2
  <2>6. \A j \in Intents \ {i} : Free(j)' = Free(j)
    BY <2>i DEF Free
  <2>7. InOrder'
    BY <2>1, <2>2 DEF InOrder
  <2>8. InWindow'
    BY <2>1, <2>2, <2>3, <1>s DEF InWindow
  <2>9. Blocked'
    BY <2>1, <2>2, <2>t, <2>3, <2>5, <2>6, <1>s, <1>i DEF Blocked
  <2>10. OneOwner'
    BY <2>1, <2>2, <2>t, <2>3, <1>s DEF OneOwner
  <2> QED BY <1>k, <2>1, <2>i, <2>7, <2>8, <2>9, <2>10
<1>6. CASE UnknownLapses(t) \/ VenueRejects(t) \/ VenueAccepts(t) \/ VenueEnds(t)
  <2> USE <1>6 DEF UnknownLapses, VenueRejects, VenueAccepts, VenueEnds
  <2>1. UNCHANGED <<kind, call, intent, window, at, gap>>
    OBVIOUS
  <2>2. /\ order' \in [Trades -> {"none", "flight", "resting", "done", "rejected"}]
        /\ \A u \in Trades : \/ order'[u] = order[u]
                             \/ order[u] \in {"flight", "resting"} /\ order'[u] \in {"resting", "done", "rejected"}
    OBVIOUS
  <2>3. \A u \in Trades : (Replied(u)' <=> Replied(u)) /\ (Loose(u)' <=> Loose(u))
    BY <2>1 DEF Replied, Loose
  <2> QED BY <2>1, <2>2, <2>3, IntentFrame
<1> QED BY <1>1, <1>2, <1>3, <1>4, <1>5, <1>6 DEF SubmitStep

LEMMA LapseKeepsIntents ==
  ASSUME IntentInv, NEW i \in Intents, IntentLapses(i)
  PROVE  IntentInv'
<1> USE DEF IntentInv, IntentTypes
<1>i. \A u \in Trades : IntentOf(u) \in Intents
  BY IntentOfType
<1>1. /\ UNCHANGED <<kind, call, order, at, gap>>
      /\ window' \in [Intents -> Nat] /\ window'[i] = window[i] + 1 /\ \A j \in Intents \ {i} : window'[j] = window[j]
      /\ intent' \in [Intents -> [st : ActiveStatuses \cup {"none", "failed"}, fresh : BOOLEAN]]
      /\ \A j \in Intents \ {i} : intent'[j] = intent[j]
  <2>1. UNCHANGED <<kind, call, order, at, gap>>
    BY DEF IntentLapses
  <2>2. /\ window' \in [Intents -> Nat] /\ window'[i] = window[i] + 1
        /\ \A j \in Intents \ {i} : window'[j] = window[j]
    BY DEF IntentLapses
  <2>3. intent' = [intent EXCEPT ![i].fresh = FALSE]
    BY DEF IntentLapses
  <2>4. intent' \in [Intents -> [st : ActiveStatuses \cup {"none", "failed"}, fresh : BOOLEAN]]
    BY <2>3
  <2> QED BY <2>1, <2>2, <2>3, <2>4
<1>2. \A u \in Trades : /\ Owner(u)' = Owner(u) /\ Replied(u)' = Replied(u) /\ Loose(u)' = Loose(u)
                        /\ IntentOf(u)' = IntentOf(u)
  BY <1>1 DEF Owner, Landed, Replied, Loose, IntentOf
<1>t. \A u \in Trades : Tainted(u) => Tainted(u)'
  BY <1>1, <1>2, TaintStays
<1>3. \A u \in Trades : IntentOf(u) = i /\ call[u] \in Under => Loose(u) /\ at[u] = window[i]
  BY DEF IntentLapses, Quiet, Under, Loose
<1>4. \A j \in Intents \ {i} : Free(j)' = Free(j)
  BY <1>1 DEF Free
<1>5. InOrder'
  BY <1>1, <1>2 DEF InOrder
<1>6. InWindow'
  <2> SUFFICES ASSUME NEW u \in Trades
               PROVE  /\ Owner(u) => at[u] <= window'[IntentOf(u)]
                      /\ call[u] \in Under =>
                            at[u] = window'[IntentOf(u)] \/ (Loose(u) /\ at[u] = window'[IntentOf(u)] - 1)
    BY <1>1, <1>2 DEF InWindow
  <2>1. IntentOf(u) \in Intents
    BY <1>i
  <2> QED BY <1>1, <1>3, <2>1 DEF InWindow
<1>7. Blocked'
  <2> SUFFICES ASSUME NEW u \in Trades, Owner(u), at[u] = window'[IntentOf(u)], ~Replied(u)
               PROVE  ~Free(IntentOf(u))' \/ Tainted(u)'
    BY <1>1, <1>2 DEF Blocked
  <2>1. at[u] <= window[IntentOf(u)] /\ at[u] \in Nat /\ window[IntentOf(u)] \in Nat
    BY <1>i DEF InWindow
  <2>2. IntentOf(u) # i
    <3>1. window'[i] = window[i] + 1
      BY <1>1
    <3> QED BY <2>1, <3>1
  <2>3. window'[IntentOf(u)] = window[IntentOf(u)]
    BY <1>1, <1>i, <2>2
  <2>4. ~Free(IntentOf(u)) \/ Tainted(u)
    BY <2>3 DEF Blocked
  <2>5. IntentOf(u)' = IntentOf(u)
    BY <1>2
  <2> QED BY <1>4, <1>i, <1>t, <2>2, <2>4, <2>5
<1>8. OneOwner'
  BY <1>1, <1>2, <1>t DEF OneOwner
<1> QED BY <1>1, <1>5, <1>6, <1>7, <1>8

LEMMA SyncKeepsIntents ==
  ASSUME IntentInv, Syncing
  PROVE  IntentInv'
<1> USE DEF IntentInv, IntentTypes
<1>1. CASE Claim
  <2>1. UNCHANGED <<kind, call, intent, window, at, order, gap>>
    BY <1>1 DEF Claim
  <2>2. \A u \in Trades : (Replied(u)' <=> Replied(u)) /\ (Loose(u)' <=> Loose(u))
    BY <2>1 DEF Replied, Loose
  <2> QED BY <2>1, <2>2, IntentFrame
<1>2. ASSUME NEW t \in Trades, JobStep(t) PROVE IntentInv'
  <2> USE <1>2 DEF JobStep, Expire, Look, ReadOrders, ReadRecent, EntryFails, WriteFill, CountFill, Finish, Leave, Noted
  <2>1. UNCHANGED <<kind, call, intent, window, at, order>>
    OBVIOUS
  <2>2. /\ gap' \in [Trades -> SUBSET {"reply", "unprotected", "rebook", "late", "denied", "race"}]
        /\ \A u \in Trades : /\ ("reply" \in gap'[u] <=> "reply" \in gap[u])
                             /\ ("unprotected" \in gap'[u] <=> "unprotected" \in gap[u])
    OBVIOUS
  <2> QED BY <2>1, <2>2, IntentFrame DEF Replied, Loose
<1>3. ASSUME NEW t \in Trades, VenueFills(t) PROVE IntentInv'
  <2>1. UNCHANGED <<kind, call, intent, window, at>>
    BY <1>3 DEF VenueFills
  <2>2. /\ gap' \in [Trades -> SUBSET {"reply", "unprotected", "rebook", "late", "denied", "race"}]
        /\ \A u \in Trades : /\ ("reply" \in gap'[u] <=> "reply" \in gap[u])
                             /\ ("unprotected" \in gap'[u] <=> "unprotected" \in gap[u])
    BY <1>3 DEF VenueFills, Noted
  <2>3. /\ order' \in [Trades -> {"none", "flight", "resting", "done", "rejected"}]
        /\ \A u \in Trades : \/ order'[u] = order[u]
                             \/ order[u] \in {"flight", "resting"} /\ order'[u] \in {"resting", "done", "rejected"}
    BY <1>3 DEF VenueFills
  <2> QED BY <2>1, <2>2, <2>3, IntentFrame DEF Replied, Loose
<1> QED BY <1>1, <1>2, <1>3 DEF Syncing

\* A close only ends orders that rest.
LEMMA CancelsResting ==
  ASSUME NEW c \in Closers, CloseCancels(c)
  PROVE  \E S \in SUBSET Resting : order' = [t \in Trades |-> IF t \in S THEN "done" ELSE order[t]]
<1>1. PICK kept : order' = [t \in Trades |-> IF t \in Resting \ kept THEN "done" ELSE order[t]]
  BY DEF CloseCancels
<1>2. Resting \ kept \in SUBSET Resting
  OBVIOUS
<1> QED BY <1>1, <1>2

LEMMA StopKeepsIntents ==
  ASSUME IntentInv, StopStep
  PROVE  IntentInv'
<1> USE DEF IntentInv, IntentTypes
<1>1. UNCHANGED <<kind, call, intent, window, at, gap>>
  BY DEF StopStep, CloseStep, CloseCancels, CloseReads, CloseFails, CloseOrders, CloseVerifies, PriceHits, ScanFires, ScanSettles,
         ScanStarts, UserCloses, UserIsAnswered, submitVars
<1>2. /\ order' \in [Trades -> {"none", "flight", "resting", "done", "rejected"}]
      /\ \A u \in Trades : order'[u] = order[u] \/ (order[u] = "resting" /\ order'[u] = "done")
  <2>1. CASE \E c \in Closers : CloseCancels(c)
    <3>1. PICK S \in SUBSET Resting : order' = [t \in Trades |-> IF t \in S THEN "done" ELSE order[t]]
      BY <2>1, CancelsResting
    <3> QED BY <3>1 DEF Resting
  <2>2. CASE order' = order
    BY <2>2
  <2>3. (\E c \in Closers : CloseCancels(c)) \/ order' = order
    BY DEF StopStep, CloseStep, CloseReads, CloseFails, CloseOrders, CloseVerifies, PriceHits, ScanFires, ScanSettles,
           ScanStarts, UserCloses, UserIsAnswered, submitVars
  <2> QED BY <2>1, <2>2, <2>3
<1>3. \A u \in Trades : (Replied(u)' <=> Replied(u)) /\ (Loose(u)' <=> Loose(u))
  BY <1>1 DEF Replied, Loose
<1> QED BY <1>1, <1>2, <1>3, IntentFrame

LEMMA RestartKeepsIntents ==
  ASSUME IntentInv, Restart
  PROVE  IntentInv'
<1> USE DEF IntentInv, IntentTypes
<1>1. /\ UNCHANGED <<kind, intent, order, window, at, gap>>
      /\ call' \in [Trades -> {"idle", "reserved", "recorded", "sent", "booked", "done"}]
      /\ \A u \in Trades : call'[u] = IF call[u] = "idle" THEN "idle" ELSE "done"
  BY DEF Restart
<1>2. \A u \in Trades : /\ Owner(u)' => Owner(u) /\ Landed(u)
                        /\ Replied(u)' = Replied(u) /\ Loose(u)' = Loose(u) /\ IntentOf(u)' = IntentOf(u)
                        /\ Free(IntentOf(u))' = Free(IntentOf(u))
  BY <1>1 DEF Owner, Under, Landed, Replied, Loose, IntentOf, Free
<1>t. \A u \in Trades : Tainted(u) => Tainted(u)'
  BY <1>1, <1>2, TaintStays
<1>3. InOrder'
  BY <1>1, <1>2 DEF InOrder
<1>4. InWindow' /\ Blocked' /\ OneOwner'
  BY <1>1, <1>2, <1>t DEF InWindow, Under, Blocked, OneOwner
<1> QED BY <1>1, <1>3, <1>4

LEMMA IntentNext == IntentInv /\ [Next]_vars => IntentInv'
<1> SUFFICES ASSUME IntentInv, [Next]_vars PROVE IntentInv'
  OBVIOUS
<1>1. CASE UNCHANGED vars
  <2>1. UNCHANGED <<kind, call, intent, order, window, at, gap>>
    BY <1>1 DEF vars, submitVars
  <2> QED BY <2>1, IntentFrame DEF IntentInv, IntentTypes, Replied, Loose
<1> QED
  BY <1>1, SubmitKeepsIntents, LapseKeepsIntents, SyncKeepsIntents, StopKeepsIntents, RestartKeepsIntents
  DEF Next, Submitting

\* Two submits of the same intent within its window do not both reach the venue (OneOrderPerIntent), for any
\* number of trades and any faults: an order that landed keeps its intent taken. The two exceptions are part of
\* the statement: a lost reply of one of the two, and a submit of the intent that went on without it.
THEOREM OneOrderEach == Spec => []OneOrderPerIntent
<1>1. ASSUME IntentInv PROVE OneOrderPerIntent
  <2> SUFFICES ASSUME NEW t \in Trades, NEW u \in Trades, t # u, Landed(t), Landed(u), IntentOf(t) = IntentOf(u), at[t] = at[u]
               PROVE  "reply" \in gap[t] \cup gap[u] \/ Unprotected(IntentOf(t), at[t])
    BY DEF OneOrderPerIntent
  <2>1. Replied(t) \/ Replied(u) \/ Tainted(t) \/ Tainted(u)
    BY <1>1 DEF IntentInv, OneOwner, Owner
  <2>2. Tainted(t) \/ Tainted(u) => Unprotected(IntentOf(t), at[t])
    BY DEF Tainted, Unprotected, Loose
  <2> QED BY <2>1, <2>2 DEF Replied
<1> QED BY IntentInit, IntentNext, <1>1, PTL DEF Spec

-----------------------------------------------------------------------------
(* Books *)

BookTypes ==
    /\ kind \in [Trades -> Kinds]
    /\ call \in [Trades -> {"idle", "reserved", "recorded", "sent", "booked", "done"}]
    /\ order \in [Trades -> {"none", "flight", "resting", "done", "rejected"}]
    /\ gap \in [Trades -> SUBSET {"reply", "unprotected", "rebook", "late", "denied", "race"}]
    /\ seen \in [Trades -> Nat] /\ filled \in [Trades -> Nat] /\ counted \in [Trades -> Nat]
    /\ row \in [Trades -> [st : {"none", "pending", "unknown", "filled", "partially_filled", "failed", "cancelled", "closed"},
                           fill : Nat]]
    /\ sync \in [Trades -> {"none", "pending", "processing", "resolved", "expired"}]
    /\ job \in [Trades -> {"idle", "claimed", "orders", "recent", "write", "count", "finish"}]
    /\ old \in [Trades -> Nat] /\ found \in [Trades -> Nat]

\* What the venue did: an order fills while it rests, and is done when it is full.
VenueOrder(t) ==
    /\ order[t] \in {"none", "flight", "rejected"} => filled[t] = 0
    /\ filled[t] < Size \/ (filled[t] = Size /\ order[t] = "done")

\* Nothing is booked before the call is, and nothing queued before the order is on the book.
BookOrder(t) ==
    /\ call[t] \in {"idle", "reserved", "recorded"} => order[t] = "none"
    /\ call[t] \in {"idle", "reserved", "recorded", "sent"} => row[t].fill = 0 /\ counted[t] = 0 /\ sync[t] = "none"
    /\ sync[t] # "none" => order[t] \in {"resting", "done"}
    /\ job[t] # "idle" => sync[t] = "processing"
    /\ row[t].fill <= filled[t]

\* What an actor is about to count.
ToCount(t) == (IF call[t] = "booked" THEN seen[t] ELSE 0)
              + (IF job[t] = "count" /\ found[t] > old[t] THEN found[t] - old[t] ELSE 0)

\* Volume that is counted, or about to be, is in the row.
Counted(t) == counted[t] + ToCount(t) <= row[t].fill \/ "rebook" \in gap[t]

\* The job's copies of the row and of the archive.
JobReads(t) ==
    /\ job[t] \in {"orders", "recent", "write"} => old[t] = row[t].fill
    /\ job[t] \in {"orders", "recent"} => found[t] = 0
    /\ job[t] = "recent" => order[t] = "done" \/ "denied" \in gap[t]
    /\ job[t] \in {"write", "count", "finish"} =>
          /\ old[t] <= found[t] /\ found[t] <= filled[t]
          /\ found[t] = filled[t] \/ "late" \in gap[t] \/ "race" \in gap[t]
    /\ job[t] \in {"count", "finish"} => row[t].fill = found[t]

Resolved(t) ==
    sync[t] = "resolved" /\ "denied" \notin gap[t] /\ "late" \notin gap[t] /\ "race" \notin gap[t]
        => order[t] = "done" /\ row[t].fill = filled[t]

Ledger(t) == VenueOrder(t) /\ BookOrder(t) /\ Counted(t) /\ JobReads(t) /\ Resolved(t)

BookInv == BookTypes /\ \A t \in Trades : Ledger(t)

LEMMA UpToSize == \A n \in 1..Size : n \in Nat /\ (n < Size \/ n = Size)
  BY SubmitAssumption

LEMMA BookInit == Init => BookInv
  BY SubmitAssumption
  DEF Init, SubmitInit, SyncInit, BookInv, BookTypes, Ledger, VenueOrder, BookOrder, Counted, ToCount, JobReads, Resolved

\* The ledger of a trade only depends on what is known of that trade.
LEMMA LedgerFrame ==
  ASSUME NEW u \in Trades, Ledger(u), call'[u] = call[u], order'[u] = order[u], gap'[u] = gap[u], seen'[u] = seen[u],
         filled'[u] = filled[u], counted'[u] = counted[u], row'[u] = row[u], sync'[u] = sync[u],
         job'[u] = job[u], old'[u] = old[u], found'[u] = found[u]
  PROVE  Ledger(u)'
  BY DEF Ledger, VenueOrder, BookOrder, Counted, ToCount, JobReads, Resolved

LEMMA SubmitKeepsBooks ==
  ASSUME BookInv, NEW t \in Trades, SubmitStep(t), UNCHANGED syncVars
  PROVE  BookInv'
<1> USE SubmitAssumption DEF BookInv, BookTypes, syncVars
<1>1. CASE Refuse(t)
  <2> USE <1>1 DEF Refuse
  <2>1. BookTypes'
    OBVIOUS
  <2>2. Ledger(t)'
    BY DEF Ledger, VenueOrder, BookOrder, Counted, ToCount, JobReads, Resolved
  <2>3. \A u \in Trades \ {t} : Ledger(u)'
    BY LedgerFrame
  <2> QED BY <2>1, <2>2, <2>3
<1>2. CASE Reserve(t)
  <2> USE <1>2 DEF Reserve
  <2>1. BookTypes'
    OBVIOUS
  <2>2. Ledger(t)'
    BY DEF Ledger, VenueOrder, BookOrder, Counted, ToCount, JobReads, Resolved
  <2>3. \A u \in Trades \ {t} : Ledger(u)'
    BY LedgerFrame
  <2> QED BY <2>1, <2>2, <2>3
<1>3. CASE Record(t)
  <2> USE <1>3 DEF Record
  <2>1. BookTypes'
    <3>1. row' \in [Trades -> [st : {"none", "pending", "unknown", "filled", "partially_filled", "failed", "cancelled", "closed"},
                           fill : Nat]]
      OBVIOUS
    <3>2. call' \in [Trades -> {"idle", "reserved", "recorded", "sent", "booked", "done"}]
      <4>1. call' = [call EXCEPT ![t] = "done"] \/ call' = [call EXCEPT ![t] = "recorded"]
        OBVIOUS
      <4> QED BY <4>1
    <3> QED BY <3>1, <3>2
  <2>2. Ledger(t)'
    BY DEF Ledger, VenueOrder, BookOrder, Counted, ToCount, JobReads, Resolved
  <2>3. \A u \in Trades \ {t} : Ledger(u)'
    BY LedgerFrame
  <2> QED BY <2>1, <2>2, <2>3
<1>4. CASE Submit(t)
  <2> USE <1>4 DEF Submit
  <2>1. BookTypes'
    OBVIOUS
  <2>2. Ledger(t)'
    BY DEF Ledger, VenueOrder, BookOrder, Counted, ToCount, JobReads, Resolved
  <2>3. \A u \in Trades \ {t} : Ledger(u)'
    BY LedgerFrame
  <2> QED BY <2>1, <2>2, <2>3
<1>5. CASE Refused(t)
  <2> USE <1>5 DEF Refused, Noted
  <2>1. BookTypes'
    OBVIOUS
  <2>2. Ledger(t)'
    BY DEF Ledger, VenueOrder, BookOrder, Counted, ToCount, JobReads, Resolved
  <2>3. \A u \in Trades \ {t} : Ledger(u)'
    BY LedgerFrame
  <2> QED BY <2>1, <2>2, <2>3
<1>6. CASE TimesOut(t)
  <2> USE <1>6 DEF TimesOut
  <2>1. BookTypes'
    OBVIOUS
  <2>2. Ledger(t)'
    BY DEF Ledger, VenueOrder, BookOrder, Counted, ToCount, JobReads, Resolved
  <2>3. \A u \in Trades \ {t} : Ledger(u)'
    BY LedgerFrame
  <2> QED BY <2>1, <2>2, <2>3
<1>7. CASE Book(t)
  <2> USE <1>7 DEF Book, Noted
  <2>1. BookTypes'
    OBVIOUS
  <2>2. Ledger(t)'
    BY DEF Ledger, VenueOrder, BookOrder, Counted, ToCount, JobReads, Resolved
  <2>3. \A u \in Trades \ {t} : Ledger(u)'
    BY LedgerFrame
  <2> QED BY <2>1, <2>2, <2>3
<1>8. CASE Count(t)
  <2> USE <1>8 DEF Count
  <2>1. BookTypes'
    OBVIOUS
  <2>2. Ledger(t)'
    BY DEF Ledger, VenueOrder, BookOrder, Counted, ToCount, JobReads, Resolved
  <2>3. \A u \in Trades \ {t} : Ledger(u)'
    BY LedgerFrame
  <2> QED BY <2>1, <2>2, <2>3
<1>9. CASE Rest(t)
  <2> USE <1>9 DEF Rest
  <2>1. BookTypes'
    OBVIOUS
  <2>2. Ledger(t)'
    BY DEF Ledger, VenueOrder, BookOrder, Counted, ToCount, JobReads, Resolved
  <2>3. \A u \in Trades \ {t} : Ledger(u)'
    BY LedgerFrame
  <2> QED BY <2>1, <2>2, <2>3
<1>10. CASE UnknownLapses(t)
  <2> USE <1>10 DEF UnknownLapses
  <2>1. BookTypes'
    OBVIOUS
  <2>2. Ledger(t)'
    BY DEF Ledger, VenueOrder, BookOrder, Counted, ToCount, JobReads, Resolved
  <2>3. \A u \in Trades \ {t} : Ledger(u)'
    BY LedgerFrame
  <2> QED BY <2>1, <2>2, <2>3
<1>11. CASE VenueRejects(t)
  <2> USE <1>11 DEF VenueRejects
  <2>1. BookTypes'
    OBVIOUS
  <2>2. Ledger(t)'
    BY DEF Ledger, VenueOrder, BookOrder, Counted, ToCount, JobReads, Resolved
  <2>3. \A u \in Trades \ {t} : Ledger(u)'
    BY LedgerFrame
  <2> QED BY <2>1, <2>2, <2>3
<1>12. CASE VenueAccepts(t)
  <2> USE <1>12 DEF VenueAccepts
  <2>1. BookTypes'
    <3>1. order' \in [Trades -> {"none", "flight", "resting", "done", "rejected"}]
      <4>1. order' = [order EXCEPT ![t] = "resting"] \/ order' = [order EXCEPT ![t] = "done"]
        OBVIOUS
      <4> QED BY <4>1
    <3>2. filled' \in [Trades -> Nat]
      OBVIOUS
    <3> QED BY <3>1, <3>2
  <2>2. Ledger(t)'
    <3>1. UNCHANGED <<call, gap, seen, counted, row, sync, job, old, found>> /\ order[t] = "flight"
      OBVIOUS
    <3>2. filled[t] = 0 /\ row[t].fill = 0 /\ sync[t] = "none" /\ job[t] = "idle" /\ call[t] \notin {"idle", "reserved", "recorded"}
      <4>1. VenueOrder(t) /\ BookOrder(t)
        BY DEF Ledger
      <4>2. filled[t] = 0 /\ call[t] \notin {"idle", "reserved", "recorded"}
        BY <3>1, <4>1 DEF VenueOrder, BookOrder
      <4>3. sync[t] = "none"
        BY <3>1, <4>1 DEF BookOrder
      <4>4. job[t] = "idle" /\ row[t].fill <= 0
        BY <4>1, <4>2, <4>3 DEF BookOrder
      <4> QED BY <4>2, <4>3, <4>4
    <3>3. VenueOrder(t)'
      <4>1. CASE order'[t] = "resting" /\ filled' = filled
        BY <3>2, <4>1 DEF VenueOrder
      <4>2. CASE order'[t] = "done" /\ filled'[t] \in 1..Size
        BY <4>2, UpToSize DEF VenueOrder
      <4> QED BY <4>1, <4>2
    <3>4. BookOrder(t)' /\ JobReads(t)' /\ Resolved(t)' /\ Counted(t)'
      <4>1. row'[t].fill <= filled'[t]
        BY <2>1, <3>1, <3>2
      <4> QED BY <3>1, <3>2, <4>1 DEF Ledger, BookOrder, JobReads, Resolved, Counted, ToCount
    <3> QED BY <3>3, <3>4 DEF Ledger
  <2>3. \A u \in Trades \ {t} : Ledger(u)'
    BY LedgerFrame
  <2> QED BY <2>1, <2>2, <2>3
<1>13. CASE VenueEnds(t)
  <2> USE <1>13 DEF VenueEnds
  <2>1. BookTypes'
    OBVIOUS
  <2>2. Ledger(t)'
    BY DEF Ledger, VenueOrder, BookOrder, Counted, ToCount, JobReads, Resolved
  <2>3. \A u \in Trades \ {t} : Ledger(u)'
    BY LedgerFrame
  <2> QED BY <2>1, <2>2, <2>3
<1>14. CASE ProceedUnprotected(t)
  <2> USE <1>14 DEF ProceedUnprotected, Noted
  <2>1. BookTypes'
    OBVIOUS
  <2>2. Ledger(t)'
    BY DEF Ledger, VenueOrder, BookOrder, Counted, ToCount, JobReads, Resolved
  <2>3. \A u \in Trades \ {t} : Ledger(u)'
    BY LedgerFrame
  <2> QED BY <2>1, <2>2, <2>3
<1> QED BY <1>1, <1>2, <1>3, <1>4, <1>5, <1>6, <1>7, <1>8, <1>9, <1>10, <1>11, <1>12, <1>13, <1>14 DEF SubmitStep

LEMMA JobKeepsBooks ==
  ASSUME BookInv, NEW t \in Trades, JobStep(t)
  PROVE  BookInv'
<1> USE SubmitAssumption DEF BookInv, BookTypes
<1>1. CASE Expire(t)
  <2> USE <1>1 DEF Expire, Leave
  <2>1. BookTypes'
    OBVIOUS
  <2>2. Ledger(t)'
    BY DEF Ledger, VenueOrder, BookOrder, Counted, ToCount, JobReads, Resolved
  <2>3. \A u \in Trades \ {t} : Ledger(u)'
    BY LedgerFrame
  <2> QED BY <2>1, <2>2, <2>3
<1>2. CASE Look(t)
  <2> USE <1>2 DEF Look, Leave, Noted
  <2>1. BookTypes'
    <3>1. gap' \in [Trades -> SUBSET {"reply", "unprotected", "rebook", "late", "denied", "race"}]
      OBVIOUS
    <3>2. job' \in [Trades -> {"idle", "claimed", "orders", "recent", "write", "count", "finish"}]
      OBVIOUS
    <3>3. sync' \in [Trades -> {"none", "pending", "processing", "resolved", "expired"}]
      OBVIOUS
    <3>4. old' \in [Trades -> Nat] /\ found' \in [Trades -> Nat]
      <4>1. row[t].fill \in Nat /\ filled[t] \in Nat /\ old \in [Trades -> Nat] /\ found \in [Trades -> Nat]
        OBVIOUS
      <4>2. PICK n \in {filled[t]} \cup {0} \cup (row[t].fill)..filled[t] :
                   \/ Leave(t, "pending")
                   \/ old' = [old EXCEPT ![t] = row[t].fill] /\ found' = [found EXCEPT ![t] = n]
        BY Zenon
      <4>3. n \in Nat
        BY ONLY <4>1, SMT
      <4> QED BY ONLY <4>1, <4>2, <4>3 DEF Leave
    <3> QED BY <3>1, <3>2, <3>3, <3>4
  <2>2. Ledger(t)'
    <3> USE DEF Ledger
    <3>1. VenueOrder(t)'
      BY DEF VenueOrder
    <3>2. BookOrder(t)'
      BY DEF VenueOrder, BookOrder
    <3>3. Counted(t)'
      BY DEF VenueOrder, BookOrder, Counted, ToCount, JobReads
    <3>4. JobReads(t)'
      <4>1. CASE job'[t] = "idle"
        BY <4>1 DEF JobReads
      <4>2. CASE job'[t] # "idle"
        <5>1. PICK n \in Nat : /\ n = filled[t] \/ n = 0 \/ (row[t].fill <= n /\ n <= filled[t])
                               /\ gap' = IF 0 < n /\ n < filled[t] THEN [gap EXCEPT ![t] = @ \cup {"late"}] ELSE gap
                               /\ job' = [job EXCEPT ![t] = IF n > 0 THEN "write" ELSE "orders"]
                               /\ old' = [old EXCEPT ![t] = row[t].fill]
                               /\ found' = [found EXCEPT ![t] = n]
          BY <4>2
        <5>2. row[t].fill <= filled[t] /\ row' = row /\ filled' = filled /\ order' = order
          BY DEF BookOrder
        <5>3. job'[t] = (IF n > 0 THEN "write" ELSE "orders") /\ old'[t] = row'[t].fill /\ found'[t] = n
          BY <5>1, <5>2
        <5>4. n = filled'[t] \/ n = 0 \/ (old'[t] <= n /\ n < filled'[t] /\ "late" \in gap'[t])
          BY <5>1, <5>2, <5>3
        <5>5. CASE n = 0
          BY <5>3, <5>5 DEF JobReads
        <5>6. CASE n > 0
          <6>1. job'[t] = "write" /\ old'[t] <= found'[t] /\ found'[t] <= filled'[t]
            BY <5>2, <5>3, <5>4, <5>6
          <6>2. found'[t] = filled'[t] \/ "late" \in gap'[t] \/ "race" \in gap'[t]
            BY <5>3, <5>4, <5>6
          <6> QED BY <5>3, <6>1, <6>2 DEF JobReads
        <5> QED BY <5>5, <5>6
      <4> QED BY <4>1, <4>2
    <3>5. Resolved(t)'
      BY DEF VenueOrder, BookOrder, JobReads, Resolved
    <3> QED BY <3>1, <3>2, <3>3, <3>4, <3>5
  <2>3. \A u \in Trades \ {t} : Ledger(u)'
    BY LedgerFrame
  <2> QED BY <2>1, <2>2, <2>3
<1>3. CASE ReadOrders(t)
  <2> USE <1>3 DEF ReadOrders, Leave, Noted
  <2>1. BookTypes'
    <3>1. gap' \in [Trades -> SUBSET {"reply", "unprotected", "rebook", "late", "denied", "race"}]
      OBVIOUS
    <3>2. job' \in [Trades -> {"idle", "claimed", "orders", "recent", "write", "count", "finish"}]
      <4>1. job' = [job EXCEPT ![t] = "idle"] \/ job' = [job EXCEPT ![t] = "recent"]
        OBVIOUS
      <4> QED BY <4>1
    <3>3. sync' \in [Trades -> {"none", "pending", "processing", "resolved", "expired"}]
      OBVIOUS
    <3>4. old' \in [Trades -> Nat] /\ found' \in [Trades -> Nat]
      OBVIOUS
    <3> QED BY <3>1, <3>2, <3>3, <3>4
  <2>2. Ledger(t)'
    <3> USE DEF Ledger
    <3>1. VenueOrder(t)'
      BY DEF VenueOrder
    <3>2. BookOrder(t)'
      BY DEF VenueOrder, BookOrder
    <3>3. Counted(t)'
      BY DEF VenueOrder, BookOrder, Counted, ToCount, JobReads
    <3>4. JobReads(t)'
      BY SMTT(30) DEF VenueOrder, BookOrder, JobReads
    <3>5. Resolved(t)'
      BY DEF VenueOrder, BookOrder, JobReads, Resolved
    <3> QED BY <3>1, <3>2, <3>3, <3>4, <3>5
  <2>3. \A u \in Trades \ {t} : Ledger(u)'
    BY LedgerFrame
  <2> QED BY <2>1, <2>2, <2>3
<1>4. CASE ReadRecent(t)
  <2> USE <1>4 DEF ReadRecent, Leave, Noted
  <2>1. BookTypes'
    <3>1. gap' \in [Trades -> SUBSET {"reply", "unprotected", "rebook", "late", "denied", "race"}]
      OBVIOUS
    <3>2. job' \in [Trades -> {"idle", "claimed", "orders", "recent", "write", "count", "finish"}]
      <4>1. job' = [job EXCEPT ![t] = "idle"] \/ job' = [job EXCEPT ![t] = "write"]
        OBVIOUS
      <4> QED BY <4>1
    <3>3. sync' \in [Trades -> {"none", "pending", "processing", "resolved", "expired"}]
      <4>1. sync' = sync \/ sync' = [sync EXCEPT ![t] = "resolved"] \/ sync' = [sync EXCEPT ![t] = "pending"]
        OBVIOUS
      <4> QED BY <4>1
    <3>4. row' \in [Trades -> [st : {"none", "pending", "unknown", "filled", "partially_filled", "failed", "cancelled", "closed"},
                           fill : Nat]]
      OBVIOUS
    <3>5. old' \in [Trades -> Nat] /\ found' \in [Trades -> Nat]
      <4>1. old' = old \/ old' = [old EXCEPT ![t] = 0]
        OBVIOUS
      <4>2. \E n \in Nat : found' = [found EXCEPT ![t] = n]
        OBVIOUS
      <4> QED BY <4>1, <4>2
    <3> QED BY <3>1, <3>2, <3>3, <3>4, <3>5
  <2>2. Ledger(t)'
    <3> USE DEF Ledger
    <3>1. VenueOrder(t)'
      BY DEF VenueOrder
    <3>2. BookOrder(t)'
      BY DEF VenueOrder, BookOrder
    <3>3. Counted(t)'
      BY DEF VenueOrder, BookOrder, Counted, ToCount, JobReads
    <3>4. JobReads(t)'
      BY DEF VenueOrder, BookOrder, JobReads
    <3>5. Resolved(t)'
      <4>1. CASE sync'[t] # "resolved"
        BY <4>1 DEF Resolved
      <4>2. CASE sync'[t] = "resolved"
        <5>1. sync[t] # "resolved"
          BY DEF BookOrder
        <5>2. filled[t] = 0 \/ "late" \in gap'[t]
          BY <4>2, <5>1
        <5>3. order[t] = "done" \/ "denied" \in gap'[t]
          BY DEF JobReads
        <5>4. row'[t].fill = row[t].fill /\ filled' = filled /\ order' = order /\ row[t].fill <= filled[t]
          BY DEF BookOrder
        <5> QED BY <5>2, <5>3, <5>4 DEF Resolved
      <4> QED BY <4>1, <4>2
    <3> QED BY <3>1, <3>2, <3>3, <3>4, <3>5
  <2>3. \A u \in Trades \ {t} : Ledger(u)'
    BY LedgerFrame
  <2> QED BY <2>1, <2>2, <2>3
<1>5. CASE EntryFails(t)
  <2> USE <1>5 DEF EntryFails, Leave
  <2>1. BookTypes'
    OBVIOUS
  <2>2. Ledger(t)'
    BY DEF Ledger, VenueOrder, BookOrder, Counted, ToCount, JobReads, Resolved
  <2>3. \A u \in Trades \ {t} : Ledger(u)'
    BY LedgerFrame
  <2> QED BY <2>1, <2>2, <2>3
<1>6. CASE WriteFill(t)
  <2> USE <1>6 DEF WriteFill, Partial
  <2>1. BookTypes'
    OBVIOUS
  <2>2. Ledger(t)'
    <3> USE DEF Ledger
    <3>1. VenueOrder(t)'
      BY DEF VenueOrder
    <3>2. BookOrder(t)'
      BY DEF BookOrder, JobReads
    <3>3. Counted(t)'
      BY DEF VenueOrder, BookOrder, Counted, ToCount, JobReads
    <3>4. JobReads(t)'
      BY DEF VenueOrder, BookOrder, JobReads
    <3>5. Resolved(t)'
      BY DEF VenueOrder, BookOrder, JobReads, Resolved
    <3> QED BY <3>1, <3>2, <3>3, <3>4, <3>5
  <2>3. \A u \in Trades \ {t} : Ledger(u)'
    BY LedgerFrame
  <2> QED BY <2>1, <2>2, <2>3
<1>7. CASE CountFill(t)
  <2> USE <1>7 DEF CountFill
  <2>1. BookTypes'
    OBVIOUS
  <2>2. Ledger(t)'
    BY DEF Ledger, VenueOrder, BookOrder, Counted, ToCount, JobReads, Resolved
  <2>3. \A u \in Trades \ {t} : Ledger(u)'
    BY LedgerFrame
  <2> QED BY <2>1, <2>2, <2>3
<1>8. CASE Finish(t)
  <2> USE <1>8 DEF Finish, Leave, Noted, Partial
  <2>1. BookTypes'
    OBVIOUS
  <2>2. Ledger(t)'
    <3> USE DEF Ledger
    <3>1. VenueOrder(t)'
      BY DEF VenueOrder
    <3>2. BookOrder(t)'
      BY DEF VenueOrder, BookOrder
    <3>3. Counted(t)'
      BY DEF VenueOrder, BookOrder, Counted, ToCount, JobReads
    <3>4. JobReads(t)'
      BY DEF VenueOrder, BookOrder, JobReads
    <3>5. Resolved(t)'
      <4>1. CASE sync'[t] # "resolved"
        BY <4>1 DEF Resolved
      <4>2. CASE sync'[t] = "resolved"
        <5>1. row[t].fill = found[t] /\ found[t] <= filled[t]
              /\ (found[t] = filled[t] \/ "late" \in gap[t] \/ "race" \in gap[t])
          BY DEF JobReads
        <5>2. order[t] \in {"resting", "done"}
          BY DEF BookOrder
        <5>3. found[t] < Size /\ order[t] = "resting" => "denied" \in gap'[t]
          BY <4>2
        <5>4. ~(found[t] < Size) => order[t] = "done"
          <6>1. order[t] = "done" \/ filled[t] < Size
            BY DEF VenueOrder
          <6>2. filled[t] < Size => found[t] < Size
            BY <5>1
          <6> QED BY <6>1, <6>2
        <5>5. \A g \in {"late", "race"} : g \in gap[t] => g \in gap'[t]
          OBVIOUS
        <5>6. row' = row /\ filled' = filled /\ order' = order
          OBVIOUS
        <5>7. found[t] = filled[t] \/ "late" \in gap'[t] \/ "race" \in gap'[t]
          BY <5>1, <5>5
        <5> QED BY <5>1, <5>2, <5>3, <5>4, <5>6, <5>7 DEF Resolved
      <4> QED BY <4>1, <4>2
    <3> QED BY <3>1, <3>2, <3>3, <3>4, <3>5
  <2>3. \A u \in Trades \ {t} : Ledger(u)'
    BY LedgerFrame
  <2> QED BY <2>1, <2>2, <2>3
<1> QED BY <1>1, <1>2, <1>3, <1>4, <1>5, <1>6, <1>7, <1>8 DEF JobStep

LEMMA FillKeepsBooks ==
  ASSUME BookInv, NEW t \in Trades, VenueFills(t)
  PROVE  BookInv'
<1> USE SubmitAssumption DEF BookInv, BookTypes, VenueFills, Noted
<1>1. BookTypes'
  OBVIOUS
<1>2. Ledger(t)'
  <2> USE DEF Ledger
  <2>0. /\ filled[t] < Size /\ filled[t] \in Nat /\ filled'[t] = filled[t] + 1
        /\ order'[t] = IF filled[t] + 1 = Size THEN "done" ELSE "resting"
    <3>1. filled[t] < Size /\ filled[t] \in Nat
      BY DEF VenueOrder
    <3>2. filled'[t] = filled[t] + 1
      OBVIOUS
    <3>3. order'[t] = IF filled[t] + 1 = Size THEN "done" ELSE "resting"
      <4>1. order' = [order EXCEPT ![t] = IF filled[t] + 1 = Size THEN "done" ELSE "resting"]
        BY Zenon
      <4>2. order \in [Trades -> {"none", "flight", "resting", "done", "rejected"}]
        BY Zenon
      <4> QED BY ONLY <4>1, <4>2
    <3> QED BY <3>1, <3>2, <3>3
  <2>1. VenueOrder(t)'
    BY ONLY <2>0, SubmitAssumption DEF VenueOrder
  <2>2. BookOrder(t)'
    BY DEF VenueOrder, BookOrder
  <2>3. Counted(t)'
    BY DEF VenueOrder, BookOrder, Counted, ToCount, JobReads
  <2>4. JobReads(t)'
    <3>1. UNCHANGED <<row, job, old, found>>
      OBVIOUS
    <3>2. job[t] \in {"write", "count", "finish"} => "race" \in gap'[t]
      OBVIOUS
    <3>3. "denied" \in gap[t] => "denied" \in gap'[t]
      OBVIOUS
    <3>4. job'[t] = "recent" => order'[t] = "done" \/ "denied" \in gap'[t]
      BY <3>1, <3>3 DEF JobReads
    <3>5. job'[t] \in {"write", "count", "finish"} =>
             /\ old'[t] <= found'[t] /\ found'[t] <= filled'[t]
             /\ "race" \in gap'[t]
      BY <2>0, <3>1, <3>2 DEF JobReads
    <3> QED BY <3>1, <3>4, <3>5 DEF JobReads
  <2>5. Resolved(t)'
    BY DEF VenueOrder, BookOrder, JobReads, Resolved
  <2> QED BY <2>1, <2>2, <2>3, <2>4, <2>5
<1>3. \A u \in Trades \ {t} : Ledger(u)'
  BY LedgerFrame
<1> QED BY <1>1, <1>2, <1>3

LEMMA ClaimKeepsBooks == ASSUME BookInv, Claim PROVE BookInv'
<1> USE DEF BookInv, BookTypes, Claim
<1>1. BookTypes'
  OBVIOUS
<1>2. ASSUME NEW u \in Trades PROVE Ledger(u)'
  BY DEF Ledger, VenueOrder, BookOrder, Counted, ToCount, JobReads, Resolved
<1> QED BY <1>1, <1>2

LEMMA StopKeepsBooks == ASSUME BookInv, StopStep PROVE BookInv'
<1> USE DEF BookInv, BookTypes
<1>1. UNCHANGED <<kind, call, seen, filled, sync, counted, gap, job, old, found>>
  BY DEF StopStep, CloseStep, CloseCancels, CloseReads, CloseFails, CloseOrders, CloseVerifies, PriceHits, ScanFires, ScanSettles,
         ScanStarts, UserCloses, UserIsAnswered, submitVars, syncVars
<1>2. \/ row' = row
      \/ \E t \in OpenRows : row' = [row EXCEPT ![t].st = "closed"]
  BY DEF StopStep, CloseStep, CloseCancels, CloseReads, CloseFails, CloseOrders, CloseVerifies, PriceHits, ScanFires, ScanSettles,
         ScanStarts, UserCloses, UserIsAnswered, submitVars
<1>3. /\ row' \in [Trades -> [st : {"none", "pending", "unknown", "filled", "partially_filled", "failed", "cancelled", "closed"},
                             fill : Nat]]
      /\ \A u \in Trades : row'[u].fill = row[u].fill
  <2>1. CASE row' = row
    BY <2>1
  <2>2. ASSUME NEW t \in Trades, row' = [row EXCEPT ![t].st = "closed"]
        PROVE  /\ row' \in [Trades -> [st : {"none", "pending", "unknown", "filled", "partially_filled", "failed", "cancelled", "closed"},
                                      fill : Nat]]
               /\ \A u \in Trades : row'[u].fill = row[u].fill
    BY <2>2
  <2> QED BY <1>2, <2>1, <2>2 DEF OpenRows
<1>4. \/ order' = order
      \/ \E S \in SUBSET Resting : order' = [t \in Trades |-> IF t \in S THEN "done" ELSE order[t]]
  <2>1. CASE \E c \in Closers : CloseCancels(c)
    BY <2>1, CancelsResting
  <2>2. CASE ~\E c \in Closers : CloseCancels(c)
    BY <2>2 DEF StopStep, CloseStep, CloseReads, CloseFails, CloseOrders, CloseVerifies, PriceHits, ScanFires, ScanSettles,
           ScanStarts, UserCloses, UserIsAnswered, submitVars
  <2> QED BY <2>1, <2>2
<1>5. /\ order' \in [Trades -> {"none", "flight", "resting", "done", "rejected"}]
      /\ \A u \in Trades : order'[u] = order[u] \/ (order[u] = "resting" /\ order'[u] = "done")
  BY <1>4 DEF Resting
<1>6. BookTypes'
  BY <1>1, <1>3, <1>5
<1>7. ASSUME NEW u \in Trades PROVE Ledger(u)'
  BY <1>1, <1>3, <1>5 DEF Ledger, VenueOrder, BookOrder, Counted, ToCount, JobReads, Resolved
<1> QED BY <1>6, <1>7, SMTT(30)

LEMMA RestartKeepsBooks == ASSUME BookInv, Restart PROVE BookInv'
<1> USE DEF BookInv, BookTypes, Restart
<1>1. BookTypes'
  OBVIOUS
<1>2. ASSUME NEW u \in Trades PROVE Ledger(u)'
  BY DEF Ledger, VenueOrder, BookOrder, Counted, ToCount, JobReads, Resolved
<1> QED BY <1>1, <1>2

LEMMA BookNext == BookInv /\ [Next]_vars => BookInv'
<1> SUFFICES ASSUME BookInv, [Next]_vars PROVE BookInv'
  OBVIOUS
<1>1. CASE UNCHANGED <<kind, call, seen, row, order, filled, sync, counted, gap, job, old, found>>
  BY <1>1, LedgerFrame DEF BookInv, BookTypes
<1>2. CASE UNCHANGED vars
  BY <1>1, <1>2 DEF vars, submitVars, syncVars
<1>3. CASE \E i \in Intents : IntentLapses(i) /\ UNCHANGED syncVars
  BY <1>1, <1>3 DEF IntentLapses, syncVars
<1>4. CASE \E t \in Trades : SubmitStep(t) /\ UNCHANGED syncVars
  BY <1>4, SubmitKeepsBooks
<1>5. CASE Syncing
  BY <1>5, ClaimKeepsBooks, JobKeepsBooks, FillKeepsBooks DEF Syncing
<1> QED
  BY <1>2, <1>3, <1>4, <1>5, StopKeepsBooks, RestartKeepsBooks DEF Next, Submitting

\* The volume of a fill is credited once (CountedOnce), whatever the call and the sync do to each other and
\* wherever writes fail or the process restarts: what an actor is about to count is in the row already.
THEOREM FillsCountedOnce == Spec => []CountedOnce
<1>1. BookInv => CountedOnce
  <2> SUFFICES ASSUME BookInv, NEW t \in Trades, "rebook" \notin gap[t] PROVE counted[t] <= filled[t]
    BY DEF CountedOnce
  <2>1. counted[t] + ToCount(t) <= row[t].fill /\ row[t].fill <= filled[t]
    BY DEF BookInv, Ledger, Counted, BookOrder
  <2>2. ToCount(t) \in Nat /\ counted[t] \in Nat /\ row[t].fill \in Nat /\ filled[t] \in Nat
    BY DEF BookInv, BookTypes, ToCount
  <2> QED BY <2>1, <2>2
<1> QED BY BookInit, BookNext, <1>1, PTL DEF Spec

\* A trade the sync is done with has its fills booked and no order resting (ResolvedIsBooked), for any
\* sizes and limits of the sync.
THEOREM ResolvedBooked == Spec => []ResolvedIsBooked
<1>1. BookInv => ResolvedIsBooked
  BY DEF BookInv, Ledger, Resolved, ResolvedIsBooked
<1> QED BY BookInit, BookNext, <1>1, PTL DEF Spec

-----------------------------------------------------------------------------
(* Amounts, and what stop-losses sold *)

CloseRecords == [at : {"idle", "cancel", "read", "order", "verify", "end"}, left : Int, tries : Int, size : Int,
                 cancelled : BOOLEAN, errs : BOOLEAN, result : {"none", "ok", "nothing", "failed"}]

AmountTypes ==
    /\ attempts \in [Trades -> 0..GiveUpAfter]
    /\ rule \in [Trades -> {"none", "armed", "spent"}]
    /\ close \in [Closers -> CloseRecords]
    /\ sold \in Nat

\* What a call or the job has read of a trade's fills is at most what there is of them; what was counted
\* twice was counted by the call before the row had it.
Amounts(t) ==
    /\ seen[t] <= filled[t] /\ old[t] <= filled[t] /\ found[t] <= filled[t]
    /\ counted[t] + ToCount(t) <= row[t].fill + Size

\* No more is sold than was bought.
SoldBought == sold <= Total(filled, Trades)

\* A trade with a stop-loss has its order and its call behind it.
Settled(t) ==
    /\ call[t] = "booked" => order[t] = "done"
    /\ rule[t] # "none" => order[t] = "done" /\ call[t] = "done"

Ruled == {t \in Trades : rule[t] # "none"}
Spent == {t \in Trades : rule[t] = "spent"}
ScanClosed == close["scan"].at = "end" /\ close["scan"].result \in {"ok", "nothing"}

\* What the trades of the spent rules bought was sold, and after the scan's close of the rule it is at also what that trade bought.
SpentSold ==
    /\ todo \subseteq Ruled /\ cur \subseteq Ruled
    /\ Total(filled, Spent) <= sold
    /\ ScanClosed => Total(filled, Spent \cup cur) <= sold

StopInv == AmountTypes /\ (\A t \in Trades : Amounts(t) /\ Settled(t)) /\ SoldBought /\ SpentSold
LEMMA IdleIsClose == Idle \in CloseRecords
  BY DEF Idle, CloseRecords

LEMMA PositionIs == Position = Total(filled, Trades) - sold /\ Position' = Total(filled', Trades) - sold'
  BY DEF Position, Total, MapThenSumSet, MapThenFoldSet

LEMMA SpentSumIs == SpentRulesAreSold <=> Total(filled, Spent) <= sold
  BY DEF SpentRulesAreSold, Spent, Total, MapThenSumSet, MapThenFoldSet

\* What the trades bought, all of them or some.
LEMMA BoughtSums ==
  ASSUME BookInv
  PROVE  /\ Total(filled, Trades) \in Nat
         /\ \A R \in SUBSET Trades : Total(filled, R) \in Nat /\ Total(filled, R) <= Total(filled, Trades)
<1>1. \A t \in Trades : filled[t] \in Nat
  BY DEF BookInv, BookTypes
<1> QED BY <1>1, SubmitAssumption, TotalNat

LEMMA StopInit0 == Init => StopInv
<1> SUFFICES ASSUME Init PROVE StopInv
  OBVIOUS
<1> USE SubmitAssumption, SyncAssumption DEF Init, SubmitInit, SyncInit, StopInit
<1>1. AmountTypes
  BY DEF AmountTypes, CloseRecords, Idle, Closers
<1>2. \A t \in Trades : Amounts(t) /\ Settled(t)
  BY DEF Amounts, Settled, ToCount
<1>3. SoldBought
  BY BookInit, BoughtSums DEF SoldBought
<1>4. SpentSold
  <2>1. Spent = {} /\ Ruled = {} /\ todo = {} /\ cur = {}
    BY DEF Spent, Ruled
  <2>2. Total(filled, {}) = 0
    BY TotalEmpty
  <2>3. Total(filled, Spent) = 0
    BY <2>1, <2>2
  <2>4. ~ScanClosed
    BY DEF ScanClosed, Idle, Closers
  <2> QED BY <2>1, <2>3, <2>4 DEF SpentSold
<1> QED BY <1>1, <1>2, <1>3, <1>4 DEF StopInv

\* Fills of trades without a rule leave the sums of what was sold as they are.
LEMMA SumsFrame ==
  ASSUME BookInv, BookInv', StopInv, UNCHANGED <<sold, todo, cur>>,
         \A t \in Trades : filled[t] <= filled'[t] /\ (rule[t] # "none" => filled'[t] = filled[t]),
         Spent' = Spent, Ruled \subseteq Ruled', ScanClosed' => ScanClosed
  PROVE  SoldBought' /\ SpentSold'
<1>t. \A t \in Trades : filled[t] \in Nat /\ filled'[t] \in Nat
  BY DEF BookInv, BookTypes
<1>1. Total(filled, Trades) <= Total(filled', Trades)
  BY <1>t, SubmitAssumption, TotalGrows
<1>2. ASSUME NEW R \in SUBSET Ruled PROVE Total(filled', R) = Total(filled, R)
  <2>1. IsFiniteSet(R)
    BY SubmitAssumption, FS_Subset DEF Ruled
  <2>2. \A t \in R : filled[t] \in Int /\ filled'[t] = filled[t]
    BY <1>t DEF Ruled
  <2> QED BY <2>1, <2>2, TotalSame
<1>3. SoldBought'
  <2>1. Total(filled, Trades) \in Nat /\ Total(filled', Trades) \in Nat /\ sold \in Nat
    BY BoughtSums, <1>t, SubmitAssumption, TotalNat DEF StopInv, AmountTypes
  <2> QED BY <1>1, <2>1 DEF StopInv, SoldBought
<1>4. SpentSold'
  <2>1. Spent \subseteq Ruled /\ cur \subseteq Ruled
    BY DEF Spent, Ruled, StopInv, SpentSold
  <2>2. Total(filled', Spent) = Total(filled, Spent) /\ Total(filled', Spent \cup cur) = Total(filled, Spent \cup cur)
    BY <1>2, <2>1
  <2>3. Spent \cup cur = (Spent \cup cur)'
    OBVIOUS
  <2>4. Total(filled', Spent') = Total(filled, Spent) /\ Total(filled', (Spent \cup cur)') = Total(filled, Spent \cup cur)
    BY <2>2, <2>3
  <2> QED BY <2>1, <2>4 DEF StopInv, SpentSold
<1> QED BY <1>3, <1>4

\* The amounts of a trade only depend on what is known of that trade.
LEMMA AmountFrame ==
  ASSUME NEW u \in Trades, Amounts(u), Settled(u), call'[u] = call[u], order'[u] = order[u], seen'[u] = seen[u],
         filled'[u] = filled[u], counted'[u] = counted[u], row'[u].fill = row[u].fill, rule'[u] = rule[u],
         job'[u] = job[u], old'[u] = old[u], found'[u] = found[u]
  PROVE  Amounts(u)' /\ Settled(u)'
  BY DEF Amounts, Settled, ToCount

\* A step of a trade's call moves the call and the order of that trade only.
LEMMA CallMoves ==
  ASSUME BookTypes, NEW t \in Trades,
         \/ Refuse(t) \/ Reserve(t) \/ ProceedUnprotected(t) \/ Record(t) \/ Submit(t)
         \/ Refused(t) \/ TimesOut(t) \/ Rest(t) \/ UnknownLapses(t)
  PROVE  /\ call' \in [Trades -> {"idle", "reserved", "recorded", "sent", "booked", "done"}]
         /\ \A u \in Trades \ {t} : call'[u] = call[u] /\ order'[u] = order[u]
<1>0. /\ call \in [Trades -> {"idle", "reserved", "recorded", "sent", "booked", "done"}]
      /\ order \in [Trades -> {"none", "flight", "resting", "done", "rejected"}]
  BY DEF BookTypes
<1>1. CASE Refuse(t)
  BY <1>0, <1>1 DEF Refuse
<1>2. CASE Reserve(t)
  BY <1>0, <1>2 DEF Reserve
<1>3. CASE Record(t)
  BY <1>0, <1>3 DEF Record
<1>4. CASE Submit(t)
  BY <1>0, <1>4 DEF Submit
<1>5. CASE Refused(t)
  BY <1>0, <1>5 DEF Refused
<1>6. CASE TimesOut(t)
  BY <1>0, <1>6 DEF TimesOut
<1>7. CASE Rest(t)
  BY <1>0, <1>7 DEF Rest
<1>8. CASE UnknownLapses(t)
  BY <1>0, <1>8 DEF UnknownLapses
<1>9. CASE ProceedUnprotected(t)
  BY <1>0, <1>9 DEF ProceedUnprotected
<1> QED BY <1>1, <1>2, <1>3, <1>4, <1>5, <1>6, <1>7, <1>8, <1>9

LEMMA SubmitKeepsStops ==
  ASSUME BookInv, BookInv', StopInv, NEW t \in Trades, SubmitStep(t), UNCHANGED <<syncVars, stopVars>>
  PROVE  StopInv'
<1> USE SubmitAssumption
<1>b. BookTypes /\ Ledger(t)
  BY DEF BookInv
<1>s. AmountTypes /\ Amounts(t) /\ Settled(t)
  BY DEF StopInv
<1>v. UNCHANGED <<job, old, found, hit, todo, cur, close, sold, upsets>>
  BY DEF syncVars, stopVars
<1>a. UNCHANGED <<kind, attempts>>
  BY DEF SubmitStep, Refuse, Reserve, ProceedUnprotected, Record, Submit, Refused, TimesOut, Book, Count, Rest, UnknownLapses, VenueRejects, VenueAccepts, VenueEnds
<1>1. /\ Amounts(t)' /\ Settled(t)'
      /\ rule' \in [Trades -> {"none", "armed", "spent"}]
      /\ \A u \in Trades \ {t} : /\ call'[u] = call[u] /\ order'[u] = order[u] /\ seen'[u] = seen[u] /\ filled'[u] = filled[u]
                                 /\ counted'[u] = counted[u] /\ row'[u].fill = row[u].fill /\ rule'[u] = rule[u]
      /\ filled[t] <= filled'[t] /\ (rule[t] # "none" => filled'[t] = filled[t])
      /\ \A u \in Trades : rule'[u] = rule[u] \/ (rule[u] = "none" /\ rule'[u] = "armed")
  <2> USE <1>b, <1>s, <1>v DEF BookTypes, AmountTypes
  <2>1. CASE \/ Refuse(t) \/ Reserve(t) \/ ProceedUnprotected(t) \/ Record(t) \/ Submit(t)
             \/ Refused(t) \/ TimesOut(t) \/ Rest(t) \/ UnknownLapses(t)
    <3> USE <2>1 DEF Refuse, Reserve, ProceedUnprotected, Record, Submit, Refused, TimesOut, Rest, UnknownLapses
    <3>1. UNCHANGED <<seen, filled, counted, rule>>
      OBVIOUS
    <3>2. /\ call' \in [Trades -> {"idle", "reserved", "recorded", "sent", "booked", "done"}]
          /\ \A u \in Trades \ {t} : call'[u] = call[u] /\ order'[u] = order[u]
      BY CallMoves
    <3>3. call'[t] # "booked" \/ call'[t] = call[t]
      OBVIOUS
    <3>4. \A u \in Trades : row'[u].fill = row[u].fill
      <4>1. row' = row \/ \E st \in {"pending", "unknown", "failed"} : row' = [row EXCEPT ![t].st = st]
        <5>1. CASE Refuse(t) \/ Reserve(t) \/ ProceedUnprotected(t) \/ Submit(t) \/ Rest(t)
          BY <5>1
        <5>2. CASE Record(t)
          BY <5>2
        <5>3. CASE Refused(t)
          BY <5>3
        <5>4. CASE TimesOut(t)
          BY <5>4
        <5>5. CASE UnknownLapses(t)
          BY <5>5
        <5> QED BY <5>1, <5>2, <5>3, <5>4, <5>5
      <4> QED BY <4>1
    <3>5. rule[t] # "none" => call'[t] = call[t] /\ order'[t] = order[t]
      BY DEF Settled
    <3>6. Settled(t)'
      BY <3>1, <3>3, <3>5 DEF Settled, UnknownLapses
    <3>7. Amounts(t)'
      BY <3>1, <3>3, <3>4 DEF Amounts, ToCount
    <3> QED BY <3>1, <3>2, <3>4, <3>6, <3>7
  <2>2. CASE Book(t)
    <3> USE <2>2 DEF Book
    <3>1. UNCHANGED <<order, filled, counted, rule>> /\ call' = [call EXCEPT ![t] = "booked"] /\ order[t] = "done" /\ call[t] = "sent"
      OBVIOUS
    <3>2. row[t].fill = 0 /\ counted[t] = 0 /\ job[t] = "idle" /\ filled[t] <= Size
      BY DEF Ledger, BookOrder, VenueOrder
    <3>3. PICK n \in {0, filled[t]} : /\ seen' = [seen EXCEPT ![t] = n]
                                      /\ row' = row \/ row' = [row EXCEPT ![t] = [st |-> "filled", fill |-> n]]
      OBVIOUS
    <3>4. \A u \in Trades \ {t} : row'[u].fill = row[u].fill /\ seen'[u] = seen[u] /\ call'[u] = call[u]
      BY <3>1, <3>3
    <3>5. seen'[t] = n /\ row'[t].fill >= 0 /\ row'[t].fill \in Nat /\ call'[t] = "booked"
      BY <3>1, <3>2, <3>3
    <3>6. Amounts(t)'
      <4>1. ToCount(t)' = n
        BY <3>1, <3>2, <3>5 DEF ToCount
      <4> QED BY <3>1, <3>2, <3>5, <4>1 DEF Amounts
    <3>7. Settled(t)'
      BY <3>1 DEF Settled
    <3> QED BY <3>1, <3>4, <3>6, <3>7
  <2>3. CASE Count(t)
    <3> USE <2>3 DEF Count
    <3>1. UNCHANGED <<order, filled, row>> /\ call' = [call EXCEPT ![t] = "done"] /\ seen' = [seen EXCEPT ![t] = 0] /\ call[t] = "booked"
      OBVIOUS
    <3>2. /\ counted' = counted \/ counted' = [counted EXCEPT ![t] = @ + seen[t]]
          /\ rule' = rule \/ rule' = [rule EXCEPT ![t] = "armed"]
      OBVIOUS
    <3>3. order[t] = "done" /\ rule[t] = "none"
      BY <3>1 DEF Settled
    <3>4. Settled(t)'
      BY <3>1, <3>3 DEF Settled
    <3>5. counted'[t] <= counted[t] + seen[t] /\ counted'[t] \in Nat /\ seen'[t] = 0 /\ call'[t] = "done"
      BY <3>1, <3>2
    <3>6. Amounts(t)'
      <4> DEFINE r == IF job[t] = "count" /\ found[t] > old[t] THEN found[t] - old[t] ELSE 0
      <4>1. r \in Nat
        OBVIOUS
      <4>2. ToCount(t) = seen[t] + r /\ ToCount(t)' = 0 + r
        BY <3>1, <3>5 DEF ToCount
      <4> HIDE DEF r
      <4>3. counted'[t] + ToCount(t)' <= counted[t] + ToCount(t)
        BY <3>5, <4>1, <4>2
      <4>4. ToCount(t) \in Nat /\ ToCount(t)' \in Nat
        BY <4>1, <4>2
      <4> QED BY <3>1, <3>5, <4>3, <4>4 DEF Amounts
    <3>7. rule' \in [Trades -> {"none", "armed", "spent"}]
      BY <3>2
    <3>8. \A u \in Trades : rule'[u] = rule[u] \/ (rule[u] = "none" /\ rule'[u] = "armed")
      BY <3>2, <3>3
    <3> QED BY <3>1, <3>2, <3>4, <3>6, <3>7, <3>8
  <2>4. CASE VenueRejects(t) \/ VenueEnds(t)
    BY <2>4 DEF VenueRejects, VenueEnds, Amounts, Settled, ToCount
  <2>5. CASE VenueAccepts(t)
    <3> USE <2>5 DEF VenueAccepts
    <3>1. UNCHANGED <<call, seen, row, counted, rule>> /\ order[t] = "flight"
      OBVIOUS
    <3>2. filled[t] = 0 /\ rule[t] = "none" /\ call[t] # "booked"
      BY <3>1 DEF Ledger, VenueOrder, Settled
    <3>3. /\ \A u \in Trades \ {t} : order'[u] = order[u] /\ filled'[u] = filled[u]
          /\ filled' = filled \/ filled'[t] \in 1..Size
      OBVIOUS
    <3>4. filled[t] <= filled'[t] /\ filled'[t] \in Nat
      BY <3>2, <3>3
    <3>5. Amounts(t)'
      BY <3>1, <3>4 DEF Amounts, ToCount
    <3>6. Settled(t)'
      BY <3>1, <3>2 DEF Settled
    <3> QED BY <3>1, <3>2, <3>3, <3>4, <3>5, <3>6
  <2> QED BY <2>1, <2>2, <2>3, <2>4, <2>5 DEF SubmitStep
<1>2. AmountTypes'
  BY <1>s, <1>v, <1>a, <1>1 DEF AmountTypes
<1>3. ASSUME NEW u \in Trades PROVE Amounts(u)' /\ Settled(u)'
  <2>1. CASE u = t
    BY <1>1, <2>1
  <2>2. CASE u # t
    <3>1. Amounts(u) /\ Settled(u)
      BY DEF StopInv
    <3> QED BY <1>1, <1>v, <2>2, <3>1, AmountFrame
  <2> QED BY <2>1, <2>2
<1>4. SoldBought' /\ SpentSold'
  <2>1. \A u \in Trades : filled[u] <= filled'[u] /\ (rule[u] # "none" => filled'[u] = filled[u])
    BY <1>b, <1>1 DEF BookTypes
  <2>2. Spent' = Spent /\ Ruled \subseteq Ruled'
    BY <1>1 DEF Spent, Ruled
  <2>3. ScanClosed' => ScanClosed
    BY <1>v DEF ScanClosed
  <2> QED BY <1>v, <2>1, <2>2, <2>3, SumsFrame
<1> QED BY <1>2, <1>3, <1>4 DEF StopInv
LEMMA JobKeepsStops ==
  ASSUME BookInv, BookInv', StopInv, NEW t \in Trades, JobStep(t), UNCHANGED stopVars
  PROVE  StopInv'
<1> USE SubmitAssumption
<1>b. BookTypes /\ BookTypes' /\ Ledger(t)
  BY DEF BookInv
<1>s. AmountTypes /\ Amounts(t) /\ Settled(t)
  BY DEF StopInv
<1>v. /\ UNCHANGED <<hit, todo, cur, close, sold, upsets>>
      /\ UNCHANGED <<call, seen, order, filled, attempts, rule>>
  BY DEF stopVars, JobStep, Expire, Look, ReadOrders, ReadRecent, EntryFails, WriteFill, CountFill, Finish
<1>1. /\ \A u \in Trades \ {t} : /\ counted'[u] = counted[u] /\ row'[u].fill = row[u].fill
                                 /\ job'[u] = job[u] /\ old'[u] = old[u] /\ found'[u] = found[u]
      /\ old'[t] <= filled[t] /\ found'[t] <= filled[t]
      /\ \/ counted'[t] = counted[t] /\ row'[t].fill = row[t].fill /\ job'[t] # "count"
         \/ /\ job[t] = "write" /\ job'[t] = "count" /\ UNCHANGED <<counted, old, found>>
            /\ row'[t].fill = found[t]
         \/ /\ job[t] = "count" /\ job'[t] # "count" /\ row'[t].fill = row[t].fill
            /\ counted'[t] = counted[t] \/ (found[t] > old[t] /\ counted'[t] = counted[t] + found[t] - old[t])
  <2> USE <1>b, <1>s DEF BookTypes, Amounts
  <2>1. CASE Expire(t)
    BY <2>1 DEF Expire, Leave
  <2>2. CASE Look(t)
    <3> USE <2>2 DEF Look
    <3>1. row[t].fill <= filled[t] /\ row[t].fill \in Nat /\ filled[t] \in Nat
      BY DEF Ledger, BookOrder
    <3>2. UNCHANGED <<row, counted>>
      OBVIOUS
    <3>3. PICK n \in {filled[t]} \cup (IF May("lag") THEN {0} ELSE {}) \cup (IF May("late") THEN row[t].fill..filled[t] ELSE {}) :
             IF n = 0 /\ (RecordedFill(t) \/ attempts[t] < RetryAfter)
             THEN Leave(t, "pending")
             ELSE /\ job' = [job EXCEPT ![t] = IF n > 0 THEN "write" ELSE "orders"]
                  /\ old' = [old EXCEPT ![t] = row[t].fill]
                  /\ found' = [found EXCEPT ![t] = n]
                  /\ UNCHANGED sync
      OBVIOUS
    <3>4. n <= filled[t]
      BY <3>1
    <3>5. CASE Leave(t, "pending")
      BY <3>1, <3>2, <3>5 DEF Leave
    <3>6. CASE /\ job' = [job EXCEPT ![t] = IF n > 0 THEN "write" ELSE "orders"]
               /\ old' = [old EXCEPT ![t] = row[t].fill]
               /\ found' = [found EXCEPT ![t] = n]
      BY <3>1, <3>2, <3>4, <3>6
    <3> QED BY <3>3, <3>5, <3>6
  <2>3. CASE ReadOrders(t)
    <3>1. UNCHANGED <<row, counted>> /\ (Leave(t, "pending") \/ (job' = [job EXCEPT ![t] = "recent"] /\ UNCHANGED <<old, found>>))
      BY <2>3 DEF ReadOrders
    <3> QED BY <3>1 DEF Leave
  <2>4. CASE ReadRecent(t)
    <3> USE <2>4 DEF ReadRecent
    <3>1. counted' = counted /\ (row' = row \/ row' = [row EXCEPT ![t].st = "cancelled"])
      OBVIOUS
    <3>2. \A u \in Trades : row'[u].fill = row[u].fill
      BY <3>1
    <3>3. \/ \E st : Leave(t, st)
          \/ found' = [found EXCEPT ![t] = filled[t]] /\ job' = [job EXCEPT ![t] = "write"] /\ old' = old
      OBVIOUS
    <3> QED BY <3>1, <3>2, <3>3 DEF Leave
  <2>5. CASE EntryFails(t)
    BY <2>5 DEF EntryFails, Leave
  <2>6. CASE WriteFill(t)
    <3>1. UNCHANGED <<counted, old, found>> /\ job[t] = "write" /\ job' = [job EXCEPT ![t] = "count"]
      BY <2>6 DEF WriteFill
    <3>2. \E st : row' = [row EXCEPT ![t] = [st |-> st, fill |-> found[t]]]
      BY <2>6 DEF WriteFill
    <3> QED BY <3>1, <3>2
  <2>7. CASE CountFill(t)
    BY <2>7 DEF CountFill
  <2>8. CASE Finish(t)
    <3>1. UNCHANGED <<row, counted>> /\ \E st : Leave(t, st)
      BY <2>8 DEF Finish
    <3> QED BY <3>1 DEF Leave
  <2> QED BY <2>1, <2>2, <2>3, <2>4, <2>5, <2>6, <2>7, <2>8 DEF JobStep
<1>2. Amounts(t)' /\ Settled(t)'
  <2> DEFINE c == IF call[t] = "booked" THEN seen[t] ELSE 0
             r == IF job[t] = "count" /\ found[t] > old[t] THEN found[t] - old[t] ELSE 0
             q == IF job'[t] = "count" /\ found'[t] > old'[t] THEN found'[t] - old'[t] ELSE 0
  <2>1. c \in Nat /\ r \in Nat /\ q \in Nat
    BY <1>b DEF BookTypes
  <2>2. ToCount(t) = c + r /\ ToCount(t)' = c + q
    BY <1>v DEF ToCount
  <2>3. counted'[t] + q + row[t].fill <= counted[t] + r + row'[t].fill
    <3>1. CASE counted'[t] = counted[t] /\ row'[t].fill = row[t].fill /\ job'[t] # "count"
      <4>1. q = 0
        BY <3>1
      <4> HIDE DEF q, r
      <4> QED BY <1>b, <2>1, <3>1, <4>1 DEF BookTypes
    <3>2. CASE job[t] = "write" /\ job'[t] = "count" /\ UNCHANGED <<counted, old, found>> /\ row'[t].fill = found[t]
      <4>1. old[t] = row[t].fill /\ old[t] <= found[t]
        BY <1>b, <3>2 DEF Ledger, JobReads
      <4>2. q = found[t] - old[t] /\ r = 0
        BY <1>b, <3>2, <4>1 DEF BookTypes
      <4> HIDE DEF q, r
      <4> QED BY <1>b, <3>2, <4>1, <4>2 DEF BookTypes
    <3>3. CASE /\ job[t] = "count" /\ job'[t] # "count" /\ row'[t].fill = row[t].fill
               /\ counted'[t] = counted[t] \/ (found[t] > old[t] /\ counted'[t] = counted[t] + found[t] - old[t])
      <4>1. q = 0
        BY <3>3
      <4>2. counted'[t] <= counted[t] + r
        BY <1>b, <3>3 DEF BookTypes
      <4> HIDE DEF q, r
      <4> QED BY <1>b, <2>1, <3>3, <4>1, <4>2 DEF BookTypes
    <3> QED BY <1>1, <3>1, <3>2, <3>3
  <2> HIDE DEF c, q, r
  <2>4. counted'[t] \in Nat /\ counted[t] \in Nat /\ row'[t].fill \in Nat /\ row[t].fill \in Nat
    BY <1>b DEF BookTypes
  <2>5. counted'[t] + ToCount(t)' <= row'[t].fill + Size
    BY <1>s, <2>1, <2>2, <2>3, <2>4 DEF Amounts
  <2> QED BY <1>s, <1>v, <1>1, <2>5 DEF Amounts, Settled
<1>3. AmountTypes'
  BY <1>s, <1>v DEF AmountTypes
<1>4. ASSUME NEW u \in Trades PROVE Amounts(u)' /\ Settled(u)'
  <2>1. CASE u = t
    BY <1>2, <2>1
  <2>2. CASE u # t
    <3>1. Amounts(u) /\ Settled(u)
      BY DEF StopInv
    <3> QED BY <1>1, <1>v, <2>2, <3>1, AmountFrame
  <2> QED BY <2>1, <2>2
<1>5. SoldBought' /\ SpentSold'
  <2>1. \A u \in Trades : filled[u] <= filled'[u]
    BY <1>b, <1>v DEF BookTypes
  <2>2. Spent' = Spent /\ Ruled \subseteq Ruled'
    BY <1>v DEF Spent, Ruled
  <2>3. ScanClosed' => ScanClosed
    BY <1>v DEF ScanClosed
  <2> QED BY <1>v, <2>1, <2>2, <2>3, SumsFrame
<1> QED BY <1>3, <1>4, <1>5 DEF StopInv

LEMMA FillKeepsStops ==
  ASSUME BookInv, BookInv', StopInv, NEW t \in Trades, VenueFills(t), UNCHANGED stopVars
  PROVE  StopInv'
<1> USE SubmitAssumption
<1>b. BookTypes /\ BookTypes'
  BY DEF BookInv
<1>v. /\ UNCHANGED <<hit, todo, cur, close, sold, upsets>>
      /\ UNCHANGED <<call, seen, row, counted, attempts, rule, old, found, job>>
      /\ order[t] = "resting" /\ filled' = [filled EXCEPT ![t] = @ + 1]
      /\ \A u \in Trades \ {t} : order'[u] = order[u]
  BY <1>b DEF stopVars, VenueFills, BookTypes
<1>s. AmountTypes /\ Amounts(t) /\ Settled(t)
  BY DEF StopInv
<1>1. rule[t] = "none" /\ call[t] # "booked"
  BY <1>s, <1>v DEF Settled
<1>2. /\ \A u \in Trades \ {t} : filled'[u] = filled[u]
      /\ filled'[t] = filled[t] + 1
  BY <1>b, <1>v DEF BookTypes
<1>3. AmountTypes'
  BY <1>s, <1>v DEF AmountTypes
<1>4. ASSUME NEW u \in Trades PROVE Amounts(u)' /\ Settled(u)'
  <2>1. CASE u = t
    <3>1. seen[t] \in Nat /\ old[t] \in Nat /\ found[t] \in Nat /\ filled[t] \in Nat
      BY <1>b DEF BookTypes
    <3>2. ToCount(t)' = ToCount(t)
      BY <1>v DEF ToCount
    <3> QED BY <1>s, <1>v, <1>1, <1>2, <2>1, <3>1, <3>2 DEF Amounts, Settled
  <2>2. CASE u # t
    <3>1. Amounts(u) /\ Settled(u)
      BY DEF StopInv
    <3> QED BY <1>2, <1>v, <2>2, <3>1, AmountFrame
  <2> QED BY <2>1, <2>2
<1>5. SoldBought' /\ SpentSold'
  <2>1. \A u \in Trades : filled[u] <= filled'[u] /\ (rule[u] # "none" => filled'[u] = filled[u])
    BY <1>b, <1>1, <1>2 DEF BookTypes
  <2>2. Spent' = Spent /\ Ruled \subseteq Ruled'
    BY <1>v DEF Spent, Ruled
  <2>3. ScanClosed' => ScanClosed
    BY <1>v DEF ScanClosed
  <2> QED BY <1>v, <2>1, <2>2, <2>3, SumsFrame
<1> QED BY <1>3, <1>4, <1>5 DEF StopInv

LEMMA ClaimKeepsStops ==
  ASSUME BookInv, BookInv', StopInv, Claim, UNCHANGED stopVars
  PROVE  StopInv'
<1> USE SubmitAssumption, SyncAssumption
<1>b. BookTypes /\ BookTypes'
  BY DEF BookInv
<1>s. AmountTypes
  BY DEF StopInv
<1>v. /\ UNCHANGED <<hit, todo, cur, close, sold, upsets>>
      /\ UNCHANGED <<call, seen, row, order, filled, counted, rule, old, found>>
      /\ \A t \in Trades : job[t] = "idle" /\ job'[t] # "count"
  BY DEF stopVars, Claim
<1>1. attempts' \in [Trades -> 0..GiveUpAfter]
  BY <1>s DEF Claim, AmountTypes
<1>2. AmountTypes'
  BY <1>1, <1>s, <1>v DEF AmountTypes
<1>3. ASSUME NEW u \in Trades PROVE Amounts(u)' /\ Settled(u)'
  <2>1. Amounts(u) /\ Settled(u)
    BY DEF StopInv
  <2>2. ToCount(u)' = ToCount(u)
    BY <1>v DEF ToCount
  <2> QED BY <1>v, <2>1, <2>2 DEF Amounts, Settled
<1>4. SoldBought' /\ SpentSold'
  <2>1. \A u \in Trades : filled[u] <= filled'[u]
    BY <1>b, <1>v DEF BookTypes
  <2>2. Spent' = Spent /\ Ruled \subseteq Ruled'
    BY <1>v DEF Spent, Ruled
  <2>3. ScanClosed' => ScanClosed
    BY <1>v DEF ScanClosed
  <2> QED BY <1>v, <2>1, <2>2, <2>3, SumsFrame
<1> QED BY <1>2, <1>3, <1>4 DEF StopInv
LEMMA RestartKeepsStops ==
  ASSUME BookInv, BookInv', StopInv, Restart
  PROVE  StopInv'
<1>b. BookTypes /\ BookTypes'
  BY DEF BookInv
<1>s. AmountTypes
  BY DEF StopInv
<1>v. /\ UNCHANGED <<kind, row, order, filled, attempts, rule, counted, sold>>
      /\ todo' = {} /\ cur' = {} /\ close' = [c \in Closers |-> Idle]
      /\ \A t \in Trades : /\ call'[t] \in {"idle", "done"} /\ (call[t] = "done" => call'[t] = "done")
                           /\ seen'[t] = 0 /\ old'[t] = 0 /\ found'[t] = 0 /\ job'[t] = "idle"
  BY DEF Restart
<1>1. AmountTypes'
  BY <1>s, <1>v DEF AmountTypes, CloseRecords, Idle
<1>2. ASSUME NEW u \in Trades PROVE Amounts(u)' /\ Settled(u)'
  <2>1. Amounts(u) /\ Settled(u)
    BY DEF StopInv
  <2>2. ToCount(u)' = 0 /\ ToCount(u) \in Nat
    BY <1>b, <1>v DEF ToCount, BookTypes
  <2>3. counted[u] \in Nat /\ filled[u] \in Nat /\ row[u].fill \in Nat /\ Size \in Nat
    BY <1>b, SubmitAssumption DEF BookTypes
  <2> QED BY <1>v, <2>1, <2>2, <2>3 DEF Amounts, Settled
<1>3. SoldBought'
  <2>1. Total(filled', Trades) = Total(filled, Trades)
    BY <1>v
  <2> QED BY <1>v, <2>1 DEF StopInv, SoldBought
<1>4. SpentSold'
  <2>1. Spent' = Spent
    BY <1>v DEF Spent
  <2>2. Total(filled', Spent') = Total(filled, Spent)
    BY <1>v, <2>1
  <2>3. ~ScanClosed'
    BY <1>v DEF ScanClosed, Idle, Closers
  <2> QED BY <1>v, <2>2, <2>3 DEF StopInv, SpentSold
<1> QED BY <1>1, <1>2, <1>3, <1>4 DEF StopInv

\* What the steps of a close do to what was sold: an order sells at most the position, and a scan's close
\* that succeeds, or finds nothing, leaves none.
LEMMA CloseSells ==
  ASSUME BookInv, StopInv, NEW c \in Closers, CloseStep(c)
  PROVE  /\ close' \in [Closers -> CloseRecords]
         /\ sold' \in Nat /\ sold <= sold' /\ sold' <= Total(filled, Trades)
         /\ ScanClosed' /\ ~ScanClosed => Total(filled, Trades) <= sold'
<1>p. Position = Total(filled, Trades) - sold
  BY PositionIs
<1>s. /\ close \in [Closers -> CloseRecords] /\ sold \in Nat
      /\ Total(filled, Trades) \in Nat /\ sold <= Total(filled, Trades)
  BY BoughtSums DEF StopInv, AmountTypes, SoldBought
<1>t. Position \in Nat
  BY <1>p, <1>s
<1>e. ASSUME NEW res \in {"ok", "nothing", "failed"}, Ends(c, res), sold' = sold, ScanClosed' /\ ~ScanClosed,
             res # "failed" => Position = 0
      PROVE  Total(filled, Trades) <= sold'
  <2>1. close' = [close EXCEPT ![c] = [Idle EXCEPT !.at = "end", !.result = res]]
    BY <1>e DEF Ends
  <2>2. c = "scan"
    BY <1>e, <1>s, <2>1 DEF ScanClosed, Closers
  <2>3. close'["scan"].result = res
    BY <1>s, <2>1, <2>2 DEF Idle
  <2>4. res # "failed"
    BY <1>e, <2>3 DEF ScanClosed
  <2> QED BY <1>e, <1>p, <1>s, <2>4
<1>r. ASSUME NEW res \in {"ok", "nothing", "failed"}, Ends(c, res) PROVE close' \in [Closers -> CloseRecords]
  <2> DEFINE rec == [Idle EXCEPT !.at = "end", !.result = res]
  <2>1. rec \in CloseRecords
    BY IdleIsClose DEF CloseRecords
  <2>2. close' = [close EXCEPT ![c] = rec]
    BY <1>r DEF Ends
  <2> HIDE DEF rec
  <2> QED BY <1>s, <2>1, <2>2
<1>n. ASSUME close'[c].at # "end", \A d \in Closers \ {c} : close'[d] = close[d], ScanClosed' PROVE ScanClosed
  BY <1>n DEF ScanClosed, Closers
<1>1. CASE CloseCancels(c)
  <2>1. sold' = sold
    BY <1>1 DEF CloseCancels
  <2>2. \E a \in BOOLEAN, b \in BOOLEAN : close' = [close EXCEPT ![c].at = "read", ![c].cancelled = a, ![c].errs = b]
    <3>1. PICK kept \in IF May("close") THEN SUBSET Resting ELSE {{}}, unread \in Fails("close") :
              close' = [close EXCEPT ![c].at = "read", ![c].cancelled = Resting # kept, ![c].errs = unread \/ kept # {}]
      BY <1>1 DEF CloseCancels
    <3>2. (Resting # kept) \in BOOLEAN /\ (unread \/ kept # {}) \in BOOLEAN
      OBVIOUS
    <3> QED BY <3>1, <3>2
  <2>3. PICK a \in BOOLEAN, b \in BOOLEAN : close' = [close EXCEPT ![c].at = "read", ![c].cancelled = a, ![c].errs = b]
    BY <2>2
  <2>4. close' \in [Closers -> CloseRecords]
    <3> DEFINE rec == [close[c] EXCEPT !.at = "read", !.cancelled = a, !.errs = b]
    <3>1. rec \in CloseRecords
      BY <1>s DEF CloseRecords
    <3>2. close' = [close EXCEPT ![c] = rec]
      BY <1>s, <2>3 DEF CloseRecords
    <3> HIDE DEF rec
    <3> QED BY <1>s, <3>1, <3>2
  <2>5. close'[c].at = "read" /\ \A d \in Closers \ {c} : close'[d] = close[d]
    BY <1>s, <2>3 DEF CloseRecords
  <2> QED BY <1>n, <1>s, <2>1, <2>4, <2>5
<1>2. CASE CloseReads(c)
  <2>1. sold' = sold
    BY <1>2 DEF CloseReads, submitVars, syncVars
  <2>2. CASE Position > 0
    <3> DEFINE rec == [Idle EXCEPT !.at = "order", !.left = Position, !.size = Position]
    <3>1. close' = [close EXCEPT ![c] = rec]
      BY <1>2, <2>2 DEF CloseReads
    <3>r. rec \in CloseRecords /\ rec.at = "order"
      <4>1. Position \in Int
        BY <1>t
      <4>2. \A n \in Int : [Idle EXCEPT !.at = "order", !.left = n, !.size = n] \in CloseRecords
        BY IdleIsClose DEF CloseRecords
      <4>3. \A n \in Int : [Idle EXCEPT !.at = "order", !.left = n, !.size = n].at = "order"
        BY IdleIsClose DEF CloseRecords
      <4> QED BY <4>1, <4>2, <4>3
    <3> HIDE DEF rec
    <3>2. close' \in [Closers -> CloseRecords] /\ close'[c].at = "order" /\ \A d \in Closers \ {c} : close'[d] = close[d]
      BY <1>s, <3>1, <3>r
    <3> QED BY <1>n, <1>s, <2>1, <3>2
  <2>3. CASE ~(Position > 0)
    <3>1. PICK res \in {"ok", "nothing", "failed"} : Ends(c, res)
      BY <1>2, <2>3 DEF CloseReads
    <3>2. Position = 0
      BY <1>t, <2>3
    <3> QED BY <1>e, <1>r, <1>s, <2>1, <3>1, <3>2
  <2> QED BY <2>2, <2>3
<1>3. CASE CloseFails(c)
  <2>1. sold' = sold /\ Ends(c, "failed")
    BY <1>3 DEF CloseFails, submitVars, syncVars
  <2> QED BY <1>e, <1>r, <1>s, <2>1
<1>4. CASE CloseOrders(c)
  <2>1. CASE Position = 0 \/ close[c].left = 0 \/ close[c].tries = 3
    <3> DEFINE rec == [Idle EXCEPT !.at = "verify"]
    <3>1. close' = [close EXCEPT ![c] = rec] /\ sold' = sold
      BY <1>4, <2>1 DEF CloseOrders
    <3>r. rec \in CloseRecords /\ rec.at = "verify"
      BY IdleIsClose DEF CloseRecords
    <3> HIDE DEF rec
    <3>2. close' \in [Closers -> CloseRecords] /\ close'[c].at = "verify" /\ \A d \in Closers \ {c} : close'[d] = close[d]
      BY <1>s, <3>1, <3>r
    <3> QED BY <1>n, <1>s, <3>1, <3>2
  <2>2. CASE ~(Position = 0 \/ close[c].left = 0 \/ close[c].tries = 3)
    <3> DEFINE amount == IF close[c].left < Position THEN close[c].left ELSE Position
    <3>1. /\ \E n \in 1..amount : sold' = sold + n
          /\ close' = [close EXCEPT ![c].left = @ - amount, ![c].tries = @ + 1]
      BY <1>4, <2>2 DEF CloseOrders
    <3>2. close[c].left \in Int /\ amount \in Int /\ amount <= Position
      BY <1>s, <1>t DEF CloseRecords
    <3> HIDE DEF amount
    <3>3. sold' \in Nat /\ sold <= sold' /\ sold' <= Total(filled, Trades)
      BY <1>p, <1>s, <3>1, <3>2
    <3>4. close' \in [Closers -> CloseRecords] /\ close'[c].at = close[c].at /\ \A d \in Closers \ {c} : close'[d] = close[d]
      BY <1>s, <3>1, <3>2 DEF CloseRecords
    <3>5. close'[c].at # "end"
      BY <1>4, <3>4 DEF CloseOrders
    <3> QED BY <1>n, <3>3, <3>4, <3>5
  <2> QED BY <2>1, <2>2
<1>5. CASE CloseVerifies(c)
  <2>1. sold' = sold
    BY <1>5 DEF CloseVerifies, submitVars, syncVars
  <2>2. CASE Position = 0 /\ Resting = {}
    BY <1>5, <1>e, <1>r, <1>s, <2>1, <2>2 DEF CloseVerifies
  <2>3. CASE ~(Position = 0 /\ Resting = {})
    <3>1. Ends(c, "failed")
      BY <1>5, <2>3 DEF CloseVerifies
    <3> QED BY <1>e, <1>r, <1>s, <2>1, <3>1
  <2> QED BY <2>2, <2>3
<1> QED BY <1>1, <1>2, <1>3, <1>4, <1>5 DEF CloseStep
\* Closes and scans book nothing.
LEMMA StopFrame ==
  ASSUME BookInv, StopStep
  PROVE  /\ UNCHANGED <<call, seen, filled, counted, attempts, job, old, found>>
         /\ \A u \in Trades : row'[u].fill = row[u].fill /\ (order[u] = "done" => order'[u] = "done")
<1> USE DEF BookInv, BookTypes
<1>1. UNCHANGED <<call, seen, filled, counted, attempts, job, old, found>>
  BY DEF StopStep, CloseStep, CloseCancels, CloseReads, CloseFails, CloseOrders, CloseVerifies, PriceHits, ScanFires, ScanSettles,
         ScanStarts, UserCloses, UserIsAnswered, submitVars, syncVars
<1>2. \/ row' = row
      \/ \E t \in OpenRows : row' = [row EXCEPT ![t].st = "closed"]
  BY DEF StopStep, CloseStep, CloseCancels, CloseReads, CloseFails, CloseOrders, CloseVerifies, PriceHits, ScanFires, ScanSettles,
         ScanStarts, UserCloses, UserIsAnswered, submitVars
<1>3. \A u \in Trades : row'[u].fill = row[u].fill
  <2>1. ASSUME NEW t \in Trades, row' = [row EXCEPT ![t].st = "closed"] PROVE \A u \in Trades : row'[u].fill = row[u].fill
    BY <2>1
  <2> QED BY <1>2, <2>1 DEF OpenRows
<1>4. \A u \in Trades : order[u] = "done" => order'[u] = "done"
  <2>1. CASE \E c \in Closers : CloseCancels(c)
    <3>1. PICK S \in SUBSET Resting : order' = [t \in Trades |-> IF t \in S THEN "done" ELSE order[t]]
      BY <2>1, CancelsResting
    <3> QED BY <3>1
  <2>2. CASE ~\E c \in Closers : CloseCancels(c)
    BY <2>2 DEF StopStep, CloseStep, CloseReads, CloseFails, CloseOrders, CloseVerifies, PriceHits, ScanFires, ScanSettles,
           ScanStarts, UserCloses, UserIsAnswered, submitVars
  <2> QED BY <2>1, <2>2
<1> QED BY <1>1, <1>3, <1>4, SMTT(30)

LEMMA StopKeepsStops ==
  ASSUME BookInv, BookInv', StopInv, StopStep
  PROVE  StopInv'
<1>b. BookTypes /\ BookTypes'
  BY DEF BookInv
<1>s. AmountTypes /\ SoldBought /\ SpentSold
  BY DEF StopInv
<1>f. /\ UNCHANGED <<call, seen, filled, counted, attempts, job, old, found>>
      /\ \A u \in Trades : row'[u].fill = row[u].fill /\ (order[u] = "done" => order'[u] = "done")
  BY StopFrame
<1>t. Total(filled', Trades) = Total(filled, Trades) /\ \A R : Total(filled', R) = Total(filled, R)
  BY <1>f
<1>1. ASSUME NEW u \in Trades, rule'[u] = rule[u] \/ rule[u] # "none"
      PROVE  Amounts(u)' /\ Settled(u)'
  <2>1. Amounts(u) /\ Settled(u)
    BY DEF StopInv
  <2>2. ToCount(u)' = ToCount(u)
    BY <1>f DEF ToCount
  <2> QED BY <1>1, <1>f, <2>1, <2>2 DEF Amounts, Settled
<1>2. CASE \E c \in Closers : CloseStep(c)
  <2>1. UNCHANGED <<hit, todo, cur, rule>>
    BY <1>2 DEF CloseStep, CloseCancels, CloseReads, CloseFails, CloseOrders, CloseVerifies, submitVars
  <2>2. /\ close' \in [Closers -> CloseRecords]
        /\ sold' \in Nat /\ sold <= sold' /\ sold' <= Total(filled, Trades)
        /\ ScanClosed' /\ ~ScanClosed => Total(filled, Trades) <= sold'
    BY <1>2, CloseSells
  <2>3. AmountTypes'
    BY <1>f, <1>s, <2>1, <2>2 DEF AmountTypes
  <2>4. SoldBought'
    BY <1>t, <2>2 DEF SoldBought
  <2>5. SpentSold'
    <3>1. Ruled' = Ruled /\ Spent' = Spent
      BY <2>1 DEF Ruled, Spent
    <3>2. Spent \subseteq Trades /\ cur \subseteq Trades
      BY <1>s DEF Spent, Ruled, SpentSold
    <3>3. /\ Total(filled, Spent) \in Nat /\ Total(filled, Spent \cup cur) \in Nat /\ sold \in Nat
          /\ Total(filled, Spent \cup cur) <= Total(filled, Trades) /\ Total(filled, Trades) \in Nat
      BY <1>s, <3>2, BoughtSums DEF AmountTypes
    <3>4. Total(filled, Spent) <= sold' /\ (ScanClosed' => Total(filled, Spent \cup cur) <= sold')
      BY <1>s, <2>2, <3>3 DEF SpentSold
    <3>5. (Spent \cup cur)' = Spent \cup cur
      BY <2>1, <3>1
    <3>6. Total(filled', Spent') = Total(filled, Spent) /\ Total(filled', (Spent \cup cur)') = Total(filled, Spent \cup cur)
      BY <1>t, <3>1, <3>5
    <3> QED BY <1>s, <2>1, <3>1, <3>4, <3>6 DEF SpentSold
  <2> QED BY <1>1, <2>1, <2>3, <2>4, <2>5 DEF StopInv
<1>3. CASE (\E t \in Trades : PriceHits(t) \/ ScanFires(t)) \/ ScanStarts \/ UserCloses \/ UserIsAnswered
  <2>1. UNCHANGED <<rule, sold>>
    BY <1>3 DEF PriceHits, ScanFires, ScanStarts, UserCloses, UserIsAnswered, submitVars
  <2>2. /\ close' \in [Closers -> CloseRecords]
        /\ ScanClosed' => ScanClosed /\ cur' = cur
    <3>1. CASE (\E t \in Trades : PriceHits(t)) \/ ScanStarts
      BY <1>s, <3>1 DEF PriceHits, ScanStarts, AmountTypes, ScanClosed
    <3>2. CASE \E t \in Trades : ScanFires(t)
      <4>1. close' = [close EXCEPT !["scan"].at = "cancel"]
        BY <3>2 DEF ScanFires
      <4>2. close' \in [Closers -> CloseRecords] /\ close'["scan"].at = "cancel"
        BY <1>s, <4>1 DEF AmountTypes, CloseRecords, Closers
      <4> QED BY <4>2 DEF ScanClosed
    <3>3. CASE UserCloses
      <4>1. close' = [close EXCEPT !["user"].at = "cancel"] /\ cur' = cur
        BY <3>3 DEF UserCloses
      <4>2. close' \in [Closers -> CloseRecords] /\ close'["scan"] = close["scan"]
        BY <1>s, <4>1 DEF AmountTypes, CloseRecords, Closers
      <4> QED BY <4>1, <4>2 DEF ScanClosed
    <3>4. CASE UserIsAnswered
      <4>1. close' = [close EXCEPT !["user"] = Idle] /\ cur' = cur
        BY <3>4 DEF UserIsAnswered
      <4>2. close' \in [Closers -> CloseRecords] /\ close'["scan"] = close["scan"]
        BY <1>s, <4>1, IdleIsClose DEF AmountTypes, Closers
      <4> QED BY <4>1, <4>2 DEF ScanClosed
    <3> QED BY <1>3, <3>1, <3>2, <3>3, <3>4
  <2>3. todo' \subseteq Ruled /\ cur' \subseteq Ruled
    <3>1. todo \subseteq Ruled /\ cur \subseteq Ruled
      BY <1>s DEF SpentSold
    <3>2. CASE \E t \in Trades : ScanFires(t)
      BY <3>1, <3>2 DEF ScanFires
    <3>3. CASE ScanStarts
      BY <3>1, <3>3 DEF ScanStarts, Ruled
    <3>4. CASE (\E t \in Trades : PriceHits(t)) \/ UserCloses \/ UserIsAnswered
      BY <3>1, <3>4 DEF PriceHits, UserCloses, UserIsAnswered
    <3> QED BY <1>3, <3>2, <3>3, <3>4
  <2>4. AmountTypes'
    BY <1>f, <1>s, <2>1, <2>2 DEF AmountTypes
  <2>5. SoldBought'
    BY <1>s, <1>t, <2>1 DEF SoldBought
  <2>6. SpentSold'
    <3>1. Ruled' = Ruled /\ Spent' = Spent
      BY <2>1 DEF Ruled, Spent
    <3>2. Total(filled', Spent') = Total(filled, Spent)
      BY <1>t, <3>1
    <3>3. ASSUME ScanClosed' PROVE Total(filled', (Spent \cup cur)') = Total(filled, Spent \cup cur)
      <4>1. (Spent \cup cur)' = Spent \cup cur
        BY <2>2, <3>1, <3>3
      <4> QED BY <1>t, <4>1
    <3> QED BY <1>s, <2>1, <2>2, <2>3, <3>1, <3>2, <3>3 DEF SpentSold
  <2> QED BY <1>1, <2>1, <2>4, <2>5, <2>6 DEF StopInv
<1>4. ASSUME NEW t \in Trades, ScanSettles(t) PROVE StopInv'
  <2>1. PICK failed \in Fails("db") :
           /\ rule' = IF close["scan"].result \in {"ok", "nothing"} /\ ~failed
                      THEN [rule EXCEPT ![t] = "spent"] ELSE rule
           /\ todo' = IF failed THEN {} ELSE todo \ {t}
    BY <1>4 DEF ScanSettles
  <2>2. cur = {t} /\ cur' = {} /\ close["scan"].at = "end" /\ close' = [close EXCEPT !["scan"] = Idle] /\ sold' = sold
    BY <1>4 DEF ScanSettles
  <2>3. /\ \/ rule' = rule
           \/ rule' = [rule EXCEPT ![t] = "spent"] /\ ScanClosed
        /\ todo' \subseteq todo
    BY <2>1, <2>2 DEF ScanClosed
  <2>4. t \in Ruled
    BY <1>s, <2>2 DEF SpentSold
  <2>5. rule' \in [Trades -> {"none", "armed", "spent"}] /\ \A u \in Trades : rule'[u] = rule[u] \/ (rule[u] # "none" /\ u = t /\ rule'[u] = "spent")
    BY <1>s, <2>3, <2>4 DEF AmountTypes, Ruled
  <2>6. close' \in [Closers -> CloseRecords] /\ ~ScanClosed'
    <3>1. close' \in [Closers -> CloseRecords] /\ close'["scan"] = Idle
      BY <1>s, <2>2, IdleIsClose DEF AmountTypes, Closers
    <3> QED BY <3>1 DEF ScanClosed, Idle
  <2>7. AmountTypes'
    BY <1>f, <1>s, <2>2, <2>5, <2>6 DEF AmountTypes
  <2>8. SoldBought'
    BY <1>s, <1>t, <2>2 DEF SoldBought
  <2>9. SpentSold'
    <3>1. Ruled' = Ruled
      BY <2>5 DEF Ruled
    <3>2. Total(filled, Spent') <= sold
      <4>1. CASE rule' = rule
        <5>1. Spent' = Spent
          BY <4>1 DEF Spent
        <5> QED BY <1>s, <5>1 DEF SpentSold
      <4>2. CASE rule' = [rule EXCEPT ![t] = "spent"] /\ ScanClosed
        <5>1. Spent' = Spent \cup cur
          BY <1>s, <2>2, <4>2 DEF Spent, AmountTypes
        <5> QED BY <1>s, <4>2, <5>1 DEF SpentSold
      <4> QED BY <2>3, <4>1, <4>2
    <3>3. Total(filled', Spent') = Total(filled, Spent')
      BY <1>t
    <3> QED BY <1>s, <2>2, <2>3, <2>6, <3>1, <3>2, <3>3 DEF SpentSold
  <2> QED BY <1>1, <2>5, <2>7, <2>8, <2>9 DEF StopInv
<1> QED BY <1>2, <1>3, <1>4 DEF StopStep

LEMMA StopNext == BookInv /\ BookInv' /\ StopInv /\ [Next]_vars => StopInv'
<1> SUFFICES ASSUME BookInv, BookInv', StopInv, [Next]_vars PROVE StopInv'
  OBVIOUS
<1>1. ASSUME UNCHANGED <<call, seen, row, order, filled, attempts, rule, counted, job, old, found, todo, cur, close, sold>>
      PROVE  StopInv'
  <2>1. AmountTypes'
    BY <1>1 DEF StopInv, AmountTypes
  <2>2. \A u \in Trades : Amounts(u)' /\ Settled(u)'
    BY <1>1, AmountFrame DEF StopInv
  <2>3. Spent' = Spent /\ Ruled' = Ruled /\ ScanClosed' = ScanClosed
    BY <1>1 DEF Spent, Ruled, ScanClosed
  <2>4. \A t \in Trades : filled[t] \in Nat
    BY DEF BookInv, BookTypes
  <2> QED BY <1>1, <2>1, <2>2, <2>3, <2>4, SumsFrame DEF StopInv
<1>2. CASE UNCHANGED vars
  BY <1>1, <1>2 DEF vars, submitVars, syncVars, stopVars
<1>3. CASE Submitting
  <2>1. CASE \E i \in Intents : IntentLapses(i) /\ UNCHANGED <<syncVars, stopVars>>
    BY <1>1, <2>1 DEF IntentLapses, syncVars, stopVars
  <2>2. CASE \E t \in Trades : SubmitStep(t) /\ UNCHANGED <<syncVars, stopVars>>
    BY <2>2, SubmitKeepsStops
  <2> QED BY <1>3, <2>1, <2>2 DEF Submitting
<1>4. CASE Syncing
  BY <1>4, ClaimKeepsStops, JobKeepsStops, FillKeepsStops DEF Syncing
<1> QED
  BY <1>2, <1>3, <1>4, StopKeepsStops, RestartKeepsStops DEF Next

LEMMA StopsHold == Spec => [](IntentInv /\ BookInv /\ StopInv)
<1>1. Init => IntentInv /\ BookInv /\ StopInv
  BY IntentInit, BookInit, StopInit0
<1>2. (IntentInv /\ BookInv /\ StopInv) /\ [Next]_vars => (IntentInv /\ BookInv /\ StopInv)'
  BY IntentNext, BookNext, StopNext
<1> QED BY <1>1, <1>2, PTL DEF Spec

\* A spent stop-loss has sold what its trade bought (SpentRulesAreSold), for any number of trades and rules, whatever
\* fails, fills in part, restarts or closes at the same time: a close counts as done only when nothing is left of the account's position.
THEOREM SpentRulesSold == Spec => []SpentRulesAreSold
<1>1. StopInv => SpentRulesAreSold
  BY SpentSumIs DEF StopInv, SpentSold
<1> QED BY StopsHold, <1>1, PTL

\* The states have their types (TypeOK): the counts stay in their bounds, and the account never sells more than it bought.
THEOREM TypeCorrect == Spec => []TypeOK
<1>1. IntentInv /\ BookInv /\ StopInv => TypeOK
  <2> SUFFICES ASSUME IntentInv, BookInv, StopInv PROVE TypeOK
    OBVIOUS
  <2> USE SubmitAssumption
  <2>t. IntentTypes /\ BookTypes /\ AmountTypes
    BY DEF IntentInv, BookInv, StopInv
  <2>1. ASSUME NEW t \in Trades
        PROVE  /\ filled[t] \in 0..Size /\ seen[t] \in 0..Size /\ old[t] \in 0..Size /\ found[t] \in 0..Size
               /\ row[t].fill \in 0..Size /\ counted[t] \in 0..2 * Size
    <3>1. /\ filled[t] \in Nat /\ seen[t] \in Nat /\ old[t] \in Nat /\ found[t] \in Nat /\ row[t].fill \in Nat
          /\ counted[t] \in Nat /\ ToCount(t) \in Nat
      BY <2>t DEF BookTypes, ToCount
    <3>2. filled[t] <= Size /\ row[t].fill <= filled[t]
      BY <3>1 DEF BookInv, Ledger, VenueOrder, BookOrder
    <3>3. /\ seen[t] <= filled[t] /\ old[t] <= filled[t] /\ found[t] <= filled[t]
          /\ counted[t] + ToCount(t) <= row[t].fill + Size
      BY DEF StopInv, Amounts
    <3> QED BY <3>1, <3>2, <3>3
  <2>2. /\ seen \in [Trades -> 0..Size] /\ filled \in [Trades -> 0..Size]
        /\ old \in [Trades -> 0..Size] /\ found \in [Trades -> 0..Size] /\ counted \in [Trades -> 0..2 * Size]
    BY <2>t, <2>1 DEF BookTypes
  <2>3. row \in [Trades -> [st : {"none", "pending", "unknown", "filled", "partially_filled", "failed", "cancelled", "closed"},
                            fill : 0..Size]]
    BY <2>t, <2>1 DEF BookTypes
  <2>4. Position >= 0
    <3>1. sold <= Total(filled, Trades) /\ Total(filled, Trades) \in Nat /\ sold \in Nat
      BY <2>t, BoughtSums DEF StopInv, SoldBought, AmountTypes
    <3> QED BY <3>1, PositionIs
  <2> QED BY <2>t, <2>2, <2>3, <2>4 DEF TypeOK, IntentTypes, BookTypes, AmountTypes
<1> QED BY StopsHold, <1>1, PTL
=============================================================================
