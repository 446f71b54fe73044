----------------------- MODULE OrderBookManagerProofs -----------------------
(***************************************************************************)
(* OrderBookManager.tla for every set of instruments, every history of     *)
(* their books on the exchange, and a pool of any size: types, the         *)
(* accounting of message objects, BookInSync, GapOncePerSnapshot and       *)
(* BboChangesExact.                                                        *)
(*                                                                         *)
(* The heart of BookInSync is DeltaAdvances: a delta that starts no later  *)
(* than one past the version a side has, and ends no earlier, brings it to *)
(* the delta's last version, because a price the delta does not name was   *)
(* not touched in between.  The inductive invariant adds to BookInSync the *)
(* types and MessagesAccounted: what is in the queue is a message that     *)
(* arrived, not a slot that was given back meanwhile.                      *)
(*                                                                         *)
(* BboChangesExact holds because a message names each price once: once an  *)
(* update has moved the top of a side, none of those behind it can bring   *)
(* the old top back (TopNeverReturns), so that asking after every update   *)
(* and asking in the end are the same.                                     *)
(***************************************************************************)
EXTENDS OrderBookManager, FiniteSetTheorems, WellFoundedInduction, TLAPS

LEMMA MaxBelow ==
  ASSUME NEW n \in Nat, NEW S \in SUBSET (1 .. n), S # {}
  PROVE  Max(S) \in S
<1> DEFINE T == {j \in 0 .. n : n - j \in S}
<1>0. T # {}
  <2>1. PICK k \in S : TRUE
    OBVIOUS
  <2>2. n - k \in T
    BY <2>1
  <2> QED
    BY <2>2
<1>1. T \subseteq Nat /\ T # {}
  BY <1>0
<1>2. PICK x \in T : \A y \in T : ~ (<<y, x>> \in OpToRel(<, Nat))
  BY <1>1, NatLessThanWellFounded, WFMin
<1>3. \A y \in T : ~ (y < x)
  BY <1>1, <1>2 DEF OpToRel
<1>4. n - x \in S
  BY DEF T
<1>5. \A j \in S : n - x >= j
  <2> TAKE j \in S
  <2>1. n - j \in T
    OBVIOUS
  <2> QED
    BY <1>1, <1>3, <2>1
<1> QED
  BY <1>4, <1>5 DEF Max

-----------------------------------------------------------------------------
(* Lists of levels.                                                        *)

Levels == [price : Prices, quantity : Quantities \cup {0}]

LEMMA QuantityNatural ==
  ASSUME NEW q \in Quantities \cup {0}
  PROVE  q \in Nat
  BY QuantitiesAssumption

\* A listing names each of its prices, and no other, with the quantity the side
\* has there.
LEMMA ListingComplete ==
  ASSUME NEW side \in Sides, NEW prices \in SUBSET Prices,
         NEW l \in Listings(side, prices)
  PROVE  /\ l \in Seq(Levels)
         /\ \A k \in DOMAIN l : /\ l[k].price \in prices
                               /\ l[k].quantity = side[l[k].price]
         /\ \A p \in prices : \E k \in DOMAIN l : l[k].price = p
<1>1. PICK o \in Orders(prices) :
         l = [k \in DOMAIN o |-> [price |-> o[k], quantity |-> side[o[k]]]]
  BY DEF Listings
<1>2. Cardinality(prices) \in Nat
  BY FS_Subset, FS_CardinalityType, PricesAssumption
<1>3. /\ o \in [1 .. Cardinality(prices) -> prices]
      /\ \A x \in prices : \E k \in DOMAIN o : o[k] = x
  BY <1>1 DEF Orders
<1>4. \A k \in DOMAIN o : /\ l[k] = [price |-> o[k], quantity |-> side[o[k]]]
                         /\ o[k] \in prices
                         /\ l[k] \in Levels
  BY <1>1, <1>3 DEF Levels, Sides
<1>5. DOMAIN l = 1 .. Cardinality(prices) /\ DOMAIN o = DOMAIN l
  BY <1>1, <1>3
<1>6. l \in [1 .. Cardinality(prices) -> Levels]
  BY <1>1, <1>3, <1>4
<1>7. l \in Seq(Levels)
  BY <1>2, <1>6
<1>8. \A k \in DOMAIN l : l[k].price \in prices /\ l[k].quantity = side[l[k].price]
  BY <1>4, <1>5
<1>9. \A p \in prices : \E k \in DOMAIN l : l[k].price = p
  BY <1>3, <1>4, <1>5
<1> QED
  BY <1>7, <1>8, <1>9

\* The last entry a list has for a price exists as soon as there is one.
LEMMA LastEntry ==
  ASSUME NEW l \in Seq(Levels), NEW S \in SUBSET DOMAIN l, S # {}
  PROVE  Max(S) \in S
<1>1. Len(l) \in Nat /\ S \in SUBSET (1 .. Len(l))
  OBVIOUS
<1> QED
  BY <1>1, MaxBelow

LEMMA UpdatedType ==
  ASSUME NEW side \in Sides, NEW l \in Seq(Levels)
  PROVE  Updated(side, l) \in Sides
<1> SUFFICES ASSUME NEW p \in Prices
             PROVE  Updated(side, l)[p] \in Quantities \cup {0}
  BY DEF Updated, Sides
<1> DEFINE S == {i \in DOMAIN l : l[i].price = p}
<1>1. S # {} => Max(S) \in DOMAIN l
  BY LastEntry
<1>2. \A k \in DOMAIN l : l[k].quantity \in Quantities \cup {0}
  <2>1. \A k \in DOMAIN l : l[k] \in Levels
    OBVIOUS
  <2> QED
    BY <2>1 DEF Levels
<1>3. Updated(side, l)[p] = IF S = {} THEN side[p] ELSE l[Max(S)].quantity
  BY DEF Updated
<1> QED
  BY <1>1, <1>2, <1>3 DEF Sides

LEMMA FromLevelsType ==
  ASSUME NEW l \in Seq(Levels)
  PROVE  FromLevels(l) \in Sides
<1> SUFFICES ASSUME NEW p \in Prices
             PROVE  FromLevels(l)[p] \in Quantities \cup {0}
  BY DEF FromLevels, WithLevels, EmptySide, Sides
<1> DEFINE S == {i \in DOMAIN l : l[i].price = p /\ l[i].quantity > 0}
<1>1. S # {} => Max(S) \in DOMAIN l
  BY LastEntry
<1>2. \A k \in DOMAIN l : l[k].quantity \in Quantities \cup {0}
  <2>1. \A k \in DOMAIN l : l[k] \in Levels
    OBVIOUS
  <2> QED
    BY <2>1 DEF Levels
<1>3. FromLevels(l)[p] = IF S = {} THEN 0 ELSE l[Max(S)].quantity
  BY DEF FromLevels, WithLevels, EmptySide
<1> QED
  BY <1>1, <1>2, <1>3

\* A snapshot that lists all levels of a side rebuilds that side.
LEMMA SnapshotRestores ==
  ASSUME NEW side \in Sides, NEW l \in Listings(side, LevelsOf(side))
  PROVE  FromLevels(l) = side
<1>1. LevelsOf(side) \in SUBSET Prices
  BY DEF LevelsOf
<1>2. /\ l \in Seq(Levels)
      /\ \A k \in DOMAIN l : /\ l[k].price \in LevelsOf(side)
                            /\ l[k].quantity = side[l[k].price]
      /\ \A p \in LevelsOf(side) : \E k \in DOMAIN l : l[k].price = p
  BY <1>1, ListingComplete
<1> SUFFICES ASSUME NEW p \in Prices
             PROVE  FromLevels(l)[p] = side[p]
  BY DEF FromLevels, WithLevels, EmptySide, Sides
<1> DEFINE S == {i \in DOMAIN l : l[i].price = p /\ l[i].quantity > 0}
<1>3. FromLevels(l)[p] = IF S = {} THEN 0 ELSE l[Max(S)].quantity
  BY DEF FromLevels, WithLevels, EmptySide
<1>4. side[p] \in Nat
  <2>1. side[p] \in Quantities \cup {0}
    BY DEF Sides
  <2> QED
    BY <2>1, QuantityNatural
<1>5. CASE S = {}
  <2>1. p \notin LevelsOf(side)
    BY <1>2, <1>5 DEF LevelsOf
  <2> QED
    BY <1>3, <1>4, <1>5, <2>1 DEF LevelsOf
<1>6. CASE S # {}
  <2>1. Max(S) \in S
    BY <1>2, <1>6, LastEntry
  <2> QED
    BY <1>2, <1>3, <1>6, <2>1
<1> QED
  BY <1>5, <1>6

-----------------------------------------------------------------------------
(* The exchange.                                                           *)

LEMMA ExchangeSideType ==
  ASSUME NEW i \in Instruments, NEW side \in {"BUY", "SELL"}, NEW v \in Versions(i)
  PROVE  ExchangeSide(i, side, v) \in Sides
<1> DEFINE Change == [side : {"BUY", "SELL"}, price : Prices, quantity : Quantities \cup {0}]
<1>0. History[i] \in Seq(Change)
  BY HistoryAssumption
<1>1. v \in Nat /\ \A k \in 1 .. v : History[i][k] \in Change
  <2> HIDE DEF Change
  <2> QED
    BY <1>0 DEF Versions
<1>2. \A k \in 1 .. v : History[i][k].quantity \in Quantities \cup {0}
  BY <1>1
<1> SUFFICES ASSUME NEW p \in Prices
             PROVE  ExchangeSide(i, side, v)[p] \in Quantities \cup {0}
  BY DEF ExchangeSide, Sides
<1> DEFINE S == ChangesOf(i, side, p, 1, v)
<1>3. S \in SUBSET (1 .. v)
  BY DEF ChangesOf
<1>4. S # {} => Max(S) \in 1 .. v
  BY <1>1, <1>3, MaxBelow
<1>5. ExchangeSide(i, side, v)[p] = IF S = {} THEN 0 ELSE History[i][Max(S)].quantity
  BY DEF ExchangeSide
<1> QED
  BY <1>2, <1>4, <1>5

\* A delta without a gap before it brings a side from the version it has to the
\* delta's last one, even if it repeats changes the side already has.
LEMMA DeltaAdvances ==
  ASSUME NEW i \in Instruments, NEW side \in {"BUY", "SELL"},
         NEW u \in Versions(i), NEW first \in 1 .. Len(History[i]),
         NEW last \in 1 .. Len(History[i]), first <= u + 1, u <= last,
         NEW l \in Listings(ExchangeSide(i, side, last), Touched(i, side, first, last))
  PROVE  Updated(ExchangeSide(i, side, u), l) = ExchangeSide(i, side, last)
<1> DEFINE old == ExchangeSide(i, side, u)
           new == ExchangeSide(i, side, last)
           touched == Touched(i, side, first, last)
<1>1. Len(History[i]) \in Nat
  BY HistoryAssumption
<1>2. u \in Nat /\ last \in Versions(i)
  BY <1>1 DEF Versions
<1>3. old \in Sides /\ new \in Sides
  BY <1>2, ExchangeSideType
<1>4. touched \in SUBSET Prices
  BY DEF Touched
<1>5. /\ l \in Seq(Levels)
      /\ \A k \in DOMAIN l : l[k].price \in touched /\ l[k].quantity = new[l[k].price]
      /\ \A p \in touched : \E k \in DOMAIN l : l[k].price = p
  BY <1>3, <1>4, ListingComplete
<1>6. ASSUME NEW p \in Prices
      PROVE  Updated(old, l)[p] = new[p]
  <2> DEFINE S == {k \in DOMAIN l : l[k].price = p}
  <2>1. Updated(old, l)[p] = IF S = {} THEN old[p] ELSE l[Max(S)].quantity
    BY DEF Updated
  <2>2. CASE p \in touched
    <3>1. S # {}
      BY <1>5, <2>2
    <3>2. Max(S) \in S
      BY <1>5, <3>1, LastEntry
    <3> QED
      BY <1>5, <2>1, <3>1, <3>2
  <2>3. CASE p \notin touched
    <3>1. S = {}
      BY <1>5, <2>3
    <3>2. ChangesOf(i, side, p, first, last) = {}
      BY <2>3 DEF Touched
    <3>3. ChangesOf(i, side, p, 1, u) = ChangesOf(i, side, p, 1, last)
      BY <1>2, <3>2 DEF ChangesOf
    <3>4. old[p] = new[p]
      BY <3>3 DEF ExchangeSide
    <3> QED
      BY <2>1, <3>1, <3>4
  <2> QED
    BY <2>2, <2>3
<1>7. Updated(old, l) \in Sides
  BY <1>3, <1>5, UpdatedType
<1> QED
  BY <1>3, <1>6, <1>7 DEF Sides

\* What a message of the queue is, by its type.
LEMMA MessageKinds ==
  ASSUME NEW m \in Messages, m.instrument \in Instruments
  PROVE  /\ m.type = "SNAPSHOT" =>
               /\ m.last_update_id \in Versions(m.instrument)
               /\ m \in SnapshotsAt(m.instrument, m.last_update_id)
         /\ m.type = "DELTA" =>
               /\ m.first_update_id \in 1 .. Len(History[m.instrument])
               /\ m.last_update_id \in 1 .. Len(History[m.instrument])
               /\ m.first_update_id <= m.last_update_id
               /\ m \in DeltasOver(m.instrument, m.first_update_id, m.last_update_id)
<1>1. CASE \E i \in Instruments : \E v \in Versions(i) : m \in SnapshotsAt(i, v)
  <2>1. PICK i \in Instruments : \E v \in Versions(i) : m \in SnapshotsAt(i, v)
    BY <1>1
  <2>2. PICK v \in Versions(i) : m \in SnapshotsAt(i, v)
    BY <2>1
  <2>3. m.type = "SNAPSHOT" /\ m.instrument = i /\ m.last_update_id = v
    BY <2>2 DEF SnapshotsAt
  <2> QED
    BY <2>2, <2>3
<1>2. CASE \E i \in Instruments : \E first, last \in 1 .. Len(History[i]) :
              first <= last /\ m \in DeltasOver(i, first, last)
  <2>1. PICK i \in Instruments : \E first, last \in 1 .. Len(History[i]) :
              first <= last /\ m \in DeltasOver(i, first, last)
    BY <1>2
  <2>2. PICK first \in 1 .. Len(History[i]), last \in 1 .. Len(History[i]) :
              first <= last /\ m \in DeltasOver(i, first, last)
    BY <2>1
  <2>3. /\ m.type = "DELTA" /\ m.instrument = i
        /\ m.first_update_id = first /\ m.last_update_id = last
    BY <2>2 DEF DeltasOver
  <2> QED
    BY <2>2, <2>3
<1>3. CASE m \in OtherMessages \cup StrangeMessages
  BY <1>3 DEF OtherMessages, StrangeMessages
<1>4. ASSUME m \in SnapshotMessages
      PROVE  \E i \in Instruments : \E v \in Versions(i) : m \in SnapshotsAt(i, v)
  BY <1>4 DEF SnapshotMessages
<1>5. ASSUME m \in DeltaMessages
      PROVE  \E i \in Instruments : \E first, last \in 1 .. Len(History[i]) :
                first <= last /\ m \in DeltasOver(i, first, last)
  <2>1. PICK i \in Instruments :
           m \in UNION {DeltasOver(i, s[1], s[2]) : s \in Spans(i)}
    BY <1>5 DEF DeltaMessages
  <2>2. PICK s \in Spans(i) : m \in DeltasOver(i, s[1], s[2])
    BY <2>1
  <2> QED
    BY <2>2 DEF Spans
<1> QED
  BY <1>1, <1>2, <1>3, <1>4, <1>5 DEF Messages

-----------------------------------------------------------------------------
(* Messages.                                                               *)

QueueType ==
    /\ queue \in Seq(Slots \cup {Null})
    /\ message \in [Slots -> Messages \cup {NoMessage}]
    /\ free \subseteq Slots

LEMMA QueueInitial == Init => QueueType /\ MessagesAccounted
<1> SUFFICES ASSUME Init
             PROVE  QueueType /\ MessagesAccounted
  OBVIOUS
<1> USE DEF Init
<1>1. QueueType
  BY DEF QueueType
<1>2. MessagesAccounted
  BY DEF MessagesAccounted
<1> QED
  BY <1>1, <1>2

LEMMA ArriveAccounted ==
  ASSUME QueueType, MessagesAccounted, NEW slot \in free, NEW m \in Messages, Arrive(slot, m)
  PROVE  QueueType' /\ MessagesAccounted'
<1> USE DEF QueueType
<1>1. /\ slot \in Slots /\ slot # Null
      /\ free' = free \ {slot}
      /\ message' = [message EXCEPT ![slot] = m]
      /\ queue' = Append(queue, slot)
  BY PoolAssumption DEF Arrive
<1>2. QueueType'
  BY <1>1
<1>3. /\ DOMAIN queue' = (DOMAIN queue) \cup {Len(queue) + 1}
      /\ \A k \in DOMAIN queue : queue'[k] = queue[k]
      /\ queue'[Len(queue) + 1] = slot
      /\ Len(queue) + 1 \notin DOMAIN queue
  BY <1>1
<1>4. \A k \in DOMAIN queue : queue[k] # slot
  BY <1>1 DEF MessagesAccounted
<1>5. \A k \in DOMAIN queue' : queue'[k] # Null => queue'[k] \notin free'
  BY <1>1, <1>3, <1>4 DEF MessagesAccounted
<1>6. \A j, k \in DOMAIN queue' : queue'[j] = queue'[k] /\ j # k => queue'[k] = Null
  BY <1>3, <1>4 DEF MessagesAccounted
<1>7. \A s \in Slots \ free' : \E k \in DOMAIN queue' : queue'[k] = s
  BY <1>1, <1>3 DEF MessagesAccounted
<1>8. \A s \in Slots : message'[s] = NoMessage <=> s \in free'
  BY <1>1, NoMessageAssumption DEF MessagesAccounted
<1> QED
  BY <1>2, <1>5, <1>6, <1>7, <1>8 DEF MessagesAccounted

LEMMA ArriveNullAccounted ==
  ASSUME QueueType, MessagesAccounted, ArriveNull
  PROVE  QueueType' /\ MessagesAccounted'
<1> USE DEF QueueType
<1>1. free' = free /\ message' = message /\ queue' = Append(queue, Null)
  BY DEF ArriveNull
<1>2. QueueType'
  BY <1>1
<1>3. /\ DOMAIN queue' = (DOMAIN queue) \cup {Len(queue) + 1}
      /\ \A k \in DOMAIN queue : queue'[k] = queue[k]
      /\ queue'[Len(queue) + 1] = Null
  BY <1>1
<1>4. \A j, k \in DOMAIN queue' : queue'[j] = queue'[k] /\ j # k => queue'[k] = Null
  BY <1>3 DEF MessagesAccounted
<1>5. \A s \in Slots \ free' : \E k \in DOMAIN queue' : queue'[k] = s
  BY <1>1, <1>3 DEF MessagesAccounted
<1> QED
  BY <1>1, <1>2, <1>3, <1>4, <1>5 DEF MessagesAccounted

\* The queue without its head.
LEMMA TailFacts ==
  ASSUME QueueType, Take
  PROVE  /\ queue' \in Seq(Slots \cup {Null})
         /\ 1 \in DOMAIN queue /\ Slot = queue[1] /\ Slot \in Slots \cup {Null}
         /\ \A k \in DOMAIN queue' : k + 1 \in DOMAIN queue /\ k + 1 # 1
                                    /\ queue'[k] = queue[k + 1]
         /\ \A k \in DOMAIN queue : k # 1 => k - 1 \in DOMAIN queue' /\ queue'[k - 1] = queue[k]
         /\ DOMAIN queue' \subseteq Nat
<1>1. queue \in Seq(Slots \cup {Null}) /\ queue # <<>> /\ queue' = Tail(queue)
  BY DEF QueueType, Take
<1>2. Slot = queue[1] /\ 1 \in DOMAIN queue
  BY <1>1 DEF Slot
<1>3. queue' \in Seq(Slots \cup {Null}) /\ Len(queue') = Len(queue) - 1
  BY <1>1
<1>4. \A k \in 1 .. Len(queue) - 1 : queue'[k] = queue[k + 1]
  BY <1>1
<1> QED
  BY <1>1, <1>2, <1>3, <1>4

LEMMA ReturnAccounted ==
  ASSUME QueueType, MessagesAccounted, Take, Slot # Null, Deallocate
  PROVE  QueueType' /\ MessagesAccounted'
<1>1. /\ Slot \in Slots
      /\ free' = free \cup {Slot}
      /\ message' = [message EXCEPT ![Slot] = NoMessage]
  BY TailFacts DEF Deallocate
<1>2. QueueType'
  BY <1>1, TailFacts DEF QueueType
<1>3. \A k \in DOMAIN queue : queue[k] = Slot => k = 1
  BY <1>1, TailFacts DEF MessagesAccounted
<1>4. \A k \in DOMAIN queue' : queue'[k] # Null => queue'[k] \notin free'
  BY <1>1, <1>3, TailFacts DEF MessagesAccounted
<1>5. \A j, k \in DOMAIN queue' : queue'[j] = queue'[k] /\ j # k => queue'[k] = Null
  <2> TAKE j, k \in DOMAIN queue'
  <2>1. /\ j \in Nat /\ k \in Nat
        /\ j + 1 \in DOMAIN queue /\ k + 1 \in DOMAIN queue
        /\ queue'[j] = queue[j + 1] /\ queue'[k] = queue[k + 1]
    BY TailFacts
  <2>2. j # k => j + 1 # k + 1
    BY <2>1
  <2>3. \A a, b \in DOMAIN queue : queue[a] = queue[b] /\ a # b => queue[b] = Null
    BY DEF MessagesAccounted
  <2>4. queue[j + 1] = queue[k + 1] /\ j + 1 # k + 1 => queue[k + 1] = Null
    BY <2>1, <2>3
  <2> QED
    BY <2>1, <2>2, <2>4
<1>6. \A s \in Slots \ free' : \E k \in DOMAIN queue' : queue'[k] = s
  <2> TAKE s \in Slots \ free'
  <2>1. PICK k \in DOMAIN queue : queue[k] = s
    BY <1>1 DEF MessagesAccounted
  <2>2. k # 1
    BY <1>1, <2>1, TailFacts
  <2> QED
    BY <2>1, <2>2, TailFacts
<1>7. \A s \in Slots : message'[s] = NoMessage <=> s \in free'
  BY <1>1 DEF MessagesAccounted, QueueType
<1> QED
  BY <1>2, <1>4, <1>5, <1>6, <1>7 DEF MessagesAccounted

LEMMA NullAccounted ==
  ASSUME QueueType, MessagesAccounted, NullMessage
  PROVE  QueueType' /\ MessagesAccounted'
<1>1. Take /\ Slot = Null /\ free' = free /\ message' = message
  BY DEF NullMessage
<1>2. QueueType'
  BY <1>1, TailFacts DEF QueueType
<1>3. \A k \in DOMAIN queue' : queue'[k] # Null => queue'[k] \notin free'
  BY <1>1, TailFacts DEF MessagesAccounted
<1>4. \A j, k \in DOMAIN queue' : queue'[j] = queue'[k] /\ j # k => queue'[k] = Null
  <2> TAKE j, k \in DOMAIN queue'
  <2>1. /\ j \in Nat /\ k \in Nat
        /\ j + 1 \in DOMAIN queue /\ k + 1 \in DOMAIN queue
        /\ queue'[j] = queue[j + 1] /\ queue'[k] = queue[k + 1]
    BY <1>1, TailFacts
  <2>2. j # k => j + 1 # k + 1
    BY <2>1
  <2>3. \A a, b \in DOMAIN queue : queue[a] = queue[b] /\ a # b => queue[b] = Null
    BY DEF MessagesAccounted
  <2>4. queue[j + 1] = queue[k + 1] /\ j + 1 # k + 1 => queue[k + 1] = Null
    BY <2>1, <2>3
  <2> QED
    BY <2>1, <2>2, <2>4
<1>5. \A s \in Slots \ free' : \E k \in DOMAIN queue' : queue'[k] = s
  <2> TAKE s \in Slots \ free'
  <2>1. PICK k \in DOMAIN queue : queue[k] = s
    BY <1>1 DEF MessagesAccounted
  <2>2. k # 1
    BY <1>1, <2>1, TailFacts, PoolAssumption
  <2> QED
    BY <1>1, <2>1, <2>2, TailFacts
<1> QED
  BY <1>1, <1>2, <1>3, <1>4, <1>5 DEF MessagesAccounted

LEMMA QueueStep == QueueType /\ MessagesAccounted /\ [Next]_vars => QueueType' /\ MessagesAccounted'
<1> SUFFICES ASSUME QueueType, MessagesAccounted, [Next]_vars
             PROVE  QueueType' /\ MessagesAccounted'
  OBVIOUS
<1>1. CASE \E slot \in free, m \in Messages : Arrive(slot, m)
  BY <1>1, ArriveAccounted
<1>2. CASE ArriveNull
  BY <1>2, ArriveNullAccounted
<1>3. CASE NullMessage
  BY <1>3, NullAccounted
<1>4. CASE Take /\ Slot # Null /\ Deallocate
  BY <1>4, ReturnAccounted
<1>5. CASE UNCHANGED queueVars
  BY <1>5 DEF queueVars, QueueType, MessagesAccounted
<1>6. OrderBookThread => \/ NullMessage
                         \/ Take /\ Slot # Null /\ Deallocate
                         \/ UNCHANGED queueVars
  BY DEF OrderBookThread, StartRun, LoopTest, ProcessOne, QueueEmpty, UnknownInstrument,
         ApplySnapshot, DropAwaiting, DropGap, SkipOld, ApplyDelta, Trade, OtherType, Route
<1> QED
  BY <1>1, <1>2, <1>3, <1>4, <1>5, <1>6 DEF Next, Stop, vars

\* No message object is leaked, and none is handed back twice or while queued.
THEOREM EveryMessageAccounted == Spec => []MessagesAccounted
<1> QED
  BY QueueInitial, QueueStep, PTL DEF Spec

-----------------------------------------------------------------------------
(* Books.                                                                  *)

BookType ==
    /\ arrived \in Nat
    /\ bids \in [Instruments -> Sides] /\ asks \in [Instruments -> Sides]
    /\ last_update_id \in [Instruments -> Nat]
    /\ \A i \in Instruments : last_update_id[i] \in Versions(i)
    /\ gaps_detected \in [Instruments -> Nat]
    /\ awaiting_snapshot \in [Instruments -> BOOLEAN]
    /\ stats \in [Statistics -> Nat]
    /\ running \in BOOLEAN /\ stopped \in BOOLEAN
    /\ pc \in {"created", "test", "body", "returned"}

LEMMA EmptySideType == EmptySide \in Sides
  BY DEF EmptySide, Sides

LEMMA VersionZero ==
  ASSUME NEW i \in Instruments
  PROVE  /\ 0 \in Versions(i)
         /\ \A side : ExchangeSide(i, side, 0) = EmptySide
<1>1. Len(History[i]) \in Nat
  BY HistoryAssumption
<1>2. ASSUME NEW side
      PROVE  ExchangeSide(i, side, 0) = EmptySide
  <2>1. \A p \in Prices : ChangesOf(i, side, p, 1, 0) = {}
    BY DEF ChangesOf
  <2> QED
    BY <2>1 DEF ExchangeSide, EmptySide
<1> QED
  BY <1>1, <1>2 DEF Versions

LEMMA BookInitial == Init => BookType /\ BookInSync
<1> SUFFICES ASSUME Init
             PROVE  BookType /\ BookInSync
  OBVIOUS
<1>1. BookType
  BY EmptySideType, VersionZero DEF Init, BookType
<1>2. BookInSync
  BY VersionZero DEF Init, BookInSync
<1> QED
  BY <1>1, <1>2

LEMMA CountedType ==
  ASSUME stats \in [Statistics -> Nat], NEW S
  PROVE  Counted(S) \in [Statistics -> Nat]
  BY DEF Counted

\* The message that is handled is one that arrived.
LEMMA RoutedMessage ==
  ASSUME QueueType, MessagesAccounted, NEW t, Route(t)
  PROVE  Msg \in Messages /\ Msg.instrument \in Instruments /\ Msg.type = t
<1>1. Slot \in Slots /\ Slot \notin free
  BY TailFacts DEF Route, MessagesAccounted
<1>2. message[Slot] \in Messages
  BY <1>1 DEF QueueType, MessagesAccounted
<1> QED
  BY <1>2 DEF Route, Msg

\* A snapshot makes its book the exchange's at the snapshot's version.
LEMMA SnapshotStep ==
  ASSUME QueueType, MessagesAccounted, BookType, BookInSync, ApplySnapshot
  PROVE  BookType' /\ BookInSync'
<1> DEFINE i == Msg.instrument
           v == Msg.last_update_id
<1>1. Msg \in Messages /\ i \in Instruments /\ Msg.type = "SNAPSHOT"
  BY RoutedMessage DEF ApplySnapshot, Awaits
<1>2. v \in Versions(i) /\ Msg \in SnapshotsAt(i, v)
  BY <1>1, MessageKinds
<1>3. /\ Msg.bids \in Listings(ExchangeSide(i, "BUY", v), LevelsOf(ExchangeSide(i, "BUY", v)))
      /\ Msg.asks \in Listings(ExchangeSide(i, "SELL", v), LevelsOf(ExchangeSide(i, "SELL", v)))
  BY <1>2 DEF SnapshotsAt
<1>4. ExchangeSide(i, "BUY", v) \in Sides /\ ExchangeSide(i, "SELL", v) \in Sides
  BY <1>1, <1>2, ExchangeSideType
<1>5. /\ FromLevels(Msg.bids) = ExchangeSide(i, "BUY", v)
      /\ FromLevels(Msg.asks) = ExchangeSide(i, "SELL", v)
  BY <1>3, <1>4, SnapshotRestores
<1>6. v \in Nat
  BY <1>2 DEF Versions
<1>7. /\ bids' = [bids EXCEPT ![i] = ExchangeSide(i, "BUY", v)]
      /\ asks' = [asks EXCEPT ![i] = ExchangeSide(i, "SELL", v)]
      /\ last_update_id' = [last_update_id EXCEPT ![i] = v]
      /\ awaiting_snapshot' = [awaiting_snapshot EXCEPT ![i] = FALSE]
      /\ stats' \in [Statistics -> Nat]
      /\ UNCHANGED <<arrived, gaps_detected, running, stopped>>
      /\ pc' = "test"
  BY <1>5, CountedType DEF ApplySnapshot, Awaits, Route, Take, BookType
<1> HIDE DEF i, v
<1>8. BookType'
  <2>1. \A j \in Instruments : last_update_id'[j] \in Versions(j)
    BY <1>1, <1>2, <1>7 DEF BookType
  <2> QED
    BY <1>1, <1>4, <1>6, <1>7, <2>1 DEF BookType
<1>9. BookInSync'
  BY <1>1, <1>7 DEF BookType, BookInSync
<1> QED
  BY <1>8, <1>9

\* A delta that passes the checks advances its book to the delta's version.
LEMMA DeltaStep ==
  ASSUME QueueType, MessagesAccounted, BookType, BookInSync, ApplyDelta
  PROVE  BookType' /\ BookInSync'
<1> DEFINE i == Msg.instrument
           first == Msg.first_update_id
           last == Msg.last_update_id
           b == Updated(bids[i], Msg.bid_updates)
           a == Updated(asks[i], Msg.ask_updates)
<1>1. Msg \in Messages /\ i \in Instruments /\ Msg.type = "DELTA"
  BY RoutedMessage DEF ApplyDelta
<1>2. /\ first \in 1 .. Len(History[i]) /\ last \in 1 .. Len(History[i])
      /\ Msg \in DeltasOver(i, first, last)
  BY <1>1, MessageKinds
<1>3. /\ Msg.bid_updates \in
            Listings(ExchangeSide(i, "BUY", last), Touched(i, "BUY", first, last))
      /\ Msg.ask_updates \in
            Listings(ExchangeSide(i, "SELL", last), Touched(i, "SELL", first, last))
  BY <1>2 DEF DeltasOver
<1>4. last \in Nat /\ last \in Versions(i)
  <2>1. Len(History[i]) \in Nat
    BY <1>1, HistoryAssumption
  <2> QED
    BY <1>2, <2>1 DEF Versions
<1>5. ExchangeSide(i, "BUY", last) \in Sides /\ ExchangeSide(i, "SELL", last) \in Sides
  BY <1>1, <1>4, ExchangeSideType
<1>6. Msg.bid_updates \in Seq(Levels) /\ Msg.ask_updates \in Seq(Levels)
  <2>1. Touched(i, "BUY", first, last) \in SUBSET Prices
        /\ Touched(i, "SELL", first, last) \in SUBSET Prices
    BY DEF Touched
  <2> QED
    BY <1>3, <1>5, <2>1, ListingComplete
<1>7. b \in Sides /\ a \in Sides
  BY <1>1, <1>6, UpdatedType DEF BookType
<1>8. CheckSequence => /\ b = ExchangeSide(i, "BUY", last)
                       /\ a = ExchangeSide(i, "SELL", last)
  <2> SUFFICES ASSUME CheckSequence
               PROVE  /\ b = ExchangeSide(i, "BUY", last)
                      /\ a = ExchangeSide(i, "SELL", last)
    OBVIOUS
  <2> DEFINE u == last_update_id[i]
  <2>1. u \in Versions(i) /\ u \in Nat
    BY <1>1 DEF BookType
  <2>2. first <= u + 1 /\ u <= last
    <3>1. ~ (first > u + 1) /\ ~ (last <= u)
      BY DEF ApplyDelta, IsGap, IsOld
    <3>2. first \in Int /\ last \in Int /\ u \in Int
      BY <1>2, <1>4, <2>1
    <3> QED
      BY <3>1, <3>2
  <2>3. /\ bids[i] = ExchangeSide(i, "BUY", u)
        /\ asks[i] = ExchangeSide(i, "SELL", u)
    BY <1>1 DEF BookInSync
  <2> HIDE DEF i, first, last, u
  <2> QED
    BY <1>1, <1>2, <1>3, <2>1, <2>2, <2>3, DeltaAdvances
<1>9. /\ bids' = [bids EXCEPT ![i] = b]
      /\ asks' = [asks EXCEPT ![i] = a]
      /\ last_update_id' = [last_update_id EXCEPT ![i] = last]
      /\ stats' \in [Statistics -> Nat]
      /\ UNCHANGED <<arrived, awaiting_snapshot, gaps_detected, running, stopped>>
      /\ pc' = "test"
  BY CountedType DEF ApplyDelta, NewUpdateId, Route, Take, BookType
<1> HIDE DEF i, first, last, b, a
<1>10. BookType'
  <2>1. \A j \in Instruments : last_update_id'[j] \in Versions(j)
    BY <1>1, <1>4, <1>9 DEF BookType
  <2> QED
    BY <1>1, <1>4, <1>7, <1>9, <2>1 DEF BookType
<1>11. BookInSync'
  BY <1>1, <1>8, <1>9 DEF BookType, BookInSync
<1> QED
  BY <1>10, <1>11

LEMMA GapStep ==
  ASSUME QueueType, MessagesAccounted, BookType, BookInSync, DropGap
  PROVE  BookType' /\ BookInSync'
<1> DEFINE i == Msg.instrument
<1>1. i \in Instruments
  BY RoutedMessage DEF DropGap, Awaits
<1>2. /\ gaps_detected' = [gaps_detected EXCEPT ![i] = @ + 1]
      /\ awaiting_snapshot' = [awaiting_snapshot EXCEPT ![i] = TRUE]
      /\ stats' \in [Statistics -> Nat]
      /\ UNCHANGED <<arrived, bids, asks, last_update_id, running, stopped>>
      /\ pc' = "test"
  BY CountedType DEF DropGap, Awaits, Route, Take, BookType, bookVars
<1> HIDE DEF i
<1> QED
  BY <1>1, <1>2 DEF BookType, BookInSync

LEMMA BookStep ==
  QueueType /\ MessagesAccounted /\ BookType /\ BookInSync /\ [Next]_vars
      => BookType' /\ BookInSync'
<1> SUFFICES ASSUME QueueType, MessagesAccounted, BookType, BookInSync, [Next]_vars
             PROVE  BookType' /\ BookInSync'
  OBVIOUS
<1> DEFINE Unmoved == UNCHANGED <<bids, asks, last_update_id, gaps_detected, awaiting_snapshot>>
           Same == /\ Unmoved
                   /\ arrived' \in Nat /\ stats' \in [Statistics -> Nat]
                   /\ running' \in BOOLEAN /\ stopped' \in BOOLEAN
                   /\ pc' \in {"created", "test", "body", "returned"}
<1>1. CASE ApplySnapshot
  BY <1>1, SnapshotStep
<1>2. CASE ApplyDelta
  BY <1>2, DeltaStep
<1>3. CASE DropGap
  BY <1>3, GapStep
<1>4. CASE Same
  BY <1>4 DEF BookType, BookInSync
<1> USE DEF bookVars, sequenceVars
<1>5. CASE (\E slot \in free, m \in Messages : Arrive(slot, m)) \/ ArriveNull \/ Stop \/ StartRun
           \/ LoopTest \/ QueueEmpty \/ UNCHANGED vars
  <2>1. CASE \E slot \in free, m \in Messages : Arrive(slot, m)
    <3>1. UNCHANGED <<bookVars, sequenceVars, stats, running, stopped, pc>> /\ arrived' = arrived + 1
      BY <2>1 DEF Arrive
    <3> QED
      BY <3>1, <1>4 DEF BookType
  <2>2. CASE ArriveNull
    BY <2>2, <1>4 DEF ArriveNull, BookType
  <2>3. CASE Stop \/ StartRun \/ LoopTest \/ QueueEmpty
    BY <2>3, <1>4 DEF Stop, StartRun, LoopTest, QueueEmpty, BookType
  <2>4. CASE UNCHANGED vars
    BY <2>4, <1>4 DEF vars, BookType
  <2> QED
    BY <1>5, <2>1, <2>2, <2>3, <2>4
<1>6. CASE NullMessage \/ UnknownInstrument \/ DropAwaiting \/ SkipOld \/ Trade \/ OtherType
  <2>1. Unmoved
    BY <1>6 DEF NullMessage, UnknownInstrument, DropAwaiting, SkipOld, Trade, OtherType
  <2>2. pc' = "test" /\ UNCHANGED <<arrived, running, stopped>>
    BY <1>6 DEF NullMessage, UnknownInstrument, DropAwaiting, SkipOld, Trade, OtherType, Route, Take
  <2>3. stats' = stats \/ \E S : stats' = Counted(S)
    BY <1>6 DEF NullMessage, UnknownInstrument, DropAwaiting, SkipOld, Trade, OtherType
  <2>4. stats' \in [Statistics -> Nat]
    BY <2>3, CountedType DEF BookType
  <2> QED
    BY <1>4, <2>1, <2>2, <2>4 DEF BookType
<1> QED
  BY <1>1, <1>2, <1>3, <1>5, <1>6 DEF Next, OrderBookThread, ProcessOne

\* Every variable keeps its type; last_update_id is a version of the exchange.
THEOREM TypeCorrect == Spec => []TypeOK
<1>1. QueueType /\ BookType => TypeOK
  BY DEF QueueType, BookType, TypeOK
<1> QED
  BY <1>1, QueueInitial, QueueStep, BookInitial, BookStep, PTL DEF Spec

\* For every history of the exchange, every set of instruments and whatever is lost,
\* repeated or reordered before it reaches the manager: with sequence checking on, a
\* book is always the exchange's book as of last_update_id.
THEOREM BooksInSync == Spec => []BookInSync
  BY QueueInitial, QueueStep, BookInitial, BookStep, PTL DEF Spec

-----------------------------------------------------------------------------
(* Gaps.                                                                   *)

Healthy == {i \in Instruments : ~awaiting_snapshot[i]}

LEMMA HealthyFinite == IsFiniteSet(Healthy) /\ Cardinality(Healthy) \in Nat
<1>1. IsFiniteSet(Instruments) /\ Healthy \subseteq Instruments
  BY HistoryAssumption DEF Healthy
<1> QED
  BY <1>1, FS_Subset, FS_CardinalityType

LEMMA GapInitial == Init => GapOncePerSnapshot
<1> SUFFICES ASSUME Init
             PROVE  GapOncePerSnapshot
  OBVIOUS
<1>1. {i \in Instruments : ~awaiting_snapshot[i]} = {}
  BY DEF Init
<1>2. Cardinality({i \in Instruments : ~awaiting_snapshot[i]}) = 0
  BY <1>1, FS_EmptySet
<1>3. stats["sequence_gaps"] = 0 /\ stats["snapshots_applied"] = 0
  BY DEF Init, Statistics
<1> QED
  BY <1>2, <1>3 DEF GapOncePerSnapshot

\* A snapshot pays for at most one more healthy book, a gap costs one.
LEMMA GapPreserved ==
  QueueType /\ MessagesAccounted /\ BookType /\ GapOncePerSnapshot /\ [Next]_vars
      => GapOncePerSnapshot'
<1> SUFFICES ASSUME QueueType, MessagesAccounted, BookType, GapOncePerSnapshot, [Next]_vars
             PROVE  GapOncePerSnapshot'
  OBVIOUS
<1> DEFINE i == Msg.instrument
           gaps == stats["sequence_gaps"]
           snaps == stats["snapshots_applied"]
<1>1. gaps \in Nat /\ snaps \in Nat
  BY DEF BookType, Statistics
<1>2. IsFiniteSet(Healthy) /\ Cardinality(Healthy) \in Nat
  BY HealthyFinite
<1>3. gaps + Cardinality(Healthy) <= snaps
  BY DEF GapOncePerSnapshot, Healthy
<1>4. SUFFICES gaps' + Cardinality(Healthy') <= snaps'
  BY DEF GapOncePerSnapshot, Healthy
<1>5. CASE ApplySnapshot
  <2>1. i \in Instruments
    BY <1>5, RoutedMessage DEF ApplySnapshot, Awaits
  <2>2. Healthy' = Healthy \cup {i}
    BY <1>5, <2>1 DEF ApplySnapshot, Awaits, Healthy, BookType
  <2>3. Cardinality(Healthy') \in Nat /\ Cardinality(Healthy') <= Cardinality(Healthy) + 1
    <3>1. CASE i \in Healthy
      <4>1. Healthy' = Healthy
        BY <2>2, <3>1
      <4> HIDE DEF i
      <4> QED
        BY <1>2, <4>1
    <3>2. CASE i \notin Healthy
      <4>1. Cardinality(Healthy \cup {i}) = Cardinality(Healthy) + 1
        BY <1>2, <3>2, FS_AddElement
      <4> HIDE DEF i
      <4> QED
        BY <1>2, <2>2, <4>1
    <3> QED
      BY <3>1, <3>2
  <2>4. gaps' = gaps /\ snaps' = snaps + 1
    BY <1>1, <1>5 DEF ApplySnapshot, Awaits, Counted, Statistics
  <2> HIDE DEF gaps, snaps
  <2> QED
    BY <1>1, <1>2, <1>3, <2>3, <2>4
<1>6. CASE DropGap
  <2>1. i \in Healthy
    BY <1>6, RoutedMessage DEF DropGap, Awaits, Healthy
  <2>2. Healthy' = Healthy \ {i}
    BY <1>6, <2>1 DEF DropGap, Awaits, Healthy, BookType
  <2>3. Cardinality(Healthy') = Cardinality(Healthy) - 1
    BY <1>2, <2>1, <2>2, FS_RemoveElement
  <2>4. gaps' = gaps + 1 /\ snaps' = snaps
    BY <1>1, <1>6 DEF DropGap, Awaits, Counted, Statistics
  <2> HIDE DEF gaps, snaps
  <2> QED
    BY <1>1, <1>2, <1>3, <2>3, <2>4
<1>7. CASE awaiting_snapshot' = awaiting_snapshot /\ gaps' = gaps /\ snaps' = snaps
  BY <1>3, <1>7 DEF Healthy
<1>8. CASE NullMessage \/ UnknownInstrument \/ Trade \/ OtherType
  <2>1. awaiting_snapshot' = awaiting_snapshot
    BY <1>8 DEF NullMessage, UnknownInstrument, Trade, OtherType, sequenceVars
  <2>2. gaps' = gaps /\ snaps' = snaps
    BY <1>1, <1>8 DEF NullMessage, UnknownInstrument, Trade, OtherType, Counted, Statistics
  <2> QED
    BY <1>7, <2>1, <2>2
<1>9. CASE ApplyDelta
  <2>1. awaiting_snapshot' = awaiting_snapshot
    BY <1>9 DEF ApplyDelta
  <2>2. gaps' = gaps /\ snaps' = snaps
    BY <1>1, <1>9 DEF ApplyDelta, Counted, Statistics
  <2> QED
    BY <1>7, <2>1, <2>2
<1>10. CASE UNCHANGED <<sequenceVars, stats>>
  BY <1>7, <1>10 DEF sequenceVars
<1>11. CASE \E slot \in free, m \in Messages : Arrive(slot, m)
  BY <1>10, <1>11 DEF Arrive
<1>12. CASE \/ ArriveNull \/ StartRun \/ LoopTest \/ Stop \/ QueueEmpty
            \/ DropAwaiting \/ SkipOld \/ UNCHANGED vars
  BY <1>10, <1>12 DEF ArriveNull, StartRun, LoopTest, Stop, QueueEmpty, DropAwaiting,
                      SkipOld, vars
<1> QED
  BY <1>5, <1>6, <1>8, <1>9, <1>11, <1>12 DEF Next, OrderBookThread, ProcessOne

\* However many deltas arrive during an outage, it is counted as one gap: a book that
\* had a gap needs a snapshot before it can have the next.
THEOREM OneGapPerOutage == Spec => []GapOncePerSnapshot
  BY QueueInitial, QueueStep, BookInitial, BookStep, GapInitial, GapPreserved, PTL DEF Spec

-----------------------------------------------------------------------------
(* The top of a book.                                                      *)

\* Is price p at least as good as q?
AsGood(side, p, q) == IF side = "ask" THEN p <= q ELSE p >= q

\* The part of TopOfBook() that one side decides.
SideTop(side, s) ==
    LET best == IF side = "ask" THEN BestAsk(s) ELSE BestBid(s)
    IN  IF LevelsOf(s) = {} THEN <<0, 0>> ELSE <<best, s[best]>>

\* What makes it that.
IsSideTop(side, s, top) ==
    \/ LevelsOf(s) = {} /\ top = <<0, 0>>
    \/ /\ top[1] \in LevelsOf(s) /\ top = <<top[1], s[top[1]]>>
       /\ \A p \in LevelsOf(s) : AsGood(side, top[1], p)

\* A finite set of prices has a best one: one with the fewest better ones.
LEMMA BestExists ==
  ASSUME NEW S \in SUBSET Prices, S # {}, NEW side \in {"bid", "ask"}
  PROVE  \E p \in S : \A q \in S : AsGood(side, p, q)
<1> DEFINE Better(p) == {q \in S : ~AsGood(side, p, q)}
           Ranks == {Cardinality(Better(p)) : p \in S}
<1>1. \A p \in S : p \in Int
  BY PricesAssumption
<1>2. ASSUME NEW p \in S
      PROVE  IsFiniteSet(Better(p)) /\ Cardinality(Better(p)) \in Nat
  <2>1. Better(p) \in SUBSET Prices
    OBVIOUS
  <2> HIDE DEF Better
  <2> QED
    BY <2>1, FS_Subset, FS_CardinalityType, PricesAssumption
<1>3. Ranks \subseteq Nat /\ Ranks # {}
  <2> HIDE DEF Better
  <2> QED
    BY <1>2
<1>4. PICK r \in Ranks : \A x \in Ranks : ~(<<x, r>> \in OpToRel(<, Nat))
  <2> HIDE DEF Ranks
  <2> QED
    BY <1>3, NatLessThanWellFounded, WFMin
<1>5. PICK p \in S : r = Cardinality(Better(p))
  OBVIOUS
<1>6. \A q \in S : ~(Cardinality(Better(q)) < Cardinality(Better(p)))
  BY <1>2, <1>4, <1>5 DEF OpToRel
<1>7. ASSUME NEW q \in Better(p)
      PROVE  FALSE
  <2>1. q \in S /\ q \in Better(p) /\ q \notin Better(q) /\ Better(q) \subseteq Better(p)
    BY <1>1 DEF AsGood
  <2> HIDE DEF Better
  <2>2. Better(q) \subseteq Better(p) \ {q}
    BY <2>1
  <2>3. /\ IsFiniteSet(Better(p) \ {q})
        /\ Cardinality(Better(p) \ {q}) = Cardinality(Better(p)) - 1
    BY <1>2, <2>1, FS_RemoveElement
  <2>4. Cardinality(Better(q)) <= Cardinality(Better(p) \ {q})
    BY <2>2, <2>3, FS_Subset
  <2>5. Cardinality(Better(q)) \in Nat /\ Cardinality(Better(p)) \in Nat
    BY <1>2, <2>1
  <2> QED
    BY <1>6, <2>1, <2>3, <2>4, <2>5
<1> QED
  BY <1>7

LEMMA SideTopIs ==
  ASSUME NEW side \in {"bid", "ask"}, NEW s \in Sides
  PROVE  IsSideTop(side, s, SideTop(side, s))
<1>1. CASE LevelsOf(s) = {}
  BY <1>1 DEF SideTop, IsSideTop
<1>2. CASE LevelsOf(s) # {}
  <2> DEFINE best == IF side = "ask" THEN BestAsk(s) ELSE BestBid(s)
  <2>1. LevelsOf(s) \in SUBSET Prices
    BY DEF LevelsOf
  <2>2. best \in LevelsOf(s) /\ \A p \in LevelsOf(s) : AsGood(side, best, p)
    <3>1. PICK p \in LevelsOf(s) : \A q \in LevelsOf(s) : AsGood(side, p, q)
      BY <1>2, <2>1, BestExists
    <3>2. CASE side = "ask"
      BY <3>1, <3>2 DEF AsGood, BestAsk, Min
    <3>3. CASE side # "ask"
      BY <3>1, <3>3 DEF AsGood, BestBid, Max
    <3> QED
      BY <3>2, <3>3
  <2>3. SideTop(side, s) = <<best, s[best]>>
    BY <1>2 DEF SideTop
  <2> HIDE DEF best
  <2> QED
    BY <2>2, <2>3 DEF IsSideTop
<1> QED
  BY <1>1, <1>2

LEMMA SideTopUnique ==
  ASSUME NEW side \in {"bid", "ask"}, NEW s \in Sides, NEW top, IsSideTop(side, s, top)
  PROVE  SideTop(side, s) = top
<1> DEFINE other == SideTop(side, s)
<1>1. IsSideTop(side, s, other)
  BY SideTopIs
<1> HIDE DEF other
<1>2. \A p \in LevelsOf(s) : p \in Int
  BY PricesAssumption DEF LevelsOf
<1>3. CASE LevelsOf(s) = {}
  BY <1>1, <1>3 DEF IsSideTop, other
<1>4. CASE LevelsOf(s) # {}
  <2>1. /\ top[1] \in LevelsOf(s) /\ other[1] \in LevelsOf(s)
        /\ AsGood(side, top[1], other[1]) /\ AsGood(side, other[1], top[1])
        /\ top = <<top[1], s[top[1]]>> /\ other = <<other[1], s[other[1]]>>
    BY <1>1, <1>4 DEF IsSideTop
  <2>2. top[1] = other[1]
    BY <1>2, <2>1 DEF AsGood
  <2> QED
    BY <2>1, <2>2 DEF other
<1> QED
  BY <1>3, <1>4

-----------------------------------------------------------------------------
(* A list of updates, one at a time.                                       *)

DistinctPrices(l) == \A j, k \in DOMAIN l : l[j].price = l[k].price => j = k

\* A listing names no price twice.
LEMMA ListingDistinct ==
  ASSUME NEW side, NEW prices \in SUBSET Prices, NEW l \in Listings(side, prices)
  PROVE  DistinctPrices(l)
<1> DEFINE n == Cardinality(prices)
<1>1. PICK o \in Orders(prices) :
         l = [k \in DOMAIN o |-> [price |-> o[k], quantity |-> side[o[k]]]]
  BY DEF Listings
<1>2. n \in Nat
  BY FS_Subset, FS_CardinalityType, PricesAssumption
<1>3. o \in Surjection(1 .. n, prices) /\ DOMAIN o = 1 .. n
  BY <1>1 DEF Orders, Surjection
<1>4. IsFiniteSet(1 .. n) /\ Cardinality(1 .. n) = n
  <2> HIDE DEF n
  <2>1. IsFiniteSet(1 .. n) /\ Cardinality(1 .. n) = IF 1 > n THEN 0 ELSE n - 1 + 1
    BY <1>2, FS_Interval
  <2> QED
    BY <1>2, <2>1
<1>5. o \in Injection(1 .. n, prices)
  BY <1>3, <1>4, FS_SurjSameCardinalityImpliesInj
<1> QED
  BY <1>1, <1>3, <1>5 DEF DistinctPrices, Injection, IsInjective

After(s, l, k) == Updated(s, SubSeq(l, 1, k))

\* The k-th update changes the quantity at its price and no other.
LEMMA AfterOne ==
  ASSUME NEW s \in Sides, NEW l \in Seq(Levels), DistinctPrices(l), NEW k \in 1 .. Len(l)
  PROVE  /\ After(s, l, k)[l[k].price] = l[k].quantity
         /\ \A p \in Prices \ {l[k].price} : After(s, l, k)[p] = After(s, l, k - 1)[p]
<1> DEFINE Given(p, n) == {i \in DOMAIN SubSeq(l, 1, n) : SubSeq(l, 1, n)[i].price = p}
<1>0. Len(l) \in Nat /\ k \in Nat /\ k - 1 \in Nat
  OBVIOUS
<1>1. /\ DOMAIN SubSeq(l, 1, k) = 1 .. k /\ DOMAIN SubSeq(l, 1, k - 1) = 1 .. k - 1
      /\ \A i \in 1 .. k : SubSeq(l, 1, k)[i] = l[i]
      /\ \A i \in 1 .. k - 1 : SubSeq(l, 1, k - 1)[i] = l[i]
      /\ SubSeq(l, 1, k) \in Seq(Levels)
  BY <1>0
<1>2. \A p \in Prices, n \in {k, k - 1} :
        After(s, l, n)[p] = IF Given(p, n) = {} THEN s[p] ELSE SubSeq(l, 1, n)[Max(Given(p, n))].quantity
  BY DEF After, Updated
<1>3. l[k] \in Levels /\ l[k].price \in Prices
  <2>1. l[k] \in Levels
    OBVIOUS
  <2> QED
    BY <2>1 DEF Levels
<1>4. After(s, l, k)[l[k].price] = l[k].quantity
  <2>1. Given(l[k].price, k) = {k}
    BY <1>0, <1>1 DEF DistinctPrices
  <2> HIDE DEF Given
  <2>2. Max(Given(l[k].price, k)) = k
    BY <1>0, <2>1 DEF Max
  <2> QED
    <3>1. After(s, l, k)[l[k].price] =
            IF Given(l[k].price, k) = {} THEN s[l[k].price]
            ELSE SubSeq(l, 1, k)[Max(Given(l[k].price, k))].quantity
      BY <1>2, <1>3
    <3>2. SubSeq(l, 1, k)[k] = l[k]
      BY <1>0, <1>1
    <3> QED
      BY <2>1, <2>2, <3>1, <3>2
<1>5. ASSUME NEW p \in Prices \ {l[k].price}
      PROVE  After(s, l, k)[p] = After(s, l, k - 1)[p]
  <2>1. Given(p, k) = Given(p, k - 1)
    BY <1>0, <1>1
  <2>2. Given(p, k) # {} => Max(Given(p, k)) \in Given(p, k)
    <3>1. Given(p, k) \in SUBSET DOMAIN SubSeq(l, 1, k)
      OBVIOUS
    <3> HIDE DEF Given
    <3> QED
      BY <1>1, <3>1, LastEntry
  <2>3. \A i \in Given(p, k - 1) : SubSeq(l, 1, k)[i] = SubSeq(l, 1, k - 1)[i]
    BY <1>0, <1>1
  <2> HIDE DEF Given
  <2> QED
    BY <1>2, <2>1, <2>2, <2>3
<1> QED
  BY <1>4, <1>5

LEMMA AfterEnds ==
  ASSUME NEW s \in Sides, NEW l \in Seq(Levels)
  PROVE  /\ After(s, l, 0) = s /\ After(s, l, Len(l)) = Updated(s, l)
         /\ \A k \in 0 .. Len(l) : After(s, l, k) \in Sides
<1>1. After(s, l, 0) = s
  <2>1. DOMAIN SubSeq(l, 1, 0) = {}
    OBVIOUS
  <2>2. After(s, l, 0) = [p \in Prices |-> s[p]]
    BY <2>1 DEF After, Updated
  <2> QED
    BY <2>2 DEF Sides
<1>2. SubSeq(l, 1, Len(l)) = l
  OBVIOUS
<1>3. \A k \in 0 .. Len(l) : SubSeq(l, 1, k) \in Seq(Levels)
  OBVIOUS
<1> QED
  BY <1>1, <1>2, <1>3, UpdatedType DEF After

\* The quantity a list gives for a price is what it leaves there.
LEMMA UpdatedAt ==
  ASSUME NEW s \in Sides, NEW l \in Seq(Levels), DistinctPrices(l), NEW k \in 1 .. Len(l)
  PROVE  Updated(s, l)[l[k].price] = l[k].quantity
<1> DEFINE Given == {i \in DOMAIN l : l[i].price = l[k].price}
<1>1. Given = {k} /\ k \in Int
  BY DEF DistinctPrices
<1>2. l[k] \in Levels /\ l[k].price \in Prices
  <2>1. l[k] \in Levels
    OBVIOUS
  <2> QED
    BY <2>1 DEF Levels
<1>3. Updated(s, l)[l[k].price] = IF Given = {} THEN s[l[k].price] ELSE l[Max(Given)].quantity
  BY <1>2 DEF Updated
<1> HIDE DEF Given
<1>4. Max(Given) = k
  BY <1>1 DEF Max
<1> QED
  BY <1>1, <1>3, <1>4

\* A price that is updated once does not become the best of a side and cease to be, nor
\* the other way round: if the top is the same in the end, no update moved it.
LEMMA TopNeverReturns ==
  ASSUME NEW side \in {"bid", "ask"}, NEW s \in Sides, NEW l \in Seq(Levels), DistinctPrices(l),
         SideTop(side, Updated(s, l)) = SideTop(side, s), NEW k \in 1 .. Len(l),
         SideTop(side, After(s, l, k - 1)) = SideTop(side, s)
  PROVE  SideTop(side, After(s, l, k)) = SideTop(side, s)
<1> DEFINE top == SideTop(side, s)
           u == Updated(s, l)
           v == After(s, l, k - 1)
           w == After(s, l, k)
           p == l[k].price
<1>1. k \in Nat /\ k - 1 \in 0 .. Len(l) /\ k \in 0 .. Len(l)
  OBVIOUS
<1>2. u \in Sides /\ v \in Sides /\ w \in Sides
  BY <1>1, AfterEnds, UpdatedType
<1>3. w[p] = u[p] /\ \A r \in Prices \ {p} : w[r] = v[r]
  BY AfterOne, UpdatedAt
<1>4. IsSideTop(side, u, top) /\ IsSideTop(side, v, top)
  BY <1>2, SideTopIs
<1> HIDE DEF top, u, v, w, p
<1>5. \A r \in Prices : w[r] = u[r] \/ w[r] = v[r]
  BY <1>3
<1>6. IsSideTop(side, w, top)
  <2>1. CASE LevelsOf(u) = {} /\ LevelsOf(v) = {} /\ top = <<0, 0>>
    <3>1. LevelsOf(w) = {}
      BY <1>5, <2>1 DEF LevelsOf
    <3> QED
      BY <2>1, <3>1 DEF IsSideTop
  <2>2. CASE /\ top[1] \in LevelsOf(u) /\ top = <<top[1], u[top[1]]>>
             /\ \A r \in LevelsOf(u) : AsGood(side, top[1], r)
             /\ top[1] \in LevelsOf(v) /\ top = <<top[1], v[top[1]]>>
             /\ \A r \in LevelsOf(v) : AsGood(side, top[1], r)
    <3>1. top[1] \in Prices
      BY <2>2 DEF LevelsOf
    <3>2. top[1] \in LevelsOf(w) /\ top = <<top[1], w[top[1]]>>
      BY <1>5, <2>2, <3>1 DEF LevelsOf
    <3>3. \A r \in LevelsOf(w) : r \in LevelsOf(u) \/ r \in LevelsOf(v)
      BY <1>5 DEF LevelsOf
    <3> QED
      BY <2>2, <3>2, <3>3 DEF IsSideTop
  <2>3. top # <<0, 0>> \/ (LevelsOf(u) = {} /\ LevelsOf(v) = {} /\ top = <<0, 0>>)
    <3>1. \A r \in LevelsOf(u) : u[r] # 0
      BY <1>2, QuantityNatural DEF LevelsOf, Sides
    <3>2. \A r \in LevelsOf(v) : v[r] # 0
      BY <1>2, QuantityNatural DEF LevelsOf, Sides
    <3>3. /\ \/ LevelsOf(u) = {} /\ top = <<0, 0>>
             \/ top[1] \in LevelsOf(u) /\ top = <<top[1], u[top[1]]>>
          /\ \/ LevelsOf(v) = {} /\ top = <<0, 0>>
             \/ top[1] \in LevelsOf(v) /\ top = <<top[1], v[top[1]]>>
      BY <1>4 DEF IsSideTop
    <3>4. top = <<0, 0>> => top[2] = 0
      OBVIOUS
    <3>5. /\ top[1] \in LevelsOf(u) /\ top = <<top[1], u[top[1]]>> => top[2] # 0
          /\ top[1] \in LevelsOf(v) /\ top = <<top[1], v[top[1]]>> => top[2] # 0
      BY <3>1, <3>2
    <3> QED
      BY <3>3, <3>4, <3>5
  <2> QED
    BY <1>4, <2>1, <2>2, <2>3 DEF IsSideTop
<1> QED
  BY <1>2, <1>6, SideTopUnique DEF top, w

\* Does any update of the list move the top?  Exactly if the whole list does.
LEMMA MovedExactly ==
  ASSUME NEW side \in {"bid", "ask"}, NEW s \in Sides, NEW l \in Seq(Levels), DistinctPrices(l)
  PROVE  (\E k \in DOMAIN l : SideTop(side, After(s, l, k)) # SideTop(side, After(s, l, k - 1)))
           <=> SideTop(side, Updated(s, l)) # SideTop(side, s)
<1> DEFINE at(k) == SideTop(side, After(s, l, k))
           moved == {k \in 0 .. Len(l) : at(k) # at(0)}
<1>0. Len(l) \in Nat /\ DOMAIN l = 1 .. Len(l)
  OBVIOUS
<1>1. at(0) = SideTop(side, s) /\ at(Len(l)) = SideTop(side, Updated(s, l))
  BY AfterEnds
<1>2. ASSUME at(Len(l)) = at(0), NEW k \in 1 .. Len(l), at(k - 1) = at(0)
      PROVE  at(k) = at(0)
  <2>1. /\ SideTop(side, Updated(s, l)) = SideTop(side, s)
        /\ SideTop(side, After(s, l, k - 1)) = SideTop(side, s)
    BY <1>1, <1>2
  <2>2. SideTop(side, After(s, l, k)) = SideTop(side, s)
    BY <2>1, TopNeverReturns
  <2> QED
    BY <1>1, <2>2
<1> HIDE DEF at
<1>3. moved \subseteq Nat /\ 0 \notin moved
  BY <1>0
<1>4. ASSUME moved # {}
      PROVE  \E k \in 1 .. Len(l) : at(k) # at(0) /\ at(k - 1) = at(0)
  <2>1. PICK k \in moved : \A j \in moved : ~(<<j, k>> \in OpToRel(<, Nat))
    <3> HIDE DEF moved
    <3> QED
      BY <1>3, <1>4, NatLessThanWellFounded, WFMin
  <2>2. \A j \in moved : ~(j < k)
    BY <1>3, <2>1 DEF OpToRel
  <2>3. k \in 1 .. Len(l) /\ k - 1 \in 0 .. Len(l) /\ k - 1 < k
    BY <1>0, <1>3
  <2>4. k - 1 \notin moved
    BY <2>2, <2>3
  <2> QED
    BY <2>3, <2>4
<1>5. ASSUME at(Len(l)) # at(0)
      PROVE  \E k \in DOMAIN l : at(k) # at(k - 1)
  <2>1. Len(l) \in moved
    BY <1>0, <1>5
  <2> QED
    BY <1>0, <1>4, <2>1
<1>6. ASSUME at(Len(l)) = at(0), NEW k \in DOMAIN l
      PROVE  at(k) = at(k - 1)
  <2>1. moved = {}
    BY <1>2, <1>4, <1>6
  <2>2. k \in 0 .. Len(l) /\ k - 1 \in 0 .. Len(l)
    BY <1>0
  <2> QED
    BY <2>1, <2>2
<1>7. (\E k \in DOMAIN l : at(k) # at(k - 1)) <=> at(Len(l)) # at(0)
  BY <1>5, <1>6
<1> HIDE DEF moved
<1> QED
  BY <1>1, <1>7 DEF at

\* The two sides decide the top of the book.
LEMMA TopOfSides ==
  ASSUME NEW b, NEW a, NEW c, NEW d
  PROVE  TopOfBook(b, a) = TopOfBook(c, d) <=>
           SideTop("bid", b) = SideTop("bid", c) /\ SideTop("ask", a) = SideTop("ask", d)
<1> DEFINE Record(x, y) == [bid_price |-> x[1], bid_qty |-> x[2], ask_price |-> y[1], ask_qty |-> y[2]]
<1>1. \A x, y : TopOfBook(x, y) = Record(SideTop("bid", x), SideTop("ask", y))
  BY DEF TopOfBook, SideTop
<1>2. \A x, up : SideTop(up, x) = <<SideTop(up, x)[1], SideTop(up, x)[2]>>
  BY DEF SideTop
<1> DEFINE bt == SideTop("bid", b) ct == SideTop("bid", c)
           at == SideTop("ask", a)  dt == SideTop("ask", d)
<1>3. bt = <<bt[1], bt[2]>> /\ ct = <<ct[1], ct[2]>> /\ at = <<at[1], at[2]>> /\ dt = <<dt[1], dt[2]>>
  BY <1>2
<1>4. TopOfBook(b, a) = Record(bt, at) /\ TopOfBook(c, d) = Record(ct, dt)
  BY <1>1
<1> HIDE DEF bt, ct, at, dt
<1>5. Record(bt, at) = Record(ct, dt) <=>
        bt[1] = ct[1] /\ bt[2] = ct[2] /\ at[1] = dt[1] /\ at[2] = dt[2]
  OBVIOUS
<1>6. bt = ct /\ at = dt <=> Record(bt, at) = Record(ct, dt)
  BY <1>3, <1>5
<1> HIDE DEF Record
<1> QED
  BY <1>4, <1>6 DEF bt, ct, at, dt

\* bbo_changed after a delta is set exactly if the delta moved the top.
LEMMA TopMovedExactly ==
  ASSUME NEW b \in Sides, NEW a \in Sides, NEW m,
         m.bid_updates \in Seq(Levels), DistinctPrices(m.bid_updates),
         m.ask_updates \in Seq(Levels), DistinctPrices(m.ask_updates)
  PROVE  TopMoved(b, a, m) <=>
           TopOfBook(Updated(b, m.bid_updates), Updated(a, m.ask_updates)) # TopOfBook(b, a)
<1> DEFINE bu == m.bid_updates
           au == m.ask_updates
           c == Updated(b, bu)
           d == Updated(a, au)
<1>1. c \in Sides
  BY UpdatedType
<1>2. BidsMoved(b, a, bu) <=> SideTop("bid", c) # SideTop("bid", b)
  <2>1. BidsMoved(b, a, bu) <=>
          \E k \in DOMAIN bu : TopOfBook(After(b, bu, k), a) # TopOfBook(After(b, bu, k - 1), a)
    BY DEF BidsMoved, After
  <2>2. \A k : TopOfBook(After(b, bu, k), a) = TopOfBook(After(b, bu, k - 1), a)
                 <=> SideTop("bid", After(b, bu, k)) = SideTop("bid", After(b, bu, k - 1))
    BY TopOfSides
  <2> QED
    BY <2>1, <2>2, MovedExactly
<1>3. AsksMoved(c, a, au) <=> SideTop("ask", d) # SideTop("ask", a)
  <2>1. AsksMoved(c, a, au) <=>
          \E k \in DOMAIN au : TopOfBook(c, After(a, au, k)) # TopOfBook(c, After(a, au, k - 1))
    BY DEF AsksMoved, After
  <2>2. \A k : TopOfBook(c, After(a, au, k)) = TopOfBook(c, After(a, au, k - 1))
                 <=> SideTop("ask", After(a, au, k)) = SideTop("ask", After(a, au, k - 1))
    BY TopOfSides
  <2> QED
    BY <2>1, <2>2, MovedExactly
<1>4. TopOfBook(c, d) = TopOfBook(b, a) <=>
        SideTop("bid", c) = SideTop("bid", b) /\ SideTop("ask", d) = SideTop("ask", a)
  BY TopOfSides
<1> QED
  BY <1>2, <1>3, <1>4 DEF TopMoved

\* The two lists of a delta in the queue are lists of levels that name no price twice.
LEMMA DeltaLists ==
  ASSUME QueueType, MessagesAccounted, ApplyDelta
  PROVE  /\ Msg.instrument \in Instruments
         /\ Msg.bid_updates \in Seq(Levels) /\ DistinctPrices(Msg.bid_updates)
         /\ Msg.ask_updates \in Seq(Levels) /\ DistinctPrices(Msg.ask_updates)
<1> DEFINE i == Msg.instrument
           first == Msg.first_update_id
           last == Msg.last_update_id
<1>1. Msg \in Messages /\ i \in Instruments /\ Msg.type = "DELTA"
  BY RoutedMessage DEF ApplyDelta
<1>2. /\ first \in 1 .. Len(History[i]) /\ last \in 1 .. Len(History[i])
      /\ Msg \in DeltasOver(i, first, last)
  BY <1>1, MessageKinds
<1>3. /\ Msg.bid_updates \in
            Listings(ExchangeSide(i, "BUY", last), Touched(i, "BUY", first, last))
      /\ Msg.ask_updates \in
            Listings(ExchangeSide(i, "SELL", last), Touched(i, "SELL", first, last))
  BY <1>2 DEF DeltasOver
<1>4. last \in Versions(i)
  <2>1. Len(History[i]) \in Nat
    BY <1>1, HistoryAssumption
  <2> QED
    BY <1>2, <2>1 DEF Versions
<1>5. /\ ExchangeSide(i, "BUY", last) \in Sides /\ ExchangeSide(i, "SELL", last) \in Sides
      /\ Touched(i, "BUY", first, last) \in SUBSET Prices
      /\ Touched(i, "SELL", first, last) \in SUBSET Prices
  BY <1>1, <1>4, ExchangeSideType DEF Touched
<1> HIDE DEF i, first, last
<1>6. Msg.bid_updates \in Seq(Levels) /\ Msg.ask_updates \in Seq(Levels)
  BY <1>3, <1>5, ListingComplete
<1>7. DistinctPrices(Msg.bid_updates) /\ DistinctPrices(Msg.ask_updates)
  BY <1>3, <1>5, ListingDistinct
<1> QED
  BY <1>1, <1>6, <1>7 DEF i

BboStep ==
    stats'["bbo_changes"] # stats["bbo_changes"] <=>
      \/ \E i \in Instruments : Top(i)' # Top(i)
      \/ stats'["snapshots_applied"] # stats["snapshots_applied"]

LEMMA BboDelta ==
  ASSUME QueueType, MessagesAccounted, BookType, ApplyDelta
  PROVE  BboStep
<1> DEFINE i == Msg.instrument
           b == Updated(bids[i], Msg.bid_updates)
           a == Updated(asks[i], Msg.ask_updates)
<1>1. i \in Instruments /\ bids[i] \in Sides /\ asks[i] \in Sides
  BY DeltaLists DEF BookType
<1>2. /\ bids' = [bids EXCEPT ![i] = b] /\ asks' = [asks EXCEPT ![i] = a]
      /\ stats' = Counted({"deltas_applied", "messages_processed"}
                           \cup (IF TopMoved(bids[i], asks[i], Msg) THEN {"bbo_changes"} ELSE {}))
  BY DEF ApplyDelta
<1>3. TopMoved(bids[i], asks[i], Msg) <=> TopOfBook(b, a) # TopOfBook(bids[i], asks[i])
  BY <1>1, DeltaLists, TopMovedExactly
<1> HIDE DEF i, a, b
<1>4. /\ stats'["snapshots_applied"] = stats["snapshots_applied"]
      /\ stats'["bbo_changes"] # stats["bbo_changes"] <=> TopMoved(bids[i], asks[i], Msg)
  BY <1>2 DEF Counted, Statistics, BookType
<1>5. /\ bids'[i] = b /\ asks'[i] = a
      /\ \A j \in Instruments \ {i} : bids'[j] = bids[j] /\ asks'[j] = asks[j]
  BY <1>1, <1>2 DEF BookType
<1>6. (\E j \in Instruments : Top(j)' # Top(j)) <=> TopOfBook(b, a) # TopOfBook(bids[i], asks[i])
  BY <1>1, <1>5 DEF Top
<1> QED
  BY <1>3, <1>4, <1>6 DEF BboStep

LEMMA BboOther ==
  ASSUME BookType, UNCHANGED bookVars,
         NEW S, stats' = stats \/ stats' = Counted(S), {"bbo_changes", "snapshots_applied"} \cap S = {}
  PROVE  BboStep
<1>1. \A i \in Instruments : Top(i)' = Top(i)
  BY DEF bookVars, Top
<1>2. /\ stats'["bbo_changes"] = stats["bbo_changes"]
      /\ stats'["snapshots_applied"] = stats["snapshots_applied"]
  BY DEF Counted, Statistics, BookType
<1> QED
  BY <1>1, <1>2 DEF BboStep

\* bbo_changes counts a message exactly if it moved the top of its book or was a
\* snapshot, although a delta sets bbo_changed after any single update that moved it
\* (process_one(), TopOfBook).
THEOREM BboChangesCounted == Spec => BboChangesExact
<1>1. QueueType /\ MessagesAccounted /\ BookType /\ [Next]_vars => BboStep
  <2> SUFFICES ASSUME QueueType, MessagesAccounted, BookType, [Next]_vars
               PROVE  BboStep
    OBVIOUS
  <2>1. CASE ApplyDelta
    BY <2>1, BboDelta
  <2>2. CASE ApplySnapshot
    <3>1. stats' = Counted({"snapshots_applied", "bbo_changes", "messages_processed"})
      BY <2>2 DEF ApplySnapshot
    <3> QED
      BY <3>1 DEF BboStep, Counted, Statistics, BookType
  <2>3. CASE UNCHANGED <<bookVars, stats>>
    <3>1. UNCHANGED bookVars /\ stats' = stats /\ {"bbo_changes", "snapshots_applied"} \cap {} = {}
      BY <2>3
    <3> QED
      BY <3>1, BboOther
  <2>4. ASSUME NEW S, {"bbo_changes", "snapshots_applied"} \cap S = {},
               UNCHANGED bookVars, stats' = Counted(S)
        PROVE  BboStep
    BY <2>4, BboOther
  <2>5. CASE NullMessage
    BY <2>4, <2>5 DEF NullMessage
  <2>6. CASE UnknownInstrument
    BY <2>4, <2>6 DEF UnknownInstrument
  <2>7. CASE DropGap
    BY <2>4, <2>7 DEF DropGap
  <2>8. CASE Trade
    BY <2>4, <2>8 DEF Trade
  <2>9. CASE OtherType
    BY <2>4, <2>9 DEF OtherType
  <2>10. CASE UNCHANGED vars
    BY <2>3, <2>10 DEF vars
  <2> QED
    BY <2>1, <2>2, <2>3, <2>5, <2>6, <2>7, <2>8, <2>9, <2>10
    DEF Next, OrderBookThread, ProcessOne, Arrive, ArriveNull, QueueEmpty, DropAwaiting, SkipOld,
        StartRun, LoopTest, Stop
<1>2. Spec => [](QueueType /\ MessagesAccounted /\ BookType)
  BY QueueInitial, QueueStep, BookInitial, BookStep, PTL DEF Spec
<1>3. BboStep => [stats'["bbo_changes"] # stats["bbo_changes"] <=>
                    \/ \E i \in Instruments : Top(i)' # Top(i)
                    \/ stats'["snapshots_applied"] # stats["snapshots_applied"]]_vars
  BY DEF BboStep
<1> QED
  BY <1>1, <1>2, <1>3, PTL DEF Spec, BboChangesExact

=============================================================================
