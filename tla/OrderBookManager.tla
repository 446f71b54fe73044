-------------------------- MODULE OrderBookManager --------------------------
(***************************************************************************)
(* The OrderBook thread: OrderBookManager of                               *)
(* src/orderbook/order_book_manager.hpp.  It takes messages from a queue,  *)
(* checks their update ids, applies them to the book of their instrument   *)
(* and gives every message back to the pool it came from.                  *)
(*                                                                         *)
(* What arrives is any message the exchange could truthfully have sent, at *)
(* any time and any number of times: messages may have been lost, repeated *)
(* or delayed on the way, as they are when a connection drops or the       *)
(* parser finds its output queue full.  The question is whether the book   *)
(* is nevertheless the exchange's book as of last_update_id.               *)
(*                                                                         *)
(* The queue is the FIFO that SPSCRing.tla is shown to be, a book is what  *)
(* OrderBook.tla is shown to promise (LevelBook.tla).  Between the test of *)
(* running_ and the end of process_one() the thread touches nothing that   *)
(* another thread writes except the head of the queue, so process_one() is *)
(* one step.                                                               *)
(***************************************************************************)
EXTENDS BookLevels

CONSTANTS
    Instruments,    \* given to add_instrument() before run()
    Strangers,      \* instruments messages may name that were not
    History,        \* for each instrument, the changes of the exchange's book
    CheckSequence,  \* Config::enable_sequence_checking
    Slots,          \* the NormalizedMessage objects of the pool
    Null,           \* a null pointer in the queue
    NoMessage,      \* content of a slot that is in the pool
    MaxMessages     \* bound on the messages that arrive

\* Prices and quantities are 64-bit integers.  A quantity is the uint64_t that process_one()
\* makes of Price::raw_value(): a negative number, should a message hold one, counts as
\* the large one its bits are, for the exchange's book of this module too.
ASSUME PricesAssumption == Prices \subseteq Int /\ IsFiniteSet(Prices)
ASSUME QuantitiesAssumption == Quantities \subseteq Nat \ {0}
ASSUME HistoryAssumption ==
    /\ IsFiniteSet(Instruments)
    /\ DOMAIN History = Instruments
    /\ \A i \in Instruments :
          History[i] \in Seq([side : {"BUY", "SELL"}, price : Prices,
                              quantity : Quantities \cup {0}])
ASSUME PoolAssumption ==
    /\ IsFiniteSet(Slots) /\ Null \notin Slots
    /\ MaxMessages \in Nat /\ CheckSequence \in BOOLEAN
ASSUME StrangersAssumption == Instruments \cap Strangers = {}

-----------------------------------------------------------------------------
(* The exchange: version v of a book is what the first v changes make of   *)
(* an empty one, and the update id of a change is its position.            *)

Versions(i) == 0 .. Len(History[i])

ChangesOf(i, side, price, first, last) ==
    {k \in first .. last : History[i][k].side = side /\ History[i][k].price = price}

ExchangeSide(i, side, v) ==
    [p \in Prices |->
        LET set == ChangesOf(i, side, p, 1, v)
        IN  IF set = {} THEN 0 ELSE History[i][Max(set)].quantity]

\* The levels `prices` of a side as a message lists them, in any order.
Orders(S) == {o \in [1 .. Cardinality(S) -> S] : \A x \in S : \E k \in DOMAIN o : o[k] = x}
Listings(side, prices) ==
    {[k \in DOMAIN o |-> [price |-> o[k], quantity |-> side[o[k]]]] : o \in Orders(prices)}

\* A snapshot lists the levels of a version, all of them.
SnapshotsAt(i, v) ==
    [type : {"SNAPSHOT"}, instrument : {i}, last_update_id : {v},
     bids : Listings(ExchangeSide(i, "BUY", v), LevelsOf(ExchangeSide(i, "BUY", v))),
     asks : Listings(ExchangeSide(i, "SELL", v), LevelsOf(ExchangeSide(i, "SELL", v)))]

\* A delta lists what its changes left of the prices they touched.
Touched(i, side, first, last) == {p \in Prices : ChangesOf(i, side, p, first, last) # {}}
DeltasOver(i, first, last) ==
    [type : {"DELTA"}, instrument : {i},
     first_update_id : {first}, last_update_id : {last},
     bid_updates : Listings(ExchangeSide(i, "BUY", last), Touched(i, "BUY", first, last)),
     ask_updates : Listings(ExchangeSide(i, "SELL", last), Touched(i, "SELL", first, last))]

\* Types without book data.  The parser sends no UNKNOWN; the handler has a case
\* for it.
OtherMessages == [type : {"TRADE", "UNKNOWN"}, instrument : Instruments]
StrangeMessages == [type : {"TRADE"}, instrument : Strangers]

SnapshotMessages ==
    UNION {UNION {SnapshotsAt(i, v) : v \in Versions(i)} : i \in Instruments}

Spans(i) == {s \in (1 .. Len(History[i])) \X (1 .. Len(History[i])) : s[1] <= s[2]}
DeltaMessages ==
    UNION {UNION {DeltasOver(i, s[1], s[2]) : s \in Spans(i)} : i \in Instruments}

Messages == SnapshotMessages \cup DeltaMessages \cup OtherMessages \cup StrangeMessages

ASSUME NoMessageAssumption == NoMessage \notin Messages

-----------------------------------------------------------------------------
VARIABLES
    queue,            \* message_queue_: slots, or Null
    message,          \* the content of every slot
    free,             \* message_pool_: slots not handed out
    arrived,          \* number of messages that arrived so far
    bids, asks,       \* order_books_: the two sides of each instrument's book
    last_update_id, gaps_detected, awaiting_snapshot,   \* sequence_states_
    stats,            \* stats_
    running,          \* running_
    stopped,          \* stop() was called (history)
    pc                \* where the OrderBook thread is in run()

queueVars    == <<queue, message, free>>
bookVars     == <<bids, asks>>
sequenceVars == <<last_update_id, gaps_detected, awaiting_snapshot>>
vars == <<queueVars, arrived, bookVars, sequenceVars, stats, running, stopped, pc>>

Statistics == {"messages_processed", "snapshots_applied", "deltas_applied",
               "trades_processed", "sequence_gaps", "unknown_instruments",
               "bbo_changes", "parse_errors"}

\* After add_instrument() for every instrument, before run().
Init ==
    /\ queue = <<>>
    /\ message = [s \in Slots |-> NoMessage]
    /\ free = Slots
    /\ arrived = 0
    /\ bids = [i \in Instruments |-> EmptySide]
    /\ asks = [i \in Instruments |-> EmptySide]
    /\ last_update_id = [i \in Instruments |-> 0]
    /\ gaps_detected = [i \in Instruments |-> 0]
    /\ awaiting_snapshot = [i \in Instruments |-> TRUE]
    /\ stats = [c \in Statistics |-> 0]
    /\ running = FALSE
    /\ stopped = FALSE
    /\ pc = "created"

Counted(counters) == [c \in Statistics |-> stats[c] + (IF c \in counters THEN 1 ELSE 0)]

-----------------------------------------------------------------------------
(* The parser's side of the queue.                                         *)

Arrive(slot, m) ==
    /\ arrived < MaxMessages
    /\ slot \in free
    /\ free' = free \ {slot}
    /\ message' = [message EXCEPT ![slot] = m]
    /\ queue' = Append(queue, slot)
    /\ arrived' = arrived + 1
    /\ UNCHANGED <<bookVars, sequenceVars, stats, running, stopped, pc>>

\* No producer pushes a null pointer; the handler has a case for it.
ArriveNull ==
    /\ arrived < MaxMessages
    /\ queue' = Append(queue, Null)
    /\ arrived' = arrived + 1
    /\ UNCHANGED <<message, free, bookVars, sequenceVars, stats, running, stopped, pc>>

(* process_one(), one action per path through it.                          *)

Slot == Head(queue)
Msg == message[Slot]

Take ==
    /\ pc = "body"
    /\ queue # <<>>
    /\ queue' = Tail(queue)
    /\ pc' = "test"

\* message_pool_.deallocate(msg)
\* Seeded bug: the message is forgotten.
DeallocateNot == UNCHANGED <<free, message>>

Deallocate ==
    /\ free' = free \cup {Slot}
    /\ message' = [message EXCEPT ![Slot] = NoMessage]

\* Seeded bugs: a book that lost an update goes on; one that waits does so for ever.
AwaitsNot(i, waiting) == awaiting_snapshot' = [awaiting_snapshot EXCEPT ![i] = FALSE]
AwaitsForever(i, waiting) == awaiting_snapshot' = [awaiting_snapshot EXCEPT ![i] = @ \/ waiting]

Awaits(i, waiting) == awaiting_snapshot' = [awaiting_snapshot EXCEPT ![i] = waiting]

\* Takes a message with a book to route it to, of the given type.
Route(type) ==
    /\ Take
    /\ Slot # Null
    /\ Msg.instrument \in Instruments
    /\ Msg.type = type

QueueEmpty ==
    /\ pc = "body"
    /\ queue = <<>>
    /\ pc' = "test"
    /\ UNCHANGED <<queueVars, arrived, bookVars, sequenceVars, stats, running, stopped>>

NullMessage ==
    /\ Take
    /\ Slot = Null
    /\ stats' = Counted({"parse_errors"})
    /\ UNCHANGED <<message, free, arrived, bookVars, sequenceVars, running, stopped>>

UnknownInstrument ==
    /\ Take
    /\ Slot # Null
    /\ Msg.instrument \notin Instruments
    /\ Deallocate
    /\ stats' = Counted({"unknown_instruments"})
    /\ UNCHANGED <<arrived, bookVars, sequenceVars, running, stopped>>

\* A snapshot is taken whatever its update id; book.snapshot() always returns true.
ApplySnapshot ==
    LET i == Msg.instrument
    IN  /\ Route("SNAPSHOT")
        /\ Deallocate
        /\ bids' = [bids EXCEPT ![i] = FromLevels(Msg.bids)]
        /\ asks' = [asks EXCEPT ![i] = FromLevels(Msg.asks)]
        /\ last_update_id' = [last_update_id EXCEPT ![i] = Msg.last_update_id]
        /\ Awaits(i, FALSE)
        /\ stats' = Counted({"snapshots_applied", "bbo_changes", "messages_processed"})
        /\ UNCHANGED <<arrived, gaps_detected, running, stopped>>

\* The three early returns for a delta, in the order of the tests.
DropAwaiting ==
    /\ Route("DELTA")
    /\ CheckSequence
    /\ awaiting_snapshot[Msg.instrument]
    /\ Deallocate
    /\ UNCHANGED <<arrived, bookVars, sequenceVars, stats, running, stopped>>

\* Seeded bug: off by one.
IsGapLate(i, m) == m.first_update_id > last_update_id[i] + 2

IsGap(i, m) == m.first_update_id > last_update_id[i] + 1

DropGap ==
    LET i == Msg.instrument
    IN  /\ Route("DELTA")
        /\ CheckSequence
        /\ ~awaiting_snapshot[i]
        /\ IsGap(i, Msg)
        /\ Deallocate
        /\ gaps_detected' = [gaps_detected EXCEPT ![i] = @ + 1]
        /\ Awaits(i, TRUE)
        /\ stats' = Counted({"sequence_gaps"})
        /\ UNCHANGED <<arrived, bookVars, last_update_id, running, stopped>>

IsOld(i, m) == m.last_update_id <= last_update_id[i]

SkipOld ==
    LET i == Msg.instrument
    IN  /\ Route("DELTA")
        /\ CheckSequence
        /\ ~awaiting_snapshot[i]
        /\ ~IsGap(i, Msg)
        /\ IsOld(i, Msg)
        /\ Deallocate
        /\ UNCHANGED <<arrived, bookVars, sequenceVars, stats, running, stopped>>

BidsMoved(b, a, updates) ==
    LET After(k) == TopOfBook(Updated(b, SubSeq(updates, 1, k)), a)
    IN  \E k \in DOMAIN updates : After(k) # After(k - 1)
AsksMoved(b, a, updates) ==
    LET After(k) == TopOfBook(b, Updated(a, SubSeq(updates, 1, k)))
    IN  \E k \in DOMAIN updates : After(k) # After(k - 1)

\* Seeded bug: the second loop overwrites what the first one found.
TopMovedByAsks(b, a, m) ==
    IF m.ask_updates = <<>>
    THEN BidsMoved(b, a, m.bid_updates)
    ELSE AsksMoved(Updated(b, m.bid_updates), a, m.ask_updates)

\* bbo_changed: did any single update(), bids first, move the top of the book?
TopMoved(b, a, m) ==
    \/ BidsMoved(b, a, m.bid_updates)
    \/ AsksMoved(Updated(b, m.bid_updates), a, m.ask_updates)

\* Seeded bug: the id of the update expected next is kept instead.
NewUpdateIdNext(m) == m.last_update_id + 1

NewUpdateId(m) == m.last_update_id

ApplyDelta ==
    LET i == Msg.instrument
    IN  /\ Route("DELTA")
        /\ CheckSequence => ~awaiting_snapshot[i] /\ ~IsGap(i, Msg) /\ ~IsOld(i, Msg)
        /\ Deallocate
        /\ bids' = [bids EXCEPT ![i] = Updated(bids[i], Msg.bid_updates)]
        /\ asks' = [asks EXCEPT ![i] = Updated(asks[i], Msg.ask_updates)]
        /\ last_update_id' = [last_update_id EXCEPT ![i] = NewUpdateId(Msg)]
        /\ stats' = Counted({"deltas_applied", "messages_processed"}
                            \cup (IF TopMoved(bids[i], asks[i], Msg) THEN {"bbo_changes"} ELSE {}))
        /\ UNCHANGED <<arrived, awaiting_snapshot, gaps_detected, running, stopped>>

Trade ==
    /\ Route("TRADE")
    /\ Deallocate
    /\ stats' = Counted({"trades_processed", "messages_processed"})
    /\ UNCHANGED <<arrived, bookVars, sequenceVars, running, stopped>>

OtherType ==
    /\ Route("UNKNOWN")
    /\ Deallocate
    /\ stats' = Counted({"parse_errors", "messages_processed"})
    /\ UNCHANGED <<arrived, bookVars, sequenceVars, running, stopped>>

ProcessOne ==
    \/ QueueEmpty \/ NullMessage \/ UnknownInstrument
    \/ ApplySnapshot
    \/ DropAwaiting \/ DropGap \/ SkipOld \/ ApplyDelta
    \/ Trade \/ OtherType

-----------------------------------------------------------------------------
(* run() in the OrderBook thread, stop() in another.                       *)

\* Seeded bug: running_ is left as it is.
StartRunIdle ==
    /\ pc = "created"
    /\ pc' = "test"
    /\ UNCHANGED <<queueVars, arrived, bookVars, sequenceVars, stats, running, stopped>>

StartRun ==
    /\ pc = "created"
    /\ running' = TRUE
    /\ pc' = "test"
    /\ UNCHANGED <<queueVars, arrived, bookVars, sequenceVars, stats, stopped>>

LoopTest ==
    /\ pc = "test"
    /\ pc' = IF running THEN "body" ELSE "returned"
    /\ UNCHANGED <<queueVars, arrived, bookVars, sequenceVars, stats, running, stopped>>

Stop ==
    /\ ~stopped
    /\ running' = FALSE
    /\ stopped' = TRUE
    /\ UNCHANGED <<queueVars, arrived, bookVars, sequenceVars, stats, pc>>

OrderBookThread == StartRun \/ LoopTest \/ ProcessOne

Next ==
    \/ \E slot \in free, m \in Messages : Arrive(slot, m)
    \/ ArriveNull
    \/ OrderBookThread
    \/ Stop

\* The OrderBook thread is called and keeps running: run() spins without blocking.
Spec == Init /\ [][Next]_vars /\ WF_vars(OrderBookThread)

-----------------------------------------------------------------------------
(* Correctness.                                                            *)

TypeOK ==
    /\ queue \in Seq(Slots \cup {Null})
    /\ message \in [Slots -> Messages \cup {NoMessage}]
    /\ free \subseteq Slots
    /\ arrived \in Nat
    /\ bids \in [Instruments -> Sides] /\ asks \in [Instruments -> Sides]
    /\ \A i \in Instruments : last_update_id[i] \in Versions(i)
    /\ last_update_id \in [Instruments -> Nat] /\ gaps_detected \in [Instruments -> Nat]
    /\ awaiting_snapshot \in [Instruments -> BOOLEAN]
    /\ stats \in [Statistics -> Nat]
    /\ running \in BOOLEAN /\ stopped \in BOOLEAN
    /\ pc \in {"created", "test", "body", "returned"}

\* Whatever was lost, repeated, delayed or reordered on the way: with sequence
\* checking on, every book is exactly the exchange's book as of the update id the
\* manager reports for it.  A gap makes a book stale, never wrong.
BookInSync ==
    CheckSequence =>
        \A i \in Instruments :
            /\ bids[i] = ExchangeSide(i, "BUY", last_update_id[i])
            /\ asks[i] = ExchangeSide(i, "SELL", last_update_id[i])

\* Every message object is in the pool or exactly once in the queue: no path
\* through process_one() leaks one, and none gives back one that is still queued.
MessagesAccounted ==
    /\ \A k \in DOMAIN queue : queue[k] # Null => queue[k] \notin free
    /\ \A j, k \in DOMAIN queue : queue[j] = queue[k] /\ j # k => queue[k] = Null
    /\ \A s \in Slots \ free : \E k \in DOMAIN queue : queue[k] = s
    /\ \A s \in Slots : message[s] = NoMessage <=> s \in free

\* An outage is counted as one gap however many deltas arrive during it: between
\* two gaps of a book there is a snapshot.
GapOncePerSnapshot ==
    stats["sequence_gaps"] + Cardinality({i \in Instruments : ~awaiting_snapshot[i]})
        <= stats["snapshots_applied"]

\* bbo_changes grows with a message exactly if the message moved the top of its
\* book or was a snapshot.
Top(i) == TopOfBook(bids[i], asks[i])
BboChangesExact ==
    [][ stats'["bbo_changes"] # stats["bbo_changes"] <=>
          \/ \E i \in Instruments : Top(i)' # Top(i)
          \/ stats'["snapshots_applied"] # stats["snapshots_applied"] ]_vars

\* A message in the queue is handled and given back, unless stop() is called.
MessagesHandled ==
    \A s \in Slots : (\E k \in DOMAIN queue : queue[k] = s) ~> (s \in free \/ stopped)

\* A book that waits for a snapshot resumes once one is queued.
SnapshotHeals ==
    \A i \in Instruments :
        (\E k \in DOMAIN queue :
            /\ queue[k] # Null
            /\ message[queue[k]].instrument = i
            /\ message[queue[k]].type = "SNAPSHOT")
        ~> (~awaiting_snapshot[i] \/ stopped)

\* order_book_manager.hpp:251 says of run(): Runs until stop() is called.
StopEndsRun == stopped ~> pc = "returned"

=============================================================================
