------------------------------- MODULE Parser -------------------------------
(***************************************************************************)
(* The parser thread: Parser of src/exchanges/parser.hpp with the parsing  *)
(* of BinanceSpotJsonParser.  It takes raw messages from a ring, makes     *)
(* normalized messages of them and puts those into another ring.  The      *)
(* objects on both rings come from two pools, shared with the connector    *)
(* before it and the OrderBook thread behind it: the connector's raw       *)
(* object is given back by the parser, the parser's normalized object by   *)
(* the OrderBook thread, or by the parser when the ring is full.           *)
(*                                                                         *)
(* The rings are the FIFOs SPSCRing.tla is shown to be.  A pool without    *)
(* thread caches gives what ObjectPool.tla promises; one with caches may   *)
(* find no object although some are left (ThreadCache.tla), and does not   *)
(* return then.                                                            *)
(***************************************************************************)
EXTENDS BinanceSpotJsonParser, FiniteSets

CONSTANTS
    RawSlots, Slots,        \* RawMessage and NormalizedMessage objects
    PoolSizes,              \* the sizes message_pool_ may have
    RawQueueCapacity, QueueCapacity,
    Null,                   \* a null pointer in the raw queue; no object
    Documents,              \* what a valid raw message may contain
    Feeds,                  \* the sequences of messages the connector may receive
    Invalid,                \* content of a raw message that is not is_valid()
    NoMessage               \* content of an object in its pool

ASSUME ObjectsAssumption ==
    /\ IsFiniteSet(RawSlots) /\ IsFiniteSet(Slots) /\ Null \notin RawSlots \cup Slots
    /\ PoolSizes \subseteq Nat
    /\ {RawQueueCapacity, QueueCapacity} \subseteq Nat \ {0}
ASSUME FeedsAssumption ==
    Invalid \notin Documents /\ Feeds \subseteq Seq(Documents \cup {Invalid, Null})
ASSUME DocumentsAssumption ==
    /\ Absent \notin {"depthUpdate", "trade"}
    /\ \A doc \in Documents \ {Malformed} :
          \A list \in {doc.bids, doc.asks, doc.b, doc.a} \ {Absent} : list \in Seq(Range(list))

VARIABLES
    raw_queue, raw, raw_free,       \* raw_queue_, the raw objects, raw_message_pool_
    queue, message, free,           \* normalized_queue_, its objects, message_pool_
    pool,                           \* the objects message_pool_ was made of
    cached,                         \* do the pools have thread caches?
    feed,                           \* what the connector receives
    raw_msg, normalized,            \* the parser's objects
    handled,                        \* the OrderBook thread's object
    messages_parsed_, parse_errors_, queue_full_drops_,
    running, stopped, pc,
    received,                       \* how much of feed the connector has received
    exhausted                       \* history: allocations that got nullptr

rawVars  == <<raw_queue, raw, raw_free>>
outVars  == <<queue, message, free, handled>>
statVars == <<messages_parsed_, parse_errors_, queue_full_drops_>>
loopVars == <<running, stopped>>
setup    == <<pool, cached, feed>>
vars == <<rawVars, outVars, setup, raw_msg, normalized, statVars, loopVars, pc, received,
          exhausted>>

Init ==
    /\ raw_queue = <<>> /\ raw_free = RawSlots
    /\ raw = [s \in RawSlots |-> NoMessage]
    /\ pool \in {S \in SUBSET Slots : Cardinality(S) \in PoolSizes}
    /\ cached \in BOOLEAN /\ feed \in Feeds
    /\ queue = <<>> /\ free = pool
    /\ message = [s \in Slots |-> NoMessage]
    /\ raw_msg = Null /\ normalized = Null /\ handled = Null
    /\ messages_parsed_ = 0 /\ parse_errors_ = 0 /\ queue_full_drops_ = 0
    /\ running = FALSE /\ stopped = FALSE
    /\ pc = "created"
    /\ received = 0
    /\ exhausted = 0

-----------------------------------------------------------------------------
(* The connector: takes a raw object, fills it and queues it; when the ring *)
(* is full it drops what it received, so the feed is what it does not drop. *)

Receive(slot) ==
    /\ received < Len(feed) /\ feed[received + 1] # Null
    /\ slot \in raw_free
    /\ Len(raw_queue) < RawQueueCapacity
    /\ received' = received + 1
    /\ raw_free' = raw_free \ {slot}
    /\ raw' = [raw EXCEPT ![slot] =
                  [content |-> feed[received + 1], receive_timestamp |-> received + 1]]
    /\ raw_queue' = Append(raw_queue, slot)
    /\ UNCHANGED <<outVars, setup, raw_msg, normalized, statVars, loopVars, pc, exhausted>>

\* No connector sends a null pointer; the parser has a case for it.
ReceiveNull ==
    /\ received < Len(feed) /\ feed[received + 1] = Null
    /\ Len(raw_queue) < RawQueueCapacity
    /\ received' = received + 1
    /\ raw_queue' = Append(raw_queue, Null)
    /\ UNCHANGED <<raw, raw_free, outVars, setup, raw_msg, normalized, statVars, loopVars,
                   pc, exhausted>>

(* The OrderBook thread takes a message and gives it back.                 *)

Handle ==
    /\ handled = Null
    /\ queue # <<>>
    /\ handled' = Head(queue)
    /\ queue' = Tail(queue)
    /\ UNCHANGED <<rawVars, message, free, setup, raw_msg, normalized, statVars, loopVars,
                   pc, received, exhausted>>

Handled ==
    /\ handled # Null
    /\ handled' = Null
    /\ free' = free \cup {handled}
    /\ message' = [message EXCEPT ![handled] = NoMessage]
    /\ UNCHANGED <<rawVars, queue, setup, raw_msg, normalized, statVars, loopVars, pc,
                   received, exhausted>>

-----------------------------------------------------------------------------
(* process_one(): a step for each access to a ring or a pool.              *)

QueueEmpty ==
    /\ pc = "body"
    /\ raw_queue = <<>>
    /\ pc' = "test"
    /\ UNCHANGED <<rawVars, outVars, setup, raw_msg, normalized, statVars, loopVars,
                   received, exhausted>>

is_valid(msg) == raw[msg].content # Invalid

Take ==
    /\ pc = "body"
    /\ raw_queue # <<>>
    /\ raw_queue' = Tail(raw_queue)
    /\ raw_msg' = Head(raw_queue)
    /\ IF raw_msg' = Null \/ ~is_valid(raw_msg')
       THEN /\ parse_errors_' = parse_errors_ + 1
            /\ pc' = IF raw_msg' = Null THEN "test" ELSE "finish"
       ELSE pc' = "allocate" /\ UNCHANGED parse_errors_
    /\ UNCHANGED <<raw, raw_free, outVars, setup, normalized, messages_parsed_,
                   queue_full_drops_, loopVars, received, exhausted>>

Allocate ==
    /\ pc = "allocate"
    /\ \E slot \in free :
          /\ free' = free \ {slot}
          /\ normalized' = slot
    /\ pc' = "parse"
    /\ UNCHANGED <<rawVars, queue, message, handled, setup, raw_msg, statVars, loopVars,
                   received, exhausted>>

\* The early return keeps the raw object.
Exhausted ==
    /\ pc = "allocate" /\ ~cached
    /\ free = {}
    /\ parse_errors_' = parse_errors_ + 1
    /\ exhausted' = exhausted + 1
    /\ raw_msg' = Null
    /\ pc' = "test"
    /\ UNCHANGED <<rawVars, outVars, setup, normalized, messages_parsed_, queue_full_drops_,
                   loopVars, received>>

\* A pool with caches does not return, and nobody catches what it throws.
Depleted ==
    /\ pc = "allocate" /\ cached
    /\ pc' = "terminated"
    /\ UNCHANGED <<rawVars, outVars, setup, raw_msg, normalized, statVars, loopVars,
                   received, exhausted>>

\* Seeded bug: the message object is forgotten.
DiscardLeaks ==
    /\ normalized' = Null
    /\ UNCHANGED <<free, message>>

\* message_pool_.deallocate(normalized)
Discard ==
    /\ free' = free \cup {normalized}
    /\ message' = [message EXCEPT ![normalized] = NoMessage]
    /\ normalized' = Null

Content == raw[raw_msg].content

Parse ==
    /\ pc = "parse"
    /\ \E m \in parse_message(Content) :
          /\ ~Throws(m)
          /\ message' = [message EXCEPT ![normalized] =
                [body |-> m, receive_time |-> raw[raw_msg].receive_timestamp]]
    /\ pc' = "push"
    /\ UNCHANGED <<rawVars, queue, free, handled, setup, raw_msg, normalized, statVars,
                   loopVars, received, exhausted>>

ParseError ==
    /\ pc = "parse"
    /\ parse_message(Content) = {}
    /\ parse_errors_' = parse_errors_ + 1
    /\ Discard
    /\ pc' = "finish"
    /\ UNCHANGED <<rawVars, queue, handled, setup, raw_msg, messages_parsed_,
                   queue_full_drops_, loopVars, received, exhausted>>

\* An exception of the conversion of a level leaves run(), too.
ParseThrows ==
    /\ pc = "parse"
    /\ \E m \in parse_message(Content) : Throws(m)
    /\ pc' = "terminated"
    /\ UNCHANGED <<rawVars, outVars, setup, raw_msg, normalized, statVars, loopVars,
                   received, exhausted>>

Push ==
    /\ pc = "push"
    /\ Len(queue) < QueueCapacity
    /\ queue' = Append(queue, normalized)
    /\ messages_parsed_' = messages_parsed_ + 1
    /\ normalized' = Null
    /\ pc' = "finish"
    /\ UNCHANGED <<rawVars, message, free, handled, setup, raw_msg, parse_errors_,
                   queue_full_drops_, loopVars, received, exhausted>>

\* The ring is full: the newest message is dropped.
PushRefused ==
    /\ pc = "push"
    /\ Len(queue) = QueueCapacity
    /\ queue_full_drops_' = queue_full_drops_ + 1
    /\ Discard
    /\ pc' = "finish"
    /\ UNCHANGED <<rawVars, queue, handled, setup, raw_msg, messages_parsed_, parse_errors_,
                   loopVars, received, exhausted>>

\* Seeded bug: the raw object is not given back.
GiveRawBackNot == UNCHANGED <<raw, raw_free>>

\* raw_message_pool_.deallocate(raw_msg)
GiveRawBack ==
    /\ raw_free' = raw_free \cup {raw_msg}
    /\ raw' = [raw EXCEPT ![raw_msg] = NoMessage]

Finish ==
    /\ pc = "finish"
    /\ GiveRawBack
    /\ raw_msg' = Null
    /\ pc' = "test"
    /\ UNCHANGED <<raw_queue, outVars, setup, normalized, statVars, loopVars, received,
                   exhausted>>

ProcessOne ==
    \/ QueueEmpty \/ Take
    \/ Allocate \/ Exhausted \/ Depleted
    \/ Parse \/ ParseError \/ ParseThrows
    \/ Push \/ PushRefused \/ Finish

-----------------------------------------------------------------------------
(* run() in the parser thread, stop() in another.                          *)

StartRun ==
    /\ pc = "created"
    /\ running' = TRUE
    /\ pc' = "test"
    /\ UNCHANGED <<rawVars, outVars, setup, raw_msg, normalized, statVars, stopped,
                   received, exhausted>>

LoopTest ==
    /\ pc = "test"
    /\ pc' = IF running THEN "body" ELSE "returned"
    /\ UNCHANGED <<rawVars, outVars, setup, raw_msg, normalized, statVars, loopVars,
                   received, exhausted>>

Stop ==
    /\ ~stopped
    /\ running' = FALSE
    /\ stopped' = TRUE
    /\ UNCHANGED <<rawVars, outVars, setup, raw_msg, normalized, statVars, pc, received,
                   exhausted>>

ParserThread == StartRun \/ LoopTest \/ ProcessOne

Others ==
    \/ \E slot \in raw_free : Receive(slot)
    \/ ReceiveNull
    \/ Handle \/ Handled
    \/ Stop

Next == pc # "terminated" /\ (ParserThread \/ Others)

\* The parser thread is called and keeps running: run() spins without blocking.
Spec == Init /\ [][Next]_vars /\ WF_vars(ParserThread /\ pc # "terminated")

-----------------------------------------------------------------------------
(* Correctness.                                                            *)

\* Both pools lose nothing and hand nothing out twice: every object is in its pool,
\* once in its queue, or with one thread; but for one raw object with every
\* allocation that got nullptr.
Placed(slot, objects, q, hands) ==
    (IF slot \in objects THEN 1 ELSE 0)
    + Cardinality({k \in DOMAIN q : q[k] = slot})
    + Cardinality({k \in DOMAIN hands : hands[k] = slot})
ObjectsAccounted ==
    /\ \A s \in pool : Placed(s, free, queue, <<normalized, handled>>) = 1
    /\ \A s \in RawSlots : Placed(s, raw_free, raw_queue, <<raw_msg>>) <= 1
    /\ exhausted = Cardinality({s \in RawSlots :
                                   Placed(s, raw_free, raw_queue, <<raw_msg>>) = 0})

\* A message says what its document says: the instrument, which no snapshot names,
\* and on both sides the first levels, all of them up to the limit.
Lists(listed, given, limit) ==
    /\ Len(listed) = IF Len(given) < limit THEN Len(given) ELSE limit
    /\ \A k \in DOMAIN listed : listed[k] = given[k] /\ given[k] # NoArray
Faithful(m, doc) ==
    \/ /\ m.type = "SNAPSHOT" /\ doc.e = Absent
       /\ m.instrument = UNKNOWN /\ m.last_update_id = doc.lastUpdateId
       /\ doc.bids # Absent => Lists(m.bids, doc.bids, MAX_LEVELS)
       /\ doc.asks # Absent => Lists(m.asks, doc.asks, MAX_LEVELS)
    \/ /\ m.type = "DELTA" /\ doc.e = "depthUpdate"
       /\ doc.s # Absent => m.instrument = doc.s
       /\ doc.U # Absent => m.first_update_id = doc.U
       /\ doc.u # Absent => m.last_update_id = doc.u
       /\ doc.b # Absent => Lists(m.bid_updates, doc.b, MAX_UPDATES)
       /\ doc.a # Absent => Lists(m.ask_updates, doc.a, MAX_UPDATES)
    \/ /\ m.type = "TRADE" /\ doc.e = "trade"
       /\ doc.s # Absent => m.instrument = doc.s
       /\ doc.T # Absent => m.timestamp = doc.T

\* Seen from outside, the parser is a lossy feed: the OrderBook thread gets messages
\* in the order they came, none twice and each with the content of its own document,
\* also across reuse of the objects and until it gives them back; and every raw
\* message taken is counted once, in exactly one statistic.
Delivered == (IF handled = Null THEN <<>> ELSE <<handled>>) \o queue
Promised == INSTANCE LossyFeed WITH
    Says <- Faithful,
    out <- [k \in DOMAIN Delivered |-> message[Delivered[k]]],
    delivered <- messages_parsed_,
    lost <- parse_errors_ + queue_full_drops_
ImplementsLossyFeed == Promised!Spec

\* Without thread caches a message pool with two objects more than the queue holds,
\* one for each thread that uses it, is never found empty; so no raw object is lost.
PoolSuffices == Cardinality(pool) >= QueueCapacity + 2 => exhausted = 0

\* A raw message in the queue is handled, and its object goes back to the pool,
\* unless stop() is called, the thread dies, or the message pool was empty.
RawMessagesReturned ==
    \A s \in RawSlots :
        (\E k \in DOMAIN raw_queue : raw_queue[k] = s)
        ~> (s \in raw_free \/ stopped \/ pc = "terminated" \/ exhausted > 0)

=============================================================================
