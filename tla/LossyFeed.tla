----------------------------- MODULE LossyFeed ------------------------------
(***************************************************************************)
(* What Parser (src/exchanges/parser.hpp) promises: of the messages the    *)
(* connector received it delivers some, in the order they came, each once  *)
(* and saying what its document says, and it counts each of the others as  *)
(* lost.  Parser.tla, with its pools and rings, is shown to implement this *)
(* specification.                                                          *)
(***************************************************************************)
EXTENDS Naturals, Sequences

CONSTANT Says(_, _)     \* does a message say what a document says?

VARIABLES
    feed,               \* the messages the connector receives
    out,                \* the messages delivered and not given back yet
    delivered, lost     \* how many of the feed have been so far

feedVars == <<feed, out, delivered, lost>>

Init == out = <<>> /\ delivered = 0 /\ lost = 0

\* The next message of the feed is delivered.
Deliver ==
    LET k == delivered + lost + 1
        m == out'[Len(out')]
    IN  /\ k <= Len(feed)
        /\ Len(out') = Len(out) + 1 /\ out' = Append(out, m)
        /\ m.receive_time = k /\ Says(m.body, feed[k])
        /\ delivered' = delivered + 1
        /\ UNCHANGED <<feed, lost>>

\* It is lost.
Lose ==
    /\ delivered + lost < Len(feed)
    /\ lost' = lost + 1
    /\ UNCHANGED <<feed, out, delivered>>

\* The OrderBook thread is done with the oldest of the messages.
Consume ==
    /\ out # <<>>
    /\ out' = Tail(out)
    /\ UNCHANGED <<feed, delivered, lost>>

Next == Deliver \/ Lose \/ Consume

Spec == Init /\ [][Next]_feedVars

=============================================================================
