----------------------------- MODULE OrderBook ------------------------------
(***************************************************************************)
(* The order book of src/orderbook/order_book.hpp: two BookSides that      *)
(* share one node pool, and cached_tob_, a copy of the top of the book.    *)
(*                                                                         *)
(* update() decides whether the top moved by comparing, before and after,  *)
(* the address of the best node of each side and its quantity, and only    *)
(* then refreshes the copy.  snapshot() clears the book and applies its    *)
(* levels one by one: each of these calls is a step here, because each     *)
(* takes a node from the pool, but nobody can look at the book in between. *)
(***************************************************************************)
EXTENDS Integers, FiniteSets, Sequences

CONSTANTS
    Nodes, Prices, Quantities, HalfWord, Depths,  \* as in BookSide
    NoNode,                                       \* nullptr
    SnapshotLevels                                \* lists of levels a snapshot may carry for a side

ASSUME NoNodeAssumption == NoNode \notin Nodes
\* Those of BookSide, for both sides.
ASSUME SidesAssumption ==
    /\ IsFiniteSet(Nodes)
    /\ Prices \subseteq Int
    /\ HalfWord \in Nat \ {0} /\ Quantities \subseteq 1 .. 2 * HalfWord - 1
    /\ Depths \subseteq Nat \ {0} /\ Depths # {}
ASSUME SnapshotAssumption ==
    SnapshotLevels \subseteq Seq([price : Prices, quantity : Quantities \cup {0}])

VARIABLES
    free, level,                        \* the pool shared by both sides
    bidTree, bidIndex, bidNth, bidDepth,
    askTree, askIndex, askNth, askDepth,
    sideResult,                         \* what the last apply_update returned
    aborted,
    cached_tob,                         \* cached_tob_
    changed,                            \* what the last update or snapshot returned
    phase,                              \* where snapshot() is
    toBid, toAsk                        \* the levels it has still to apply

bidVars  == <<bidTree, bidIndex, bidNth, bidDepth>>
askVars  == <<askTree, askIndex, askNth, askDepth>>
snapVars == <<phase, toBid, toAsk>>
vars == <<free, level, bidVars, askVars, sideResult, aborted, cached_tob, changed, snapVars>>

Bids == INSTANCE BookSide WITH
    Ascending <- FALSE, tree <- bidTree, index <- bidIndex, nth_price <- bidNth,
    top_n_depth <- bidDepth, result <- sideResult
Asks == INSTANCE BookSide WITH
    Ascending <- TRUE, tree <- askTree, index <- askIndex, nth_price <- askNth,
    top_n_depth <- askDepth, result <- sideResult

-----------------------------------------------------------------------------
(* The top of the book, as update() and update_cached_tob() look at it.    *)

BestBidNode == IF Bids!HasBest THEN Bids!Best ELSE NoNode
BestAskNode == IF Asks!HasBest THEN Asks!Best ELSE NoNode
QuantityAt(node) == IF node = NoNode THEN 0 ELSE level[node].quantity
PriceAt(node) == IF node = NoNode THEN 0 ELSE level[node].price

\* What update_cached_tob() copies.
Top == [bid_price |-> PriceAt(BestBidNode), bid_qty |-> QuantityAt(BestBidNode),
        ask_price |-> PriceAt(BestAskNode), ask_qty |-> QuantityAt(BestAskNode)]
EmptyTop == [bid_price |-> 0, bid_qty |-> 0, ask_price |-> 0, ask_qty |-> 0]

\* Seeded bug: only the addresses of the best nodes are compared.
TopMovedByAddress == BestBidNode' # BestBidNode \/ BestAskNode' # BestAskNode

TopMoved ==
    \/ BestBidNode' # BestBidNode
    \/ BestBidNode' # NoNode /\ QuantityAt(BestBidNode)' # QuantityAt(BestBidNode)
    \/ BestAskNode' # BestAskNode
    \/ BestAskNode' # NoNode /\ QuantityAt(BestAskNode)' # QuantityAt(BestAskNode)

-----------------------------------------------------------------------------
\* The constructor sets both sides to the configured depth.
Init ==
    /\ Bids!Init
    /\ Asks!InitWith(free)
    /\ askDepth = bidDepth
    /\ cached_tob = EmptyTop
    /\ changed = FALSE
    /\ phase = "idle" /\ toBid = <<>> /\ toAsk = <<>>

Update(side, price, quantity) ==
    /\ phase = "idle"
    /\ IF side = "BUY"
       THEN Bids!ApplyUpdate(price, quantity) /\ UNCHANGED askVars
       ELSE Asks!ApplyUpdate(price, quantity) /\ UNCHANGED bidVars
    /\ changed' = TopMoved
    /\ cached_tob' = IF TopMoved THEN Top' ELSE cached_tob
    /\ UNCHANGED snapVars

\* clear() and the call of it that snapshot() starts with clear the bids first, the
\* asks in a step of their own.
Clear ==
    /\ phase = "idle"
    /\ Bids!Clear /\ UNCHANGED askVars
    /\ phase' = "clear"
    /\ UNCHANGED <<cached_tob, changed, toBid, toAsk>>

SnapshotBegin(bidLevels, askLevels) ==
    /\ phase = "idle"
    /\ Bids!Clear /\ UNCHANGED askVars
    /\ phase' = "snapshot"
    /\ toBid' = bidLevels
    /\ toAsk' = askLevels
    /\ UNCHANGED <<cached_tob, changed>>

ClearAsks ==
    /\ phase \in {"clear", "snapshot"}
    /\ Asks!Clear /\ UNCHANGED bidVars
    /\ cached_tob' = EmptyTop
    /\ phase' = IF phase = "clear" THEN "idle" ELSE "applying"
    /\ UNCHANGED <<changed, toBid, toAsk>>

\* One level of the first loop: a level without quantity is skipped.
SnapshotBid ==
    /\ phase = "applying"
    /\ toBid # <<>>
    /\ LET l == Head(toBid)
       IN  IF l.quantity > 0
           THEN Bids!ApplyUpdate(l.price, l.quantity) /\ UNCHANGED askVars
           ELSE UNCHANGED <<free, level, bidVars, askVars, sideResult, aborted>>
    /\ toBid' = Tail(toBid)
    /\ UNCHANGED <<cached_tob, changed, phase, toAsk>>

\* One level of the second loop.
SnapshotAsk ==
    /\ phase = "applying"
    /\ toBid = <<>> /\ toAsk # <<>>
    /\ LET l == Head(toAsk)
       IN  IF l.quantity > 0
           THEN Asks!ApplyUpdate(l.price, l.quantity) /\ UNCHANGED bidVars
           ELSE UNCHANGED <<free, level, bidVars, askVars, sideResult, aborted>>
    /\ toAsk' = Tail(toAsk)
    /\ UNCHANGED <<cached_tob, changed, phase, toBid>>

SnapshotEnd ==
    /\ phase = "applying"
    /\ toBid = <<>> /\ toAsk = <<>>
    /\ cached_tob' = Top
    /\ changed' = TRUE
    /\ phase' = "idle"
    /\ UNCHANGED <<free, level, bidVars, askVars, sideResult, aborted, toBid, toAsk>>

Next ==
    \/ \E side \in {"BUY", "SELL"}, price \in Prices, quantity \in Quantities \cup {0} :
          Update(side, price, quantity)
    \/ Clear
    \/ \E b, a \in SnapshotLevels : SnapshotBegin(b, a)
    \/ ClearAsks
    \/ SnapshotBid
    \/ SnapshotAsk
    \/ SnapshotEnd

Spec == Init /\ [][Next]_vars

-----------------------------------------------------------------------------
(* What is asked of a book between two operations.                         *)

find_level(side, price) ==
    LET index == IF side = "BUY" THEN bidIndex ELSE askIndex
    IN  IF price \in DOMAIN index THEN index[price] ELSE NoNode

\* get_levels(depth), a side at a time.
get_levels(side, depth) == IF side = "BUY" THEN Bids!GetTopN(depth) ELSE Asks!GetTopN(depth)

bid_depth == Cardinality(bidTree)
ask_depth == Cardinality(askTree)
empty == bid_depth = 0 /\ ask_depth = 0

is_crossed ==
    /\ BestBidNode # NoNode /\ BestAskNode # NoNode
    /\ PriceAt(BestBidNode) >= PriceAt(BestAskNode)

-----------------------------------------------------------------------------
(* Correctness.                                                            *)

TypeOK ==
    /\ Bids!TypeOK /\ Asks!TypeOK
    /\ cached_tob \in [bid_price : Prices \cup {0}, bid_qty : Nat,
                       ask_price : Prices \cup {0}, ask_qty : Nat]
    /\ changed \in BOOLEAN
    /\ phase \in {"idle", "clear", "snapshot", "applying"}

\* Both sides draw from one pool without ever touching each other's nodes: trees
\* and hash maps agree on both sides, no node is on both sides, and every node
\* that is on neither is exactly once on the free stack.
SidesShareThePool ==
    /\ TypeOK
    /\ ~aborted
    /\ Bids!TreeMatchesIndex /\ Asks!TreeMatchesIndex
    /\ bidTree \cap askTree = {}
    /\ Len(free) = Cardinality(Nodes) - Cardinality(bidTree) - Cardinality(askTree)
    /\ \A n \in Nodes \ (bidTree \cup askTree) : \E i \in DOMAIN free : free[i] = n

\* Between operations all that is asked of the book gives one picture of it: the
\* lists of levels, best first, as long as the depth asked for allows, with just the
\* levels find_level() finds; the cached top and is_crossed() as the first of them
\* say; validate_tree(); and each side's cached N-th price, whatever was done to the
\* other side.
QueriesAgree ==
    phase = "idle" =>
        /\ \A side \in {"BUY", "SELL"}, depth \in 0 .. Cardinality(Nodes) :
              LET listed == get_levels(side, depth)
                  size == IF side = "BUY" THEN bid_depth ELSE ask_depth
              IN  /\ Len(listed) = IF depth < size THEN depth ELSE size
                  /\ \A i \in DOMAIN listed :
                        LET node == find_level(side, listed[i].price)
                        IN  node # NoNode /\ level[node] = listed[i]
                  /\ size = Cardinality({p \in Prices : find_level(side, p) # NoNode})
        /\ LET bid == get_levels("BUY", 1)
               ask == get_levels("SELL", 1)
           IN  /\ is_crossed <=>
                     bid # <<>> /\ ask # <<>> /\ cached_tob.bid_price >= cached_tob.ask_price
               /\ bid # <<>> => bid[1] = [price |-> cached_tob.bid_price,
                                         quantity |-> cached_tob.bid_qty]
               /\ ask # <<>> => ask[1] = [price |-> cached_tob.ask_price,
                                         quantity |-> cached_tob.ask_qty]
               /\ empty <=> cached_tob = EmptyTop
        /\ Bids!validate_tree /\ Asks!validate_tree
        /\ Bids!NthPriceCoherent /\ Asks!NthPriceCoherent

\* The book a client sees.  While clear() or snapshot() runs it is the book the
\* operation will leave: nobody can see the steps in between.
AsSide(index) == [p \in Prices |-> IF p \in DOMAIN index THEN level[index[p]].quantity ELSE 0]

View == INSTANCE BookLevels

\* A side with the levels still to apply on top of those applied.
Completed(index, levels) == View!WithLevels(AsSide(index), levels)
ViewedBids == Completed(bidIndex, toBid)
ViewedAsks == IF phase \in {"clear", "snapshot"} THEN View!FromLevels(toAsk)
              ELSE Completed(askIndex, toAsk)

\* Seen from outside, the book behaves as LevelBook: each side is what the updates
\* and snapshots say, update() returns true exactly when the top moved, and the
\* cached top is never stale.
Promised == INSTANCE LevelBook WITH
    bids <- ViewedBids,
    asks <- ViewedAsks,
    tob <- IF phase = "idle" THEN cached_tob ELSE View!TopOfBook(ViewedBids, ViewedAsks),
    changed <- (phase \in {"snapshot", "applying"} \/ changed)
ImplementsLevelBook == Promised!Spec

=============================================================================
