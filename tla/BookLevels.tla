---------------------------- MODULE BookLevels -----------------------------
(***************************************************************************)
(* A side of an order book as its users see it: a quantity per price, 0    *)
(* where there is no level (src/orderbook/order_book.hpp).  The operators  *)
(* here say what lists of levels and updates make of a side and what the   *)
(* top of a book is; LevelBook.tla and OrderBookManager.tla are built on   *)
(* them.                                                                   *)
(***************************************************************************)
EXTENDS Integers, Sequences, FiniteSetsExt

CONSTANTS
    Prices,     \* prices of levels
    Quantities  \* quantities an update can set, other than 0

Sides == [Prices -> Quantities \cup {0}]
EmptySide == [p \in Prices |-> 0]
LevelsOf(side) == {p \in Prices : side[p] > 0}

BestBid(side) == Max(LevelsOf(side))
BestAsk(side) == Min(LevelsOf(side))

\* struct TopOfBook, all zero where a side is empty.
TopOfBook(b, a) ==
    [bid_price |-> IF LevelsOf(b) = {} THEN 0 ELSE BestBid(b),
     bid_qty   |-> IF LevelsOf(b) = {} THEN 0 ELSE b[BestBid(b)],
     ask_price |-> IF LevelsOf(a) = {} THEN 0 ELSE BestAsk(a),
     ask_qty   |-> IF LevelsOf(a) = {} THEN 0 ELSE a[BestAsk(a)]]

\* A list of levels on top of `side`: the last positive quantity given for a price
\* counts, zero quantities are skipped.
WithLevels(side, levels) ==
    [p \in Prices |->
        LET given == {i \in DOMAIN levels : levels[i].price = p /\ levels[i].quantity > 0}
        IN  IF given = {} THEN side[p] ELSE levels[Max(given)].quantity]

\* The side that a list of levels leaves.
FromLevels(levels) == WithLevels(EmptySide, levels)

\* The side that a list of updates, applied in order, makes of `side`.
Updated(side, updates) ==
    [p \in Prices |->
        LET given == {i \in DOMAIN updates : updates[i].price = p}
        IN  IF given = {} THEN side[p] ELSE updates[Max(given)].quantity]

=============================================================================
