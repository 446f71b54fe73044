----------------------------- MODULE LevelBook ------------------------------
(***************************************************************************)
(* What OrderBook (src/orderbook/order_book.hpp) promises its users: every *)
(* update sets one quantity and reports whether the top of the book moved, *)
(* a snapshot replaces the book, and top_of_book() is the top of the book. *)
(* OrderBook.tla, with its trees, hash maps, shared pool and cached top,   *)
(* is shown to implement this specification.                               *)
(***************************************************************************)
EXTENDS BookLevels

CONSTANT SnapshotLevels     \* lists of levels a snapshot may carry for a side

VARIABLES
    bids, asks,  \* the two sides
    tob,         \* what top_of_book() returns
    changed      \* what the last update() or snapshot() returned

bookVars == <<bids, asks, tob, changed>>

Init ==
    /\ bids = EmptySide
    /\ asks = EmptySide
    /\ tob = TopOfBook(EmptySide, EmptySide)
    /\ changed = FALSE

Update(side, price, quantity) ==
    /\ IF side = "BUY"
       THEN bids' = [bids EXCEPT ![price] = quantity] /\ UNCHANGED asks
       ELSE asks' = [asks EXCEPT ![price] = quantity] /\ UNCHANGED bids
    /\ tob' = TopOfBook(bids', asks')
    /\ changed' = (tob' # tob)

Snapshot(bidLevels, askLevels) ==
    /\ bids' = FromLevels(bidLevels)
    /\ asks' = FromLevels(askLevels)
    /\ tob' = TopOfBook(bids', asks')
    /\ changed' = TRUE

Clear ==
    /\ bids' = EmptySide
    /\ asks' = EmptySide
    /\ tob' = TopOfBook(EmptySide, EmptySide)
    /\ UNCHANGED changed

Next ==
    \/ \E side \in {"BUY", "SELL"}, price \in Prices, quantity \in Quantities \cup {0} :
          Update(side, price, quantity)
    \/ \E b, a \in SnapshotLevels : Snapshot(b, a)
    \/ Clear

Spec == Init /\ [][Next]_bookVars

=============================================================================
