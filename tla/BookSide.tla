------------------------------ MODULE BookSide ------------------------------
(***************************************************************************)
(* One side of an order book: BookSide<Comparator> of                      *)
(* src/orderbook/book_side.hpp.                                            *)
(*                                                                         *)
(* A price level is a node of the memory pool, reachable in two ways: from *)
(* tree_, ordered best price first, and from index_, a hash map from price *)
(* to node.  nth_price_ caches the price of the top_n_depth_-th best level *)
(* so that affects_top_n() is one comparison.  What can go wrong is that   *)
(* one of the four disagrees with the others after some sequence of        *)
(* updates.                                                                *)
(*                                                                         *)
(* A book is used by one thread, so an operation is one step.  The pool is *)
(* a stack of free nodes, as the thread's cache in MemoryPool is: the node *)
(* freed last is handed out first.                                         *)
(***************************************************************************)
EXTENDS Integers, Sequences, FiniteSetsExt

CONSTANTS
    Nodes,       \* the pool's PriceLevelNode objects
    Prices,      \* prices of levels, as fixed-point integers
    Quantities,  \* quantities an update can set, other than 0
    HalfWord,    \* 2^63 in the code: quantities are uint64_t, delta_qty is int64_t
    Depths,      \* values of top_n_depth_
    Ascending    \* TRUE: AskComparator, lowest first; FALSE: BidComparator

ASSUME NodesAssumption == IsFiniteSet(Nodes)
ASSUME PricesAssumption == Prices \subseteq Int
ASSUME WordAssumption == HalfWord \in Nat \ {0}
ASSUME QuantitiesAssumption == Quantities \subseteq 1 .. 2 * HalfWord - 1
\* Depth 0 would make update_nth_price() advance its iterator by -1.
ASSUME DepthsAssumption == Depths \subseteq Nat \ {0} /\ Depths # {}
ASSUME AscendingAssumption == Ascending \in BOOLEAN

VARIABLES
    free,         \* nodes of the pool not in use, the next one handed out first
    level,        \* the content of every node in use
    tree,         \* tree_: the nodes linked into the red-black tree
    index,        \* index_: price -> node
    nth_price,    \* nth_price_
    top_n_depth,  \* top_n_depth_
    result,       \* the UpdateResult of the last apply_update
    aborted       \* std::abort() was called

vars == <<free, level, tree, index, nth_price, top_n_depth, result, aborted>>

-----------------------------------------------------------------------------
(* The order of a side, and positions in it.                               *)

Zero == 0       \* Price::zero(), the sentinel of nth_price_
Unused == [price |-> Zero, quantity |-> 0]

\* Comparator: is price p strictly better than price q?
Before(p, q) == IF Ascending THEN p < q ELSE p > q

\* The nodes of t that an iterator passes before it reaches price p.
Ahead(t, lv, p) == {m \in t : Before(lv[m].price, p)}

\* The node k steps after begin().
At(t, lv, k) == CHOOSE n \in t : Cardinality(Ahead(t, lv, lv[n].price)) = k

\* best(): the node at begin(), if any.
HasBest == tree # {}
Best == At(tree, level, 0)

\* get_top_n(n): the first n levels, best first; kth_level(k) is the k-th of them.
Min2(a, b) == IF a < b THEN a ELSE b
GetTopN(n) == [i \in 1 .. Min2(n, Cardinality(tree)) |-> level[At(tree, level, i - 1)]]

\* What update_nth_price() caches.
NthPrice(t, lv, depth) ==
    IF Cardinality(t) < depth
    THEN Zero
    ELSE lv[At(t, lv, depth - 1)].price

\* Seeded bug: the price of the N-th level does not count.
AffectsTopNStrict(t, price) ==
    \/ Cardinality(t) < top_n_depth
    \/ Before(price, nth_price)

\* affects_top_n(price) against a tree t and the cached nth_price_: ask prices
\* qualify when <= nth_price_, bid prices when >=.
AffectsTopN(t, price) ==
    \/ Cardinality(t) < top_n_depth
    \/ ~Before(nth_price, price)

-----------------------------------------------------------------------------
UpdateResult(delta, affects, isNew, isDeletion) ==
    [delta_qty |-> delta, affects_top_n |-> affects,
     is_new_level |-> isNew, is_deletion |-> isDeletion]

NoChange == UpdateResult(0, FALSE, FALSE, FALSE)

\* uint64_t, int64_t, and what an int64_t keeps of an n at most a word off its range:
\* the casts of quantities above 2^63 - 1 wrap, and so do the negation and the
\* subtraction that follow (in the build; to the language a signed overflow is
\* undefined).
Words == 0 .. 2 * HalfWord - 1
Int64s == -HalfWord .. HalfWord - 1
Int64(n) ==
    CASE n \in Int64s    -> n
      [] n >= HalfWord   -> n - 2 * HalfWord
      [] n < -HalfWord   -> n + 2 * HalfWord

\* A pool whose free nodes are stacked in the order given.
InitWith(stack) ==
    /\ free = stack
    /\ level = [n \in Nodes |-> Unused]
    /\ tree = {}
    /\ index = [p \in {} |-> Zero]
    /\ nth_price = Zero
    /\ top_n_depth \in Depths
    /\ result = NoChange
    /\ aborted = FALSE

Init ==
    \E stack \in [1 .. Cardinality(Nodes) -> Nodes] :
        /\ \A n \in Nodes : \E i \in DOMAIN stack : stack[i] = n
        /\ \A i, j \in DOMAIN stack : stack[i] = stack[j] => i = j
        /\ InitWith(stack)

(* apply_update(price, qty, seq), one action per case of the code.         *)

\* Deleting a level that does not exist.
IgnoreDelete(price, qty) ==
    /\ price \notin DOMAIN index
    /\ qty = 0
    /\ result' = NoChange
    /\ UNCHANGED <<free, level, tree, index, nth_price, top_n_depth, aborted>>

\* A new level.  affects_top_n() is asked after the insertion but before the cache
\* is refreshed.  An empty pool ends the process in construct(): no step.
InsertLevel(price, qty) ==
    LET node == Head(free)
        t == tree \cup {node}
        lv == [level EXCEPT ![node] = [price |-> price, quantity |-> qty]]
        affects == AffectsTopN(t, price)
    IN  /\ price \notin DOMAIN index
        /\ qty > 0
        /\ free # <<>>
        /\ free' = Tail(free)
        /\ level' = lv
        /\ IF \E m \in tree : level[m].price = price   \* tree_.insert refuses it
           THEN aborted' = TRUE /\ UNCHANGED <<tree, index, nth_price, top_n_depth, result>>
           ELSE /\ tree' = t
                /\ index' = [p \in DOMAIN index \cup {price} |->
                                 IF p = price THEN node ELSE index[p]]
                /\ result' = UpdateResult(Int64(qty), affects, TRUE, FALSE)
                /\ nth_price' =
                       IF \/ Cardinality(t) = top_n_depth
                          \/ Cardinality(t) > top_n_depth /\ affects
                       THEN NthPrice(t, lv, top_n_depth)
                       ELSE nth_price
                /\ UNCHANGED <<top_n_depth, aborted>>

\* Seeded bug: the hash entry outlives its level.
NotErased(prices) == index

\* The hash map without some prices.
Erased(prices) == [p \in DOMAIN index \ prices |-> index[p]]

\* A level is removed from tree, hash map and pool, in that order.
DeleteLevel(price, qty) ==
    LET node == index[price]
        wasInTopN == AffectsTopN(tree, price)
        t == tree \ {node}
    IN  /\ price \in DOMAIN index
        /\ qty = 0
        /\ tree' = t
        /\ index' = Erased({price})
        /\ free' = <<node>> \o free
        /\ level' = [level EXCEPT ![node] = Unused]
        /\ result' = UpdateResult(Int64(-Int64(level[node].quantity)),
                                  wasInTopN, FALSE, TRUE)
        /\ nth_price' = IF Cardinality(t) = top_n_depth - 1 \/ wasInTopN
                        THEN NthPrice(t, level, top_n_depth)
                        ELSE nth_price
        /\ UNCHANGED <<top_n_depth, aborted>>

\* Seeded bug: the quantities are added up instead of replaced.
AddedQuantity(node, qty) == [level EXCEPT ![node].quantity = @ + qty]

WithQuantity(node, qty) == [level EXCEPT ![node].quantity = qty]

\* An existing level gets a new quantity.
SetQuantity(price, qty) ==
    LET node == index[price]
    IN  /\ price \in DOMAIN index
        /\ qty > 0
        /\ level' = WithQuantity(node, qty)
        /\ result' = UpdateResult(Int64(Int64(qty) - Int64(level[node].quantity)),
                                  AffectsTopN(tree, price), FALSE, FALSE)
        /\ UNCHANGED <<free, tree, index, nth_price, top_n_depth, aborted>>

ApplyUpdate(price, qty) ==
    /\ ~aborted
    /\ \/ IgnoreDelete(price, qty)
       \/ InsertLevel(price, qty)
       \/ DeleteLevel(price, qty)
       \/ SetQuantity(price, qty)

\* clear(): every level, best first, goes back to the pool.
Clear ==
    LET n == Cardinality(tree)
    IN  /\ ~aborted
        /\ IF \E m \in tree : level[m].price \notin DOMAIN index
           THEN aborted' = TRUE /\ UNCHANGED <<free, level, tree, index, nth_price>>
           ELSE /\ free' = [i \in 1 .. n |-> At(tree, level, n - i)] \o free
                /\ level' = [m \in Nodes |-> IF m \in tree THEN Unused ELSE level[m]]
                /\ index' = Erased({level[m].price : m \in tree})
                /\ tree' = {}
                /\ nth_price' = Zero
                /\ UNCHANGED aborted
        /\ UNCHANGED <<top_n_depth, result>>

\* Seeded bug: the depth changes and the cache does not.
SetTopNDepthOnly(depth) ==
    /\ ~aborted
    /\ top_n_depth' = depth
    /\ UNCHANGED <<free, level, tree, index, nth_price, result, aborted>>

SetTopNDepth(depth) ==
    /\ ~aborted
    /\ top_n_depth' = depth
    /\ nth_price' = NthPrice(tree, level, depth)
    /\ UNCHANGED <<free, level, tree, index, result, aborted>>

Next ==
    \/ \E price \in Prices, qty \in Quantities \cup {0} : ApplyUpdate(price, qty)
    \/ Clear
    \/ \E depth \in Depths : SetTopNDepth(depth)

Spec == Init /\ [][Next]_vars

-----------------------------------------------------------------------------
(* validate_tree(), and what it looks at.                                  *)

InOrder(top) == \A i, j \in DOMAIN top : i < j => Before(top[i].price, top[j].price)
validate_bst_property == InOrder(GetTopN(Cardinality(tree)))

\* The loop over the hash entries finds nothing: the iterator it makes of a node
\* always points to that node.
validate_hash_coherence ==
    \A n \in tree : level[n].price \in DOMAIN index /\ index[level[n].price] = n

validate_tree == validate_bst_property /\ validate_hash_coherence

-----------------------------------------------------------------------------
(* Correctness.                                                            *)

TypeOK ==
    /\ free \in Seq(Nodes)
    /\ level \in [Nodes -> [price : Prices \cup {Zero}, quantity : Words]]
    /\ tree \subseteq Nodes
    /\ DOMAIN index \subseteq Prices /\ index \in [DOMAIN index -> Nodes]
    /\ nth_price \in Prices \cup {Zero}
    /\ top_n_depth \in Depths
    /\ result \in [delta_qty : Int64s, affects_top_n : BOOLEAN,
                   is_new_level : BOOLEAN, is_deletion : BOOLEAN]
    /\ aborted \in BOOLEAN

\* No operation finds the tree and the hash map in disagreement, the condition
\* under which apply_update and clear call std::abort().
NeverAborts == ~aborted

\* Tree and hash map hold the same levels: each node of the tree is the node its
\* price is mapped to, each mapped node is in the tree under that price, and has
\* a positive quantity (validate_hash_coherence, validate_bst_property).
TreeMatchesIndex ==
    /\ \A n \in tree : level[n].price \in DOMAIN index /\ index[level[n].price] = n
    /\ \A p \in DOMAIN index : index[p] \in tree /\ level[index[p]].price = p
    /\ \A n \in tree : level[n].quantity > 0

\* Every node is either in the tree or exactly once on the free stack: no level is
\* leaked, freed twice, or freed while it is still linked.
PoolAccounting ==
    /\ \A i \in DOMAIN free : free[i] \notin tree
    /\ \A i, j \in DOMAIN free : free[i] = free[j] => i = j
    /\ \A n \in Nodes \ tree : \E i \in DOMAIN free : free[i] = n

\* The inductive invariant of the two containers and the pool.
BookInvariant ==
    /\ TypeOK
    /\ NeverAborts
    /\ TreeMatchesIndex
    /\ PoolAccounting

\* The cached nth_price_ is the price of the N-th best level of the book, or the
\* sentinel when there is none.
NthPriceCoherent == nth_price = NthPrice(tree, level, top_n_depth)

\* affects_top_n(p) answers, for any price, whether fewer than N levels of the book
\* are strictly better: whether p is, or would be, among the N best.
AffectsTopNExact ==
    \A p \in Prices :
        AffectsTopN(tree, p) <=> Cardinality(Ahead(tree, level, p)) < top_n_depth

\* The prices of the N best levels, as get_top_n publishes them.
TopPrices == LET top == GetTopN(top_n_depth) IN {top[i].price : i \in DOMAIN top}

\* An update that adds, removes or changes a level among the N best says so, the
\* level that completes the first N excepted (see CompletingLevelReported).
TopNChangeReported ==
    [][\A price \in Prices, qty \in Quantities \cup {0} :
          ApplyUpdate(price, qty) /\ price \in TopPrices \cup TopPrices' =>
             \/ result'.affects_top_n
             \/ result'.is_new_level /\ Cardinality(tree') = top_n_depth]_vars

\* book_side.hpp:516 says of the sentinel: never used in affects_top_n().  Were
\* that so, a new level among the N best would always be reported as such.
CompletingLevelReported ==
    [][\A price \in Prices, qty \in Quantities :
          ApplyUpdate(price, qty) /\ result'.is_new_level /\ price \in TopPrices' =>
             result'.affects_top_n]_vars

\* Each delta_qty reported is the change of the quantity in the book as far as an
\* int64_t can say it: exact when the change is one, else a whole word off.  No other
\* error creeps in, whichever of the quantities lie beyond 2^63 - 1, for which the
\* casts of apply_update() have the sign wrong.
TotalQuantity == MapThenSumSet(LAMBDA n : level[n].quantity, tree)
DeltaQtyAccounts ==
    [][\A price \in Prices, qty \in Quantities \cup {0} :
          ApplyUpdate(price, qty) =>
             LET change == TotalQuantity' - TotalQuantity
             IN  /\ \E words \in -1 .. 1 :
                       change = result'.delta_qty + words * (2 * HalfWord)
                 /\ change \in Int64s => change = result'.delta_qty]_vars

=============================================================================
