--------------------------- MODULE BookSideProofs ---------------------------
(***************************************************************************)
(* BookSide.tla for every pool, every set of prices and quantities, every  *)
(* top-N depth and either side: the tree, the hash map and the pool always *)
(* agree, the cached nth_price_ is always that of the N-th best level, and *)
(* the result of each update says what the update did: the change of the   *)
(* quantity in the book, and any change among the best N.                  *)
(*                                                                         *)
(* The positions of levels are counted: the level k steps after begin() is *)
(* the one with k levels ahead of it.  That there is one for every k below *)
(* the size of the book (AtExists) is a pigeonhole argument, because       *)
(* distinct levels have distinct numbers of levels ahead of them           *)
(* (RankStrict).                                                           *)
(*                                                                         *)
(* The total quantity is a sum over a set, taken in an order CHOOSE picks. *)
(* That there is one such sum (SumExists, SumUnique) and that it does not  *)
(* depend on the order (SumWithout) is shown on a smallest set for which   *)
(* it would fail.                                                          *)
(***************************************************************************)
EXTENDS BookSide, FiniteSetTheorems, SequenceTheorems, WellFoundedInduction, TLAPS

\* A finite set of nodes with integer prices, no two alike: what a tree is.
Levels(t, lv) ==
    /\ IsFiniteSet(t)
    /\ \A n \in t : lv[n].price \in Int
    /\ \A m, n \in t : lv[m].price = lv[n].price => m = n

Rank(t, lv, n) == Cardinality(Ahead(t, lv, lv[n].price))

-----------------------------------------------------------------------------
(* Positions.                                                              *)

LEMMA AheadFinite ==
  ASSUME NEW t, IsFiniteSet(t), NEW lv, NEW p
  PROVE  /\ Ahead(t, lv, p) \subseteq t
         /\ IsFiniteSet(Ahead(t, lv, p))
         /\ Cardinality(Ahead(t, lv, p)) \in Nat
         /\ Cardinality(Ahead(t, lv, p)) <= Cardinality(t)
<1>1. Ahead(t, lv, p) \in SUBSET t
  BY DEF Ahead
<1> QED
  BY <1>1, FS_Subset, FS_CardinalityType

\* A strictly better level has strictly fewer levels ahead of it.
LEMMA RankStrict ==
  ASSUME NEW t, NEW lv, Levels(t, lv), NEW m \in t, NEW p \in Int,
         Before(lv[m].price, p)
  PROVE  Rank(t, lv, m) < Cardinality(Ahead(t, lv, p))
<1> DEFINE A == Ahead(t, lv, lv[m].price)
           B == Ahead(t, lv, p)
<1>1. IsFiniteSet(A) /\ IsFiniteSet(B) /\ Cardinality(A) \in Nat /\ Cardinality(B) \in Nat
  BY AheadFinite DEF Levels
<1>2. m \notin A /\ m \in B
  BY DEF Ahead, Before, Levels
<1>3. A \subseteq B
  BY DEF Ahead, Before, Levels
<1>4. A \cup {m} \in SUBSET B
  BY <1>2, <1>3
<1>5. Cardinality(A \cup {m}) = Cardinality(A) + 1
  BY <1>1, <1>2, FS_AddElement
<1>6. Cardinality(A \cup {m}) <= Cardinality(B)
  BY <1>1, <1>4, FS_Subset
<1> HIDE DEF A, B
<1>7. Cardinality(A) < Cardinality(B)
  BY <1>1, <1>5, <1>6
<1> QED
  BY <1>7 DEF Rank, A, B

LEMMA RankInjective ==
  ASSUME NEW t, NEW lv, Levels(t, lv), NEW m \in t, NEW n \in t,
         Rank(t, lv, m) = Rank(t, lv, n)
  PROVE  m = n
<1>1. Rank(t, lv, m) \in Nat /\ Rank(t, lv, n) \in Nat
  BY AheadFinite DEF Rank, Levels
<1>2. lv[m].price \in Int /\ lv[n].price \in Int
  BY DEF Levels
<1>3. ~Before(lv[m].price, lv[n].price)
  BY <1>1, <1>2, RankStrict DEF Rank
<1>4. ~Before(lv[n].price, lv[m].price)
  BY <1>1, <1>2, RankStrict DEF Rank
<1>5. lv[m].price = lv[n].price
  BY <1>2, <1>3, <1>4 DEF Before
<1> QED
  BY <1>5 DEF Levels

LEMMA RankBelowSize ==
  ASSUME NEW t, NEW lv, Levels(t, lv), NEW n \in t
  PROVE  Rank(t, lv, n) \in 0 .. Cardinality(t) - 1
<1> DEFINE A == Ahead(t, lv, lv[n].price)
<1>1. /\ A \subseteq t \ {n} /\ IsFiniteSet(t \ {n}) /\ IsFiniteSet(t)
      /\ Cardinality(t) \in Nat
      /\ Cardinality(t \ {n}) = Cardinality(t) - 1
  BY FS_RemoveElement, FS_CardinalityType DEF Ahead, Before, Levels
<1>2. Cardinality(A) \in Nat /\ Cardinality(A) <= Cardinality(t \ {n})
  BY <1>1, FS_Subset, FS_CardinalityType
<1> HIDE DEF A
<1>3. Cardinality(A) \in 0 .. Cardinality(t) - 1
  BY <1>1, <1>2
<1> QED
  BY <1>3 DEF Rank, A

\* Every position below the size of the book is some level's.
LEMMA AtExists ==
  ASSUME NEW t, NEW lv, Levels(t, lv), NEW k \in 0 .. Cardinality(t) - 1
  PROVE  At(t, lv, k) \in t /\ Rank(t, lv, At(t, lv, k)) = k
<1> DEFINE T == (0 .. Cardinality(t) - 1) \ {k}
           f == [n \in t |-> Rank(t, lv, n)]
<1>1. IsFiniteSet(t) /\ Cardinality(t) \in Nat
  BY FS_CardinalityType DEF Levels
<1>2. \E n \in t : Rank(t, lv, n) = k
  <2>1. SUFFICES ASSUME \A n \in t : Rank(t, lv, n) # k
                 PROVE  FALSE
    OBVIOUS
  <2>2. f \in [t -> T]
    BY <2>1, RankBelowSize
  <2>3. IsFiniteSet(0 .. Cardinality(t) - 1) /\ Cardinality(0 .. Cardinality(t) - 1) = Cardinality(t)
    <3>1. Cardinality(t) - 1 \in Int
      BY <1>1
    <3> QED
      BY <1>1, <3>1, FS_Interval
  <2>4. IsFiniteSet(T) /\ Cardinality(T) = Cardinality(t) - 1
    BY <2>3, FS_RemoveElement
  <2>5. Cardinality(T) < Cardinality(t)
    BY <1>1, <2>4
  <2> HIDE DEF T, f
  <2>6. \E x, y \in t : x # y /\ f[x] = f[y]
    BY <1>1, <2>2, <2>4, <2>5, FS_PigeonHole
  <2> QED
    BY <2>6, RankInjective DEF f
<1> QED
  BY <1>2 DEF At, Rank

LEMMA AtUnique ==
  ASSUME NEW t, NEW lv, Levels(t, lv), NEW n \in t
  PROVE  At(t, lv, Rank(t, lv, n)) = n
<1>1. Rank(t, lv, n) \in 0 .. Cardinality(t) - 1
  BY RankBelowSize
<1>2. /\ At(t, lv, Rank(t, lv, n)) \in t
      /\ Rank(t, lv, At(t, lv, Rank(t, lv, n))) = Rank(t, lv, n)
  BY <1>1, AtExists
<1> QED
  BY <1>2, RankInjective

-----------------------------------------------------------------------------
(* The cached price.                                                       *)

\* With nth the N-th best price, or the sentinel, comparing with nth tells how
\* many levels are better than p.
LEMMA CachedComparison ==
  ASSUME NEW t, NEW lv, Levels(t, lv), NEW d \in Nat \ {0}, NEW p \in Int,
         NEW nth, nth = NthPrice(t, lv, d)
  PROVE  (Cardinality(t) < d \/ ~Before(nth, p)) <=> Cardinality(Ahead(t, lv, p)) < d
<1> DEFINE A == Ahead(t, lv, p)
           n == At(t, lv, d - 1)
<1>1. /\ Cardinality(t) \in Nat /\ Cardinality(A) \in Nat
      /\ Cardinality(A) <= Cardinality(t) /\ IsFiniteSet(t)
  BY AheadFinite, FS_CardinalityType DEF Levels
<1>2. CASE Cardinality(t) < d
  <2> HIDE DEF A
  <2>1. Cardinality(A) < d
    BY <1>1, <1>2
  <2> QED
    BY <1>2, <2>1 DEF A
<1>3. CASE ~(Cardinality(t) < d)
  <2>1. n \in t /\ Rank(t, lv, n) = d - 1 /\ nth = lv[n].price
    <3>1. d - 1 \in 0 .. Cardinality(t) - 1
      BY <1>1, <1>3
    <3> QED
      BY <3>1, <1>3, AtExists DEF NthPrice
  <2> HIDE DEF n
  <2>2. CASE Before(nth, p)
    <3>1. Rank(t, lv, n) < Cardinality(A)
      BY <2>1, <2>2, RankStrict
    <3> HIDE DEF A
    <3>2. ~(Cardinality(A) < d)
      BY <1>1, <2>1, <3>1
    <3> QED
      BY <1>3, <2>2, <3>2 DEF A
  <2>3. CASE ~Before(nth, p)
    <3> DEFINE B == Ahead(t, lv, lv[n].price)
    <3>1. A \in SUBSET B
      BY <2>1, <2>3 DEF Ahead, Before, Levels
    <3>2. IsFiniteSet(B) /\ Cardinality(B) = d - 1
      BY <2>1, <1>1, AheadFinite DEF Rank
    <3>3. Cardinality(A) <= Cardinality(B)
      BY <3>1, <3>2, FS_Subset
    <3> HIDE DEF A, B
    <3>4. Cardinality(A) < d
      BY <1>1, <3>2, <3>3
    <3> QED
      BY <2>3, <3>4 DEF A
  <2> QED
    BY <2>2, <2>3
<1> QED
  BY <1>2, <1>3

\* The N-th price stays when its level stays and the same levels are ahead of it.
LEMMA NthStable ==
  ASSUME NEW t, NEW lv, Levels(t, lv), NEW u, NEW lw, Levels(u, lw),
         NEW d \in Nat \ {0}, d <= Cardinality(t), d <= Cardinality(u),
         NEW n, n = At(t, lv, d - 1), n \in u, lw[n].price = lv[n].price,
         Ahead(u, lw, lv[n].price) = Ahead(t, lv, lv[n].price)
  PROVE  NthPrice(u, lw, d) = NthPrice(t, lv, d)
<1>1. Cardinality(t) \in Nat /\ Cardinality(u) \in Nat
  BY FS_CardinalityType DEF Levels
<1>2. n \in t /\ Rank(t, lv, n) = d - 1
  <2>1. d - 1 \in 0 .. Cardinality(t) - 1
    BY <1>1
  <2> QED
    BY <2>1, AtExists
<1>3. Rank(u, lw, n) = d - 1
  BY <1>2 DEF Rank
<1>4. At(u, lw, d - 1) = n
  BY <1>3, AtUnique
<1>5. ~(Cardinality(t) < d) /\ ~(Cardinality(u) < d)
  BY <1>1
<1> QED
  BY <1>4, <1>5 DEF NthPrice

\* A level worse than the N-th best can come and go without moving the N-th best.
LEMMA NthStableBehind ==
  ASSUME NEW t, NEW lv, Levels(t, lv), NEW x, x \notin t,
         NEW u, u = t \cup {x}, NEW lw, Levels(u, lw),
         \A n \in t : lw[n].price = lv[n].price,
         NEW d \in Nat \ {0}, d <= Cardinality(t),
         \/ Before(NthPrice(t, lv, d), lw[x].price)
         \/ Before(NthPrice(u, lw, d), lw[x].price)
  PROVE  NthPrice(u, lw, d) = NthPrice(t, lv, d)
<1>1. /\ Cardinality(t) \in Nat /\ Cardinality(u) = Cardinality(t) + 1
      /\ d <= Cardinality(u) /\ d - 1 \in 0 .. Cardinality(t) - 1
      /\ d - 1 \in 0 .. Cardinality(u) - 1
      /\ ~(Cardinality(t) < d) /\ ~(Cardinality(u) < d)
  <2>1. Cardinality(t) \in Nat /\ Cardinality(u) = Cardinality(t) + 1
    BY FS_CardinalityType, FS_AddElement DEF Levels
  <2> QED
    BY <2>1
<1>2. CASE Before(NthPrice(t, lv, d), lw[x].price)
  <2> DEFINE n == At(t, lv, d - 1)
  <2>1. n \in t
    BY <1>1, AtExists
  <2>2. Before(lv[n].price, lw[x].price)
    BY <1>1, <1>2 DEF NthPrice
  <2> HIDE DEF n
  <2>3. Ahead(u, lw, lv[n].price) = Ahead(t, lv, lv[n].price)
    BY <2>1, <2>2 DEF Ahead, Before, Levels
  <2> QED
    BY <1>1, <2>1, <2>3, NthStable DEF n
<1>3. CASE Before(NthPrice(u, lw, d), lw[x].price)
  <2> DEFINE n == At(u, lw, d - 1)
  <2>1. n \in u
    BY <1>1, AtExists
  <2>2. Before(lw[n].price, lw[x].price)
    BY <1>1, <1>3 DEF NthPrice
  <2> HIDE DEF n
  <2>3. n \in t /\ lv[n].price = lw[n].price
    BY <2>1, <2>2 DEF Before, Levels
  <2>4. Ahead(t, lv, lw[n].price) = Ahead(u, lw, lw[n].price)
    BY <2>2, <2>3 DEF Ahead, Before, Levels
  <2>5. NthPrice(t, lv, d) = NthPrice(u, lw, d)
    BY <1>1, <2>3, <2>4, NthStable DEF n
  <2> QED
    BY <2>5
<1> QED
  BY <1>2, <1>3

\* The N-th price depends on the prices of the levels only.
LEMMA NthOfPrices ==
  ASSUME NEW t, NEW lv, NEW lw, \A n \in t : lw[n].price = lv[n].price,
         Levels(t, lv), NEW d \in Nat \ {0}
  PROVE  NthPrice(t, lw, d) = NthPrice(t, lv, d)
<1>1. Levels(t, lw)
  BY DEF Levels
<1>2. Cardinality(t) \in Nat
  BY FS_CardinalityType DEF Levels
<1>3. CASE Cardinality(t) < d
  BY <1>3 DEF NthPrice
<1>4. CASE d <= Cardinality(t)
  <2> DEFINE n == At(t, lv, d - 1)
  <2>1. d - 1 \in 0 .. Cardinality(t) - 1
    BY <1>2, <1>4
  <2>2. n \in t
    BY <2>1, AtExists
  <2> HIDE DEF n
  <2>3. Ahead(t, lw, lv[n].price) = Ahead(t, lv, lv[n].price)
    BY DEF Ahead
  <2> QED
    BY <1>1, <1>4, <2>2, <2>3, NthStable DEF n
<1> QED
  BY <1>2, <1>3, <1>4

\* The cached price is a price of the book or the sentinel.
LEMMA NthPriceType ==
  ASSUME NEW t, NEW lv, Levels(t, lv), NEW d \in Nat \ {0}
  PROVE  NthPrice(t, lv, d) = Zero \/ \E n \in t : NthPrice(t, lv, d) = lv[n].price
<1>1. Cardinality(t) \in Nat
  BY FS_CardinalityType DEF Levels
<1>2. CASE Cardinality(t) < d
  BY <1>2 DEF NthPrice
<1>3. CASE d <= Cardinality(t)
  <2>1. d - 1 \in 0 .. Cardinality(t) - 1 /\ ~(Cardinality(t) < d)
    BY <1>1, <1>3
  <2> QED
    BY <2>1, AtExists DEF NthPrice
<1> QED
  BY <1>1, <1>2, <1>3

-----------------------------------------------------------------------------
(* The inductive invariant.                                                *)

\* Coherence of the cache is inductive together with that of the containers.
SideInvariant == BookInvariant /\ NthPriceCoherent

LEMMA ZeroIsWord == 0 \in Words /\ 0 \in Int64s
BY WordAssumption DEF Words, Int64s

LEMMA QuantityIsWord ==
  ASSUME NEW qty \in Quantities \cup {0}
  PROVE  qty \in Words /\ qty \in Nat
BY WordAssumption, QuantitiesAssumption DEF Words

\* An int64_t that equals a change of quantity if it can, else modulo 2^64.
Says(delta, change) ==
    /\ delta \in Int64s
    /\ \E words \in -1 .. 1 : change = delta + words * (2 * HalfWord)
    /\ change \in Int64s => change = delta

\* What the three casts of apply_update() make of unsigned quantities.
LEMMA Int64OfDifferences ==
  ASSUME NEW q \in Words, NEW r \in Words
  PROVE  /\ Says(Int64(q), q)
         /\ Says(Int64(-Int64(q)), -q)
         /\ Says(Int64(Int64(q) - Int64(r)), q - r)
<1> DEFINE Near(delta, change) ==
               /\ delta \in Int /\ delta >= -HalfWord /\ delta < HalfWord
               /\ \/ change = delta
                  \/ change = delta + 2 * HalfWord
                  \/ change = delta - 2 * HalfWord
<1>0. HalfWord \in Nat /\ HalfWord > 0
  BY WordAssumption
<1>1. q \in Int /\ q >= 0 /\ q < 2 * HalfWord /\ r \in Int /\ r >= 0 /\ r < 2 * HalfWord
  BY <1>0 DEF Words
<1>2. \A n \in Int : Int64(n) = IF n >= HalfWord THEN n - 2 * HalfWord
                                 ELSE IF n < -HalfWord THEN n + 2 * HalfWord ELSE n
  BY <1>0 DEF Int64, Int64s
<1>3. \A n \in Int : n \in Int64s <=> n >= -HalfWord /\ n < HalfWord
  BY <1>0 DEF Int64s
<1>4. ASSUME NEW delta, NEW change \in Int, Near(delta, change)
      PROVE  Says(delta, change)
  <2>1. \/ change = delta + 0 * (2 * HalfWord)
        \/ change = delta + 1 * (2 * HalfWord)
        \/ change = delta + (-1) * (2 * HalfWord)
    BY <1>0, <1>4
  <2>2. \E words \in -1 .. 1 : change = delta + words * (2 * HalfWord)
    <3>1. 0 \in -1 .. 1 /\ 1 \in -1 .. 1 /\ -1 \in -1 .. 1
      OBVIOUS
    <3> QED
      BY <2>1, <3>1
  <2>3. delta \in Int64s /\ (change \in Int64s => change = delta)
    BY <1>0, <1>3, <1>4
  <2> QED
    BY <2>2, <2>3 DEF Says
<1>5. Near(Int64(q), q) /\ Near(Int64(r), r)
  BY <1>0, <1>1, <1>2
<1>6. Near(Int64(-Int64(q)), -q)
  BY <1>0, <1>1, <1>2, <1>5
<1>7. Near(Int64(Int64(q) - Int64(r)), q - r)
  <2> DEFINE a == Int64(q)
             b == Int64(r)
  <2>1. a \in Int /\ b \in Int /\ a - b \in Int
    BY <1>5
  <2>2. Int64(a - b) = IF a - b >= HalfWord THEN a - b - 2 * HalfWord
                       ELSE IF a - b < -HalfWord THEN a - b + 2 * HalfWord ELSE a - b
    BY <1>2, <2>1
  <2>3. Near(a, q) /\ Near(b, r)
    BY <1>5
  <2> HIDE DEF a, b
  <2>4. Near(Int64(a - b), q - r)
    BY <1>0, <1>1, <2>1, <2>2, <2>3
  <2> QED
    BY <2>4 DEF a, b
<1> HIDE DEF Near
<1>8. q - r \in Int /\ -q \in Int
  BY <1>1
<1> QED
  BY <1>1, <1>4, <1>5, <1>6, <1>7, <1>8

LEMMA TreeIsLevels ==
  ASSUME BookInvariant
  PROVE  Levels(tree, level)
<1>1. IsFiniteSet(tree)
  <2>1. tree \in SUBSET Nodes
    BY DEF BookInvariant, TypeOK
  <2> QED
    BY <2>1, FS_Subset, NodesAssumption
<1>2. \A n \in tree : level[n].price \in Prices /\ index[level[n].price] = n
  BY DEF BookInvariant, TypeOK, TreeMatchesIndex
<1> QED
  BY <1>1, <1>2, PricesAssumption DEF Levels

LEMMA InitSide == Init => SideInvariant
<1> SUFFICES ASSUME Init PROVE SideInvariant
  OBVIOUS
<1>1. PICK stack \in [1 .. Cardinality(Nodes) -> Nodes] :
        /\ \A n \in Nodes : \E i \in DOMAIN stack : stack[i] = n
        /\ \A i, j \in DOMAIN stack : stack[i] = stack[j] => i = j
        /\ InitWith(stack)
  BY DEF Init
<1>2. Cardinality(Nodes) \in Nat
  BY NodesAssumption, FS_CardinalityType
<1>3. stack \in Seq(Nodes)
  BY <1>1, <1>2
<1>4. TypeOK
  <2>1. Unused \in [price : Prices \cup {Zero}, quantity : Words]
    BY ZeroIsWord DEF Unused
  <2>2. NoChange \in [delta_qty : Int64s, affects_top_n : BOOLEAN,
                      is_new_level : BOOLEAN, is_deletion : BOOLEAN]
    BY Int64OfDifferences, ZeroIsWord DEF NoChange, UpdateResult
  <2>3. DOMAIN index = {} /\ index \in [DOMAIN index -> Nodes]
    BY <1>1 DEF InitWith
  <2>4. level \in [Nodes -> [price : Prices \cup {Zero}, quantity : Words]]
    BY <1>1, <2>1 DEF InitWith
  <2> QED
    BY <1>1, <1>3, <2>2, <2>3, <2>4 DEF InitWith, TypeOK
<1>5. NeverAborts /\ TreeMatchesIndex /\ PoolAccounting
  <2>1. tree = {} /\ DOMAIN index = {} /\ free = stack /\ aborted = FALSE
    BY <1>1 DEF InitWith
  <2> QED
    BY <1>1, <2>1 DEF NeverAborts, TreeMatchesIndex, PoolAccounting
<1>6. NthPriceCoherent
  <2>1. tree = {} /\ nth_price = Zero /\ top_n_depth \in Nat \ {0}
    BY <1>1, DepthsAssumption DEF InitWith
  <2>2. Cardinality(tree) = 0
    BY <2>1, FS_EmptySet
  <2> QED
    BY <2>1, <2>2 DEF NthPriceCoherent, NthPrice
<1> QED
  BY <1>4, <1>5, <1>6 DEF SideInvariant, BookInvariant

\* A new level: the node at the top of the free stack goes into the tree.
LEMMA InsertPreserves ==
  ASSUME SideInvariant, NEW price \in Prices, NEW qty \in Quantities \cup {0},
         ~aborted, InsertLevel(price, qty)
  PROVE  SideInvariant'
<1> DEFINE node == Head(free)
           t == tree \cup {node}
           lv == [level EXCEPT ![node] = [price |-> price, quantity |-> qty]]
           affects == AffectsTopN(t, price)
<1>a. TypeOK /\ TreeMatchesIndex /\ PoolAccounting /\ NthPriceCoherent /\ Levels(tree, level)
  BY TreeIsLevels DEF SideInvariant, BookInvariant
<1>b. /\ price \notin DOMAIN index /\ qty \in Words /\ qty \in Nat /\ qty > 0 /\ free # <<>>
      /\ free' = Tail(free) /\ level' = lv
  BY QuantityIsWord DEF InsertLevel
<1>c. free \in Seq(Nodes) /\ node \in Nodes /\ node = free[1] /\ 1 \in DOMAIN free
  BY <1>a, <1>b DEF TypeOK
<1>d. node \notin tree
  BY <1>a, <1>c DEF PoolAccounting
<1>e. ~ \E m \in tree : level[m].price = price
  BY <1>a, <1>b DEF TreeMatchesIndex
<1>f. /\ tree' = t /\ aborted' = aborted /\ top_n_depth' = top_n_depth
      /\ index' = [p \in DOMAIN index \cup {price} |-> IF p = price THEN node ELSE index[p]]
      /\ result' = UpdateResult(Int64(qty), affects, TRUE, FALSE)
      /\ nth_price' = IF \/ Cardinality(t) = top_n_depth
                         \/ Cardinality(t) > top_n_depth /\ affects
                      THEN NthPrice(t, lv, top_n_depth)
                      ELSE nth_price
  BY <1>e DEF InsertLevel
<1>g. /\ lv \in [Nodes -> [price : Prices \cup {Zero}, quantity : Words]]
      /\ lv[node] = [price |-> price, quantity |-> qty]
      /\ \A n \in tree : lv[n] = level[n]
  BY <1>a, <1>b, <1>c, <1>d DEF TypeOK
<1>h. Levels(t, lv) /\ Cardinality(t) = Cardinality(tree) + 1 /\ Cardinality(tree) \in Nat
  <2>1. IsFiniteSet(t) /\ Cardinality(t) = Cardinality(tree) + 1 /\ Cardinality(tree) \in Nat
    BY <1>a, <1>d, FS_AddElement, FS_CardinalityType DEF Levels
  <2>2. \A n \in t : lv[n].price \in Int
    <3>1. lv[node].price \in Int
      BY <1>g, PricesAssumption
    <3>2. \A n \in tree : lv[n].price \in Int
      BY <1>a, <1>g DEF Levels
    <3> HIDE DEF lv, node
    <3> QED
      BY <3>1, <3>2
  <2>3. \A m, n \in t : lv[m].price = lv[n].price => m = n
    BY <1>a, <1>e, <1>g DEF Levels
  <2> QED
    BY <2>1, <2>2, <2>3 DEF Levels
<1>i. top_n_depth \in Nat \ {0}
  BY <1>a, DepthsAssumption DEF TypeOK
<1> HIDE DEF t, lv
<1>1. NthPriceCoherent'
  <2>1. SUFFICES nth_price' = NthPrice(t, lv, top_n_depth)
    BY <1>b, <1>f DEF NthPriceCoherent
  <2>2. CASE Cardinality(t) = top_n_depth \/ (Cardinality(t) > top_n_depth /\ affects)
    BY <1>f, <2>2
  <2>3. CASE Cardinality(t) < top_n_depth
    \* The book was narrower than N before, so the sentinel was cached already.
    <3>1. nth_price' = nth_price /\ nth_price = Zero
      BY <1>a, <1>f, <1>h, <1>i, <2>3 DEF NthPriceCoherent, NthPrice
    <3> QED
      BY <2>3, <3>1 DEF NthPrice
  <2>4. CASE Cardinality(t) > top_n_depth /\ ~affects
    <3>1. nth_price' = nth_price /\ top_n_depth <= Cardinality(tree)
      BY <1>f, <1>h, <1>i, <2>4
    <3>2. Before(NthPrice(tree, level, top_n_depth), lv[node].price)
      BY <1>a, <1>g, <2>4 DEF AffectsTopN, NthPriceCoherent
    <3> HIDE DEF node
    <3>3. /\ Levels(tree, level) /\ Levels(t, lv)
          /\ node \notin tree /\ t = tree \cup {node}
          /\ \A n \in tree : lv[n].price = level[n].price
      BY <1>a, <1>d, <1>g, <1>h DEF t
    <3>4. NthPrice(t, lv, top_n_depth) = NthPrice(tree, level, top_n_depth)
      BY <1>i, <3>1, <3>2, <3>3, NthStableBehind
    <3> QED
      BY <1>a, <3>1, <3>4 DEF NthPriceCoherent
  <2> QED
    BY <1>h, <1>i, <2>2, <2>3, <2>4
<1>2. TypeOK'
  <2>1. nth_price' \in Prices \cup {Zero}
    <3>1. NthPrice(t, lv, top_n_depth) = Zero \/ \E n \in t : NthPrice(t, lv, top_n_depth) = lv[n].price
      BY <1>h, <1>i, NthPriceType
    <3>2. \A n \in t : lv[n].price \in Prices \cup {Zero}
      BY <1>a, <1>c, <1>g DEF TypeOK, t
    <3> QED
      BY <1>a, <1>f, <3>1, <3>2 DEF TypeOK
  <2>2. result' \in [delta_qty : Int64s, affects_top_n : BOOLEAN,
                     is_new_level : BOOLEAN, is_deletion : BOOLEAN]
    BY <1>b, <1>f, Int64OfDifferences DEF Says, UpdateResult, AffectsTopN
  <2>3. free' \in Seq(Nodes)
    BY <1>b, <1>c
  <2>4. DOMAIN index' \subseteq Prices /\ index' \in [DOMAIN index' -> Nodes]
    BY <1>a, <1>c, <1>f DEF TypeOK
  <2> QED
    BY <1>a, <1>b, <1>c, <1>f, <1>g, <2>1, <2>2, <2>3, <2>4 DEF TypeOK, t
<1>3. NeverAborts'
  BY <1>f DEF SideInvariant, BookInvariant, NeverAborts
<1>4. TreeMatchesIndex'
  <2>1. DOMAIN index' = DOMAIN index \cup {price} /\ index'[price] = node
    BY <1>f
  <2>2. \A p \in DOMAIN index : p # price /\ index'[p] = index[p]
    BY <1>b, <1>f
  <2> HIDE DEF node
  <2>3. \A n \in tree' : level'[n].price \in DOMAIN index' /\ index'[level'[n].price] = n
    BY <1>a, <1>b, <1>f, <1>g, <2>1, <2>2 DEF TreeMatchesIndex, t
  <2>4. \A p \in DOMAIN index' : index'[p] \in tree' /\ level'[index'[p]].price = p
    BY <1>a, <1>b, <1>f, <1>g, <2>1, <2>2 DEF TreeMatchesIndex, t
  <2>5. \A n \in tree' : level'[n].quantity > 0
    BY <1>a, <1>b, <1>f, <1>g DEF TreeMatchesIndex, t
  <2> QED
    BY <2>3, <2>4, <2>5 DEF TreeMatchesIndex
<1>5. PoolAccounting'
  <2>1. /\ Len(free) \in Nat /\ Len(free) > 0 /\ DOMAIN free = 1 .. Len(free)
        /\ DOMAIN free' = 1 .. Len(free) - 1
        /\ \A i \in DOMAIN free' : i + 1 \in DOMAIN free /\ free'[i] = free[i + 1]
    BY <1>b, <1>c
  <2>2. \A i \in DOMAIN free' : free'[i] \notin tree'
    BY <1>a, <1>c, <1>f, <2>1 DEF PoolAccounting, t
  <2>3. \A i, j \in DOMAIN free' : free'[i] = free'[j] => i = j
    BY <1>a, <2>1 DEF PoolAccounting
  <2>4. ASSUME NEW n \in Nodes \ tree'
        PROVE  \E i \in DOMAIN free' : free'[i] = n
    <3>1. PICK i \in DOMAIN free : free[i] = n
      BY <1>a, <1>f, <2>4 DEF PoolAccounting, t
    <3>2. i # 1
      BY <1>c, <1>f, <2>4, <3>1 DEF t
    <3>3. i - 1 \in DOMAIN free' /\ free'[i - 1] = n
      BY <2>1, <3>1, <3>2
    <3> QED
      BY <3>3
  <2> QED
    BY <2>2, <2>3, <2>4 DEF PoolAccounting
<1> QED
  BY <1>1, <1>2, <1>3, <1>4, <1>5 DEF SideInvariant, BookInvariant

\* A deleted level: its node goes back on top of the free stack.
LEMMA DeletePreserves ==
  ASSUME SideInvariant, NEW price \in Prices, NEW qty \in Quantities \cup {0},
         ~aborted, DeleteLevel(price, qty)
  PROVE  SideInvariant'
<1> DEFINE node == index[price]
           t == tree \ {node}
           wasInTopN == AffectsTopN(tree, price)
<1>a. TypeOK /\ TreeMatchesIndex /\ PoolAccounting /\ NthPriceCoherent /\ Levels(tree, level)
  BY TreeIsLevels DEF SideInvariant, BookInvariant
<1>b. /\ price \in DOMAIN index /\ tree' = t
      /\ index' = [p \in DOMAIN index \ {price} |-> index[p]]
      /\ free' = <<node>> \o free
      /\ level' = [level EXCEPT ![node] = Unused]
      /\ result' = UpdateResult(Int64(-Int64(level[node].quantity)), wasInTopN, FALSE, TRUE)
      /\ nth_price' = IF Cardinality(t) = top_n_depth - 1 \/ wasInTopN
                      THEN NthPrice(t, level, top_n_depth)
                      ELSE nth_price
      /\ top_n_depth' = top_n_depth /\ aborted' = aborted
  BY DEF DeleteLevel, Erased
<1>c. node \in tree /\ node \in Nodes /\ level[node].price = price /\ level[node].quantity \in Words
  BY <1>a, <1>b DEF TreeMatchesIndex, TypeOK
<1>d. /\ level' \in [Nodes -> [price : Prices \cup {Zero}, quantity : Words]]
      /\ \A n \in t : level'[n] = level[n]
  <2>1. Unused \in [price : Prices \cup {Zero}, quantity : Words]
    BY ZeroIsWord DEF Unused
  <2> QED
    BY <1>a, <1>b, <1>c, <2>1 DEF TypeOK
<1>e. /\ Levels(t, level) /\ Cardinality(t) = Cardinality(tree) - 1
      /\ Cardinality(tree) \in Nat /\ Cardinality(t) \in Nat
  <2>1. /\ IsFiniteSet(t) /\ Cardinality(t) = Cardinality(tree) - 1
        /\ Cardinality(tree) \in Nat /\ Cardinality(t) \in Nat
    BY <1>a, <1>c, FS_RemoveElement, FS_CardinalityType DEF Levels
  <2> QED
    BY <1>a, <2>1 DEF Levels
<1>f. top_n_depth \in Nat \ {0}
  BY <1>a, DepthsAssumption DEF TypeOK
<1> HIDE DEF t, node
<1>1. NthPriceCoherent'
  <2>1. NthPrice(t, level', top_n_depth) = NthPrice(t, level, top_n_depth)
    BY <1>d, <1>e, <1>f, NthOfPrices
  <2>2. SUFFICES nth_price' = NthPrice(t, level, top_n_depth)
    BY <1>b, <2>1 DEF NthPriceCoherent
  <2>3. CASE Cardinality(t) = top_n_depth - 1 \/ wasInTopN
    BY <1>b, <2>3
  <2>4. CASE ~(Cardinality(t) = top_n_depth - 1 \/ wasInTopN)
    <3>1. nth_price' = nth_price /\ top_n_depth <= Cardinality(t)
      BY <1>b, <1>e, <1>f, <2>4 DEF AffectsTopN
    <3>2. Before(NthPrice(tree, level, top_n_depth), level[node].price)
      BY <1>a, <1>c, <2>4 DEF AffectsTopN, NthPriceCoherent
    <3>3. node \notin t /\ tree = t \cup {node}
      BY <1>c DEF t
    <3>4. NthPrice(tree, level, top_n_depth) = NthPrice(t, level, top_n_depth)
      BY <1>a, <1>e, <1>f, <3>1, <3>2, <3>3, NthStableBehind
    <3> QED
      BY <1>a, <3>1, <3>4 DEF NthPriceCoherent
  <2> QED
    BY <2>3, <2>4
<1>2. TypeOK'
  <2>1. nth_price' \in Prices \cup {Zero}
    <3>1. NthPrice(t, level, top_n_depth) = Zero \/ \E n \in t : NthPrice(t, level, top_n_depth) = level[n].price
      BY <1>e, <1>f, NthPriceType
    <3>2. \A n \in t : level[n].price \in Prices \cup {Zero}
      BY <1>a DEF TypeOK, t
    <3> QED
      BY <1>a, <1>b, <3>1, <3>2 DEF TypeOK
  <2>2. result' \in [delta_qty : Int64s, affects_top_n : BOOLEAN,
                     is_new_level : BOOLEAN, is_deletion : BOOLEAN]
    BY <1>b, <1>c, Int64OfDifferences DEF Says, UpdateResult, AffectsTopN
  <2>3. free' \in Seq(Nodes)
    BY <1>a, <1>b, <1>c DEF TypeOK
  <2>4. DOMAIN index' \subseteq Prices /\ index' \in [DOMAIN index' -> Nodes]
    BY <1>a, <1>b DEF TypeOK
  <2> QED
    BY <1>a, <1>b, <1>d, <2>1, <2>2, <2>3, <2>4 DEF TypeOK, t
<1>3. NeverAborts'
  BY <1>b DEF SideInvariant, BookInvariant, NeverAborts
<1>4. TreeMatchesIndex'
  BY <1>a, <1>b, <1>c, <1>d DEF TreeMatchesIndex, t
<1>5. PoolAccounting'
  <2>1. free \in Seq(Nodes) /\ <<node>> \in Seq(Nodes)
    BY <1>a, <1>c DEF TypeOK
  <2>2. /\ Len(free) \in Nat /\ DOMAIN free = 1 .. Len(free)
        /\ DOMAIN free' = 1 .. Len(free) + 1
        /\ free'[1] = node
        /\ \A i \in DOMAIN free : free'[i + 1] = free[i]
    BY <1>b, <2>1
  <2>3. \A i \in DOMAIN free' : i = 1 \/ (i - 1 \in DOMAIN free /\ free'[i] = free[i - 1])
    BY <2>2
  <2>4. \A i \in DOMAIN free' : free'[i] \notin tree'
    BY <1>a, <1>b, <2>2, <2>3 DEF PoolAccounting, t
  <2>5. \A i, j \in DOMAIN free' : free'[i] = free'[j] => i = j
    BY <1>a, <1>c, <2>2, <2>3 DEF PoolAccounting
  <2>6. \A n \in Nodes \ tree' : \E i \in DOMAIN free' : free'[i] = n
    <3> SUFFICES ASSUME NEW n \in Nodes \ tree'
                 PROVE  \E i \in DOMAIN free' : free'[i] = n
      OBVIOUS
    <3>1. CASE n = node
      BY <2>2, <3>1
    <3>2. CASE n # node
      <4>1. PICK i \in DOMAIN free : free[i] = n
        BY <1>a, <1>b, <3>2 DEF PoolAccounting, t
      <4>2. i + 1 \in DOMAIN free' /\ free'[i + 1] = n
        BY <2>2, <4>1
      <4> QED
        BY <4>2
    <3> QED
      BY <3>1, <3>2
  <2> QED
    BY <2>4, <2>5, <2>6 DEF PoolAccounting
<1> QED
  BY <1>1, <1>2, <1>3, <1>4, <1>5 DEF SideInvariant, BookInvariant

\* A new quantity: neither the tree nor any price changes.
LEMMA SetQuantityPreserves ==
  ASSUME SideInvariant, NEW price \in Prices, NEW qty \in Quantities \cup {0},
         ~aborted, SetQuantity(price, qty)
  PROVE  SideInvariant'
<1> DEFINE node == index[price]
<1>a. TypeOK /\ TreeMatchesIndex /\ PoolAccounting /\ NthPriceCoherent /\ Levels(tree, level)
  BY TreeIsLevels DEF SideInvariant, BookInvariant
<1>b. /\ price \in DOMAIN index /\ qty \in Words /\ qty > 0
      /\ level' = [level EXCEPT ![node].quantity = qty]
      /\ result' = UpdateResult(Int64(Int64(qty) - Int64(level[node].quantity)),
                                 AffectsTopN(tree, price), FALSE, FALSE)
      /\ UNCHANGED <<free, tree, index, nth_price, top_n_depth, aborted>>
  BY QuantityIsWord DEF SetQuantity, WithQuantity
<1>c. node \in Nodes /\ level[node].quantity \in Words
  BY <1>a, <1>b DEF TreeMatchesIndex, TypeOK
<1>d. /\ level' \in [Nodes -> [price : Prices \cup {Zero}, quantity : Words]]
      /\ \A n \in Nodes : level'[n].price = level[n].price
      /\ \A n \in Nodes : level[n].quantity > 0 => level'[n].quantity > 0
  BY <1>a, <1>b, <1>c DEF TypeOK
<1> HIDE DEF node
<1>1. TypeOK'
  <2>1. result' \in [delta_qty : Int64s, affects_top_n : BOOLEAN,
                     is_new_level : BOOLEAN, is_deletion : BOOLEAN]
    BY <1>b, <1>c, Int64OfDifferences DEF Says, UpdateResult, AffectsTopN
  <2> QED
    BY <1>a, <1>b, <1>d, <2>1 DEF TypeOK
<1>2. NeverAborts'
  BY <1>b DEF SideInvariant, BookInvariant, NeverAborts
<1>3. TreeMatchesIndex'
  BY <1>a, <1>b, <1>d DEF TreeMatchesIndex, TypeOK
<1>4. PoolAccounting'
  BY <1>a, <1>b DEF PoolAccounting
<1>5. NthPriceCoherent'
  <2>1. tree \subseteq Nodes /\ top_n_depth \in Nat \ {0}
    BY <1>a, DepthsAssumption DEF TypeOK
  <2>2. NthPrice(tree, level', top_n_depth) = NthPrice(tree, level, top_n_depth)
    BY <1>a, <1>d, <2>1, NthOfPrices
  <2> QED
    BY <1>a, <1>b, <2>2 DEF NthPriceCoherent
<1> QED
  BY <1>1, <1>2, <1>3, <1>4, <1>5 DEF SideInvariant, BookInvariant

\* What each position of a concatenation holds.
LEMMA Concatenation ==
  ASSUME NEW S, NEW a \in Seq(S), NEW b \in Seq(S)
  PROVE  /\ a \o b \in Seq(S)
         /\ DOMAIN (a \o b) = 1 .. Len(a) + Len(b)
         /\ \A i \in 1 .. Len(a) : (a \o b)[i] = a[i]
         /\ \A i \in Len(a) + 1 .. Len(a) + Len(b) : (a \o b)[i] = b[i - Len(a)]
<1>1. a \o b \in Seq(S)
  OBVIOUS
<1>2. Len(a \o b) = Len(a) + Len(b)
  OBVIOUS
<1>3. DOMAIN (a \o b) = 1 .. Len(a \o b)
  BY <1>1
<1>4. \A i \in 1 .. Len(a) : (a \o b)[i] = a[i]
  OBVIOUS
<1>5. \A i \in Len(a) + 1 .. Len(a) + Len(b) : (a \o b)[i] = b[i - Len(a)]
  OBVIOUS
<1> QED
  BY <1>1, <1>2, <1>3, <1>4, <1>5

\* Clearing: every node of the tree goes on the free stack, each once.
LEMMA ClearPreserves ==
  ASSUME SideInvariant, Clear
  PROVE  SideInvariant'
<1> DEFINE n == Cardinality(tree)
           s == [i \in 1 .. n |-> At(tree, level, n - i)]
<1>a. TypeOK /\ TreeMatchesIndex /\ PoolAccounting /\ NthPriceCoherent /\ Levels(tree, level)
  BY TreeIsLevels DEF SideInvariant, BookInvariant
<1>b. /\ tree' = {} /\ free' = s \o free /\ nth_price' = Zero
      /\ level' = [m \in Nodes |-> IF m \in tree THEN Unused ELSE level[m]]
      /\ index' = [p \in DOMAIN index \ {level[m].price : m \in tree} |-> index[p]]
      /\ aborted' = aborted /\ top_n_depth' = top_n_depth /\ result' = result
  BY <1>a DEF Clear, Erased, TreeMatchesIndex
<1>c. n \in Nat /\ tree \subseteq Nodes
  BY <1>a, FS_CardinalityType DEF Levels, TypeOK
<1>d. \A i \in 1 .. n : s[i] \in tree /\ Rank(tree, level, s[i]) = n - i
  <2>1. \A i \in 1 .. n : n - i \in 0 .. n - 1
    BY <1>c
  <2> QED
    BY <1>a, <2>1, AtExists
<1>e. \A m \in tree : \E i \in 1 .. n : s[i] = m
  <2> SUFFICES ASSUME NEW m \in tree PROVE \E i \in 1 .. n : s[i] = m
    OBVIOUS
  <2>1. Rank(tree, level, m) \in 0 .. n - 1
    BY <1>a, RankBelowSize
  <2>2. n - Rank(tree, level, m) \in 1 .. n /\ n - (n - Rank(tree, level, m)) = Rank(tree, level, m)
    BY <1>c, <2>1
  <2>3. s[n - Rank(tree, level, m)] = m
    BY <1>a, <2>2, AtUnique
  <2> QED
    BY <2>2, <2>3
<1>f. DOMAIN index' = {}
  <2>1. \A p \in DOMAIN index : p \in {level[m].price : m \in tree}
    BY <1>a DEF TreeMatchesIndex
  <2> QED
    BY <1>b, <2>1
<1>g. s \in Seq(Nodes) /\ Len(s) = n /\ free \in Seq(Nodes)
  <2>1. \A i \in 1 .. n : At(tree, level, n - i) \in Nodes
    BY <1>c, <1>d
  <2> HIDE DEF n
  <2>2. s \in Seq(Nodes) /\ Len(s) = n
    BY <1>c, <2>1, IsASeq
  <2> QED
    BY <1>a, <2>2 DEF TypeOK
<1> HIDE DEF s, n
<1>h. /\ Len(free) \in Nat /\ DOMAIN free = 1 .. Len(free)
      /\ DOMAIN free' = 1 .. n + Len(free) /\ free' \in Seq(Nodes)
      /\ \A i \in 1 .. n : free'[i] = s[i]
      /\ \A i \in n + 1 .. n + Len(free) : free'[i] = free[i - n]
      /\ \A i \in 1 .. Len(free) : free'[i + n] = free[i]
  <2>1. Len(free) \in Nat /\ DOMAIN free = 1 .. Len(free)
    BY <1>g
  <2>2. /\ free' \in Seq(Nodes)
        /\ DOMAIN free' = 1 .. n + Len(free)
        /\ \A i \in 1 .. n : free'[i] = s[i]
        /\ \A i \in n + 1 .. n + Len(free) : free'[i] = free[i - n]
    BY <1>b, <1>g, Concatenation
  <2>3. \A i \in 1 .. Len(free) : i + n \in n + 1 .. n + Len(free) /\ (i + n) - n = i
    BY <1>c, <2>1
  <2>4. \A i \in 1 .. Len(free) : free'[i + n] = free[i]
    BY <2>2, <2>3
  <2> QED
    BY <2>1, <2>2, <2>4
<1>1. TypeOK'
  <2>1. Unused \in [price : Prices \cup {Zero}, quantity : Words]
    BY ZeroIsWord DEF Unused
  <2>2. level' \in [Nodes -> [price : Prices \cup {Zero}, quantity : Words]]
    BY <1>a, <1>b, <2>1 DEF TypeOK
  <2>3. index' \in [DOMAIN index' -> Nodes]
    BY <1>b, <1>f
  <2> QED
    BY <1>a, <1>b, <1>f, <1>h, <2>2, <2>3 DEF TypeOK
<1>2. NeverAborts' /\ TreeMatchesIndex'
  BY <1>b, <1>f DEF SideInvariant, BookInvariant, NeverAborts, TreeMatchesIndex
<1>3. PoolAccounting'
  <2>1. \A i, j \in 1 .. n : s[i] = s[j] => i = j
    BY <1>c, <1>d
  <2>2. \A i, j \in DOMAIN free' : free'[i] = free'[j] => i = j
    <3> SUFFICES ASSUME NEW i \in DOMAIN free', NEW j \in DOMAIN free', free'[i] = free'[j]
                 PROVE  i = j
      OBVIOUS
    <3>1. CASE i \in 1 .. n /\ j \in 1 .. n
      BY <1>h, <2>1, <3>1
    <3>2. CASE i \notin 1 .. n /\ j \notin 1 .. n
      <4>1. i - n \in DOMAIN free /\ j - n \in DOMAIN free /\ free[i - n] = free[j - n]
        BY <1>c, <1>h, <3>2
      <4>2. i - n = j - n
        BY <1>a, <4>1 DEF PoolAccounting
      <4> QED
        BY <1>c, <1>h, <4>2
    <3>3. CASE i \in 1 .. n /\ j \notin 1 .. n
      <4>1. free'[i] \in tree /\ j - n \in DOMAIN free /\ free'[j] = free[j - n]
        BY <1>c, <1>d, <1>h, <3>3
      <4> QED
        BY <1>a, <4>1 DEF PoolAccounting
    <3>4. CASE i \notin 1 .. n /\ j \in 1 .. n
      <4>1. free'[j] \in tree /\ i - n \in DOMAIN free /\ free'[i] = free[i - n]
        BY <1>c, <1>d, <1>h, <3>4
      <4> QED
        BY <1>a, <4>1 DEF PoolAccounting
    <3> QED
      BY <3>1, <3>2, <3>3, <3>4
  <2>3. ASSUME NEW m \in Nodes
        PROVE  \E i \in DOMAIN free' : free'[i] = m
    <3>1. CASE m \in tree
      BY <1>c, <1>e, <1>h, <3>1
    <3>2. CASE m \notin tree
      BY <1>a, <1>c, <1>h, <3>2 DEF PoolAccounting
    <3> QED
      BY <3>1, <3>2
  <2> QED
    BY <1>b, <2>2, <2>3 DEF PoolAccounting
<1>4. NthPriceCoherent'
  <2>1. Cardinality({}) = 0 /\ top_n_depth \in Nat \ {0}
    BY <1>a, DepthsAssumption, FS_EmptySet DEF TypeOK
  <2> QED
    BY <1>b, <2>1 DEF NthPriceCoherent, NthPrice
<1> QED
  BY <1>1, <1>2, <1>3, <1>4 DEF SideInvariant, BookInvariant

LEMMA SideStep == SideInvariant /\ [Next]_vars => SideInvariant'
<1> SUFFICES ASSUME SideInvariant, [Next]_vars PROVE SideInvariant'
  OBVIOUS
<1>1. ASSUME NEW price \in Prices, NEW qty \in Quantities \cup {0}, ApplyUpdate(price, qty)
      PROVE  SideInvariant'
  <2>1. CASE IgnoreDelete(price, qty)
    BY <2>1, ZeroIsWord DEF IgnoreDelete, NoChange, UpdateResult, SideInvariant, BookInvariant, TypeOK,
       NeverAborts, TreeMatchesIndex, PoolAccounting, NthPriceCoherent
  <2>2. CASE InsertLevel(price, qty)
    BY <1>1, <2>2, InsertPreserves DEF ApplyUpdate
  <2>3. CASE DeleteLevel(price, qty)
    BY <1>1, <2>3, DeletePreserves DEF ApplyUpdate
  <2>4. CASE SetQuantity(price, qty)
    BY <1>1, <2>4, SetQuantityPreserves DEF ApplyUpdate
  <2> QED
    BY <1>1, <2>1, <2>2, <2>3, <2>4 DEF ApplyUpdate
<1>2. CASE Clear
  BY <1>2, ClearPreserves
<1>3. ASSUME NEW depth \in Depths, SetTopNDepth(depth)
      PROVE  SideInvariant'
  <2>1. Levels(tree, level) /\ depth \in Nat \ {0}
    BY TreeIsLevels, DepthsAssumption DEF SideInvariant
  <2>2. NthPrice(tree, level, depth) \in Prices \cup {Zero}
    BY <2>1, NthPriceType DEF SideInvariant, BookInvariant, TypeOK
  <2> QED
    BY <1>3, <2>2 DEF SetTopNDepth, SideInvariant, BookInvariant, TypeOK, NeverAborts,
       TreeMatchesIndex, PoolAccounting, NthPriceCoherent
<1>4. CASE UNCHANGED vars
  BY <1>4 DEF vars, SideInvariant, BookInvariant, TypeOK, NeverAborts, TreeMatchesIndex,
     PoolAccounting, NthPriceCoherent
<1> QED
  BY <1>1, <1>2, <1>3, <1>4 DEF Next

-----------------------------------------------------------------------------
(* What follows.                                                           *)

\* Tree, hash map and pool always agree, so neither std::abort() is reached and no
\* node is leaked or freed twice.
THEOREM ContainersCoherent == Spec => []BookInvariant
<1>1. Init => SideInvariant
  BY InitSide
<1>2. SideInvariant /\ [Next]_vars => SideInvariant'
  BY SideStep
<1>3. SideInvariant => BookInvariant
  BY DEF SideInvariant
<1> QED
  BY <1>1, <1>2, <1>3, PTL DEF Spec

\* The cached nth_price_ is always the price of the N-th best level, although most
\* updates leave it alone.
THEOREM NthPriceAlwaysCoherent == Spec => []NthPriceCoherent
<1>1. Init => SideInvariant
  BY InitSide
<1>2. SideInvariant /\ [Next]_vars => SideInvariant'
  BY SideStep
<1>3. SideInvariant => NthPriceCoherent
  BY DEF SideInvariant
<1> QED
  BY <1>1, <1>2, <1>3, PTL DEF Spec

\* Between updates affects_top_n() is exact, for levels in the book and prices that
\* are not.
THEOREM AffectsTopNAlwaysExact == Spec => []AffectsTopNExact
<1>1. BookInvariant /\ NthPriceCoherent => AffectsTopNExact
  <2> SUFFICES ASSUME BookInvariant, NthPriceCoherent, NEW p \in Prices
               PROVE  AffectsTopN(tree, p) <=> Cardinality(Ahead(tree, level, p)) < top_n_depth
    BY DEF AffectsTopNExact
  <2>1. Levels(tree, level) /\ top_n_depth \in Nat \ {0} /\ p \in Int
    BY TreeIsLevels, DepthsAssumption, PricesAssumption DEF BookInvariant, TypeOK
  <2> QED
    BY <2>1, CachedComparison DEF AffectsTopN, NthPriceCoherent
<1> QED
  BY <1>1, ContainersCoherent, NthPriceAlwaysCoherent, PTL

\* A price get_top_n publishes is that of a level with fewer than N better ones.
TopLevels ==
    \A p \in TopPrices :
        /\ \E n \in tree : level[n].price = p
        /\ Cardinality(Ahead(tree, level, p)) < top_n_depth

LEMMA TopPricesAreTop == SideInvariant => TopLevels
<1> SUFFICES ASSUME SideInvariant, NEW p \in TopPrices
             PROVE  /\ \E n \in tree : level[n].price = p
                    /\ Cardinality(Ahead(tree, level, p)) < top_n_depth
  BY DEF TopLevels
<1>1. Levels(tree, level) /\ top_n_depth \in Nat \ {0} /\ Cardinality(tree) \in Nat
  <2>1. Levels(tree, level) /\ top_n_depth \in Nat \ {0}
    BY TreeIsLevels, DepthsAssumption DEF SideInvariant, BookInvariant, TypeOK
  <2> QED
    BY <2>1, FS_CardinalityType DEF Levels
<1>2. PICK i \in 1 .. Min2(top_n_depth, Cardinality(tree)) : p = level[At(tree, level, i - 1)].price
  BY DEF TopPrices, GetTopN
<1>3. i - 1 \in 0 .. Cardinality(tree) - 1 /\ i - 1 < top_n_depth
  BY <1>1, <1>2 DEF Min2
<1>4. /\ At(tree, level, i - 1) \in tree
      /\ Rank(tree, level, At(tree, level, i - 1)) = i - 1
  BY <1>1, <1>3, AtExists
<1> QED
  BY <1>2, <1>3, <1>4 DEF Rank

\* Every update that touches one of the N best levels says so, although a new level is
\* compared with the cached price of the book before it; the exception is the level
\* that completes the first N, which is compared with the sentinel
\* (apply_update(), affects_top_n()).
THEOREM TopNChangesAlwaysReported == Spec => TopNChangeReported
<1>0. (SideInvariant => TopLevels)'
  BY TopPricesAreTop, PTL
<1>1. ASSUME SideInvariant, SideInvariant',
             NEW price \in Prices, NEW qty \in Quantities \cup {0},
             ApplyUpdate(price, qty), price \in TopPrices \cup TopPrices'
      PROVE  \/ result'.affects_top_n
             \/ result'.is_new_level /\ Cardinality(tree') = top_n_depth
  <2> DEFINE better == Cardinality(Ahead(tree, level, price))
             fewer == Cardinality(tree) < top_n_depth \/ ~Before(nth_price, price)
  <2>1. /\ TypeOK /\ TreeMatchesIndex /\ PoolAccounting /\ NthPriceCoherent
        /\ Levels(tree, level) /\ top_n_depth \in Nat \ {0} /\ price \in Int
    BY <1>1, TreeIsLevels, DepthsAssumption, PricesAssumption
    DEF SideInvariant, BookInvariant, TypeOK
  <2>2. fewer <=> better < top_n_depth
    BY <2>1, CachedComparison DEF NthPriceCoherent
  <2>3. TopLevels /\ TopLevels'
    BY <1>0, <1>1, TopPricesAreTop
  <2>4. price \in TopPrices => price \in DOMAIN index /\ fewer
    BY <2>1, <2>2, <2>3 DEF TopLevels, TreeMatchesIndex
  <2>5. price \in TopPrices' => price \in DOMAIN index'
    BY <1>1, <2>3 DEF TopLevels, SideInvariant, BookInvariant, TreeMatchesIndex
  <2>6. price \in TopPrices' => Cardinality(Ahead(tree', level', price)) < top_n_depth'
    BY <2>3 DEF TopLevels
  <2> HIDE DEF better, fewer
  <2>7. CASE IgnoreDelete(price, qty)
    BY <1>1, <2>4, <2>5, <2>7 DEF IgnoreDelete
  <2>8. CASE InsertLevel(price, qty)
    <3> DEFINE node == Head(free)
               t == tree \cup {node}
               lv == [level EXCEPT ![node] = [price |-> price, quantity |-> qty]]
    <3>1. ~ \E m \in tree : level[m].price = price
      BY <2>1, <2>8 DEF InsertLevel, TreeMatchesIndex
    <3>2. /\ tree' = t /\ level' = lv /\ top_n_depth' = top_n_depth
          /\ result' = UpdateResult(Int64(qty), AffectsTopN(t, price), TRUE, FALSE)
      BY <2>8, <3>1 DEF InsertLevel
    <3>3. node \in Nodes /\ node \notin tree
      <4>1. free \in Seq(Nodes) /\ free # <<>> /\ node = free[1] /\ 1 \in DOMAIN free
        BY <2>1, <2>8 DEF InsertLevel, TypeOK
      <4> QED
        BY <2>1, <4>1 DEF PoolAccounting
    <3>4. Ahead(t, lv, price) = Ahead(tree, level, price)
      <4>1. lv[node].price = price /\ \A n \in tree : lv[n] = level[n]
        BY <2>1, <3>3 DEF TypeOK
      <4>2. ~Before(price, price)
        BY <2>1 DEF Before
      <4> QED
        BY <4>1, <4>2 DEF Ahead
    <3>5. Cardinality(t) = Cardinality(tree) + 1 /\ Cardinality(tree) \in Nat
      BY <2>1, <3>3, FS_AddElement, FS_CardinalityType DEF Levels
    <3>6. price \notin TopPrices
      BY <2>4, <2>8 DEF InsertLevel
    <3>7. fewer
      BY <1>1, <2>2, <2>6, <3>2, <3>4, <3>6 DEF better
    <3>8. Cardinality(t) < top_n_depth \/ Cardinality(t) = top_n_depth \/ ~Before(nth_price, price)
      BY <2>1, <3>5, <3>7 DEF fewer
    <3> HIDE DEF t, lv
    <3>9. AffectsTopN(t, price) \/ Cardinality(t) = top_n_depth
      BY <3>8 DEF AffectsTopN
    <3> QED
      BY <3>2, <3>9 DEF UpdateResult
  <2>9. CASE DeleteLevel(price, qty)
    <3>1. price \notin DOMAIN index'
      BY <2>9 DEF DeleteLevel, Erased
    <3>2. AffectsTopN(tree, price)
      BY <1>1, <2>4, <2>5, <3>1 DEF AffectsTopN, fewer
    <3> QED
      BY <2>9, <3>2 DEF DeleteLevel, UpdateResult
  <2>10. CASE SetQuantity(price, qty)
    <3>1. \A n \in tree : level'[n].price = level[n].price
      BY <2>1, <2>10 DEF SetQuantity, WithQuantity, TypeOK, TreeMatchesIndex
    <3>2. Ahead(tree', level', price) = Ahead(tree, level, price) /\ top_n_depth' = top_n_depth
      BY <2>10, <3>1 DEF SetQuantity, Ahead
    <3>3. fewer
      BY <1>1, <2>2, <2>4, <2>6, <3>2 DEF better
    <3>4. AffectsTopN(tree, price)
      BY <3>3 DEF AffectsTopN, fewer
    <3> QED
      BY <2>10, <3>4 DEF SetQuantity, UpdateResult
  <2> QED
    BY <1>1, <2>7, <2>8, <2>9, <2>10 DEF ApplyUpdate
<1>2. SideInvariant /\ SideInvariant' =>
        \A price \in Prices, qty \in Quantities \cup {0} :
           ApplyUpdate(price, qty) /\ price \in TopPrices \cup TopPrices' =>
              \/ result'.affects_top_n
              \/ result'.is_new_level /\ Cardinality(tree') = top_n_depth
  BY <1>1
<1>3. Spec => []SideInvariant
  BY InitSide, SideStep, PTL DEF Spec
<1> QED
  BY <1>2, <1>3, PTL DEF TopNChangeReported

-----------------------------------------------------------------------------
(* Sums.                                                                   *)

Picked(s) == CHOOSE x \in s : TRUE

\* g sums up f over every subset of S, one chosen element after the other.
SumsUp(g, f, S) ==
    g = [s \in SUBSET S |-> IF s = {} THEN 0 ELSE f[Picked(s)] + g[s \ {Picked(s)}]]

Total(f, S) == (CHOOSE g : SumsUp(g, f, S))[S]

Summable(f, S) == IsFiniteSet(S) /\ f \in [S -> Int]
SumOf(g, f, S) == g \in [SUBSET S -> Int] /\ SumsUp(g, f, S)

\* A function that sums up f over every subset of S with up to n elements.
SumsUpTo(g, f, S, n) ==
    /\ g \in [SUBSET S -> Int]
    /\ \A s \in SUBSET S :
          Cardinality(s) <= n => g[s] = IF s = {} THEN 0 ELSE f[Picked(s)] + g[s \ {Picked(s)}]

\* Of the sets with some property one is so small that without any of its elements it
\* has it no more.
LEMMA LeastSet ==
  ASSUME NEW C, C # {}, \A s \in C : IsFiniteSet(s)
  PROVE  \E s \in C : \A x \in s : s \ {x} \notin C
<1> DEFINE Sizes == {Cardinality(s) : s \in C}
<1>1. Sizes \subseteq Nat /\ Sizes # {}
  BY FS_CardinalityType
<1>2. PICK n \in Sizes : \A m \in Sizes : ~(<<m, n>> \in OpToRel(<, Nat))
  <2> HIDE DEF Sizes
  <2> QED
    BY <1>1, NatLessThanWellFounded, WFMin
<1>3. PICK s \in C : Cardinality(s) = n
  OBVIOUS
<1>4. ASSUME NEW x \in s, s \ {x} \in C
      PROVE  FALSE
  <2>1. Cardinality(s \ {x}) \in Sizes
    BY <1>4
  <2>2. Cardinality(s \ {x}) = n - 1
    BY <1>3, FS_RemoveElement
  <2> HIDE DEF Sizes
  <2>3. <<n - 1, n>> \in OpToRel(<, Nat)
    BY <1>1, <2>1, <2>2 DEF OpToRel
  <2> QED
    BY <1>2, <2>1, <2>2, <2>3
<1> QED
  BY <1>4

LEMMA PickedIn ==
  ASSUME NEW s, s # {}
  PROVE  Picked(s) \in s
BY DEF Picked

LEMMA SumUpToExists ==
  ASSUME NEW S, NEW f, Summable(f, S), NEW n \in Nat
  PROVE  \E g : SumsUpTo(g, f, S, n)
<1> DEFINE Bad == {k \in Nat : ~ \E g : SumsUpTo(g, f, S, k)}
<1>0. IsFiniteSet(S) /\ f \in [S -> Int]
  BY DEF Summable
<1>1. \A s \in SUBSET S : IsFiniteSet(s) /\ Cardinality(s) \in Nat
  BY <1>0, FS_Subset, FS_CardinalityType
<1>2. SUFFICES Bad = {}
  OBVIOUS
<1>3. 0 \notin Bad
  <2> DEFINE g == [s \in SUBSET S |-> 0]
  <2>1. \A s \in SUBSET S : Cardinality(s) <= 0 => s = {}
    BY <1>1, FS_EmptySet
  <2>2. g \in [SUBSET S -> Int] /\ \A s \in SUBSET S : g[s] = 0
    OBVIOUS
  <2> HIDE DEF g
  <2>3. SumsUpTo(g, f, S, 0)
    BY <2>1, <2>2 DEF SumsUpTo
  <2> QED
    BY <2>2, <2>3
<1>4. ASSUME NEW k \in Nat, k \notin Bad
      PROVE  k + 1 \notin Bad
  <2>1. PICK g : SumsUpTo(g, f, S, k)
    BY <1>4
  <2>0. g \in [SUBSET S -> Int]
    BY <2>1 DEF SumsUpTo
  <2> DEFINE h == [s \in SUBSET S |-> IF s = {} THEN 0 ELSE f[Picked(s)] + g[s \ {Picked(s)}]]
  <2>2. h \in [SUBSET S -> Int]
    <3>1. \A s \in SUBSET S : s # {} => Picked(s) \in S /\ s \ {Picked(s)} \in SUBSET S
      BY PickedIn
    <3> QED
      BY <1>0, <2>0, <3>1
  <2>3. \A s \in SUBSET S : h[s] = IF s = {} THEN 0 ELSE f[Picked(s)] + g[s \ {Picked(s)}]
    OBVIOUS
  <2> HIDE DEF h
  <2>4. ASSUME NEW s \in SUBSET S, s # {}, Cardinality(s) <= k + 1
        PROVE  h[s \ {Picked(s)}] = g[s \ {Picked(s)}]
    <3> DEFINE t == s \ {Picked(s)}
    <3>1. t \in SUBSET S /\ Cardinality(t) = Cardinality(s) - 1
      BY <1>1, <2>4, PickedIn, FS_RemoveElement
    <3> HIDE DEF t
    <3>2. Cardinality(t) <= k
      BY <1>1, <2>4, <3>1
    <3>3. h[t] = g[t]
      BY <2>1, <2>3, <3>1, <3>2 DEF SumsUpTo
    <3> QED
      BY <3>3 DEF t
  <2>5. SumsUpTo(h, f, S, k + 1)
    BY <2>2, <2>3, <2>4 DEF SumsUpTo
  <2> QED
    BY <2>5
<1> HIDE DEF Bad
<1>5. ASSUME Bad # {}
      PROVE  FALSE
  <2>1. Bad \subseteq Nat
    BY DEF Bad
  <2>2. PICK k \in Bad : \A m \in Bad : ~(<<m, k>> \in OpToRel(<, Nat))
    BY <1>5, <2>1, NatLessThanWellFounded, WFMin
  <2>3. k \in Nat /\ k # 0
    BY <1>3, <2>1
  <2>4. k - 1 \in Nat /\ <<k - 1, k>> \in OpToRel(<, Nat) /\ (k - 1) + 1 = k
    BY <2>3 DEF OpToRel
  <2> QED
    BY <1>4, <2>2, <2>4
<1> QED
  BY <1>5

LEMMA SumExists ==
  ASSUME NEW S, NEW f, Summable(f, S)
  PROVE  \E g : SumOf(g, f, S)
<1>1. Cardinality(S) \in Nat /\ \A s \in SUBSET S : Cardinality(s) <= Cardinality(S)
  BY FS_Subset, FS_CardinalityType DEF Summable
<1>2. PICK g : SumsUpTo(g, f, S, Cardinality(S))
  BY <1>1, SumUpToExists
<1>3. /\ g \in [SUBSET S -> Int]
      /\ \A s \in SUBSET S : g[s] = IF s = {} THEN 0 ELSE f[Picked(s)] + g[s \ {Picked(s)}]
  BY <1>1, <1>2 DEF SumsUpTo
<1> QED
  BY <1>3 DEF SumOf, SumsUp

\* What a sum is depends only on the values that are summed up.
LEMMA SumUnique ==
  ASSUME NEW S, NEW T, NEW f, NEW e, NEW g, NEW h, SumsUp(g, f, S), SumsUp(h, e, T),
         NEW u, u \subseteq S, u \subseteq T, IsFiniteSet(u), \A x \in u : f[x] = e[x]
  PROVE  g[u] = h[u]
<1> DEFINE C == {s \in SUBSET u : g[s] # h[s]}
<1>1. \A s \in SUBSET u : /\ g[s] = IF s = {} THEN 0 ELSE f[Picked(s)] + g[s \ {Picked(s)}]
                          /\ h[s] = IF s = {} THEN 0 ELSE e[Picked(s)] + h[s \ {Picked(s)}]
  BY DEF SumsUp
<1>2. ASSUME C # {}
      PROVE  FALSE
  <2>1. \A s \in C : IsFiniteSet(s)
    BY FS_Subset
  <2>2. PICK s \in C : \A x \in s : s \ {x} \notin C
    <3> HIDE DEF C
    <3> QED
      BY <1>2, <2>1, LeastSet
  <2>3. s \in SUBSET u /\ g[s] # h[s]
    OBVIOUS
  <2>4. s # {}
    BY <1>1, <2>3
  <2>5. Picked(s) \in s /\ s \ {Picked(s)} \in SUBSET u
    BY <2>3, <2>4, PickedIn
  <2>6. g[s \ {Picked(s)}] = h[s \ {Picked(s)}]
    BY <2>2, <2>5
  <2>7. f[Picked(s)] = e[Picked(s)]
    BY <2>3, <2>5
  <2> QED
    BY <1>1, <2>3, <2>4, <2>6, <2>7
<1> QED
  BY <1>2

\* An element may be taken out of a sum in any order.
LEMMA SumWithout ==
  ASSUME NEW S, NEW f, Summable(f, S), NEW g, SumOf(g, f, S), NEW x \in S
  PROVE  g[S] = f[x] + g[S \ {x}]
<1> DEFINE C == {s \in SUBSET S : \E y \in s : g[s] # f[y] + g[s \ {y}]}
<1>0. IsFiniteSet(S) /\ f \in [S -> Int] /\ g \in [SUBSET S -> Int]
  BY DEF Summable, SumOf
<1>1. \A s \in SUBSET S : g[s] = IF s = {} THEN 0 ELSE f[Picked(s)] + g[s \ {Picked(s)}]
  BY DEF SumOf, SumsUp
<1>2. ASSUME C # {}
      PROVE  FALSE
  <2>1. \A s \in C : IsFiniteSet(s)
    BY <1>0, FS_Subset
  <2>2. PICK s \in C : \A y \in s : s \ {y} \notin C
    <3> HIDE DEF C
    <3> QED
      BY <1>2, <2>1, LeastSet
  <2>3. PICK y \in s : g[s] # f[y] + g[s \ {y}]
    OBVIOUS
  <2> DEFINE p == Picked(s)
  <2>4. s \in SUBSET S /\ p \in s /\ g[s] = f[p] + g[s \ {p}] /\ p # y
    BY <1>1, <2>3, PickedIn
  <2> HIDE DEF p
  <2>5. s \ {p} \in SUBSET S /\ s \ {y} \in SUBSET S /\ s \ {p} \notin C /\ s \ {y} \notin C
    BY <2>2, <2>4
  <2>6. /\ g[s \ {p}] = f[y] + g[(s \ {p}) \ {y}]
        /\ g[s \ {y}] = f[p] + g[(s \ {y}) \ {p}]
    BY <2>3, <2>4, <2>5
  <2>7. (s \ {p}) \ {y} = (s \ {y}) \ {p} /\ (s \ {y}) \ {p} \in SUBSET S
    BY <2>4
  <2>8. f[p] \in Int /\ f[y] \in Int /\ g[(s \ {y}) \ {p}] \in Int
    BY <1>0, <2>4, <2>7
  <2>9. g[s] = f[p] + (f[y] + g[(s \ {y}) \ {p}])
    BY <2>4, <2>6, <2>7
  <2>10. g[s] # f[y] + (f[p] + g[(s \ {y}) \ {p}])
    BY <2>3, <2>6
  <2> QED
    BY <2>8, <2>9, <2>10
<1> QED
  BY <1>2

\* The sum over a set is a value of it and the sum over the others.
LEMMA TotalWith ==
  ASSUME NEW S, NEW f, Summable(f, S), NEW x \in S,
         NEW e, Summable(e, S \ {x}), \A y \in S \ {x} : e[y] = f[y]
  PROVE  Total(f, S) = f[x] + Total(e, S \ {x}) /\ Total(e, S \ {x}) \in Int
<1> DEFINE T == S \ {x}
<1>0. T \in SUBSET S /\ IsFiniteSet(T) /\ S \in SUBSET S
  BY DEF Summable
<1>1. PICK g : SumOf(g, f, S)
  BY SumExists
<1>2. PICK h : SumOf(h, e, T)
  BY SumExists
<1>7. h[T] \in Int
  BY <1>0, <1>2 DEF SumOf
<1> HIDE DEF T
<1>3. Total(f, S) = g[S]
  <2> DEFINE c == CHOOSE c : SumsUp(c, f, S)
  <2>1. SumsUp(c, f, S)
    BY <1>1 DEF SumOf
  <2> HIDE DEF c
  <2>2. c[S] = g[S]
    BY <1>0, <1>1, <2>1, SumUnique DEF SumOf, Summable
  <2> QED
    BY <2>2 DEF Total, c
<1>4. Total(e, T) = h[T]
  <2> DEFINE c == CHOOSE c : SumsUp(c, e, T)
  <2>1. SumsUp(c, e, T)
    BY <1>2 DEF SumOf
  <2> HIDE DEF c
  <2>2. c[T] = h[T]
    BY <1>0, <1>2, <2>1, SumUnique DEF SumOf
  <2> QED
    BY <2>2 DEF Total, c
<1>5. g[T] = h[T]
  <2>1. \A y \in T : f[y] = e[y]
    BY DEF T
  <2> QED
    BY <1>0, <1>1, <1>2, <2>1, SumUnique DEF SumOf
<1>6. g[S] = f[x] + g[T]
  <2>1. g[S] = f[x] + g[S \ {x}]
    BY <1>1, SumWithout
  <2> QED
    BY <2>1 DEF T
<1> QED
  BY <1>3, <1>4, <1>5, <1>6, <1>7 DEF T

LEMMA EmptyTotal == \A f : Total(f, {}) = 0
<1> SUFFICES ASSUME NEW f PROVE Total(f, {}) = 0
  OBVIOUS
<1> DEFINE zero == [s \in SUBSET {} |-> IF s = {} THEN 0 ELSE f[Picked(s)]]
           c == CHOOSE g : SumsUp(g, f, {})
<1>1. SumsUp(zero, f, {})
  BY DEF SumsUp
<1>2. SumsUp(c, f, {})
  BY <1>1
<1> HIDE DEF c
<1>3. c[{}] = 0
  BY <1>2 DEF SumsUp
<1> QED
  BY <1>3 DEF Total, c

\* What the levels of a side are summed up from.
Amounts(t, lv) == [n \in t |-> lv[n].quantity]

LEMMA TotalUnfolds == TotalQuantity = Total(Amounts(tree, level), tree)
  BY DEF TotalQuantity, MapThenSumSet, MapThenFoldSet, Total, SumsUp, Picked, Amounts

LEMMA AmountsSummable ==
  ASSUME NEW t, IsFiniteSet(t), NEW lv, \A n \in t : lv[n].quantity \in Int
  PROVE  Summable(Amounts(t, lv), t)
  BY DEF Summable, Amounts

\* A level more, or one less, changes the total by its quantity.
LEMMA TotalWithLevel ==
  ASSUME NEW t, IsFiniteSet(t), NEW x \in t, NEW lv, \A n \in t : lv[n].quantity \in Int,
         NEW lw, \A n \in t \ {x} : lw[n].quantity = lv[n].quantity
  PROVE  /\ Total(Amounts(t, lv), t) = lv[x].quantity + Total(Amounts(t \ {x}, lw), t \ {x})
         /\ Total(Amounts(t \ {x}, lw), t \ {x}) \in Int
<1> DEFINE f == Amounts(t, lv)
           e == Amounts(t \ {x}, lw)
<1>1. Summable(f, t)
  BY AmountsSummable
<1>2. Summable(e, t \ {x})
  <2>1. IsFiniteSet(t \ {x}) /\ \A n \in t \ {x} : lw[n].quantity \in Int
    BY FS_RemoveElement
  <2> QED
    BY <2>1, AmountsSummable
<1>3. f[x] = lv[x].quantity /\ \A y \in t \ {x} : e[y] = f[y]
  BY DEF Amounts
<1> HIDE DEF f, e
<1>4. Total(f, t) = f[x] + Total(e, t \ {x}) /\ Total(e, t \ {x}) \in Int
  BY <1>1, <1>2, <1>3, TotalWith
<1> QED
  BY <1>3, <1>4 DEF f, e

\* Whoever adds up the delta_qty of all updates in 64 bits has the quantity in the book
\* to 64 bits: none is reported twice or against a quantity the level no longer has, and
\* one has the wrong sign only if no int64_t could have the right one, whichever of the
\* unsigned quantities the casts of apply_update() make negative.
THEOREM DeltaQtyAlwaysAccounts == Spec => DeltaQtyAccounts
<1>0. (TotalQuantity = Total(Amounts(tree, level), tree))'
  BY TotalUnfolds, PTL
<1>1. ASSUME SideInvariant,
             NEW price \in Prices, NEW qty \in Quantities \cup {0}, ApplyUpdate(price, qty)
      PROVE  Says(result'.delta_qty, TotalQuantity' - TotalQuantity)
  <2>1. /\ TypeOK /\ TreeMatchesIndex /\ PoolAccounting
        /\ IsFiniteSet(tree) /\ tree \subseteq Nodes /\ qty \in Words /\ qty \in Nat
    BY <1>1, TreeIsLevels, QuantityIsWord
    DEF SideInvariant, BookInvariant, TypeOK, Levels
  <2>2. \A n \in tree : level[n].quantity \in Words /\ level[n].quantity \in Int
    BY <2>1 DEF TypeOK, Words
  <2> DEFINE old == Total(Amounts(tree, level), tree)
             new == Total(Amounts(tree', level'), tree')
  <2>3. TotalQuantity = old /\ TotalQuantity' = new
    BY <1>0, TotalUnfolds
  <2>4. CASE IgnoreDelete(price, qty)
    <3>1. tree' = tree /\ level' = level /\ result'.delta_qty = 0
      BY <2>4 DEF IgnoreDelete, NoChange, UpdateResult
    <3>2. old \in Int
      <4>1. CASE tree = {}
        BY <4>1, EmptyTotal
      <4>2. CASE tree # {}
        <5>1. PICK n \in tree : TRUE
          BY <4>2
        <5>2. /\ old = level[n].quantity + Total(Amounts(tree \ {n}, level), tree \ {n})
              /\ Total(Amounts(tree \ {n}, level), tree \ {n}) \in Int
          BY <2>1, <2>2, TotalWithLevel
        <5> QED
          BY <2>2, <5>2
      <4> QED
        BY <4>1, <4>2
    <3>3. new - old = 0 /\ 0 = 0 + 0 * (2 * HalfWord) /\ 0 \in -1 .. 1
      BY <3>1, <3>2, WordAssumption
    <3> QED
      BY <2>3, <3>1, <3>3, ZeroIsWord DEF Says
  <2>5. CASE InsertLevel(price, qty)
    <3> DEFINE node == Head(free)
    <3>1. node \in Nodes /\ node \notin tree
      <4>1. free \in Seq(Nodes) /\ free # <<>> /\ node = free[1] /\ 1 \in DOMAIN free
        BY <2>1, <2>5 DEF InsertLevel, TypeOK
      <4> QED
        BY <2>1, <4>1 DEF PoolAccounting
    <3>2. ~ \E m \in tree : level[m].price = price
      BY <2>1, <2>5 DEF InsertLevel, TreeMatchesIndex
    <3>3. /\ tree' = tree \cup {node} /\ result'.delta_qty = Int64(qty)
          /\ level' = [level EXCEPT ![node] = [price |-> price, quantity |-> qty]]
      BY <2>5, <3>2 DEF InsertLevel, UpdateResult
    <3> HIDE DEF node
    <3>4. IsFiniteSet(tree') /\ node \in tree' /\ tree' \ {node} = tree
      BY <2>1, <3>1, <3>3, FS_AddElement
    <3>5. level'[node].quantity = qty
      BY <2>1, <3>1, <3>3 DEF TypeOK
    <3>6. \A n \in tree' \ {node} : level[n].quantity = level'[n].quantity
      BY <2>1, <3>1, <3>3, <3>4 DEF TypeOK
    <3>7. \A n \in tree' : level'[n].quantity \in Int
      BY <2>1, <2>2, <3>3, <3>4, <3>5, <3>6
    <3>8. /\ new = level'[node].quantity + Total(Amounts(tree' \ {node}, level), tree' \ {node})
          /\ Total(Amounts(tree' \ {node}, level), tree' \ {node}) \in Int
      BY <3>4, <3>6, <3>7, TotalWithLevel
    <3>9. new = qty + old /\ old \in Int
      BY <3>4, <3>5, <3>8
    <3>10. new - old = qty
      BY <2>1, <3>9
    <3> QED
      BY <2>1, <2>3, <3>3, <3>10, Int64OfDifferences
  <2>6. CASE DeleteLevel(price, qty)
    <3> DEFINE node == index[price]
    <3>1. node \in tree
      BY <2>1, <2>6 DEF DeleteLevel, TreeMatchesIndex
    <3>2. /\ tree' = tree \ {node} /\ result'.delta_qty = Int64(-Int64(level[node].quantity))
          /\ level' = [level EXCEPT ![node] = Unused]
      BY <2>6 DEF DeleteLevel, UpdateResult
    <3>3. \A n \in tree \ {node} : level'[n].quantity = level[n].quantity
      BY <2>1, <3>2 DEF TypeOK
    <3> HIDE DEF node
    <3>4. /\ old = level[node].quantity + Total(Amounts(tree \ {node}, level'), tree \ {node})
          /\ Total(Amounts(tree \ {node}, level'), tree \ {node}) \in Int
      BY <2>1, <2>2, <3>1, <3>3, TotalWithLevel
    <3>5. old = level[node].quantity + new /\ new \in Int
      BY <3>2, <3>4
    <3>6. new - old = -level[node].quantity
      BY <2>2, <3>1, <3>5
    <3> QED
      BY <2>2, <2>3, <3>1, <3>2, <3>6, Int64OfDifferences
  <2>7. CASE SetQuantity(price, qty)
    <3> DEFINE node == index[price]
               rest == Total(Amounts(tree \ {node}, level), tree \ {node})
    <3>1. node \in tree
      BY <2>1, <2>7 DEF SetQuantity, TreeMatchesIndex
    <3>2. /\ tree' = tree
          /\ result'.delta_qty = Int64(Int64(qty) - Int64(level[node].quantity))
          /\ level' = [level EXCEPT ![node].quantity = qty]
      BY <2>7 DEF SetQuantity, WithQuantity, UpdateResult
    <3>3. /\ level'[node].quantity = qty
          /\ \A n \in tree \ {node} : level[n].quantity = level'[n].quantity
          /\ \A n \in tree : level'[n].quantity \in Int
      BY <2>1, <2>2, <3>1, <3>2 DEF TypeOK
    <3> HIDE DEF node
    <3>4. old = level[node].quantity + rest /\ rest \in Int
      BY <2>1, <2>2, <3>1, TotalWithLevel
    <3>5. Total(Amounts(tree, level'), tree) = level'[node].quantity + rest
      BY <2>1, <3>1, <3>3, TotalWithLevel DEF rest
    <3>6. new = qty + rest
      BY <3>2, <3>3, <3>5
    <3>7. new - old = qty - level[node].quantity
      <4> HIDE DEF old, new, rest
      <4> QED
        BY <2>1, <2>2, <3>1, <3>4, <3>6
    <3> QED
      BY <2>1, <2>2, <2>3, <3>1, <3>2, <3>7, Int64OfDifferences
  <2> QED
    BY <1>1, <2>4, <2>5, <2>6, <2>7 DEF ApplyUpdate
<1>2. SideInvariant =>
        \A price \in Prices, qty \in Quantities \cup {0} :
           ApplyUpdate(price, qty) =>
              LET change == TotalQuantity' - TotalQuantity
              IN  /\ \E words \in -1 .. 1 :
                        change = result'.delta_qty + words * (2 * HalfWord)
                  /\ change \in Int64s => change = result'.delta_qty
  BY <1>1 DEF Says
<1>3. Spec => []SideInvariant
  BY InitSide, SideStep, PTL DEF Spec
<1> QED
  BY <1>2, <1>3, PTL DEF DeltaQtyAccounts

=============================================================================
