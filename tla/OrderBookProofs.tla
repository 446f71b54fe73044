--------------------------- MODULE OrderBookProofs ---------------------------
(***************************************************************************)
(* OrderBook.tla for every pool, every set of prices, quantities, depths   *)
(* and snapshots: the two sides share the pool without touching each       *)
(* other's nodes, all that is asked of the book gives one picture of it,   *)
(* and the book implements LevelBook.tla.                                  *)
(*                                                                         *)
(* What is true of either side is proved once, of a side given as a record *)
(* and of its order asc: what its operations leave (the *Outcome lemmas),  *)
(* with the nodes of the other side as a parameter.  BidsApply, AsksApply, *)
(* BidsClear and AsksClear bring the instances Bids and Asks of BookSide   *)
(* into that form.  BookInvariant, the inductive invariant, adds to what   *)
(* holds of the sides and the stack (BookOK) what snapshot() has still to  *)
(* do and when the cached top is good (PhaseOK).                           *)
(***************************************************************************)
EXTENDS OrderBook, FunctionTheorems, FiniteSetTheorems, SequenceTheorems,
        WellFoundedInduction, TLAPS

-----------------------------------------------------------------------------
(* The order of a side: asc is TRUE for the asks and FALSE for the bids.   *)

Better(asc, p, q) == IF asc THEN p < q ELSE p > q
AheadOf(asc, t, lv, p) == {m \in t : Better(asc, lv[m].price, p)}
Position(asc, t, lv, k) == CHOOSE n \in t : Cardinality(AheadOf(asc, t, lv, lv[n].price)) = k
NthOf(asc, t, lv, d) ==
    IF Cardinality(t) < d THEN 0 ELSE lv[Position(asc, t, lv, d - 1)].price
RankOf(asc, t, lv, n) == Cardinality(AheadOf(asc, t, lv, lv[n].price))

\* A finite set of nodes with integer prices, no two alike: what a tree is.
Levels(t, lv) ==
    /\ IsFiniteSet(t)
    /\ \A n \in t : lv[n].price \in Int
    /\ \A m, n \in t : lv[m].price = lv[n].price => m = n

LEMMA AheadFinite ==
  ASSUME NEW asc, NEW t, IsFiniteSet(t), NEW lv, NEW p
  PROVE  /\ AheadOf(asc, t, lv, p) \subseteq t
         /\ IsFiniteSet(AheadOf(asc, t, lv, p))
         /\ Cardinality(AheadOf(asc, t, lv, p)) \in Nat
         /\ Cardinality(AheadOf(asc, t, lv, p)) <= Cardinality(t)
<1>1. AheadOf(asc, t, lv, p) \in SUBSET t
  BY DEF AheadOf
<1> QED
  BY <1>1, FS_Subset, FS_CardinalityType

\* A strictly better level has strictly fewer levels ahead of it.
LEMMA RankStrict ==
  ASSUME NEW asc, NEW t, NEW lv, Levels(t, lv), NEW m \in t, NEW p \in Int,
         Better(asc, lv[m].price, p)
  PROVE  RankOf(asc, t, lv, m) < Cardinality(AheadOf(asc, t, lv, p))
<1> DEFINE A == AheadOf(asc, t, lv, lv[m].price)
           B == AheadOf(asc, t, lv, p)
<1>1. IsFiniteSet(A) /\ IsFiniteSet(B) /\ Cardinality(A) \in Nat /\ Cardinality(B) \in Nat
  BY AheadFinite DEF Levels
<1>2. m \notin A /\ m \in B
  BY DEF AheadOf, Better, Levels
<1>3. A \subseteq B
  BY DEF AheadOf, Better, Levels
<1>4. A \cup {m} \in SUBSET B
  BY <1>2, <1>3
<1>5. Cardinality(A \cup {m}) = Cardinality(A) + 1
  BY <1>1, <1>2, FS_AddElement
<1>6. Cardinality(A \cup {m}) <= Cardinality(B)
  BY <1>1, <1>4, FS_Subset
<1> HIDE DEF A, B
<1>7. Cardinality(A) < Cardinality(B)
  BY <1>1, <1>5, <1>6
<1> QED
  BY <1>7 DEF RankOf, A, B

LEMMA RankInjective ==
  ASSUME NEW asc, NEW t, NEW lv, Levels(t, lv), NEW m \in t, NEW n \in t,
         RankOf(asc, t, lv, m) = RankOf(asc, t, lv, n)
  PROVE  m = n
<1>1. RankOf(asc, t, lv, m) \in Nat /\ RankOf(asc, t, lv, n) \in Nat
  BY AheadFinite DEF RankOf, Levels
<1>2. lv[m].price \in Int /\ lv[n].price \in Int
  BY DEF Levels
<1>3. ~Better(asc, lv[m].price, lv[n].price)
  BY <1>1, <1>2, RankStrict DEF RankOf
<1>4. ~Better(asc, lv[n].price, lv[m].price)
  BY <1>1, <1>2, RankStrict DEF RankOf
<1>5. lv[m].price = lv[n].price
  BY <1>2, <1>3, <1>4 DEF Better
<1> QED
  BY <1>5 DEF Levels

LEMMA RankBelowSize ==
  ASSUME NEW asc, NEW t, NEW lv, Levels(t, lv), NEW n \in t
  PROVE  RankOf(asc, t, lv, n) \in 0 .. Cardinality(t) - 1
<1> DEFINE A == AheadOf(asc, t, lv, lv[n].price)
<1>1. /\ A \subseteq t \ {n} /\ IsFiniteSet(t \ {n}) /\ IsFiniteSet(t)
      /\ Cardinality(t) \in Nat
      /\ Cardinality(t \ {n}) = Cardinality(t) - 1
  BY FS_RemoveElement, FS_CardinalityType DEF AheadOf, Better, Levels
<1>2. Cardinality(A) \in Nat /\ Cardinality(A) <= Cardinality(t \ {n})
  BY <1>1, FS_Subset, FS_CardinalityType
<1> HIDE DEF A
<1>3. Cardinality(A) \in 0 .. Cardinality(t) - 1
  BY <1>1, <1>2
<1> QED
  BY <1>3 DEF RankOf, A

\* Every position below the size of the book is some level's.
LEMMA AtExists ==
  ASSUME NEW asc, NEW t, NEW lv, Levels(t, lv), NEW k \in 0 .. Cardinality(t) - 1
  PROVE  Position(asc, t, lv, k) \in t /\ RankOf(asc, t, lv, Position(asc, t, lv, k)) = k
<1> DEFINE T == (0 .. Cardinality(t) - 1) \ {k}
           f == [n \in t |-> RankOf(asc, t, lv, n)]
<1>1. IsFiniteSet(t) /\ Cardinality(t) \in Nat
  BY FS_CardinalityType DEF Levels
<1>2. \E n \in t : RankOf(asc, t, lv, n) = k
  <2>1. SUFFICES ASSUME \A n \in t : RankOf(asc, t, lv, n) # k
                 PROVE  FALSE
    OBVIOUS
  <2>2. f \in [t -> T]
    BY <2>1, RankBelowSize
  <2>3. IsFiniteSet(0 .. Cardinality(t) - 1) /\ Cardinality(0 .. Cardinality(t) - 1) = Cardinality(t)
    <3>1. Cardinality(t) - 1 \in Int
      BY <1>1
    <3> QED
      BY <1>1, <3>1, FS_Interval
  <2>4. IsFiniteSet(T) /\ Cardinality(T) = Cardinality(t) - 1
    BY <2>3, FS_RemoveElement
  <2>5. Cardinality(T) < Cardinality(t)
    BY <1>1, <2>4
  <2> HIDE DEF T, f
  <2>6. \E x, y \in t : x # y /\ f[x] = f[y]
    BY <1>1, <2>2, <2>4, <2>5, FS_PigeonHole
  <2> QED
    BY <2>6, RankInjective DEF f
<1> QED
  BY <1>2 DEF Position, RankOf

LEMMA AtUnique ==
  ASSUME NEW asc, NEW t, NEW lv, Levels(t, lv), NEW n \in t
  PROVE  Position(asc, t, lv, RankOf(asc, t, lv, n)) = n
<1>1. RankOf(asc, t, lv, n) \in 0 .. Cardinality(t) - 1
  BY RankBelowSize
<1>2. /\ Position(asc, t, lv, RankOf(asc, t, lv, n)) \in t
      /\ RankOf(asc, t, lv, Position(asc, t, lv, RankOf(asc, t, lv, n))) = RankOf(asc, t, lv, n)
  BY <1>1, AtExists
<1> QED
  BY <1>2, RankInjective

-----------------------------------------------------------------------------
(* The cached price.                                                       *)

\* The N-th price stays when its level stays and the same levels are ahead of it.
LEMMA NthStable ==
  ASSUME NEW asc, NEW t, NEW lv, Levels(t, lv), NEW u, NEW lw, Levels(u, lw),
         NEW d \in Nat \ {0}, d <= Cardinality(t), d <= Cardinality(u),
         NEW n, n = Position(asc, t, lv, d - 1), n \in u, lw[n].price = lv[n].price,
         AheadOf(asc, u, lw, lv[n].price) = AheadOf(asc, t, lv, lv[n].price)
  PROVE  NthOf(asc, u, lw, d) = NthOf(asc, t, lv, d)
<1>1. Cardinality(t) \in Nat /\ Cardinality(u) \in Nat
  BY FS_CardinalityType DEF Levels
<1>2. n \in t /\ RankOf(asc, t, lv, n) = d - 1
  <2>1. d - 1 \in 0 .. Cardinality(t) - 1
    BY <1>1
  <2> QED
    BY <2>1, AtExists
<1>3. RankOf(asc, u, lw, n) = d - 1
  BY <1>2 DEF RankOf
<1>4. Position(asc, u, lw, d - 1) = n
  BY <1>3, AtUnique
<1>5. ~(Cardinality(t) < d) /\ ~(Cardinality(u) < d)
  BY <1>1
<1> QED
  BY <1>4, <1>5 DEF NthOf

\* A level worse than the N-th best can come and go without moving the N-th best.
LEMMA NthStableBehind ==
  ASSUME NEW asc, NEW t, NEW lv, Levels(t, lv), NEW x, x \notin t,
         NEW u, u = t \cup {x}, NEW lw, Levels(u, lw),
         \A n \in t : lw[n].price = lv[n].price,
         NEW d \in Nat \ {0}, d <= Cardinality(t),
         \/ Better(asc, NthOf(asc, t, lv, d), lw[x].price)
         \/ Better(asc, NthOf(asc, u, lw, d), lw[x].price)
  PROVE  NthOf(asc, u, lw, d) = NthOf(asc, t, lv, d)
<1>1. /\ Cardinality(t) \in Nat /\ Cardinality(u) = Cardinality(t) + 1
      /\ d <= Cardinality(u) /\ d - 1 \in 0 .. Cardinality(t) - 1
      /\ d - 1 \in 0 .. Cardinality(u) - 1
      /\ ~(Cardinality(t) < d) /\ ~(Cardinality(u) < d)
  <2>1. Cardinality(t) \in Nat /\ Cardinality(u) = Cardinality(t) + 1
    BY FS_CardinalityType, FS_AddElement DEF Levels
  <2> QED
    BY <2>1
<1>2. CASE Better(asc, NthOf(asc, t, lv, d), lw[x].price)
  <2> DEFINE n == Position(asc, t, lv, d - 1)
  <2>1. n \in t
    BY <1>1, AtExists
  <2>2. Better(asc, lv[n].price, lw[x].price)
    BY <1>1, <1>2 DEF NthOf
  <2> HIDE DEF n
  <2>3. AheadOf(asc, u, lw, lv[n].price) = AheadOf(asc, t, lv, lv[n].price)
    BY <2>1, <2>2 DEF AheadOf, Better, Levels
  <2>4. n \in u /\ lw[n].price = lv[n].price
    BY <2>1
  <2>5. NthOf(asc, u, lw, d) = NthOf(asc, t, lv, d)
    BY <1>1, <2>3, <2>4, NthStable DEF n
  <2> QED
    BY <2>5
<1>3. CASE Better(asc, NthOf(asc, u, lw, d), lw[x].price)
  <2> DEFINE n == Position(asc, u, lw, d - 1)
  <2>1. n \in u
    BY <1>1, AtExists
  <2>2. Better(asc, lw[n].price, lw[x].price)
    BY <1>1, <1>3 DEF NthOf
  <2> HIDE DEF n
  <2>3. n \in t /\ lv[n].price = lw[n].price
    BY <2>1, <2>2 DEF Better, Levels
  <2>4. AheadOf(asc, t, lv, lw[n].price) = AheadOf(asc, u, lw, lw[n].price)
    BY <2>2, <2>3 DEF AheadOf, Better, Levels
  <2>5. NthOf(asc, t, lv, d) = NthOf(asc, u, lw, d)
    BY <1>1, <2>3, <2>4, NthStable DEF n
  <2> QED
    BY <2>5
<1> QED
  BY <1>2, <1>3

\* The N-th price depends on the prices of the levels only.
LEMMA NthOfPrices ==
  ASSUME NEW asc, NEW t, NEW lv, NEW lw, \A n \in t : lw[n].price = lv[n].price,
         Levels(t, lv), NEW d \in Nat \ {0}
  PROVE  NthOf(asc, t, lw, d) = NthOf(asc, t, lv, d)
<1>1. Levels(t, lw)
  BY DEF Levels
<1>2. Cardinality(t) \in Nat
  BY FS_CardinalityType DEF Levels
<1>3. CASE Cardinality(t) < d
  BY <1>3 DEF NthOf
<1>4. CASE d <= Cardinality(t)
  <2> DEFINE n == Position(asc, t, lv, d - 1)
  <2>1. d - 1 \in 0 .. Cardinality(t) - 1
    BY <1>2, <1>4
  <2>2. n \in t
    BY <2>1, AtExists
  <2> HIDE DEF n
  <2>3. AheadOf(asc, t, lw, lv[n].price) = AheadOf(asc, t, lv, lv[n].price)
    BY DEF AheadOf
  <2> QED
    BY <1>1, <1>4, <2>2, <2>3, NthStable DEF n
<1> QED
  BY <1>2, <1>3, <1>4

\* The cached price is a price of the book or the sentinel.
LEMMA NthPriceType ==
  ASSUME NEW asc, NEW t, NEW lv, Levels(t, lv), NEW d \in Nat \ {0}
  PROVE  NthOf(asc, t, lv, d) = 0 \/ \E n \in t : NthOf(asc, t, lv, d) = lv[n].price
<1>1. Cardinality(t) \in Nat
  BY FS_CardinalityType DEF Levels
<1>2. CASE Cardinality(t) < d
  BY <1>2 DEF NthOf
<1>3. CASE d <= Cardinality(t)
  <2>1. d - 1 \in 0 .. Cardinality(t) - 1 /\ ~(Cardinality(t) < d)
    BY <1>1, <1>3
  <2> QED
    BY <2>1, AtExists DEF NthOf
<1> QED
  BY <1>1, <1>2, <1>3


-----------------------------------------------------------------------------
(* The pool: a stack of the nodes that are not in use.                     *)

Stack(fr, used) ==
    /\ fr \in Seq(Nodes)
    /\ \A i \in DOMAIN fr : fr[i] \notin used
    /\ \A i, j \in DOMAIN fr : fr[i] = fr[j] => i = j
    /\ \A n \in Nodes \ used : \E i \in DOMAIN fr : fr[i] = n

\* The top of the stack goes into use.
LEMMA StackPop ==
  ASSUME NEW fr, NEW used, Stack(fr, used), fr # <<>>
  PROVE  /\ Head(fr) \in Nodes \ used
         /\ Stack(Tail(fr), used \cup {Head(fr)})
<1>1. fr \in Seq(Nodes) /\ Len(fr) \in Nat /\ DOMAIN fr = 1 .. Len(fr)
  BY DEF Stack
<1>2. /\ Head(fr) = fr[1] /\ fr[1] \in Nodes /\ 1 \in DOMAIN fr
      /\ Tail(fr) \in Seq(Nodes) /\ DOMAIN Tail(fr) = 1 .. Len(fr) - 1
      /\ \A i \in 1 .. Len(fr) - 1 : Tail(fr)[i] = fr[i + 1]
  BY <1>1, HeadTailProperties
<1>3. Head(fr) \notin used
  BY <1>2 DEF Stack
<1> DEFINE tl == Tail(fr)
           hd == Head(fr)
<1> HIDE DEF tl, hd
<1>4. /\ hd = fr[1] /\ DOMAIN tl = 1 .. Len(fr) - 1
      /\ \A i \in 1 .. Len(fr) - 1 : i + 1 \in DOMAIN fr /\ tl[i] = fr[i + 1]
  BY <1>1, <1>2 DEF tl, hd
<1>5. \A i \in DOMAIN tl : tl[i] \notin used \cup {hd}
  <2> SUFFICES ASSUME NEW i \in DOMAIN tl PROVE tl[i] \notin used /\ tl[i] # hd
    OBVIOUS
  <2>1. i + 1 \in DOMAIN fr /\ tl[i] = fr[i + 1] /\ i + 1 # 1
    BY <1>1, <1>4
  <2> QED
    BY <1>2, <1>4, <2>1 DEF Stack
<1>6. \A i, j \in DOMAIN tl : tl[i] = tl[j] => i = j
  <2> SUFFICES ASSUME NEW i \in DOMAIN tl, NEW j \in DOMAIN tl, tl[i] = tl[j] PROVE i = j
    OBVIOUS
  <2>1. i + 1 \in DOMAIN fr /\ j + 1 \in DOMAIN fr /\ fr[i + 1] = fr[j + 1]
    BY <1>4
  <2>2. i + 1 = j + 1
    BY <2>1 DEF Stack
  <2> QED
    BY <1>1, <1>4, <2>2
<1>7. \A n \in Nodes \ (used \cup {hd}) : \E i \in DOMAIN tl : tl[i] = n
  <2> SUFFICES ASSUME NEW n \in Nodes \ used, n # hd PROVE \E i \in DOMAIN tl : tl[i] = n
    OBVIOUS
  <2>1. PICK i \in DOMAIN fr : fr[i] = n
    BY DEF Stack
  <2>2. i - 1 \in 1 .. Len(fr) - 1 /\ (i - 1) + 1 = i
    BY <1>1, <1>4, <2>1
  <2>3. tl[i - 1] = n
    BY <1>4, <2>1, <2>2
  <2> QED
    BY <1>4, <2>2, <2>3
<1> QED
  BY <1>2, <1>3, <1>5, <1>6, <1>7 DEF Stack, tl, hd

\* What each position of a concatenation holds.
LEMMA Concatenation ==
  ASSUME NEW S, NEW a \in Seq(S), NEW b \in Seq(S)
  PROVE  /\ a \o b \in Seq(S)
         /\ DOMAIN (a \o b) = 1 .. Len(a) + Len(b)
         /\ \A i \in 1 .. Len(a) : (a \o b)[i] = a[i]
         /\ \A i \in Len(a) + 1 .. Len(a) + Len(b) : (a \o b)[i] = b[i - Len(a)]
<1>1. a \o b \in Seq(S)
  OBVIOUS
<1>2. Len(a \o b) = Len(a) + Len(b)
  OBVIOUS
<1>3. DOMAIN (a \o b) = 1 .. Len(a \o b)
  BY <1>1
<1>4. \A i \in 1 .. Len(a) : (a \o b)[i] = a[i]
  OBVIOUS
<1>5. \A i \in Len(a) + 1 .. Len(a) + Len(b) : (a \o b)[i] = b[i - Len(a)]
  OBVIOUS
<1> QED
  BY <1>1, <1>2, <1>3, <1>4, <1>5

\* Some nodes that were in use, listed without repetition, go on top of the stack.
LEMMA StackPush ==
  ASSUME NEW fr, NEW used, Stack(fr, used), NEW s \in Seq(Nodes), NEW rest,
         \A i \in DOMAIN s : s[i] \in used \ rest,
         \A i, j \in DOMAIN s : s[i] = s[j] => i = j,
         \A n \in used \ rest : \E i \in DOMAIN s : s[i] = n,
         rest \subseteq used
  PROVE  Stack(s \o fr, rest)
<1> DEFINE c == s \o fr
           n == Len(s)
           k == Len(fr)
<1>1. fr \in Seq(Nodes) /\ n \in Nat /\ k \in Nat /\ DOMAIN fr = 1 .. k /\ DOMAIN s = 1 .. n
  BY DEF Stack
<1>2. /\ c \in Seq(Nodes) /\ DOMAIN c = 1 .. n + k
      /\ \A i \in 1 .. n : c[i] = s[i]
      /\ \A i \in n + 1 .. n + k : c[i] = fr[i - n]
  BY <1>1, Concatenation
<1> HIDE DEF c, n, k
<1>3. \A i \in DOMAIN c : \/ i \in DOMAIN s /\ c[i] = s[i] /\ s[i] \in used \ rest
                          \/ /\ i - n \in DOMAIN fr /\ c[i] = fr[i - n] /\ fr[i - n] \notin used
                             /\ i \in Int
  BY <1>1, <1>2 DEF Stack
<1>4. \A i \in DOMAIN c : c[i] \notin rest
  BY <1>3
<1>5. \A i, j \in DOMAIN c : c[i] = c[j] => i = j
  <2> SUFFICES ASSUME NEW i \in DOMAIN c, NEW j \in DOMAIN c, c[i] = c[j] PROVE i = j
    OBVIOUS
  <2>1. CASE i \in DOMAIN s /\ c[i] = s[i] /\ s[i] \in used \ rest
    BY <1>3, <2>1
  <2>2. CASE i - n \in DOMAIN fr /\ c[i] = fr[i - n] /\ fr[i - n] \notin used /\ i \in Int
    <3>1. j - n \in DOMAIN fr /\ c[j] = fr[j - n] /\ j \in Int
      BY <1>3, <2>2
    <3>2. i - n = j - n
      BY <2>2, <3>1 DEF Stack
    <3> QED
      BY <1>1, <2>2, <3>1, <3>2
  <2> QED
    BY <1>3, <2>1, <2>2
<1>6. \A m \in Nodes \ rest : \E i \in DOMAIN c : c[i] = m
  <2> SUFFICES ASSUME NEW m \in Nodes \ rest PROVE \E i \in DOMAIN c : c[i] = m
    OBVIOUS
  <2>1. CASE m \in used
    <3>1. PICK i \in DOMAIN s : s[i] = m
      BY <2>1
    <3>2. i \in DOMAIN c /\ c[i] = m
      BY <1>1, <1>2, <3>1
    <3> QED
      BY <3>2
  <2>2. CASE m \notin used
    <3>1. PICK i \in DOMAIN fr : fr[i] = m
      BY <2>2 DEF Stack
    <3>2. i + n \in n + 1 .. n + k /\ (i + n) - n = i /\ i + n \in DOMAIN c
      BY <1>1, <1>2, <3>1
    <3>3. c[i + n] = m
      BY <1>2, <3>1, <3>2
    <3> QED
      BY <3>2, <3>3
  <2> QED
    BY <2>1, <2>2
<1> QED
  BY <1>2, <1>4, <1>5, <1>6 DEF Stack, c

-----------------------------------------------------------------------------
(* A side: its tree, hash map, cached price and depth, as a record.        *)

Words == 0 .. 2 * HalfWord - 1
Int64s == -HalfWord .. HalfWord - 1
Contents == [Nodes -> [price : Prices \cup {0}, quantity : Words]]

LEMMA QuantityIsWord ==
  ASSUME NEW qty \in Quantities \cup {0}
  PROVE  qty \in Words /\ qty \in Nat /\ (qty > 0 \/ qty = 0)
BY SidesAssumption DEF Words

LEMMA WordsAreNat == 0 \in Words /\ Words \subseteq Nat
BY SidesAssumption DEF Words

\* The side's own part of the invariant.
SideOK(asc, lv, s) ==
    /\ s.tree \in SUBSET Nodes
    /\ s.index \in [DOMAIN s.index -> s.tree]
    /\ DOMAIN s.index \subseteq Prices
    /\ \A n \in s.tree : lv[n].price \in DOMAIN s.index /\ s.index[lv[n].price] = n
    /\ \A p \in DOMAIN s.index : lv[s.index[p]].price = p
    /\ \A n \in s.tree : lv[n].quantity > 0
    /\ s.depth \in Depths
    /\ s.nth = NthOf(asc, s.tree, lv, s.depth)

\* The quantity at every price, as AsSide has it.
Amounts(lv, s) ==
    [p \in Prices |-> IF p \in DOMAIN s.index THEN lv[s.index[p]].quantity ELSE 0]

LEMMA TreeIsLevels ==
  ASSUME NEW asc, NEW lv, NEW s, SideOK(asc, lv, s)
  PROVE  Levels(s.tree, lv) /\ s.depth \in Nat \ {0}
<1>1. IsFiniteSet(s.tree)
  <2>1. s.tree \in SUBSET Nodes
    BY DEF SideOK
  <2> QED
    BY <2>1, FS_Subset, SidesAssumption
<1>2. \A n \in s.tree : lv[n].price \in Prices /\ s.index[lv[n].price] = n
  BY DEF SideOK
<1> QED
  BY <1>1, <1>2, SidesAssumption DEF Levels, SideOK

\* A side is its own nodes: what happens to others does not touch it.
LEMMA SideUntouched ==
  ASSUME NEW asc, NEW lv, NEW s, SideOK(asc, lv, s), NEW lw,
         \A n \in s.tree : lw[n] = lv[n]
  PROVE  /\ SideOK(asc, lw, s)
         /\ Amounts(lw, s) = Amounts(lv, s)
         /\ \A k \in 0 .. Cardinality(s.tree) - 1 :
               Position(asc, s.tree, lw, k) = Position(asc, s.tree, lv, k)
<1>1. Levels(s.tree, lv) /\ s.depth \in Nat \ {0} /\ Levels(s.tree, lw)
  BY TreeIsLevels DEF Levels
<1>2. NthOf(asc, s.tree, lw, s.depth) = NthOf(asc, s.tree, lv, s.depth)
  BY <1>1, NthOfPrices
<1>3. SideOK(asc, lw, s)
  BY <1>2 DEF SideOK
<1>4. Amounts(lw, s) = Amounts(lv, s)
  <2>1. \A p \in DOMAIN s.index : s.index[p] \in s.tree
    BY DEF SideOK
  <2> QED
    BY <2>1 DEF Amounts
<1>5. \A k \in 0 .. Cardinality(s.tree) - 1 :
         Position(asc, s.tree, lw, k) = Position(asc, s.tree, lv, k)
  <2> SUFFICES ASSUME NEW k \in 0 .. Cardinality(s.tree) - 1
               PROVE  Position(asc, s.tree, lw, k) = Position(asc, s.tree, lv, k)
    OBVIOUS
  <2> DEFINE n == Position(asc, s.tree, lv, k)
  <2>1. n \in s.tree /\ RankOf(asc, s.tree, lv, n) = k
    BY <1>1, AtExists
  <2>2. AheadOf(asc, s.tree, lw, lw[n].price) = AheadOf(asc, s.tree, lv, lv[n].price)
    BY <2>1 DEF AheadOf
  <2> HIDE DEF n
  <2>3. RankOf(asc, s.tree, lw, n) = k
    BY <2>1, <2>2 DEF RankOf
  <2>4. Position(asc, s.tree, lw, k) = n
    BY <1>1, <2>1, <2>3, AtUnique
  <2> QED
    BY <2>4 DEF n
<1> QED
  BY <1>3, <1>4, <1>5

-----------------------------------------------------------------------------
(* What apply_update() and clear() do to a side and to the pool.           *)

Ignored(fr, lv, s, price, qty, fr1, lv1, s1) ==
    /\ price \notin DOMAIN s.index /\ qty = 0
    /\ fr1 = fr /\ lv1 = lv
    /\ s1.tree = s.tree /\ s1.index = s.index /\ s1.nth = s.nth /\ s1.depth = s.depth

Inserted(asc, fr, lv, s, price, qty, fr1, lv1, s1) ==
    /\ price \notin DOMAIN s.index /\ qty > 0 /\ fr # <<>>
    /\ fr1 = Tail(fr)
    /\ lv1 = [lv EXCEPT ![Head(fr)] = [price |-> price, quantity |-> qty]]
    /\ s1.tree = s.tree \cup {Head(fr)}
    /\ s1.index = [p \in DOMAIN s.index \cup {price} |->
                      IF p = price THEN Head(fr) ELSE s.index[p]]
    /\ s1.nth = IF \/ Cardinality(s1.tree) = s.depth
                   \/ /\ Cardinality(s1.tree) > s.depth
                      /\ Cardinality(s1.tree) < s.depth \/ ~Better(asc, s.nth, price)
                THEN NthOf(asc, s1.tree, lv1, s.depth)
                ELSE s.nth
    /\ s1.depth = s.depth

Deleted(asc, fr, lv, s, price, qty, fr1, lv1, s1) ==
    /\ price \in DOMAIN s.index /\ qty = 0
    /\ fr1 = <<s.index[price]>> \o fr
    /\ lv1 = [lv EXCEPT ![s.index[price]] = [price |-> 0, quantity |-> 0]]
    /\ s1.tree = s.tree \ {s.index[price]}
    /\ s1.index = [p \in DOMAIN s.index \ {price} |-> s.index[p]]
    /\ s1.nth = IF \/ Cardinality(s1.tree) = s.depth - 1
                   \/ Cardinality(s.tree) < s.depth \/ ~Better(asc, s.nth, price)
                THEN NthOf(asc, s1.tree, lv, s.depth)
                ELSE s.nth
    /\ s1.depth = s.depth

Requantified(fr, lv, s, price, qty, fr1, lv1, s1) ==
    /\ price \in DOMAIN s.index /\ qty > 0
    /\ fr1 = fr
    /\ lv1 = [lv EXCEPT ![s.index[price]].quantity = qty]
    /\ s1.tree = s.tree /\ s1.index = s.index /\ s1.nth = s.nth /\ s1.depth = s.depth

Applied(asc, fr, lv, s, price, qty, fr1, lv1, s1) ==
    \/ Ignored(fr, lv, s, price, qty, fr1, lv1, s1)
    \/ Inserted(asc, fr, lv, s, price, qty, fr1, lv1, s1)
    \/ Deleted(asc, fr, lv, s, price, qty, fr1, lv1, s1)
    \/ Requantified(fr, lv, s, price, qty, fr1, lv1, s1)

\* What is left when an update of a side is done: the side is well formed again, the
\* nodes of the other one are as they were, the pool has what neither has, and it is
\* the quantity at one price that changed.
Outcome(asc, lv, s, others, price, qty, fr1, lv1, s1) ==
    /\ lv1 \in Contents
    /\ SideOK(asc, lv1, s1)
    /\ s1.tree \cap others = {}
    /\ Stack(fr1, s1.tree \cup others)
    /\ \A n \in others : lv1[n] = lv[n]
    /\ \A p \in DOMAIN s.index \cap DOMAIN s1.index : s1.index[p] = s.index[p]
    /\ \A n \in s.tree \cap s1.tree : lv1[n].price = lv[n].price
    /\ Amounts(lv1, s1) = [Amounts(lv, s) EXCEPT ![price] = qty]

\* A new level: the node at the top of the stack goes into the tree.
LEMMA InsertOutcome ==
  ASSUME NEW asc, NEW fr, NEW lv \in Contents, NEW s, SideOK(asc, lv, s),
         NEW others \in SUBSET Nodes, s.tree \cap others = {}, Stack(fr, s.tree \cup others),
         NEW price \in Prices, NEW qty \in Quantities \cup {0}, NEW fr1, NEW lv1, NEW s1,
         Inserted(asc, fr, lv, s, price, qty, fr1, lv1, s1)
  PROVE  Outcome(asc, lv, s, others, price, qty, fr1, lv1, s1)
<1> DEFINE node == Head(fr)
           t == s1.tree
<1>a. Levels(s.tree, lv) /\ s.depth \in Nat \ {0}
  BY TreeIsLevels
<1>b. qty \in Words /\ qty \in Nat /\ price \in Int /\ qty > 0 /\ price \notin DOMAIN s.index /\ s1.depth = s.depth
  BY SidesAssumption, QuantityIsWord DEF Inserted
<1>c. /\ node \in Nodes /\ node \notin s.tree /\ node \notin others
      /\ Stack(fr1, (s.tree \cup others) \cup {node})
  <2>1. fr # <<>> /\ fr1 = Tail(fr)
    BY DEF Inserted
  <2>2. node \in Nodes \ (s.tree \cup others) /\ Stack(Tail(fr), (s.tree \cup others) \cup {node})
    BY <2>1, StackPop
  <2> QED
    BY <2>1, <2>2
<1>d. /\ t = s.tree \cup {node}
      /\ lv1 = [lv EXCEPT ![node] = [price |-> price, quantity |-> qty]]
      /\ s1.index = [p \in DOMAIN s.index \cup {price} |-> IF p = price THEN node ELSE s.index[p]]
      /\ s1.nth = IF \/ Cardinality(t) = s.depth
                     \/ /\ Cardinality(t) > s.depth
                        /\ Cardinality(t) < s.depth \/ ~Better(asc, s.nth, price)
                  THEN NthOf(asc, t, lv1, s.depth)
                  ELSE s.nth
  BY DEF Inserted
<1> HIDE DEF node, t
<1>e. /\ lv1 \in Contents /\ lv1[node] = [price |-> price, quantity |-> qty]
      /\ \A n \in Nodes \ {node} : lv1[n] = lv[n]
  BY <1>b, <1>c, <1>d DEF Contents
<1>f. s.tree \in SUBSET Nodes /\ \A n \in s.tree : lv1[n] = lv[n] /\ lv[n].price # price
  BY <1>b, <1>c, <1>e DEF SideOK
<1>g. Levels(t, lv1) /\ Cardinality(t) = Cardinality(s.tree) + 1 /\ Cardinality(s.tree) \in Nat
  <2>1. IsFiniteSet(t) /\ Cardinality(t) = Cardinality(s.tree) + 1 /\ Cardinality(s.tree) \in Nat
    BY <1>a, <1>c, <1>d, FS_AddElement, FS_CardinalityType DEF Levels
  <2> QED
    BY <1>a, <1>b, <1>d, <1>e, <1>f, <2>1 DEF Levels
<1>1. s1.nth = NthOf(asc, t, lv1, s.depth)
  <2>1. CASE Cardinality(t) < s.depth
    <3>1. s.nth = NthOf(asc, s.tree, lv, s.depth)
      BY DEF SideOK
    <3>2. Cardinality(s.tree) < s.depth /\ ~(Cardinality(t) = s.depth) /\ ~(Cardinality(t) > s.depth)
      BY <1>a, <1>g, <2>1
    <3> QED
      BY <1>d, <2>1, <3>1, <3>2 DEF NthOf
  <2>2. CASE Cardinality(t) = s.depth \/ (Cardinality(t) > s.depth /\ ~Better(asc, s.nth, price))
    BY <1>d, <2>2
  <2>3. CASE Cardinality(t) > s.depth /\ Better(asc, s.nth, price)
    <3>1. s.depth <= Cardinality(s.tree) /\ ~(Cardinality(t) < s.depth) /\ ~(Cardinality(t) = s.depth)
      BY <1>a, <1>g, <2>3
    <3>2. s1.nth = s.nth /\ s.nth = NthOf(asc, s.tree, lv, s.depth)
      BY <1>d, <2>3, <3>1 DEF SideOK
    <3>3. Better(asc, NthOf(asc, s.tree, lv, s.depth), lv1[node].price)
      BY <1>e, <2>3, <3>2
    <3>4. \A n \in s.tree : lv1[n].price = lv[n].price
      BY <1>f
    <3>5. NthOf(asc, t, lv1, s.depth) = NthOf(asc, s.tree, lv, s.depth)
      <4>1. Levels(s.tree, lv) /\ Levels(t, lv1) /\ node \notin s.tree /\ t = s.tree \cup {node}
        BY <1>a, <1>c, <1>d, <1>g
      <4> QED
        BY <4>1, <1>a, <3>1, <3>3, <3>4, NthStableBehind
    <3> QED
      BY <3>2, <3>5
  <2> QED
    BY <1>a, <1>g, <2>1, <2>2, <2>3
<1>2. SideOK(asc, lv1, s1)
  <2>1. t \in SUBSET Nodes /\ \A n \in t : lv1[n].quantity > 0
    BY <1>b, <1>c, <1>d, <1>e, <1>f DEF SideOK
  <2>2. s1.index \in [DOMAIN s1.index -> t] /\ DOMAIN s1.index \subseteq Prices
    BY <1>d DEF SideOK
  <2>3. \A n \in t : lv1[n].price \in DOMAIN s1.index /\ s1.index[lv1[n].price] = n
    BY <1>b, <1>d, <1>e, <1>f DEF SideOK
  <2>4. \A p \in DOMAIN s1.index : lv1[s1.index[p]].price = p
    BY <1>b, <1>d, <1>e, <1>f DEF SideOK
  <2>5. s1.depth \in Depths
    BY <1>b DEF SideOK
  <2> QED
    BY <1>1, <1>b, <2>1, <2>2, <2>3, <2>4, <2>5 DEF SideOK, t
<1>3. Stack(fr1, s1.tree \cup others) /\ s1.tree \cap others = {}
  <2>1. (s.tree \cup others) \cup {node} = t \cup others /\ t \cap others = {}
    BY <1>c, <1>d
  <2> QED
    BY <1>c, <2>1 DEF t
<1>4. \A n \in others : lv1[n] = lv[n]
  BY <1>c, <1>e
<1>5. \A p \in DOMAIN s.index \cap DOMAIN s1.index : s1.index[p] = s.index[p]
  BY <1>b, <1>d
<1>6. Amounts(lv1, s1) = [Amounts(lv, s) EXCEPT ![price] = qty]
  <2> SUFFICES ASSUME NEW p \in Prices
               PROVE  Amounts(lv1, s1)[p] = IF p = price THEN qty ELSE Amounts(lv, s)[p]
    BY DEF Amounts
  <2>1. CASE p = price
    BY <1>d, <1>e, <2>1 DEF Amounts
  <2>2. CASE p # price /\ p \in DOMAIN s.index
    <3>1. s1.index[p] = s.index[p] /\ s.index[p] \in s.tree /\ p \in DOMAIN s1.index
      BY <1>d, <2>2 DEF SideOK
    <3> QED
      BY <1>f, <2>2, <3>1 DEF Amounts
  <2>3. CASE p # price /\ p \notin DOMAIN s.index
    BY <1>d, <2>3 DEF Amounts
  <2> QED
    BY <2>1, <2>2, <2>3
<1> QED
  BY <1>e, <1>f, <1>2, <1>3, <1>4, <1>5, <1>6 DEF Outcome

\* A level goes: its node is on top of the stack now.
LEMMA DeleteOutcome ==
  ASSUME NEW asc, NEW fr, NEW lv \in Contents, NEW s, SideOK(asc, lv, s),
         NEW others \in SUBSET Nodes, s.tree \cap others = {}, Stack(fr, s.tree \cup others),
         NEW price \in Prices, NEW qty \in Quantities \cup {0}, NEW fr1, NEW lv1, NEW s1,
         Deleted(asc, fr, lv, s, price, qty, fr1, lv1, s1)
  PROVE  Outcome(asc, lv, s, others, price, qty, fr1, lv1, s1)
<1> DEFINE node == s.index[price]
           t == s1.tree
<1>a. Levels(s.tree, lv) /\ s.depth \in Nat \ {0}
  BY TreeIsLevels
<1>b. /\ price \in DOMAIN s.index /\ qty = 0 /\ s1.depth = s.depth
      /\ fr1 = <<node>> \o fr
      /\ lv1 = [lv EXCEPT ![node] = [price |-> 0, quantity |-> 0]]
      /\ t = s.tree \ {node}
      /\ s1.index = [p \in DOMAIN s.index \ {price} |-> s.index[p]]
      /\ s1.nth = IF \/ Cardinality(t) = s.depth - 1
                     \/ Cardinality(s.tree) < s.depth \/ ~Better(asc, s.nth, price)
                  THEN NthOf(asc, t, lv, s.depth)
                  ELSE s.nth
  BY DEF Deleted
<1>c. node \in s.tree /\ node \in Nodes /\ node \notin others /\ lv[node].price = price
  BY <1>b DEF SideOK
<1> HIDE DEF node, t
<1>d. /\ lv1 \in Contents /\ \A n \in Nodes \ {node} : lv1[n] = lv[n]
      /\ \A n \in t : n \in s.tree /\ n \in Nodes /\ lv1[n] = lv[n]
  BY <1>b, <1>c, WordsAreNat DEF Contents, SideOK
<1>e. /\ Levels(t, lv) /\ Cardinality(t) = Cardinality(s.tree) - 1
      /\ Cardinality(s.tree) \in Nat /\ Cardinality(t) \in Nat
  <2>1. /\ IsFiniteSet(t) /\ Cardinality(t) = Cardinality(s.tree) - 1
        /\ Cardinality(s.tree) \in Nat /\ Cardinality(t) \in Nat
    BY <1>a, <1>b, <1>c, FS_RemoveElement, FS_CardinalityType DEF Levels
  <2> QED
    BY <1>a, <1>b, <2>1 DEF Levels
<1>1. s1.nth = NthOf(asc, t, lv1, s.depth)
  <2>1. NthOf(asc, t, lv1, s.depth) = NthOf(asc, t, lv, s.depth)
    BY <1>a, <1>d, <1>e, NthOfPrices
  <2>2. SUFFICES s1.nth = NthOf(asc, t, lv, s.depth)
    BY <2>1
  <2>3. CASE \/ Cardinality(t) = s.depth - 1
             \/ Cardinality(s.tree) < s.depth \/ ~Better(asc, s.nth, price)
    BY <1>b, <2>3
  <2>4. CASE ~ \/ Cardinality(t) = s.depth - 1
               \/ Cardinality(s.tree) < s.depth \/ ~Better(asc, s.nth, price)
    <3>1. s1.nth = s.nth /\ s.depth <= Cardinality(t)
      BY <1>a, <1>b, <1>e, <2>4
    <3>2. s.nth = NthOf(asc, s.tree, lv, s.depth)
      BY DEF SideOK
    <3>3. Better(asc, NthOf(asc, s.tree, lv, s.depth), lv[node].price)
      BY <1>c, <2>4, <3>2
    <3>4. node \notin t /\ s.tree = t \cup {node}
      BY <1>b, <1>c
    <3>5. NthOf(asc, s.tree, lv, s.depth) = NthOf(asc, t, lv, s.depth)
      BY <1>a, <1>e, <3>1, <3>3, <3>4, NthStableBehind
    <3> QED
      BY <3>1, <3>2, <3>5
  <2> QED
    BY <2>3, <2>4
<1>2. SideOK(asc, lv1, s1)
  <2>1. t \in SUBSET Nodes /\ \A n \in t : lv1[n].quantity > 0
    BY <1>d DEF SideOK
  <2>2. /\ s1.index \in [DOMAIN s1.index -> t] /\ DOMAIN s1.index \subseteq Prices
        /\ \A p \in DOMAIN s1.index : lv1[s1.index[p]].price = p
    <3> SUFFICES ASSUME NEW p \in DOMAIN s1.index
                 PROVE  s1.index[p] \in t /\ p \in Prices /\ lv1[s1.index[p]].price = p
      BY <1>b
    <3>1. p \in DOMAIN s.index /\ p # price /\ s1.index[p] = s.index[p]
      BY <1>b
    <3>2. s.index[p] \in s.tree /\ lv[s.index[p]].price = p /\ p \in Prices
      BY <3>1 DEF SideOK
    <3>3. s.index[p] \in t
      BY <1>b, <1>c, <3>1, <3>2
    <3> QED
      BY <1>d, <3>1, <3>2, <3>3
  <2>3. \A n \in t : lv1[n].price \in DOMAIN s1.index /\ s1.index[lv1[n].price] = n
    <3> SUFFICES ASSUME NEW n \in t
                 PROVE  lv[n].price \in DOMAIN s1.index /\ s1.index[lv[n].price] = n
      BY <1>d
    <3>1. lv[n].price \in DOMAIN s.index /\ s.index[lv[n].price] = n /\ n # node
      BY <1>b, <1>d DEF SideOK
    <3> QED
      BY <1>b, <3>1 DEF node
  <2>4. s1.depth \in Depths
    BY <1>b DEF SideOK
  <2> QED
    BY <1>1, <1>b, <2>1, <2>2, <2>3, <2>4 DEF SideOK, t
<1>3. Stack(fr1, t \cup others) /\ t \cap others = {}
  <2> DEFINE one == <<node>>
  <2>1. one \in Seq(Nodes) /\ DOMAIN one = {1} /\ one[1] = node
    BY <1>c
  <2>2. (s.tree \cup others) \ (t \cup others) = {node} /\ t \cap others = {}
    BY <1>b, <1>c
  <2> HIDE DEF one
  <2>3. /\ \A i \in DOMAIN one : one[i] \in (s.tree \cup others) \ (t \cup others)
        /\ \A i, j \in DOMAIN one : one[i] = one[j] => i = j
        /\ \A n \in (s.tree \cup others) \ (t \cup others) : \E i \in DOMAIN one : one[i] = n
    BY <2>1, <2>2
  <2>4. t \cup others \subseteq s.tree \cup others
    BY <1>b
  <2>5. Stack(one \o fr, t \cup others)
    BY <2>1, <2>3, <2>4, StackPush
  <2> QED
    BY <1>b, <2>2, <2>5 DEF one
<1>4. \A n \in others : lv1[n] = lv[n]
  BY <1>c, <1>d
<1>5. \A p \in DOMAIN s.index \cap DOMAIN s1.index : s1.index[p] = s.index[p]
  BY <1>b
<1>6. Amounts(lv1, s1) = [Amounts(lv, s) EXCEPT ![price] = qty]
  <2> SUFFICES ASSUME NEW p \in Prices
               PROVE  Amounts(lv1, s1)[p] = IF p = price THEN qty ELSE Amounts(lv, s)[p]
    BY DEF Amounts
  <2>1. CASE p = price
    BY <1>b, <2>1 DEF Amounts
  <2>2. CASE p # price /\ p \in DOMAIN s.index
    <3>1. s1.index[p] = s.index[p] /\ p \in DOMAIN s1.index
      BY <1>b, <2>2
    <3>2. s1.index[p] \in t
      BY <1>2, <3>1 DEF SideOK, t
    <3> QED
      BY <1>d, <2>2, <3>1, <3>2 DEF Amounts
  <2>3. CASE p # price /\ p \notin DOMAIN s.index
    BY <1>b, <2>3 DEF Amounts
  <2> QED
    BY <2>1, <2>2, <2>3
<1> QED
  BY <1>d, <1>2, <1>3, <1>4, <1>5, <1>6 DEF Outcome, t

\* A new quantity: neither the tree nor any price changes.
LEMMA RequantifyOutcome ==
  ASSUME NEW asc, NEW fr, NEW lv \in Contents, NEW s, SideOK(asc, lv, s),
         NEW others \in SUBSET Nodes, s.tree \cap others = {}, Stack(fr, s.tree \cup others),
         NEW price \in Prices, NEW qty \in Quantities \cup {0}, NEW fr1, NEW lv1, NEW s1,
         Requantified(fr, lv, s, price, qty, fr1, lv1, s1)
  PROVE  Outcome(asc, lv, s, others, price, qty, fr1, lv1, s1)
<1> DEFINE node == s.index[price]
<1>a. Levels(s.tree, lv) /\ s.depth \in Nat \ {0}
  BY TreeIsLevels
<1>b. /\ price \in DOMAIN s.index /\ qty \in Words /\ qty \in Nat /\ qty > 0 /\ fr1 = fr
      /\ lv1 = [lv EXCEPT ![node].quantity = qty]
      /\ s1.tree = s.tree /\ s1.index = s.index /\ s1.nth = s.nth /\ s1.depth = s.depth
  BY QuantityIsWord DEF Requantified
<1>c. node \in s.tree /\ node \in Nodes /\ node \notin others /\ lv[node].price = price
  BY <1>b DEF SideOK
<1> HIDE DEF node
<1>d. /\ lv1 \in Contents /\ \A n \in Nodes \ {node} : lv1[n] = lv[n]
      /\ lv1[node] = [price |-> price, quantity |-> qty]
  BY <1>b, <1>c DEF Contents
<1>e. \A n \in s.tree : lv1[n].price = lv[n].price /\ lv1[n].quantity > 0
  <2> SUFFICES ASSUME NEW n \in s.tree
               PROVE  lv1[n].price = lv[n].price /\ lv1[n].quantity > 0
    OBVIOUS
  <2>1. n \in Nodes /\ lv[n].quantity > 0
    BY DEF SideOK
  <2>2. CASE n = node
    BY <1>b, <1>c, <1>d, <2>2
  <2>3. CASE n # node
    BY <1>d, <2>1, <2>3
  <2> QED
    BY <2>2, <2>3
<1>1. s1.nth = NthOf(asc, s.tree, lv1, s.depth)
  <2>1. NthOf(asc, s.tree, lv1, s.depth) = NthOf(asc, s.tree, lv, s.depth)
    BY <1>a, <1>e, NthOfPrices
  <2> QED
    BY <1>b, <2>1 DEF SideOK
<1>2. SideOK(asc, lv1, s1)
  <2>1. \A n \in s.tree : lv1[n].price \in DOMAIN s.index /\ s.index[lv1[n].price] = n
    BY <1>e DEF SideOK
  <2>2. \A p \in DOMAIN s.index : lv1[s.index[p]].price = p
    BY <1>e DEF SideOK
  <2> QED
    BY <1>1, <1>b, <1>e, <2>1, <2>2 DEF SideOK
<1>3. Stack(fr1, s1.tree \cup others) /\ s1.tree \cap others = {}
  BY <1>b
<1>4. \A n \in others : lv1[n] = lv[n]
  BY <1>c, <1>d
<1>6. Amounts(lv1, s1) = [Amounts(lv, s) EXCEPT ![price] = qty]
  <2> SUFFICES ASSUME NEW p \in Prices
               PROVE  Amounts(lv1, s1)[p] = IF p = price THEN qty ELSE Amounts(lv, s)[p]
    BY DEF Amounts
  <2>1. CASE p = price
    BY <1>b, <1>d, <2>1 DEF Amounts, node
  <2>2. CASE p # price /\ p \in DOMAIN s.index
    <3>1. s.index[p] # node /\ s.index[p] \in Nodes
      BY <1>c, <2>2 DEF SideOK
    <3> QED
      BY <1>b, <1>d, <2>2, <3>1 DEF Amounts
  <2>3. CASE p # price /\ p \notin DOMAIN s.index
    BY <1>b, <2>3 DEF Amounts
  <2> QED
    BY <2>1, <2>2, <2>3
<1> QED
  BY <1>b, <1>d, <1>e, <1>2, <1>3, <1>4, <1>6 DEF Outcome

LEMMA ApplyOutcome ==
  ASSUME NEW asc, NEW fr, NEW lv \in Contents, NEW s, SideOK(asc, lv, s),
         NEW others \in SUBSET Nodes, s.tree \cap others = {}, Stack(fr, s.tree \cup others),
         NEW price \in Prices, NEW qty \in Quantities \cup {0}, NEW fr1, NEW lv1, NEW s1,
         Applied(asc, fr, lv, s, price, qty, fr1, lv1, s1)
  PROVE  Outcome(asc, lv, s, others, price, qty, fr1, lv1, s1)
<1>1. CASE Ignored(fr, lv, s, price, qty, fr1, lv1, s1)
  <2>1. /\ price \notin DOMAIN s.index /\ qty = 0 /\ fr1 = fr /\ lv1 = lv
        /\ s1.tree = s.tree /\ s1.index = s.index /\ s1.nth = s.nth /\ s1.depth = s.depth
    BY <1>1 DEF Ignored
  <2>2. SideOK(asc, lv1, s1)
    BY <2>1 DEF SideOK
  <2>3. Amounts(lv1, s1) = [Amounts(lv, s) EXCEPT ![price] = qty]
    BY <2>1 DEF Amounts
  <2> QED
    BY <2>1, <2>2, <2>3 DEF Outcome
<1>2. CASE Inserted(asc, fr, lv, s, price, qty, fr1, lv1, s1)
  BY <1>2, InsertOutcome
<1>3. CASE Deleted(asc, fr, lv, s, price, qty, fr1, lv1, s1)
  BY <1>3, DeleteOutcome
<1>4. CASE Requantified(fr, lv, s, price, qty, fr1, lv1, s1)
  BY <1>4, RequantifyOutcome
<1> QED
  BY <1>1, <1>2, <1>3, <1>4 DEF Applied

\* Clearing: every node of the tree goes on the stack, the best one on top.
Cleared(asc, fr, lv, s, fr1, lv1, s1) ==
    /\ fr1 = [i \in 1 .. Cardinality(s.tree) |->
                 Position(asc, s.tree, lv, Cardinality(s.tree) - i)] \o fr
    /\ lv1 = [m \in Nodes |-> IF m \in s.tree THEN [price |-> 0, quantity |-> 0] ELSE lv[m]]
    /\ s1.tree = {}
    /\ s1.index = [p \in DOMAIN s.index \ {lv[m].price : m \in s.tree} |-> s.index[p]]
    /\ s1.nth = 0 /\ s1.depth = s.depth

\* The side is empty, the other one as it was, the pool has what that one has not.
Emptied(asc, lv, others, fr1, lv1, s1) ==
    /\ lv1 \in Contents
    /\ SideOK(asc, lv1, s1)
    /\ s1.tree = {}
    /\ Stack(fr1, others)
    /\ \A n \in others : lv1[n] = lv[n]
    /\ Amounts(lv1, s1) = [p \in Prices |-> 0]

LEMMA ClearOutcome ==
  ASSUME NEW asc, NEW fr, NEW lv \in Contents, NEW s, SideOK(asc, lv, s),
         NEW others \in SUBSET Nodes, s.tree \cap others = {}, Stack(fr, s.tree \cup others),
         NEW fr1, NEW lv1, NEW s1, Cleared(asc, fr, lv, s, fr1, lv1, s1)
  PROVE  Emptied(asc, lv, others, fr1, lv1, s1)
<1> DEFINE n == Cardinality(s.tree)
           q == [i \in 1 .. n |-> Position(asc, s.tree, lv, n - i)]
<1>a. Levels(s.tree, lv) /\ s.depth \in Nat \ {0}
  BY TreeIsLevels
<1>b. /\ fr1 = q \o fr /\ s1.tree = {} /\ s1.nth = 0 /\ s1.depth = s.depth
      /\ lv1 = [m \in Nodes |-> IF m \in s.tree THEN [price |-> 0, quantity |-> 0] ELSE lv[m]]
      /\ s1.index = [p \in DOMAIN s.index \ {lv[m].price : m \in s.tree} |-> s.index[p]]
  BY DEF Cleared
<1>c. n \in Nat /\ s.tree \in SUBSET Nodes
  BY <1>a, FS_CardinalityType DEF Levels, SideOK
<1>d. \A i \in 1 .. n : q[i] \in s.tree /\ RankOf(asc, s.tree, lv, q[i]) = n - i
  <2>1. \A i \in 1 .. n : n - i \in 0 .. n - 1
    BY <1>c
  <2> QED
    BY <1>a, <2>1, AtExists
<1>e. \A m \in s.tree : \E i \in 1 .. n : q[i] = m
  <2> SUFFICES ASSUME NEW m \in s.tree PROVE \E i \in 1 .. n : q[i] = m
    OBVIOUS
  <2> DEFINE r == RankOf(asc, s.tree, lv, m)
  <2>1. r \in 0 .. n - 1
    BY <1>a, RankBelowSize
  <2>2. Position(asc, s.tree, lv, r) = m
    BY <1>a, AtUnique
  <2> HIDE DEF r
  <2>3. n - r \in 1 .. n /\ n - (n - r) = r
    BY <1>c, <2>1
  <2>4. q[n - r] = m
    BY <2>2, <2>3
  <2> QED
    BY <2>3, <2>4
<1>f. DOMAIN s1.index = {}
  <2>1. \A p \in DOMAIN s.index : p \in {lv[m].price : m \in s.tree}
    BY DEF SideOK
  <2> QED
    BY <1>b, <2>1
<1>g. q \in Seq(Nodes) /\ DOMAIN q = 1 .. n
  <2>1. \A i \in 1 .. n : Position(asc, s.tree, lv, n - i) \in Nodes
    BY <1>c, <1>d
  <2> HIDE DEF n
  <2> QED
    BY <1>c, <2>1, IsASeq
<1> HIDE DEF q, n
<1>1. lv1 \in Contents /\ \A m \in others : lv1[m] = lv[m]
  BY <1>b, WordsAreNat DEF Contents
<1>2. SideOK(asc, lv1, s1)
  <2>1. s1.index \in [DOMAIN s1.index -> {}]
    BY <1>b, <1>f
  <2>2. NthOf(asc, {}, lv1, s.depth) = 0
    <3>1. Cardinality({}) = 0
      BY FS_EmptySet
    <3> QED
      BY <1>a, <3>1 DEF NthOf
  <2> QED
    BY <1>b, <1>f, <2>1, <2>2 DEF SideOK
<1>3. Stack(fr1, others)
  <2>1. \A i \in DOMAIN q : q[i] \in (s.tree \cup others) \ others
    BY <1>d, <1>g
  <2>2. \A i, j \in DOMAIN q : q[i] = q[j] => i = j
    BY <1>c, <1>d, <1>g
  <2>3. \A m \in (s.tree \cup others) \ others : \E i \in DOMAIN q : q[i] = m
    BY <1>e, <1>g
  <2>4. Stack(q \o fr, others)
    BY <1>g, <2>1, <2>2, <2>3, StackPush
  <2> QED
    BY <1>b, <2>4
<1>4. Amounts(lv1, s1) = [p \in Prices |-> 0]
  BY <1>f DEF Amounts
<1> QED
  BY <1>1, <1>2, <1>3, <1>4, <1>b DEF Emptied

-----------------------------------------------------------------------------
(* The two instances of BookSide, in these terms.                          *)

BidSide == [tree |-> bidTree, index |-> bidIndex, nth |-> bidNth, depth |-> bidDepth]
AskSide == [tree |-> askTree, index |-> askIndex, nth |-> askNth, depth |-> askDepth]

Results == [delta_qty : Int64s, affects_top_n : BOOLEAN,
            is_new_level : BOOLEAN, is_deletion : BOOLEAN]

\* What the casts of apply_update() make of unsigned quantities is signed.
LEMMA DeltaTypes ==
  ASSUME NEW q \in Words, NEW r \in Words
  PROVE  /\ 0 \in Int64s
         /\ Bids!Int64(q) \in Int64s /\ Asks!Int64(q) \in Int64s
         /\ Bids!Int64(-Bids!Int64(r)) \in Int64s /\ Asks!Int64(-Asks!Int64(r)) \in Int64s
         /\ Bids!Int64(Bids!Int64(q) - Bids!Int64(r)) \in Int64s
         /\ Asks!Int64(Asks!Int64(q) - Asks!Int64(r)) \in Int64s
<1>0. HalfWord \in Nat /\ HalfWord > 0
  BY SidesAssumption
<1>1. \A n \in -2 * HalfWord .. 2 * HalfWord : Bids!Int64(n) \in Int64s /\ Asks!Int64(n) \in Int64s
  BY <1>0 DEF Bids!Int64, Bids!Int64s, Asks!Int64, Asks!Int64s, Int64s
<1>2. \A n \in Words : n \in -2 * HalfWord .. 2 * HalfWord
  BY <1>0 DEF Words
<1>3. \A a, b \in Int64s : -b \in -2 * HalfWord .. 2 * HalfWord /\ a - b \in -2 * HalfWord .. 2 * HalfWord
  BY <1>0 DEF Int64s
<1>4. 0 \in Int64s
  BY <1>0 DEF Int64s
<1> QED
  BY <1>1, <1>2, <1>3, <1>4

LEMMA BidsOrder ==
  /\ \A S : Bids!Cardinality(S) = Cardinality(S)
  /\ \A p, q : Bids!Before(p, q) = Better(FALSE, p, q)
  /\ \A t, lv, p : Bids!Ahead(t, lv, p) = AheadOf(FALSE, t, lv, p)
  /\ \A t, lv, k : Bids!At(t, lv, k) = Position(FALSE, t, lv, k)
  /\ \A t, lv, d : Bids!NthPrice(t, lv, d) = NthOf(FALSE, t, lv, d)
<1>1. ASSUME NEW S PROVE Bids!Cardinality(S) = Cardinality(S)
  BY DEF Bids!Cardinality, Cardinality
<1>2. ASSUME NEW p, NEW q PROVE Bids!Before(p, q) = Better(FALSE, p, q)
  BY DEF Bids!Before, Better
<1>3. ASSUME NEW t, NEW lv, NEW p PROVE Bids!Ahead(t, lv, p) = AheadOf(FALSE, t, lv, p)
  BY DEF Bids!Ahead, AheadOf, Bids!Before, Better
<1>4. ASSUME NEW t, NEW lv, NEW k PROVE Bids!At(t, lv, k) = Position(FALSE, t, lv, k)
  BY DEF Bids!At, Bids!Ahead, Bids!Before, Bids!Cardinality,
         Position, AheadOf, Better, Cardinality
<1>5. ASSUME NEW t, NEW lv, NEW d PROVE Bids!NthPrice(t, lv, d) = NthOf(FALSE, t, lv, d)
  BY <1>1, <1>4 DEF Bids!NthPrice, NthOf, Bids!Zero
<1> QED
  BY <1>1, <1>2, <1>3, <1>4, <1>5

LEMMA AsksOrder ==
  /\ \A S : Asks!Cardinality(S) = Cardinality(S)
  /\ \A p, q : Asks!Before(p, q) = Better(TRUE, p, q)
  /\ \A t, lv, p : Asks!Ahead(t, lv, p) = AheadOf(TRUE, t, lv, p)
  /\ \A t, lv, k : Asks!At(t, lv, k) = Position(TRUE, t, lv, k)
  /\ \A t, lv, d : Asks!NthPrice(t, lv, d) = NthOf(TRUE, t, lv, d)
<1>1. ASSUME NEW S PROVE Asks!Cardinality(S) = Cardinality(S)
  BY DEF Asks!Cardinality, Cardinality
<1>2. ASSUME NEW p, NEW q PROVE Asks!Before(p, q) = Better(TRUE, p, q)
  BY DEF Asks!Before, Better
<1>3. ASSUME NEW t, NEW lv, NEW p PROVE Asks!Ahead(t, lv, p) = AheadOf(TRUE, t, lv, p)
  BY DEF Asks!Ahead, AheadOf, Asks!Before, Better
<1>4. ASSUME NEW t, NEW lv, NEW k PROVE Asks!At(t, lv, k) = Position(TRUE, t, lv, k)
  BY DEF Asks!At, Asks!Ahead, Asks!Before, Asks!Cardinality,
         Position, AheadOf, Better, Cardinality
<1>5. ASSUME NEW t, NEW lv, NEW d PROVE Asks!NthPrice(t, lv, d) = NthOf(TRUE, t, lv, d)
  BY <1>1, <1>4 DEF Asks!NthPrice, NthOf, Asks!Zero
<1> QED
  BY <1>1, <1>2, <1>3, <1>4, <1>5

LEMMA BidsApply ==
  ASSUME level \in Contents, SideOK(FALSE, level, BidSide),
         NEW price \in Prices, NEW qty \in Quantities \cup {0}, Bids!ApplyUpdate(price, qty)
  PROVE  /\ Applied(FALSE, free, level, BidSide, price, qty, free', level', BidSide')
         /\ aborted' = aborted
         /\ sideResult' \in Results
         /\ bidDepth' = bidDepth
<1>1. qty \in Words /\ qty \in Nat /\ (qty > 0 \/ qty = 0)
  BY QuantityIsWord
<1>0. 0 \in Int64s
  BY <1>1, DeltaTypes
<1>2. \A n \in bidTree : level[n].price \in DOMAIN bidIndex
  BY DEF SideOK, BidSide
<1>3. CASE Bids!IgnoreDelete(price, qty)
  <2>1. Ignored(free, level, BidSide, price, qty, free', level', BidSide')
    BY <1>3 DEF Bids!IgnoreDelete, Ignored, BidSide
  <2>2. sideResult' \in Results
    BY <1>0, <1>3 DEF Bids!IgnoreDelete, Bids!NoChange, Bids!UpdateResult, Results
  <2> QED
    BY <1>3, <2>1, <2>2 DEF Bids!IgnoreDelete, Applied
<1>4. CASE Bids!InsertLevel(price, qty)
  <2>1. ~ \E m \in bidTree : level[m].price = price
    BY <1>2, <1>4 DEF Bids!InsertLevel
  <2>2. Inserted(FALSE, free, level, BidSide, price, qty, free', level', BidSide')
    BY <1>4, <2>1, BidsOrder DEF Bids!InsertLevel, Bids!AffectsTopN, Inserted, BidSide
  <2>3. aborted' = aborted /\ bidDepth' = bidDepth
    BY <1>4, <2>1 DEF Bids!InsertLevel
  <2>4. sideResult' \in Results
    <3> DEFINE affects == Bids!AffectsTopN(bidTree \cup {Head(free)}, price)
    <3>1. affects \in BOOLEAN
      BY DEF Bids!AffectsTopN
    <3>2. sideResult' = Bids!UpdateResult(Bids!Int64(qty), affects, TRUE, FALSE)
      BY <1>4, <2>1 DEF Bids!InsertLevel
    <3> HIDE DEF affects
    <3> QED
      BY <1>1, <3>1, <3>2, DeltaTypes DEF Bids!UpdateResult, Results
  <2> QED
    BY <2>2, <2>3, <2>4 DEF Applied
<1>5. CASE Bids!DeleteLevel(price, qty)
  <2>1. Deleted(FALSE, free, level, BidSide, price, qty, free', level', BidSide')
    BY <1>5, BidsOrder DEF Bids!DeleteLevel, Bids!AffectsTopN, Bids!Erased, Bids!Unused, Bids!Zero,
       Deleted, BidSide
  <2>2. sideResult' \in Results
    <3>1. level[bidIndex[price]].quantity \in Words
      BY <1>5 DEF Bids!DeleteLevel, SideOK, BidSide, Contents
    <3> QED
      BY <1>5, <3>1, DeltaTypes DEF Bids!DeleteLevel, Bids!UpdateResult, Results, Bids!AffectsTopN
  <2> QED
    BY <1>5, <2>1, <2>2 DEF Bids!DeleteLevel, Applied
<1>6. CASE Bids!SetQuantity(price, qty)
  <2>1. Requantified(free, level, BidSide, price, qty, free', level', BidSide')
    BY <1>6 DEF Bids!SetQuantity, Bids!WithQuantity, Requantified, BidSide
  <2>2. sideResult' \in Results
    <3>1. level[bidIndex[price]].quantity \in Words
      BY <1>6 DEF Bids!SetQuantity, SideOK, BidSide, Contents
    <3> QED
      BY <1>1, <1>6, <3>1, DeltaTypes DEF Bids!SetQuantity, Bids!UpdateResult, Results, Bids!AffectsTopN
  <2> QED
    BY <1>6, <2>1, <2>2 DEF Bids!SetQuantity, Applied
<1> QED
  BY <1>3, <1>4, <1>5, <1>6 DEF Bids!ApplyUpdate

LEMMA BidsClear ==
  ASSUME SideOK(FALSE, level, BidSide), Bids!Clear
  PROVE  /\ Cleared(FALSE, free, level, BidSide, free', level', BidSide')
         /\ aborted' = aborted /\ sideResult' = sideResult /\ bidDepth' = bidDepth
<1>1. ~ \E n \in bidTree : level[n].price \notin DOMAIN bidIndex
  BY DEF SideOK, BidSide
<1> QED
  BY <1>1, BidsOrder DEF Bids!Clear, Bids!Erased, Bids!Unused, Bids!Zero, Cleared, BidSide

LEMMA AsksApply ==
  ASSUME level \in Contents, SideOK(TRUE, level, AskSide),
         NEW price \in Prices, NEW qty \in Quantities \cup {0}, Asks!ApplyUpdate(price, qty)
  PROVE  /\ Applied(TRUE, free, level, AskSide, price, qty, free', level', AskSide')
         /\ aborted' = aborted
         /\ sideResult' \in Results
         /\ askDepth' = askDepth
<1>1. qty \in Words /\ qty \in Nat /\ (qty > 0 \/ qty = 0)
  BY QuantityIsWord
<1>0. 0 \in Int64s
  BY <1>1, DeltaTypes
<1>2. \A n \in askTree : level[n].price \in DOMAIN askIndex
  BY DEF SideOK, AskSide
<1>3. CASE Asks!IgnoreDelete(price, qty)
  <2>1. Ignored(free, level, AskSide, price, qty, free', level', AskSide')
    BY <1>3 DEF Asks!IgnoreDelete, Ignored, AskSide
  <2>2. sideResult' \in Results
    BY <1>0, <1>3 DEF Asks!IgnoreDelete, Asks!NoChange, Asks!UpdateResult, Results
  <2> QED
    BY <1>3, <2>1, <2>2 DEF Asks!IgnoreDelete, Applied
<1>4. CASE Asks!InsertLevel(price, qty)
  <2>1. ~ \E m \in askTree : level[m].price = price
    BY <1>2, <1>4 DEF Asks!InsertLevel
  <2>2. Inserted(TRUE, free, level, AskSide, price, qty, free', level', AskSide')
    BY <1>4, <2>1, AsksOrder DEF Asks!InsertLevel, Asks!AffectsTopN, Inserted, AskSide
  <2>3. aborted' = aborted /\ askDepth' = askDepth
    BY <1>4, <2>1 DEF Asks!InsertLevel
  <2>4. sideResult' \in Results
    <3> DEFINE affects == Asks!AffectsTopN(askTree \cup {Head(free)}, price)
    <3>1. affects \in BOOLEAN
      BY DEF Asks!AffectsTopN
    <3>2. sideResult' = Asks!UpdateResult(Asks!Int64(qty), affects, TRUE, FALSE)
      BY <1>4, <2>1 DEF Asks!InsertLevel
    <3> HIDE DEF affects
    <3> QED
      BY <1>1, <3>1, <3>2, DeltaTypes DEF Asks!UpdateResult, Results
  <2> QED
    BY <2>2, <2>3, <2>4 DEF Applied
<1>5. CASE Asks!DeleteLevel(price, qty)
  <2>1. Deleted(TRUE, free, level, AskSide, price, qty, free', level', AskSide')
    BY <1>5, AsksOrder DEF Asks!DeleteLevel, Asks!AffectsTopN, Asks!Erased, Asks!Unused, Asks!Zero,
       Deleted, AskSide
  <2>2. sideResult' \in Results
    <3>1. level[askIndex[price]].quantity \in Words
      BY <1>5 DEF Asks!DeleteLevel, SideOK, AskSide, Contents
    <3> QED
      BY <1>5, <3>1, DeltaTypes DEF Asks!DeleteLevel, Asks!UpdateResult, Results, Asks!AffectsTopN
  <2> QED
    BY <1>5, <2>1, <2>2 DEF Asks!DeleteLevel, Applied
<1>6. CASE Asks!SetQuantity(price, qty)
  <2>1. Requantified(free, level, AskSide, price, qty, free', level', AskSide')
    BY <1>6 DEF Asks!SetQuantity, Asks!WithQuantity, Requantified, AskSide
  <2>2. sideResult' \in Results
    <3>1. level[askIndex[price]].quantity \in Words
      BY <1>6 DEF Asks!SetQuantity, SideOK, AskSide, Contents
    <3> QED
      BY <1>1, <1>6, <3>1, DeltaTypes DEF Asks!SetQuantity, Asks!UpdateResult, Results, Asks!AffectsTopN
  <2> QED
    BY <1>6, <2>1, <2>2 DEF Asks!SetQuantity, Applied
<1> QED
  BY <1>3, <1>4, <1>5, <1>6 DEF Asks!ApplyUpdate

LEMMA AsksClear ==
  ASSUME SideOK(TRUE, level, AskSide), Asks!Clear
  PROVE  /\ Cleared(TRUE, free, level, AskSide, free', level', AskSide')
         /\ aborted' = aborted /\ sideResult' = sideResult /\ askDepth' = askDepth
<1>1. ~ \E n \in askTree : level[n].price \notin DOMAIN askIndex
  BY DEF SideOK, AskSide
<1> QED
  BY <1>1, AsksOrder DEF Asks!Clear, Asks!Erased, Asks!Unused, Asks!Zero, Cleared, AskSide

-----------------------------------------------------------------------------
(* The top of the book.                                                    *)

BestOf(asc, lv, s) == IF s.tree # {} THEN Position(asc, s.tree, lv, 0) ELSE NoNode
PriceOf(lv, node) == IF node = NoNode THEN 0 ELSE lv[node].price
QuantityOf(lv, node) == IF node = NoNode THEN 0 ELSE lv[node].quantity

LEMMA BestFacts ==
  ASSUME NEW asc, NEW lv, NEW s, SideOK(asc, lv, s), NEW b, b = BestOf(asc, lv, s)
  PROVE  \/ s.tree = {} /\ b = NoNode
         \/ /\ b \in s.tree /\ b # NoNode
            /\ lv[b].price \in DOMAIN s.index /\ s.index[lv[b].price] = b
            /\ lv[b].quantity > 0
            /\ \A n \in s.tree : ~Better(asc, lv[n].price, lv[b].price)
<1>1. CASE s.tree = {}
  BY <1>1 DEF BestOf
<1>2. CASE s.tree # {}
  <2>1. Levels(s.tree, lv)
    BY TreeIsLevels
  <2>2. Cardinality(s.tree) \in Nat /\ Cardinality(s.tree) # 0 /\ IsFiniteSet(s.tree)
    BY <1>2, <2>1, FS_CardinalityType, FS_EmptySet DEF Levels
  <2>3. 0 \in 0 .. Cardinality(s.tree) - 1
    BY <2>2
  <2>4. b \in s.tree /\ RankOf(asc, s.tree, lv, b) = 0
    BY <1>2, <2>1, <2>3, AtExists DEF BestOf
  <2>5. AheadOf(asc, s.tree, lv, lv[b].price) = {}
    BY <2>1, <2>4, AheadFinite, FS_EmptySet DEF RankOf, Levels
  <2>6. b # NoNode
    BY <2>4, NoNodeAssumption DEF SideOK
  <2> QED
    BY <2>4, <2>5, <2>6 DEF AheadOf, SideOK
<1> QED
  BY <1>1, <1>2

LEMMA BestNodes ==
  /\ BestBidNode = BestOf(FALSE, level, BidSide)
  /\ BestAskNode = BestOf(TRUE, level, AskSide)
  /\ BestBidNode' = BestOf(FALSE, level', BidSide')
  /\ BestAskNode' = BestOf(TRUE, level', AskSide')
  BY BidsOrder, AsksOrder DEF BestBidNode, BestAskNode, BestOf, Bids!Best, Asks!Best,
     Bids!HasBest, Asks!HasBest, BidSide, AskSide

LEMMA TopParts ==
  /\ Top = [bid_price |-> PriceOf(level, BestBidNode), bid_qty |-> QuantityOf(level, BestBidNode),
            ask_price |-> PriceOf(level, BestAskNode), ask_qty |-> QuantityOf(level, BestAskNode)]
  /\ Top' = [bid_price |-> PriceOf(level', BestBidNode'),
             bid_qty |-> QuantityOf(level', BestBidNode'),
             ask_price |-> PriceOf(level', BestAskNode'),
             ask_qty |-> QuantityOf(level', BestAskNode')]
  BY DEF Top, PriceAt, QuantityAt, PriceOf, QuantityOf

\* What is shown of a side is a price and a quantity, or two zeros.
LEMMA BestType ==
  ASSUME NEW asc, NEW lv \in Contents, NEW s, SideOK(asc, lv, s), NEW b, b = BestOf(asc, lv, s)
  PROVE  PriceOf(lv, b) \in Prices \cup {0} /\ QuantityOf(lv, b) \in Nat
<1>1. b = NoNode \/ b \in Nodes
  BY BestFacts DEF SideOK
<1> QED
  BY <1>1, WordsAreNat DEF PriceOf, QuantityOf, Contents

\* The best node of a side other than the one updated stays, with what it shows.
LEMMA BestUntouched ==
  ASSUME NEW asc, NEW lv, NEW s, SideOK(asc, lv, s), NEW lw, \A n \in s.tree : lw[n] = lv[n]
  PROVE  /\ BestOf(asc, lw, s) = BestOf(asc, lv, s)
         /\ PriceOf(lw, BestOf(asc, lw, s)) = PriceOf(lv, BestOf(asc, lv, s))
         /\ QuantityOf(lw, BestOf(asc, lw, s)) = QuantityOf(lv, BestOf(asc, lv, s))
<1>1. CASE s.tree = {}
  BY <1>1 DEF BestOf, PriceOf, QuantityOf
<1>2. CASE s.tree # {}
  <2>1. Cardinality(s.tree) \in Nat /\ Cardinality(s.tree) # 0
    BY <1>2, TreeIsLevels, FS_CardinalityType, FS_EmptySet DEF Levels
  <2>2. 0 \in 0 .. Cardinality(s.tree) - 1
    BY <2>1
  <2>3. BestOf(asc, lw, s) = BestOf(asc, lv, s)
    BY <1>2, <2>2, SideUntouched DEF BestOf
  <2>4. BestOf(asc, lv, s) \in s.tree
    BY <1>2, BestFacts
  <2> QED
    BY <2>3, <2>4 DEF PriceOf, QuantityOf
<1> QED
  BY <1>1, <1>2

\* After an update of a side, comparing the address and the quantity of its best node
\* with those before is as good as comparing what the side shows.
Shows(lv, node) == <<PriceOf(lv, node), QuantityOf(lv, node)>>
Moved(lv, b, lv1, c) == c # b \/ (c # NoNode /\ QuantityOf(lv1, c) # QuantityOf(lv, b))

LEMMA BestMoved ==
  ASSUME NEW asc, NEW lv, NEW s, SideOK(asc, lv, s), NEW others, NEW price, NEW qty,
         NEW fr1, NEW lv1, NEW s1, Outcome(asc, lv, s, others, price, qty, fr1, lv1, s1)
  PROVE  Moved(lv, BestOf(asc, lv, s), lv1, BestOf(asc, lv1, s1))
         <=> Shows(lv1, BestOf(asc, lv1, s1)) # Shows(lv, BestOf(asc, lv, s))
<1> DEFINE b == BestOf(asc, lv, s)
           c == BestOf(asc, lv1, s1)
<1>0. SUFFICES Moved(lv, b, lv1, c) <=> Shows(lv1, c) # Shows(lv, b)
  OBVIOUS
<1>1. \/ s.tree = {} /\ b = NoNode
      \/ /\ b \in s.tree /\ b # NoNode /\ lv[b].quantity > 0
         /\ lv[b].price \in DOMAIN s.index /\ s.index[lv[b].price] = b
  BY BestFacts
<1>2. SideOK(asc, lv1, s1)
  BY DEF Outcome
<1>3. \/ s1.tree = {} /\ c = NoNode
      \/ /\ c \in s1.tree /\ c # NoNode /\ lv1[c].quantity > 0
         /\ lv1[c].price \in DOMAIN s1.index /\ s1.index[lv1[c].price] = c
  BY <1>2, BestFacts
<1> HIDE DEF b, c
<1>4. CASE c = b
  <2>1. PriceOf(lv1, c) = PriceOf(lv, b)
    BY <1>1, <1>3, <1>4 DEF Outcome, PriceOf
  <2>2. c = NoNode => QuantityOf(lv1, c) = QuantityOf(lv, b)
    BY <1>4 DEF QuantityOf
  <2> QED
    BY <1>4, <2>1, <2>2 DEF Moved, Shows
<1>5. CASE c # b
  <2>1. CASE b = NoNode \/ c = NoNode
    BY <1>1, <1>3, <1>5, <2>1 DEF QuantityOf, Moved, Shows
  <2>2. CASE b # NoNode /\ c # NoNode
    <3>1. ASSUME lv1[c].price = lv[b].price PROVE FALSE
      BY <1>1, <1>3, <1>5, <2>2, <3>1 DEF Outcome
    <3> QED
      BY <1>5, <2>2, <3>1 DEF PriceOf, Moved, Shows
  <2> QED
    BY <2>1, <2>2
<1> QED
  BY <1>4, <1>5

-----------------------------------------------------------------------------
(* The inductive invariant.                                                *)

BookOK ==
    /\ level \in Contents
    /\ SideOK(FALSE, level, BidSide)
    /\ SideOK(TRUE, level, AskSide)
    /\ bidTree \cap askTree = {}
    /\ Stack(free, bidTree \cup askTree)
    /\ aborted = FALSE
    /\ sideResult \in Results

SnapshotLevel == [price : Prices, quantity : Quantities \cup {0}]
Tops == [bid_price : Prices \cup {0}, bid_qty : Nat, ask_price : Prices \cup {0}, ask_qty : Nat]

\* What snapshot() has still to do, and what the copy of the top is good for.
PhaseOK ==
    /\ phase \in {"idle", "clear", "snapshot", "applying"}
    /\ toBid \in Seq(SnapshotLevel) /\ toAsk \in Seq(SnapshotLevel)
    /\ phase \in {"idle", "clear"} => toBid = <<>> /\ toAsk = <<>>
    /\ phase \in {"clear", "snapshot"} => bidTree = {}
    /\ phase = "idle" => cached_tob = Top
    /\ cached_tob \in Tops
    /\ changed \in BOOLEAN

BookInvariant == BookOK /\ PhaseOK

LEMMA TopType ==
  /\ BookOK => Top \in Tops
  /\ BookOK' => Top' \in Tops
<1>1. ASSUME BookOK PROVE Top \in Tops
  <2>1. PriceOf(level, BestBidNode) \in Prices \cup {0} /\ QuantityOf(level, BestBidNode) \in Nat
    BY <1>1, BestType, BestNodes DEF BookOK
  <2>2. PriceOf(level, BestAskNode) \in Prices \cup {0} /\ QuantityOf(level, BestAskNode) \in Nat
    BY <1>1, BestType, BestNodes DEF BookOK
  <2> QED
    BY <2>1, <2>2, TopParts DEF Tops
<1>2. ASSUME BookOK' PROVE Top' \in Tops
  <2>1. PriceOf(level', BestBidNode') \in Prices \cup {0} /\ QuantityOf(level', BestBidNode') \in Nat
    BY <1>2, BestType, BestNodes DEF BookOK
  <2>2. PriceOf(level', BestAskNode') \in Prices \cup {0} /\ QuantityOf(level', BestAskNode') \in Nat
    BY <1>2, BestType, BestNodes DEF BookOK
  <2> QED
    BY <2>1, <2>2, TopParts DEF Tops
<1> QED
  BY <1>1, <1>2

-----------------------------------------------------------------------------
(* Steps of one side, the other one looking on.                            *)

LEMMA BidsUpdate ==
  ASSUME BookOK, NEW price \in Prices, NEW qty \in Quantities \cup {0},
         Bids!ApplyUpdate(price, qty), UNCHANGED askVars
  PROVE  /\ BookOK'
         /\ Outcome(FALSE, level, BidSide, askTree, price, qty, free', level', BidSide')
         /\ AskSide' = AskSide /\ \A n \in askTree : level'[n] = level[n]
<1>1. /\ Applied(FALSE, free, level, BidSide, price, qty, free', level', BidSide')
      /\ aborted' = aborted /\ sideResult' \in Results
  BY BidsApply DEF BookOK
<1>2. askTree \in SUBSET Nodes /\ BidSide.tree = bidTree /\ AskSide.tree = askTree
  BY DEF BookOK, SideOK, AskSide, BidSide
<1>3. Outcome(FALSE, level, BidSide, askTree, price, qty, free', level', BidSide')
  <2>1. /\ level \in Contents /\ SideOK(FALSE, level, BidSide)
        /\ BidSide.tree \cap askTree = {} /\ Stack(free, BidSide.tree \cup askTree)
    BY <1>2 DEF BookOK
  <2> QED
    BY <1>1, <1>2, <2>1, ApplyOutcome
<1>4. AskSide' = AskSide /\ askTree' = askTree
  BY DEF askVars, AskSide
<1>5. /\ level' \in Contents /\ SideOK(FALSE, level', BidSide') /\ BidSide'.tree = bidTree'
      /\ bidTree' \cap askTree' = {} /\ Stack(free', bidTree' \cup askTree')
      /\ \A n \in askTree : level'[n] = level[n]
  <2>1. BidSide'.tree = bidTree'
    BY DEF BidSide
  <2> QED
    BY <1>3, <1>4, <2>1 DEF Outcome
<1>6. SideOK(TRUE, level', AskSide')
  <2>1. SideOK(TRUE, level, AskSide)
    BY DEF BookOK
  <2>2. SideOK(TRUE, level', AskSide)
    BY <1>2, <1>5, <2>1, SideUntouched
  <2> QED
    BY <1>4, <2>2
<1>7. BookOK'
  <2>1. aborted' = FALSE
    BY <1>1 DEF BookOK
  <2> QED
    BY <1>1, <1>5, <1>6, <2>1 DEF BookOK
<1> QED
  BY <1>3, <1>4, <1>5, <1>7

LEMMA BidsCleared ==
  ASSUME BookOK, Bids!Clear, UNCHANGED askVars
  PROVE  /\ BookOK'
         /\ bidTree' = {} /\ Amounts(level', BidSide') = [p \in Prices |-> 0]
         /\ AskSide' = AskSide /\ \A n \in askTree : level'[n] = level[n]
<1>1. /\ Cleared(FALSE, free, level, BidSide, free', level', BidSide')
      /\ aborted' = aborted /\ sideResult' = sideResult
  BY BidsClear DEF BookOK
<1>2. /\ askTree \in SUBSET Nodes /\ BidSide.tree = bidTree /\ AskSide.tree = askTree
      /\ BidSide'.tree = bidTree'
  BY DEF BookOK, SideOK, AskSide, BidSide
<1>3. /\ level' \in Contents /\ SideOK(FALSE, level', BidSide') /\ BidSide'.tree = {}
      /\ Stack(free', askTree) /\ \A n \in askTree : level'[n] = level[n]
      /\ Amounts(level', BidSide') = [p \in Prices |-> 0]
  <2>1. /\ level \in Contents /\ SideOK(FALSE, level, BidSide)
        /\ BidSide.tree \cap askTree = {} /\ Stack(free, BidSide.tree \cup askTree)
    BY <1>2 DEF BookOK
  <2>2. Emptied(FALSE, level, askTree, free', level', BidSide')
    BY <1>1, <1>2, <2>1, ClearOutcome
  <2> QED
    BY <2>2 DEF Emptied
<1>4. AskSide' = AskSide /\ askTree' = askTree
  BY DEF askVars, AskSide
<1>5. SideOK(TRUE, level', AskSide')
  <2>1. SideOK(TRUE, level, AskSide)
    BY DEF BookOK
  <2>2. SideOK(TRUE, level', AskSide)
    BY <1>2, <1>3, <2>1, SideUntouched
  <2> QED
    BY <1>4, <2>2
<1>6. BookOK'
  <2>1. aborted' = FALSE /\ sideResult' \in Results
    BY <1>1 DEF BookOK
  <2>2. bidTree' \cap askTree' = {} /\ bidTree' \cup askTree' = askTree
    BY <1>2, <1>3, <1>4
  <2> QED
    BY <1>3, <1>5, <2>1, <2>2 DEF BookOK
<1> QED
  BY <1>2, <1>3, <1>4, <1>6

\* TopMoved compares addresses and quantities; it finds what a user would see.
LEMMA BidsMoveTop ==
  ASSUME BookOK, NEW price \in Prices, NEW qty \in Quantities \cup {0},
         Bids!ApplyUpdate(price, qty), UNCHANGED askVars
  PROVE  TopMoved <=> Top' # Top
<1>1. /\ Outcome(FALSE, level, BidSide, askTree, price, qty, free', level', BidSide')
      /\ AskSide' = AskSide /\ \A n \in askTree : level'[n] = level[n]
  BY BidsUpdate
<1>2. SideOK(FALSE, level, BidSide) /\ SideOK(TRUE, level, AskSide) /\ AskSide.tree = askTree
  BY DEF BookOK, AskSide
<1> DEFINE b == BestBidNode
           c == BestBidNode'
           a == BestAskNode
           d == BestAskNode'
<1>3. /\ b = BestOf(FALSE, level, BidSide) /\ c = BestOf(FALSE, level', BidSide')
      /\ a = BestOf(TRUE, level, AskSide) /\ d = BestOf(TRUE, level', AskSide)
  BY <1>1, BestNodes
<1>4. TopMoved <=> \/ c # b \/ (c # NoNode /\ QuantityOf(level', c) # QuantityOf(level, b))
                   \/ d # a \/ (d # NoNode /\ QuantityOf(level', d) # QuantityOf(level, a))
  BY DEF TopMoved, QuantityAt, QuantityOf
<1>5. /\ Top = [bid_price |-> PriceOf(level, b), bid_qty |-> QuantityOf(level, b),
                ask_price |-> PriceOf(level, a), ask_qty |-> QuantityOf(level, a)]
      /\ Top' = [bid_price |-> PriceOf(level', c), bid_qty |-> QuantityOf(level', c),
                 ask_price |-> PriceOf(level', d), ask_qty |-> QuantityOf(level', d)]
  BY TopParts
<1> HIDE DEF a, b, c, d
<1>6. d = a /\ PriceOf(level', d) = PriceOf(level, a) /\ QuantityOf(level', d) = QuantityOf(level, a)
  BY <1>1, <1>2, <1>3, BestUntouched
<1>7. Moved(level, b, level', c) <=> Shows(level', c) # Shows(level, b)
  <2>1. Moved(level, BestOf(FALSE, level, BidSide), level', BestOf(FALSE, level', BidSide'))
        <=> Shows(level', BestOf(FALSE, level', BidSide')) # Shows(level, BestOf(FALSE, level, BidSide))
    BY <1>1, <1>2, BestMoved
  <2> QED
    BY <1>3, <2>1
<1>8. Top' # Top <=> Shows(level', c) # Shows(level, b)
  BY <1>5, <1>6 DEF Shows
<1> QED
  BY <1>4, <1>6, <1>7, <1>8 DEF Moved

LEMMA AsksUpdate ==
  ASSUME BookOK, NEW price \in Prices, NEW qty \in Quantities \cup {0},
         Asks!ApplyUpdate(price, qty), UNCHANGED bidVars
  PROVE  /\ BookOK'
         /\ Outcome(TRUE, level, AskSide, bidTree, price, qty, free', level', AskSide')
         /\ BidSide' = BidSide /\ \A n \in bidTree : level'[n] = level[n]
<1>1. /\ Applied(TRUE, free, level, AskSide, price, qty, free', level', AskSide')
      /\ aborted' = aborted /\ sideResult' \in Results
  BY AsksApply DEF BookOK
<1>2. bidTree \in SUBSET Nodes /\ AskSide.tree = askTree /\ BidSide.tree = bidTree
  BY DEF BookOK, SideOK, BidSide, AskSide
<1>3. Outcome(TRUE, level, AskSide, bidTree, price, qty, free', level', AskSide')
  <2>1. /\ level \in Contents /\ SideOK(TRUE, level, AskSide)
        /\ AskSide.tree \cap bidTree = {} /\ Stack(free, AskSide.tree \cup bidTree)
    BY <1>2 DEF BookOK
  <2> QED
    BY <1>1, <1>2, <2>1, ApplyOutcome
<1>4. BidSide' = BidSide /\ bidTree' = bidTree
  BY DEF bidVars, BidSide
<1>5. /\ level' \in Contents /\ SideOK(TRUE, level', AskSide') /\ AskSide'.tree = askTree'
      /\ askTree' \cap bidTree' = {} /\ Stack(free', bidTree' \cup askTree')
      /\ \A n \in bidTree : level'[n] = level[n]
  <2>1. AskSide'.tree = askTree'
    BY DEF AskSide
  <2> QED
    BY <1>3, <1>4, <2>1 DEF Outcome
<1>6. SideOK(FALSE, level', BidSide')
  <2>1. SideOK(FALSE, level, BidSide)
    BY DEF BookOK
  <2>2. SideOK(FALSE, level', BidSide)
    BY <1>2, <1>5, <2>1, SideUntouched
  <2> QED
    BY <1>4, <2>2
<1>7. BookOK'
  <2>1. aborted' = FALSE
    BY <1>1 DEF BookOK
  <2> QED
    BY <1>1, <1>5, <1>6, <2>1 DEF BookOK
<1> QED
  BY <1>3, <1>4, <1>5, <1>7

LEMMA AsksCleared ==
  ASSUME BookOK, Asks!Clear, UNCHANGED bidVars
  PROVE  /\ BookOK'
         /\ askTree' = {} /\ Amounts(level', AskSide') = [p \in Prices |-> 0]
         /\ BidSide' = BidSide /\ \A n \in bidTree : level'[n] = level[n]
<1>1. /\ Cleared(TRUE, free, level, AskSide, free', level', AskSide')
      /\ aborted' = aborted /\ sideResult' = sideResult
  BY AsksClear DEF BookOK
<1>2. /\ bidTree \in SUBSET Nodes /\ AskSide.tree = askTree /\ BidSide.tree = bidTree
      /\ AskSide'.tree = askTree'
  BY DEF BookOK, SideOK, BidSide, AskSide
<1>3. /\ level' \in Contents /\ SideOK(TRUE, level', AskSide') /\ AskSide'.tree = {}
      /\ Stack(free', bidTree) /\ \A n \in bidTree : level'[n] = level[n]
      /\ Amounts(level', AskSide') = [p \in Prices |-> 0]
  <2>1. /\ level \in Contents /\ SideOK(TRUE, level, AskSide)
        /\ AskSide.tree \cap bidTree = {} /\ Stack(free, AskSide.tree \cup bidTree)
    BY <1>2 DEF BookOK
  <2>2. Emptied(TRUE, level, bidTree, free', level', AskSide')
    BY <1>1, <1>2, <2>1, ClearOutcome
  <2> QED
    BY <2>2 DEF Emptied
<1>4. BidSide' = BidSide /\ bidTree' = bidTree
  BY DEF bidVars, BidSide
<1>5. SideOK(FALSE, level', BidSide')
  <2>1. SideOK(FALSE, level, BidSide)
    BY DEF BookOK
  <2>2. SideOK(FALSE, level', BidSide)
    BY <1>2, <1>3, <2>1, SideUntouched
  <2> QED
    BY <1>4, <2>2
<1>6. BookOK'
  <2>1. aborted' = FALSE /\ sideResult' \in Results
    BY <1>1 DEF BookOK
  <2>2. askTree' \cap bidTree' = {} /\ askTree' \cup bidTree' = bidTree
    BY <1>2, <1>3, <1>4
  <2> QED
    BY <1>3, <1>5, <2>1, <2>2 DEF BookOK
<1> QED
  BY <1>2, <1>3, <1>4, <1>6

LEMMA AsksMoveTop ==
  ASSUME BookOK, NEW price \in Prices, NEW qty \in Quantities \cup {0},
         Asks!ApplyUpdate(price, qty), UNCHANGED bidVars
  PROVE  TopMoved <=> Top' # Top
<1>1. /\ Outcome(TRUE, level, AskSide, bidTree, price, qty, free', level', AskSide')
      /\ BidSide' = BidSide /\ \A n \in bidTree : level'[n] = level[n]
  BY AsksUpdate
<1>2. SideOK(TRUE, level, AskSide) /\ SideOK(FALSE, level, BidSide) /\ BidSide.tree = bidTree
  BY DEF BookOK, BidSide
<1> DEFINE b == BestAskNode
           c == BestAskNode'
           a == BestBidNode
           d == BestBidNode'
<1>3. /\ b = BestOf(TRUE, level, AskSide) /\ c = BestOf(TRUE, level', AskSide')
      /\ a = BestOf(FALSE, level, BidSide) /\ d = BestOf(FALSE, level', BidSide)
  BY <1>1, BestNodes
<1>4. TopMoved <=> \/ c # b \/ (c # NoNode /\ QuantityOf(level', c) # QuantityOf(level, b))
                   \/ d # a \/ (d # NoNode /\ QuantityOf(level', d) # QuantityOf(level, a))
  BY DEF TopMoved, QuantityAt, QuantityOf
<1>5. /\ Top = [bid_price |-> PriceOf(level, a), bid_qty |-> QuantityOf(level, a),
                ask_price |-> PriceOf(level, b), ask_qty |-> QuantityOf(level, b)]
      /\ Top' = [bid_price |-> PriceOf(level', d), bid_qty |-> QuantityOf(level', d),
                 ask_price |-> PriceOf(level', c), ask_qty |-> QuantityOf(level', c)]
  BY TopParts
<1> HIDE DEF a, b, c, d
<1>6. d = a /\ PriceOf(level', d) = PriceOf(level, a) /\ QuantityOf(level', d) = QuantityOf(level, a)
  BY <1>1, <1>2, <1>3, BestUntouched
<1>7. Moved(level, b, level', c) <=> Shows(level', c) # Shows(level, b)
  <2>1. Moved(level, BestOf(TRUE, level, AskSide), level', BestOf(TRUE, level', AskSide'))
        <=> Shows(level', BestOf(TRUE, level', AskSide')) # Shows(level, BestOf(TRUE, level, AskSide))
    BY <1>1, <1>2, BestMoved
  <2> QED
    BY <1>3, <2>1
<1>8. Top' # Top <=> Shows(level', c) # Shows(level, b)
  BY <1>5, <1>6 DEF Shows
<1> QED
  BY <1>4, <1>6, <1>7, <1>8 DEF Moved

-----------------------------------------------------------------------------
(* The invariant holds.                                                    *)

LEMMA EmptyBookTop ==
  /\ bidTree = {} /\ askTree = {} => Top = EmptyTop
  /\ bidTree' = {} /\ askTree' = {} => Top' = EmptyTop
<1>1. /\ bidTree = {} => BestBidNode = NoNode
      /\ askTree = {} => BestAskNode = NoNode
      /\ bidTree' = {} => BestBidNode' = NoNode
      /\ askTree' = {} => BestAskNode' = NoNode
  BY DEF BestBidNode, BestAskNode, Bids!HasBest, Asks!HasBest
<1> QED
  BY <1>1, TopParts DEF EmptyTop, PriceOf, QuantityOf

LEMMA InitBook == Init => BookInvariant
<1> SUFFICES ASSUME Init PROVE BookInvariant
  OBVIOUS
<1>1. PICK stack \in [1 .. Cardinality(Nodes) -> Nodes] :
        /\ \A n \in Nodes : \E i \in DOMAIN stack : stack[i] = n
        /\ \A i, j \in DOMAIN stack : stack[i] = stack[j] => i = j
        /\ Bids!InitWith(stack)
  BY BidsOrder DEF Init, Bids!Init
<1>2. /\ free = stack
      /\ level = [n \in Nodes |-> [price |-> 0, quantity |-> 0]]
      /\ bidTree = {} /\ DOMAIN bidIndex = {} /\ bidNth = 0 /\ bidDepth \in Depths
      /\ askTree = {} /\ DOMAIN askIndex = {} /\ askNth = 0 /\ askDepth \in Depths
      /\ bidIndex \in [{} -> {}] /\ askIndex \in [{} -> {}]
      /\ aborted = FALSE
      /\ sideResult = [delta_qty |-> 0, affects_top_n |-> FALSE,
                       is_new_level |-> FALSE, is_deletion |-> FALSE]
  BY <1>1 DEF Init, Bids!InitWith, Asks!InitWith, Bids!NoChange, Bids!UpdateResult,
     Bids!Unused, Bids!Zero, Asks!Zero
<1>3. level \in Contents
  BY <1>2, WordsAreNat DEF Contents
<1>4. \A asc, d : d \in Depths => NthOf(asc, {}, level, d) = 0
  <2>1. Cardinality({}) = 0 /\ Depths \subseteq Nat \ {0}
    BY FS_EmptySet, SidesAssumption
  <2> QED
    BY <2>1 DEF NthOf
<1>5. SideOK(FALSE, level, BidSide)
  BY <1>2, <1>4 DEF SideOK, BidSide
<1>6. SideOK(TRUE, level, AskSide)
  BY <1>2, <1>4 DEF SideOK, AskSide
<1>7. Stack(free, bidTree \cup askTree)
  <2>1. Cardinality(Nodes) \in Nat
    BY SidesAssumption, FS_CardinalityType
  <2>2. stack \in Seq(Nodes)
    BY <1>1, <2>1
  <2> QED
    BY <1>1, <1>2, <2>2 DEF Stack
<1>8. BookOK
  <2>1. sideResult \in Results
    BY <1>2, SidesAssumption DEF Results, Int64s
  <2>2. bidTree \cap askTree = {} /\ aborted = FALSE
    BY <1>2
  <2> QED
    BY <1>3, <1>5, <1>6, <1>7, <2>1, <2>2 DEF BookOK
<1>9. PhaseOK
  <2>1. Top = EmptyTop
    BY <1>2, EmptyBookTop
  <2>2. cached_tob = EmptyTop /\ changed = FALSE /\ phase = "idle" /\ toBid = <<>> /\ toAsk = <<>>
    BY DEF Init
  <2>3. EmptyTop \in Tops
    BY DEF EmptyTop, Tops
  <2>4. <<>> \in Seq(SnapshotLevel)
    OBVIOUS
  <2> QED
    BY <1>2, <2>1, <2>2, <2>3, <2>4 DEF PhaseOK
<1> QED
  BY <1>8, <1>9 DEF BookInvariant

LEMMA UpdateKeeps ==
  ASSUME BookInvariant, NEW side \in {"BUY", "SELL"}, NEW price \in Prices,
         NEW qty \in Quantities \cup {0}, Update(side, price, qty)
  PROVE  BookInvariant' /\ (TopMoved <=> Top' # Top) /\ cached_tob' = Top'
<1>1. BookOK /\ phase = "idle" /\ cached_tob = Top /\ PhaseOK
  BY DEF BookInvariant, PhaseOK, Update
<1>2. BookOK' /\ (TopMoved <=> Top' # Top)
  <2>1. CASE side = "BUY"
    <3>1. Bids!ApplyUpdate(price, qty) /\ UNCHANGED askVars
      BY <2>1 DEF Update
    <3> QED
      BY <1>1, <3>1, BidsUpdate, BidsMoveTop
  <2>2. CASE side # "BUY"
    <3>1. Asks!ApplyUpdate(price, qty) /\ UNCHANGED bidVars
      BY <2>2 DEF Update
    <3> QED
      BY <1>1, <3>1, AsksUpdate, AsksMoveTop
  <2> QED
    BY <2>1, <2>2
<1>3. cached_tob' = IF TopMoved THEN Top' ELSE cached_tob
  BY DEF Update
<1>4. cached_tob' = Top'
  BY <1>1, <1>2, <1>3
<1>5. changed' \in BOOLEAN
  <2>1. changed' = TopMoved
    BY DEF Update
  <2>2. TopMoved \in BOOLEAN
    BY DEF TopMoved
  <2> QED
    BY <2>1, <2>2
<1>6. phase' = "idle" /\ toBid' = toBid /\ toAsk' = toAsk /\ toBid = <<>> /\ toAsk = <<>>
  BY <1>1 DEF Update, snapVars, PhaseOK
<1>7. Top' \in Tops
  BY <1>2, TopType
<1>8. PhaseOK'
  BY <1>1, <1>4, <1>5, <1>6, <1>7 DEF PhaseOK
<1> QED
  BY <1>2, <1>4, <1>8 DEF BookInvariant

LEMMA ClearKeeps ==
  ASSUME BookInvariant, Clear
  PROVE  BookInvariant' /\ bidTree' = {}
<1>1. BookOK /\ PhaseOK /\ Bids!Clear /\ UNCHANGED askVars
  BY DEF BookInvariant, Clear
<1>2. BookOK' /\ bidTree' = {}
  BY <1>1, BidsCleared
<1>3. PhaseOK'
  BY <1>1, <1>2 DEF PhaseOK, Clear
<1> QED
  BY <1>2, <1>3 DEF BookInvariant

LEMMA SnapshotBeginKeeps ==
  ASSUME BookInvariant, NEW b \in SnapshotLevels, NEW a \in SnapshotLevels, SnapshotBegin(b, a)
  PROVE  BookInvariant' /\ bidTree' = {}
<1>1. BookOK /\ PhaseOK /\ Bids!Clear /\ UNCHANGED askVars
  BY DEF BookInvariant, SnapshotBegin
<1>2. BookOK' /\ bidTree' = {}
  BY <1>1, BidsCleared
<1>3. toBid' \in Seq(SnapshotLevel) /\ toAsk' \in Seq(SnapshotLevel)
  BY SnapshotAssumption DEF SnapshotBegin, SnapshotLevel
<1>4. phase' = "snapshot" /\ cached_tob' = cached_tob /\ changed' = changed
  BY DEF SnapshotBegin
<1>5. PhaseOK'
  BY <1>1, <1>2, <1>3, <1>4 DEF PhaseOK
<1> QED
  BY <1>2, <1>5 DEF BookInvariant

LEMMA ClearAsksKeeps ==
  ASSUME BookInvariant, ClearAsks
  PROVE  BookInvariant' /\ bidTree' = {} /\ askTree' = {} /\ Top' = EmptyTop
<1>1. /\ BookOK /\ PhaseOK /\ Asks!Clear /\ UNCHANGED bidVars
      /\ bidTree = {} /\ phase \in {"clear", "snapshot"}
  BY DEF BookInvariant, PhaseOK, ClearAsks
<1>2. BookOK' /\ askTree' = {} /\ bidTree' = {}
  BY <1>1, AsksCleared DEF bidVars
<1>3. Top' = EmptyTop /\ EmptyTop \in Tops
  BY <1>2, EmptyBookTop DEF EmptyTop, Tops
<1>4. /\ cached_tob' = EmptyTop /\ changed' = changed /\ toBid' = toBid /\ toAsk' = toAsk
      /\ phase' = IF phase = "clear" THEN "idle" ELSE "applying"
  BY DEF ClearAsks
<1>5. PhaseOK'
  BY <1>1, <1>2, <1>3, <1>4 DEF PhaseOK
<1> QED
  BY <1>2, <1>3, <1>5 DEF BookInvariant

\* The rest of a list of levels, and its first one.
LEMMA LevelsLeft ==
  ASSUME NEW ls \in Seq(SnapshotLevel), ls # <<>>
  PROVE  /\ Head(ls) \in SnapshotLevel /\ Tail(ls) \in Seq(SnapshotLevel)
         /\ Head(ls).price \in Prices /\ Head(ls).quantity \in Quantities \cup {0}
<1>1. Head(ls) \in SnapshotLevel /\ Tail(ls) \in Seq(SnapshotLevel)
  OBVIOUS
<1> QED
  BY <1>1 DEF SnapshotLevel

LEMMA SnapshotBidKeeps ==
  ASSUME BookInvariant, SnapshotBid
  PROVE  BookInvariant'
<1>1. /\ BookOK /\ PhaseOK /\ toBid \in Seq(SnapshotLevel) /\ toBid # <<>>
      /\ phase = "applying" /\ phase' = phase /\ toBid' = Tail(toBid) /\ toAsk' = toAsk
      /\ cached_tob' = cached_tob /\ changed' = changed
  BY DEF BookInvariant, PhaseOK, SnapshotBid
<1>2. BookOK'
  <2> DEFINE l == Head(toBid)
  <2>1. l.price \in Prices /\ l.quantity \in Quantities \cup {0}
    BY <1>1, LevelsLeft
  <2>2. CASE l.quantity > 0
    <3>1. Bids!ApplyUpdate(l.price, l.quantity) /\ UNCHANGED askVars
      BY <2>2 DEF SnapshotBid
    <3> QED
      BY <1>1, <2>1, <3>1, BidsUpdate
  <2>3. CASE ~(l.quantity > 0)
    <3>1. UNCHANGED <<free, level, bidVars, askVars, sideResult, aborted>>
      BY <2>3 DEF SnapshotBid
    <3> QED
      BY <1>1, <3>1 DEF BookOK, bidVars, askVars, BidSide, AskSide
  <2> QED
    BY <2>2, <2>3
<1>3. PhaseOK'
  <2>1. Tail(toBid) \in Seq(SnapshotLevel)
    BY <1>1, LevelsLeft
  <2> QED
    BY <1>1, <2>1 DEF PhaseOK
<1> QED
  BY <1>2, <1>3 DEF BookInvariant

LEMMA SnapshotAskKeeps ==
  ASSUME BookInvariant, SnapshotAsk
  PROVE  BookInvariant'
<1>1. /\ BookOK /\ PhaseOK /\ toAsk \in Seq(SnapshotLevel) /\ toAsk # <<>>
      /\ phase = "applying" /\ phase' = phase /\ toAsk' = Tail(toAsk) /\ toBid' = toBid
      /\ cached_tob' = cached_tob /\ changed' = changed
  BY DEF BookInvariant, PhaseOK, SnapshotAsk
<1>2. BookOK'
  <2> DEFINE l == Head(toAsk)
  <2>1. l.price \in Prices /\ l.quantity \in Quantities \cup {0}
    BY <1>1, LevelsLeft
  <2>2. CASE l.quantity > 0
    <3>1. Asks!ApplyUpdate(l.price, l.quantity) /\ UNCHANGED bidVars
      BY <2>2 DEF SnapshotAsk
    <3> QED
      BY <1>1, <2>1, <3>1, AsksUpdate
  <2>3. CASE ~(l.quantity > 0)
    <3>1. UNCHANGED <<free, level, bidVars, askVars, sideResult, aborted>>
      BY <2>3 DEF SnapshotAsk
    <3> QED
      BY <1>1, <3>1 DEF BookOK, bidVars, askVars, BidSide, AskSide
  <2> QED
    BY <2>2, <2>3
<1>3. PhaseOK'
  <2>1. Tail(toAsk) \in Seq(SnapshotLevel)
    BY <1>1, LevelsLeft
  <2> QED
    BY <1>1, <2>1 DEF PhaseOK
<1> QED
  BY <1>2, <1>3 DEF BookInvariant

LEMMA SnapshotEndKeeps ==
  ASSUME BookInvariant, SnapshotEnd
  PROVE  BookInvariant' /\ Top' = Top
<1>1. /\ BookOK /\ PhaseOK /\ toBid = <<>> /\ toAsk = <<>> /\ toBid' = toBid /\ toAsk' = toAsk
      /\ phase' = "idle" /\ changed' = TRUE /\ cached_tob' = Top
      /\ UNCHANGED <<free, level, bidVars, askVars, sideResult, aborted>>
  BY DEF BookInvariant, SnapshotEnd
<1>2. BidSide' = BidSide /\ AskSide' = AskSide /\ level' = level /\ BookOK'
  BY <1>1 DEF BookOK, bidVars, askVars, BidSide, AskSide
<1>3. Top' = Top
  BY <1>2, TopParts, BestNodes
<1>4. Top \in Tops
  BY <1>1, TopType
<1>5. PhaseOK'
  BY <1>1, <1>3, <1>4 DEF PhaseOK
<1> QED
  BY <1>2, <1>3, <1>5 DEF BookInvariant

LEMMA StutterKeeps ==
  ASSUME BookInvariant, UNCHANGED vars
  PROVE  BookInvariant'
<1>1. /\ UNCHANGED <<free, level, bidVars, askVars, sideResult, aborted>>
      /\ UNCHANGED <<cached_tob, changed, phase, toBid, toAsk>>
  BY DEF vars, snapVars
<1>2. BidSide' = BidSide /\ AskSide' = AskSide /\ level' = level /\ BookOK'
  BY <1>1 DEF BookInvariant, BookOK, bidVars, askVars, BidSide, AskSide
<1>3. Top' = Top
  BY <1>2, TopParts, BestNodes
<1>4. bidTree' = bidTree
  BY <1>1 DEF bidVars
<1>5. PhaseOK'
  BY <1>1, <1>3, <1>4 DEF BookInvariant, PhaseOK
<1> QED
  BY <1>2, <1>5 DEF BookInvariant

LEMMA BookStep == BookInvariant /\ [Next]_vars => BookInvariant'
<1> SUFFICES ASSUME BookInvariant, [Next]_vars PROVE BookInvariant'
  OBVIOUS
<1>1. ASSUME NEW side \in {"BUY", "SELL"}, NEW price \in Prices,
             NEW qty \in Quantities \cup {0}, Update(side, price, qty)
      PROVE  BookInvariant'
  BY <1>1, UpdateKeeps
<1>2. CASE Clear
  BY <1>2, ClearKeeps
<1>3. ASSUME NEW b \in SnapshotLevels, NEW a \in SnapshotLevels, SnapshotBegin(b, a)
      PROVE  BookInvariant'
  BY <1>3, SnapshotBeginKeeps
<1>4. CASE ClearAsks
  BY <1>4, ClearAsksKeeps
<1>5. CASE SnapshotBid
  BY <1>5, SnapshotBidKeeps
<1>6. CASE SnapshotAsk
  BY <1>6, SnapshotAskKeeps
<1>7. CASE SnapshotEnd
  BY <1>7, SnapshotEndKeeps
<1>8. CASE UNCHANGED vars
  BY <1>8, StutterKeeps
<1> QED
  BY <1>1, <1>2, <1>3, <1>4, <1>5, <1>6, <1>7, <1>8 DEF Next

LEMMA BookAlwaysOK == Spec => []BookInvariant
  BY InitBook, BookStep, PTL DEF Spec

\* The stack holds as many nodes as are not in use.
LEMMA StackSize ==
  ASSUME NEW fr, NEW used \in SUBSET Nodes, Stack(fr, used)
  PROVE  Len(fr) = Cardinality(Nodes) - Cardinality(used)
<1> DEFINE rest == Nodes \ used
<1>1. fr \in Seq(Nodes) /\ Len(fr) \in Nat /\ DOMAIN fr = 1 .. Len(fr)
  BY DEF Stack
<1>2. fr \in Bijection(1 .. Len(fr), rest)
  <2>1. fr \in [1 .. Len(fr) -> rest]
    BY <1>1 DEF Stack
  <2>2. \A i, j \in 1 .. Len(fr) : fr[i] = fr[j] => i = j
    BY <1>1 DEF Stack
  <2>3. \A n \in rest : \E i \in 1 .. Len(fr) : fr[i] = n
    BY <1>1 DEF Stack
  <2> HIDE DEF rest
  <2> QED
    BY <2>1, <2>2, <2>3, Fun_IsBij
<1>3. ExistsBijection(1 .. Len(fr), rest)
  BY <1>2 DEF ExistsBijection
<1>4. Cardinality(rest) = Len(fr)
  BY <1>1, <1>3, FS_CountingElements
<1>5. Cardinality(rest) = Cardinality(Nodes) - Cardinality(Nodes \cap used)
  BY SidesAssumption, FS_Difference
<1>6. Nodes \cap used = used
  OBVIOUS
<1> QED
  BY <1>4, <1>5, <1>6

\* A price level and the node it is in are one and the same thing.
LEMMA PricesCounted ==
  ASSUME NEW asc, NEW lv, NEW s, SideOK(asc, lv, s)
  PROVE  Cardinality(DOMAIN s.index) = Cardinality(s.tree) /\ IsFiniteSet(s.tree)
<1> DEFINE f == [n \in s.tree |-> lv[n].price]
           D == DOMAIN s.index
<1>1. IsFiniteSet(s.tree)
  BY TreeIsLevels DEF Levels
<1>2. f \in [s.tree -> D]
  BY DEF SideOK
<1>3. \A m, n \in s.tree : f[m] = f[n] => m = n
  BY DEF SideOK
<1>4. \A p \in D : \E n \in s.tree : f[n] = p
  BY DEF SideOK
<1> HIDE DEF f, D
<1>5. f \in Bijection(s.tree, D)
  BY <1>2, <1>3, <1>4, Fun_IsBij
<1>6. ExistsBijection(s.tree, D)
  BY <1>5 DEF ExistsBijection
<1>7. Cardinality(D) = Cardinality(s.tree)
  BY <1>1, <1>6, FS_Bijection
<1> QED
  BY <1>1, <1>7 DEF D

\* Both sides of the book draw from one pool without ever touching each other's nodes,
\* and neither std::abort() is reached: for every pool, set of prices and list of
\* levels in a snapshot.
THEOREM SidesAlwaysShareThePool == Spec => []SidesShareThePool
<1>1. BookInvariant => SidesShareThePool
  <2> SUFFICES ASSUME BookInvariant PROVE SidesShareThePool
    OBVIOUS
  <2>1. BookOK /\ PhaseOK /\ BidSide.tree = bidTree /\ AskSide.tree = askTree
    BY DEF BookInvariant, BidSide, AskSide
  <2>2. /\ free \in Seq(Nodes)
        /\ level \in [Nodes -> [price : Prices \cup {0}, quantity : Words]]
        /\ sideResult \in Results
    BY <2>1 DEF BookOK, Stack, Contents
  <2>3. \A asc, s : SideOK(asc, level, s) => s.nth \in Prices \cup {0}
    <3> SUFFICES ASSUME NEW asc, NEW s, SideOK(asc, level, s) PROVE s.nth \in Prices \cup {0}
      OBVIOUS
    <3>1. s.nth = 0 \/ \E n \in s.tree : s.nth = level[n].price
      <4>1. Levels(s.tree, level) /\ s.depth \in Nat \ {0}
        BY TreeIsLevels
      <4>2. \/ NthOf(asc, s.tree, level, s.depth) = 0
            \/ \E n \in s.tree : NthOf(asc, s.tree, level, s.depth) = level[n].price
        BY <4>1, NthPriceType
      <4> QED
        BY <4>2 DEF SideOK
    <3> QED
      BY <3>1 DEF SideOK
  <2>4. Bids!TypeOK
    <3>1. bidNth \in Prices \cup {0}
      <4>1. BidSide.nth \in Prices \cup {0}
        BY <2>1, <2>3 DEF BookOK
      <4> QED
        BY <4>1 DEF BidSide
    <3>2. /\ bidTree \subseteq Nodes /\ DOMAIN bidIndex \subseteq Prices
          /\ bidIndex \in [DOMAIN bidIndex -> Nodes] /\ bidDepth \in Depths
      BY <2>1 DEF BookOK, SideOK, BidSide
    <3>3. aborted \in BOOLEAN
      BY <2>1 DEF BookOK
    <3> QED
      BY <2>2, <3>1, <3>2, <3>3 DEF Bids!TypeOK, Bids!Zero, Bids!Words, Bids!Int64s, Words, Int64s, Results
  <2>5. Asks!TypeOK
    <3>1. askNth \in Prices \cup {0}
      <4>1. AskSide.nth \in Prices \cup {0}
        BY <2>1, <2>3 DEF BookOK
      <4> QED
        BY <4>1 DEF AskSide
    <3>2. /\ askTree \subseteq Nodes /\ DOMAIN askIndex \subseteq Prices
          /\ askIndex \in [DOMAIN askIndex -> Nodes] /\ askDepth \in Depths
      BY <2>1 DEF BookOK, SideOK, AskSide
    <3>3. aborted \in BOOLEAN
      BY <2>1 DEF BookOK
    <3> QED
      BY <2>2, <3>1, <3>2, <3>3 DEF Asks!TypeOK, Asks!Zero, Asks!Words, Asks!Int64s, Words, Int64s, Results
  <2>6. TypeOK
    BY <2>1, <2>4, <2>5 DEF TypeOK, PhaseOK, Tops
  <2>7. Bids!TreeMatchesIndex /\ Asks!TreeMatchesIndex
    <3>1. Bids!TreeMatchesIndex
      BY <2>1 DEF BookOK, SideOK, BidSide, Bids!TreeMatchesIndex
    <3>2. Asks!TreeMatchesIndex
      BY <2>1 DEF BookOK, SideOK, AskSide, Asks!TreeMatchesIndex
    <3> QED
      BY <3>1, <3>2
  <2>8. Len(free) = Cardinality(Nodes) - Cardinality(bidTree) - Cardinality(askTree)
    <3>1. /\ bidTree \cup askTree \in SUBSET Nodes /\ bidTree \cap askTree = {}
          /\ Stack(free, bidTree \cup askTree)
      BY <2>1 DEF BookOK, SideOK
    <3>2. Len(free) = Cardinality(Nodes) - Cardinality(bidTree \cup askTree)
      BY <3>1, StackSize
    <3>3. IsFiniteSet(bidTree) /\ IsFiniteSet(askTree)
      BY <2>1, PricesCounted DEF BookOK
    <3>4. Cardinality(bidTree \cup askTree)
            = Cardinality(bidTree) + Cardinality(askTree) - Cardinality(bidTree \cap askTree)
      BY <3>3, FS_Union
    <3>5. Cardinality(bidTree \cap askTree) = 0
      BY <3>1, FS_EmptySet
    <3>6. Cardinality(bidTree) \in Nat /\ Cardinality(askTree) \in Nat /\ Cardinality(Nodes) \in Nat
      BY <3>3, SidesAssumption, FS_CardinalityType
    <3> QED
      BY <3>2, <3>4, <3>5, <3>6
  <2> QED
    BY <2>1, <2>6, <2>7, <2>8 DEF SidesShareThePool, BookOK, Stack
<1> QED
  BY <1>1, BookAlwaysOK, PTL

-----------------------------------------------------------------------------
(* What is asked of the book.                                              *)

Smaller(a, b) == IF a < b THEN a ELSE b

\* The best levels of a side, as many as asked for.
Listed(asc, lv, s, depth) ==
    [i \in 1 .. Smaller(depth, Cardinality(s.tree)) |-> lv[Position(asc, s.tree, lv, i - 1)]]

LEMMA ListedFacts ==
  ASSUME NEW asc, NEW lv, NEW s, SideOK(asc, lv, s), NEW depth \in Nat
  PROVE  /\ Len(Listed(asc, lv, s, depth)) = Smaller(depth, Cardinality(s.tree))
         /\ DOMAIN Listed(asc, lv, s, depth) = 1 .. Smaller(depth, Cardinality(s.tree))
         /\ \A i \in DOMAIN Listed(asc, lv, s, depth) :
               LET n == Position(asc, s.tree, lv, i - 1)
               IN  /\ n \in s.tree /\ RankOf(asc, s.tree, lv, n) = i - 1
                   /\ Listed(asc, lv, s, depth)[i] = lv[n]
                   /\ lv[n].price \in DOMAIN s.index /\ s.index[lv[n].price] = n
<1> DEFINE k == Smaller(depth, Cardinality(s.tree))
<1>1. Levels(s.tree, lv) /\ Cardinality(s.tree) \in Nat
  BY TreeIsLevels, FS_CardinalityType DEF Levels
<1>2. k \in Nat /\ k <= Cardinality(s.tree)
  BY <1>1 DEF Smaller
<1>3. DOMAIN Listed(asc, lv, s, depth) = 1 .. k /\ Len(Listed(asc, lv, s, depth)) = k
  BY <1>2 DEF Listed
<1>4. ASSUME NEW i \in 1 .. k
      PROVE  LET n == Position(asc, s.tree, lv, i - 1)
             IN  /\ n \in s.tree /\ RankOf(asc, s.tree, lv, n) = i - 1
                 /\ Listed(asc, lv, s, depth)[i] = lv[n]
                 /\ lv[n].price \in DOMAIN s.index /\ s.index[lv[n].price] = n
  <2> DEFINE n == Position(asc, s.tree, lv, i - 1)
  <2>1. i - 1 \in 0 .. Cardinality(s.tree) - 1
    BY <1>1, <1>2, <1>4
  <2>2. n \in s.tree /\ RankOf(asc, s.tree, lv, n) = i - 1
    BY <1>1, <2>1, AtExists
  <2>3. Listed(asc, lv, s, depth)[i] = lv[n]
    BY <1>4 DEF Listed
  <2> HIDE DEF n
  <2>4. lv[n].price \in DOMAIN s.index /\ s.index[lv[n].price] = n
    BY <2>2 DEF SideOK
  <2> QED
    BY <2>2, <2>3, <2>4 DEF n
<1> QED
  BY <1>3, <1>4

\* The list is in the order of the side.
LEMMA ListedInOrder ==
  ASSUME NEW asc, NEW lv, NEW s, SideOK(asc, lv, s), NEW depth \in Nat,
         NEW i \in DOMAIN Listed(asc, lv, s, depth), NEW j \in DOMAIN Listed(asc, lv, s, depth), i < j
  PROVE  Better(asc, Listed(asc, lv, s, depth)[i].price, Listed(asc, lv, s, depth)[j].price)
<1> DEFINE m == Position(asc, s.tree, lv, i - 1)
           n == Position(asc, s.tree, lv, j - 1)
<1>1. Levels(s.tree, lv) /\ Cardinality(s.tree) \in Nat
  BY TreeIsLevels, FS_CardinalityType DEF Levels
<1>2. /\ m \in s.tree /\ RankOf(asc, s.tree, lv, m) = i - 1 /\ Listed(asc, lv, s, depth)[i] = lv[m]
      /\ n \in s.tree /\ RankOf(asc, s.tree, lv, n) = j - 1 /\ Listed(asc, lv, s, depth)[j] = lv[n]
  BY ListedFacts
<1>3. i \in Int /\ j \in Int
  BY <1>1, ListedFacts DEF Smaller
<1> HIDE DEF m, n
<1>4. lv[m].price \in Int /\ lv[n].price \in Int
  BY <1>1, <1>2 DEF Levels
<1>5. lv[m].price # lv[n].price
  <2>1. m # n
    BY <1>2, <1>3
  <2> QED
    BY <1>1, <1>2, <2>1 DEF Levels
<1>6. ~Better(asc, lv[n].price, lv[m].price)
  <2>1. SUFFICES ASSUME Better(asc, lv[n].price, lv[m].price) PROVE FALSE
    OBVIOUS
  <2>2. RankOf(asc, s.tree, lv, n) < RankOf(asc, s.tree, lv, m)
    BY <1>1, <1>2, <1>4, <2>1, RankStrict DEF RankOf
  <2> QED
    BY <1>2, <1>3, <2>2
<1>7. Better(asc, lv[m].price, lv[n].price)
  BY <1>4, <1>5, <1>6 DEF Better
<1> QED
  BY <1>2, <1>7

LEMMA GetTopNListed ==
  /\ \A depth : get_levels("BUY", depth) = Listed(FALSE, level, BidSide, depth)
  /\ \A depth : get_levels("SELL", depth) = Listed(TRUE, level, AskSide, depth)
<1>1. ASSUME NEW depth PROVE get_levels("BUY", depth) = Listed(FALSE, level, BidSide, depth)
  BY BidsOrder DEF get_levels, Bids!GetTopN, Bids!Min2, Listed, Smaller, BidSide
<1>2. ASSUME NEW depth PROVE get_levels("SELL", depth) = Listed(TRUE, level, AskSide, depth)
  BY AsksOrder DEF get_levels, Asks!GetTopN, Asks!Min2, Listed, Smaller, AskSide
<1> QED
  BY <1>1, <1>2

\* A side's list and find_level() agree.
FoundIn(s, p) == IF p \in DOMAIN s.index THEN s.index[p] ELSE NoNode
Agree(lv, s, depth, listed) ==
    /\ Len(listed) = IF depth < Cardinality(s.tree) THEN depth ELSE Cardinality(s.tree)
    /\ \A i \in DOMAIN listed :
          FoundIn(s, listed[i].price) # NoNode /\ lv[FoundIn(s, listed[i].price)] = listed[i]
    /\ Cardinality(s.tree) = Cardinality({p \in Prices : FoundIn(s, p) # NoNode})

LEMMA ListedFound ==
  ASSUME NEW asc, NEW lv, NEW s, SideOK(asc, lv, s), NEW depth \in Nat
  PROVE  Agree(lv, s, depth, Listed(asc, lv, s, depth))
<1> DEFINE listed == Listed(asc, lv, s, depth)
           size == Cardinality(s.tree)
           found(p) == FoundIn(s, p)
<1>1. Len(listed) = IF depth < size THEN depth ELSE size
  BY ListedFacts DEF Smaller
<1>2. \A n \in s.tree : n # NoNode
  BY NoNodeAssumption DEF SideOK
<1>3. ASSUME NEW i \in DOMAIN listed
      PROVE  found(listed[i].price) # NoNode /\ lv[found(listed[i].price)] = listed[i]
  <2> DEFINE n == Position(asc, s.tree, lv, i - 1)
  <2>1. /\ n \in s.tree /\ listed[i] = lv[n]
        /\ lv[n].price \in DOMAIN s.index /\ s.index[lv[n].price] = n
    BY <1>3, ListedFacts
  <2> HIDE DEF n, listed
  <2> QED
    BY <1>2, <2>1 DEF FoundIn
<1>4. {p \in Prices : found(p) # NoNode} = DOMAIN s.index
  BY <1>2 DEF SideOK, FoundIn
<1>5. size = Cardinality({p \in Prices : found(p) # NoNode})
  BY <1>4, PricesCounted
<1> QED
  BY <1>1, <1>3, <1>5 DEF Agree

LEMMA BestNone ==
  ASSUME NEW asc, NEW lv, NEW s, SideOK(asc, lv, s)
  PROVE  s.tree = {} <=> BestOf(asc, lv, s) = NoNode
<1> DEFINE b == BestOf(asc, lv, s)
<1>1. \/ s.tree = {} /\ b = NoNode
      \/ b \in s.tree /\ b # NoNode
  <2> HIDE DEF b
  <2> QED
    BY BestFacts DEF b
<1> QED
  BY <1>1

\* The first of a list of one is what the best node holds.
LEMMA ListedBest ==
  ASSUME NEW asc, NEW lv \in Contents, NEW s, SideOK(asc, lv, s), NEW b, b = BestOf(asc, lv, s)
  PROVE  /\ Listed(asc, lv, s, 1) # <<>> <=> b # NoNode
         /\ b # NoNode => Listed(asc, lv, s, 1)[1] = [price |-> PriceOf(lv, b),
                                                      quantity |-> QuantityOf(lv, b)]
         /\ b = NoNode <=> QuantityOf(lv, b) = 0
<1> DEFINE listed == Listed(asc, lv, s, 1)
<1>1. Levels(s.tree, lv) /\ Cardinality(s.tree) \in Nat
  BY TreeIsLevels, FS_CardinalityType DEF Levels
<1>2. \/ s.tree = {} /\ b = NoNode
      \/ b \in s.tree /\ b # NoNode /\ lv[b].quantity > 0
  BY BestFacts
<1>3. DOMAIN listed = 1 .. Smaller(1, Cardinality(s.tree))
  BY ListedFacts
<1>4. CASE s.tree = {}
  <2>1. Cardinality(s.tree) = 0
    BY <1>4, FS_EmptySet
  <2>2. DOMAIN listed = {}
    BY <1>3, <2>1 DEF Smaller
  <2>3. listed = <<>>
    BY <2>1 DEF Listed, Smaller
  <2> QED
    BY <1>2, <1>4, <2>3 DEF QuantityOf
<1>5. CASE s.tree # {}
  <2>1. Cardinality(s.tree) # 0
    BY <1>1, <1>5, FS_EmptySet DEF Levels
  <2>2. 1 \in DOMAIN listed
    BY <1>1, <1>3, <2>1 DEF Smaller
  <2>3. listed # <<>>
    BY <2>2
  <2>4. listed[1] = lv[b]
    <3>1. listed[1] = lv[Position(asc, s.tree, lv, 1 - 1)]
      BY <2>2, ListedFacts
    <3>2. 1 - 1 = 0
      OBVIOUS
    <3> QED
      BY <1>5, <3>1, <3>2 DEF BestOf
  <2>5. b \in Nodes /\ b # NoNode
    BY <1>2, <1>5 DEF SideOK
  <2>6. lv[b] = [price |-> lv[b].price, quantity |-> lv[b].quantity]
    BY <2>5 DEF Contents
  <2> HIDE DEF listed
  <2> QED
    BY <1>2, <1>5, <2>3, <2>4, <2>5, <2>6 DEF PriceOf, QuantityOf, listed
<1> QED
  BY <1>4, <1>5

\* Between operations everything that is asked of the book gives one picture of it, for
\* every depth and every history of updates and snapshots.
THEOREM QueriesAlwaysAgree == Spec => []QueriesAgree
<1>1. BookInvariant => QueriesAgree
  <2> SUFFICES ASSUME BookInvariant, phase = "idle" PROVE QueriesAgree
    BY DEF QueriesAgree
  <2>1. /\ BookOK /\ cached_tob = Top /\ BidSide.tree = bidTree /\ AskSide.tree = askTree
        /\ BidSide.index = bidIndex /\ AskSide.index = askIndex
    BY DEF BookInvariant, PhaseOK, BidSide, AskSide
  <2>2. /\ level \in Contents /\ SideOK(FALSE, level, BidSide) /\ SideOK(TRUE, level, AskSide)
    BY <2>1 DEF BookOK
  <2>3. Cardinality(Nodes) \in Nat
    BY SidesAssumption, FS_CardinalityType
  <2>4. ASSUME NEW side \in {"BUY", "SELL"}, NEW depth \in 0 .. Cardinality(Nodes)
        PROVE  LET listed == get_levels(side, depth)
                   size == IF side = "BUY" THEN bid_depth ELSE ask_depth
               IN  /\ Len(listed) = IF depth < size THEN depth ELSE size
                   /\ \A i \in DOMAIN listed :
                         LET node == find_level(side, listed[i].price)
                         IN  node # NoNode /\ level[node] = listed[i]
                   /\ size = Cardinality({p \in Prices : find_level(side, p) # NoNode})
    <3>1. depth \in Nat
      BY <2>3, <2>4
    <3>2. CASE side = "BUY"
      <4> DEFINE listed == get_levels(side, depth)
      <4>1. listed = Listed(FALSE, level, BidSide, depth)
        BY <3>2, GetTopNListed
      <4> HIDE DEF listed
      <4>2. Agree(level, BidSide, depth, listed)
        BY <2>2, <3>1, <4>1, ListedFound
      <4>3. \A p : find_level(side, p) = FoundIn(BidSide, p)
        BY <2>1, <3>2 DEF find_level, FoundIn
      <4>4. Cardinality(BidSide.tree) = bid_depth
        BY <2>1 DEF bid_depth
      <4>5. {p \in Prices : find_level(side, p) # NoNode} = {p \in Prices : FoundIn(BidSide, p) # NoNode}
        BY <4>3
      <4>6. /\ Len(listed) = IF depth < bid_depth THEN depth ELSE bid_depth
            /\ \A i \in DOMAIN listed :
                  /\ find_level(side, listed[i].price) # NoNode
                  /\ level[find_level(side, listed[i].price)] = listed[i]
            /\ bid_depth = Cardinality({p \in Prices : find_level(side, p) # NoNode})
        BY <4>2, <4>3, <4>4, <4>5 DEF Agree
      <4> QED
        BY <3>2, <4>6 DEF listed
    <3>3. CASE side = "SELL"
      <4> DEFINE listed == get_levels(side, depth)
      <4>1. listed = Listed(TRUE, level, AskSide, depth)
        BY <3>3, GetTopNListed
      <4> HIDE DEF listed
      <4>2. Agree(level, AskSide, depth, listed)
        BY <2>2, <3>1, <4>1, ListedFound
      <4>3. \A p : find_level(side, p) = FoundIn(AskSide, p)
        BY <2>1, <3>3 DEF find_level, FoundIn
      <4>4. Cardinality(AskSide.tree) = ask_depth
        BY <2>1 DEF ask_depth
      <4>5. {p \in Prices : find_level(side, p) # NoNode} = {p \in Prices : FoundIn(AskSide, p) # NoNode}
        BY <4>3
      <4>6. /\ Len(listed) = IF depth < ask_depth THEN depth ELSE ask_depth
            /\ \A i \in DOMAIN listed :
                  /\ find_level(side, listed[i].price) # NoNode
                  /\ level[find_level(side, listed[i].price)] = listed[i]
            /\ ask_depth = Cardinality({p \in Prices : find_level(side, p) # NoNode})
        BY <4>2, <4>3, <4>4, <4>5 DEF Agree
      <4> QED
        BY <3>3, <4>6 DEF listed
    <3> QED
      BY <2>4, <3>2, <3>3
  <2>5. LET bid == get_levels("BUY", 1)
            ask == get_levels("SELL", 1)
        IN  /\ is_crossed <=>
                  bid # <<>> /\ ask # <<>> /\ cached_tob.bid_price >= cached_tob.ask_price
            /\ bid # <<>> => bid[1] = [price |-> cached_tob.bid_price,
                                      quantity |-> cached_tob.bid_qty]
            /\ ask # <<>> => ask[1] = [price |-> cached_tob.ask_price,
                                      quantity |-> cached_tob.ask_qty]
            /\ empty <=> cached_tob = EmptyTop
    <3> DEFINE b == BestBidNode
               a == BestAskNode
               bid == get_levels("BUY", 1)
               ask == get_levels("SELL", 1)
    <3>1. /\ cached_tob.bid_price = PriceOf(level, b) /\ cached_tob.bid_qty = QuantityOf(level, b)
          /\ cached_tob.ask_price = PriceOf(level, a) /\ cached_tob.ask_qty = QuantityOf(level, a)
          /\ cached_tob = [bid_price |-> PriceOf(level, b), bid_qty |-> QuantityOf(level, b),
                           ask_price |-> PriceOf(level, a), ask_qty |-> QuantityOf(level, a)]
      BY <2>1, TopParts
    <3>2. is_crossed <=> b # NoNode /\ a # NoNode /\ PriceOf(level, b) >= PriceOf(level, a)
      BY DEF is_crossed, PriceAt, PriceOf
    <3>3. b = BestOf(FALSE, level, BidSide) /\ a = BestOf(TRUE, level, AskSide)
      BY BestNodes
    <3>4. empty <=> bidTree = {} /\ askTree = {}
      <4>1. IsFiniteSet(bidTree) /\ IsFiniteSet(askTree)
        BY <2>1, <2>2, PricesCounted
      <4> QED
        BY <4>1, FS_EmptySet DEF empty, bid_depth, ask_depth
    <3> HIDE DEF a, b, bid, ask
    <3>5. /\ bid # <<>> <=> b # NoNode
          /\ b # NoNode => bid[1] = [price |-> PriceOf(level, b), quantity |-> QuantityOf(level, b)]
          /\ b = NoNode <=> QuantityOf(level, b) = 0
      <4>1. bid = Listed(FALSE, level, BidSide, 1)
        BY GetTopNListed DEF bid
      <4> QED
        BY <2>2, <3>3, <4>1, ListedBest
    <3>6. /\ ask # <<>> <=> a # NoNode
          /\ a # NoNode => ask[1] = [price |-> PriceOf(level, a), quantity |-> QuantityOf(level, a)]
          /\ a = NoNode <=> QuantityOf(level, a) = 0
      <4>1. ask = Listed(TRUE, level, AskSide, 1)
        BY GetTopNListed DEF ask
      <4> QED
        BY <2>2, <3>3, <4>1, ListedBest
    <3>7. (bidTree = {} <=> b = NoNode) /\ (askTree = {} <=> a = NoNode)
      <4>1. BidSide.tree = {} <=> BestOf(FALSE, level, BidSide) = NoNode
        BY <2>2, BestNone
      <4>2. AskSide.tree = {} <=> BestOf(TRUE, level, AskSide) = NoNode
        BY <2>2, BestNone
      <4> QED
        BY <2>1, <3>3, <4>1, <4>2
    <3>8. empty <=> cached_tob = EmptyTop
      BY <3>1, <3>4, <3>5, <3>6, <3>7 DEF EmptyTop, PriceOf
    <3> QED
      BY <3>1, <3>2, <3>5, <3>6, <3>8 DEF bid, ask
  <2>6. Bids!validate_tree /\ Bids!NthPriceCoherent
    <3>1. Cardinality(bidTree) \in Nat
      BY <2>1, <2>2, PricesCounted, FS_CardinalityType
    <3>2. Bids!GetTopN(Cardinality(bidTree)) = Listed(FALSE, level, BidSide, Cardinality(bidTree))
      BY GetTopNListed DEF get_levels
    <3>3. Bids!validate_bst_property
      BY <2>2, <3>1, <3>2, ListedInOrder, BidsOrder DEF Bids!validate_bst_property, Bids!InOrder
    <3>4. Bids!validate_hash_coherence
      BY <2>2 DEF SideOK, BidSide, Bids!validate_hash_coherence
    <3>5. Bids!NthPriceCoherent
      BY <2>2, BidsOrder DEF SideOK, BidSide, Bids!NthPriceCoherent
    <3> QED
      BY <3>3, <3>4, <3>5 DEF Bids!validate_tree
  <2>7. Asks!validate_tree /\ Asks!NthPriceCoherent
    <3>1. Cardinality(askTree) \in Nat
      BY <2>1, <2>2, PricesCounted, FS_CardinalityType
    <3>2. Asks!GetTopN(Cardinality(askTree)) = Listed(TRUE, level, AskSide, Cardinality(askTree))
      BY GetTopNListed DEF get_levels
    <3>3. Asks!validate_bst_property
      BY <2>2, <3>1, <3>2, ListedInOrder, AsksOrder DEF Asks!validate_bst_property, Asks!InOrder
    <3>4. Asks!validate_hash_coherence
      BY <2>2 DEF SideOK, AskSide, Asks!validate_hash_coherence
    <3>5. Asks!NthPriceCoherent
      BY <2>2, AsksOrder DEF SideOK, AskSide, Asks!NthPriceCoherent
    <3> QED
      BY <3>3, <3>4, <3>5 DEF Asks!validate_tree
  <2> QED
    BY <2>4, <2>5, <2>6, <2>7 DEF QueriesAgree
<1> QED
  BY <1>1, BookAlwaysOK, PTL

-----------------------------------------------------------------------------
(* The book implements LevelBook: what a list of levels leaves, applied a  *)
(* level at a time, and the top of the book as the promise has it.         *)

LEMMA BiggestIs ==
  ASSUME NEW S \in SUBSET Int, NEW m \in S, \A x \in S : m >= x
  PROVE  View!Max(S) = m
<1>1. \A y \in S : (\A x \in S : y >= x) => y = m
  OBVIOUS
<1> QED
  BY <1>1 DEF View!Max

LEMMA SmallestIs ==
  ASSUME NEW S \in SUBSET Int, NEW m \in S, \A x \in S : m <= x
  PROVE  View!Min(S) = m
<1>1. \A y \in S : (\A x \in S : y <= x) => y = m
  OBVIOUS
<1> QED
  BY <1>1 DEF View!Min

\* A set of positions in a list has a last one.
LEMMA LastPosition ==
  ASSUME NEW n \in Nat, NEW S \in SUBSET (1 .. n), S # {}
  PROVE  /\ View!Max(S) \in S
         /\ \A x \in S : View!Max(S) >= x
<1> DEFINE behind == {j \in 0 .. n : n - j \in S}
<1>1. behind \subseteq Nat /\ behind # {}
  <2>1. PICK k \in S : TRUE
    OBVIOUS
  <2>2. n - k \in behind
    BY <2>1
  <2>3. behind \subseteq Nat
    OBVIOUS
  <2> HIDE DEF behind
  <2> QED
    BY <2>2, <2>3
<1>2. PICK d \in behind : \A e \in behind : ~ (<<e, d>> \in OpToRel(<, Nat))
  BY <1>1, NatLessThanWellFounded, WFMin
<1>3. \A e \in behind : ~ (e < d)
  BY <1>1, <1>2 DEF OpToRel
<1>4. n - d \in S
  BY DEF behind
<1>5. ASSUME NEW x \in S PROVE n - d >= x
  <2>1. n - x \in behind
    OBVIOUS
  <2>2. ~ (n - x < d)
    BY <1>3, <2>1
  <2>3. d \in Int /\ x \in Int
    BY <1>1
  <2> HIDE DEF behind
  <2> QED
    BY <2>2, <2>3
<1>6. S \in SUBSET Int
  OBVIOUS
<1> HIDE DEF behind
<1> QED
  BY <1>4, <1>5, <1>6, BiggestIs

\* The positions at which a list gives a price a quantity.
GivenAt(ls, p) == {i \in DOMAIN ls : ls[i].price = p /\ ls[i].quantity > 0}

LEMMA WithLevelsIs ==
  ASSUME NEW side, NEW ls, NEW p \in Prices
  PROVE  View!WithLevels(side, ls)[p] = IF GivenAt(ls, p) = {} THEN side[p]
                                        ELSE ls[View!Max(GivenAt(ls, p))].quantity
  BY DEF View!WithLevels, GivenAt

LEMMA WithNoLevels ==
  ASSUME NEW side, side = [p \in Prices |-> side[p]]
  PROVE  View!WithLevels(side, <<>>) = side
<1>1. \A p \in Prices : View!WithLevels(side, <<>>)[p] = side[p]
  <2>1. \A p \in Prices : GivenAt(<<>>, p) = {}
    BY DEF GivenAt
  <2> QED
    BY <2>1, WithLevelsIs
<1>2. View!WithLevels(side, <<>>) = [p \in Prices |-> View!WithLevels(side, <<>>)[p]]
  BY DEF View!WithLevels
<1> QED
  BY <1>1, <1>2

\* What the loop of snapshot() does with the first level of a list.
FirstApplied(side, ls) ==
    IF Head(ls).quantity > 0 THEN [side EXCEPT ![Head(ls).price] = Head(ls).quantity] ELSE side

LEMMA OneLevelApplied ==
  ASSUME NEW side, side = [p \in Prices |-> side[p]], NEW ls \in Seq(SnapshotLevel), ls # <<>>
  PROVE  View!WithLevels(FirstApplied(side, ls), Tail(ls)) = View!WithLevels(side, ls)
<1> DEFINE rest == Tail(ls)
           first == FirstApplied(side, ls)
<1>1. /\ Len(ls) \in Nat /\ DOMAIN ls = 1 .. Len(ls) /\ 1 \in DOMAIN ls
      /\ rest \in Seq(SnapshotLevel) /\ DOMAIN rest = 1 .. Len(ls) - 1
      /\ \A i \in DOMAIN rest : rest[i] = ls[i + 1]
      /\ Head(ls) = ls[1]
  OBVIOUS
<1>2. ls[1].price \in Prices
  <2>1. ls[1] \in SnapshotLevel
    BY <1>1
  <2> QED
    BY <2>1 DEF SnapshotLevel
<1> HIDE DEF rest, first
<1>3. ASSUME NEW p \in Prices
      PROVE  View!WithLevels(first, rest)[p] = View!WithLevels(side, ls)[p]
  <2> DEFINE G == GivenAt(rest, p)
             H == GivenAt(ls, p)
  <2>1. /\ G \subseteq 1 .. Len(ls) - 1 /\ H \subseteq 1 .. Len(ls)
        /\ \A i \in DOMAIN rest : i \in G <=> i + 1 \in H
        /\ 1 \in H <=> ls[1].price = p /\ ls[1].quantity > 0
    BY <1>1 DEF GivenAt
  <2>2. first[p] = IF 1 \in H THEN ls[1].quantity ELSE side[p]
    BY <1>1, <1>2, <1>3, <2>1 DEF first, FirstApplied
  <2>3. /\ View!WithLevels(first, rest)[p] = IF G = {} THEN first[p] ELSE rest[View!Max(G)].quantity
        /\ View!WithLevels(side, ls)[p] = IF H = {} THEN side[p] ELSE ls[View!Max(H)].quantity
    BY <1>3, WithLevelsIs
  <2> HIDE DEF G, H
  <2>4. CASE G = {}
    <3>1. H \subseteq {1}
      <4>1. SUFFICES ASSUME NEW i \in H, i # 1 PROVE FALSE
        OBVIOUS
      <4>2. i - 1 \in DOMAIN rest /\ (i - 1) + 1 = i
        BY <1>1, <2>1, <4>1
      <4> QED
        BY <2>1, <2>4, <4>1, <4>2
    <3>2. CASE H = {}
      BY <2>2, <2>3, <2>4, <3>2
    <3>3. CASE H = {1}
      <4>1. View!Max(H) = 1
        BY <3>3, BiggestIs
      <4> QED
        BY <2>2, <2>3, <2>4, <3>3, <4>1
    <3> QED
      BY <3>1, <3>2, <3>3
  <2>5. CASE G # {}
    <3> DEFINE m == View!Max(G)
    <3>1. m \in G /\ \A x \in G : m >= x
      <4>1. Len(ls) - 1 \in Nat
        BY <1>1
      <4> QED
        BY <2>1, <2>5, <4>1, LastPosition
    <3> HIDE DEF m
    <3>2. m \in Int /\ m >= 1 /\ m \in DOMAIN rest /\ m + 1 \in H
      BY <1>1, <2>1, <3>1
    <3>3. ASSUME NEW x \in H PROVE m + 1 >= x
      <4>1. CASE x = 1
        BY <3>2, <4>1
      <4>2. CASE x # 1
        <5>1. x \in Int /\ x - 1 \in DOMAIN rest /\ (x - 1) + 1 = x
          BY <1>1, <2>1, <3>3, <4>2
        <5>2. x - 1 \in G
          BY <2>1, <3>3, <5>1
        <5> QED
          BY <3>1, <3>2, <5>1, <5>2
      <4> QED
        BY <4>1, <4>2
    <3>4. View!Max(H) = m + 1
      <4>1. H \in SUBSET Int
        BY <2>1
      <4> QED
        BY <3>2, <3>3, <4>1, BiggestIs
    <3>5. rest[m] = ls[m + 1]
      BY <1>1, <3>2
    <3> QED
      BY <2>3, <2>5, <3>2, <3>4, <3>5 DEF m
  <2> QED
    BY <2>4, <2>5
<1>4. /\ View!WithLevels(first, rest) = [p \in Prices |-> View!WithLevels(first, rest)[p]]
      /\ View!WithLevels(side, ls) = [p \in Prices |-> View!WithLevels(side, ls)[p]]
  BY DEF View!WithLevels
<1>5. View!WithLevels(first, rest) = View!WithLevels(side, ls)
  BY <1>3, <1>4
<1> QED
  BY <1>5 DEF first, rest

\* The top of the book as the promise computes it from the quantities.
LEMMA BestAmount ==
  ASSUME NEW asc, NEW lv \in Contents, NEW s, SideOK(asc, lv, s)
  PROVE  LET b == BestOf(asc, lv, s)
             side == Amounts(lv, s)
         IN  \/ View!LevelsOf(side) = {} /\ b = NoNode
             \/ /\ b # NoNode
                /\ PriceOf(lv, b) \in View!LevelsOf(side) /\ side[PriceOf(lv, b)] = QuantityOf(lv, b)
                /\ \A p \in View!LevelsOf(side) : ~Better(asc, p, PriceOf(lv, b))
<1> DEFINE b == BestOf(asc, lv, s)
           side == Amounts(lv, s)
<1>1. View!LevelsOf(side) = DOMAIN s.index
  <2>1. \A p \in DOMAIN s.index : s.index[p] \in s.tree /\ lv[s.index[p]].quantity > 0
    BY DEF SideOK
  <2>2. DOMAIN s.index \subseteq Prices
    BY DEF SideOK
  <2> QED
    BY <2>1, <2>2 DEF View!LevelsOf, Amounts
<1>2. \/ s.tree = {} /\ b = NoNode
      \/ /\ b \in s.tree /\ b # NoNode
         /\ lv[b].price \in DOMAIN s.index /\ s.index[lv[b].price] = b
         /\ lv[b].quantity > 0
         /\ \A n \in s.tree : ~Better(asc, lv[n].price, lv[b].price)
  <2> HIDE DEF b
  <2> QED
    BY BestFacts DEF b
<1> HIDE DEF b
<1>3. CASE s.tree = {} /\ b = NoNode
  <2>1. DOMAIN s.index = {}
    BY <1>3 DEF SideOK
  <2> QED
    BY <1>1, <1>3, <2>1 DEF b
<1>4. CASE s.tree # {} \/ b # NoNode
  <2>1. PriceOf(lv, b) = lv[b].price /\ QuantityOf(lv, b) = lv[b].quantity /\ b # NoNode
    BY <1>2, <1>4 DEF PriceOf, QuantityOf
  <2>2. PriceOf(lv, b) \in DOMAIN s.index /\ s.index[PriceOf(lv, b)] = b
    BY <1>2, <1>4, <2>1
  <2>3. side[PriceOf(lv, b)] = QuantityOf(lv, b)
    <3>1. DOMAIN s.index \subseteq Prices
      BY DEF SideOK
    <3> QED
      BY <2>1, <2>2, <3>1 DEF Amounts
  <2>4. ASSUME NEW p \in DOMAIN s.index PROVE ~Better(asc, p, PriceOf(lv, b))
    <3>1. s.index[p] \in s.tree /\ lv[s.index[p]].price = p
      BY DEF SideOK
    <3> QED
      BY <1>2, <1>4, <2>1, <3>1
  <2> HIDE DEF side
  <2> QED
    BY <1>1, <2>1, <2>2, <2>3, <2>4 DEF b, side
<1> QED
  BY <1>3, <1>4

\* Both tops are one.
LEMMA TopIsPromised ==
  ASSUME NEW lv \in Contents, NEW s, SideOK(FALSE, lv, s), NEW t, SideOK(TRUE, lv, t)
  PROVE  View!TopOfBook(Amounts(lv, s), Amounts(lv, t))
           = [bid_price |-> PriceOf(lv, BestOf(FALSE, lv, s)),
              bid_qty   |-> QuantityOf(lv, BestOf(FALSE, lv, s)),
              ask_price |-> PriceOf(lv, BestOf(TRUE, lv, t)),
              ask_qty   |-> QuantityOf(lv, BestOf(TRUE, lv, t))]
<1> DEFINE b == BestOf(FALSE, lv, s)
           a == BestOf(TRUE, lv, t)
           bids == Amounts(lv, s)
           asks == Amounts(lv, t)
<1>1. View!LevelsOf(bids) \in SUBSET Int /\ View!LevelsOf(asks) \in SUBSET Int
  BY SidesAssumption DEF View!LevelsOf
<1>2. \/ View!LevelsOf(bids) = {} /\ b = NoNode
      \/ /\ b # NoNode
         /\ PriceOf(lv, b) \in View!LevelsOf(bids) /\ bids[PriceOf(lv, b)] = QuantityOf(lv, b)
         /\ \A p \in View!LevelsOf(bids) : ~Better(FALSE, p, PriceOf(lv, b))
  <2> HIDE DEF b, bids
  <2> QED
    BY BestAmount DEF b, bids
<1>3. \/ View!LevelsOf(asks) = {} /\ a = NoNode
      \/ /\ a # NoNode
         /\ PriceOf(lv, a) \in View!LevelsOf(asks) /\ asks[PriceOf(lv, a)] = QuantityOf(lv, a)
         /\ \A p \in View!LevelsOf(asks) : ~Better(TRUE, p, PriceOf(lv, a))
  <2> HIDE DEF a, asks
  <2> QED
    BY BestAmount DEF a, asks
<1> HIDE DEF a, b, bids, asks
<1>4. /\ PriceOf(lv, b) = IF View!LevelsOf(bids) = {} THEN 0 ELSE View!BestBid(bids)
      /\ QuantityOf(lv, b) = IF View!LevelsOf(bids) = {} THEN 0 ELSE bids[View!BestBid(bids)]
  <2>1. CASE View!LevelsOf(bids) = {} /\ b = NoNode
    BY <2>1 DEF PriceOf, QuantityOf
  <2>2. CASE ~(View!LevelsOf(bids) = {} /\ b = NoNode)
    <3>1. \A p \in View!LevelsOf(bids) : PriceOf(lv, b) >= p
      BY <1>1, <1>2, <2>2 DEF Better
    <3>2. View!BestBid(bids) = PriceOf(lv, b)
      BY <1>1, <1>2, <2>2, <3>1, BiggestIs DEF View!BestBid
    <3> QED
      BY <1>2, <2>2, <3>2
  <2> QED
    BY <2>1, <2>2
<1>5. /\ PriceOf(lv, a) = IF View!LevelsOf(asks) = {} THEN 0 ELSE View!BestAsk(asks)
      /\ QuantityOf(lv, a) = IF View!LevelsOf(asks) = {} THEN 0 ELSE asks[View!BestAsk(asks)]
  <2>1. CASE View!LevelsOf(asks) = {} /\ a = NoNode
    BY <2>1 DEF PriceOf, QuantityOf
  <2>2. CASE ~(View!LevelsOf(asks) = {} /\ a = NoNode)
    <3>1. \A p \in View!LevelsOf(asks) : PriceOf(lv, a) <= p
      BY <1>1, <1>3, <2>2 DEF Better
    <3>2. View!BestAsk(asks) = PriceOf(lv, a)
      BY <1>1, <1>3, <2>2, <3>1, SmallestIs DEF View!BestAsk
    <3> QED
      BY <1>3, <2>2, <3>2
  <2> QED
    BY <2>1, <2>2
<1>6. View!TopOfBook(bids, asks) = [bid_price |-> PriceOf(lv, b), bid_qty |-> QuantityOf(lv, b),
                                    ask_price |-> PriceOf(lv, a), ask_qty |-> QuantityOf(lv, a)]
  BY <1>4, <1>5 DEF View!TopOfBook
<1> QED
  BY <1>6 DEF a, b, bids, asks

LEMMA ShownTop ==
  /\ BookOK => View!TopOfBook(Amounts(level, BidSide), Amounts(level, AskSide)) = Top
  /\ BookOK' => View!TopOfBook(Amounts(level', BidSide'), Amounts(level', AskSide')) = Top'
<1>1. ASSUME BookOK
      PROVE  View!TopOfBook(Amounts(level, BidSide), Amounts(level, AskSide)) = Top
  BY <1>1, TopIsPromised, TopParts, BestNodes DEF BookOK
<1>2. ASSUME BookOK'
      PROVE  View!TopOfBook(Amounts(level', BidSide'), Amounts(level', AskSide')) = Top'
  BY <1>2, TopIsPromised, TopParts, BestNodes DEF BookOK
<1> QED
  BY <1>1, <1>2

\* What a client is shown: the two sides, the top and the last result.
ShownTob == IF phase = "idle" THEN cached_tob ELSE View!TopOfBook(ViewedBids, ViewedAsks)
ShownChanged == (phase \in {"snapshot", "applying"} \/ changed)

LEMMA ShownSides ==
  /\ ViewedBids = View!WithLevels(Amounts(level, BidSide), toBid)
  /\ ViewedAsks = IF phase \in {"clear", "snapshot"} THEN View!WithLevels(View!EmptySide, toAsk)
                  ELSE View!WithLevels(Amounts(level, AskSide), toAsk)
  /\ ViewedBids' = View!WithLevels(Amounts(level', BidSide'), toBid')
  /\ ViewedAsks' = IF phase' \in {"clear", "snapshot"} THEN View!WithLevels(View!EmptySide, toAsk')
                   ELSE View!WithLevels(Amounts(level', AskSide'), toAsk')
<1>1. /\ AsSide(bidIndex) = Amounts(level, BidSide) /\ AsSide(askIndex) = Amounts(level, AskSide)
      /\ AsSide(bidIndex)' = Amounts(level', BidSide') /\ AsSide(askIndex)' = Amounts(level', AskSide')
  BY DEF AsSide, Amounts, BidSide, AskSide
<1> QED
  BY <1>1 DEF ViewedBids, ViewedAsks, Completed, View!FromLevels

\* The promise's operators are those the mapping uses.
LEMMA SameOperators ==
  /\ \A ls : Promised!FromLevels(ls) = View!WithLevels(View!EmptySide, ls)
  /\ Promised!EmptySide = View!EmptySide
  /\ \A b, a : Promised!TopOfBook(b, a) = View!TopOfBook(b, a)
<1>1. Promised!EmptySide = View!EmptySide
  BY DEF Promised!EmptySide, View!EmptySide
<1>2. \A S : Promised!Max(S) = View!Max(S) /\ Promised!Min(S) = View!Min(S)
  BY DEF Promised!Max, View!Max, Promised!Min, View!Min
<1>3. ASSUME NEW ls PROVE Promised!FromLevels(ls) = View!WithLevels(View!EmptySide, ls)
  BY <1>1, <1>2 DEF Promised!FromLevels, Promised!WithLevels, View!WithLevels
<1>4. ASSUME NEW b, NEW a PROVE Promised!TopOfBook(b, a) = View!TopOfBook(b, a)
  <2>1. /\ \A s : Promised!LevelsOf(s) = View!LevelsOf(s)
    BY DEF Promised!LevelsOf, View!LevelsOf
  <2> QED
    BY <1>2, <2>1 DEF Promised!TopOfBook, View!TopOfBook, Promised!BestBid, View!BestBid,
       Promised!BestAsk, View!BestAsk
<1> QED
  BY <1>1, <1>3, <1>4

LEMMA AmountsFunction ==
  /\ \A lv, s : Amounts(lv, s) = [p \in Prices |-> Amounts(lv, s)[p]]
  /\ View!EmptySide = [p \in Prices |-> View!EmptySide[p]]
  BY DEF Amounts, View!EmptySide

\* A side without levels.
LEMMA EmptyAmounts ==
  ASSUME NEW asc, NEW lv, NEW s, SideOK(asc, lv, s), s.tree = {}
  PROVE  Amounts(lv, s) = View!EmptySide
<1>1. DOMAIN s.index = {}
  BY DEF SideOK
<1> QED
  BY <1>1 DEF Amounts, View!EmptySide

\* A side whose nodes nothing was written to.
LEMMA AmountsUntouched ==
  ASSUME NEW asc, NEW lv, NEW s, SideOK(asc, lv, s), NEW lv1, \A n \in s.tree : lv1[n] = lv[n]
  PROVE  Amounts(lv1, s) = Amounts(lv, s)
<1>1. \A p \in DOMAIN s.index : s.index[p] \in s.tree
  BY DEF SideOK
<1> QED
  BY <1>1 DEF Amounts

\* Between operations the sides are shown as they are, and so is their top.
LEMMA ShownIdle ==
  /\ BookInvariant /\ phase = "idle" =>
       /\ ViewedBids = Amounts(level, BidSide) /\ ViewedAsks = Amounts(level, AskSide)
       /\ ShownTob = View!TopOfBook(ViewedBids, ViewedAsks) /\ ShownChanged = changed
  /\ BookInvariant' /\ phase' = "idle" =>
       /\ ViewedBids' = Amounts(level', BidSide') /\ ViewedAsks' = Amounts(level', AskSide')
       /\ ShownTob' = View!TopOfBook(ViewedBids', ViewedAsks') /\ ShownChanged' = changed'
<1>1. ASSUME BookInvariant, phase = "idle"
      PROVE  /\ ViewedBids = Amounts(level, BidSide) /\ ViewedAsks = Amounts(level, AskSide)
             /\ ShownTob = View!TopOfBook(ViewedBids, ViewedAsks) /\ ShownChanged = changed
  <2>1. BookOK /\ toBid = <<>> /\ toAsk = <<>> /\ cached_tob = Top /\ changed \in BOOLEAN
    BY <1>1 DEF BookInvariant, PhaseOK
  <2>2. ViewedBids = Amounts(level, BidSide) /\ ViewedAsks = Amounts(level, AskSide)
    BY <1>1, <2>1, ShownSides, AmountsFunction, WithNoLevels
  <2> QED
    BY <1>1, <2>1, <2>2, ShownTop DEF ShownTob, ShownChanged
<1>2. ASSUME BookInvariant', phase' = "idle"
      PROVE  /\ ViewedBids' = Amounts(level', BidSide') /\ ViewedAsks' = Amounts(level', AskSide')
             /\ ShownTob' = View!TopOfBook(ViewedBids', ViewedAsks') /\ ShownChanged' = changed'
  <2>1. BookOK' /\ toBid' = <<>> /\ toAsk' = <<>> /\ cached_tob' = Top' /\ changed' \in BOOLEAN
    BY <1>2 DEF BookInvariant, PhaseOK
  <2>2. ViewedBids' = Amounts(level', BidSide') /\ ViewedAsks' = Amounts(level', AskSide')
    BY <1>2, <2>1, ShownSides, AmountsFunction, WithNoLevels
  <2> QED
    BY <1>2, <2>1, <2>2, ShownTop DEF ShownTob, ShownChanged
<1> QED
  BY <1>1, <1>2

\* What is shown is always the top of what is shown.
LEMMA ShownTopAlways ==
  /\ BookInvariant => ShownTob = View!TopOfBook(ViewedBids, ViewedAsks)
  /\ BookInvariant' => ShownTob' = View!TopOfBook(ViewedBids', ViewedAsks')
<1>1. phase # "idle" => ShownTob = View!TopOfBook(ViewedBids, ViewedAsks)
  BY DEF ShownTob
<1>2. phase' # "idle" => ShownTob' = View!TopOfBook(ViewedBids', ViewedAsks')
  BY DEF ShownTob
<1> QED
  BY <1>1, <1>2, ShownIdle

LEMMA UpdateShown ==
  ASSUME BookInvariant, NEW side \in {"BUY", "SELL"}, NEW price \in Prices,
         NEW qty \in Quantities \cup {0}, Update(side, price, qty)
  PROVE  Promised!Update(side, price, qty)
<1>1. BookInvariant' /\ (TopMoved <=> Top' # Top) /\ cached_tob' = Top'
  BY UpdateKeeps
<1>2. /\ BookOK /\ phase = "idle" /\ phase' = "idle" /\ cached_tob = Top /\ changed' = TopMoved
  BY DEF BookInvariant, PhaseOK, Update, snapVars
<1>3. /\ ViewedBids = Amounts(level, BidSide) /\ ViewedAsks = Amounts(level, AskSide)
      /\ ViewedBids' = Amounts(level', BidSide') /\ ViewedAsks' = Amounts(level', AskSide')
      /\ ShownChanged' = changed' /\ ShownTob = Top /\ ShownTob' = Top'
      /\ ShownTob' = View!TopOfBook(ViewedBids', ViewedAsks')
  <2>1. ShownTob = Top /\ ShownTob' = Top'
    BY <1>1, <1>2 DEF ShownTob
  <2> QED
    BY <1>1, <1>2, <2>1, ShownIdle
<1>4. CASE side = "BUY"
  <2>1. Bids!ApplyUpdate(price, qty) /\ UNCHANGED askVars
    BY <1>4 DEF Update
  <2>2. /\ Outcome(FALSE, level, BidSide, askTree, price, qty, free', level', BidSide')
        /\ AskSide' = AskSide /\ \A n \in askTree : level'[n] = level[n]
    BY <1>2, <2>1, BidsUpdate
  <2>3. ViewedBids' = [ViewedBids EXCEPT ![price] = qty]
    BY <1>3, <2>2 DEF Outcome
  <2>4. ViewedAsks' = ViewedAsks
    <3>1. SideOK(TRUE, level, AskSide) /\ AskSide.tree = askTree
      BY <1>2 DEF BookOK, AskSide
    <3>2. Amounts(level', AskSide) = Amounts(level, AskSide)
      BY <2>2, <3>1, AmountsUntouched
    <3> QED
      BY <1>3, <2>2, <3>2
  <2>5. /\ ViewedBids' = [ViewedBids EXCEPT ![price] = qty] /\ UNCHANGED ViewedAsks
        /\ ShownTob' = Promised!TopOfBook(ViewedBids', ViewedAsks')
        /\ ShownChanged' = (ShownTob' # ShownTob)
    BY <1>1, <1>2, <1>3, <2>3, <2>4, SameOperators DEF TopMoved
  <2> QED
    BY <1>4, <2>5 DEF Promised!Update, ShownTob, ShownChanged
<1>5. CASE side = "SELL"
  <2>1. Asks!ApplyUpdate(price, qty) /\ UNCHANGED bidVars
    BY <1>5 DEF Update
  <2>2. /\ Outcome(TRUE, level, AskSide, bidTree, price, qty, free', level', AskSide')
        /\ BidSide' = BidSide /\ \A n \in bidTree : level'[n] = level[n]
    BY <1>2, <2>1, AsksUpdate
  <2>3. ViewedAsks' = [ViewedAsks EXCEPT ![price] = qty]
    BY <1>3, <2>2 DEF Outcome
  <2>4. ViewedBids' = ViewedBids
    <3>1. SideOK(FALSE, level, BidSide) /\ BidSide.tree = bidTree
      BY <1>2 DEF BookOK, BidSide
    <3>2. Amounts(level', BidSide) = Amounts(level, BidSide)
      BY <2>2, <3>1, AmountsUntouched
    <3> QED
      BY <1>3, <2>2, <3>2
  <2>5. /\ ViewedAsks' = [ViewedAsks EXCEPT ![price] = qty] /\ UNCHANGED ViewedBids
        /\ ShownTob' = Promised!TopOfBook(ViewedBids', ViewedAsks')
        /\ ShownChanged' = (ShownTob' # ShownTob)
    BY <1>1, <1>2, <1>3, <2>3, <2>4, SameOperators DEF TopMoved
  <2> QED
    BY <1>5, <2>5 DEF Promised!Update, ShownTob, ShownChanged
<1> QED
  BY <1>4, <1>5

\* The bids are cleared first: what is shown is then the empty book, or the snapshot.
LEMMA ClearShown ==
  ASSUME BookInvariant, Clear
  PROVE  Promised!Clear
<1>1. BookInvariant' /\ bidTree' = {}
  BY ClearKeeps
<1>2. /\ phase = "idle" /\ phase' = "clear" /\ changed' = changed
      /\ toBid' = <<>> /\ toAsk' = <<>>
  BY DEF BookInvariant, PhaseOK, Clear
<1>3. ViewedBids' = View!EmptySide /\ ViewedAsks' = View!EmptySide
  <2>1. SideOK(FALSE, level', BidSide') /\ BidSide'.tree = {}
    BY <1>1 DEF BookInvariant, BookOK, BidSide
  <2>2. Amounts(level', BidSide') = View!EmptySide
    BY <2>1, EmptyAmounts
  <2>3. View!WithLevels(View!EmptySide, <<>>) = View!EmptySide
    BY AmountsFunction, WithNoLevels
  <2> QED
    BY <1>2, <2>2, <2>3, ShownSides
<1>4. ShownTob' = View!TopOfBook(View!EmptySide, View!EmptySide)
  BY <1>1, <1>3, ShownTopAlways
<1>5. ShownChanged' = ShownChanged
  BY <1>2 DEF ShownChanged
<1>6. /\ ViewedBids' = Promised!EmptySide /\ ViewedAsks' = Promised!EmptySide
      /\ ShownTob' = Promised!TopOfBook(Promised!EmptySide, Promised!EmptySide)
      /\ UNCHANGED ShownChanged
  BY <1>3, <1>4, <1>5, SameOperators
<1> QED
  BY <1>6 DEF Promised!Clear, ShownTob, ShownChanged

LEMMA SnapshotBeginShown ==
  ASSUME BookInvariant, NEW b \in SnapshotLevels, NEW a \in SnapshotLevels, SnapshotBegin(b, a)
  PROVE  Promised!Snapshot(b, a)
<1>1. BookInvariant' /\ bidTree' = {}
  BY SnapshotBeginKeeps
<1>2. phase' = "snapshot" /\ toBid' = b /\ toAsk' = a
  BY DEF SnapshotBegin
<1>3. /\ ViewedBids' = View!WithLevels(View!EmptySide, b)
      /\ ViewedAsks' = View!WithLevels(View!EmptySide, a)
  <2>1. SideOK(FALSE, level', BidSide') /\ BidSide'.tree = {}
    BY <1>1 DEF BookInvariant, BookOK, BidSide
  <2>2. Amounts(level', BidSide') = View!EmptySide
    BY <2>1, EmptyAmounts
  <2> QED
    BY <1>2, <2>2, ShownSides
<1>4. ShownTob' = View!TopOfBook(ViewedBids', ViewedAsks')
  BY <1>1, ShownTopAlways
<1>5. ShownChanged' = TRUE
  BY <1>2 DEF ShownChanged
<1>6. /\ ViewedBids' = Promised!FromLevels(b) /\ ViewedAsks' = Promised!FromLevels(a)
      /\ ShownTob' = Promised!TopOfBook(ViewedBids', ViewedAsks')
      /\ ShownChanged' = TRUE
  BY <1>3, <1>4, <1>5, SameOperators
<1> QED
  BY <1>6 DEF Promised!Snapshot, ShownTob, ShownChanged

\* The other steps show nothing.
Unseen == UNCHANGED <<ViewedBids, ViewedAsks, ShownTob, ShownChanged>>

LEMMA ClearAsksShown ==
  ASSUME BookInvariant, ClearAsks
  PROVE  Unseen
<1>1. BookInvariant' /\ bidTree' = {} /\ askTree' = {}
  BY ClearAsksKeeps
<1>2. /\ bidTree = {} /\ phase \in {"clear", "snapshot"} /\ changed' = changed
      /\ phase' = (IF phase = "clear" THEN "idle" ELSE "applying")
      /\ toBid' = toBid /\ toAsk' = toAsk
  BY DEF BookInvariant, PhaseOK, ClearAsks
<1>3. /\ Amounts(level, BidSide) = View!EmptySide
      /\ Amounts(level', BidSide') = View!EmptySide
      /\ Amounts(level', AskSide') = View!EmptySide
  <2>1. SideOK(FALSE, level, BidSide) /\ BidSide.tree = {}
    BY <1>2 DEF BookInvariant, BookOK, BidSide
  <2>2. SideOK(FALSE, level', BidSide') /\ BidSide'.tree = {}
    BY <1>1 DEF BookInvariant, BookOK, BidSide
  <2>3. SideOK(TRUE, level', AskSide') /\ AskSide'.tree = {}
    BY <1>1 DEF BookInvariant, BookOK, AskSide
  <2> QED
    BY <2>1, <2>2, <2>3, EmptyAmounts
<1>4. ViewedBids' = ViewedBids /\ ViewedAsks' = ViewedAsks
  BY <1>2, <1>3, ShownSides
<1>5. ShownTob' = ShownTob
  BY <1>1, <1>4, ShownTopAlways
<1>6. ShownChanged' = ShownChanged
  BY <1>2 DEF ShownChanged
<1> QED
  BY <1>4, <1>5, <1>6 DEF Unseen

LEMMA SnapshotBidShown ==
  ASSUME BookInvariant, SnapshotBid
  PROVE  Unseen
<1> DEFINE l == Head(toBid)
<1>1. BookInvariant'
  BY SnapshotBidKeeps
<1>2. /\ BookOK /\ toBid \in Seq(SnapshotLevel) /\ toBid # <<>>
      /\ phase = "applying" /\ phase' = phase /\ toBid' = Tail(toBid) /\ toAsk' = toAsk
      /\ changed' = changed
  BY DEF BookInvariant, PhaseOK, SnapshotBid
<1>3. /\ Amounts(level', BidSide') = FirstApplied(Amounts(level, BidSide), toBid)
      /\ Amounts(level', AskSide') = Amounts(level, AskSide)
  <2>1. l.price \in Prices /\ l.quantity \in Quantities \cup {0}
    BY <1>2, LevelsLeft
  <2>2. CASE l.quantity > 0
    <3>1. Bids!ApplyUpdate(l.price, l.quantity) /\ UNCHANGED askVars
      BY <2>2 DEF SnapshotBid
    <3>2. /\ Outcome(FALSE, level, BidSide, askTree, l.price, l.quantity, free', level', BidSide')
          /\ AskSide' = AskSide /\ \A n \in askTree : level'[n] = level[n]
      BY <1>2, <2>1, <3>1, BidsUpdate
    <3>3. SideOK(TRUE, level, AskSide) /\ AskSide.tree = askTree
      BY <1>2 DEF BookOK, AskSide
    <3>4. Amounts(level', AskSide) = Amounts(level, AskSide)
      BY <3>2, <3>3, AmountsUntouched
    <3> QED
      BY <2>2, <3>2, <3>4 DEF Outcome, FirstApplied
  <2>3. CASE ~(l.quantity > 0)
    <3>1. UNCHANGED <<free, level, bidVars, askVars, sideResult, aborted>>
      BY <2>3 DEF SnapshotBid
    <3>2. level' = level /\ BidSide' = BidSide /\ AskSide' = AskSide
      BY <3>1 DEF bidVars, askVars, BidSide, AskSide
    <3> QED
      BY <2>3, <3>2 DEF FirstApplied
  <2> QED
    BY <2>2, <2>3
<1>4. View!WithLevels(Amounts(level', BidSide'), Tail(toBid))
        = View!WithLevels(Amounts(level, BidSide), toBid)
  BY <1>2, <1>3, AmountsFunction, OneLevelApplied
<1>5. ViewedBids' = ViewedBids /\ ViewedAsks' = ViewedAsks
  BY <1>2, <1>3, <1>4, ShownSides
<1>6. ShownTob' = ShownTob
  BY <1>1, <1>5, ShownTopAlways
<1>7. ShownChanged' = ShownChanged
  BY <1>2 DEF ShownChanged
<1> QED
  BY <1>5, <1>6, <1>7 DEF Unseen

LEMMA SnapshotAskShown ==
  ASSUME BookInvariant, SnapshotAsk
  PROVE  Unseen
<1> DEFINE l == Head(toAsk)
<1>1. BookInvariant'
  BY SnapshotAskKeeps
<1>2. /\ BookOK /\ toAsk \in Seq(SnapshotLevel) /\ toAsk # <<>>
      /\ phase = "applying" /\ phase' = phase /\ toAsk' = Tail(toAsk) /\ toBid' = toBid
      /\ changed' = changed
  BY DEF BookInvariant, PhaseOK, SnapshotAsk
<1>3. /\ Amounts(level', AskSide') = FirstApplied(Amounts(level, AskSide), toAsk)
      /\ Amounts(level', BidSide') = Amounts(level, BidSide)
  <2>1. l.price \in Prices /\ l.quantity \in Quantities \cup {0}
    BY <1>2, LevelsLeft
  <2>2. CASE l.quantity > 0
    <3>1. Asks!ApplyUpdate(l.price, l.quantity) /\ UNCHANGED bidVars
      BY <2>2 DEF SnapshotAsk
    <3>2. /\ Outcome(TRUE, level, AskSide, bidTree, l.price, l.quantity, free', level', AskSide')
          /\ BidSide' = BidSide /\ \A n \in bidTree : level'[n] = level[n]
      BY <1>2, <2>1, <3>1, AsksUpdate
    <3>3. SideOK(FALSE, level, BidSide) /\ BidSide.tree = bidTree
      BY <1>2 DEF BookOK, BidSide
    <3>4. Amounts(level', BidSide) = Amounts(level, BidSide)
      BY <3>2, <3>3, AmountsUntouched
    <3> QED
      BY <2>2, <3>2, <3>4 DEF Outcome, FirstApplied
  <2>3. CASE ~(l.quantity > 0)
    <3>1. UNCHANGED <<free, level, bidVars, askVars, sideResult, aborted>>
      BY <2>3 DEF SnapshotAsk
    <3>2. level' = level /\ BidSide' = BidSide /\ AskSide' = AskSide
      BY <3>1 DEF bidVars, askVars, BidSide, AskSide
    <3> QED
      BY <2>3, <3>2 DEF FirstApplied
  <2> QED
    BY <2>2, <2>3
<1>4. View!WithLevels(Amounts(level', AskSide'), Tail(toAsk))
        = View!WithLevels(Amounts(level, AskSide), toAsk)
  BY <1>2, <1>3, AmountsFunction, OneLevelApplied
<1>5. ViewedBids' = ViewedBids /\ ViewedAsks' = ViewedAsks
  BY <1>2, <1>3, <1>4, ShownSides
<1>6. ShownTob' = ShownTob
  BY <1>1, <1>5, ShownTopAlways
<1>7. ShownChanged' = ShownChanged
  BY <1>2 DEF ShownChanged
<1> QED
  BY <1>5, <1>6, <1>7 DEF Unseen

LEMMA SnapshotEndShown ==
  ASSUME BookInvariant, SnapshotEnd
  PROVE  Unseen
<1>1. BookInvariant'
  BY SnapshotEndKeeps
<1>2. /\ phase = "applying" /\ phase' = "idle" /\ toBid' = toBid /\ toAsk' = toAsk
      /\ changed' = TRUE /\ UNCHANGED <<free, level, bidVars, askVars, sideResult, aborted>>
  BY DEF SnapshotEnd
<1>3. level' = level /\ BidSide' = BidSide /\ AskSide' = AskSide
  BY <1>2 DEF bidVars, askVars, BidSide, AskSide
<1>4. ViewedBids' = ViewedBids /\ ViewedAsks' = ViewedAsks
  BY <1>2, <1>3, ShownSides
<1>5. ShownTob' = ShownTob
  BY <1>1, <1>4, ShownTopAlways
<1>6. ShownChanged' = ShownChanged
  BY <1>2 DEF ShownChanged
<1> QED
  BY <1>4, <1>5, <1>6 DEF Unseen

LEMMA StutterShown ==
  ASSUME BookInvariant, UNCHANGED vars
  PROVE  Unseen
<1>1. BookInvariant'
  BY StutterKeeps
<1>2. /\ UNCHANGED <<free, level, bidVars, askVars>>
      /\ UNCHANGED <<changed, phase, toBid, toAsk>>
  BY DEF vars, snapVars
<1>3. level' = level /\ BidSide' = BidSide /\ AskSide' = AskSide
  BY <1>2 DEF bidVars, askVars, BidSide, AskSide
<1>4. ViewedBids' = ViewedBids /\ ViewedAsks' = ViewedAsks
  BY <1>2, <1>3, ShownSides
<1>5. ShownTob' = ShownTob
  BY <1>1, <1>4, ShownTopAlways
<1>6. ShownChanged' = ShownChanged
  BY <1>2 DEF ShownChanged
<1> QED
  BY <1>4, <1>5, <1>6 DEF Unseen

\* The order book implements LevelBook for every pool, every set of prices and every
\* history: update() and snapshot() make of each side what their arguments say, what
\* they return tells exactly whether the top moved, and the cached top is never stale.
THEOREM ImplementsPromise == Spec => ImplementsLevelBook
<1>1. Init => Promised!Init
  <2> SUFFICES ASSUME Init PROVE Promised!Init
    OBVIOUS
  <2>1. BookInvariant
    BY InitBook
  <2>2. /\ phase = "idle" /\ changed = FALSE
        /\ bidTree = {} /\ askTree = {}
    BY BidsOrder DEF Init, Bids!Init, Bids!InitWith, Asks!InitWith
  <2>3. SideOK(FALSE, level, BidSide) /\ BidSide.tree = {} /\ SideOK(TRUE, level, AskSide) /\ AskSide.tree = {}
    BY <2>1, <2>2 DEF BookInvariant, BookOK, BidSide, AskSide
  <2>4. Amounts(level, BidSide) = View!EmptySide /\ Amounts(level, AskSide) = View!EmptySide
    BY <2>3, EmptyAmounts
  <2>5. /\ ViewedBids = View!EmptySide /\ ViewedAsks = View!EmptySide
        /\ ShownTob = View!TopOfBook(View!EmptySide, View!EmptySide) /\ ShownChanged = FALSE
    BY <2>1, <2>2, <2>4, ShownIdle
  <2>6. /\ ViewedBids = Promised!EmptySide /\ ViewedAsks = Promised!EmptySide
        /\ ShownTob = Promised!TopOfBook(Promised!EmptySide, Promised!EmptySide)
        /\ ShownChanged = FALSE
    BY <2>5, SameOperators
  <2> QED
    BY <2>6 DEF Promised!Init, ShownTob, ShownChanged
<1>2. BookInvariant /\ [Next]_vars => [Promised!Next]_(Promised!bookVars)
  <2> SUFFICES ASSUME BookInvariant, [Next]_vars PROVE [Promised!Next]_(Promised!bookVars)
    OBVIOUS
  <2>1. Unseen => UNCHANGED Promised!bookVars
    BY DEF Unseen, Promised!bookVars, ShownTob, ShownChanged
  <2>2. ASSUME NEW side \in {"BUY", "SELL"}, NEW price \in Prices,
               NEW qty \in Quantities \cup {0}, Update(side, price, qty)
        PROVE  Promised!Next
    BY <2>2, UpdateShown DEF Promised!Next
  <2>3. CASE Clear
    BY <2>3, ClearShown DEF Promised!Next
  <2>4. ASSUME NEW b \in SnapshotLevels, NEW a \in SnapshotLevels, SnapshotBegin(b, a)
        PROVE  Promised!Next
    BY <2>4, SnapshotBeginShown DEF Promised!Next
  <2>5. CASE ClearAsks
    BY <2>1, <2>5, ClearAsksShown
  <2>6. CASE SnapshotBid
    BY <2>1, <2>6, SnapshotBidShown
  <2>7. CASE SnapshotAsk
    BY <2>1, <2>7, SnapshotAskShown
  <2>8. CASE SnapshotEnd
    BY <2>1, <2>8, SnapshotEndShown
  <2>9. CASE UNCHANGED vars
    BY <2>1, <2>9, StutterShown
  <2> QED
    BY <2>2, <2>3, <2>4, <2>5, <2>6, <2>7, <2>8, <2>9 DEF Next
<1> QED
  BY <1>1, <1>2, BookAlwaysOK, PTL DEF Spec, ImplementsLevelBook, Promised!Spec

=============================================================================
