-------------------------- MODULE ThreadCacheProofs --------------------------
(***************************************************************************)
(* ThreadCache.tla for every number of objects and threads and all sizes   *)
(* given to CacheConfig(): no loop leaves the array of a cache, every      *)
(* object is in one place, and a thread leaves nothing behind.             *)
(*                                                                         *)
(* A step is one thread's: it moves objects between that thread's cache    *)
(* and call and the three places threads share.  So each step is shown to  *)
(* keep what its own thread has, Split, apart and complete; what the other *)
(* threads have was apart from all of that, and remains so.                *)
(***************************************************************************)
EXTENDS ThreadCache, FiniteSetTheorems, SequenceTheorems, TLAPS

Labels == {"idle", "take", "rest", "refill", "flush", "giveBack", "exit", "exited"}

SizesValid ==
    /\ {config.cache_size, config.batch_size, config.shrink_threshold} \subseteq Nat

Types ==
    /\ SizesValid
    /\ free \subseteq Objects /\ held \subseteq Objects /\ lost \subseteq Objects
    /\ cache \in [Threads -> Seq(Objects)]
    /\ global_pool_ \in [Threads -> {"none", "pool", "nullptr"}]
    /\ pc \in [Threads -> Labels]
    /\ DOMAIN want = Threads /\ DOMAIN batch = Threads
    /\ collected \in [Threads -> SUBSET Objects]
    /\ todo \in [Threads -> Nat]
    /\ arg \in [Threads -> SUBSET Objects]

\* CacheBounded, of one thread.
Bounded(t) ==
    /\ Size(t) <= config.cache_size
    /\ pc[t] = "refill" => Size(t) + todo[t] <= config.cache_size
    /\ pc[t] \in {"flush", "giveBack", "exit"} => todo[t] <= Size(t)

\* A thread whose cache has no pool has nothing cached, and one in a call has the
\* pool or needs no cache.
Bound(t) ==
    /\ ended # "destroyed" /\ global_pool_[t] # "pool" => Size(t) = 0
    /\ ended # "destroyed" /\ pc[t] = "exit" => todo[t] = Size(t)
    /\ \/ pc[t] \in {"idle", "exit", "exited"} \/ config.cache_size = 0
       \/ global_pool_[t] = "pool"
    /\ pc[t] = "exited" => global_pool_[t] = "none"
    /\ ended = "destroyed" => pc[t] \in {"idle", "exit", "exited"} /\ global_pool_[t] # "pool"
    /\ arg[t] # {} => pc[t] = "flush" /\ \E o \in Objects : arg[t] = {o}

LoopInvariant == Types /\ \A t \in Threads : Bounded(t) /\ Bound(t)

Step(t) == Allocate(t) \/ Deallocate(t) \/ End(t)

-----------------------------------------------------------------------------
(* Minimum, maximum, and the stack.                                        *)

LEMMA MinOf ==
    ASSUME NEW a \in Int, NEW b \in Int
    PROVE  Min({a, b}) \in {a, b} /\ Min({a, b}) <= a /\ Min({a, b}) <= b
<1>1. \E x \in {a, b} : \A y \in {a, b} : x <= y
      OBVIOUS
<1>. QED
     BY <1>1 DEF Min

LEMMA MaxOf ==
    ASSUME NEW a \in Int, NEW b \in Int
    PROVE  Max({a, b}) \in {a, b} /\ Max({a, b}) >= a /\ Max({a, b}) >= b
<1>1. \E x \in {a, b} : \A y \in {a, b} : x >= y
      OBVIOUS
<1>. QED
     BY <1>1 DEF Max

LEMMA PopOf ==
    ASSUME NEW S, NEW q \in Seq(S), Len(q) > 0
    PROVE  /\ Len(q) \in Nat \ {0} /\ q[Len(q)] \in S
           /\ SubSeq(q, 1, Len(q) - 1) \in Seq(S)
           /\ Len(SubSeq(q, 1, Len(q) - 1)) = Len(q) - 1
           /\ \A k \in 1 .. Len(q) - 1 : SubSeq(q, 1, Len(q) - 1)[k] = q[k]
<1>1. Len(q) \in Nat \ {0} /\ \A k \in 1 .. Len(q) : q[k] \in S
      BY LenProperties
<1>. DEFINE n == Len(q) - 1
<1>2. n \in Nat /\ \A k \in 1 .. n : q[k] \in S
      BY <1>1
<1>. HIDE DEF n
<1>3. /\ SubSeq(q, 1, n) \in Seq(S) /\ Len(SubSeq(q, 1, n)) = n
      /\ \A k \in 1 .. n : SubSeq(q, 1, n)[k] = q[k]
      BY <1>2, SubSeqProperties
<1>. QED
     BY <1>1, <1>3 DEF n

LEMMA PushOf ==
    ASSUME NEW S, NEW q \in Seq(S), NEW x \in S
    PROVE  /\ Len(q) \in Nat /\ Append(q, x) \in Seq(S)
           /\ Len(Append(q, x)) = Len(q) + 1
           /\ \A k \in 1 .. Len(q) : Append(q, x)[k] = q[k]
           /\ Append(q, x)[Len(q) + 1] = x
<1>. QED
     BY LenProperties, AppendProperties

\* What CacheConfig() makes of any two sizes.
LEMMA ConfigValid ==
    ASSUME NEW a \in Nat, NEW b \in Nat
    PROVE  {CacheConfig(a, b).cache_size, CacheConfig(a, b).batch_size,
            CacheConfig(a, b).shrink_threshold} \subseteq Nat
<1>. DEFINE size == Min({a, MaxCacheSize})
            asked == Min({b, MaxBatchSize})
            bt == IF asked > size THEN size \div 2 ELSE asked
            thr == IF DefaultShrink >= size THEN size \div 4 ELSE DefaultShrink
<1>1. {MaxCacheSize, MaxBatchSize, DefaultShrink} \subseteq Nat
      BY SizesAssumption
<1>2. size \in Nat /\ asked \in Nat
  <2>0. {a, b, MaxCacheSize, MaxBatchSize} \subseteq Int
        BY <1>1
  <2>1. size \in {a, MaxCacheSize}
        BY <2>0, MinOf
  <2>2. asked \in {b, MaxBatchSize}
        BY <2>0, MinOf
  <2>. QED
       BY <1>1, <2>1, <2>2
<1>3. CacheConfig(a, b) = [cache_size |-> size, batch_size |-> Max({1, bt}),
                           shrink_threshold |-> Max({1, thr})]
      BY DEF CacheConfig
<1>. HIDE DEF size, asked
<1>4. bt \in Nat /\ thr \in Nat
      BY <1>1, <1>2
<1>. HIDE DEF bt, thr
<1>5. Max({1, bt}) \in {1, bt} /\ Max({1, thr}) \in {1, thr}
  <2>1. 1 \in Int /\ bt \in Int /\ thr \in Int
        BY <1>4
  <2>. QED
       BY <2>1, MaxOf
<1>. QED
     BY <1>2, <1>3, <1>4, <1>5

LEMMA LoopInit == Init => LoopInvariant
<1>. SUFFICES ASSUME Init PROVE LoopInvariant
     OBVIOUS
<1>1. SizesValid
  <2>1. PICK r \in Requests : config = CacheConfig(r[1], r[2])
        BY DEF Init
  <2>2. r[1] \in Nat /\ r[2] \in Nat
        BY SizesAssumption
  <2>. QED
       BY <2>1, <2>2, ConfigValid DEF SizesValid
<1>2. Len(<<>>) = 0 /\ <<>> \in Seq(Objects)
      OBVIOUS
<1>. QED
     BY <1>1, <1>2 DEF Init, LoopInvariant, Types, Bounded, Bound, Size, Labels, SizesValid

-----------------------------------------------------------------------------
(* No loop leaves the array of a cache.                                    *)

\* Handing objects to the client changes nothing the loops depend on.
LEMMA ObtainTypes ==
    ASSUME Types, NEW t \in Threads, NEW o \in Objects, Obtain(t, o)
    PROVE  /\ held' \subseteq Objects /\ collected' \in [Threads -> SUBSET Objects]
           /\ pc' \in [Threads -> Labels] /\ pc'[t] \in {"idle", "take"}
           /\ \A u \in Threads \ {t} : pc'[u] = pc[u] /\ collected'[u] = collected[u]
<1>. DEFINE all == collected[t] \cup {o}
<1>1. all \subseteq Objects
      BY DEF Types
<1>2. \/ /\ held' = held \cup all
         /\ collected' = [collected EXCEPT ![t] = {}]
         /\ pc' = [pc EXCEPT ![t] = "idle"]
      \/ /\ collected' = [collected EXCEPT ![t] = all]
         /\ pc' = [pc EXCEPT ![t] = "take"]
         /\ held' = held
      BY DEF Obtain, Goto
<1>. HIDE DEF all
<1>. QED
     BY <1>1, <1>2 DEF Types, Labels

\* A step of one thread leaves what the others have alone.
LEMMA OthersAlone ==
    ASSUME LoopInvariant, NEW t \in Threads, Step(t), NEW u \in Threads \ {t}
    PROVE  /\ cache'[u] = cache[u] /\ pc'[u] = pc[u] /\ todo'[u] = todo[u]
           /\ global_pool_'[u] = global_pool_[u] /\ arg'[u] = arg[u]
           /\ collected'[u] = collected[u] /\ config' = config
<1>. USE DEF LoopInvariant, Types, fixed, callVars, Goto
<1>1. CASE \E count \in 1 .. MaxCount, isBatch \in BOOLEAN : AllocateBegin(t, count, isBatch)
      BY <1>1 DEF AllocateBegin, CallOn
<1>2. CASE TakeCached(t) \/ TakeGlobal(t) \/ RefillEnd(t)
      BY <1>2 DEF TakeCached, TakeGlobal, RefillEnd, Obtain, Pop
<1>3. CASE TakeNothing(t) \/ TakeRest(t) \/ RefillBegin(t) \/ RefillTake(t) \/ Deplete(t)
      BY <1>3 DEF TakeNothing, TakeRest, RefillBegin, RefillTake, Deplete, Push
<1>4. ASSUME NEW o \in held,
             DeallocateCached(t, o) \/ DeallocateGlobal(t, o) \/ DeallocateFull(t, o)
      PROVE  /\ cache'[u] = cache[u] /\ pc'[u] = pc[u] /\ todo'[u] = todo[u]
             /\ global_pool_'[u] = global_pool_[u] /\ arg'[u] = arg[u]
             /\ collected'[u] = collected[u] /\ config' = config
      BY <1>4 DEF DeallocateCached, DeallocateGlobal, DeallocateFull, CallOn, Push
<1>5. CASE GiveBack(t) \/ FlushEnd(t) \/ GiveBackEnd(t)
      BY <1>5 DEF GiveBack, FlushEnd, GiveBackEnd, Push, Pop
<1>6. CASE FlushThreadCache(t) \/ ExitBegin(t) \/ ExitEnd(t) \/ DestroyPool(t)
      BY <1>6 DEF FlushThreadCache, ExitBegin, ExitEnd, DestroyPool, Invalidate
<1>. QED
     BY <1>1, <1>2, <1>3, <1>4, <1>5, <1>6 DEF Step, Allocate, Deallocate, End

LEMMA LoopLocal ==
    ASSUME LoopInvariant, NEW t \in Threads, Step(t)
    PROVE  Types' /\ Bounded(t)' /\ Bound(t)'
<1>. DEFINE Good == Types' /\ Bounded(t)' /\ Bound(t)'
            n == Size(t)
<1>1. /\ Types /\ Bounded(t) /\ Bound(t)
      /\ config.cache_size \in Nat /\ config.batch_size \in Nat
      /\ n = Size(t) /\ n \in Nat /\ todo[t] \in Nat /\ cache[t] \in Seq(Objects)
      BY LenProperties DEF LoopInvariant, Types, SizesValid, Size
<1>2. n > 0 => Top(t) \in Objects
      BY <1>1, PopOf DEF Top, Size
<1>3. ASSUME n > 0, Pop(t)
      PROVE  cache' \in [Threads -> Seq(Objects)] /\ Size(t)' = n - 1
  <2>1. SubSeq(cache[t], 1, n - 1) \in Seq(Objects) /\ Len(SubSeq(cache[t], 1, n - 1)) = n - 1
        BY <1>1, <1>3, PopOf DEF Size
  <2>2. cache' = [cache EXCEPT ![t] = SubSeq(cache[t], 1, n - 1)]
        BY <1>3 DEF Pop
  <2>. QED
       BY <1>1, <2>1, <2>2 DEF Types, Size
<1>4. ASSUME NEW o \in Objects, Push(t, o)
      PROVE  cache' \in [Threads -> Seq(Objects)] /\ Size(t)' = n + 1
  <2>1. Append(cache[t], o) \in Seq(Objects) /\ Len(Append(cache[t], o)) = n + 1
        BY <1>1, PushOf DEF Size
  <2>. QED
       BY <1>1, <1>4, <2>1 DEF Types, Size, Push
<1>5. cache' = cache => Size(t)' = n
      BY DEF Size
<1>. HIDE DEF n
<1>. USE DEF Labels
<1>6. CASE \E count \in 1 .. MaxCount, isBatch \in BOOLEAN : AllocateBegin(t, count, isBatch)
  <2>1. PICK count \in 1 .. MaxCount, isBatch \in BOOLEAN : AllocateBegin(t, count, isBatch)
        BY <1>6
  <2>2. \/ global_pool_' = [global_pool_ EXCEPT ![t] = "pool"]
        \/ config.cache_size = 0 /\ UNCHANGED global_pool_
        BY <2>1 DEF AllocateBegin, CallOn
  <2>3. Types'
        BY <1>1, <1>5, <2>1, <2>2 DEF AllocateBegin, CallOn, Goto, fixed, Types, SizesValid
  <2>4. Bounded(t)'
        BY <1>1, <1>5, <2>1, <2>2 DEF AllocateBegin, CallOn, Goto, fixed, Types, Bounded
  <2>5. Bound(t)'
        BY <1>1, <1>5, <2>1, <2>2 DEF AllocateBegin, CallOn, Goto, fixed, Types, Bound
  <2>. QED
       BY <2>3, <2>4, <2>5
<1>7. CASE TakeCached(t)
  <2>1. /\ n > 0 /\ pc[t] = "take" /\ Pop(t) /\ Obtain(t, Top(t))
        /\ UNCHANGED <<fixed, free, global_pool_, want, batch, todo, arg, lost, ended>>
        BY <1>7 DEF TakeCached, n
  <2>2. /\ held' \subseteq Objects /\ collected' \in [Threads -> SUBSET Objects]
        /\ pc' \in [Threads -> Labels] /\ pc'[t] \in {"idle", "take"}
        BY <1>1, <1>2, <2>1, ObtainTypes
  <2>3. Types'
        BY <1>1, <1>3, <2>1, <2>2 DEF fixed, Types, SizesValid
  <2>4. Bounded(t)'
        BY <1>1, <1>3, <2>1, <2>2 DEF fixed, Types, Bounded
  <2>5. Bound(t)'
        BY <1>1, <1>3, <2>1, <2>2 DEF fixed, Types, Bound
  <2>. QED
       BY <2>3, <2>4, <2>5
<1>8. CASE TakeGlobal(t)
  <2>1. PICK o \in free : free' = free \ {o} /\ Obtain(t, o)
        BY <1>8 DEF TakeGlobal
  <2>2. /\ held' \subseteq Objects /\ collected' \in [Threads -> SUBSET Objects]
        /\ pc' \in [Threads -> Labels] /\ pc'[t] \in {"idle", "take"}
        BY <1>1, <2>1, ObtainTypes DEF Types
  <2>3. Types'
        BY <1>1, <1>5, <1>8, <2>1, <2>2 DEF TakeGlobal, fixed, Types, SizesValid
  <2>4. Bounded(t)'
        BY <1>1, <1>5, <1>8, <2>1, <2>2 DEF TakeGlobal, fixed, Types, Bounded
  <2>5. Bound(t)'
        BY <1>1, <1>5, <1>8, <2>1, <2>2 DEF TakeGlobal, fixed, Types, Bound
  <2>. QED
       BY <2>3, <2>4, <2>5
<1>9. CASE TakeNothing(t)
  <2>1. Types'
        BY <1>1, <1>5, <1>9 DEF TakeNothing, Goto, fixed, callVars, Types, SizesValid
  <2>2. Bounded(t)'
        BY <1>1, <1>5, <1>9 DEF TakeNothing, Goto, fixed, callVars, Types, Bounded
  <2>3. Bound(t)'
        BY <1>1, <1>5, <1>9 DEF TakeNothing, Goto, fixed, callVars, Types, Bound
  <2>. QED
       BY <2>1, <2>2, <2>3
<1>10. CASE TakeRest(t)
  <2>1. PICK S \in SUBSET free : free' = free \ S /\ held' = held \cup collected[t] \cup S
        BY <1>10 DEF TakeRest
  <2>2. held' \subseteq Objects /\ free' \subseteq Objects
        BY <1>1, <2>1 DEF Types
  <2>3. Types'
        BY <1>1, <1>5, <1>10, <2>2 DEF TakeRest, Goto, fixed, Types, SizesValid
  <2>4. Bounded(t)'
        BY <1>1, <1>5, <1>10, <2>2 DEF TakeRest, Goto, fixed, Types, Bounded
  <2>5. Bound(t)'
        BY <1>1, <1>5, <1>10, <2>2 DEF TakeRest, Goto, fixed, Types, Bound
  <2>. QED
       BY <2>3, <2>4, <2>5
<1>11. CASE RefillBegin(t)
  <2>1. /\ n = 0 /\ pc[t] = "take" /\ config.cache_size > 0 /\ pc' = [pc EXCEPT ![t] = "refill"]
        /\ UNCHANGED <<fixed, free, cache, global_pool_, callVars, arg, held, lost, ended>>
        /\ todo' = [todo EXCEPT ![t] = Min({config.batch_size, config.cache_size - n})]
        BY <1>11 DEF RefillBegin, Goto, n
  <2>. DEFINE m == Min({config.batch_size, config.cache_size - n})
  <2>2. m \in Nat /\ m <= config.cache_size
    <3>1. config.batch_size \in Int /\ config.cache_size - n \in Int
          BY <1>1
    <3>2. m \in {config.batch_size, config.cache_size - n} /\ m <= config.cache_size - n
          BY <3>1, MinOf
    <3>. HIDE DEF m
    <3>. QED
         BY <1>1, <2>1, <3>2
  <2>. HIDE DEF m
  <2>. QED
       BY <1>1, <1>5, <2>1, <2>2 DEF m, fixed, callVars, Types, SizesValid, Bounded, Bound
<1>12. CASE RefillTake(t)
  <2>1. PICK o \in free : free' = free \ {o} /\ Push(t, o)
        BY <1>12 DEF RefillTake
  <2>2. o \in Objects
        BY <1>1, <2>1 DEF Types
  <2>3. /\ pc[t] = "refill" /\ todo[t] > 0 /\ todo' = [todo EXCEPT ![t] = todo[t] - 1]
        /\ UNCHANGED <<fixed, global_pool_, pc, callVars, arg, held, lost, ended>>
        BY <1>12 DEF RefillTake, Refills
  <2>4. Types'
        BY <1>1, <1>4, <2>1, <2>2, <2>3 DEF fixed, callVars, Types, SizesValid
  <2>5. Bounded(t)'
        BY <1>1, <1>4, <2>1, <2>2, <2>3 DEF fixed, callVars, Types, Bounded
  <2>6. Bound(t)'
        BY <1>1, <1>4, <2>1, <2>2, <2>3 DEF fixed, callVars, Types, Bounded, Bound
  <2>. QED
       BY <2>4, <2>5, <2>6
<1>13. CASE RefillEnd(t)
  <2>1. /\ n > 0 /\ pc[t] = "refill" /\ Pop(t) /\ Obtain(t, Top(t))
        /\ todo' = [todo EXCEPT ![t] = 0]
        /\ UNCHANGED <<fixed, free, global_pool_, want, batch, arg, lost, ended>>
        BY <1>1, <1>13 DEF RefillEnd
  <2>2. /\ held' \subseteq Objects /\ collected' \in [Threads -> SUBSET Objects]
        /\ pc' \in [Threads -> Labels] /\ pc'[t] \in {"idle", "take"}
        BY <1>1, <1>2, <2>1, ObtainTypes
  <2>3. Types'
        BY <1>1, <1>3, <2>1, <2>2 DEF fixed, Types, SizesValid
  <2>4. Bounded(t)'
        BY <1>1, <1>3, <2>1, <2>2 DEF fixed, Types, Bounded
  <2>5. Bound(t)'
        BY <1>1, <1>3, <2>1, <2>2 DEF fixed, Types, Bounded, Bound
  <2>. QED
       BY <2>3, <2>4, <2>5
<1>14. CASE Deplete(t)
  <2>1. lost' \subseteq Objects /\ collected' \in [Threads -> SUBSET Objects]
        BY <1>1, <1>14 DEF Deplete, Types
  <2>2. /\ pc[t] = "refill" /\ pc' = [pc EXCEPT ![t] = "idle"]
        /\ todo' = [todo EXCEPT ![t] = 0] /\ ended' \in {ended, "terminated"}
        /\ UNCHANGED <<fixed, free, cache, global_pool_, want, batch, arg, held>>
        BY <1>14 DEF Deplete, Depleted, Goto
  <2>3. Types'
        BY <1>1, <1>5, <2>1, <2>2 DEF fixed, Types, SizesValid
  <2>4. Bounded(t)'
        BY <1>1, <1>5, <2>1, <2>2 DEF fixed, Types, Bounded
  <2>5. Bound(t)'
        BY <1>1, <1>5, <2>1, <2>2 DEF fixed, Types, Bounded, Bound
  <2>. QED
       BY <2>3, <2>4, <2>5
<1>15. ASSUME NEW o \in held, DeallocateCached(t, o) PROVE Good
  <2>1. /\ pc[t] = "idle" /\ ended = "no" /\ HasRoom(t) /\ Push(t, o) /\ held' = held \ {o}
        /\ \/ global_pool_' = [global_pool_ EXCEPT ![t] = "pool"]
           \/ config.cache_size = 0 /\ UNCHANGED global_pool_
        /\ UNCHANGED <<fixed, free, callVars, arg, lost, ended>>
        BY <1>15 DEF DeallocateCached, CallOn
  <2>2. o \in Objects /\ n < config.cache_size
        BY <1>1, <2>1 DEF Types, HasRoom
  <2>3. \/ pc' = pc /\ todo' = todo
        \/ /\ pc' = [pc EXCEPT ![t] = "giveBack"]
           /\ \E m \in Nat : m <= n + 1 /\ todo' = [todo EXCEPT ![t] = m]
    <3>. SUFFICES ASSUME n + 1 > config.batch_size, pc' = [pc EXCEPT ![t] = "giveBack"],
                         todo' = [todo EXCEPT ![t] = ShrinkBy(n + 1)]
                  PROVE  \E m \in Nat : m <= n + 1 /\ todo' = [todo EXCEPT ![t] = m]
         BY <1>1, <1>15 DEF DeallocateCached, Goto
    <3>1. ShrinkBy(n + 1) \in Nat /\ ShrinkBy(n + 1) <= n + 1
      <4>. DEFINE half == config.batch_size \div 2
                  diff == ((n + 1) - config.shrink_threshold) % Word
      <4>1. half \in Nat /\ half <= config.batch_size
            BY <1>1
      <4>2. diff \in Nat
        <5>1. (n + 1) - config.shrink_threshold \in Int /\ Word \in Nat /\ Word > 0
              BY <1>1, SizesAssumption DEF Types, SizesValid
        <5>. QED
             BY <5>1
      <4>3. ShrinkBy(n + 1) = Min({half, diff})
            BY DEF ShrinkBy
      <4>. HIDE DEF half, diff
      <4>4. ShrinkBy(n + 1) \in {half, diff} /\ ShrinkBy(n + 1) <= half
        <5>1. half \in Int /\ diff \in Int
              BY <4>1, <4>2
        <5>. QED
             BY <4>3, <5>1, MinOf
      <4>. QED
           BY <1>1, <4>1, <4>2, <4>4
    <3>. QED
         BY <3>1
  <2>4. pc' \in [Threads -> Labels] /\ todo' \in [Threads -> Nat]
    <3>1. CASE pc' = pc /\ todo' = todo
          BY <1>1, <3>1 DEF Types
    <3>2. ASSUME NEW m \in Nat, todo' = [todo EXCEPT ![t] = m],
                 pc' = [pc EXCEPT ![t] = "giveBack"]
          PROVE  pc' \in [Threads -> Labels] /\ todo' \in [Threads -> Nat]
          BY <1>1, <3>2 DEF Types
    <3>. QED
         BY <2>3, <3>1, <3>2
  <2>5. Types'
        BY <1>1, <1>4, <2>1, <2>2, <2>4 DEF fixed, callVars, Types, SizesValid
  <2>6. Bounded(t)'
        BY <1>1, <1>4, <2>1, <2>2, <2>3 DEF fixed, callVars, Types, Bounded
  <2>7. Bound(t)'
        BY <1>1, <1>4, <2>1, <2>2, <2>3 DEF fixed, callVars, Types, Bounded, Bound
  <2>. QED
       BY <2>5, <2>6, <2>7
<1>16. ASSUME NEW o \in held, DeallocateGlobal(t, o) PROVE Good
  <2>1. /\ pc[t] = "idle" /\ ended = "no" /\ config.cache_size = 0
        /\ held' = held \ {o} /\ free' = free \cup {o} /\ o \in Objects
        /\ \/ global_pool_' = [global_pool_ EXCEPT ![t] = "pool"]
           \/ config.cache_size = 0 /\ UNCHANGED global_pool_
        /\ UNCHANGED <<fixed, cache, pc, callVars, todo, arg, lost, ended>>
        BY <1>1, <1>16 DEF DeallocateGlobal, CallOn, Types
  <2>2. Types'
        BY <1>1, <1>5, <2>1 DEF fixed, callVars, Types, SizesValid
  <2>3. Bounded(t)'
        BY <1>1, <1>5, <2>1 DEF fixed, callVars, Types, Bounded
  <2>4. Bound(t)'
        BY <1>1, <1>5, <2>1 DEF fixed, callVars, Types, Bounded, Bound
  <2>. QED
       BY <2>2, <2>3, <2>4
<1>17. ASSUME NEW o \in held, DeallocateFull(t, o) PROVE Good
  <2>1. /\ pc[t] = "idle" /\ ended = "no" /\ config.cache_size > 0
        /\ held' = held \ {o} /\ o \in Objects /\ arg' = [arg EXCEPT ![t] = {o}]
        /\ \/ global_pool_' = [global_pool_ EXCEPT ![t] = "pool"]
           \/ config.cache_size = 0 /\ UNCHANGED global_pool_
        /\ pc' = [pc EXCEPT ![t] = "flush"]
        /\ UNCHANGED <<fixed, free, cache, callVars, lost, ended>>
        /\ todo' = [todo EXCEPT ![t] = Min({config.batch_size, n})]
        BY <1>1, <1>17 DEF DeallocateFull, CallOn, Types, Goto
  <2>. DEFINE m == Min({config.batch_size, n})
  <2>2. m \in Nat /\ m <= n
    <3>1. config.batch_size \in Int /\ n \in Int
          BY <1>1
    <3>2. m \in {config.batch_size, n} /\ m <= n
          BY <3>1, MinOf
    <3>. HIDE DEF m
    <3>. QED
         BY <1>1, <3>2
  <2>3. todo' = [todo EXCEPT ![t] = m]
        BY <2>1
  <2>. HIDE DEF m
  <2>4. /\ pc' \in [Threads -> Labels] /\ todo' \in [Threads -> Nat]
        /\ arg' \in [Threads -> SUBSET Objects]
        BY <1>1, <2>1, <2>2, <2>3 DEF Types
  <2>5. Types'
        BY <1>1, <1>5, <2>1, <2>4 DEF fixed, callVars, Types, SizesValid
  <2>6. Bounded(t)'
        BY <1>1, <1>5, <2>1, <2>2, <2>3 DEF fixed, callVars, Types, Bounded
  <2>7. Bound(t)'
        BY <1>1, <1>5, <2>1, <2>2, <2>3 DEF fixed, callVars, Types, Bounded, Bound
  <2>. QED
       BY <2>5, <2>6, <2>7
<1>18. CASE GiveBack(t)
  <2>1. /\ pc[t] \in {"flush", "giveBack", "exit"} /\ todo[t] > 0 /\ n > 0 /\ Pop(t)
        /\ free' = free \cup {Top(t)} /\ todo' = [todo EXCEPT ![t] = todo[t] - 1]
        /\ UNCHANGED <<fixed, global_pool_, pc, callVars, arg, held, lost, ended>>
        BY <1>1, <1>18 DEF GiveBack, Bounded
  <2>2. Types'
        BY <1>1, <1>2, <1>3, <2>1 DEF fixed, callVars, Types, SizesValid
  <2>3. Bounded(t)'
        BY <1>1, <1>2, <1>3, <2>1 DEF fixed, callVars, Types, Bounded
  <2>4. Bound(t)'
        BY <1>1, <1>2, <1>3, <2>1 DEF fixed, callVars, Types, Bounded, Bound
  <2>. QED
       BY <2>2, <2>3, <2>4
<1>19. CASE FlushEnd(t)
  <2>1. PICK o \in arg[t] : IF HasRoom(t) THEN Push(t, o) /\ UNCHANGED free
                            ELSE free' = free \cup {o} /\ UNCHANGED cache
        BY <1>19 DEF FlushEnd
  <2>2. /\ o \in Objects /\ pc[t] = "flush" /\ pc' = [pc EXCEPT ![t] = "idle"]
        /\ arg' = [arg EXCEPT ![t] = {}]
        /\ UNCHANGED <<fixed, global_pool_, callVars, todo, held, lost, ended>>
        BY <1>1, <1>19 DEF FlushEnd, Goto, Types
  <2>3. /\ cache' \in [Threads -> Seq(Objects)] /\ free' \subseteq Objects
        /\ Size(t)' \in Nat /\ Size(t)' <= config.cache_size
        /\ Size(t)' = n \/ n < config.cache_size
    <3>1. CASE HasRoom(t)
          BY <1>1, <1>4, <2>1, <2>2, <3>1 DEF HasRoom, Types
    <3>2. CASE ~HasRoom(t)
          BY <1>1, <1>5, <2>1, <2>2, <3>2 DEF Bounded, Types
    <3>. QED
         BY <3>1, <3>2
  <2>4. Types'
        BY <1>1, <2>2, <2>3 DEF fixed, callVars, Types, SizesValid
  <2>5. Bounded(t)'
        BY <1>1, <2>2, <2>3 DEF fixed, callVars, Types, Bounded
  <2>6. Bound(t)'
        BY <1>1, <2>2, <2>3 DEF fixed, callVars, Types, Bounded, Bound
  <2>. QED
       BY <2>4, <2>5, <2>6
<1>20. CASE GiveBackEnd(t)
  <2>1. Types'
        BY <1>1, <1>5, <1>20 DEF GiveBackEnd, Goto, fixed, callVars, Types, SizesValid
  <2>2. Bounded(t)'
        BY <1>1, <1>5, <1>20 DEF GiveBackEnd, Goto, fixed, callVars, Types, Bounded
  <2>3. Bound(t)'
        BY <1>1, <1>5, <1>20 DEF GiveBackEnd, Goto, fixed, callVars, Types, Bounded, Bound
  <2>. QED
       BY <2>1, <2>2, <2>3
<1>21. CASE FlushThreadCache(t)
  <2>1. Types'
        BY <1>1, <1>5, <1>21 DEF FlushThreadCache, Goto, fixed, callVars, Types, SizesValid
  <2>2. Bounded(t)'
        BY <1>1, <1>5, <1>21 DEF FlushThreadCache, Goto, fixed, callVars, Types, Bounded
  <2>3. Bound(t)'
        BY <1>1, <1>5, <1>21 DEF FlushThreadCache, Goto, fixed, callVars, Types, Bounded, Bound
  <2>. QED
       BY <2>1, <2>2, <2>3
<1>22. CASE ExitBegin(t)
  <2>1. Types'
        BY <1>1, <1>5, <1>22 DEF ExitBegin, Goto, fixed, callVars, Types, SizesValid
  <2>2. Bounded(t)'
        BY <1>1, <1>5, <1>22 DEF ExitBegin, Goto, fixed, callVars, Types, Bounded
  <2>3. Bound(t)'
        BY <1>1, <1>5, <1>22 DEF ExitBegin, Goto, fixed, callVars, Types, Bounded, Bound
  <2>. QED
       BY <2>1, <2>2, <2>3
<1>23. CASE ExitEnd(t)
  <2>1. Size(t)' = 0 /\ cache' \in [Threads -> Seq(Objects)]
    <3>1. cache' = [cache EXCEPT ![t] = <<>>] /\ <<>> \in Seq(Objects) /\ Len(<<>>) = 0
          BY <1>23 DEF ExitEnd
    <3>. QED
         BY <1>1, <3>1 DEF Size, Types
  <2>2. Types'
        BY <1>1, <1>23, <2>1 DEF ExitEnd, Goto, fixed, callVars, Types, SizesValid
  <2>3. Bounded(t)'
        BY <1>1, <1>23, <2>1 DEF ExitEnd, Goto, fixed, callVars, Types, Bounded
  <2>4. Bound(t)'
        BY <1>1, <1>23, <2>1 DEF ExitEnd, Goto, fixed, callVars, Types, Bounded, Bound
  <2>. QED
       BY <2>2, <2>3, <2>4
<1>24. CASE DestroyPool(t)
  <2>1. Types'
        BY <1>1, <1>5, <1>24 DEF DestroyPool, Invalidate, fixed, callVars, Types, SizesValid
  <2>2. Bounded(t)'
        BY <1>1, <1>5, <1>24 DEF DestroyPool, Invalidate, fixed, callVars, Types, Bounded
  <2>3. Bound(t)'
        BY <1>1, <1>5, <1>24 DEF DestroyPool, Invalidate, fixed, callVars, Types, Bounded, Bound
  <2>. QED
       BY <2>1, <2>2, <2>3
<1>. QED
     BY <1>6, <1>7, <1>8, <1>9, <1>10, <1>11, <1>12, <1>13, <1>14, <1>15, <1>16, <1>17, <1>18,
        <1>19, <1>20, <1>21, <1>22, <1>23, <1>24 DEF Step, Allocate, Deallocate, End

LEMMA LoopStep == LoopInvariant /\ [Next]_vars => LoopInvariant'
<1>. SUFFICES ASSUME LoopInvariant, [Next]_vars PROVE LoopInvariant'
     OBVIOUS
<1>1. CASE UNCHANGED vars
      BY <1>1 DEF vars, LoopInvariant, Types, SizesValid, Bounded, Bound, Size
<1>2. ASSUME NEW t \in Threads, Step(t) PROVE LoopInvariant'
  <2>1. Types' /\ Bounded(t)' /\ Bound(t)'
        BY <1>2, LoopLocal
  <2>2. ASSUME NEW u \in Threads \ {t} PROVE Bounded(u)' /\ Bound(u)'
    <3>1. /\ cache'[u] = cache[u] /\ pc'[u] = pc[u] /\ todo'[u] = todo[u]
          /\ global_pool_'[u] = global_pool_[u] /\ arg'[u] = arg[u] /\ config' = config
          BY <1>2, OthersAlone
    <3>2. Bounded(u) /\ Bound(u)
          BY DEF LoopInvariant
    <3>3. Size(u)' = Size(u)
          BY <3>1 DEF Size
    <3>4. Bounded(u)'
          BY <3>1, <3>2, <3>3 DEF Bounded
    <3>5. \/ (ended = "destroyed") = (ended' = "destroyed")
          \/ ended' = "destroyed" /\ pc[u] = "exited"
      <4>1. CASE DestroyPool(t)
            BY <4>1 DEF DestroyPool
      <4>2. CASE Deplete(t)
        <5>1. pc[t] = "refill" /\ ended' \in {ended, "terminated"}
              BY <4>2 DEF Deplete, Depleted
        <5>2. ended # "destroyed"
              BY <5>1 DEF LoopInvariant, Bound
        <5>. QED
             BY <5>1, <5>2
      <4>3. CASE UNCHANGED ended
            BY <4>3
      <4>. QED
           BY <1>2, <4>1, <4>2, <4>3
           DEF Step, Allocate, Deallocate, End, AllocateBegin, TakeCached, TakeGlobal, TakeNothing,
           TakeRest, RefillBegin, RefillTake, RefillEnd, DeallocateCached, DeallocateGlobal,
           DeallocateFull, GiveBack, FlushEnd, GiveBackEnd, FlushThreadCache, ExitBegin, ExitEnd
    <3>6. Bound(u)'
          BY <3>1, <3>2, <3>3, <3>5 DEF Bound
    <3>. QED
         BY <3>4, <3>6
  <2>. QED
       BY <2>1, <2>2 DEF LoopInvariant
<1>. QED
     BY <1>1, <1>2 DEF Next, Step

LEMMA LoopInvariantHolds == Spec => []LoopInvariant
BY LoopInit, LoopStep, PTL DEF Spec

\* No loop of a cache reads or writes outside its array, however the sizes given to
\* CacheConfig() relate: a refill stops at the end, a flush or a shrink at the beginning.
THEOREM CachesBounded == Spec => []CacheBounded
<1>1. LoopInvariant => CacheBounded
      BY DEF LoopInvariant, Bounded, CacheBounded
<1>. QED
     BY <1>1, LoopInvariantHolds, PTL

\* A thread that exits has given all it had cached back to the list, and no cache
\* refers to a pool that was destroyed.
THEOREM NothingStaysCached == Spec => []ExitReturnsAll
<1>1. LoopInvariant => ExitReturnsAll
      BY DEF LoopInvariant, Bound, ExitReturnsAll
<1>. QED
     BY <1>1, LoopInvariantHolds, PTL

-----------------------------------------------------------------------------
(* Every object is in one place.                                           *)

Cached(t) == {cache[t][k] : k \in 1 .. Size(t)}
Distinct(t) == \A i, j \in 1 .. Size(t) : cache[t][i] = cache[t][j] => i = j

Own(t) == Cached(t) \cup collected[t] \cup arg[t]
Shared == free \cup held \cup lost

Apart == free \cap held = {} /\ free \cap lost = {} /\ held \cap lost = {}

\* What a thread has, and what the threads share.
Split(t) ==
    /\ Apart
    /\ Distinct(t)
    /\ Own(t) \cap Shared = {}
    /\ Cached(t) \cap collected[t] = {} /\ Cached(t) \cap arg[t] = {}
    /\ collected[t] \cap arg[t] = {}

Divided ==
    /\ Apart
    /\ \A t \in Threads : Split(t)
    /\ \A t, u \in Threads : t # u => Own(t) \cap Own(u) = {}
    /\ \A o \in Objects : o \in Shared \/ \E t \in Threads : o \in Own(t)

OwnerInvariant == LoopInvariant /\ (ended # "destroyed" => Divided)

LEMMA PopMoves ==
    ASSUME Types, NEW t \in Threads, Size(t) > 0, Distinct(t), Pop(t)
    PROVE  /\ Top(t) \in Cached(t) /\ Cached(t)' = Cached(t) \ {Top(t)} /\ Distinct(t)'
<1>. DEFINE n == Size(t)
            q == cache[t]
            r == SubSeq(q, 1, n - 1)
<1>1. /\ n \in Nat \ {0} /\ Len(r) = n - 1 /\ \A k \in 1 .. n - 1 : r[k] = q[k]
  <2>1. q \in Seq(Objects) /\ Len(q) > 0
        BY DEF Types, Size
  <2>. QED
       BY <2>1, PopOf DEF Size
<1>2. cache'[t] = r
      BY DEF Pop, Types
<1>3. /\ Cached(t) = {q[k] : k \in 1 .. n} /\ Top(t) = q[n]
      /\ Cached(t)' = {r[k] : k \in 1 .. n - 1}
      /\ Size(t)' = n - 1
      BY <1>1, <1>2 DEF Cached, Size, Top
<1>4. \A i, j \in 1 .. n : q[i] = q[j] => i = j
      BY DEF Distinct
<1>. HIDE DEF n, q, r
<1>5. Distinct(t)'
  <2>1. ASSUME NEW i \in 1 .. n - 1, NEW j \in 1 .. n - 1, r[i] = r[j] PROVE i = j
    <3>1. i \in 1 .. n /\ j \in 1 .. n /\ r[i] = q[i] /\ r[j] = q[j]
          BY <1>1
    <3>. QED
         BY <1>4, <2>1, <3>1
  <2>. QED
       BY <1>2, <1>3, <2>1 DEF Distinct
<1>6. {r[k] : k \in 1 .. n - 1} = {q[k] : k \in 1 .. n} \ {q[n]}
  <2>1. ASSUME NEW k \in 1 .. n - 1 PROVE r[k] \in {q[j] : j \in 1 .. n} \ {q[n]}
    <3>1. k \in 1 .. n /\ n \in 1 .. n /\ k # n /\ r[k] = q[k]
          BY <1>1
    <3>. QED
         BY <1>4, <3>1
  <2>2. ASSUME NEW k \in 1 .. n, q[k] # q[n] PROVE q[k] \in {r[j] : j \in 1 .. n - 1}
    <3>1. k \in 1 .. n - 1 /\ r[k] = q[k]
          BY <1>1, <2>2
    <3>. QED
         BY <3>1
  <2>. QED
       BY <2>1, <2>2
<1>7. q[n] \in {q[k] : k \in 1 .. n}
      BY <1>1
<1>. QED
     BY <1>3, <1>5, <1>6, <1>7

LEMMA PushMoves ==
    ASSUME Types, NEW t \in Threads, NEW o \in Objects, o \notin Cached(t), Distinct(t), Push(t, o)
    PROVE  Cached(t)' = Cached(t) \cup {o} /\ Distinct(t)'
<1>. DEFINE n == Size(t)
            q == cache[t]
            r == Append(q, o)
<1>1. /\ n \in Nat /\ Len(r) = n + 1 /\ (\A k \in 1 .. n : r[k] = q[k]) /\ r[n + 1] = o
  <2>1. q \in Seq(Objects)
        BY DEF Types
  <2>. QED
       BY <2>1, PushOf DEF Size
<1>2. cache'[t] = r
      BY DEF Push, Types
<1>3. /\ Cached(t) = {q[k] : k \in 1 .. n}
      /\ Cached(t)' = {r[k] : k \in 1 .. n + 1}
      /\ Size(t)' = n + 1
      BY <1>1, <1>2 DEF Cached, Size
<1>4. (\A i, j \in 1 .. n : q[i] = q[j] => i = j) /\ \A i \in 1 .. n : q[i] # o
      BY <1>3 DEF Distinct
<1>. HIDE DEF n, q, r
<1>5. \A k \in 1 .. n + 1 : (k \in 1 .. n /\ r[k] = q[k]) \/ (k = n + 1 /\ r[k] = o)
  <2>1. \A k \in 1 .. n + 1 : k \in 1 .. n \/ k = n + 1
        BY <1>1
  <2>. QED
       BY <1>1, <2>1
<1>6. Distinct(t)'
  <2>1. ASSUME NEW i \in 1 .. n + 1, NEW j \in 1 .. n + 1, r[i] = r[j] PROVE i = j
        BY <1>4, <1>5, <2>1
  <2>. QED
       BY <1>2, <1>3, <2>1 DEF Distinct
<1>7. {r[k] : k \in 1 .. n + 1} = {q[k] : k \in 1 .. n} \cup {o}
  <2>1. ASSUME NEW k \in 1 .. n PROVE q[k] \in {r[j] : j \in 1 .. n + 1}
    <3>1. k \in 1 .. n + 1 /\ r[k] = q[k]
          BY <1>1
    <3>. QED
         BY <3>1
  <2>2. o \in {r[j] : j \in 1 .. n + 1}
        BY <1>1
  <2>3. ASSUME NEW k \in 1 .. n + 1 PROVE r[k] \in {q[j] : j \in 1 .. n} \cup {o}
        BY <1>5
  <2>. QED
       BY <2>1, <2>2, <2>3
<1>. QED
     BY <1>3, <1>6, <1>7

LEMMA ObtainMoves ==
    ASSUME Types, NEW t \in Threads, NEW o, Obtain(t, o)
    PROVE  \/ held' = held \cup collected[t] \cup {o} /\ collected'[t] = {}
           \/ held' = held /\ collected'[t] = collected[t] \cup {o}
BY DEF Types, Obtain

LEMMA Unmoved ==
    ASSUME NEW t, cache'[t] = cache[t]
    PROVE  Cached(t)' = Cached(t) /\ (Distinct(t) => Distinct(t)')
BY DEF Cached, Distinct, Size

LEMMA StepDivides ==
    ASSUME LoopInvariant, ended # "destroyed", NEW t \in Threads, Split(t), Step(t)
    PROVE  Split(t)' /\ Own(t)' \cup Shared' = Own(t) \cup Shared
<1>. DEFINE Good == Split(t)' /\ Own(t)' \cup Shared' = Own(t) \cup Shared
<1>. USE DEF Split, Own, Shared, Apart
<1>0. /\ Types /\ Bound(t) /\ Bounded(t) /\ Distinct(t)
      /\ Size(t) \in Nat /\ (Size(t) = 0 => Cached(t) = {}) /\ Cached(t) \subseteq Objects
  <2>1. cache[t] \in Seq(Objects) /\ Types /\ Bound(t) /\ Bounded(t)
        BY DEF LoopInvariant, Types
  <2>2. Size(t) \in Nat /\ \A k \in 1 .. Size(t) : cache[t][k] \in Objects
        BY <2>1, LenProperties DEF Size
  <2>. QED
       BY <2>1, <2>2 DEF Cached
<1>1. ASSUME UNCHANGED <<free, held, lost, cache, collected, arg>> PROVE Good
      BY <1>1, Unmoved
<1>2. CASE \E count \in 1 .. MaxCount, isBatch \in BOOLEAN : AllocateBegin(t, count, isBatch)
      BY <1>1, <1>2 DEF AllocateBegin
<1>3. CASE TakeCached(t) \/ RefillEnd(t)
  <2>1. /\ Size(t) > 0 /\ Pop(t) /\ Obtain(t, Top(t)) /\ UNCHANGED <<free, arg, lost>>
        BY <1>0, <1>3 DEF TakeCached, RefillEnd
  <2>2. Top(t) \in Cached(t) /\ Cached(t)' = Cached(t) \ {Top(t)} /\ Distinct(t)'
        BY <1>0, <2>1, PopMoves
  <2>3. \/ held' = held \cup collected[t] \cup {Top(t)} /\ collected'[t] = {}
        \/ held' = held /\ collected'[t] = collected[t] \cup {Top(t)}
        BY <1>0, <2>1, ObtainMoves
  <2>. QED
       BY <2>1, <2>2, <2>3
<1>4. CASE TakeGlobal(t)
  <2>1. PICK o \in free : free' = free \ {o} /\ Obtain(t, o)
        BY <1>4 DEF TakeGlobal
  <2>2. Cached(t)' = Cached(t) /\ Distinct(t)' /\ UNCHANGED <<arg, lost>>
        BY <1>0, <1>4, Unmoved DEF TakeGlobal
  <2>3. \/ held' = held \cup collected[t] \cup {o} /\ collected'[t] = {}
        \/ held' = held /\ collected'[t] = collected[t] \cup {o}
        BY <1>0, <2>1, ObtainMoves
  <2>. QED
       BY <2>1, <2>2, <2>3
<1>5. CASE TakeNothing(t) \/ RefillBegin(t)
      BY <1>1, <1>5 DEF TakeNothing, RefillBegin, callVars
<1>6. CASE TakeRest(t)
  <2>1. PICK S \in SUBSET free : free' = free \ S /\ held' = held \cup collected[t] \cup S
        BY <1>6 DEF TakeRest
  <2>2. /\ Cached(t)' = Cached(t) /\ Distinct(t)' /\ UNCHANGED <<arg, lost>>
        /\ collected'[t] = {}
        BY <1>0, <1>6, Unmoved DEF TakeRest, Types
  <2>. QED
       BY <2>1, <2>2
<1>7. CASE RefillTake(t)
  <2>1. PICK o \in free : free' = free \ {o} /\ Push(t, o)
        BY <1>7 DEF RefillTake
  <2>2. o \in Objects /\ o \notin Cached(t)
        BY <1>0, <2>1 DEF Types
  <2>3. Cached(t)' = Cached(t) \cup {o} /\ Distinct(t)'
        BY <1>0, <2>1, <2>2, PushMoves
  <2>4. UNCHANGED <<collected, arg, held, lost>>
        BY <1>7 DEF RefillTake, callVars
  <2>. QED
       BY <2>1, <2>3, <2>4
<1>8. CASE Deplete(t)
  <2>1. CASE policy = "THROW_EXCEPTION"
    <3>1. /\ Cached(t)' = Cached(t) /\ Distinct(t)' /\ UNCHANGED <<free, arg, held>>
          /\ lost' = lost \cup collected[t] /\ collected'[t] = {}
          BY <1>0, <1>8, <2>1, Unmoved DEF Deplete, Types
    <3>. QED
         BY <3>1
  <2>2. CASE policy # "THROW_EXCEPTION"
        BY <1>1, <1>8, <2>2 DEF Deplete
  <2>. QED
       BY <2>1, <2>2
<1>9. ASSUME NEW o \in held, DeallocateCached(t, o) PROVE Good
  <2>1. held' = held \ {o} /\ Push(t, o) /\ UNCHANGED <<free, collected, arg, lost>>
        BY <1>9 DEF DeallocateCached, callVars
  <2>2. o \in Objects /\ o \notin Cached(t)
        BY <1>0 DEF Types
  <2>3. Cached(t)' = Cached(t) \cup {o} /\ Distinct(t)'
        BY <1>0, <2>1, <2>2, PushMoves
  <2>. QED
       BY <2>1, <2>3
<1>10. ASSUME NEW o \in held, DeallocateGlobal(t, o) PROVE Good
  <2>1. /\ held' = held \ {o} /\ free' = free \cup {o} /\ UNCHANGED <<collected, arg, lost>>
        /\ Cached(t)' = Cached(t) /\ Distinct(t)'
        BY <1>0, <1>10, Unmoved DEF DeallocateGlobal, callVars
  <2>. QED
       BY <2>1
<1>11. ASSUME NEW o \in held, DeallocateFull(t, o) PROVE Good
  <2>1. /\ held' = held \ {o} /\ arg'[t] = {o} /\ UNCHANGED <<free, collected, lost>>
        /\ Cached(t)' = Cached(t) /\ Distinct(t)' /\ pc[t] = "idle"
        BY <1>0, <1>11, Unmoved DEF DeallocateFull, callVars, CallOn, Types
  <2>2. arg[t] = {}
        BY <1>0, <2>1 DEF Bound
  <2>. QED
       BY <2>1, <2>2
<1>12. CASE GiveBack(t)
  <2>1. /\ Size(t) > 0 /\ Pop(t) /\ free' = free \cup {Top(t)}
        /\ UNCHANGED <<collected, arg, held, lost>>
        BY <1>0, <1>12 DEF GiveBack, Bounded, callVars, Types
  <2>2. Top(t) \in Cached(t) /\ Cached(t)' = Cached(t) \ {Top(t)} /\ Distinct(t)'
        BY <1>0, <2>1, PopMoves
  <2>. QED
       BY <2>1, <2>2
<1>13. CASE FlushEnd(t)
  <2>1. PICK o \in arg[t] : IF HasRoom(t) THEN Push(t, o) /\ UNCHANGED free
                            ELSE free' = free \cup {o} /\ UNCHANGED cache
        BY <1>13 DEF FlushEnd
  <2>2. /\ arg[t] = {o} /\ arg'[t] = {} /\ o \in Objects /\ o \notin Cached(t)
        /\ UNCHANGED <<collected, held, lost>>
        BY <1>0, <1>13, <2>1 DEF FlushEnd, Bound, callVars, Types
  <2>3. CASE HasRoom(t)
    <3>1. Cached(t)' = Cached(t) \cup {o} /\ Distinct(t)' /\ free' = free
          BY <1>0, <2>1, <2>2, <2>3, PushMoves
    <3>. QED
         BY <2>2, <3>1
  <2>4. CASE ~HasRoom(t)
    <3>1. Cached(t)' = Cached(t) /\ Distinct(t)' /\ free' = free \cup {o}
          BY <1>0, <2>1, <2>4, Unmoved
    <3>. QED
         BY <2>2, <3>1
  <2>. QED
       BY <2>3, <2>4
<1>14. CASE GiveBackEnd(t) \/ FlushThreadCache(t) \/ ExitBegin(t) \/ DestroyPool(t)
       BY <1>1, <1>14 DEF GiveBackEnd, FlushThreadCache, ExitBegin, DestroyPool, callVars
<1>15. CASE ExitEnd(t)
  <2>1. Size(t) = 0 /\ cache' = [cache EXCEPT ![t] = <<>>]
        BY <1>0, <1>15 DEF ExitEnd, Bound
  <2>2. Cached(t) = {} /\ Cached(t)' = {} /\ Distinct(t)'
    <3>1. cache'[t] = <<>> /\ Len(<<>>) = 0
          BY <1>0, <2>1 DEF Types
    <3>2. Size(t)' = 0
          BY <3>1 DEF Size
    <3>. QED
         BY <1>0, <2>1, <3>2 DEF Cached, Distinct
  <2>. QED
       BY <1>15, <2>2 DEF ExitEnd, callVars
<1>. QED
     BY <1>2, <1>3, <1>4, <1>5, <1>6, <1>7, <1>8, <1>9, <1>10, <1>11, <1>12, <1>13, <1>14, <1>15
     DEF Step, Allocate, Deallocate, End

LEMMA OwnersInit == Init => OwnerInvariant
<1>. SUFFICES ASSUME Init PROVE OwnerInvariant
     OBVIOUS
<1>1. ASSUME NEW t \in Threads PROVE Split(t) /\ Own(t) = {}
  <2>1. Size(t) = 0 /\ collected[t] = {} /\ arg[t] = {}
        BY DEF Init, Size
  <2>2. Cached(t) = {} /\ Distinct(t)
        BY <2>1 DEF Cached, Distinct
  <2>. QED
       BY <2>1, <2>2 DEF Init, Split, Own, Shared, Apart
<1>2. Apart /\ Objects \subseteq Shared
      BY DEF Init, Apart, Shared
<1>. QED
     BY <1>1, <1>2, LoopInit DEF OwnerInvariant, Divided

LEMMA OwnersStep == OwnerInvariant /\ [Next]_vars => OwnerInvariant'
<1>. SUFFICES ASSUME OwnerInvariant, [Next]_vars, ended' # "destroyed" PROVE Divided'
     BY LoopStep DEF OwnerInvariant
<1>1. CASE UNCHANGED vars
  <2>1. Divided
        BY <1>1 DEF OwnerInvariant, vars
  <2>2. \A t : Cached(t)' = Cached(t) /\ Distinct(t)' = Distinct(t)
        BY <1>1 DEF vars, Cached, Distinct, Size
  <2>. QED
       BY <1>1, <2>1, <2>2 DEF vars, Divided, Split, Own, Shared, Apart
<1>2. ASSUME NEW t \in Threads, Step(t) PROVE Divided'
  <2>1. ended # "destroyed"
    <3>1. pc[t] = "refill" => ended # "destroyed"
          BY DEF OwnerInvariant, LoopInvariant, Bound
    <3>. QED
         BY <1>2, <3>1
         DEF Step, Allocate, Deallocate, End, AllocateBegin, TakeCached, TakeGlobal, TakeNothing,
         TakeRest, RefillBegin, RefillTake, RefillEnd, Deplete, Depleted, DeallocateCached,
         DeallocateGlobal, DeallocateFull, GiveBack, FlushEnd, GiveBackEnd, FlushThreadCache,
         ExitBegin, ExitEnd, DestroyPool
  <2>2. LoopInvariant /\ Divided
        BY <2>1 DEF OwnerInvariant
  <2>3. Split(t)' /\ Own(t)' \cup Shared' = Own(t) \cup Shared
        BY <1>2, <2>1, <2>2, StepDivides DEF Divided
  <2>4. ASSUME NEW u \in Threads \ {t}
        PROVE  Split(u)' /\ Own(u)' = Own(u) /\ Own(u)' \cap Own(t)' = {}
    <3>1. cache'[u] = cache[u] /\ arg'[u] = arg[u] /\ collected'[u] = collected[u]
          BY <1>2, <2>2, OthersAlone
    <3>2. Cached(u)' = Cached(u) /\ (Distinct(u) => Distinct(u)') /\ Own(u)' = Own(u)
          BY <3>1, Unmoved DEF Own
    <3>3. Split(u) /\ Own(u) \cap Own(t) = {} /\ Own(u) \cap Shared = {}
          BY <2>2 DEF Divided, Split
    <3>4. Own(u) \cap (Own(t)' \cup Shared') = {}
          BY <2>3, <3>3
    <3>. QED
         BY <2>3, <3>1, <3>2, <3>3, <3>4 DEF Split
  <2>5. ASSUME NEW u \in Threads, NEW v \in Threads, u # v PROVE Own(u)' \cap Own(v)' = {}
    <3>1. Own(u) \cap Own(v) = {}
          BY <2>2, <2>5 DEF Divided
    <3>. QED
         BY <2>4, <2>5, <3>1
  <2>6. ASSUME NEW o \in Objects PROVE o \in Shared' \/ \E u \in Threads : o \in Own(u)'
    <3>1. o \in Shared \/ \E u \in Threads : o \in Own(u)
          BY <2>2 DEF Divided
    <3>. QED
         BY <2>3, <2>4, <3>1
  <2>7. \A u \in Threads : Split(u)'
        BY <2>3, <2>4
  <2>. QED
       BY <2>3, <2>5, <2>6, <2>7 DEF Divided, Split
<1>. QED
     BY <1>1, <1>2 DEF Next, Step

LEMMA OwnerInvariantHolds == Spec => []OwnerInvariant
BY OwnersInit, OwnersStep, PTL DEF Spec

\* A set with one member, or with none, given by what its members are.
LEMMA CountOf ==
    ASSUME NEW S, NEW x, S \subseteq {x}
    PROVE  Cardinality(S) = IF x \in S THEN 1 ELSE 0
<1>1. S = {x} \/ S = {}
      OBVIOUS
<1>2. x \in S <=> S = {x}
      OBVIOUS
<1>. QED
     BY <1>1, <1>2, FS_EmptySet, FS_Singleton

LEMMA OneOwnerEach ==
    ASSUME LoopInvariant, Divided, NEW o \in Objects
    PROVE  Owners(o) = 1
<1>. DEFINE places == {place \in {<<1, free>>, <<2, held>>, <<3, lost>>} : o \in place[2]}
            collectors == {t \in Threads : o \in collected[t]}
            givers == {t \in Threads : o \in arg[t]}
            slots == {place \in Threads \X (1 .. config.cache_size) :
                         place[2] <= Size(place[1]) /\ cache[place[1]][place[2]] = o}
<1>0. Cardinality({}) = 0
      BY FS_EmptySet
<1>1. Owners(o) = Cardinality(places) + Cardinality(collectors)
                  + Cardinality(givers) + Cardinality(slots)
      BY DEF Owners
<1>2. \A t \in Threads :
          /\ Own(t) \cap Shared = {} /\ Distinct(t)
          /\ Cached(t) \cap collected[t] = {} /\ Cached(t) \cap arg[t] = {}
          /\ collected[t] \cap arg[t] = {}
      BY DEF Divided, Split
<1>3. \A t, u \in Threads : o \in Own(t) /\ o \in Own(u) => t = u
      BY DEF Divided
<1>4. /\ \A t \in Threads : t \in collectors <=> o \in collected[t]
      /\ \A t \in Threads : t \in givers <=> o \in arg[t]
      OBVIOUS
<1>5. \A place \in slots : place[1] \in Threads /\ o \in Cached(place[1])
  <2>1. \A place \in slots : /\ place[1] \in Threads /\ place[2] \in 1 .. Size(place[1])
                             /\ cache[place[1]][place[2]] = o
        BY LenProperties DEF LoopInvariant, Types, Size
  <2>. QED
       BY <2>1 DEF Cached
<1>6. CASE o \in Shared
  <2>1. \A t \in Threads : o \notin Own(t)
        BY <1>2, <1>6
  <2>2. collectors = {} /\ givers = {} /\ slots = {}
        BY <1>5, <2>1 DEF Own
  <2>3. Cardinality(places) = 1
    <3>. DEFINE p == IF o \in free THEN <<1, free>>
                     ELSE IF o \in held THEN <<2, held>> ELSE <<3, lost>>
    <3>1. places = {p}
          BY <1>6 DEF Shared, Divided, Apart
    <3>. QED
         BY <3>1, FS_Singleton
  <2>. HIDE DEF places, collectors, givers, slots
  <2>. QED
       BY <1>0, <1>1, <2>2, <2>3
<1>7. CASE o \notin Shared
  <2>1. PICK t \in Threads : o \in Own(t)
        BY <1>7 DEF Divided
  <2>2. places = {}
        BY <1>7 DEF Shared
  <2>3. collectors \subseteq {t} /\ givers \subseteq {t}
        BY <1>3, <2>1 DEF Own
  <2>4. /\ Cardinality(collectors) = IF o \in collected[t] THEN 1 ELSE 0
        /\ Cardinality(givers) = IF o \in arg[t] THEN 1 ELSE 0
    <3>1. (t \in collectors <=> o \in collected[t]) /\ (t \in givers <=> o \in arg[t])
          BY <1>4
    <3>. HIDE DEF collectors, givers
    <3>. QED
         BY <2>3, <3>1, CountOf
  <2>5. CASE o \in Cached(t)
    <3>1. PICK k \in 1 .. Size(t) : cache[t][k] = o
          BY <2>5 DEF Cached
    <3>2. /\ Size(t) \in Nat /\ Size(t) <= config.cache_size /\ config.cache_size \in Nat
          BY LenProperties DEF LoopInvariant, Types, SizesValid, Bounded, Size
    <3>3. <<t, k>> \in slots
          BY <3>1, <3>2
    <3>4. slots \subseteq {<<t, k>>}
      <4>1. ASSUME NEW place \in slots PROVE place = <<t, k>>
        <5>1. place[1] = t
              BY <1>3, <1>5, <2>1 DEF Own
        <5>2. place[2] \in 1 .. Size(t) /\ cache[t][place[2]] = o
              BY <3>2, <5>1
        <5>3. place[2] = k
              BY <1>2, <3>1, <5>2 DEF Distinct
        <5>. QED
             BY <5>1, <5>3
      <4>. QED
           BY <4>1
    <3>5. Cardinality(slots) = 1
      <4>. HIDE DEF slots
      <4>. QED
           BY <3>3, <3>4, CountOf
    <3>6. o \notin collected[t] /\ o \notin arg[t]
          BY <1>2, <2>5
    <3>. HIDE DEF places, collectors, givers, slots
    <3>. QED
         BY <1>0, <1>1, <2>2, <2>4, <3>5, <3>6
  <2>6. CASE o \notin Cached(t)
    <3>1. slots = {}
      <4>1. \A place \in slots : FALSE
            BY <1>3, <1>5, <2>1, <2>6 DEF Own
      <4>. QED
           BY <4>1
    <3>2. \/ o \in collected[t] /\ o \notin arg[t]
          \/ o \notin collected[t] /\ o \in arg[t]
          BY <1>2, <2>1, <2>6 DEF Own
    <3>. HIDE DEF places, collectors, givers, slots
    <3>. QED
         BY <1>0, <1>1, <2>2, <2>4, <3>1, <3>2
  <2>. QED
       BY <2>5, <2>6
<1>. QED
     BY <1>6, <1>7

\* As long as the pool exists, every object is in one place: free, a client's, lost
\* by a batch that threw, in a call, or in one cache, once.  No flush, shrink, refill
\* or exit, nor an exception in the middle of a batch, loses one or gives it to two.
THEOREM EveryObjectHasOneOwner == Spec => []OneOwner
<1>1. OwnerInvariant => OneOwner
      BY OneOwnerEach DEF OwnerInvariant, OneOwner
<1>. QED
     BY <1>1, OwnerInvariantHolds, PTL

LEMMA CountTo == ASSUME NEW n \in Nat PROVE IsFiniteSet(1 .. n) /\ Cardinality(1 .. n) = n
<1>1. 1 \in Int /\ n \in Int /\ (1 > n => n = 0)
      OBVIOUS
<1>. QED
     BY <1>1, FS_Interval

\* The caches of the others hold at most what fits into them.
LEMMA CachesHold ==
    ASSUME LoopInvariant, NEW t \in Threads
    PROVE  LET cached == UNION {Cached(u) : u \in Threads \ {t}}
           IN  IsFiniteSet(cached)
               /\ Cardinality(cached) <= (Cardinality(Threads) - 1) * config.cache_size
<1>. DEFINE cached == UNION {Cached(u) : u \in Threads \ {t}}
            places == (Threads \ {t}) \X (1 .. config.cache_size)
            used == {p \in places : p[2] <= Size(p[1])}
            f == [p \in used |-> cache[p[1]][p[2]]]
<1>1. config.cache_size \in Nat /\ \A u \in Threads : Size(u) \in Nat /\ Size(u) <= config.cache_size
      BY LenProperties DEF LoopInvariant, Types, SizesValid, Bounded, Size
<1>2. IsFiniteSet(Threads \ {t}) /\ Cardinality(Threads \ {t}) = Cardinality(Threads) - 1
      BY SharesAssumption, FS_RemoveElement
<1>3. /\ IsFiniteSet(1 .. config.cache_size)
      /\ Cardinality(1 .. config.cache_size) = config.cache_size
      BY <1>1, CountTo
<1>4. IsFiniteSet(places) /\ Cardinality(places) = (Cardinality(Threads) - 1) * config.cache_size
  <2>. DEFINE A == Threads \ {t}
              B == 1 .. config.cache_size
  <2>1. IsFiniteSet(A) /\ IsFiniteSet(B)
        BY <1>2, <1>3
  <2>. HIDE DEF A, B
  <2>2. IsFiniteSet(A \X B) /\ Cardinality(A \X B) = Cardinality(A) * Cardinality(B)
        BY <2>1, FS_Product
  <2>. QED
       BY <1>2, <1>3, <2>2 DEF A, B
<1>5. IsFiniteSet(used) /\ Cardinality(used) <= Cardinality(places)
  <2>1. used \subseteq places
        OBVIOUS
  <2>. HIDE DEF used, places
  <2>. QED
       BY <1>4, <2>1, FS_Subset
<1>6. f \in Surjection(used, cached)
  <2>1. ASSUME NEW p \in used PROVE f[p] \in cached
    <3>1. p[1] \in Threads \ {t} /\ p[2] \in 1 .. Size(p[1])
          BY <1>1
    <3>. QED
         BY <3>1 DEF Cached
  <2>2. ASSUME NEW o \in cached PROVE \E p \in used : f[p] = o
    <3>0. PICK u \in Threads \ {t} : o \in Cached(u)
          OBVIOUS
    <3>1. PICK k \in 1 .. Size(u) : o = cache[u][k]
          BY <3>0 DEF Cached
    <3>2. <<u, k>> \in used
          BY <1>1, <3>1
    <3>. QED
         BY <3>1, <3>2
  <2>. HIDE DEF used, cached
  <2>3. f \in [used -> cached]
        BY <2>1
  <2>. QED
       BY <2>2, <2>3 DEF Surjection
<1>7. IsFiniteSet(cached) /\ Cardinality(cached) <= Cardinality(used)
  <2>. HIDE DEF used, cached, f
  <2>. QED
       BY <1>5, <1>6, FS_Surjection
<1>. QED
  <2>1. /\ Cardinality(used) \in Nat /\ Cardinality(places) \in Nat /\ Cardinality(cached) \in Nat
        BY <1>4, <1>5, <1>7, FS_CardinalityType
  <2>. HIDE DEF used, places, cached
  <2>2. Cardinality(cached) <= Cardinality(places)
        BY <1>5, <1>7, <2>1
  <2>. QED
       BY <1>4, <1>7, <2>2 DEF cached

\* A call is told that the pool is depleted only when the clients, the calls under way
\* and failed batches have all objects but those the caches of the others can hold:
\* nothing else in the allocator can starve a thread.
THEOREM DepletionOnlyByOthers == Spec => []DepletionJustified
<1>1. OwnerInvariant => DepletionJustified
  <2>. SUFFICES ASSUME OwnerInvariant, NEW t \in Threads, Depleted(t)
                PROVE  Cardinality(held \cup lost
                                   \cup UNION {collected[u] \cup arg[u] : u \in Threads})
                          >= Cardinality(Objects) - (Cardinality(Threads) - 1) * config.cache_size
       BY DEF DepletionJustified
  <2>. DEFINE cached == UNION {Cached(u) : u \in Threads \ {t}}
              others == held \cup lost \cup UNION {collected[u] \cup arg[u] : u \in Threads}
              m == (Cardinality(Threads) - 1) * config.cache_size
  <2>1. LoopInvariant /\ Divided /\ pc[t] = "refill" /\ free = {} /\ Size(t) = 0
        BY DEF OwnerInvariant, LoopInvariant, Bound, Depleted
  <2>2. Objects = cached \cup others
    <3>1. Cached(t) = {}
          BY <2>1 DEF Cached
    <3>2. \A o \in Objects : o \in cached \cup others
          BY <2>1, <3>1 DEF Divided, Shared, Own
    <3>3. \A u \in Threads : Cached(u) \subseteq Objects
          BY <2>1, LenProperties DEF LoopInvariant, Types, Cached, Size
    <3>4. others \subseteq Objects
          BY <2>1 DEF LoopInvariant, Types
    <3>. QED
         BY <3>2, <3>3, <3>4
  <2>3. IsFiniteSet(cached) /\ Cardinality(cached) <= m
        BY <2>1, CachesHold
  <2>4. IsFiniteSet(others)
        BY <2>2, SharesAssumption, FS_Subset
  <2>5. m \in Int
        BY <2>1, SharesAssumption, FS_CardinalityType DEF LoopInvariant, Types, SizesValid
  <2>. HIDE DEF cached, others, m
  <2>6. Cardinality(Objects) <= Cardinality(cached) + Cardinality(others)
    <3>1. /\ Cardinality(cached \cup others)
                = Cardinality(cached) + Cardinality(others) - Cardinality(cached \cap others)
          /\ IsFiniteSet(cached \cap others)
          BY <2>3, <2>4, FS_Union, FS_Intersection
    <3>2. /\ Cardinality(cached) \in Nat /\ Cardinality(others) \in Nat
          /\ Cardinality(cached \cap others) \in Nat
          BY <2>3, <2>4, <3>1, FS_CardinalityType
    <3>. QED
         BY <2>2, <3>1, <3>2
  <2>7. Cardinality(cached) \in Nat /\ Cardinality(others) \in Nat /\ Cardinality(Objects) \in Nat
        BY <2>3, <2>4, SharesAssumption, FS_CardinalityType
  <2>8. Cardinality(others) >= Cardinality(Objects) - m
        BY <2>3, <2>5, <2>6, <2>7
  <2>. QED
       BY <2>8 DEF others, m
<1>. QED
     BY <1>1, OwnerInvariantHolds, PTL
=============================================================================
