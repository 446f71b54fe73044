---------------------------- MODULE ThreadCache ----------------------------
(***************************************************************************)
(* The thread-local caches of MemoryPool (src/core/memory_pool.hpp): each  *)
(* thread keeps a stack of objects it takes from, refills it in batches    *)
(* from the global free list and flushes part of it back when it is full.  *)
(* The free list is the pool of objects ObjectPool.tla promises: taking    *)
(* and giving back one object is one step here, and threads are            *)
(* interleaved between these steps.                                        *)
(*                                                                         *)
(* A cache is its thread's alone.  What threads share is the global list,  *)
(* and that is where they can starve each other: the objects in a cache    *)
(* cannot be had by another thread, and a thread that finds both its cache *)
(* and the list empty throws or ends the process.                          *)
(*                                                                         *)
(* The contract the code states is kept: a thread destroys the pool only   *)
(* when all other threads have exited, and uses it no more.                *)
(***************************************************************************)
EXTENDS Integers, Sequences, FiniteSets, FiniteSetsExt

CONSTANTS
    Objects,        \* the blocks of the pool
    Threads,
    Requests,       \* pairs of sizes given to CacheConfig()
    MaxCacheSize,   \* kMaxCacheSize
    MaxBatchSize,   \* kMaxBatchSize
    DefaultShrink,  \* the default of shrink_threshold
    MaxCount,       \* the most objects a call asks for
    Word            \* 2^64: size_t arithmetic is modulo Word

ASSUME SharesAssumption == IsFiniteSet(Objects) /\ IsFiniteSet(Threads)
ASSUME SizesAssumption ==
    /\ Requests \subseteq Nat \X Nat
    /\ {MaxCacheSize, MaxBatchSize, DefaultShrink, MaxCount} \subseteq Nat \ {0}
    /\ Word \in Nat /\ Word > MaxCacheSize

VARIABLES
    config,         \* what CacheConfig() made of the sizes
    policy,         \* depletion_policy_
    free,           \* the global list
    cache,          \* per thread, cache_[0 .. current_size_ - 1]
    global_pool_,   \* per thread: no cache yet or any more, the pool, or nullptr
    pc,
    want,           \* the number of objects a thread's call asks for
    batch,          \* is the call an allocate_batch()?
    collected,      \* the objects it has so far
    todo,           \* how often a loop still has to run
    arg,            \* the objects deallocate() has not stored yet, at most one
    held,           \* the objects clients have
    lost,           \* history: objects no one can ever give back
    ended           \* "no", "terminated", or "destroyed": the end of the pool

vars == <<config, policy, free, cache, global_pool_, pc, want, batch, collected, todo,
          arg, held, lost, ended>>
callVars == <<want, batch, collected>>
fixed == <<config, policy>>

-----------------------------------------------------------------------------
\* The sizes a cache works with.
CacheConfig(cache_sz, batch_sz) ==
    LET cache_size == Min({cache_sz, MaxCacheSize})
        asked == Min({batch_sz, MaxBatchSize})
    IN  [cache_size |-> cache_size,
         batch_size |-> Max({1, IF asked > cache_size THEN cache_size \div 2 ELSE asked}),
         shrink_threshold |->
             Max({1, IF DefaultShrink >= cache_size THEN cache_size \div 4 ELSE DefaultShrink})]

Init ==
    /\ \E r \in Requests : config = CacheConfig(r[1], r[2])
    /\ policy \in {"THROW_EXCEPTION", "TERMINATE_PROCESS"}
    /\ free = Objects
    /\ cache = [t \in Threads |-> <<>>]
    /\ global_pool_ = [t \in Threads |-> "none"]
    /\ pc = [t \in Threads |-> "idle"]
    /\ want = [t \in Threads |-> 0]
    /\ batch = [t \in Threads |-> FALSE]
    /\ collected = [t \in Threads |-> {}]
    /\ todo = [t \in Threads |-> 0]
    /\ arg = [t \in Threads |-> {}]
    /\ held = {}
    /\ lost = {}
    /\ ended = "no"

Goto(t, label) == pc' = [pc EXCEPT ![t] = label]
Size(t) == Len(cache[t])

\* Seeded bug: the object stays in the cache.
PopNot(t) == UNCHANGED cache

Pop(t) == cache' = [cache EXCEPT ![t] = SubSeq(@, 1, Size(t) - 1)]
Top(t) == cache[t][Size(t)]
Push(t, o) == cache' = [cache EXCEPT ![t] = Append(@, o)]

\* A client calls, on a thread that runs, a pool that exists.  A first call makes
\* the thread's cache, except that allocate() and deallocate() bypass one of size 0.
CallOn(t) ==
    /\ pc[t] = "idle" /\ ended = "no"
    /\ \/ global_pool_' = [global_pool_ EXCEPT ![t] = "pool"]
       \/ config.cache_size = 0 /\ UNCHANGED global_pool_

-----------------------------------------------------------------------------
(* allocate(), construct(), allocate_batch(): take objects one by one.     *)

AllocateBegin(t, count, isBatch) ==
    /\ CallOn(t)
    /\ isBatch \/ count = 1
    /\ isBatch => global_pool_'[t] = "pool"
    /\ want' = [want EXCEPT ![t] = count]
    /\ batch' = [batch EXCEPT ![t] = isBatch]
    /\ Goto(t, "take")
    /\ UNCHANGED <<fixed, free, cache, collected, todo, arg, held, lost, ended>>

\* The call has one object more; with the last one it returns.
Obtain(t, o) ==
    LET all == collected[t] \cup {o}
    IN  IF Cardinality(all) = want[t]
        THEN /\ held' = held \cup all
             /\ collected' = [collected EXCEPT ![t] = {}]
             /\ Goto(t, "idle")
        ELSE /\ collected' = [collected EXCEPT ![t] = all]
             /\ Goto(t, "take")
             /\ UNCHANGED held

TakeCached(t) ==
    /\ pc[t] = "take"
    /\ Size(t) > 0
    /\ Pop(t)
    /\ Obtain(t, Top(t))
    /\ UNCHANGED <<fixed, free, global_pool_, want, batch, todo, arg, lost, ended>>

\* Without a cache objects come from the global list, and nullptr ends the call.
TakeGlobal(t) ==
    /\ pc[t] = "take" /\ config.cache_size = 0
    /\ \E o \in free :
          /\ free' = free \ {o}
          /\ Obtain(t, o)
    /\ UNCHANGED <<fixed, cache, global_pool_, want, batch, todo, arg, lost, ended>>

TakeNothing(t) ==
    /\ pc[t] = "take" /\ config.cache_size = 0
    /\ free = {}
    /\ Goto(t, IF batch[t] THEN "rest" ELSE "idle")
    /\ UNCHANGED <<fixed, free, cache, global_pool_, callVars, todo, arg, held, lost, ended>>

\* What allocate_batch() could not get one by one it asks of allocate_raw_batch().
TakeRest(t) ==
    /\ pc[t] = "rest"
    /\ \E S \in SUBSET free :
          /\ Cardinality(S) = Min({Cardinality(free), want[t] - Cardinality(collected[t])})
          /\ free' = free \ S
          /\ held' = held \cup collected[t] \cup S
    /\ collected' = [collected EXCEPT ![t] = {}]
    /\ Goto(t, "idle")
    /\ UNCHANGED <<fixed, cache, global_pool_, want, batch, todo, arg, lost, ended>>

RefillBegin(t) ==
    /\ pc[t] = "take" /\ config.cache_size > 0
    /\ Size(t) = 0
    /\ todo' = [todo EXCEPT ![t] = Min({config.batch_size, config.cache_size - Size(t)})]
    /\ Goto(t, "refill")
    /\ UNCHANGED <<fixed, free, cache, global_pool_, callVars, arg, held, lost, ended>>

\* Seeded bug: one object more than there is left to get.
RefillsPast(t) == todo[t] >= 0

Refills(t) == todo[t] > 0

RefillTake(t) ==
    /\ pc[t] = "refill" /\ Refills(t)
    /\ \E o \in free : free' = free \ {o} /\ Push(t, o)
    /\ todo' = [todo EXCEPT ![t] = @ - 1]
    /\ UNCHANGED <<fixed, global_pool_, pc, callVars, arg, held, lost, ended>>

\* allocate_raw() of the list has returned nullptr before the cache had any object.
Depleted(t) == pc[t] = "refill" /\ todo[t] > 0 /\ free = {} /\ Size(t) = 0

RefillEnd(t) ==
    /\ pc[t] = "refill"
    /\ todo[t] = 0 \/ free = {}
    /\ Size(t) > 0
    /\ todo' = [todo EXCEPT ![t] = 0]
    /\ Pop(t)
    /\ Obtain(t, Top(t))
    /\ UNCHANGED <<fixed, free, global_pool_, want, batch, arg, lost, ended>>

\* handle_depletion(): an exception leaves the call, and what a batch has collected
\* by then is in a vector that is destroyed.
Deplete(t) ==
    /\ Depleted(t)
    /\ todo' = [todo EXCEPT ![t] = 0]
    /\ Goto(t, "idle")
    /\ IF policy = "THROW_EXCEPTION"
       THEN /\ lost' = lost \cup collected[t]
            /\ collected' = [collected EXCEPT ![t] = {}]
            /\ UNCHANGED ended
       ELSE ended' = "terminated" /\ UNCHANGED <<lost, collected>>
    /\ UNCHANGED <<fixed, free, cache, global_pool_, want, batch, arg, held>>

-----------------------------------------------------------------------------
(* deallocate(), destroy(); deallocate_batch() is a loop of it.            *)

\* Every 256th call looks at the clock, so a check may come with any call.  The
\* cache has fewer objects than shrink_threshold, so the difference wraps around.
ShrinkBy(size) == Min({config.batch_size \div 2, (size - config.shrink_threshold) % Word})

\* Seeded bug: one object more than fits.
HasRoomLate(t) == Size(t) <= config.cache_size

HasRoom(t) == Size(t) < config.cache_size

DeallocateCached(t, o) ==
    /\ CallOn(t) /\ o \in held
    /\ HasRoom(t)
    /\ held' = held \ {o}
    /\ Push(t, o)
    /\ \/ UNCHANGED <<pc, todo>>
       \/ /\ Size(t) + 1 < config.shrink_threshold /\ Size(t) + 1 > config.batch_size
          /\ todo' = [todo EXCEPT ![t] = ShrinkBy(Size(t) + 1)]
          /\ Goto(t, "giveBack")
    /\ UNCHANGED <<fixed, free, callVars, arg, lost, ended>>

DeallocateGlobal(t, o) ==
    /\ CallOn(t) /\ o \in held
    /\ config.cache_size = 0
    /\ held' = held \ {o}
    /\ free' = free \cup {o}
    /\ UNCHANGED <<fixed, cache, pc, callVars, todo, arg, lost, ended>>

\* A full cache flushes a batch first.
DeallocateFull(t, o) ==
    /\ CallOn(t) /\ o \in held
    /\ config.cache_size > 0 /\ ~HasRoom(t)
    /\ held' = held \ {o}
    /\ arg' = [arg EXCEPT ![t] = {o}]
    /\ todo' = [todo EXCEPT ![t] = Min({config.batch_size, Size(t)})]
    /\ Goto(t, "flush")
    /\ UNCHANGED <<fixed, free, cache, callVars, lost, ended>>

\* One turn of the loops that return objects, the top of the stack first.
GiveBack(t) ==
    /\ pc[t] \in {"flush", "giveBack", "exit"} /\ todo[t] > 0
    /\ free' = free \cup {Top(t)}
    /\ Pop(t)
    /\ todo' = [todo EXCEPT ![t] = @ - 1]
    /\ UNCHANGED <<fixed, global_pool_, pc, callVars, arg, held, lost, ended>>

FlushEnd(t) ==
    /\ pc[t] = "flush" /\ todo[t] = 0
    /\ \E o \in arg[t] :
          IF HasRoom(t)
          THEN Push(t, o) /\ UNCHANGED free
          ELSE free' = free \cup {o} /\ UNCHANGED cache
    /\ arg' = [arg EXCEPT ![t] = {}]
    /\ Goto(t, "idle")
    /\ UNCHANGED <<fixed, global_pool_, callVars, todo, held, lost, ended>>

GiveBackEnd(t) ==
    /\ pc[t] = "giveBack" /\ todo[t] = 0
    /\ Goto(t, "idle")
    /\ UNCHANGED <<fixed, free, cache, global_pool_, callVars, todo, arg, held, lost, ended>>

-----------------------------------------------------------------------------
(* flush_thread_cache(), the end of a thread, the end of the pool.         *)

FlushThreadCache(t) ==
    /\ pc[t] = "idle" /\ ended = "no" /\ global_pool_[t] = "pool"
    /\ todo' = [todo EXCEPT ![t] = Size(t)]
    /\ Goto(t, "giveBack")
    /\ UNCHANGED <<fixed, free, cache, global_pool_, callVars, arg, held, lost, ended>>

\* The destructor of the cache flushes it, unless the pool was destroyed.
ExitBegin(t) ==
    /\ pc[t] = "idle"
    /\ todo' = [todo EXCEPT ![t] = IF global_pool_[t] = "pool" THEN Size(t) ELSE 0]
    /\ Goto(t, "exit")
    /\ UNCHANGED <<fixed, free, cache, global_pool_, callVars, arg, held, lost, ended>>

ExitEnd(t) ==
    /\ pc[t] = "exit" /\ todo[t] = 0
    /\ cache' = [cache EXCEPT ![t] = <<>>]
    /\ global_pool_' = [global_pool_ EXCEPT ![t] = "none"]
    /\ Goto(t, "exited")
    /\ UNCHANGED <<fixed, free, callVars, todo, arg, held, lost, ended>>

\* Seeded bug: the thread's cache keeps its pointer to the pool.
InvalidateNot(t) == UNCHANGED global_pool_

Invalidate(t) ==
    global_pool_' = [global_pool_ EXCEPT ![t] = IF @ = "pool" THEN "nullptr" ELSE @]

\* ~MemoryPool() invalidates the cache of its own thread.
DestroyPool(t) ==
    /\ pc[t] = "idle" /\ ended = "no"
    /\ \A u \in Threads \ {t} : pc[u] = "exited"
    /\ ended' = "destroyed"
    /\ Invalidate(t)
    /\ UNCHANGED <<fixed, free, cache, pc, callVars, todo, arg, held, lost>>

Allocate(t) ==
    \/ \E count \in 1 .. MaxCount, isBatch \in BOOLEAN : AllocateBegin(t, count, isBatch)
    \/ TakeCached(t) \/ TakeGlobal(t) \/ TakeNothing(t) \/ TakeRest(t)
    \/ RefillBegin(t) \/ RefillTake(t) \/ RefillEnd(t) \/ Deplete(t)

Deallocate(t) ==
    \/ \E o \in held :
          DeallocateCached(t, o) \/ DeallocateGlobal(t, o) \/ DeallocateFull(t, o)
    \/ GiveBack(t) \/ FlushEnd(t) \/ GiveBackEnd(t)

End(t) == FlushThreadCache(t) \/ ExitBegin(t) \/ ExitEnd(t) \/ DestroyPool(t)

Next ==
    /\ ended # "terminated"
    /\ \E t \in Threads : Allocate(t) \/ Deallocate(t) \/ End(t)

Spec == Init /\ [][Next]_vars

-----------------------------------------------------------------------------
(* Correctness.                                                            *)

\* As long as the pool exists, every object is in exactly one place: on the global
\* list, with a client or lost by a batch that threw; in a call; or once in one cache.
Owners(o) ==
    Cardinality({place \in {<<1, free>>, <<2, held>>, <<3, lost>>} : o \in place[2]})
    + Cardinality({t \in Threads : o \in collected[t]})
    + Cardinality({t \in Threads : o \in arg[t]})
    + Cardinality({place \in Threads \X (1 .. config.cache_size) :
                      place[2] <= Size(place[1]) /\ cache[place[1]][place[2]] = o})
OneOwner == ended # "destroyed" => \A o \in Objects : Owners(o) = 1

\* No loop writes or reads outside the array of a cache: a refill stops at its end,
\* a flush at its beginning, although the amount to shrink by is the minimum with
\* a difference that has wrapped around.
CacheBounded ==
    \A t \in Threads :
        /\ Size(t) <= config.cache_size
        /\ pc[t] = "refill" => Size(t) + todo[t] <= config.cache_size
        /\ pc[t] \in {"flush", "giveBack", "exit"} => todo[t] <= Size(t)

\* handle_depletion() is reached only when the clients, the calls under way and
\* failed batches have all objects but those the caches of the other threads can hold.
DepletionJustified ==
    \A t \in Threads :
        Depleted(t) =>
            Cardinality(held \cup lost \cup UNION {collected[u] \cup arg[u] : u \in Threads})
               >= Cardinality(Objects) - (Cardinality(Threads) - 1) * config.cache_size

\* A thread that exits leaves all it had cached to the others; and the cache that
\* survives the pool does not refer to it.
ExitReturnsAll ==
    /\ ended # "destroyed" => \A t \in Threads : pc[t] = "exit" /\ todo[t] = 0 => Size(t) = 0
    /\ ended = "destroyed" => \A t \in Threads : global_pool_[t] # "pool"

=============================================================================
