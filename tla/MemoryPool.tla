----------------------------- MODULE MemoryPool -----------------------------
(***************************************************************************)
(* The lock-free free list of MemoryPool (src/core/memory_pool.hpp): a     *)
(* stack of the free blocks, linked through the blocks themselves, whose   *)
(* head is exchanged together with a tag by a 128-bit compare-exchange.    *)
(* Threads are interleaved at every access to the head, to the link of a   *)
(* block and to the counter.                                               *)
(*                                                                         *)
(* A block in use is the client's: it may write anything over the link,    *)
(* which threads that lost a race still read.  Clients give back only what *)
(* they hold, possibly from another thread than the one that allocated it. *)
(* The destructor may run only when all threads are joined, so the         *)
(* shutting_down_ branches are not taken while threads run.                *)
(***************************************************************************)
EXTENDS Integers, Sequences, FiniteSets, Functions

CONSTANTS
    BlockCount,     \* initial_capacity
    Threads,
    Allocators,     \* the threads that call allocate_raw()
    BatchAllocators,\* the threads that call allocate_raw_batch()
    BatchesAlone,   \* do clients keep other allocations apart from a batch allocation?
    MaxBatch,       \* the longest batch
    MaxCalls        \* bound on the calls made

\* With no block at all the constructor makes the head point past the memory.
ASSUME BlockCountAssumption == BlockCount \in Nat \ {0}
ASSUME ThreadsAssumption ==
    /\ IsFiniteSet(Threads)
    /\ Allocators \subseteq Threads /\ BatchAllocators \subseteq Threads
    /\ BatchesAlone \in BOOLEAN
ASSUME BoundsAssumption == MaxBatch \in Nat \ {0} /\ MaxCalls \in Nat

Nodes   == 1 .. BlockCount      \* the blocks, in the order of their addresses
Null    == 0
Garbage == -1                   \* a client's bits read as a pointer
TaggedPtr == [ptr : Nodes \cup {Null, Garbage}, tag : Nat]

VARIABLES
    free_head_, next, allocated_count_,
    inUse,      \* the blocks outside the list
    pc, current, new_head,
    own,        \* the blocks a thread's operation is taking or giving back
    wanted,     \* the number of blocks a thread's call asks for, 0 if none
    walk,       \* a batch call's position in the list and blocks counted
    got,        \* what a thread's last call returned
    calls,
    stack       \* history: the list, first block first

vars == <<free_head_, next, allocated_count_, inUse, pc, current, new_head, own,
          wanted, walk, got, calls, stack>>
listVars == <<free_head_, next, inUse, stack>>

-----------------------------------------------------------------------------
Tagged(ptr, tag) == [ptr |-> ptr, tag |-> tag]
NoPtr == Tagged(Null, 0)

\* Reading a link through an invalid pointer yields anything.
Link(ptr) == IF ptr \in Nodes THEN next[ptr] ELSE Tagged(Garbage, 0)

\* Seeded bug: the head is exchanged without a new tag.
SameTag(tag) == tag

NextTag(tag) == tag + 1

Init ==
    /\ free_head_ = Tagged(1, 1)
    /\ next = [n \in Nodes |-> IF n = BlockCount THEN NoPtr ELSE Tagged(n + 1, n + 1)]
    /\ allocated_count_ = 0
    /\ inUse = {}
    /\ pc = [t \in Threads |-> "idle"]
    /\ current = [t \in Threads |-> NoPtr]
    /\ new_head = [t \in Threads |-> NoPtr]
    /\ own = [t \in Threads |-> <<>>]
    /\ wanted = [t \in Threads |-> 0]
    /\ walk = [t \in Threads |-> [node |-> Null, count |-> 0]]
    /\ got = [t \in Threads |-> {}]
    /\ calls = 0
    /\ stack = [i \in 1 .. BlockCount |-> i]

\* The blocks a call is taking or giving back; once given back, they are others'.
Claimed(t) == IF pc[t] = "subtract" THEN {} ELSE Range(own[t])

\* The blocks clients hold.
Held == inUse \ UNION {Claimed(t) : t \in Threads}

Goto(t, label) == pc' = [pc EXCEPT ![t] = label]

-----------------------------------------------------------------------------
(* Both ways to allocate load the head first, and again with every exchange *)
(* that fails.                                                             *)

Begin(t, count, label) ==
    /\ pc[t] = "idle" /\ calls < MaxCalls
    /\ calls' = calls + 1
    /\ wanted' = [wanted EXCEPT ![t] = count]
    /\ Goto(t, label)
    /\ UNCHANGED <<listVars, allocated_count_, current, new_head, own, walk, got>>

\* Is thread u in allocate_raw_batch(), before it has its blocks?
InBatch(u) ==
    pc[u] \in {"loadBatch", "testBatch", "walk", "advance", "behind", "popBatch"}

\* With an empty list allocate_raw() returns nullptr, the batch form 0.
LoadHead(t, label) ==
    /\ current' = [current EXCEPT ![t] = free_head_]
    /\ IF free_head_.ptr = Null
       THEN /\ got' = [got EXCEPT ![t] = {}]
            /\ wanted' = [wanted EXCEPT ![t] = 0]
            /\ Goto(t, "idle")
       ELSE Goto(t, label) /\ UNCHANGED <<got, wanted>>
    /\ UNCHANGED <<listVars, allocated_count_, new_head, own, walk, calls>>

\* The exchange succeeded: the blocks of taken leave the list.
Taken(t, taken) ==
    /\ free_head_ = current[t]
    /\ free_head_' = new_head[t]
    /\ stack' = SubSeq(stack, Len(taken) + 1, Len(stack))
    /\ inUse' = inUse \cup Range(taken)
    /\ own' = [own EXCEPT ![t] = taken]
    /\ got' = [got EXCEPT ![t] = Range(taken)]
    /\ wanted' = [wanted EXCEPT ![t] = 0]
    /\ Goto(t, "add")
    /\ UNCHANGED <<next, allocated_count_, current, new_head, walk, calls>>

\* The counter is updated after the list is.
AllocateCount(t) ==
    /\ pc[t] = "add"
    /\ allocated_count_' = allocated_count_ + Len(own[t])
    /\ own' = [own EXCEPT ![t] = <<>>]
    /\ Goto(t, "idle")
    /\ UNCHANGED <<listVars, current, new_head, wanted, walk, got, calls>>

-----------------------------------------------------------------------------
(* allocate_raw().                                                         *)

AllocateBegin(t) ==
    /\ t \in Allocators
    /\ BatchesAlone => \A u \in Threads : ~InBatch(u)
    /\ Begin(t, 1, "load")

AllocateLoad(t) == pc[t] = "load" /\ LoadHead(t, "test")

AllocateLink(t) ==
    /\ pc[t] = "test"
    /\ new_head' = [new_head EXCEPT ![t] =
                       Tagged(Link(current[t].ptr).ptr, NextTag(current[t].tag))]
    /\ Goto(t, "pop")
    /\ UNCHANGED <<listVars, allocated_count_, current, own, wanted, walk, got, calls>>

AllocateExchange(t) == pc[t] = "pop" /\ Taken(t, <<current[t].ptr>>)

\* Seeded bug: a lost race is taken for an empty pool.
AllocateGivesUp(t) ==
    /\ pc[t] = "pop" /\ free_head_ # current[t]
    /\ got' = [got EXCEPT ![t] = {}]
    /\ wanted' = [wanted EXCEPT ![t] = 0]
    /\ Goto(t, "idle")
    /\ UNCHANGED <<listVars, allocated_count_, current, new_head, own, walk, calls>>

\* compare_exchange_weak() failed, perhaps spuriously, and has reloaded the head.
AllocateRetry(t) == pc[t] = "pop" /\ LoadHead(t, "test")

-----------------------------------------------------------------------------
(* allocate_raw_batch(): walk over as many blocks as are asked for, take    *)
(* the link behind them, tag included, as the new head, exchange.          *)

BatchBegin(t, count) ==
    /\ t \in BatchAllocators
    /\ BatchesAlone => \A u \in Threads : wanted[u] = 0
    /\ Begin(t, count, "loadBatch")

BatchLoad(t) == pc[t] = "loadBatch" /\ LoadHead(t, "testBatch")

BatchWalk(t) ==
    /\ pc[t] = "testBatch"
    /\ walk' = [walk EXCEPT ![t] = [node |-> current[t].ptr, count |-> 1]]
    /\ Goto(t, "walk")
    /\ UNCHANGED <<listVars, allocated_count_, current, new_head, own, wanted, got, calls>>

\* Seeded bug: the walk ignores the end of the list.
GoesOnPastEnd(t) == walk[t].count < wanted[t]

GoesOn(t) == walk[t].count < wanted[t] /\ Link(walk[t].node).ptr # Null

\* The loop condition reads the link, the body reads it once more.
BatchTest(t) ==
    /\ pc[t] = "walk"
    /\ IF GoesOn(t) THEN Goto(t, "advance") ELSE Goto(t, "behind")
    /\ UNCHANGED <<listVars, allocated_count_, current, new_head, own, wanted, walk,
                   got, calls>>

BatchAdvance(t) ==
    /\ pc[t] = "advance"
    /\ walk' = [walk EXCEPT ![t] = [node |-> Link(@.node).ptr, count |-> @.count + 1]]
    /\ Goto(t, "walk")
    /\ UNCHANGED <<listVars, allocated_count_, current, new_head, own, wanted, got, calls>>

BatchBehind(t) ==
    /\ pc[t] = "behind"
    /\ new_head' = [new_head EXCEPT ![t] = Link(walk[t].node)]
    /\ Goto(t, "popBatch")
    /\ UNCHANGED <<listVars, allocated_count_, current, own, wanted, walk, got, calls>>

\* The blocks of the batch are collected after the exchange, when they are the
\* caller's, by following the links once more.
Collected(t) ==
    LET node[i \in 1 .. walk[t].count] ==
            IF i = 1 THEN current[t].ptr ELSE Link(node[i - 1]).ptr
    IN  node

BatchExchange(t) == pc[t] = "popBatch" /\ Taken(t, Collected(t))

BatchRetry(t) == pc[t] = "popBatch" /\ LoadHead(t, "testBatch")

-----------------------------------------------------------------------------
(* deallocate_raw() and deallocate_raw_batch(): chain the blocks, link the *)
(* last one to the head, exchange.                                         *)

\* Constructing the links again resets them, the batch form chains them with
\* tag 0.  The blocks are the caller's, so this is one step.
DeallocateBegin(t, blocks) ==
    /\ pc[t] = "idle" /\ calls < MaxCalls
    /\ calls' = calls + 1
    /\ own' = [own EXCEPT ![t] = blocks]
    /\ next' = [n \in Nodes |->
                  IF \E i \in 1 .. Len(blocks) : blocks[i] = n
                  THEN LET i == CHOOSE i \in 1 .. Len(blocks) : blocks[i] = n
                       IN  IF i < Len(blocks) THEN Tagged(blocks[i + 1], 0) ELSE NoPtr
                  ELSE next[n]]
    /\ Goto(t, "head")
    /\ UNCHANGED <<free_head_, inUse, stack, allocated_count_, current, new_head,
                   wanted, walk, got>>

\* The head is loaded once, and again with every exchange that fails.
DeallocateHead(t) ==
    /\ pc[t] \in {"head", "push"}
    /\ current' = [current EXCEPT ![t] = free_head_]
    /\ Goto(t, "link")
    /\ UNCHANGED <<listVars, allocated_count_, new_head, own, wanted, walk, got, calls>>

DeallocateLink(t) ==
    /\ pc[t] = "link"
    /\ next' = [next EXCEPT ![own[t][Len(own[t])]] = current[t]]
    /\ new_head' = [new_head EXCEPT ![t] = Tagged(own[t][1], NextTag(current[t].tag))]
    /\ Goto(t, "push")
    /\ UNCHANGED <<free_head_, inUse, stack, allocated_count_, current, own, wanted,
                   walk, got, calls>>

DeallocateExchange(t) ==
    /\ pc[t] = "push"
    /\ free_head_ = current[t]
    /\ free_head_' = new_head[t]
    /\ stack' = own[t] \o stack
    /\ inUse' = inUse \ Range(own[t])
    /\ Goto(t, "subtract")
    /\ UNCHANGED <<next, allocated_count_, current, new_head, own, wanted, walk, got, calls>>

\* Seeded bug: a batch counts as one block.
OneReturned(t) == 1

Returned(t) == Len(own[t])

DeallocateCount(t) ==
    /\ pc[t] = "subtract"
    /\ allocated_count_' = allocated_count_ - Returned(t)
    /\ own' = [own EXCEPT ![t] = <<>>]
    /\ Goto(t, "idle")
    /\ UNCHANGED <<listVars, current, new_head, wanted, walk, got, calls>>

-----------------------------------------------------------------------------
\* A client writes an object over a block it holds.
Use(n) ==
    /\ n \in Held
    /\ next' = [next EXCEPT ![n] = Tagged(Garbage, 0)]
    /\ UNCHANGED <<free_head_, inUse, stack, allocated_count_, pc, current, new_head,
                   own, wanted, walk, got, calls>>

\* What a client may give back in one call.
Returns == {s \in UNION {[1 .. k -> Held] : k \in 1 .. MaxBatch} :
               \A i, j \in DOMAIN s : s[i] = s[j] => i = j}

Allocate(t) ==
    \/ AllocateBegin(t) \/ AllocateLoad(t) \/ AllocateLink(t)
    \/ AllocateExchange(t) \/ AllocateRetry(t) \/ AllocateCount(t)

BatchAllocate(t) ==
    \/ \E count \in 1 .. MaxBatch : BatchBegin(t, count)
    \/ BatchLoad(t) \/ BatchWalk(t) \/ BatchTest(t) \/ BatchAdvance(t) \/ BatchBehind(t)
    \/ BatchExchange(t) \/ BatchRetry(t)

Deallocate(t) ==
    \/ \E blocks \in Returns : DeallocateBegin(t, blocks)
    \/ DeallocateHead(t) \/ DeallocateLink(t) \/ DeallocateExchange(t)
    \/ DeallocateCount(t)

Next ==
    \/ \E t \in Threads : Allocate(t) \/ BatchAllocate(t) \/ Deallocate(t)
    \/ \E n \in Nodes : Use(n)

Spec == Init /\ [][Next]_vars

-----------------------------------------------------------------------------
(* Correctness.                                                            *)

TypeOK ==
    /\ free_head_ \in TaggedPtr
    /\ next \in [Nodes -> TaggedPtr]
    /\ allocated_count_ \in Int
    /\ inUse \subseteq Nodes
    /\ pc \in [Threads -> {"idle", "load", "test", "pop", "add", "loadBatch", "testBatch", "walk", "advance",
                           "behind", "popBatch", "head", "link", "push", "subtract"}]
    /\ current \in [Threads -> TaggedPtr] /\ new_head \in [Threads -> TaggedPtr]
    /\ own \in [Threads -> Seq(Nodes)]
    /\ wanted \in [Threads -> Nat] /\ got \in [Threads -> SUBSET Nodes]
    /\ walk \in [Threads -> [node : Nodes \cup {Null, Garbage}, count : Nat]]
    /\ calls \in Nat
    /\ stack \in Seq(Nodes)

\* The list that starts at the head is the stack of the blocks that were given
\* back and not taken since: no lost race makes the head point to a block in use,
\* cuts blocks off, or turns the list into a ring.
ListIsStack ==
    /\ free_head_.ptr = IF stack = <<>> THEN Null ELSE stack[1]
    /\ \A i \in 1 .. Len(stack) :
          next[stack[i]].ptr = IF i = Len(stack) THEN Null ELSE stack[i + 1]

\* Every block is in use or exactly once in the list.
BlocksAccounted ==
    /\ \A i \in 1 .. Len(stack) : stack[i] \notin inUse
    /\ \A i, j \in 1 .. Len(stack) : stack[i] = stack[j] => i = j
    /\ \A n \in Nodes \ inUse : \E i \in 1 .. Len(stack) : stack[i] = n

FreeListIntact == ListIsStack /\ BlocksAccounted

\* The blocks of the calls that have changed the list and not yet the counter.
Uncounted(label) == {x \in Threads \X Nodes : pc[x[1]] = label /\ x[2] \in Range(own[x[1]])}

\* allocated_objects() is the number of blocks in use, but for what calls have taken
\* or given back and not yet counted; so the unsigned counter never wraps.
CountFollows ==
    /\ allocated_count_ >= 0
    /\ allocated_count_ = Cardinality(inUse) - Cardinality(Uncounted("add"))
                            + Cardinality(Uncounted("subtract"))

\* No call reads a link through a pointer that is not a block.
PointersValid ==
    \A t \in Threads :
        /\ pc[t] \in {"test", "testBatch"} => current[t].ptr \in Nodes
        /\ pc[t] \in {"walk", "advance", "behind"} => walk[t].node \in Nodes

\* The list behaves as a pool of objects, each call taking effect at once.
Pool == INSTANCE ObjectPool WITH Objects <- Nodes, free <- Range(stack)
ImplementsPool == Pool!Spec

=============================================================================
