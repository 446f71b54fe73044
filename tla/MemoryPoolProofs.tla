-------------------------- MODULE MemoryPoolProofs --------------------------
(***************************************************************************)
(* MemoryPool.tla for every number of blocks and threads and batches of    *)
(* any length, as long as clients allow no other allocation while one      *)
(* thread allocates a batch: the list is never corrupted, no call follows  *)
(* a wild pointer, the counter follows the list, and the pool implements   *)
(* ObjectPool.                                                             *)
(*                                                                         *)
(* The argument has two halves.  The exchanges of single blocks and those  *)
(* that give blocks back make the tag of the head larger, so between two   *)
(* batches a head that still equals the one a thread loaded has not been   *)
(* exchanged meanwhile: the block it points to was in the list all the     *)
(* time, nobody wrote its link, and the link the thread has read is still  *)
(* there (Expectations).  An exchange of a batch may make the tag smaller, *)
(* but then no other allocation relies on it; and while a batch is walked  *)
(* over, blocks are only given back, so that the walk stays in the list,   *)
(* pushed down by what is put on top of it (Walks).  If the head is still  *)
(* the block the walk began at, it has walked over the top of the list.    *)
(***************************************************************************)
EXTENDS MemoryPool, FiniteSetTheorems, SequenceTheorems, WellFoundedInduction, TLAPS

\* Either nobody allocates in batches, or clients keep other allocations apart from it.
Discipline == BatchAllocators = {} \/ BatchesAlone

\* The blocks calls claim are in use, each by one call.
Claims ==
    /\ \A t \in Threads : Claimed(t) \subseteq inUse
    /\ \A t, u \in Threads : t # u => Claimed(t) \cap Claimed(u) = {}

Distinct(s) == \A i, j \in 1 .. Len(s) : s[i] = s[j] => i = j

\* What a call that gives blocks back has: a chain of blocks.
Chain(blocks) ==
    /\ blocks # <<>>
    /\ \A i \in 1 .. Len(blocks) - 1 : next[blocks[i]].ptr = blocks[i + 1]

Owner(t) ==
    /\ Distinct(own[t])
    /\ pc[t] \notin {"add", "head", "link", "push", "subtract"} => own[t] = <<>>
    /\ pc[t] \in {"head", "link", "push"} => Chain(own[t])
Owners == \A t \in Threads : Owner(t)

\* What the calls under way ask for; a batch allocation is the only allocation.
Wanting(t) ==
    /\ InBatch(t) => wanted[t] \in 1 .. MaxBatch /\ t \in BatchAllocators
    /\ pc[t] \in {"load", "test", "pop"} => wanted[t] = 1
    /\ ~InBatch(t) /\ pc[t] \notin {"load", "test", "pop"} => wanted[t] = 0
Wants ==
    /\ \A t \in Threads : Wanting(t)
    /\ \A t, u \in Threads : InBatch(t) /\ u # t => wanted[u] = 0

\* What a thread between its load of the head and its exchange relies on.
Expectation(t) ==
    /\ pc[t] \in {"test", "pop"} =>
          /\ current[t].ptr \in Nodes
          /\ current[t].tag <= free_head_.tag
          /\ current[t].tag = free_head_.tag => current[t].ptr = free_head_.ptr
    /\ pc[t] = "pop" =>
          /\ new_head[t].tag = current[t].tag + 1
          /\ current[t].tag = free_head_.tag =>
                new_head[t].ptr = next[current[t].ptr].ptr
    /\ pc[t] = "push" =>
          /\ new_head[t].ptr = own[t][1]
          /\ new_head[t].tag = current[t].tag + 1
          /\ next[own[t][Len(own[t])]] = current[t]
Expectations == \A t \in Threads : Expectation(t)

\* A batch allocation has loaded the head when it was the block behind the first k of
\* the list, which were given back meanwhile, and has counted the blocks from there.
Place(t, k) ==
    /\ k < Len(stack) /\ current[t].ptr = stack[k + 1]
    /\ pc[t] # "testBatch" =>
          /\ walk[t].count \in 1 .. wanted[t]
          /\ k + walk[t].count <= Len(stack) /\ walk[t].node = stack[k + walk[t].count]
    /\ pc[t] = "advance" => walk[t].count < wanted[t] /\ k + walk[t].count < Len(stack)
    /\ pc[t] \in {"behind", "popBatch"} =>
          walk[t].count = wanted[t] \/ k + walk[t].count = Len(stack)
    /\ pc[t] = "popBatch" => new_head[t] = next[walk[t].node]
Walking(t) == InBatch(t) /\ pc[t] # "loadBatch" => \E k \in Nat : Place(t, k)
Walks == \A t \in Threads : Walking(t)

PoolInvariant ==
    /\ Discipline
    /\ TypeOK
    /\ FreeListIntact
    /\ Claims
    /\ Owners
    /\ Wants
    /\ Expectations
    /\ Walks

-----------------------------------------------------------------------------
(* The list.                                                               *)

\* The head is a block of the list, unless the list is empty.
LEMMA HeadInList ==
  ASSUME TypeOK, FreeListIntact
  PROVE  /\ Len(stack) \in Nat
         /\ free_head_.ptr = Null <=> stack = <<>>
         /\ free_head_.ptr # Null =>
               /\ Len(stack) >= 1 /\ free_head_.ptr = stack[1]
               /\ free_head_.ptr \in Nodes /\ free_head_.ptr \notin inUse
<1>1. Len(stack) \in Nat /\ (stack = <<>> <=> Len(stack) = 0)
  BY DEF TypeOK
<1>2. stack # <<>> => Len(stack) >= 1 /\ stack[1] \in Nodes
  BY <1>1 DEF TypeOK
<1>3. \A n \in Nodes : n # Null
  BY DEF Nodes, Null
<1>4. free_head_.ptr = Null <=> stack = <<>>
  BY <1>2, <1>3 DEF FreeListIntact, ListIsStack
<1> QED
  BY <1>1, <1>2, <1>4 DEF FreeListIntact, ListIsStack, BlocksAccounted

LEMMA InitPool ==
  ASSUME Init, Discipline
  PROVE  PoolInvariant
<1>1. stack \in Seq(Nodes) /\ Len(stack) = BlockCount /\ \A i \in 1 .. BlockCount : stack[i] = i
  BY BlockCountAssumption, IsASeq DEF Init, Nodes
<1>2. TypeOK
  BY <1>1, BlockCountAssumption DEF Init, TypeOK, TaggedPtr, Tagged, NoPtr, Nodes, Null
<1>3. FreeListIntact
  <2>1. stack # <<>> /\ BlockCount >= 1
    BY <1>1, BlockCountAssumption
  <2>2. \A i \in 1 .. BlockCount : next[i].ptr = IF i = BlockCount THEN Null ELSE i + 1
    BY DEF Init, Nodes, Tagged, NoPtr
  <2>3. free_head_.ptr = 1 /\ stack[1] = 1
    BY <1>1, <2>1 DEF Init, Tagged
  <2>4. \A i \in 1 .. Len(stack) : next[stack[i]].ptr = IF i = Len(stack) THEN Null ELSE stack[i + 1]
    BY <1>1, <2>2
  <2>5. ListIsStack
    BY <2>1, <2>3, <2>4 DEF ListIsStack
  <2>6. BlocksAccounted
    BY <1>1 DEF Init, BlocksAccounted, Nodes
  <2> QED
    BY <2>5, <2>6 DEF FreeListIntact
<1>4. \A t \in Threads : Claimed(t) = {}
  <2> SUFFICES ASSUME NEW t \in Threads PROVE Claimed(t) = {}
    OBVIOUS
  <2>1. own[t] = <<>> /\ DOMAIN (<<>>) = {} /\ pc[t] = "idle"
    BY DEF Init
  <2> QED
    BY <2>1 DEF Claimed, Range
<1>5. Claims
  BY <1>4 DEF Claims
<1>6. Owners
  <2>1. Distinct(<<>>)
    BY DEF Distinct
  <2> QED
    BY <2>1 DEF Init, Owners, Owner
<1>7. Wants /\ Expectations /\ Walks
  BY DEF Init, Wants, Wanting, Expectations, Expectation, Walks, Walking, InBatch
<1> QED
  BY <1>2, <1>3, <1>5, <1>6, <1>7 DEF PoolInvariant

-----------------------------------------------------------------------------
(* What a step of one thread leaves to the others.                         *)

Stays(u) ==
    /\ pc'[u] = pc[u] /\ own'[u] = own[u] /\ wanted'[u] = wanted[u]
    /\ current'[u] = current[u] /\ new_head'[u] = new_head[u] /\ walk'[u] = walk[u]
OthersStay(t) == \A u \in Threads \ {t} : Stays(u)

\* Batch allocations keep apart from other allocations.
Apart(t) ==
    /\ InBatch(t)' => \A u \in Threads \ {t} : wanted[u] = 0
    /\ wanted'[t] # 0 => \A u \in Threads \ {t} : ~InBatch(u)

LEMMA WantsStep ==
  ASSUME PoolInvariant, NEW t \in Threads, OthersStay(t), Wanting(t)', Apart(t)
  PROVE  Wants'
<1>1. \A u \in Threads \ {t} :
         wanted'[u] = wanted[u] /\ (InBatch(u)' <=> InBatch(u)) /\ Wanting(u)'
  BY DEF OthersStay, Stays, InBatch, PoolInvariant, Wants, Wanting
<1>2. ASSUME NEW u \in Threads, NEW v \in Threads, InBatch(u)', v # u
      PROVE  wanted'[v] = 0
  BY <1>1, <1>2 DEF Apart, PoolInvariant, Wants
<1> QED
  BY <1>1, <1>2 DEF Wants

\* A call that goes on, or ends, stays apart from the others.
LEMMA StaysApart ==
  ASSUME PoolInvariant, NEW t \in Threads, InBatch(t)' => InBatch(t),
         wanted'[t] = wanted[t] \/ wanted'[t] = 0
  PROVE  Apart(t)
BY DEF Apart, PoolInvariant, Wants

\* The list and the links of its blocks stay, and so does a call that walks along it.
SameList ==
    /\ UNCHANGED <<free_head_, inUse, stack>>
    /\ \A i \in 1 .. Len(stack) : next'[stack[i]] = next[stack[i]]

LEMMA ListStays ==
  ASSUME PoolInvariant, SameList
  PROVE  FreeListIntact'
BY DEF PoolInvariant, SameList, FreeListIntact, ListIsStack, BlocksAccounted

LEMMA PlaceInList ==
  ASSUME PoolInvariant, NEW t \in Threads, NEW k \in Nat, Place(t, k), InBatch(t)
  PROVE  /\ Len(stack) \in Nat /\ wanted[t] \in Nat /\ k + 1 \in 1 .. Len(stack)
         /\ current[t].ptr \in Nodes
         /\ pc[t] # "testBatch" =>
               /\ walk[t].count \in Nat /\ walk[t].count >= 1 /\ walk[t].count <= wanted[t]
               /\ k + walk[t].count \in 1 .. Len(stack) /\ walk[t].node \in Nodes
<1>1. Len(stack) \in Nat /\ wanted[t] \in Nat
  BY DEF PoolInvariant, TypeOK
<1>2. k + 1 \in 1 .. Len(stack)
  BY <1>1 DEF Place
<1>3. ASSUME NEW i \in 1 .. Len(stack)
      PROVE  stack[i] \in Nodes
  BY DEF PoolInvariant, TypeOK
<1>4. pc[t] # "testBatch" =>
         /\ walk[t].count \in Nat /\ walk[t].count >= 1 /\ walk[t].count <= wanted[t]
         /\ k + walk[t].count \in 1 .. Len(stack)
  BY <1>1 DEF Place
<1> QED
  BY <1>1, <1>2, <1>3, <1>4 DEF Place

LEMMA WalkStays ==
  ASSUME PoolInvariant, SameList, NEW u \in Threads, Stays(u)
  PROVE  Walking(u)'
<1> SUFFICES ASSUME InBatch(u)', pc'[u] # "loadBatch"
             PROVE  \E k \in Nat : Place(u, k)'
  BY DEF Walking
<1>1. InBatch(u) /\ pc[u] # "loadBatch"
  BY DEF InBatch, Stays
<1>2. PICK k \in Nat : Place(u, k)
  BY <1>1 DEF PoolInvariant, Walks, Walking
<1>3. pc[u] = "popBatch" => next'[walk[u].node] = next[walk[u].node]
  BY <1>1, <1>2, PlaceInList DEF SameList, Place
<1> QED
  BY <1>2, <1>3 DEF Place, SameList, Stays

-----------------------------------------------------------------------------
(* Steps that leave the list, the links and the claims alone.              *)

Untouched == UNCHANGED <<free_head_, next, inUse, stack, own>>

\* A thread that claims nothing more and nothing less.
LEMMA UntouchedStep ==
  ASSUME PoolInvariant, Untouched, NEW t \in Threads, OthersStay(t), TypeOK',
         pc[t] # "subtract", pc'[t] # "subtract",
         Owner(t)', Wanting(t)', Apart(t), Expectation(t)', Walking(t)'
  PROVE  PoolInvariant'
<1>1. \A u \in Threads : Claimed(u)' = Claimed(u)
  BY DEF OthersStay, Stays, Untouched, Claimed
<1>2. Claims'
  BY <1>1 DEF PoolInvariant, Claims, Untouched
<1>3. SameList
  BY DEF SameList, Untouched
<1>4. FreeListIntact'
  BY <1>3, ListStays
<1>5. Wants'
  BY WantsStep
<1>6. ASSUME NEW u \in Threads \ {t}
      PROVE  Owner(u)' /\ Expectation(u)' /\ Walking(u)'
  <2>1. Stays(u) /\ Owner(u) /\ Expectation(u)
    BY DEF OthersStay, PoolInvariant, Owners, Expectations
  <2>2. Walking(u)'
    BY <1>3, <2>1, WalkStays
  <2>3. Owner(u)'
    BY <2>1 DEF Stays, Untouched, Owner, Chain, Distinct
  <2>4. Expectation(u)'
    BY <2>1 DEF Stays, Untouched, Expectation
  <2> QED
    BY <2>2, <2>3, <2>4
<1> QED
  BY <1>2, <1>4, <1>5, <1>6 DEF PoolInvariant, Owners, Expectations, Walks, Discipline

LEMMA BeginStep ==
  ASSUME PoolInvariant, NEW t \in Threads,
         AllocateBegin(t) \/ \E count \in 1 .. MaxBatch : BatchBegin(t, count)
  PROVE  PoolInvariant'
<1>1. PICK count \in 1 .. MaxBatch, label \in {"load", "loadBatch"} :
         /\ Begin(t, count, label)
         /\ label = "load" => count = 1 /\ (BatchesAlone => \A u \in Threads : ~InBatch(u))
         /\ label = "loadBatch" =>
               t \in BatchAllocators /\ (BatchesAlone => \A u \in Threads : wanted[u] = 0)
  <2>1. CASE AllocateBegin(t)
    <3>1. 1 \in 1 .. MaxBatch
      BY BoundsAssumption
    <3> QED
      BY <2>1, <3>1 DEF AllocateBegin
  <2>2. CASE \E count \in 1 .. MaxBatch : BatchBegin(t, count)
    BY <2>2 DEF BatchBegin
  <2> QED
    BY <2>1, <2>2
<1>2. /\ Untouched /\ pc[t] = "idle" /\ pc' = [pc EXCEPT ![t] = label]
      /\ wanted' = [wanted EXCEPT ![t] = count] /\ calls' = calls + 1
      /\ UNCHANGED <<allocated_count_, current, new_head, walk, got>>
  BY <1>1 DEF Begin, Untouched, listVars, Goto
<1>3. count \in Nat /\ MaxBatch \in Nat
  BY BoundsAssumption
<1>4. TypeOK'
  BY <1>2, <1>3 DEF PoolInvariant, TypeOK, Untouched
<1>5. pc'[t] = label /\ wanted'[t] = count /\ own'[t] = own[t] /\ OthersStay(t)
  BY <1>2 DEF PoolInvariant, TypeOK, Untouched, OthersStay, Stays
<1>6. Owner(t)'
  BY <1>2, <1>5 DEF PoolInvariant, Owners, Owner, Distinct
<1>7. Wanting(t)'
  BY <1>1, <1>5 DEF Wanting, InBatch
<1>8. Apart(t)
  <2>1. \A u \in Threads : InBatch(u) => u \in BatchAllocators
    BY DEF PoolInvariant, Wants, Wanting
  <2>2. InBatch(t)' <=> label = "loadBatch"
    BY <1>5 DEF InBatch
  <2>3. label = "loadBatch" => \A u \in Threads : wanted[u] = 0
    BY <1>1 DEF PoolInvariant, Discipline
  <2>4. \A u \in Threads : ~InBatch(u)
    <3>1. CASE label = "load"
      BY <1>1, <2>1, <3>1 DEF PoolInvariant, Discipline
    <3>2. CASE label = "loadBatch"
      <4>1. \A u \in Threads : InBatch(u) => wanted[u] # 0
        BY DEF PoolInvariant, Wants, Wanting
      <4> QED
        BY <2>3, <3>2, <4>1
    <3> QED
      BY <3>1, <3>2
  <2> QED
    BY <2>2, <2>3, <2>4 DEF Apart
<1>9. Expectation(t)' /\ Walking(t)'
  BY <1>5 DEF Expectation, Walking, InBatch
<1> QED
  BY <1>2, <1>4, <1>5, <1>6, <1>7, <1>8, <1>9, UntouchedStep

\* The load of the head, by either form.
LEMMA LoadHeadStep ==
  ASSUME PoolInvariant, NEW t \in Threads, NEW label, LoadHead(t, label),
         \/ pc[t] \in {"load", "pop"} /\ label = "test"
         \/ pc[t] \in {"loadBatch", "popBatch"} /\ label = "testBatch"
  PROVE  PoolInvariant'
<1>1. /\ Untouched /\ current' = [current EXCEPT ![t] = free_head_]
      /\ UNCHANGED <<allocated_count_, new_head, walk, calls>>
  BY DEF LoadHead, Untouched, listVars
<1>2. PICK goal \in {label, "idle"}, count \in {0, wanted[t]}, given \in {{}, got[t]} :
         /\ pc' = [pc EXCEPT ![t] = goal] /\ wanted' = [wanted EXCEPT ![t] = count]
         /\ got' = [got EXCEPT ![t] = given]
         /\ goal = "idle" => count = 0
         /\ goal = label => free_head_.ptr # Null /\ count = wanted[t]
  <2>1. wanted = [wanted EXCEPT ![t] = wanted[t]] /\ got = [got EXCEPT ![t] = got[t]]
    BY DEF PoolInvariant, TypeOK
  <2>2. CASE free_head_.ptr = Null
    BY <2>2 DEF LoadHead, Goto
  <2>3. CASE free_head_.ptr # Null
    BY <2>1, <2>3 DEF LoadHead, Goto
  <2> QED
    BY <2>2, <2>3
<1>3. TypeOK'
  <2>1. count \in Nat /\ given \in SUBSET Nodes /\ free_head_ \in TaggedPtr
    BY DEF PoolInvariant, TypeOK
  <2>2. current' \in [Threads -> TaggedPtr]
    BY <1>1, <2>1 DEF PoolInvariant, TypeOK
  <2>3. wanted' \in [Threads -> Nat] /\ got' \in [Threads -> SUBSET Nodes]
    BY <1>2, <2>1 DEF PoolInvariant, TypeOK
  <2>4. pc' \in [Threads -> {"idle", "load", "test", "pop", "add", "loadBatch", "testBatch",
                             "walk", "advance", "behind", "popBatch", "head", "link",
                             "push", "subtract"}]
    BY <1>2 DEF PoolInvariant, TypeOK
  <2> QED
    BY <1>1, <2>2, <2>3, <2>4 DEF PoolInvariant, TypeOK, Untouched
<1>4. /\ pc'[t] = goal /\ wanted'[t] = count /\ own'[t] = own[t] /\ current'[t] = free_head_
      /\ OthersStay(t)
  BY <1>1, <1>2 DEF PoolInvariant, TypeOK, Untouched, OthersStay, Stays
<1>5. Owner(t)'
  BY <1>4 DEF PoolInvariant, Owners, Owner, Distinct
<1>6. Wanting(t)'
  BY <1>2, <1>4 DEF PoolInvariant, Wants, Wanting, InBatch
<1>7. Apart(t)
  BY <1>4, StaysApart DEF InBatch
<1>8. goal = label => free_head_.ptr \in Nodes /\ Len(stack) >= 1 /\ free_head_.ptr = stack[1]
  BY <1>2, HeadInList DEF PoolInvariant
<1>9. free_head_.tag \in Nat
  BY DEF PoolInvariant, TypeOK, TaggedPtr
<1>10. Expectation(t)'
  BY <1>1, <1>4, <1>8, <1>9 DEF Expectation, Untouched
<1>11. Walking(t)'
  <2> SUFFICES ASSUME InBatch(t)' PROVE \E k \in Nat : Place(t, k)'
    BY DEF Walking
  <2>1. pc'[t] = "testBatch" /\ goal = label
    BY <1>4 DEF InBatch
  <2>2. Place(t, 0)'
    <3>1. 0 < Len(stack) /\ Len(stack) \in Nat
      BY <1>8, <2>1 DEF PoolInvariant, TypeOK
    <3> QED
      BY <1>1, <1>4, <1>8, <2>1, <3>1 DEF Place, Untouched
  <2> QED
    BY <2>2
<1> QED
  BY <1>1, <1>3, <1>4, <1>5, <1>6, <1>7, <1>10, <1>11, UntouchedStep

LEMMA AllocateLinkStep ==
  ASSUME PoolInvariant, NEW t \in Threads, AllocateLink(t)
  PROVE  PoolInvariant'
<1> DEFINE new == Tagged(next[current[t].ptr].ptr, current[t].tag + 1)
<1>1. /\ current[t].ptr \in Nodes /\ current[t] \in TaggedPtr /\ pc[t] = "test"
      /\ next[current[t].ptr] \in TaggedPtr
  BY DEF AllocateLink, PoolInvariant, Expectations, Expectation, TypeOK
<1>2. /\ Untouched /\ pc' = [pc EXCEPT ![t] = "pop"] /\ new_head' = [new_head EXCEPT ![t] = new]
      /\ UNCHANGED <<allocated_count_, current, wanted, walk, got, calls>>
  BY <1>1 DEF AllocateLink, Untouched, listVars, Goto, Link, NextTag
<1>3. new \in TaggedPtr
  BY <1>1 DEF TaggedPtr, Tagged
<1>4. TypeOK'
  BY <1>2, <1>3 DEF PoolInvariant, TypeOK, Untouched
<1>5. pc'[t] = "pop" /\ own'[t] = own[t] /\ new_head'[t] = new /\ OthersStay(t)
  BY <1>2 DEF PoolInvariant, TypeOK, Untouched, OthersStay, Stays
<1>6. Owner(t)'
  BY <1>1, <1>5 DEF PoolInvariant, Owners, Owner, Distinct
<1>7. Wanting(t)'
  BY <1>1, <1>2, <1>5 DEF PoolInvariant, Wants, Wanting, InBatch
<1>8. Apart(t)
  BY <1>2, <1>5, StaysApart DEF InBatch
<1>9. Expectation(t)' /\ Walking(t)'
  BY <1>1, <1>2, <1>5 DEF PoolInvariant, Expectations, Expectation, Walking, InBatch, Tagged,
                          Untouched
<1> QED
  BY <1>1, <1>2, <1>4, <1>5, <1>6, <1>7, <1>8, <1>9, UntouchedStep

LEMMA DeallocateHeadStep ==
  ASSUME PoolInvariant, NEW t \in Threads, DeallocateHead(t)
  PROVE  PoolInvariant'
<1>1. /\ Untouched /\ pc[t] \in {"head", "push"} /\ pc' = [pc EXCEPT ![t] = "link"]
      /\ current' = [current EXCEPT ![t] = free_head_]
      /\ UNCHANGED <<allocated_count_, new_head, wanted, walk, got, calls>>
  BY DEF DeallocateHead, Untouched, listVars, Goto
<1>2. TypeOK'
  BY <1>1 DEF PoolInvariant, TypeOK, Untouched
<1>3. pc'[t] = "link" /\ own'[t] = own[t] /\ OthersStay(t)
  BY <1>1 DEF PoolInvariant, TypeOK, Untouched, OthersStay, Stays
<1>4. Owner(t)'
  BY <1>1, <1>3 DEF PoolInvariant, Owners, Owner, Distinct, Chain, Untouched
<1>5. Wanting(t)'
  BY <1>1, <1>3 DEF PoolInvariant, Wants, Wanting, InBatch
<1>6. Apart(t)
  BY <1>1, <1>3, StaysApart DEF InBatch
<1>7. Expectation(t)' /\ Walking(t)'
  BY <1>3 DEF Expectation, Walking, InBatch
<1> QED
  BY <1>1, <1>2, <1>3, <1>4, <1>5, <1>6, <1>7, UntouchedStep

-----------------------------------------------------------------------------
(* The walk of a batch allocation.                                         *)

WalkSteps(t) == BatchWalk(t) \/ BatchTest(t) \/ BatchAdvance(t) \/ BatchBehind(t)

\* A step of the walk changes nothing that others see.
LEMMA WalkStep ==
  ASSUME PoolInvariant, NEW t \in Threads, InBatch(t), pc[t] # "loadBatch",
         NEW label \in {"walk", "advance", "behind", "popBatch"},
         pc' = [pc EXCEPT ![t] = label],
         Untouched, UNCHANGED <<allocated_count_, current, wanted, got, calls>>,
         NEW step \in [node : Nodes, count : Nat], walk' = [walk EXCEPT ![t] = step],
         NEW new \in TaggedPtr, new_head' = [new_head EXCEPT ![t] = new],
         \E k \in Nat : Place(t, k)'
  PROVE  PoolInvariant'
<1>1. TypeOK'
  <2>1. walk' \in [Threads -> [node : Nodes \cup {Null, Garbage}, count : Nat]]
    BY DEF PoolInvariant, TypeOK
  <2>2. pc' \in [Threads -> {"idle", "load", "test", "pop", "add", "loadBatch", "testBatch",
                             "walk", "advance", "behind", "popBatch", "head", "link",
                             "push", "subtract"}]
    BY DEF PoolInvariant, TypeOK
  <2>3. new_head' \in [Threads -> TaggedPtr]
    BY DEF PoolInvariant, TypeOK
  <2> QED
    BY <2>1, <2>2, <2>3 DEF PoolInvariant, TypeOK, Untouched
<1>2. pc'[t] = label /\ own'[t] = own[t] /\ OthersStay(t)
  BY DEF PoolInvariant, TypeOK, Untouched, OthersStay, Stays
<1>3. Owner(t)'
  BY <1>2 DEF PoolInvariant, Owners, Owner, Distinct, InBatch
<1>4. Wanting(t)'
  BY <1>2 DEF PoolInvariant, Wants, Wanting, InBatch
<1>5. Apart(t)
  BY <1>2, StaysApart
<1>6. Expectation(t)' /\ Walking(t)'
  BY <1>2 DEF Expectation, Walking
<1> QED
  BY <1>1, <1>2, <1>3, <1>4, <1>5, <1>6, UntouchedStep DEF InBatch

\* What the link of a block in the list is.
LEMMA LinkInList ==
  ASSUME PoolInvariant, NEW i \in 1 .. Len(stack)
  PROVE  /\ stack[i] \in Nodes /\ Link(stack[i]) = next[stack[i]]
         /\ Link(stack[i]) \in TaggedPtr
         /\ Link(stack[i]).ptr = IF i = Len(stack) THEN Null ELSE stack[i + 1]
         /\ Link(stack[i]).ptr = Null <=> i = Len(stack)
<1>1. \A j \in 1 .. Len(stack) : stack[j] \in Nodes
  BY DEF PoolInvariant, TypeOK
<1>2. \A n \in Nodes : n # Null
  BY DEF Nodes, Null
<1>3. Link(stack[i]) = next[stack[i]] /\ next[stack[i]] \in TaggedPtr
  BY <1>1 DEF Link, PoolInvariant, TypeOK
<1>4. Link(stack[i]).ptr = IF i = Len(stack) THEN Null ELSE stack[i + 1]
  BY <1>3 DEF PoolInvariant, FreeListIntact, ListIsStack
<1>5. i # Len(stack) => i + 1 \in 1 .. Len(stack)
  BY DEF PoolInvariant, TypeOK
<1> QED
  BY <1>1, <1>2, <1>3, <1>4, <1>5

LEMMA WalkStepsStep ==
  ASSUME PoolInvariant, NEW t \in Threads, WalkSteps(t)
  PROVE  PoolInvariant'
<1>1. /\ InBatch(t) /\ pc[t] \in {"testBatch", "walk", "advance", "behind"} /\ Untouched
      /\ UNCHANGED <<allocated_count_, current, wanted, got, calls>>
  BY DEF WalkSteps, BatchWalk, BatchTest, BatchAdvance, BatchBehind, InBatch, Untouched, listVars
<1>2. PICK k \in Nat : Place(t, k)
  BY <1>1 DEF PoolInvariant, Walks, Walking
<1>3. /\ Len(stack) \in Nat /\ wanted[t] \in Nat /\ wanted[t] >= 1 /\ k + 1 \in 1 .. Len(stack)
      /\ current[t].ptr \in Nodes /\ current[t].ptr = stack[k + 1]
  BY <1>1, <1>2, PlaceInList DEF Place, PoolInvariant, Wants, Wanting
<1>4. pc[t] # "testBatch" =>
         /\ walk[t].count \in Nat /\ walk[t].count >= 1 /\ walk[t].count <= wanted[t]
         /\ k + walk[t].count \in 1 .. Len(stack)
         /\ walk[t].node \in Nodes /\ walk[t].node = stack[k + walk[t].count]
  BY <1>1, <1>2, PlaceInList DEF Place
<1>5. /\ walk = [walk EXCEPT ![t] = walk[t]] /\ new_head = [new_head EXCEPT ![t] = new_head[t]]
      /\ new_head[t] \in TaggedPtr
      /\ walk[t] \in [node : Nodes \cup {Null, Garbage}, count : Nat]
  BY DEF PoolInvariant, TypeOK
<1>6. stack' = stack /\ wanted' = wanted /\ current' = current /\ next' = next
  BY <1>1 DEF Untouched
<1>7. CASE BatchWalk(t)
  <2> DEFINE step == [node |-> current[t].ptr, count |-> 1]
  <2>1. /\ pc' = [pc EXCEPT ![t] = "walk"] /\ walk' = [walk EXCEPT ![t] = step]
        /\ new_head' = new_head
    BY <1>7 DEF BatchWalk, Goto
  <2>2. step \in [node : Nodes, count : Nat]
    BY <1>3
  <2>3. pc'[t] = "walk" /\ walk'[t] = step
    BY <2>1 DEF PoolInvariant, TypeOK
  <2>4. Place(t, k)'
    BY <1>3, <1>6, <2>3 DEF Place
  <2> HIDE DEF step
  <2> QED
    BY <1>1, <1>5, <2>1, <2>2, <2>4, WalkStep
<1>8. CASE BatchTest(t)
  <2>1. pc[t] = "walk" /\ walk' = walk /\ new_head' = new_head
    BY <1>8 DEF BatchTest
  <2>2. walk[t] \in [node : Nodes, count : Nat]
    BY <1>4, <1>5, <2>1
  <2>3. GoesOn(t) <=> walk[t].count < wanted[t] /\ k + walk[t].count < Len(stack)
    <3>1. GoesOn(t) <=> walk[t].count < wanted[t] /\ k + walk[t].count # Len(stack)
      BY <1>4, <2>1, LinkInList DEF GoesOn
    <3> QED
      BY <1>3, <1>4, <2>1, <3>1
  <2>4. PICK label \in {"advance", "behind"} :
           /\ pc' = [pc EXCEPT ![t] = label]
           /\ label = "advance" <=> GoesOn(t)
    BY <1>8 DEF BatchTest, Goto
  <2>5. pc'[t] = label
    BY <2>4 DEF PoolInvariant, TypeOK
  <2>6. label = "behind" => walk[t].count = wanted[t] \/ k + walk[t].count = Len(stack)
    BY <1>3, <1>4, <2>1, <2>3, <2>4
  <2>7. Place(t, k)'
    BY <1>2, <1>6, <2>1, <2>3, <2>4, <2>5, <2>6 DEF Place
  <2> QED
    BY <1>1, <1>5, <2>1, <2>2, <2>4, <2>7, WalkStep
<1>9. CASE BatchAdvance(t)
  <2> DEFINE step == [node |-> stack[k + walk[t].count + 1], count |-> walk[t].count + 1]
  <2>1. /\ pc[t] = "advance" /\ pc' = [pc EXCEPT ![t] = "walk"] /\ new_head' = new_head
        /\ walk' = [walk EXCEPT ![t] = [node |-> Link(walk[t].node).ptr, count |-> walk[t].count + 1]]
    BY <1>9 DEF BatchAdvance, Goto
  <2>2. walk[t].count < wanted[t] /\ k + walk[t].count < Len(stack)
    BY <1>2, <2>1 DEF Place
  <2>3. k + walk[t].count + 1 \in 1 .. Len(stack) /\ walk[t].count + 1 <= wanted[t]
    BY <1>3, <1>4, <2>1, <2>2
  <2>4. Link(walk[t].node).ptr = stack[k + walk[t].count + 1]
    <3>1. k + walk[t].count # Len(stack)
      BY <1>3, <1>4, <2>1, <2>2
    <3> QED
      BY <1>4, <2>1, <3>1, LinkInList
  <2>5. step \in [node : Nodes, count : Nat]
    BY <1>4, <2>1, <2>3, LinkInList
  <2>6. walk' = [walk EXCEPT ![t] = step] /\ walk'[t] = step /\ pc'[t] = "walk"
    BY <2>1, <2>4 DEF PoolInvariant, TypeOK
  <2>7. Place(t, k)'
    <3>1. step.count = walk[t].count + 1 /\ step.node = stack[k + (walk[t].count + 1)]
      BY <1>4, <2>1
    <3> HIDE DEF step
    <3> QED
      BY <1>2, <1>3, <1>4, <1>6, <2>1, <2>3, <2>6, <3>1 DEF Place
  <2> HIDE DEF step
  <2> QED
    BY <1>1, <1>5, <2>1, <2>5, <2>6, <2>7, WalkStep
<1>10. CASE BatchBehind(t)
  <2> DEFINE new == next[walk[t].node]
  <2>1. /\ pc[t] = "behind" /\ pc' = [pc EXCEPT ![t] = "popBatch"] /\ walk' = walk
        /\ new_head' = [new_head EXCEPT ![t] = Link(walk[t].node)]
    BY <1>10 DEF BatchBehind, Goto
  <2>2. Link(walk[t].node) = new /\ new \in TaggedPtr
    BY <1>4, <2>1, LinkInList
  <2>3. walk[t] \in [node : Nodes, count : Nat]
    BY <1>4, <1>5, <2>1
  <2>4. pc'[t] = "popBatch" /\ new_head'[t] = new
    BY <2>1, <2>2 DEF PoolInvariant, TypeOK
  <2>5. Place(t, k)'
    BY <1>2, <1>6, <2>1, <2>4 DEF Place
  <2> HIDE DEF new
  <2> QED
    BY <1>1, <1>5, <2>1, <2>2, <2>3, <2>5, WalkStep
<1> QED
  BY <1>7, <1>8, <1>9, <1>10 DEF WalkSteps

-----------------------------------------------------------------------------
(* Steps that change the list.                                             *)

\* Leaving the end of a call: whatever the thread owned is claimed no more.
LEMMA CountStep ==
  ASSUME PoolInvariant, NEW t \in Threads, AllocateCount(t) \/ DeallocateCount(t)
  PROVE  PoolInvariant'
<1>1. /\ UNCHANGED <<free_head_, next, inUse, stack, current, new_head, wanted, walk, got, calls>>
      /\ pc[t] \in {"add", "subtract"}
      /\ own' = [own EXCEPT ![t] = <<>>] /\ pc' = [pc EXCEPT ![t] = "idle"]
  BY DEF AllocateCount, DeallocateCount, listVars, Goto
<1>2. own'[t] = <<>> /\ pc'[t] = "idle" /\ OthersStay(t)
  BY <1>1 DEF PoolInvariant, TypeOK, OthersStay, Stays
<1>3. TypeOK'
  <2>1. allocated_count_' \in Int
    <3>1. allocated_count_ \in Int /\ Len(own[t]) \in Nat
      BY DEF PoolInvariant, TypeOK
    <3> QED
      BY <3>1 DEF AllocateCount, DeallocateCount, Returned
  <2>2. <<>> \in Seq(Nodes) /\ own' \in [Threads -> Seq(Nodes)]
    BY <1>1 DEF PoolInvariant, TypeOK
  <2> QED
    BY <1>1, <2>1, <2>2 DEF PoolInvariant, TypeOK
<1>4. \A u \in Threads : Claimed(u)' \subseteq Claimed(u)
  <2>1. DOMAIN (<<>>) = {}
    OBVIOUS
  <2>2. Claimed(t)' = {}
    BY <1>2, <2>1 DEF Claimed, Range
  <2>3. \A u \in Threads \ {t} : Claimed(u)' = Claimed(u)
    BY <1>2 DEF Claimed, OthersStay, Stays
  <2> QED
    BY <2>2, <2>3
<1>5. Claims'
  BY <1>1, <1>4 DEF PoolInvariant, Claims
<1>6. SameList
  BY <1>1 DEF SameList
<1>7. FreeListIntact' /\ \A u \in Threads \ {t} : Walking(u)'
  BY <1>2, <1>6, ListStays, WalkStays DEF OthersStay
<1>8. \A u \in Threads \ {t} : Owner(u)' /\ Expectation(u)'
  BY <1>1, <1>2 DEF PoolInvariant, Owners, Owner, Expectations, Expectation, OthersStay, Stays,
                    Chain, Distinct
<1>9. Owner(t)' /\ Expectation(t)' /\ Walking(t)'
  BY <1>2 DEF Owner, Expectation, Walking, InBatch, Distinct
<1>10. Wants'
  <2>1. Wanting(t)'
    BY <1>1, <1>2 DEF PoolInvariant, Wants, Wanting, InBatch
  <2>2. Apart(t)
    BY <1>1, <1>2, StaysApart DEF InBatch
  <2> QED
    BY <1>2, <2>1, <2>2, WantsStep
<1> QED
  BY <1>3, <1>5, <1>7, <1>8, <1>9, <1>10 DEF PoolInvariant, Owners, Expectations, Walks, Discipline

\* What taking the first blocks of the list leaves.
LEMMA TakenList ==
  ASSUME PoolInvariant, NEW t \in Threads, NEW taken \in Seq(Nodes), Taken(t, taken),
         Len(taken) >= 1, Len(taken) <= Len(stack),
         \A i \in 1 .. Len(taken) : taken[i] = stack[i],
         new_head[t].ptr = next[stack[Len(taken)]].ptr
  PROVE  /\ FreeListIntact' /\ stack' \in Seq(Nodes) /\ Distinct(taken)
         /\ Range(taken) \subseteq Nodes /\ Range(taken) \cap inUse = {}
<1>1. PICK m \in Nat, n \in Nat : m = Len(taken) /\ n = Len(stack)
  BY DEF PoolInvariant, TypeOK
<1>2. /\ free_head_' = new_head[t] /\ next' = next
      /\ stack' = SubSeq(stack, m + 1, n) /\ inUse' = inUse \cup Range(taken)
      /\ m >= 1 /\ m <= n
  BY <1>1 DEF Taken
<1>3. /\ \A i \in 1 .. n : stack[i] \in Nodes /\ stack[i] \notin inUse
      /\ \A i \in 1 .. n : next[stack[i]].ptr = IF i = n THEN Null ELSE stack[i + 1]
      /\ \A i, j \in 1 .. n : stack[i] = stack[j] => i = j
      /\ \A b \in Nodes \ inUse : \E i \in 1 .. n : stack[i] = b
  BY <1>1 DEF PoolInvariant, TypeOK, FreeListIntact, ListIsStack, BlocksAccounted
<1>4. /\ \A i \in 1 .. m : i \in 1 .. n /\ taken[i] = stack[i]
      /\ Range(taken) = {taken[i] : i \in 1 .. m}
  BY <1>1, <1>2 DEF Range
<1>5. /\ stack' \in Seq(Nodes) /\ Len(stack') = n - m
      /\ \A i \in 1 .. n - m : stack'[i] = stack[m + i]
  <2>1. m + 1 \in Int /\ n \in Int /\ \A i \in m + 1 .. n : stack[i] \in Nodes
    BY <1>3
  <2>2. n - (m + 1) + 1 = n - m /\ n - m \in Nat
    BY <1>2
  <2>3. /\ SubSeq(stack, m + 1, n) \in Seq(Nodes)
        /\ Len(SubSeq(stack, m + 1, n)) = n - m
        /\ \A i \in 1 .. n - m : SubSeq(stack, m + 1, n)[i] = stack[(m + 1) + i - 1]
    BY <2>1, <2>2, SubSeqProperties
  <2>4. \A i \in 1 .. n - m : (m + 1) + i - 1 = m + i
    OBVIOUS
  <2> QED
    BY <1>2, <2>3, <2>4
<1>6. \A i \in 1 .. n - m : m + i \in 1 .. n /\ m + i > m
  BY <1>2
<1>7. ListIsStack'
  <2>1. stack' = <<>> <=> m = n
    BY <1>2, <1>5
  <2>2. m # n => 1 \in 1 .. n - m
    BY <1>2
  <2>3. free_head_'.ptr = IF stack' = <<>> THEN Null ELSE stack'[1]
    <3>1. free_head_'.ptr = IF m = n THEN Null ELSE stack[m + 1]
      BY <1>1, <1>2, <1>3, <1>4
    <3> QED
      BY <1>5, <2>1, <2>2, <3>1
  <2>4. ASSUME NEW i \in 1 .. n - m
        PROVE  next[stack'[i]].ptr = IF i = n - m THEN Null ELSE stack'[i + 1]
    <3>1. next[stack'[i]].ptr = IF m + i = n THEN Null ELSE stack[m + i + 1]
      BY <1>3, <1>5, <1>6
    <3>2. m + i = n <=> i = n - m
      BY <1>2
    <3>3. i # n - m => i + 1 \in 1 .. n - m /\ m + (i + 1) = m + i + 1
      BY <1>2
    <3> QED
      BY <1>5, <3>1, <3>2, <3>3
  <2> QED
    BY <1>2, <1>5, <2>3, <2>4 DEF ListIsStack
<1>8. BlocksAccounted'
  <2>1. ASSUME NEW i \in 1 .. n - m
        PROVE  stack'[i] \notin inUse'
    <3>1. \A j \in 1 .. m : j # m + i
      BY <1>2
    <3> QED
      BY <1>2, <1>3, <1>4, <1>5, <1>6, <3>1
  <2>2. ASSUME NEW i \in 1 .. n - m, NEW j \in 1 .. n - m, stack'[i] = stack'[j]
        PROVE  i = j
    <3>1. m + i = m + j
      BY <1>3, <1>5, <1>6, <2>2
    <3> QED
      BY <3>1
  <2>3. ASSUME NEW b \in Nodes \ inUse'
        PROVE  \E i \in 1 .. n - m : stack'[i] = b
    <3>1. PICK i \in 1 .. n : stack[i] = b
      BY <1>2, <1>3
    <3>2. i \notin 1 .. m
      BY <1>2, <1>4, <3>1
    <3>3. i - m \in 1 .. n - m /\ m + (i - m) = i
      BY <3>2
    <3> QED
      BY <1>5, <3>1, <3>3
  <2> QED
    BY <1>5, <2>1, <2>2, <2>3 DEF BlocksAccounted
<1>9. Distinct(taken)
  BY <1>1, <1>3, <1>4 DEF Distinct
<1>10. Range(taken) \subseteq Nodes /\ Range(taken) \cap inUse = {}
  BY <1>3, <1>4
<1> QED
  BY <1>5, <1>7, <1>8, <1>9, <1>10 DEF FreeListIntact

LEMMA TakenStep ==
  ASSUME PoolInvariant, NEW t \in Threads, NEW taken \in Seq(Nodes), Taken(t, taken),
         Len(taken) >= 1, Len(taken) <= Len(stack),
         \A i \in 1 .. Len(taken) : taken[i] = stack[i],
         new_head[t].ptr = next[stack[Len(taken)]].ptr,
         pc[t] \in {"pop", "popBatch"},
         pc[t] = "pop" => new_head[t].tag = free_head_.tag + 1
  PROVE  PoolInvariant'
<1>1. /\ FreeListIntact' /\ stack' \in Seq(Nodes) /\ Distinct(taken)
      /\ Range(taken) \subseteq Nodes /\ Range(taken) \cap inUse = {}
  BY TakenList
<1>2. /\ free_head_' = new_head[t] /\ inUse' = inUse \cup Range(taken)
      /\ own' = [own EXCEPT ![t] = taken] /\ got' = [got EXCEPT ![t] = Range(taken)]
      /\ wanted' = [wanted EXCEPT ![t] = 0] /\ pc' = [pc EXCEPT ![t] = "add"]
      /\ UNCHANGED <<next, allocated_count_, current, new_head, walk, calls>>
  BY DEF Taken, Goto
<1>3. pc'[t] = "add" /\ own'[t] = taken /\ wanted'[t] = 0 /\ OthersStay(t)
  BY <1>2 DEF PoolInvariant, TypeOK, OthersStay, Stays
<1>4. TypeOK'
  BY <1>1, <1>2 DEF PoolInvariant, TypeOK
<1>5. Claims'
  <2>1. Claimed(t)' = Range(taken)
    BY <1>3 DEF Claimed
  <2>2. \A u \in Threads \ {t} : Claimed(u)' = Claimed(u)
    BY <1>3 DEF Claimed, OthersStay, Stays
  <2>3. /\ \A u \in Threads : Claimed(u) \subseteq inUse
        /\ \A u, v \in Threads : u # v => Claimed(u) \cap Claimed(v) = {}
    BY DEF PoolInvariant, Claims
  <2>4. \A u \in Threads : Claimed(u)' \subseteq inUse'
    BY <1>2, <2>1, <2>2, <2>3
  <2>5. \A u \in Threads \ {t} : Claimed(u) \cap Range(taken) = {}
    BY <1>1, <2>3
  <2>6. ASSUME NEW u \in Threads, NEW v \in Threads, u # v
        PROVE  Claimed(u)' \cap Claimed(v)' = {}
    <3>1. CASE u = t
      BY <2>1, <2>2, <2>5, <2>6, <3>1
    <3>2. CASE v = t
      BY <2>1, <2>2, <2>5, <2>6, <3>2
    <3>3. CASE u # t /\ v # t
      BY <2>2, <2>3, <2>6, <3>3
    <3> QED
      BY <3>1, <3>2, <3>3
  <2> QED
    BY <2>4, <2>6 DEF Claims
<1>6. \A u \in Threads \ {t} :
         ~InBatch(u) /\ (pc[t] = "popBatch" => pc[u] \notin {"load", "test", "pop"})
  <2>1. wanted[t] # 0
    BY DEF PoolInvariant, Wants, Wanting, InBatch
  <2> QED
    BY <2>1 DEF PoolInvariant, Wants, Wanting, InBatch
<1>7. Wants'
  <2>1. Wanting(t)'
    BY <1>3 DEF Wanting, InBatch
  <2>2. Apart(t)
    BY <1>3, StaysApart DEF InBatch
  <2> QED
    BY <1>3, <2>1, <2>2, WantsStep
<1>8. ASSUME NEW u \in Threads \ {t}
      PROVE  Owner(u)' /\ Expectation(u)' /\ Walking(u)'
  <2>1. Stays(u) /\ Owner(u) /\ Expectation(u)
    BY <1>3 DEF OthersStay, PoolInvariant, Owners, Expectations
  <2>2. Owner(u)'
    BY <1>2, <2>1 DEF Stays, Owner, Chain, Distinct
  <2>3. current[u].tag \in Nat /\ free_head_.tag \in Nat
    BY DEF PoolInvariant, TypeOK, TaggedPtr
  <2>4. Expectation(u)'
    BY <1>2, <1>6, <2>1, <2>3 DEF Stays, Expectation
  <2>5. Walking(u)'
    BY <1>6, <2>1 DEF Stays, Walking, InBatch
  <2> QED
    BY <2>2, <2>4, <2>5
<1>9. Owner(t)' /\ Expectation(t)' /\ Walking(t)'
  BY <1>1, <1>3 DEF Owner, Expectation, Walking, InBatch
<1> QED
  BY <1>1, <1>4, <1>5, <1>7, <1>8, <1>9 DEF PoolInvariant, Owners, Expectations, Walks, Discipline

\* An exchange that succeeds found the block the thread had seen first in the list.
LEMMA SingleTaken ==
  ASSUME PoolInvariant, NEW t \in Threads, AllocateExchange(t)
  PROVE  /\ wanted[t] = 1
         /\ <<current[t].ptr>> \in Seq(Nodes) /\ Len(<<current[t].ptr>>) = 1
         /\ 1 <= Len(stack) /\ <<current[t].ptr>>[1] = stack[1]
         /\ new_head[t].ptr = next[stack[1]].ptr /\ new_head[t].tag = free_head_.tag + 1
<1>1. pc[t] = "pop" /\ free_head_ = current[t]
  BY DEF AllocateExchange, Taken
<1>2. current[t].ptr \in Nodes /\ current[t].ptr # Null
  BY <1>1 DEF PoolInvariant, Expectations, Expectation, Nodes, Null
<1>3. Len(stack) >= 1 /\ free_head_.ptr = stack[1]
  BY <1>1, <1>2, HeadInList DEF PoolInvariant
<1>4. new_head[t].ptr = next[stack[1]].ptr /\ new_head[t].tag = free_head_.tag + 1
  BY <1>1, <1>3 DEF PoolInvariant, Expectations, Expectation
<1>5. wanted[t] = 1
  BY <1>1 DEF PoolInvariant, Wants, Wanting
<1> QED
  BY <1>1, <1>2, <1>3, <1>4, <1>5 DEF PoolInvariant, TypeOK

LEMMA AllocateExchangeStep ==
  ASSUME PoolInvariant, NEW t \in Threads, AllocateExchange(t)
  PROVE  PoolInvariant'
<1> DEFINE taken == <<current[t].ptr>>
<1>1. Taken(t, taken) /\ pc[t] = "pop"
  BY DEF AllocateExchange
<1>2. /\ taken \in Seq(Nodes) /\ Len(taken) = 1 /\ 1 <= Len(stack) /\ taken[1] = stack[1]
      /\ new_head[t].ptr = next[stack[1]].ptr /\ new_head[t].tag = free_head_.tag + 1
  BY SingleTaken
<1> HIDE DEF taken
<1>3. \A i \in 1 .. Len(taken) : taken[i] = stack[i]
  BY <1>2
<1>4. Len(taken) >= 1 /\ Len(taken) <= Len(stack) /\ new_head[t].ptr = next[stack[Len(taken)]].ptr
  BY <1>2
<1> QED
  BY <1>1, <1>2, <1>3, <1>4, TakenStep

\* The blocks collected behind the exchange are those that were walked over.
LEMMA CollectedBlocks ==
  ASSUME PoolInvariant, NEW t \in Threads, BatchExchange(t)
  PROVE  /\ Collected(t) = [i \in 1 .. walk[t].count |-> stack[i]]
         /\ walk[t].count \in 1 .. wanted[t] /\ walk[t].count <= Len(stack)
         /\ walk[t].count < wanted[t] => walk[t].count = Len(stack)
         /\ new_head[t] = next[stack[walk[t].count]]
<1>1. pc[t] = "popBatch" /\ free_head_ = current[t] /\ InBatch(t)
  BY DEF BatchExchange, Taken, InBatch
<1>2. PICK k \in Nat : Place(t, k)
  BY <1>1 DEF PoolInvariant, Walks, Walking
<1>3. k = 0
  <2>1. k + 1 \in 1 .. Len(stack) /\ current[t].ptr = stack[k + 1] /\ current[t].ptr \in Nodes
    BY <1>1, <1>2, PlaceInList DEF Place
  <2>2. current[t].ptr # Null
    BY <2>1 DEF Nodes, Null
  <2>3. Len(stack) >= 1 /\ free_head_.ptr = stack[1]
    BY <1>1, <2>2, HeadInList DEF PoolInvariant
  <2>4. 1 \in 1 .. Len(stack) /\ stack[1] = stack[k + 1]
    BY <1>1, <2>1, <2>3 DEF PoolInvariant, TypeOK
  <2>5. k + 1 = 1
    BY <2>1, <2>4 DEF PoolInvariant, FreeListIntact, BlocksAccounted
  <2> QED
    BY <2>5
<1>4. PICK c \in Nat : c = walk[t].count
  BY <1>1, <1>2, PlaceInList
<1>5. /\ c >= 1 /\ c <= wanted[t] /\ wanted[t] \in Nat /\ c \in 1 .. Len(stack) /\ Len(stack) \in Nat
      /\ current[t].ptr = stack[1] /\ new_head[t] = next[stack[c]]
      /\ c = wanted[t] \/ c = Len(stack)
  <2>1. k + 1 = 1 /\ k + c = c
    BY <1>3
  <2> QED
    BY <1>1, <1>2, <1>4, <2>1, PlaceInList DEF Place
<1>6. \A i \in 1 .. c : i # 1 => i - 1 \in 1 .. c /\ Link(stack[i - 1]).ptr = stack[i]
  <2> SUFFICES ASSUME NEW i \in 1 .. c, i # 1
               PROVE  i - 1 \in 1 .. c /\ Link(stack[i - 1]).ptr = stack[i]
    OBVIOUS
  <2>1. i - 1 \in 1 .. c /\ i - 1 \in 1 .. Len(stack) /\ i - 1 # Len(stack) /\ (i - 1) + 1 = i
    BY <1>5
  <2> QED
    BY <2>1, LinkInList
<1> DEFINE follow(g) == [i \in 1 .. c |-> IF i = 1 THEN current[t].ptr ELSE Link(g[i - 1]).ptr]
           node == Collected(t)
           seen == [i \in 1 .. c |-> stack[i]]
<1>7. node = CHOOSE g : g = follow(g)
  BY <1>4 DEF Collected
<1>8. seen = follow(seen)
  <2>1. \A i \in 1 .. c : seen[i] = IF i = 1 THEN current[t].ptr ELSE Link(seen[i - 1]).ptr
    BY <1>5, <1>6
  <2> QED
    BY <2>1
<1>9. node = follow(node)
  <2> HIDE DEF node, follow
  <2> QED
    BY <1>7, <1>8
<1>10. node = seen
  <2>1. DOMAIN node = 1 .. c /\ node = [i \in 1 .. c |-> node[i]]
    BY <1>9
  <2> DEFINE wrong == {i \in 1 .. c : node[i] # stack[i]}
  <2>2. wrong = {}
    <3> SUFFICES ASSUME wrong # {} PROVE FALSE
      OBVIOUS
    <3>1. wrong \subseteq Nat
      OBVIOUS
    <3>2. PICK i \in wrong : \A j \in wrong : ~ (<<j, i>> \in OpToRel(<, Nat))
      <4> HIDE DEF wrong
      <4> QED
        BY <3>1, NatLessThanWellFounded, WFMin
    <3>3. \A j \in wrong : ~ (j < i)
      <4> HIDE DEF wrong
      <4> QED
        BY <3>1, <3>2 DEF OpToRel
    <3>4. i \in 1 .. c /\ node[i] # stack[i]
      OBVIOUS
    <3>5. node[i] = IF i = 1 THEN current[t].ptr ELSE Link(node[i - 1]).ptr
      BY <1>9, <3>4
    <3>6. i # 1
      BY <1>5, <3>4, <3>5
    <3>7. i - 1 \in 1 .. c /\ i - 1 < i
      BY <3>4, <3>6
    <3>8. node[i - 1] = stack[i - 1]
      BY <3>3, <3>7
    <3>9. node[i] = stack[i]
      BY <1>6, <3>4, <3>5, <3>6, <3>8
    <3> QED
      BY <3>4, <3>9
  <2>3. \A i \in 1 .. c : node[i] = stack[i]
    BY <2>2
  <2> HIDE DEF node
  <2> QED
    BY <2>1, <2>3
<1> HIDE DEF node, follow
<1> QED
  BY <1>4, <1>5, <1>10 DEF node

LEMMA BatchTaken ==
  ASSUME PoolInvariant, NEW t \in Threads, BatchExchange(t)
  PROVE  /\ Collected(t) \in Seq(Nodes) /\ Len(Collected(t)) = walk[t].count
         /\ Len(Collected(t)) >= 1 /\ Len(Collected(t)) <= Len(stack)
         /\ Len(Collected(t)) <= wanted[t] /\ wanted[t] \in Nat
         /\ Len(Collected(t)) < wanted[t] => Len(Collected(t)) = Len(stack)
         /\ \A i \in 1 .. Len(Collected(t)) : Collected(t)[i] = stack[i]
         /\ new_head[t].ptr = next[stack[Len(Collected(t))]].ptr
<1> DEFINE c == walk[t].count
           node == Collected(t)
<1>1. /\ node = [i \in 1 .. c |-> stack[i]] /\ c \in 1 .. wanted[t] /\ c <= Len(stack)
      /\ c < wanted[t] => c = Len(stack)
      /\ new_head[t] = next[stack[c]]
  BY CollectedBlocks
<1>2. stack \in Seq(Nodes) /\ Len(stack) \in Nat /\ wanted[t] \in Nat
  BY DEF PoolInvariant, TypeOK
<1> HIDE DEF c, node
<1>3. c \in Nat /\ c >= 1 /\ \A i \in 1 .. c : i \in 1 .. Len(stack)
  BY <1>1, <1>2
<1>4. node \in [1 .. c -> Nodes]
  BY <1>1, <1>2, <1>3
<1>5. node \in Seq(Nodes) /\ Len(node) = c
  BY <1>3, <1>4
<1> QED
  BY <1>1, <1>2, <1>3, <1>5 DEF c, node

LEMMA BatchExchangeStep ==
  ASSUME PoolInvariant, NEW t \in Threads, BatchExchange(t)
  PROVE  PoolInvariant'
<1>1. Taken(t, Collected(t)) /\ pc[t] = "popBatch"
  BY DEF BatchExchange
<1> QED
  BY <1>1, BatchTaken, TakenStep

-----------------------------------------------------------------------------
(* Steps that write links of blocks in use.                                *)

Writes(W) ==
    /\ W \subseteq inUse
    /\ \A n \in Nodes \ W : next'[n] = next[n]
    /\ UNCHANGED <<free_head_, inUse, stack>>

\* The list holds no block in use.
LEMMA WritesSpareList ==
  ASSUME PoolInvariant, NEW W, Writes(W)
  PROVE  SameList /\ FreeListIntact'
<1>1. \A i \in 1 .. Len(stack) : stack[i] \in Nodes
  BY DEF PoolInvariant, TypeOK
<1>2. \A i \in 1 .. Len(stack) : next'[stack[i]] = next[stack[i]]
  BY <1>1 DEF Writes, PoolInvariant, FreeListIntact, BlocksAccounted
<1>3. SameList
  BY <1>2 DEF SameList, Writes
<1> QED
  BY <1>3, ListStays

\* The writes of one thread leave what the others have and expect.
LEMMA WritesSpareOthers ==
  ASSUME PoolInvariant, NEW W, Writes(W), NEW u \in Threads, W \cap Claimed(u) = {}, Stays(u)
  PROVE  Owner(u)' /\ Expectation(u)' /\ Walking(u)' /\ Claimed(u)' = Claimed(u)
<1> USE DEF PoolInvariant
<1>1. Owner(u) /\ Expectation(u)
  BY DEF Owners, Expectations
<1>2. Claimed(u)' = Claimed(u)
  BY DEF Claimed, Stays
<1>3. pc[u] \in {"head", "link", "push"} =>
         /\ Len(own[u]) \in Nat /\ Len(own[u]) >= 1
         /\ \A i \in 1 .. Len(own[u]) : next'[own[u][i]] = next[own[u][i]]
  <2> SUFFICES ASSUME pc[u] \in {"head", "link", "push"}
               PROVE  /\ Len(own[u]) \in Nat /\ Len(own[u]) >= 1
                      /\ \A i \in 1 .. Len(own[u]) : next'[own[u][i]] = next[own[u][i]]
    OBVIOUS
  <2>1. own[u] \in Seq(Nodes) /\ own[u] # <<>>
    BY <1>1 DEF TypeOK, Owner, Chain
  <2>2. \A i \in 1 .. Len(own[u]) : own[u][i] \in Nodes /\ own[u][i] \in Claimed(u)
    BY <2>1 DEF Claimed, Range
  <2>3. Len(own[u]) \in Nat /\ Len(own[u]) >= 1
    BY <2>1
  <2> QED
    BY <2>2, <2>3 DEF Writes
<1>4. Owner(u)'
  <2>1. pc[u] \in {"head", "link", "push"} => Chain(own[u])'
    <3> SUFFICES ASSUME pc[u] \in {"head", "link", "push"} PROVE Chain(own[u])'
      OBVIOUS
    <3>1. Chain(own[u]) /\ own'[u] = own[u]
      BY <1>1 DEF Owner, Stays
    <3>2. \A i \in 1 .. Len(own[u]) - 1 : i \in 1 .. Len(own[u])
      BY <1>3
    <3> QED
      BY <1>3, <3>1, <3>2 DEF Chain
  <2>2. Distinct(own[u])'
    BY <1>1 DEF Owner, Stays, Distinct
  <2> QED
    BY <1>1, <2>1, <2>2 DEF Owner, Stays
<1>5. Expectation(u)'
  <2>1. free_head_' = free_head_ /\ Stays(u)
    BY DEF Writes
  <2>2. pc[u] = "pop" /\ current[u].tag = free_head_.tag =>
           next'[current[u].ptr] = next[current[u].ptr]
    <3>1. \A n \in Nodes : n # Null
      BY DEF Nodes, Null
    <3> QED
      BY <1>1, <3>1, HeadInList DEF Expectation, Writes
  <2>3. pc[u] = "push" => Len(own[u]) \in 1 .. Len(own[u])
    BY <1>3
  <2> QED
    BY <1>1, <1>3, <2>1, <2>2, <2>3 DEF Expectation, Stays
<1>6. Walking(u)'
  BY WritesSpareList, WalkStays
<1> QED
  BY <1>2, <1>4, <1>5, <1>6

\* A client gives back blocks nobody claims, different ones.
LEMMA DeallocateBeginStep ==
  ASSUME PoolInvariant, NEW t \in Threads, NEW blocks \in Returns, DeallocateBegin(t, blocks)
  PROVE  PoolInvariant'
<1> USE DEF PoolInvariant
<1>1. /\ pc[t] = "idle" /\ pc' = [pc EXCEPT ![t] = "head"] /\ own' = [own EXCEPT ![t] = blocks]
      /\ calls' = calls + 1
      /\ UNCHANGED <<free_head_, inUse, stack, allocated_count_, current, new_head,
                     wanted, walk, got>>
  BY DEF DeallocateBegin, Goto
<1>2. /\ blocks \in Seq(Nodes) /\ Len(blocks) \in Nat /\ Len(blocks) >= 1 /\ blocks # <<>>
      /\ \A i \in 1 .. Len(blocks) : blocks[i] \in Held
      /\ \A i, j \in 1 .. Len(blocks) : blocks[i] = blocks[j] => i = j
  <2>1. PICK k \in 1 .. MaxBatch : blocks \in [1 .. k -> Held]
    BY DEF Returns
  <2>2. k \in Nat /\ k >= 1
    BY BoundsAssumption
  <2>3. Held \subseteq Nodes
    BY DEF Held, TypeOK
  <2>4. blocks \in Seq(Nodes) /\ Len(blocks) = k /\ DOMAIN blocks = 1 .. k
    BY <2>1, <2>2, <2>3
  <2>5. blocks # <<>>
    BY <2>2, <2>4
  <2> QED
    BY <2>1, <2>2, <2>4, <2>5 DEF Returns
<1>3. /\ Range(blocks) \subseteq inUse
      /\ \A u \in Threads : Range(blocks) \cap Claimed(u) = {}
  BY <1>2 DEF Held, Range
<1>4. Writes(Range(blocks))
  <2>1. \A n \in Nodes \ Range(blocks) : ~ \E i \in 1 .. Len(blocks) : blocks[i] = n
    BY <1>2 DEF Range
  <2> QED
    BY <1>1, <1>3, <2>1 DEF DeallocateBegin, Writes
<1>5. \A i \in 1 .. Len(blocks) :
         next'[blocks[i]] = IF i < Len(blocks) THEN Tagged(blocks[i + 1], 0) ELSE NoPtr
  <2> SUFFICES ASSUME NEW i \in 1 .. Len(blocks)
               PROVE  next'[blocks[i]] =
                         IF i < Len(blocks) THEN Tagged(blocks[i + 1], 0) ELSE NoPtr
    OBVIOUS
  <2> DEFINE j == CHOOSE j \in 1 .. Len(blocks) : blocks[j] = blocks[i]
  <2>1. j = i
    BY <1>2
  <2>2. blocks[i] \in Nodes
    BY <1>2
  <2>3. next'[blocks[i]] = IF j < Len(blocks) THEN Tagged(blocks[j + 1], 0) ELSE NoPtr
    BY <2>2 DEF DeallocateBegin
  <2> QED
    BY <2>1, <2>3
<1>6. own'[t] = blocks /\ pc'[t] = "head" /\ wanted'[t] = wanted[t] /\ OthersStay(t)
  BY <1>1 DEF TypeOK, OthersStay, Stays
<1>7. \A u \in Threads \ {t} :
         Owner(u)' /\ Expectation(u)' /\ Walking(u)' /\ Claimed(u)' = Claimed(u)
  BY <1>3, <1>4, <1>6, WritesSpareOthers DEF OthersStay
<1>8. Claimed(t)' = Range(blocks)
  BY <1>6 DEF Claimed
<1>9. Owner(t)' /\ Expectation(t)' /\ Walking(t)'
  <2>1. Chain(own[t])'
    <3>1. ASSUME NEW i \in 1 .. Len(blocks) - 1
          PROVE  next'[blocks[i]].ptr = blocks[i + 1]
      <4>1. Len(blocks) \in Nat
        BY <1>2
      <4>2. i \in 1 .. Len(blocks) /\ i < Len(blocks)
        BY <4>1
      <4>3. next'[blocks[i]] = Tagged(blocks[i + 1], 0)
        BY <1>5, <4>2
      <4> QED
        BY <4>3 DEF Tagged
    <3> QED
      BY <1>2, <1>6, <3>1 DEF Chain
  <2>2. Distinct(own[t])'
    BY <1>2, <1>6 DEF Distinct
  <2> QED
    BY <1>6, <2>1, <2>2 DEF Owner, Expectation, Walking, InBatch
<1>10. TypeOK'
  <2>1. next' \in [Nodes -> TaggedPtr]
    <3>1. next' = [n \in Nodes |-> next'[n]]
      BY DEF DeallocateBegin
    <3>2. ASSUME NEW i \in 1 .. Len(blocks)
          PROVE  next'[blocks[i]] \in TaggedPtr
      <4>1. Len(blocks) \in Nat
        BY <1>2
      <4>2. i < Len(blocks) => i + 1 \in 1 .. Len(blocks)
        BY <4>1
      <4>3. i < Len(blocks) => blocks[i + 1] \in Nodes
        BY <1>2, <4>2
      <4>4. \A n \in Nodes : Tagged(n, 0) \in TaggedPtr
        BY DEF Tagged, TaggedPtr
      <4>5. NoPtr \in TaggedPtr
        BY DEF NoPtr, Tagged, TaggedPtr
      <4> QED
        BY <1>5, <4>3, <4>4, <4>5
    <3>3. \A n \in Nodes : next'[n] \in TaggedPtr
      <4> SUFFICES ASSUME NEW n \in Nodes PROVE next'[n] \in TaggedPtr
        OBVIOUS
      <4>1. CASE n \in Range(blocks)
        <5>1. PICK i \in 1 .. Len(blocks) : blocks[i] = n
          BY <1>2, <4>1 DEF Range
        <5> QED
          BY <3>2, <5>1
      <4>2. CASE n \notin Range(blocks)
        BY <1>4, <4>2 DEF Writes, TypeOK
      <4> QED
        BY <4>1, <4>2
    <3> QED
      BY <3>1, <3>3
  <2>2. own' \in [Threads -> Seq(Nodes)]
    BY <1>1, <1>2 DEF TypeOK
  <2> QED
    BY <1>1, <2>1, <2>2 DEF TypeOK
<1>11. Claims'
  BY <1>1, <1>3, <1>7, <1>8 DEF Claims
<1>12. FreeListIntact'
  BY <1>4, WritesSpareList
<1>13. Wants'
  <2>1. Wanting(t)'
    BY <1>1, <1>6 DEF Wants, Wanting, InBatch
  <2>2. Apart(t)
    BY <1>6, StaysApart DEF InBatch
  <2> QED
    BY <1>6, <2>1, <2>2, WantsStep
<1> QED
  BY <1>7, <1>9, <1>10, <1>11, <1>12, <1>13 DEF Owners, Expectations, Walks, Discipline

\* What a call that gives blocks back owns.
LEMMA OwnedChain ==
  ASSUME PoolInvariant, NEW t \in Threads, pc[t] \in {"head", "link", "push"}
  PROVE  /\ Chain(own[t]) /\ Distinct(own[t]) /\ own[t] \in Seq(Nodes)
         /\ Len(own[t]) \in Nat /\ Len(own[t]) >= 1
         /\ \A i \in 1 .. Len(own[t]) : own[t][i] \in Nodes /\ own[t][i] \in Range(own[t])
         /\ \A n \in Range(own[t]) : \E i \in 1 .. Len(own[t]) : own[t][i] = n
         /\ Claimed(t) = Range(own[t]) /\ Range(own[t]) \subseteq inUse
<1> USE DEF PoolInvariant
<1>1. Chain(own[t]) /\ Distinct(own[t])
  BY DEF Owners, Owner
<1>2. own[t] \in Seq(Nodes) /\ own[t] # <<>>
  BY <1>1 DEF TypeOK, Chain
<1>3. Len(own[t]) \in Nat /\ Len(own[t]) >= 1 /\ DOMAIN own[t] = 1 .. Len(own[t])
  BY <1>2
<1>4. Claimed(t) = Range(own[t])
  BY DEF Claimed
<1>5. Range(own[t]) \subseteq inUse
  BY <1>4 DEF Claims
<1> QED
  BY <1>1, <1>2, <1>3, <1>4, <1>5 DEF Range

LEMMA DeallocateLinkStep ==
  ASSUME PoolInvariant, NEW t \in Threads, DeallocateLink(t)
  PROVE  PoolInvariant'
<1> USE DEF PoolInvariant
<1> DEFINE last == own[t][Len(own[t])]
<1>1. /\ pc[t] = "link" /\ pc' = [pc EXCEPT ![t] = "push"]
      /\ next' = [next EXCEPT ![last] = current[t]]
      /\ new_head' = [new_head EXCEPT ![t] = Tagged(own[t][1], current[t].tag + 1)]
      /\ UNCHANGED <<free_head_, inUse, stack, allocated_count_, current, own, wanted,
                     walk, got, calls>>
  BY DEF DeallocateLink, NextTag, Goto
<1>2. /\ Chain(own[t]) /\ Distinct(own[t]) /\ Len(own[t]) \in Nat /\ Len(own[t]) >= 1
      /\ last \in Nodes /\ own[t][1] \in Nodes
      /\ last \in inUse /\ last \in Claimed(t)
  <2>1. /\ Len(own[t]) \in Nat /\ Len(own[t]) >= 1
    BY <1>1, OwnedChain
  <2>2. Len(own[t]) \in 1 .. Len(own[t]) /\ 1 \in 1 .. Len(own[t])
    BY <2>1
  <2> QED
    BY <1>1, <2>2, OwnedChain
<1>3. current[t] \in TaggedPtr /\ current[t].tag \in Nat
  BY DEF TypeOK, TaggedPtr
<1>4. next'[last] = current[t] /\ \A n \in Nodes \ {last} : next'[n] = next[n]
  BY <1>1, <1>2 DEF TypeOK
<1>5. Writes({last})
  BY <1>1, <1>2, <1>4 DEF Writes
<1>6. /\ pc'[t] = "push" /\ new_head'[t] = Tagged(own[t][1], current[t].tag + 1)
      /\ wanted'[t] = wanted[t] /\ OthersStay(t)
  BY <1>1 DEF TypeOK, OthersStay, Stays
<1>7. \A u \in Threads \ {t} :
         Owner(u)' /\ Expectation(u)' /\ Walking(u)' /\ Claimed(u)' = Claimed(u)
  <2>1. \A u \in Threads \ {t} : {last} \cap Claimed(u) = {}
    BY <1>2 DEF Claims
  <2> HIDE DEF last
  <2> QED
    BY <1>5, <1>6, <2>1, WritesSpareOthers DEF OthersStay
<1>8. Claimed(t)' = Claimed(t)
  BY <1>1, <1>6 DEF Claimed
<1>9. Owner(t)'
  <2>1. ASSUME NEW i \in 1 .. Len(own[t]) - 1
        PROVE  next'[own[t][i]] = next[own[t][i]]
    <3>1. /\ i \in 1 .. Len(own[t]) /\ Len(own[t]) \in 1 .. Len(own[t])
          /\ i # Len(own[t])
      BY <1>2
    <3>2. own[t][i] # last /\ own[t][i] \in Nodes
      BY <1>1, <1>2, <3>1, OwnedChain DEF Distinct
    <3> QED
      BY <1>4, <3>2
  <2>2. Chain(own[t])'
    BY <1>1, <1>2, <2>1 DEF Chain
  <2>3. Distinct(own[t])'
    BY <1>1, <1>2 DEF Distinct
  <2> QED
    BY <1>6, <2>2, <2>3 DEF Owner
<1>10. Expectation(t)' /\ Walking(t)'
  BY <1>1, <1>4, <1>6 DEF Expectation, Tagged, Walking, InBatch
<1>11. TypeOK'
  <2>1. Tagged(own[t][1], current[t].tag + 1) \in TaggedPtr
    BY <1>2, <1>3 DEF Tagged, TaggedPtr
  <2>2. next' \in [Nodes -> TaggedPtr]
    BY <1>1, <1>3 DEF TypeOK
  <2>3. new_head' \in [Threads -> TaggedPtr]
    BY <1>1, <2>1 DEF TypeOK
  <2> QED
    BY <1>1, <2>2, <2>3 DEF TypeOK
<1>12. Claims'
  BY <1>1, <1>7, <1>8 DEF Claims
<1>13. FreeListIntact'
  <2> HIDE DEF last
  <2> QED
    BY <1>5, WritesSpareList
<1>14. Wants'
  <2>1. Wanting(t)'
    BY <1>1, <1>6 DEF Wants, Wanting, InBatch
  <2>2. Apart(t)
    BY <1>6, StaysApart DEF InBatch
  <2> QED
    BY <1>6, <2>1, <2>2, WantsStep
<1> QED
  BY <1>7, <1>9, <1>10, <1>11, <1>12, <1>13, <1>14 DEF Owners, Expectations, Walks, Discipline

LEMMA UseStep ==
  ASSUME PoolInvariant, NEW n \in Nodes, Use(n)
  PROVE  PoolInvariant'
<1> USE DEF PoolInvariant
<1>1. /\ n \in Held /\ next' = [next EXCEPT ![n] = Tagged(Garbage, 0)]
      /\ UNCHANGED <<free_head_, inUse, stack, allocated_count_, pc, current, new_head,
                     own, wanted, walk, got, calls>>
  BY DEF Use
<1>2. n \in inUse /\ \A u \in Threads : {n} \cap Claimed(u) = {}
  BY <1>1 DEF Held
<1>3. Writes({n})
  BY <1>1, <1>2 DEF Writes, TypeOK
<1>4. \A u \in Threads : Stays(u)
  BY <1>1 DEF Stays
<1>5. \A u \in Threads : Owner(u)' /\ Expectation(u)' /\ Walking(u)' /\ Claimed(u)' = Claimed(u)
  BY <1>2, <1>3, <1>4, WritesSpareOthers
<1>6. Tagged(Garbage, 0) \in TaggedPtr
  BY DEF Tagged, TaggedPtr
<1>7. TypeOK'
  BY <1>1, <1>6 DEF TypeOK
<1>8. Claims'
  BY <1>1, <1>5 DEF Claims
<1>9. FreeListIntact'
  BY <1>3, WritesSpareList
<1>10. Wants'
  BY <1>1 DEF Wants, Wanting, InBatch
<1> QED
  BY <1>5, <1>7, <1>8, <1>9, <1>10 DEF Owners, Expectations, Walks, Discipline

\* The chain becomes the front of the list.
LEMMA DeallocateExchangeStep ==
  ASSUME PoolInvariant, NEW t \in Threads, DeallocateExchange(t)
  PROVE  PoolInvariant'
<1> USE DEF PoolInvariant
<1> DEFINE blocks == own[t]
<1>0. PICK m \in Nat, n \in Nat : m = Len(blocks) /\ n = Len(stack)
  BY DEF TypeOK
<1>1. /\ pc[t] = "push" /\ pc' = [pc EXCEPT ![t] = "subtract"]
      /\ free_head_ = current[t] /\ free_head_' = new_head[t]
      /\ stack' = blocks \o stack
      /\ inUse' = inUse \ Range(blocks)
      /\ UNCHANGED <<next, allocated_count_, current, new_head, own, wanted, walk, got, calls>>
  BY DEF DeallocateExchange, Goto
<1>2. /\ Chain(blocks) /\ Distinct(blocks) /\ blocks \in Seq(Nodes) /\ m \in Nat /\ m >= 1
      /\ \A i \in 1 .. m : blocks[i] \in Nodes /\ blocks[i] \in Range(blocks)
      /\ \A b \in Range(blocks) : \E i \in 1 .. m : blocks[i] = b
      /\ Claimed(t) = Range(blocks) /\ Range(blocks) \subseteq inUse
  BY <1>0, <1>1, OwnedChain
<1>3. stack \in Seq(Nodes) /\ n \in Nat /\ (stack = <<>> <=> n = 0)
  BY <1>0 DEF TypeOK
<1>4. /\ stack' \in Seq(Nodes) /\ Len(stack') = m + n
      /\ \A i \in 1 .. m + n : stack'[i] = IF i <= m THEN blocks[i] ELSE stack[i - m]
  BY <1>0, <1>1, <1>2, <1>3, ConcatProperties
<1>5. /\ free_head_'.ptr = blocks[1] /\ next[blocks[m]] = free_head_
      /\ free_head_'.tag = free_head_.tag + 1 /\ free_head_.tag \in Nat
  BY <1>0, <1>1 DEF Expectations, Expectation, TypeOK, TaggedPtr
<1>6. TypeOK'
  BY <1>1, <1>4 DEF TypeOK
<1>7. ListIsStack'
  <2>1. stack' # <<>> /\ stack'[1] = blocks[1]
    <3>1. 1 \in 1 .. m + n /\ 1 <= m
      BY <1>2, <1>3
    <3>2. m + n # 0
      BY <1>2, <1>3
    <3> QED
      BY <1>4, <3>1, <3>2
  <2>2. \A i \in 1 .. m - 1 : next[blocks[i]].ptr = blocks[i + 1]
    BY <1>0, <1>2 DEF Chain
  <2>3. \A i \in 1 .. n : next[stack[i]].ptr = IF i = n THEN Null ELSE stack[i + 1]
    BY <1>0 DEF FreeListIntact, ListIsStack
  <2>4. free_head_.ptr = IF n = 0 THEN Null ELSE stack[1]
    BY <1>3 DEF FreeListIntact, ListIsStack
  <2>5. ASSUME NEW i \in 1 .. m + n
        PROVE  next[stack'[i]].ptr = IF i = m + n THEN Null ELSE stack'[i + 1]
    <3>1. CASE i < m
      <4>1. i \in 1 .. m - 1 /\ i <= m /\ i + 1 <= m /\ i + 1 \in 1 .. m + n /\ i # m + n
        BY <1>2, <1>3, <3>1
      <4> QED
        BY <1>4, <2>2, <4>1
    <3>2. CASE i = m
      <4>1. /\ i <= m /\ ~ (i + 1 <= m) /\ i + 1 - m = 1
            /\ (n = 0 <=> i = m + n) /\ (n # 0 => i + 1 \in 1 .. m + n)
        BY <1>2, <1>3, <3>2
      <4>2. stack'[i] = blocks[m] /\ (n # 0 => stack'[i + 1] = stack[1])
        BY <1>4, <3>2, <4>1
      <4> QED
        BY <1>5, <2>4, <4>1, <4>2
    <3>3. CASE i > m
      <4>1. /\ ~ (i <= m) /\ i - m \in 1 .. n /\ (i = m + n <=> i - m = n)
            /\ (i # m + n => i + 1 \in 1 .. m + n /\ ~ (i + 1 <= m) /\ i + 1 - m = i - m + 1)
        BY <1>2, <1>3, <3>3
      <4>2. stack'[i] = stack[i - m] /\ (i # m + n => stack'[i + 1] = stack[i - m + 1])
        BY <1>4, <4>1
      <4> QED
        BY <2>3, <4>1, <4>2
    <3> QED
      BY <1>2, <3>1, <3>2, <3>3
  <2> QED
    BY <1>1, <1>4, <1>5, <2>1, <2>5 DEF ListIsStack
<1>8. BlocksAccounted'
  <2>1. /\ \A i \in 1 .. n : stack[i] \notin inUse
        /\ \A i, j \in 1 .. n : stack[i] = stack[j] => i = j
        /\ \A b \in Nodes \ inUse : \E i \in 1 .. n : stack[i] = b
    BY <1>0 DEF FreeListIntact, BlocksAccounted
  <2>2. \A i, j \in 1 .. m : blocks[i] = blocks[j] => i = j
    <3>1. Distinct(blocks) /\ Len(blocks) = m
      BY <1>0, <1>2
    <3> HIDE DEF blocks
    <3> QED
      BY <3>1 DEF Distinct
  <2>3. \A i \in 1 .. m + n :
           \/ i \in 1 .. m /\ stack'[i] = blocks[i]
           \/ i - m \in 1 .. n /\ stack'[i] = stack[i - m]
    <3> SUFFICES ASSUME NEW i \in 1 .. m + n
                 PROVE  \/ i \in 1 .. m /\ stack'[i] = blocks[i]
                        \/ i - m \in 1 .. n /\ stack'[i] = stack[i - m]
      OBVIOUS
    <3>1. CASE i <= m
      <4>1. i \in 1 .. m
        BY <3>1
      <4> QED
        BY <1>4, <3>1, <4>1
    <3>2. CASE ~ (i <= m)
      <4>1. i - m \in 1 .. n
        BY <3>2
      <4> QED
        BY <1>4, <3>2, <4>1
    <3> QED
      BY <3>1, <3>2
  <2>4. \A i \in 1 .. m + n : stack'[i] \notin inUse'
    BY <1>1, <1>2, <2>1, <2>3
  <2>5. ASSUME NEW i \in 1 .. m + n, NEW j \in 1 .. m + n, stack'[i] = stack'[j]
        PROVE  i = j
    <3>1. \/ i \in 1 .. m /\ j \in 1 .. m /\ blocks[i] = blocks[j]
          \/ i - m \in 1 .. n /\ j - m \in 1 .. n /\ stack[i - m] = stack[j - m]
      BY <1>2, <2>1, <2>3, <2>5
    <3>2. i = j \/ i - m = j - m
      BY <2>1, <2>2, <3>1
    <3> QED
      BY <1>2, <1>3, <3>2
  <2>6. ASSUME NEW b \in Nodes \ inUse'
        PROVE  \E i \in 1 .. m + n : stack'[i] = b
    <3>1. CASE b \in Range(blocks)
      <4>1. PICK i \in 1 .. m : blocks[i] = b
        BY <1>2, <3>1
      <4>2. i \in 1 .. m + n /\ i <= m
        BY <1>2, <1>3
      <4> QED
        BY <1>4, <4>1, <4>2
    <3>2. CASE b \notin Range(blocks)
      <4>1. PICK i \in 1 .. n : stack[i] = b
        BY <1>1, <2>1, <3>2
      <4>2. i + m \in 1 .. m + n /\ ~ (i + m <= m) /\ i + m - m = i
        BY <1>2, <1>3
      <4> QED
        BY <1>4, <4>1, <4>2
    <3> QED
      BY <3>1, <3>2
  <2> QED
    BY <1>4, <2>4, <2>5, <2>6 DEF BlocksAccounted
<1>9. /\ Claimed(t)' = {} /\ pc'[t] = "subtract" /\ own'[t] = own[t] /\ wanted'[t] = wanted[t]
      /\ \A u \in Threads \ {t} : Claimed(u)' = Claimed(u)
      /\ OthersStay(t)
  BY <1>1 DEF Claimed, TypeOK, OthersStay, Stays
<1>10. Claims'
  <2>1. \A u \in Threads \ {t} : Claimed(u) \subseteq inUse /\ Claimed(u) \cap Range(blocks) = {}
    BY <1>2 DEF Claims
  <2>2. \A u \in Threads : Claimed(u)' \subseteq Claimed(u)
    BY <1>9
  <2>3. \A u \in Threads : Claimed(u)' \subseteq inUse'
    BY <1>1, <1>9, <2>1
  <2>4. \A u, v \in Threads : u # v => Claimed(u)' \cap Claimed(v)' = {}
    BY <2>2 DEF Claims
  <2> QED
    BY <2>3, <2>4 DEF Claims
<1>11. Wants'
  <2>1. Wanting(t)'
    BY <1>1, <1>9 DEF Wants, Wanting, InBatch
  <2>2. Apart(t)
    BY <1>9, StaysApart DEF InBatch
  <2> QED
    BY <1>9, <2>1, <2>2, WantsStep
<1>12. ASSUME NEW u \in Threads \ {t}
       PROVE  Owner(u)' /\ Expectation(u)' /\ Walking(u)'
  <2>1. Stays(u) /\ Owner(u) /\ Expectation(u) /\ current[u].tag \in Nat /\ next' = next
    BY <1>1, <1>9 DEF OthersStay, Owners, Expectations, TypeOK, TaggedPtr
  <2>2. Owner(u)'
    BY <2>1 DEF Stays, Owner, Chain, Distinct
  <2>3. Expectation(u)'
    BY <1>1, <1>5, <2>1 DEF Stays, Expectation
  <2>4. Walking(u)'
    <3> SUFFICES ASSUME InBatch(u)', pc'[u] # "loadBatch"
                 PROVE  \E k \in Nat : Place(u, k)'
      BY DEF Walking
    <3>1. InBatch(u) /\ pc[u] # "loadBatch"
      BY <2>1 DEF InBatch, Stays
    <3>2. PICK k \in Nat : Place(u, k)
      BY <3>1 DEF Walks, Walking
    <3>3. /\ k + 1 \in 1 .. n /\ wanted[u] \in Nat
          /\ pc[u] # "testBatch" => walk[u].count \in Nat /\ k + walk[u].count \in 1 .. n
      BY <1>0, <3>1, <3>2, PlaceInList
    <3>4. \A i \in 1 .. n : m + i \in 1 .. m + n /\ stack'[m + i] = stack[i]
      <4> SUFFICES ASSUME NEW i \in 1 .. n
                   PROVE  m + i \in 1 .. m + n /\ stack'[m + i] = stack[i]
        OBVIOUS
      <4>1. m + i \in 1 .. m + n /\ ~ (m + i <= m) /\ (m + i) - m = i
        BY <1>2, <1>3
      <4> QED
        BY <1>4, <4>1
    <3>5. m + k + 1 = m + (k + 1)
      BY <1>2
    <3>6. m + k \in Nat /\ m + k < m + n /\ stack'[m + k + 1] = stack[k + 1]
      BY <1>2, <1>3, <3>3, <3>4, <3>5
    <3>7. pc[u] # "testBatch" =>
             /\ m + k + walk[u].count <= m + n
             /\ stack'[m + k + walk[u].count] = stack[k + walk[u].count]
             /\ k + walk[u].count < n => m + k + walk[u].count < m + n
             /\ k + walk[u].count = n => m + k + walk[u].count = m + n
      <4> SUFFICES ASSUME pc[u] # "testBatch"
                   PROVE  /\ m + k + walk[u].count <= m + n
                          /\ stack'[m + k + walk[u].count] = stack[k + walk[u].count]
                          /\ k + walk[u].count < n => m + k + walk[u].count < m + n
                          /\ k + walk[u].count = n => m + k + walk[u].count = m + n
        OBVIOUS
      <4>1. m + k + walk[u].count = m + (k + walk[u].count)
        BY <1>2, <3>3
      <4>2. k + walk[u].count \in 1 .. n
        BY <3>3
      <4>3. stack'[m + k + walk[u].count] = stack[k + walk[u].count]
        BY <3>4, <4>1, <4>2
      <4>4. m + k + walk[u].count <= m + n
        BY <1>2, <1>3, <4>1, <4>2
      <4>5. k + walk[u].count < n => m + k + walk[u].count < m + n
        BY <1>2, <1>3, <4>1, <4>2
      <4> QED
        BY <4>1, <4>3, <4>4, <4>5
    <3>8. Place(u, m + k)'
      BY <1>0, <1>4, <2>1, <3>2, <3>6, <3>7 DEF Place, Stays
    <3> QED
      BY <3>6, <3>8
  <2> QED
    BY <2>2, <2>3, <2>4
<1>13. Owner(t)' /\ Expectation(t)' /\ Walking(t)'
  BY <1>1, <1>9 DEF Owners, Owner, Distinct, Expectation, Walking, InBatch
<1> QED
  BY <1>6, <1>7, <1>8, <1>10, <1>11, <1>12, <1>13
  DEF FreeListIntact, Owners, Expectations, Walks, Discipline

-----------------------------------------------------------------------------
(* The theorems.                                                           *)

LEMMA PoolStep ==
  ASSUME PoolInvariant, [Next]_vars
  PROVE  PoolInvariant'
<1>1. CASE UNCHANGED vars
  BY <1>1 DEF vars, PoolInvariant, Discipline, TypeOK, FreeListIntact, ListIsStack,
              BlocksAccounted, Claims, Claimed, Owners, Owner, Distinct, Chain, Wants, Wanting,
              InBatch, Expectations, Expectation, Walks, Walking, Place
<1>2. CASE \E n \in Nodes : Use(n)
  BY <1>2, UseStep
<1>3. ASSUME NEW t \in Threads, Allocate(t)
      PROVE  PoolInvariant'
  BY <1>3, BeginStep, LoadHeadStep, AllocateLinkStep, AllocateExchangeStep, CountStep
  DEF Allocate, AllocateLoad, AllocateRetry
<1>4. ASSUME NEW t \in Threads, BatchAllocate(t)
      PROVE  PoolInvariant'
  BY <1>4, BeginStep, LoadHeadStep, WalkStepsStep, BatchExchangeStep
  DEF BatchAllocate, BatchLoad, BatchRetry, WalkSteps
<1>5. ASSUME NEW t \in Threads, Deallocate(t)
      PROVE  PoolInvariant'
  BY <1>5, DeallocateBeginStep, DeallocateHeadStep, DeallocateLinkStep, DeallocateExchangeStep,
     CountStep
  DEF Deallocate
<1> QED
  BY <1>1, <1>2, <1>3, <1>4, <1>5 DEF Next

\* What every reachable state satisfies when allocations of batches keep apart.
THEOREM PoolInvariantHolds ==
  ASSUME Discipline
  PROVE  Spec => []PoolInvariant
<1>1. Init => PoolInvariant
  BY InitPool
<1>2. PoolInvariant /\ [Next]_vars => PoolInvariant'
  BY PoolStep
<1> QED
  BY <1>1, <1>2, PTL DEF Spec

\* However many threads allocate and give back blocks, one at a time and in batches, no
\* lost race corrupts the list, as long as no other allocation is under way during the
\* allocation of a batch; giving back may overlap with anything
\* (allocate_raw(), allocate_raw_batch(), deallocate_raw(), deallocate_raw_batch()).
THEOREM FreeListSafe ==
  ASSUME Discipline
  PROVE  Spec => [](TypeOK /\ FreeListIntact)
<1>1. PoolInvariant => TypeOK /\ FreeListIntact
  BY DEF PoolInvariant
<1> QED
  BY <1>1, PoolInvariantHolds, PTL

\* Under the same condition no call reads the link of something that is no block,
\* the walk of allocate_raw_batch() over a list that grows meanwhile included.
THEOREM PointersSafe ==
  ASSUME Discipline
  PROVE  Spec => []PointersValid
<1>1. PoolInvariant => PointersValid
  <2> SUFFICES ASSUME PoolInvariant, NEW t \in Threads
               PROVE  /\ pc[t] \in {"test", "testBatch"} => current[t].ptr \in Nodes
                      /\ pc[t] \in {"walk", "advance", "behind"} => walk[t].node \in Nodes
    BY DEF PointersValid
  <2>1. pc[t] = "test" => current[t].ptr \in Nodes
    BY DEF PoolInvariant, Expectations, Expectation
  <2>2. CASE pc[t] \in {"testBatch", "walk", "advance", "behind"}
    <3>1. InBatch(t)
      BY <2>2 DEF InBatch
    <3>2. PICK k \in Nat : Place(t, k)
      BY <2>2, <3>1 DEF PoolInvariant, Walks, Walking
    <3> QED
      BY <2>2, <3>1, <3>2, PlaceInList
  <2> QED
    BY <2>1, <2>2
<1> QED
  BY <1>1, PoolInvariantHolds, PTL

-----------------------------------------------------------------------------
(* The pool behaves as ObjectPool.                                         *)

\* The blocks of the list, as a set.
LEMMA RangeOfStack ==
  ASSUME NEW S, NEW s \in Seq(S)
  PROVE  Range(s) = {s[i] : i \in 1 .. Len(s)}
BY DEF Range

\* Different blocks are as many as the sequence is long.
LEMMA DistinctCount ==
  ASSUME NEW s \in Seq(Nodes), Distinct(s)
  PROVE  IsFiniteSet(Range(s)) /\ Cardinality(Range(s)) = Len(s)
<1> DEFINE n == Len(s)
<1>1. n \in Nat /\ DOMAIN s = 1 .. n /\ s \in [1 .. n -> Range(s)]
  BY DEF Range
<1>2. \A b \in Range(s) : \E i \in 1 .. n : s[i] = b
  BY <1>1, RangeOfStack
<1>3. \A i, j \in 1 .. n : s[i] = s[j] => i = j
  BY DEF Distinct
<1> HIDE DEF n
<1>4. s \in Bijection(1 .. n, Range(s))
  BY <1>1, <1>2, <1>3 DEF Bijection, Injection, IsInjective, Surjection
<1>5. ExistsBijection(1 .. n, Range(s))
  BY <1>4 DEF ExistsBijection
<1>6. IsFiniteSet(1 .. n)
  BY <1>1, FS_Interval
<1> QED
  BY <1>1, <1>5, <1>6, FS_Bijection, FS_CountingElements DEF n

\* ObjectPool counts as this module does.
LEMMA PoolCounts ==
  ASSUME NEW S
  PROVE  Pool!Cardinality(S) = Cardinality(S)
BY DEF Pool!Cardinality, Cardinality

\* The list has the blocks that are not in use.
LEMMA FreeBlocks ==
  ASSUME PoolInvariant
  PROVE  Range(stack) = Nodes \ inUse
<1>1. stack \in Seq(Nodes)
  BY DEF PoolInvariant, TypeOK
<1>2. \A i \in 1 .. Len(stack) : stack[i] \in Nodes
  BY <1>1
<1> QED
  BY <1>1, <1>2, RangeOfStack DEF PoolInvariant, FreeListIntact, BlocksAccounted

\* A call that takes as many blocks as it asks for, or all there are, returns them.
LEMMA TakingMaps ==
  ASSUME PoolInvariant, PoolInvariant', NEW t \in Threads, NEW taken \in Seq(Nodes),
         Taken(t, taken), Distinct(taken), Range(taken) \cap inUse = {},
         wanted[t] \in Nat, Len(taken) >= 1, Len(taken) <= wanted[t],
         Len(taken) < wanted[t] => Range(taken) = Range(stack)
  PROVE  Pool!Return(t)
<1> DEFINE S == Range(taken)
<1>1. /\ inUse' = inUse \cup S /\ got' = [got EXCEPT ![t] = S]
      /\ wanted' = [wanted EXCEPT ![t] = 0]
  BY DEF Taken
<1>2. Cardinality(S) = Len(taken)
  BY DistinctCount
<1>3. wanted[t] > 0 /\ Cardinality(S) <= wanted[t] /\ (Cardinality(S) < wanted[t] => S = Range(stack))
  BY <1>2
<1>4. S \subseteq Nodes
  BY RangeOfStack
<1>5. Range(stack) = Nodes \ inUse /\ Range(stack') = Nodes \ inUse'
  <2>1. (Range(stack) = Nodes \ inUse)'
    BY FreeBlocks, PTL
  <2> QED
    BY <2>1, FreeBlocks
<1> HIDE DEF S
<1>6. S \in SUBSET Range(stack) /\ Range(stack') = Range(stack) \ S
  BY <1>1, <1>4, <1>5 DEF S
<1>7. \E T \in SUBSET Range(stack) :
         /\ Cardinality(T) <= wanted[t]
         /\ Cardinality(T) < wanted[t] => T = Range(stack)
         /\ Range(stack') = Range(stack) \ T
         /\ inUse' = inUse \cup T
         /\ got' = [got EXCEPT ![t] = T]
  BY <1>1, <1>3, <1>6
<1> QED
  BY <1>1, <1>3, <1>7, PoolCounts DEF Pool!Return

LEMMA SingleMaps ==
  ASSUME PoolInvariant, NEW t \in Threads, AllocateExchange(t)
  PROVE  Pool!Return(t)
<1> DEFINE taken == <<current[t].ptr>>
<1>1. Taken(t, taken) /\ PoolInvariant'
  BY AllocateExchangeStep DEF AllocateExchange
<1>2. /\ taken \in Seq(Nodes) /\ Len(taken) = 1 /\ wanted[t] = 1 /\ 1 <= Len(stack)
      /\ taken[1] = stack[1] /\ new_head[t].ptr = next[stack[1]].ptr
  BY SingleTaken
<1> HIDE DEF taken
<1>3. /\ Len(taken) >= 1 /\ Len(taken) <= Len(stack) /\ \A i \in 1 .. Len(taken) : taken[i] = stack[i]
      /\ new_head[t].ptr = next[stack[Len(taken)]].ptr
      /\ wanted[t] \in Nat /\ Len(taken) <= wanted[t] /\ ~ (Len(taken) < wanted[t])
  BY <1>2
<1>4. Distinct(taken) /\ Range(taken) \cap inUse = {}
  BY <1>1, <1>2, <1>3, TakenList
<1> QED
  BY <1>1, <1>2, <1>3, <1>4, TakingMaps

LEMMA BatchMaps ==
  ASSUME PoolInvariant, NEW t \in Threads, BatchExchange(t)
  PROVE  Pool!Return(t)
<1> DEFINE taken == Collected(t)
<1>1. Taken(t, taken) /\ PoolInvariant'
  BY BatchExchangeStep DEF BatchExchange
<1>2. /\ taken \in Seq(Nodes) /\ Len(taken) >= 1 /\ Len(taken) <= Len(stack)
      /\ Len(taken) <= wanted[t] /\ wanted[t] \in Nat
      /\ Len(taken) < wanted[t] => Len(taken) = Len(stack)
      /\ \A i \in 1 .. Len(taken) : taken[i] = stack[i]
      /\ new_head[t].ptr = next[stack[Len(taken)]].ptr
  BY BatchTaken
<1> HIDE DEF taken
<1>3. Distinct(taken) /\ Range(taken) \cap inUse = {}
  BY <1>1, <1>2, TakenList
<1>4. Len(taken) < wanted[t] => Range(taken) = Range(stack)
  <2>1. Range(taken) = {taken[i] : i \in 1 .. Len(taken)}
    BY <1>2, RangeOfStack
  <2>2. Range(stack) = {stack[i] : i \in 1 .. Len(stack)}
    BY RangeOfStack DEF PoolInvariant, TypeOK
  <2> QED
    BY <1>2, <2>1, <2>2
<1> QED
  BY <1>1, <1>2, <1>3, <1>4, TakingMaps

LEMMA EmptyMaps ==
  ASSUME PoolInvariant, NEW t \in Threads, NEW label, LoadHead(t, label),
         pc[t] \in {"load", "pop", "loadBatch", "popBatch"}
  PROVE  Pool!Return(t) \/ UNCHANGED Pool!poolVars
<1>1. stack' = stack /\ inUse' = inUse
  BY DEF LoadHead, listVars
<1>2. CASE free_head_.ptr # Null
  BY <1>1, <1>2 DEF LoadHead, Pool!poolVars
<1>3. CASE free_head_.ptr = Null
  <2>1. stack = <<>>
    BY <1>3, HeadInList DEF PoolInvariant
  <2>2. Range(stack) = {}
    BY <2>1 DEF Range
  <2>3. wanted[t] \in Nat /\ wanted[t] > 0
    BY DEF PoolInvariant, TypeOK, Wants, Wanting, InBatch
  <2>4. got' = [got EXCEPT ![t] = {}] /\ wanted' = [wanted EXCEPT ![t] = 0]
    BY <1>3 DEF LoadHead
  <2>5. Cardinality({}) = 0
    BY FS_EmptySet
  <2>6. Cardinality({}) <= wanted[t] /\ wanted[t] > 0
    BY <2>3, <2>5
  <2>7. Range(stack') = Range(stack) \ {} /\ inUse' = inUse \cup {} /\ {} \in SUBSET Range(stack)
    BY <1>1
  <2>8. \E S \in SUBSET Range(stack) :
          /\ Cardinality(S) <= wanted[t]
          /\ Cardinality(S) < wanted[t] => S = Range(stack)
          /\ Range(stack') = Range(stack) \ S
          /\ inUse' = inUse \cup S
          /\ got' = [got EXCEPT ![t] = S]
    BY <2>2, <2>4, <2>6, <2>7
  <2> QED
    BY <2>4, <2>6, <2>8, PoolCounts DEF Pool!Return
<1> QED
  BY <1>2, <1>3

LEMMA GivingBackMaps ==
  ASSUME PoolInvariant, NEW t \in Threads, DeallocateExchange(t)
  PROVE  Pool!Release(Range(own[t]))
<1>1. /\ pc[t] = "push" /\ inUse' = inUse \ Range(own[t])
      /\ UNCHANGED <<wanted, got>>
  BY DEF DeallocateExchange
<1>2. /\ Len(own[t]) \in Nat /\ Len(own[t]) >= 1 /\ Range(own[t]) \subseteq inUse
      /\ \A i \in 1 .. Len(own[t]) : own[t][i] \in Range(own[t])
  BY <1>1, OwnedChain
<1>3. Range(own[t]) # {}
  <2>1. 1 \in 1 .. Len(own[t])
    BY <1>2
  <2> QED
    BY <1>2, <2>1
<1>4. Range(stack) = Nodes \ inUse /\ Range(stack') = Nodes \ inUse'
  <2>1. PoolInvariant'
    BY DeallocateExchangeStep
  <2>2. (Range(stack) = Nodes \ inUse)'
    BY <2>1, FreeBlocks, PTL
  <2> QED
    BY <2>2, FreeBlocks
<1>5. inUse \subseteq Nodes
  BY DEF PoolInvariant, TypeOK
<1>6. Range(stack') = Range(stack) \cup Range(own[t])
  BY <1>1, <1>2, <1>4, <1>5
<1> QED
  BY <1>1, <1>2, <1>3, <1>6 DEF Pool!Release

LEMMA CallingMaps ==
  ASSUME PoolInvariant, NEW t \in Threads, NEW count \in 1 .. MaxBatch, NEW label,
         Begin(t, count, label)
  PROVE  Pool!Call(t, count)
<1>1. wanted[t] = 0
  BY DEF Begin, PoolInvariant, Wants, Wanting, InBatch
<1> QED
  BY <1>1 DEF Begin, listVars, Pool!Call

\* The list of blocks gives what a pool promises, when allocations of batches keep
\* apart: each call takes as many free objects as it asks for, or all there are, at one
\* moment of the call; none that is in use, and what is given back is free again.
THEOREM PoolRefinement ==
  ASSUME Discipline
  PROVE  Spec => ImplementsPool
<1>1. Init => Pool!Init
  <2> SUFFICES ASSUME Init PROVE Pool!Init
    OBVIOUS
  <2>1. DOMAIN stack = Nodes /\ \A i \in Nodes : stack[i] = i
    BY DEF Init, Nodes
  <2>2. Range(stack) = Nodes
    BY <2>1 DEF Range
  <2> QED
    BY <2>2 DEF Init, Pool!Init
<1>2. PoolInvariant /\ [Next]_vars => [Pool!Next]_(Pool!poolVars)
  <2> SUFFICES ASSUME PoolInvariant, [Next]_vars
               PROVE  Pool!Next \/ UNCHANGED Pool!poolVars
    BY DEF Pool!poolVars
  <2>1. CASE UNCHANGED vars
    BY <2>1 DEF vars, Pool!poolVars
  <2>2. ASSUME NEW t \in Threads,
               \/ AllocateLink(t) \/ AllocateCount(t) \/ WalkSteps(t)
               \/ DeallocateCount(t) \/ DeallocateHead(t) \/ DeallocateLink(t)
               \/ \E blocks \in Returns : DeallocateBegin(t, blocks)
        PROVE  UNCHANGED Pool!poolVars
    BY <2>2 DEF AllocateLink, AllocateCount, WalkSteps, BatchWalk, BatchTest, BatchAdvance,
                BatchBehind, DeallocateCount, DeallocateHead, DeallocateLink,
                DeallocateBegin, listVars, Pool!poolVars
  <2>3. ASSUME NEW n \in Nodes, Use(n)
        PROVE  UNCHANGED Pool!poolVars
    BY <2>3 DEF Use, Pool!poolVars
  <2>4. ASSUME NEW t \in Threads,
               AllocateLoad(t) \/ AllocateRetry(t) \/ BatchLoad(t) \/ BatchRetry(t)
        PROVE  Pool!Next \/ UNCHANGED Pool!poolVars
    BY <2>4, EmptyMaps DEF AllocateLoad, AllocateRetry, BatchLoad, BatchRetry, Pool!Next
  <2>5. ASSUME NEW t \in Threads,
               AllocateBegin(t) \/ \E count \in 1 .. MaxBatch : BatchBegin(t, count)
        PROVE  Pool!Next
    <3>1. 1 \in 1 .. MaxBatch
      BY BoundsAssumption
    <3>2. \E count \in 1 .. MaxBatch : Pool!Call(t, count)
      BY <2>5, <3>1, CallingMaps DEF AllocateBegin, BatchBegin
    <3> QED
      BY <3>2 DEF Pool!Next
  <2>6. ASSUME NEW t \in Threads, AllocateExchange(t) \/ BatchExchange(t)
        PROVE  Pool!Next
    BY <2>6, SingleMaps, BatchMaps DEF Pool!Next
  <2>7. ASSUME NEW t \in Threads, DeallocateExchange(t)
        PROVE  Pool!Next
    <3>1. Pool!Release(Range(own[t])) /\ Range(own[t]) \in SUBSET inUse
      BY <2>7, GivingBackMaps DEF Pool!Release
    <3> QED
      BY <3>1 DEF Pool!Next
  <2> QED
    BY <2>1, <2>2, <2>3, <2>4, <2>5, <2>6, <2>7
    DEF Next, Allocate, BatchAllocate, Deallocate, WalkSteps
<1> QED
  BY <1>1, <1>2, PoolInvariantHolds, PTL DEF Spec, ImplementsPool, Pool!Spec

-----------------------------------------------------------------------------
(* The counter.                                                            *)

CountExact ==
    allocated_count_ = Cardinality(inUse) - Cardinality(Uncounted("add"))
                        + Cardinality(Uncounted("subtract"))

LEMMA DisjointCount ==
  ASSUME NEW S, NEW T, IsFiniteSet(S), IsFiniteSet(T), S \cap T = {}
  PROVE  Cardinality(S \cup T) = Cardinality(S) + Cardinality(T)
<1>1. Cardinality(S) \in Nat /\ Cardinality(T) \in Nat
  BY FS_CardinalityType
<1>2. Cardinality(S \cup T) = Cardinality(S) + Cardinality(T) - Cardinality(S \cap T)
  BY FS_Union
<1>3. Cardinality(S \cap T) = 0
  BY FS_EmptySet
<1> QED
  BY <1>1, <1>2, <1>3

LEMMA PairsCount ==
  ASSUME NEW t, NEW S, IsFiniteSet(S)
  PROVE  IsFiniteSet({t} \X S) /\ Cardinality({t} \X S) = Cardinality(S)
<1> DEFINE pair == [x \in S |-> <<t, x>>]
<1>1. pair \in Bijection(S, {t} \X S)
  <2>1. pair \in [S -> {t} \X S]
    OBVIOUS
  <2>2. \A x, y \in S : pair[x] = pair[y] => x = y
    OBVIOUS
  <2>3. \A p \in {t} \X S : \E x \in S : pair[x] = p
    OBVIOUS
  <2> HIDE DEF pair
  <2> QED
    BY <2>1, <2>2, <2>3 DEF Bijection, Injection, IsInjective, Surjection
<1>2. ExistsBijection(S, {t} \X S)
  BY <1>1 DEF ExistsBijection
<1> QED
  BY <1>2, FS_Bijection

\* The pairs of a thread with the blocks it owns.
Pairs(t) == {t} \X Range(own[t])

LEMMA NodesFinite == IsFiniteSet(Nodes)
BY BlockCountAssumption, FS_Interval DEF Nodes

LEMMA UncountedFinite ==
  ASSUME TypeOK
  PROVE  /\ IsFiniteSet(inUse) /\ Cardinality(inUse) \in Nat
         /\ \A label : /\ IsFiniteSet(Uncounted(label))
                       /\ Cardinality(Uncounted(label)) \in Nat
<1>1. IsFiniteSet(Nodes)
  BY NodesFinite
<1>2. IsFiniteSet(inUse)
  BY <1>1, FS_Subset DEF TypeOK
<1>3. IsFiniteSet(Threads \X Nodes)
  BY <1>1, ThreadsAssumption, FS_Product
<1>4. ASSUME NEW label
      PROVE  IsFiniteSet(Uncounted(label))
  <2>1. Uncounted(label) \in SUBSET (Threads \X Nodes)
    BY DEF Uncounted
  <2> QED
    BY <1>3, <2>1, FS_Subset
<1> QED
  BY <1>2, <1>4, FS_CardinalityType

LEMMA PairsOwned ==
  ASSUME PoolInvariant, NEW t \in Threads
  PROVE  /\ IsFiniteSet(Pairs(t)) /\ Cardinality(Pairs(t)) = Len(own[t])
         /\ Len(own[t]) \in Nat /\ Pairs(t) \subseteq Threads \X Nodes
<1>1. own[t] \in Seq(Nodes) /\ Distinct(own[t])
  BY DEF PoolInvariant, TypeOK, Owners, Owner
<1>2. IsFiniteSet(Range(own[t])) /\ Cardinality(Range(own[t])) = Len(own[t])
  BY <1>1, DistinctCount
<1>3. Range(own[t]) \subseteq Nodes
  BY <1>1, RangeOfStack
<1>4. IsFiniteSet(Pairs(t)) /\ Cardinality(Pairs(t)) = Cardinality(Range(own[t]))
  BY <1>2, PairsCount DEF Pairs
<1>5. Pairs(t) \subseteq Threads \X Nodes
  BY <1>3 DEF Pairs
<1> QED
  BY <1>1, <1>2, <1>4, <1>5

\* What is not counted of the other threads.
UncountedBut(t, label) == {x \in Uncounted(label) : x[1] # t}

LEMMA UncountedParts ==
  ASSUME PoolInvariant, NEW t \in Threads, NEW label
  PROVE  /\ pc[t] # label => Uncounted(label) = UncountedBut(t, label)
         /\ pc[t] = label =>
               Cardinality(Uncounted(label))
                 = Cardinality(UncountedBut(t, label)) + Len(own[t])
         /\ Cardinality(UncountedBut(t, label)) \in Nat
<1>1. CASE pc[t] # label
  <2>1. \A x \in Uncounted(label) : x[1] # t
    BY <1>1 DEF Uncounted
  <2>2. Uncounted(label) = UncountedBut(t, label)
    BY <2>1 DEF UncountedBut
  <2> QED
    BY <1>1, <2>2, UncountedFinite DEF PoolInvariant
<1>2. CASE pc[t] = label
  <2>1. Uncounted(label) = UncountedBut(t, label) \cup Pairs(t)
    <3>1. ASSUME NEW x \in Uncounted(label)
          PROVE  x \in UncountedBut(t, label) \cup Pairs(t)
      BY DEF Uncounted, UncountedBut, Pairs
    <3>2. ASSUME NEW x \in Pairs(t)
          PROVE  x \in Uncounted(label)
      BY <1>2, PairsOwned DEF Uncounted, Pairs
    <3> QED
      BY <3>1, <3>2 DEF UncountedBut
  <2>2. UncountedBut(t, label) \cap Pairs(t) = {}
    BY DEF UncountedBut, Pairs
  <2>3. IsFiniteSet(UncountedBut(t, label))
    <3>1. IsFiniteSet(Uncounted(label))
      BY UncountedFinite DEF PoolInvariant
    <3>2. UncountedBut(t, label) \in SUBSET Uncounted(label)
      BY DEF UncountedBut
    <3> QED
      BY <3>1, <3>2, FS_Subset
  <2>4. Cardinality(UncountedBut(t, label) \cup Pairs(t))
          = Cardinality(UncountedBut(t, label)) + Len(own[t])
    BY <2>2, <2>3, PairsOwned, DisjointCount
  <2> QED
    BY <1>2, <2>1, <2>3, <2>4, FS_CardinalityType
<1> QED
  BY <1>1, <1>2

\* The number of blocks that thread t has not counted yet.
Late(t, label) == IF pc[t] = label THEN Len(own[t]) ELSE 0

LEMMA UncountedSum ==
  ASSUME PoolInvariant, NEW t \in Threads, NEW label
  PROVE  /\ Cardinality(Uncounted(label))
               = Cardinality(UncountedBut(t, label)) + Late(t, label)
         /\ Cardinality(UncountedBut(t, label)) \in Nat /\ Late(t, label) \in Nat
BY UncountedParts, PairsOwned DEF Late

LEMMA UncountedSumNext ==
  ASSUME NEW CONSTANT t \in Threads, NEW CONSTANT label
  PROVE  PoolInvariant' =>
           /\ Cardinality(Uncounted(label))'
                = Cardinality(UncountedBut(t, label))' + Late(t, label)'
           /\ Late(t, label)' \in Nat
<1>1. PoolInvariant =>
        /\ Cardinality(Uncounted(label)) = Cardinality(UncountedBut(t, label)) + Late(t, label)
        /\ Late(t, label) \in Nat
  BY UncountedSum
<1>2. (PoolInvariant =>
         /\ Cardinality(Uncounted(label)) = Cardinality(UncountedBut(t, label)) + Late(t, label)
         /\ Late(t, label) \in Nat)'
  BY <1>1, PTL
<1> QED
  BY <1>2

\* A step of one thread changes the count as it changes the blocks in use and its own.
LEMMA CountChanges ==
  ASSUME PoolInvariant, PoolInvariant', CountExact, NEW t \in Threads, OthersStay(t),
         allocated_count_' - Cardinality(inUse') + Late(t, "add")' - Late(t, "subtract")'
           = allocated_count_ - Cardinality(inUse) + Late(t, "add") - Late(t, "subtract")
  PROVE  CountExact'
<1>1. ASSUME NEW label
      PROVE  UncountedBut(t, label)' = UncountedBut(t, label)
  <2>1. ASSUME NEW x \in Threads \X Nodes, x[1] # t
        PROVE  pc'[x[1]] = pc[x[1]] /\ own'[x[1]] = own[x[1]]
    BY <2>1 DEF OthersStay, Stays
  <2> QED
    BY <2>1 DEF UncountedBut, Uncounted
<1>2. PICK a \in Nat, b \in Nat, la \in Nat, lb \in Nat :
         /\ a = Cardinality(UncountedBut(t, "add")) /\ b = Cardinality(UncountedBut(t, "subtract"))
         /\ la = Late(t, "add") /\ lb = Late(t, "subtract")
  BY UncountedSum
<1>3. Cardinality(Uncounted("add")) = a + la /\ Cardinality(Uncounted("subtract")) = b + lb
  BY <1>2, UncountedSum
<1>4. /\ Cardinality(Uncounted("add"))' = a + Late(t, "add")'
      /\ Cardinality(Uncounted("subtract"))' = b + Late(t, "subtract")'
  BY <1>1, <1>2, UncountedSumNext
<1>5. Late(t, "add")' \in Nat /\ Late(t, "subtract")' \in Nat
  BY UncountedSumNext
<1>6. /\ Cardinality(inUse) \in Nat /\ Cardinality(inUse') \in Nat
      /\ allocated_count_ \in Int /\ allocated_count_' \in Int
  <2>1. TypeOK /\ TypeOK'
    BY DEF PoolInvariant
  <2>2. Cardinality(inUse) \in Nat
    BY <2>1, UncountedFinite
  <2>3. Cardinality(inUse') \in Nat
    BY <2>1, FS_Subset, FS_CardinalityType, NodesFinite DEF TypeOK
  <2> QED
    BY <2>1, <2>2, <2>3 DEF TypeOK
<1> QED
  BY <1>2, <1>3, <1>4, <1>5, <1>6 DEF CountExact


LEMMA InUseCount ==
  ASSUME TypeOK, TypeOK', NEW S, S \subseteq Nodes, S \cap inUse = {}, inUse' = inUse \cup S
  PROVE  Cardinality(inUse') = Cardinality(inUse) + Cardinality(S)
<1>1. IsFiniteSet(inUse) /\ IsFiniteSet(S)
  BY NodesFinite, FS_Subset DEF TypeOK
<1> QED
  BY <1>1, DisjointCount

\* Blocks taken are in use, and not counted yet.
LEMMA TakenCount ==
  ASSUME PoolInvariant, PoolInvariant', CountExact, NEW t \in Threads,
         NEW taken \in Seq(Nodes), Taken(t, taken), Distinct(taken),
         Range(taken) \cap inUse = {}, pc[t] \in {"pop", "popBatch"}
  PROVE  CountExact'
<1>1. /\ inUse' = inUse \cup Range(taken) /\ pc' = [pc EXCEPT ![t] = "add"]
      /\ own' = [own EXCEPT ![t] = taken] /\ wanted' = [wanted EXCEPT ![t] = 0]
      /\ UNCHANGED <<allocated_count_, current, new_head, walk>>
  BY DEF Taken, Goto
<1>2. pc'[t] = "add" /\ own'[t] = taken /\ OthersStay(t)
  BY <1>1 DEF PoolInvariant, TypeOK, OthersStay, Stays
<1>3. Cardinality(inUse') = Cardinality(inUse) + Len(taken)
  <2>1. Range(taken) \subseteq Nodes /\ Cardinality(Range(taken)) = Len(taken)
    BY RangeOfStack, DistinctCount
  <2> QED
    BY <1>1, <2>1, InUseCount DEF PoolInvariant
<1>4. /\ Late(t, "add") = 0 /\ Late(t, "subtract") = 0
      /\ Late(t, "add")' = Len(taken) /\ Late(t, "subtract")' = 0
  BY <1>2 DEF Late
<1>5. Cardinality(inUse) \in Nat /\ Len(taken) \in Nat /\ allocated_count_ \in Int
  BY UncountedFinite DEF PoolInvariant, TypeOK
<1>6. allocated_count_' - Cardinality(inUse') + Late(t, "add")' - Late(t, "subtract")'
        = allocated_count_ - Cardinality(inUse) + Late(t, "add") - Late(t, "subtract")
  BY <1>1, <1>3, <1>4, <1>5
<1> QED
  BY <1>2, <1>6, CountChanges

LEMMA SingleCount ==
  ASSUME PoolInvariant, CountExact, NEW t \in Threads, AllocateExchange(t)
  PROVE  CountExact'
<1> DEFINE taken == <<current[t].ptr>>
<1>1. Taken(t, taken) /\ PoolInvariant' /\ pc[t] = "pop"
  BY AllocateExchangeStep DEF AllocateExchange
<1>2. /\ taken \in Seq(Nodes) /\ Len(taken) = 1 /\ 1 <= Len(stack)
      /\ taken[1] = stack[1] /\ new_head[t].ptr = next[stack[1]].ptr
  BY SingleTaken
<1> HIDE DEF taken
<1>3. /\ Len(taken) >= 1 /\ Len(taken) <= Len(stack) /\ \A i \in 1 .. Len(taken) : taken[i] = stack[i]
      /\ new_head[t].ptr = next[stack[Len(taken)]].ptr
  BY <1>2
<1>4. Distinct(taken) /\ Range(taken) \cap inUse = {}
  BY <1>1, <1>2, <1>3, TakenList
<1> QED
  BY <1>1, <1>2, <1>4, TakenCount

LEMMA BatchCount ==
  ASSUME PoolInvariant, CountExact, NEW t \in Threads, BatchExchange(t)
  PROVE  CountExact'
<1> DEFINE taken == Collected(t)
<1>1. Taken(t, taken) /\ PoolInvariant' /\ pc[t] = "popBatch"
  BY BatchExchangeStep DEF BatchExchange
<1>2. /\ taken \in Seq(Nodes) /\ Len(taken) >= 1 /\ Len(taken) <= Len(stack)
      /\ \A i \in 1 .. Len(taken) : taken[i] = stack[i]
      /\ new_head[t].ptr = next[stack[Len(taken)]].ptr
  BY BatchTaken
<1> HIDE DEF taken
<1>3. Distinct(taken) /\ Range(taken) \cap inUse = {}
  BY <1>1, <1>2, TakenList
<1> QED
  BY <1>1, <1>2, <1>3, TakenCount

\* Blocks given back are in use no more, and not subtracted yet.
LEMMA GivenBackCount ==
  ASSUME PoolInvariant, CountExact, NEW t \in Threads, DeallocateExchange(t)
  PROVE  CountExact'
<1>1. /\ pc[t] = "push" /\ inUse' = inUse \ Range(own[t]) /\ pc' = [pc EXCEPT ![t] = "subtract"]
      /\ UNCHANGED <<allocated_count_, current, new_head, own, wanted, walk>>
  BY DEF DeallocateExchange, Goto
<1>2. PoolInvariant'
  BY DeallocateExchangeStep
<1>3. pc'[t] = "subtract" /\ own'[t] = own[t] /\ OthersStay(t)
  BY <1>1 DEF PoolInvariant, TypeOK, OthersStay, Stays
<1>4. own[t] \in Seq(Nodes) /\ Distinct(own[t]) /\ Range(own[t]) \subseteq inUse
  BY <1>1, OwnedChain
<1>5. Cardinality(inUse) = Cardinality(inUse') + Len(own[t])
  <2>1. Cardinality(Range(own[t])) = Len(own[t]) /\ IsFiniteSet(Range(own[t]))
    BY <1>4, DistinctCount
  <2>2. IsFiniteSet(inUse')
    BY <1>2, NodesFinite, FS_Subset DEF PoolInvariant, TypeOK
  <2>3. inUse = inUse' \cup Range(own[t]) /\ inUse' \cap Range(own[t]) = {}
    BY <1>1, <1>4
  <2> QED
    BY <2>1, <2>2, <2>3, DisjointCount
<1>6. /\ Late(t, "add") = 0 /\ Late(t, "subtract") = 0
      /\ Late(t, "add")' = 0 /\ Late(t, "subtract")' = Len(own[t])
  BY <1>1, <1>3 DEF Late
<1>7. /\ Cardinality(inUse) \in Nat /\ Cardinality(inUse') \in Nat
      /\ Len(own[t]) \in Nat /\ allocated_count_ \in Int
  <2>1. IsFiniteSet(inUse')
    BY <1>2, NodesFinite, FS_Subset DEF PoolInvariant, TypeOK
  <2> QED
    BY <2>1, FS_CardinalityType, UncountedFinite DEF PoolInvariant, TypeOK
<1>8. allocated_count_' - Cardinality(inUse') + Late(t, "add")' - Late(t, "subtract")'
        = allocated_count_ - Cardinality(inUse) + Late(t, "add") - Late(t, "subtract")
  BY <1>1, <1>5, <1>6, <1>7
<1> QED
  BY <1>2, <1>3, <1>8, CountChanges

LEMMA CountedStep ==
  ASSUME PoolInvariant, CountExact, NEW t \in Threads, AllocateCount(t) \/ DeallocateCount(t)
  PROVE  CountExact'
<1>1. PoolInvariant'
  BY CountStep
<1>2. /\ own' = [own EXCEPT ![t] = <<>>] /\ pc' = [pc EXCEPT ![t] = "idle"]
      /\ UNCHANGED <<inUse, current, new_head, wanted, walk>>
      /\ \/ pc[t] = "add" /\ allocated_count_' = allocated_count_ + Len(own[t])
         \/ pc[t] = "subtract" /\ allocated_count_' = allocated_count_ - Len(own[t])
  BY DEF AllocateCount, DeallocateCount, Returned, Goto, listVars
<1>3. pc'[t] = "idle" /\ OthersStay(t)
  BY <1>2 DEF PoolInvariant, TypeOK, OthersStay, Stays
<1>4. Late(t, "add")' = 0 /\ Late(t, "subtract")' = 0
  BY <1>3 DEF Late
<1>5. Cardinality(inUse) \in Nat /\ Len(own[t]) \in Nat /\ allocated_count_ \in Int
  BY UncountedFinite DEF PoolInvariant, TypeOK
<1>6. \/ /\ allocated_count_' = allocated_count_ + Len(own[t])
         /\ Late(t, "add") = Len(own[t]) /\ Late(t, "subtract") = 0
      \/ /\ allocated_count_' = allocated_count_ - Len(own[t])
         /\ Late(t, "add") = 0 /\ Late(t, "subtract") = Len(own[t])
  BY <1>2 DEF Late
<1>7. allocated_count_' - Cardinality(inUse') + Late(t, "add")' - Late(t, "subtract")'
        = allocated_count_ - Cardinality(inUse) + Late(t, "add") - Late(t, "subtract")
  BY <1>2, <1>4, <1>5, <1>6
<1> QED
  BY <1>1, <1>3, <1>7, CountChanges

\* The other steps change neither.
QuietSteps(t) ==
    \/ AllocateBegin(t) \/ AllocateLoad(t) \/ AllocateLink(t) \/ AllocateRetry(t)
    \/ \E count \in 1 .. MaxBatch : BatchBegin(t, count)
    \/ BatchLoad(t) \/ WalkSteps(t) \/ BatchRetry(t)
    \/ \E blocks \in Returns : DeallocateBegin(t, blocks)
    \/ DeallocateHead(t) \/ DeallocateLink(t)

Quiet(t) ==
    /\ UNCHANGED <<inUse, allocated_count_>>
    /\ pc[t] \notin {"add", "subtract"} /\ pc'[t] \notin {"add", "subtract"}
    /\ OthersStay(t)

LEMMA QuietCount ==
  ASSUME PoolInvariant, PoolInvariant', CountExact, NEW t \in Threads, QuietSteps(t)
  PROVE  CountExact'
<1>0. TypeOK
  BY DEF PoolInvariant
<1>1. Quiet(t)
  <2> USE DEF TypeOK
  <2>1. CASE \E count, label : Begin(t, count, label) /\ label \in {"load", "loadBatch"}
    BY <1>0, <2>1 DEF Begin, listVars, Goto, Quiet, OthersStay, Stays
  <2>2. CASE \E label : LoadHead(t, label) /\ label \in {"test", "testBatch"}
                      /\ pc[t] \in {"load", "pop", "loadBatch", "popBatch"}
    <3>1. PICK label \in {"test", "testBatch"} : LoadHead(t, label)
      BY <2>2
    <3> QED
      BY <1>0, <2>2, <3>1 DEF LoadHead, listVars, Goto, Quiet, OthersStay, Stays
  <2>3. CASE AllocateLink(t)
    BY <1>0, <2>3 DEF AllocateLink, listVars, Goto, Quiet, OthersStay, Stays
  <2>4. CASE BatchWalk(t)
    BY <1>0, <2>4 DEF BatchWalk, listVars, Goto, Quiet, OthersStay, Stays
  <2>5. CASE BatchTest(t)
    BY <1>0, <2>5 DEF BatchTest, listVars, Goto, Quiet, OthersStay, Stays
  <2>6. CASE BatchAdvance(t)
    <3>1. \A u \in Threads \ {t} : walk'[u] = walk[u]
      BY <1>0, <2>6 DEF BatchAdvance
    <3> QED
      BY <1>0, <2>6, <3>1 DEF BatchAdvance, listVars, Goto, Quiet, OthersStay, Stays
  <2>7. CASE BatchBehind(t)
    BY <1>0, <2>7 DEF BatchBehind, listVars, Goto, Quiet, OthersStay, Stays
  <2>8. CASE \E blocks \in Returns : DeallocateBegin(t, blocks)
    <3>1. PICK blocks : DeallocateBegin(t, blocks)
      BY <2>8
    <3> QED
      BY <1>0, <3>1 DEF DeallocateBegin, Goto, Quiet, OthersStay, Stays
  <2>9. CASE DeallocateHead(t)
    BY <1>0, <2>9 DEF DeallocateHead, listVars, Goto, Quiet, OthersStay, Stays
  <2>10. CASE DeallocateLink(t)
    BY <1>0, <2>10 DEF DeallocateLink, listVars, Goto, Quiet, OthersStay, Stays
  <2> QED
    BY <2>1, <2>2, <2>3, <2>4, <2>5, <2>6, <2>7, <2>8, <2>9, <2>10
    DEF QuietSteps, WalkSteps, AllocateBegin, AllocateLoad, AllocateRetry, BatchBegin,
        BatchLoad, BatchRetry
<1>2. OthersStay(t) /\ pc'[t] \notin {"add", "subtract"}
  BY <1>1 DEF Quiet
<1>3. /\ Late(t, "add") = 0 /\ Late(t, "subtract") = 0
      /\ Late(t, "add")' = 0 /\ Late(t, "subtract")' = 0
  BY <1>1, <1>2 DEF Late, Quiet
<1>4. allocated_count_' - Cardinality(inUse') + Late(t, "add")' - Late(t, "subtract")'
        = allocated_count_ - Cardinality(inUse) + Late(t, "add") - Late(t, "subtract")
  BY <1>1, <1>3 DEF Quiet
<1> QED
  BY <1>2, <1>4, CountChanges

LEMMA InitCount ==
  ASSUME Init
  PROVE  CountExact
<1>1. inUse = {} /\ allocated_count_ = 0 /\ Uncounted("add") = {} /\ Uncounted("subtract") = {}
  BY DEF Init, Uncounted
<1>2. Cardinality({}) = 0
  BY FS_EmptySet
<1> QED
  BY <1>1, <1>2 DEF CountExact

\* No more blocks are in calls that have not counted them than are in use.
LEMMA UncountedInUse ==
  ASSUME PoolInvariant
  PROVE  Cardinality(Uncounted("add")) <= Cardinality(inUse)
<1> DEFINE block == [x \in Uncounted("add") |-> x[2]]
<1>1. ASSUME NEW x \in Uncounted("add")
      PROVE  /\ x[1] \in Threads /\ x[2] \in Claimed(x[1]) /\ x[2] \in inUse
             /\ x = <<x[1], x[2]>>
  <2>1. x \in Threads \X Nodes /\ pc[x[1]] = "add" /\ x[2] \in Range(own[x[1]])
    BY DEF Uncounted
  <2>2. x[2] \in Claimed(x[1])
    BY <2>1 DEF Claimed
  <2> QED
    BY <2>1, <2>2 DEF PoolInvariant, Claims
<1>2. block \in Injection(Uncounted("add"), inUse)
  <2>1. block \in [Uncounted("add") -> inUse]
    BY <1>1
  <2>2. ASSUME NEW x \in Uncounted("add"), NEW y \in Uncounted("add"), block[x] = block[y]
        PROVE  x = y
    <3>1. x[2] = y[2]
      BY <2>2
    <3>2. x[1] = y[1]
      BY <1>1, <3>1 DEF PoolInvariant, Claims
    <3> QED
      BY <1>1, <3>1, <3>2
  <2> HIDE DEF block
  <2> QED
    BY <2>1, <2>2 DEF Injection, IsInjective
<1> HIDE DEF block
<1>3. IsFiniteSet(inUse)
  BY UncountedFinite DEF PoolInvariant
<1> QED
  BY <1>2, <1>3, FS_Injection

\* The counter follows the list, by as many blocks as the calls under way have taken or
\* given back and not yet counted, and never wraps below zero, however the two updates
\* of the calls are interleaved (allocated_objects()).
THEOREM CountAlwaysFollows ==
  ASSUME Discipline
  PROVE  Spec => []CountFollows
<1>1. PoolInvariant /\ PoolInvariant' /\ CountExact /\ [Next]_vars => CountExact'
  <2> SUFFICES ASSUME PoolInvariant, PoolInvariant', CountExact, [Next]_vars PROVE CountExact'
    OBVIOUS
  <2>1. CASE UNCHANGED vars
    <3>1. \A label : Uncounted(label)' = Uncounted(label)
      BY <2>1 DEF vars, Uncounted
    <3> QED
      BY <2>1, <3>1 DEF vars, CountExact
  <2>2. ASSUME NEW n \in Nodes, Use(n)
        PROVE  CountExact'
    <3>1. \A label : Uncounted(label)' = Uncounted(label)
      BY <2>2 DEF Use, Uncounted
    <3> QED
      BY <2>2, <3>1 DEF Use, CountExact
  <2>3. ASSUME NEW t \in Threads, Allocate(t) \/ BatchAllocate(t) \/ Deallocate(t)
        PROVE  CountExact'
    <3>1. \/ QuietSteps(t) \/ AllocateExchange(t) \/ BatchExchange(t) \/ DeallocateExchange(t)
          \/ AllocateCount(t) \/ DeallocateCount(t)
      BY <2>3 DEF Allocate, BatchAllocate, Deallocate, QuietSteps, WalkSteps
    <3> QED
      BY <3>1, QuietCount, SingleCount, BatchCount, GivenBackCount, CountedStep
  <2> QED
    BY <2>1, <2>2, <2>3 DEF Next
<1>2. PoolInvariant /\ CountExact => CountFollows
  <2> SUFFICES ASSUME PoolInvariant, CountExact PROVE CountFollows
    OBVIOUS
  <2>1. /\ Cardinality(inUse) \in Nat /\ Cardinality(Uncounted("add")) \in Nat
        /\ Cardinality(Uncounted("subtract")) \in Nat
    BY UncountedFinite DEF PoolInvariant
  <2>2. allocated_count_ >= 0
    BY <2>1, UncountedInUse DEF CountExact
  <2> QED
    BY <2>2 DEF CountExact, CountFollows
<1> QED
  BY <1>1, <1>2, InitCount, PoolInvariantHolds, PTL DEF Spec

=============================================================================
