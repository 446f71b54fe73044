------------------------------ MODULE SPSCRing ------------------------------
(***************************************************************************)
(* The single-producer single-consumer ring of src/core/spsc_ring.hpp,     *)
(* step by step.                                                           *)
(*                                                                         *)
(* A thread's step ends at each access the other thread can see: the load  *)
(* of a slot's sequence, the plain access to the slot's data, the release  *)
(* store of the sequence, and the store of the thread's own cursor.  The   *)
(* cursors head_seq_ and tail_seq_ have one writer each and inside         *)
(* try_push and try_pop are read by that writer only, so loading one is    *)
(* part of the step that follows it.  Slot sequences are stored with       *)
(* release and loaded with acquire, which is what makes an interleaving of *)
(* these steps a faithful reading of the memory model; that the plain data *)
(* accesses never overlap is not assumed but checked (NoSlotRace).         *)
(*                                                                         *)
(* A third thread may call size() at any time: it loads the two cursors    *)
(* one after the other.                                                    *)
(***************************************************************************)
EXTENDS Integers, Sequences

CONSTANTS
    Items,      \* what the ring carries
    Capacity,   \* capacity_: number of slots
    MaxPush,    \* bound: how many items the producer ever pushes
    NoItem,     \* content of a slot nobody has written yet
    Word        \* 2^64: cursors and sizes are unsigned words

\* The constructor throws for a request above MAX_CAPACITY and leaves no ring: Capacity
\* is that of a ring it makes.
ASSUME CapacityAssumption == Capacity \in Nat /\ Capacity >= 2
ASSUME BoundAssumption == MaxPush \in Nat
ASSUME NoItemAssumption == NoItem \notin Items
ASSUME WordAssumption == Word \in Nat /\ Word > MaxPush + Capacity

VARIABLES
    sequence,   \* slots_[i].sequence
    data,       \* slots_[i].data
    head_seq,   \* next sequence to write
    tail_seq,   \* next sequence to read
    ppc, pitem, \* producer: where it is in try_push, and its argument
    cpc, citem, \* consumer: where it is in try_pop, and what it has read
    opc, ohead, osize,  \* observer: where it is in size(), its head, its result
    pushed, popped,     \* history: items accepted, items returned
    pushReply, popReply \* history: what the last call of each answered

slotVars == <<sequence, data>>
prodVars == <<head_seq, ppc, pitem, pushed, pushReply>>
consVars == <<tail_seq, cpc, citem, popped, popReply>>
obsVars  == <<opc, ohead, osize>>
vars == <<slotVars, prodVars, consVars, obsVars>>

Slots == 0 .. Capacity - 1

-----------------------------------------------------------------------------
(* The arithmetic of the ring.                                             *)

\* The capacity the constructor picks: a power of two, at least 2.  The powers
\* are those up to 2^MaxExponent, MAX_CAPACITY = 2^32 in the code.
RoundUpToPowerOfTwo(value, MaxExponent) ==
    LET powers == {2^k : k \in 1 .. MaxExponent}
    IN  IF \A p \in powers : p < value
        THEN 2^MaxExponent
        ELSE CHOOSE p \in powers : p >= value /\ \A q \in powers : q >= value => p <= q

\* current & mask_: the mask of a power of two keeps the remainder.
SlotOf(seq) == seq % Capacity

\* head - tail in unsigned arithmetic.
WordDifference(a, b) == (a - b) % Word

Init ==
    /\ sequence = [i \in Slots |-> i]
    /\ data = [i \in Slots |-> NoItem]
    /\ head_seq = 0 /\ tail_seq = 0
    /\ ppc = "idle" /\ pitem = NoItem
    /\ cpc = "idle" /\ citem = NoItem
    /\ opc = "idle" /\ ohead = 0 /\ osize = 0
    /\ pushed = <<>> /\ popped = <<>>
    /\ pushReply = "none" /\ popReply = "none"

-----------------------------------------------------------------------------
(* Producer: try_push(item).                                               *)

\* Seeded bug: the slot counts as free one lap early.
SlotIsFreeEarly(seq) == sequence[SlotOf(seq)] \in {seq, seq + 1 - Capacity}

SlotIsFree(seq) == sequence[SlotOf(seq)] = seq

PushBegin(item) ==
    /\ ppc = "idle"
    /\ Len(pushed) < MaxPush
    /\ SlotIsFree(head_seq)
    /\ ppc' = "write"
    /\ pitem' = item
    /\ UNCHANGED <<slotVars, head_seq, pushed, pushReply, consVars, obsVars>>

PushRefused ==
    /\ ppc = "idle"
    /\ ~SlotIsFree(head_seq)
    /\ pushReply' = "refused"
    /\ UNCHANGED <<slotVars, head_seq, ppc, pitem, pushed, consVars, obsVars>>

PushWrite ==
    /\ ppc = "write"
    /\ data' = [data EXCEPT ![SlotOf(head_seq)] = pitem]
    /\ ppc' = "publish"
    /\ UNCHANGED <<sequence, head_seq, pitem, pushed, pushReply, consVars, obsVars>>

\* Seeded bug: the slot is handed back for the lap that has just ended.
SameLap(seq) == seq

NextLap(seq) == seq + Capacity

\* The release store that hands the slot to the consumer: the push has happened.
PushPublish ==
    /\ ppc = "publish"
    /\ sequence' = [sequence EXCEPT ![SlotOf(head_seq)] = head_seq + 1]
    /\ pushed' = Append(pushed, pitem)
    /\ pushReply' = "ok"
    /\ ppc' = "advance"
    /\ UNCHANGED <<data, head_seq, pitem, consVars, obsVars>>

PushAdvance ==
    /\ ppc = "advance"
    /\ head_seq' = head_seq + 1
    /\ ppc' = "idle"
    /\ pitem' = NoItem
    /\ UNCHANGED <<slotVars, pushed, pushReply, consVars, obsVars>>

-----------------------------------------------------------------------------
(* Consumer: try_pop(item).                                                *)

\* Seeded bug: a slot counts as ready as soon as its turn has come.
SlotIsReadyEarly(seq) == sequence[SlotOf(seq)] >= seq

\* Seeded bug: readiness read off the producer's cursor, one item behind.
SlotIsReadyBehind(seq) == head_seq > seq + 1

SlotIsReady(seq) == sequence[SlotOf(seq)] = seq + 1

PopBegin ==
    /\ cpc = "idle"
    /\ SlotIsReady(tail_seq)
    /\ cpc' = "read"
    /\ UNCHANGED <<slotVars, prodVars, tail_seq, citem, popped, popReply, obsVars>>

PopRefused ==
    /\ cpc = "idle"
    /\ ~SlotIsReady(tail_seq)
    /\ popReply' = "refused"
    /\ UNCHANGED <<slotVars, prodVars, tail_seq, cpc, citem, popped, obsVars>>

PopRead ==
    /\ cpc = "read"
    /\ citem' = data[SlotOf(tail_seq)]
    /\ cpc' = "release"
    /\ UNCHANGED <<slotVars, prodVars, tail_seq, popped, popReply, obsVars>>

\* The release store that hands the slot back for the next lap.
PopRelease ==
    /\ cpc = "release"
    /\ sequence' = [sequence EXCEPT ![SlotOf(tail_seq)] = NextLap(tail_seq)]
    /\ popped' = Append(popped, citem)
    /\ popReply' = "ok"
    /\ cpc' = "advance"
    /\ UNCHANGED <<data, prodVars, tail_seq, citem, obsVars>>

PopAdvance ==
    /\ cpc = "advance"
    /\ tail_seq' = tail_seq + 1
    /\ cpc' = "idle"
    /\ citem' = NoItem
    /\ UNCHANGED <<slotVars, prodVars, popped, popReply, obsVars>>

-----------------------------------------------------------------------------
(* Observer: size(), of which empty(), full() and fill_ratio() are readings. *)

SizeLoadHead ==
    /\ opc = "idle"
    /\ ohead' = head_seq
    /\ opc' = "tail"
    /\ UNCHANGED <<slotVars, prodVars, consVars, osize>>

SizeLoadTail ==
    /\ opc = "tail"
    /\ osize' = WordDifference(ohead, tail_seq)
    /\ ohead' = 0
    /\ opc' = "idle"
    /\ UNCHANGED <<slotVars, prodVars, consVars>>

-----------------------------------------------------------------------------
Push == \/ \E item \in Items : PushBegin(item)
        \/ PushRefused \/ PushWrite \/ PushPublish \/ PushAdvance
Pop  == PopBegin \/ PopRefused \/ PopRead \/ PopRelease \/ PopAdvance
Size == SizeLoadHead \/ SizeLoadTail

Next == Push \/ Pop \/ Size

\* The consumer thread polls in an endless loop (Parser::run,
\* OrderBookManager::run), so it keeps taking steps.  Nothing is assumed of the
\* producer or of the observer.
Spec == Init /\ [][Next]_vars /\ WF_vars(Pop)

-----------------------------------------------------------------------------
(* Correctness.                                                            *)

\* Producer and consumer progress, in items: both counts move at the release
\* stores, before the cursors do.
Published == Len(pushed)
Released  == Len(popped)

\* The type of every variable, including that a cursor never leaves its range.
TypeOK ==
    /\ sequence \in [Slots -> Nat]
    /\ data \in [Slots -> Items \cup {NoItem}]
    /\ head_seq \in Nat /\ tail_seq \in Nat
    /\ ppc \in {"idle", "write", "publish", "advance"}
    /\ cpc \in {"idle", "read", "release", "advance"}
    /\ opc \in {"idle", "tail"}
    /\ pitem \in Items \cup {NoItem}
    /\ citem \in Items \cup {NoItem}
    /\ ohead \in Nat /\ osize \in Nat
    /\ pushed \in Seq(Items) /\ popped \in Seq(Items)
    /\ pushReply \in {"none", "ok", "refused"}
    /\ popReply \in {"none", "ok", "refused"}

\* Each cursor trails the published count by one exactly between a slot's release
\* store and the cursor's own store.
CursorsFollow ==
    /\ Published = head_seq + (IF ppc = "advance" THEN 1 ELSE 0)
    /\ Released  = tail_seq + (IF cpc = "advance" THEN 1 ELSE 0)

\* The slots of the sequences Released .. Released + Capacity - 1 are all the
\* slots there are: those below Published hold an item nobody has taken back,
\* the others are free for the producer's next lap.
SlotsPartitioned ==
    /\ Released <= Published /\ Published <= Released + Capacity
    /\ \A k \in Released .. Released + Capacity - 1 :
          IF k < Published
          THEN /\ sequence[SlotOf(k)] = k + 1
               /\ data[SlotOf(k)] = pushed[k + 1]
          ELSE sequence[SlotOf(k)] = k

\* What a thread in the middle of an operation relies on.
InFlight ==
    /\ ppc \in {"write", "publish"} =>
          Published < Released + Capacity /\ pitem \in Items
    /\ ppc = "publish" => data[SlotOf(head_seq)] = pitem
    /\ cpc \in {"read", "release"} => Released < Published
    /\ cpc = "release" => citem = pushed[Released + 1]

\* Everything returned by try_pop is what try_push accepted, in the same order:
\* nothing is lost, duplicated, reordered or overwritten before it is read.
FifoDelivery ==
    /\ Len(popped) <= Len(pushed)
    /\ \A i \in 1 .. Len(popped) : popped[i] = pushed[i]

\* The inductive invariant: the five parts above.
RingInvariant ==
    /\ TypeOK
    /\ CursorsFollow
    /\ SlotsPartitioned
    /\ InFlight
    /\ FifoDelivery

\* The plain (non-atomic) write of slot.data in try_push and the plain read of it
\* in try_pop never touch one slot at the same time: the code has no data race.
NoSlotRace ==
    ~ (ppc = "write" /\ cpc = "read" /\ SlotOf(head_seq) = SlotOf(tail_seq))

\* What the ring does is what a bounded queue does: Put takes effect at the
\* producer's release store, Get at the consumer's, and a refusal means that the
\* queue is full (empty) at the moment the slot's sequence is loaded.
Fifo == INSTANCE BoundedFifo WITH
    queue <- SubSeq(pushed, Len(popped) + 1, Len(pushed)),
    delivered <- popped
ImplementsFifo == Fifo!Spec

\* Every accepted item is eventually returned by try_pop, whatever the producer
\* does next: the busy-polling consumer is never stuck on a slot.
EveryItemDelivered ==
    \A n \in 1 .. MaxPush : (Len(pushed) >= n) ~> (Len(popped) >= n)

\* spsc_ring.hpp:216 documents fill_ratio() as "0.0 to 1.0", that is, size()
\* never exceeds the capacity.
SizeWithinCapacity == osize <= Capacity

\* How far the two cursors can be from the truth at one instant: the head cursor
\* may lag one published item, the tail cursor one released slot.
CursorDistanceBounded ==
    /\ head_seq - tail_seq >= -1
    /\ head_seq - tail_seq <= Capacity + 1
    /\ (ppc = "idle" /\ cpc = "idle") => head_seq - tail_seq = Published - Released

=============================================================================
