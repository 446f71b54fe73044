--------------------------- MODULE SPSCRingProofs ---------------------------
(***************************************************************************)
(* The ring of SPSCRing.tla, for every capacity, every set of items and    *)
(* every number of pushes: RingInvariant is inductive, so nothing is lost, *)
(* duplicated, reordered or overwritten, and no slot is raced for.         *)
(*                                                                         *)
(* The only arithmetic the argument needs is that the Capacity consecutive *)
(* sequences Released .. Released + Capacity - 1 fall into different slots *)
(* (SlotInjective) and that the next one falls into the oldest slot again  *)
(* (SlotPeriodic).                                                         *)
(***************************************************************************)
EXTENDS SPSCRing, SequenceTheorems, TLAPS

-----------------------------------------------------------------------------
(* Remainders.                                                             *)

\* Division with remainder by a positive number.
LEMMA Division ==
  ASSUME NEW C \in Nat \ {0}, NEW a \in Nat
  PROVE  /\ a \div C \in Int /\ a % C \in 0 .. C - 1
         /\ a = (C * (a \div C)) + (a % C)
BY SMTT(30)

\* The only multiple of C strictly between -C and C is 0.
LEMMA SmallMultiple ==
  ASSUME NEW C \in Nat \ {0}, NEW d \in Int, -C < C * d, C * d < C
  PROVE  d = 0
<1>1. d < 1
  BY SMTT(30)
<1>2. d > -1
  BY SMTT(30)
<1> QED
  BY <1>1, <1>2

\* Two numbers less than C apart with the same remainder are equal.
LEMMA ModUnique ==
  ASSUME NEW C \in Nat \ {0}, NEW a \in Nat, NEW b \in Nat,
         a <= b, b < a + C, a % C = b % C
  PROVE  a = b
<1> DEFINE q == a \div C
           p == b \div C
<1>1. /\ q \in Int /\ p \in Int /\ a % C \in 0 .. C - 1
      /\ a = (C * q) + (a % C) /\ b = (C * p) + (b % C)
  BY Division
<1> HIDE DEF q, p
<1>2. C * (p - q) = b - a
  BY <1>1, SMTT(30)
<1>3. p - q = 0
  BY <1>1, <1>2, SmallMultiple
<1> QED
  BY <1>1, <1>2, <1>3

\* Adding C does not change the remainder.
LEMMA ModPlus ==
  ASSUME NEW C \in Nat \ {0}, NEW a \in Nat
  PROVE  (a + C) % C = a % C
<1> DEFINE q == a \div C
           p == (a + C) \div C
           r == a % C
           s == (a + C) % C
<1>1. /\ q \in Int /\ p \in Int /\ r \in 0 .. C - 1 /\ s \in 0 .. C - 1
      /\ a = (C * q) + r /\ a + C = (C * p) + s
  BY Division
<1> HIDE DEF q, p, r, s
<1>2. C * (p - q - 1) = r - s
  BY <1>1, SMTT(30)
<1>3. p - q - 1 = 0
  BY <1>1, <1>2, SmallMultiple
<1>4. r = s
  BY <1>1, <1>2, <1>3
<1> QED
  BY <1>4 DEF r, s

-----------------------------------------------------------------------------
(* Slots.                                                                  *)

LEMMA SlotInRange ==
  ASSUME NEW k \in Nat
  PROVE  SlotOf(k) \in Slots
BY CapacityAssumption, Division DEF SlotOf, Slots

LEMMA SlotInjective ==
  ASSUME NEW r \in Nat, NEW k \in r .. r + Capacity - 1, NEW l \in r .. r + Capacity - 1,
         SlotOf(k) = SlotOf(l)
  PROVE  k = l
<1>1. /\ Capacity \in Nat \ {0} /\ k \in Nat /\ l \in Nat
      /\ l < k + Capacity /\ k < l + Capacity
  BY CapacityAssumption
<1>2. k % Capacity = l % Capacity
  BY DEF SlotOf
<1>3. CASE k <= l
  BY <1>1, <1>2, <1>3, ModUnique
<1>4. CASE l <= k
  BY <1>1, <1>2, <1>4, ModUnique
<1> QED
  BY <1>1, <1>3, <1>4

LEMMA SlotPeriodic ==
  ASSUME NEW k \in Nat
  PROVE  SlotOf(k + Capacity) = SlotOf(k)
<1>1. Capacity \in Nat \ {0}
  BY CapacityAssumption
<1>2. (k + Capacity) % Capacity = k % Capacity
  BY <1>1, ModPlus
<1> QED
  BY <1>2 DEF SlotOf

-----------------------------------------------------------------------------
(* The inductive invariant.                                                *)

LEMMA InitEstablishes == Init => RingInvariant
<1> SUFFICES ASSUME Init PROVE RingInvariant
  OBVIOUS
<1> USE CapacityAssumption, NoItemAssumption
<1>1. TypeOK
  BY DEF Init, TypeOK, Slots
<1>2. CursorsFollow
  BY DEF Init, CursorsFollow, Published, Released
<1>3. SlotsPartitioned
  <2>1. Published = 0 /\ Released = 0
    BY DEF Init, Published, Released
  <2>2. ASSUME NEW k \in 0 .. Capacity - 1
        PROVE  sequence[SlotOf(k)] = k
    <3>1. SlotOf(k) = k
      BY Division, SMTT(30) DEF SlotOf
    <3> QED
      BY <3>1 DEF Init, Slots
  <2> QED
    BY <2>1, <2>2 DEF SlotsPartitioned
<1>4. InFlight
  BY DEF Init, InFlight
<1>5. FifoDelivery
  BY DEF Init, FifoDelivery
<1> QED
  BY <1>1, <1>2, <1>3, <1>4, <1>5 DEF RingInvariant

LEMMA StepPreserves == RingInvariant /\ [Next]_vars => RingInvariant'
<1> SUFFICES ASSUME RingInvariant, [Next]_vars PROVE RingInvariant'
  OBVIOUS
<1> USE CapacityAssumption, NoItemAssumption, WordAssumption
<1> USE DEF Published, Released
<1>a. /\ TypeOK /\ CursorsFollow /\ SlotsPartitioned /\ InFlight /\ FifoDelivery
      /\ Published \in Nat /\ Released \in Nat
  BY DEF RingInvariant, TypeOK
<1>1. ASSUME NEW item \in Items, PushBegin(item)
      PROVE  RingInvariant'
  <2> USE <1>1 DEF PushBegin, slotVars, consVars, obsVars
  <2>1. TypeOK'
    BY <1>a DEF TypeOK
  <2>2. CursorsFollow'
    BY <1>a DEF CursorsFollow
  <2>3. SlotsPartitioned'
    BY <1>a DEF SlotsPartitioned, SlotOf
  <2>4. Published < Released + Capacity
    \* When the ring is full the slot belongs to the oldest item, whose sequence
    \* is Released + 1, not Released + Capacity.
    <3>1. head_seq = Published
      BY <1>a DEF CursorsFollow, TypeOK
    <3>2. SUFFICES ASSUME Published = Released + Capacity
                   PROVE  FALSE
      BY <1>a DEF SlotsPartitioned
    <3>3. SlotOf(head_seq) = SlotOf(Released)
      BY <1>a, <3>1, <3>2, SlotPeriodic
    <3>4. sequence[SlotOf(Released)] = Released + 1
      BY <1>a, <3>2 DEF SlotsPartitioned
    <3> QED
      BY <1>a, <3>1, <3>2, <3>3, <3>4 DEF SlotIsFree
  <2>5. InFlight'
    BY <1>a, <2>4 DEF InFlight, SlotOf
  <2>6. FifoDelivery'
    BY <1>a DEF FifoDelivery
  <2> QED
    BY <2>1, <2>2, <2>3, <2>5, <2>6 DEF RingInvariant
<1>2. CASE PushRefused
  BY <1>a, <1>2 DEF PushRefused, slotVars, consVars, obsVars, RingInvariant, TypeOK,
     CursorsFollow, SlotsPartitioned, InFlight, FifoDelivery, SlotOf
<1>3. CASE PushWrite
  <2> USE <1>3 DEF PushWrite, slotVars, consVars, obsVars
  <2>0. /\ head_seq = Published /\ Published < Released + Capacity /\ Released <= Published
        /\ pitem \in Items
    BY <1>a DEF CursorsFollow, InFlight, SlotsPartitioned, TypeOK
  <2>1. TypeOK'
    BY <1>a DEF TypeOK
  <2>2. CursorsFollow'
    BY <1>a DEF CursorsFollow
  <2>3. ASSUME NEW k \in Released .. Published - 1
        PROVE  data'[SlotOf(k)] = data[SlotOf(k)]
    <3>1. SlotOf(k) # SlotOf(head_seq)
      BY <1>a, <2>0, SlotInjective
    <3> QED
      BY <3>1
  <2>4. SlotsPartitioned'
    BY <1>a, <2>0, <2>3 DEF SlotsPartitioned, SlotOf
  <2>5. InFlight'
    <3>1. data'[SlotOf(head_seq)] = pitem
      BY <1>a, <2>0, SlotInRange DEF TypeOK
    <3> QED
      BY <1>a, <2>0, <3>1 DEF InFlight, SlotOf
  <2>6. FifoDelivery'
    BY <1>a DEF FifoDelivery
  <2> QED
    BY <2>1, <2>2, <2>4, <2>5, <2>6 DEF RingInvariant
<1>4. CASE PushPublish
  <2> USE <1>4 DEF PushPublish, slotVars, consVars, obsVars
  <2>0. /\ head_seq = Published /\ Published < Released + Capacity /\ Released <= Published
        /\ pitem \in Items /\ data[SlotOf(head_seq)] = pitem
    BY <1>a DEF CursorsFollow, InFlight, SlotsPartitioned, TypeOK
  <2>1. /\ Published' = Published + 1 /\ Released' = Released
        /\ pushed'[Published + 1] = pitem
        /\ \A i \in 1 .. Published : pushed'[i] = pushed[i]
    <3>1. pushed \in Seq(Items) /\ pushed' = Append(pushed, pitem)
      BY <1>a DEF TypeOK
    <3> QED
      BY <2>0, <3>1
  <2>2. TypeOK'
    <3>0. head_seq + 1 \in Nat /\ sequence \in [Slots -> Nat]
      BY <1>a DEF TypeOK
    <3>1. sequence' \in [Slots -> Nat]
      BY <3>0
    <3>2. pushed' \in Seq(Items)
      BY <1>a, <2>0 DEF TypeOK
    <3> QED
      BY <1>a, <3>1, <3>2 DEF TypeOK
  <2>3. CursorsFollow'
    BY <1>a, <2>0, <2>1 DEF CursorsFollow
  <2>4. SlotsPartitioned'
    <3>1. SUFFICES ASSUME NEW k \in Released .. Released + Capacity - 1
                   PROVE  IF k < Published + 1
                          THEN /\ sequence'[SlotOf(k)] = k + 1
                               /\ data[SlotOf(k)] = pushed'[k + 1]
                          ELSE sequence'[SlotOf(k)] = k
      BY <1>a, <2>0, <2>1 DEF SlotsPartitioned, SlotOf
    <3>2. CASE k = Published
      <4>1. sequence'[SlotOf(head_seq)] = head_seq + 1
        BY <1>a, <2>0, SlotInRange DEF TypeOK
      <4> QED
        BY <1>a, <2>0, <2>1, <3>2, <4>1
    <3>3. CASE k # Published
      <4>1. SlotOf(k) # SlotOf(head_seq)
        BY <1>a, <2>0, <3>3, SlotInjective
      <4>2. sequence'[SlotOf(k)] = sequence[SlotOf(k)]
        BY <4>1
      <4> QED
        BY <1>a, <2>0, <2>1, <3>3, <4>2 DEF SlotsPartitioned
    <3> QED
      BY <3>2, <3>3
  <2>5. InFlight'
    BY <1>a, <2>0, <2>1 DEF InFlight, SlotOf
  <2>6. FifoDelivery'
    BY <1>a, <2>0, <2>1 DEF FifoDelivery
  <2> QED
    BY <2>2, <2>3, <2>4, <2>5, <2>6 DEF RingInvariant
<1>5. CASE PushAdvance
  BY <1>a, <1>5 DEF PushAdvance, slotVars, consVars, obsVars, RingInvariant, TypeOK,
     CursorsFollow, SlotsPartitioned, InFlight, FifoDelivery, SlotOf
<1>6. CASE PopBegin
  <2> USE <1>6 DEF PopBegin, slotVars, prodVars, obsVars
  <2>1. Released < Published
    \* When the ring is empty the slot of the next item is free: its sequence is
    \* Released, not Released + 1.
    <3>1. tail_seq = Released
      BY <1>a DEF CursorsFollow, TypeOK
    <3>2. SUFFICES ASSUME Published = Released
                   PROVE  FALSE
      BY <1>a DEF SlotsPartitioned
    <3>3. sequence[SlotOf(Released)] = Released
      BY <1>a, <3>2 DEF SlotsPartitioned
    <3> QED
      BY <1>a, <3>1, <3>3 DEF SlotIsReady
  <2> QED
    BY <1>a, <2>1 DEF RingInvariant, TypeOK, CursorsFollow, SlotsPartitioned, InFlight,
       FifoDelivery, SlotOf
<1>7. CASE PopRefused
  BY <1>a, <1>7 DEF PopRefused, slotVars, prodVars, obsVars, RingInvariant, TypeOK,
     CursorsFollow, SlotsPartitioned, InFlight, FifoDelivery, SlotOf
<1>8. CASE PopRead
  <2> USE <1>8 DEF PopRead, slotVars, prodVars, obsVars
  <2>1. /\ tail_seq = Released /\ Released < Published
        /\ data[SlotOf(tail_seq)] = pushed[Released + 1]
    BY <1>a DEF CursorsFollow, InFlight, SlotsPartitioned, TypeOK
  <2>2. citem' \in Items /\ citem' = pushed[Released + 1]
    BY <1>a, <2>1 DEF TypeOK
  <2>3. TypeOK'
    BY <1>a, <2>2 DEF TypeOK
  <2>4. CursorsFollow' /\ SlotsPartitioned' /\ FifoDelivery'
    BY <1>a DEF CursorsFollow, SlotsPartitioned, FifoDelivery, SlotOf
  <2>5. InFlight'
    BY <1>a, <2>1, <2>2 DEF InFlight, SlotOf
  <2> QED
    BY <2>3, <2>4, <2>5 DEF RingInvariant
<1>9. CASE PopRelease
  <2> USE <1>9 DEF PopRelease, NextLap, slotVars, prodVars, obsVars
  <2>0. /\ tail_seq = Released /\ Released < Published /\ Published <= Released + Capacity
        /\ citem = pushed[Released + 1] /\ citem \in Items
    BY <1>a DEF CursorsFollow, InFlight, SlotsPartitioned, TypeOK
  <2>1. /\ Released' = Released + 1 /\ Published' = Published
        /\ popped'[Released + 1] = citem
        /\ \A i \in 1 .. Released : popped'[i] = popped[i]
    BY <1>a, <2>0 DEF TypeOK
  <2>2. TypeOK'
    <3>1. tail_seq + Capacity \in Nat /\ sequence \in [Slots -> Nat]
      BY <1>a DEF TypeOK
    <3>2. sequence' \in [Slots -> Nat]
      BY <3>1
    <3>3. popped' \in Seq(Items)
      BY <1>a, <2>0 DEF TypeOK
    <3> QED
      BY <1>a, <3>2, <3>3 DEF TypeOK
  <2>3. CursorsFollow'
    BY <1>a, <2>0, <2>1 DEF CursorsFollow
  <2>4. SlotsPartitioned'
    <3>1. SUFFICES ASSUME NEW k \in Released + 1 .. Released + Capacity
                   PROVE  IF k < Published
                          THEN /\ sequence'[SlotOf(k)] = k + 1
                               /\ data[SlotOf(k)] = pushed[k + 1]
                          ELSE sequence'[SlotOf(k)] = k
      BY <1>a, <2>0, <2>1 DEF SlotsPartitioned, SlotOf
    <3>2. CASE k = Released + Capacity
      <4>1. SlotOf(k) = SlotOf(tail_seq)
        BY <1>a, <2>0, <3>2, SlotPeriodic
      <4>2. sequence'[SlotOf(k)] = tail_seq + Capacity
        BY <1>a, <2>0, <4>1, SlotInRange DEF TypeOK
      <4> QED
        BY <1>a, <2>0, <3>2, <4>2
    <3>3. CASE k # Released + Capacity
      <4>1. SlotOf(k) # SlotOf(tail_seq)
        BY <1>a, <2>0, <3>3, SlotInjective
      <4>2. sequence'[SlotOf(k)] = sequence[SlotOf(k)]
        BY <4>1
      <4> QED
        <5>1. k \in Released .. Released + Capacity - 1
          BY <1>a, <3>3
        <5>2. IF k < Published
              THEN sequence[SlotOf(k)] = k + 1 /\ data[SlotOf(k)] = pushed[k + 1]
              ELSE sequence[SlotOf(k)] = k
          BY <1>a, <5>1 DEF SlotsPartitioned
        <5> QED
          BY <4>2, <5>2
    <3> QED
      BY <3>2, <3>3
  <2>5. InFlight'
    BY <1>a, <2>0, <2>1 DEF InFlight, SlotOf
  <2>6. FifoDelivery'
    BY <1>a, <2>0, <2>1 DEF FifoDelivery
  <2> QED
    BY <2>2, <2>3, <2>4, <2>5, <2>6 DEF RingInvariant
<1>10. CASE PopAdvance
  <2> USE <1>10 DEF PopAdvance, slotVars, prodVars, obsVars
  <2>1. TypeOK' /\ CursorsFollow'
    BY <1>a DEF TypeOK, CursorsFollow
  <2>2. SlotsPartitioned' /\ FifoDelivery'
    BY <1>a DEF SlotsPartitioned, FifoDelivery, SlotOf
  <2>3. InFlight'
    BY <1>a DEF InFlight, SlotOf
  <2> QED
    BY <2>1, <2>2, <2>3 DEF RingInvariant
<1>11. CASE SizeLoadHead
  BY <1>a, <1>11 DEF SizeLoadHead, slotVars, prodVars, consVars, RingInvariant, TypeOK,
     CursorsFollow, SlotsPartitioned, InFlight, FifoDelivery, SlotOf
<1>12. CASE SizeLoadTail
  <2>1. WordDifference(ohead, tail_seq) \in Nat
    <3>1. ohead - tail_seq \in Int /\ Word \in Nat \ {0}
      BY <1>a, BoundAssumption DEF TypeOK
    <3> QED
      BY <3>1, SMTT(30) DEF WordDifference
  <2> QED
    BY <1>a, <1>12, <2>1 DEF SizeLoadTail, slotVars, prodVars, consVars, RingInvariant,
       TypeOK, CursorsFollow, SlotsPartitioned, InFlight, FifoDelivery, SlotOf
<1>13. CASE UNCHANGED vars
  <2> USE <1>13 DEF vars, slotVars, prodVars, consVars, obsVars
  <2>1. TypeOK' /\ CursorsFollow' /\ InFlight' /\ FifoDelivery'
    BY <1>a DEF TypeOK, CursorsFollow, InFlight, FifoDelivery, SlotOf
  <2>2. SlotsPartitioned'
    BY <1>a DEF SlotsPartitioned, SlotOf
  <2> QED
    BY <2>1, <2>2 DEF RingInvariant
<1> QED
  BY <1>1, <1>2, <1>3, <1>4, <1>5, <1>6, <1>7, <1>8, <1>9, <1>10, <1>11, <1>12, <1>13
     DEF Next, Push, Pop, Size

-----------------------------------------------------------------------------
(* What follows.                                                           *)

\* For every capacity of at least two: the ring's slots are always partitioned
\* between items nobody has taken back and slots free for the next lap, and
\* try_pop returns exactly what try_push accepted, in order.
THEOREM RingCorrect == Spec => []RingInvariant
<1>1. Init => RingInvariant
  BY InitEstablishes
<1>2. RingInvariant /\ [Next]_vars => RingInvariant'
  BY StepPreserves
<1> QED
  BY <1>1, <1>2, PTL DEF Spec

\* For every capacity of at least two: the producer's plain write of a slot and
\* the consumer's plain read never overlap on one slot.
THEOREM RingRaceFree == Spec => []NoSlotRace
<1>1. RingInvariant => NoSlotRace
  <2> SUFFICES ASSUME RingInvariant, ppc = "write", cpc = "read",
                      SlotOf(head_seq) = SlotOf(tail_seq)
               PROVE  FALSE
    BY DEF NoSlotRace
  <2>1. /\ head_seq = Published /\ tail_seq = Released
        /\ Released < Published /\ Published < Released + Capacity
        /\ Published \in Nat /\ Released \in Nat
    BY DEF RingInvariant, TypeOK, CursorsFollow, InFlight, Published, Released
  <2> QED
    BY <2>1, SlotInjective, CapacityAssumption
<1> QED
  BY <1>1, RingCorrect, PTL

\* For every capacity: the distance of the two cursors is off by at most one in
\* either direction, and exact when no operation is in progress.
THEOREM CursorDistance == Spec => []CursorDistanceBounded
<1>1. RingInvariant => CursorDistanceBounded
  BY CapacityAssumption DEF RingInvariant, TypeOK, CursorsFollow, SlotsPartitioned,
     CursorDistanceBounded, Published, Released
<1> QED
  BY <1>1, RingCorrect, PTL

-----------------------------------------------------------------------------
(* The ring implements the bounded queue.                                  *)

\* Appending to a sequence appends to each of its suffixes.
LEMMA SuffixOfAppend ==
  ASSUME NEW S, NEW s \in Seq(S), NEW e \in S, NEW n \in 1 .. Len(s) + 1
  PROVE  SubSeq(Append(s, e), n, Len(s) + 1) = Append(SubSeq(s, n, Len(s)), e)
<1> DEFINE a == SubSeq(Append(s, e), n, Len(s) + 1)
           b == Append(SubSeq(s, n, Len(s)), e)
<1>1. a \in Seq(S) /\ b \in Seq(S)
  OBVIOUS
<1>2. Len(a) = Len(b)
  OBVIOUS
<1>3. \A i \in 1 .. Len(a) : a[i] = b[i]
  OBVIOUS
<1> HIDE DEF a, b
<1>4. a = b
  BY <1>1, <1>2, <1>3
<1> QED
  BY <1>4 DEF a, b

\* The head and the tail of a non-empty suffix.
LEMMA HeadOfSuffix ==
  ASSUME NEW S, NEW s \in Seq(S), NEW n \in 1 .. Len(s)
  PROVE  /\ SubSeq(s, n, Len(s)) # <<>>
         /\ Head(SubSeq(s, n, Len(s))) = s[n]
         /\ Tail(SubSeq(s, n, Len(s))) = SubSeq(s, n + 1, Len(s))
<1>1. SubSeq(s, n, Len(s)) # <<>>
  OBVIOUS
<1> QED
  BY <1>1, HeadTailOfSubSeq

\* Every step of the ring is a step of the bounded queue or leaves it alone.
LEMMA StepRefines == RingInvariant /\ RingInvariant' /\ [Next]_vars => [Fifo!Next]_(Fifo!vars)
<1> SUFFICES ASSUME RingInvariant, RingInvariant', [Next]_vars
             PROVE  [Fifo!Next]_(Fifo!vars)
  OBVIOUS
<1> DEFINE queue == SubSeq(pushed, Len(popped) + 1, Len(pushed))
<1>a. /\ pushed \in Seq(Items) /\ popped \in Seq(Items)
      /\ Released \in Nat /\ Published \in Nat
      /\ Released <= Published /\ Published <= Released + Capacity
      /\ Len(queue) = Published - Released
      /\ Published = Len(pushed) /\ Released = Len(popped)
  BY DEF RingInvariant, TypeOK, SlotsPartitioned, Published, Released
<1>1. ASSUME NEW item \in Items, PushBegin(item)
      PROVE  UNCHANGED Fifo!vars
  BY <1>1 DEF PushBegin, consVars, Fifo!vars
<1>2. CASE PushRefused
  \* The slot's sequence is not head_seq, so no slot is free: the queue is full.
  <2>1. ppc = "idle" /\ sequence[SlotOf(head_seq)] # head_seq
    BY <1>2 DEF PushRefused, SlotIsFree
  <2>2. head_seq = Published
    BY <1>a, <2>1 DEF RingInvariant, TypeOK, CursorsFollow
  <2>3. Published = Released + Capacity
    BY <1>a, <2>1, <2>2, CapacityAssumption DEF RingInvariant, SlotsPartitioned
  <2>4. Len(queue) = Capacity
    BY <1>a, <2>3, CapacityAssumption
  <2> QED
    BY <1>2, <2>4 DEF PushRefused, consVars, Fifo!Next, Fifo!PutRefused
<1>3. CASE PushWrite
  BY <1>3 DEF PushWrite, consVars, Fifo!vars
<1>4. CASE PushPublish
  <2>1. Len(queue) < Capacity /\ pitem \in Items
    BY <1>4, <1>a, CapacityAssumption DEF PushPublish, RingInvariant, InFlight
  <2>2. queue' = Append(queue, pitem)
    <3>1. pushed' = Append(pushed, pitem) /\ popped' = popped
      BY <1>4 DEF PushPublish, consVars
    <3>2. Len(pushed') = Len(pushed) + 1
      BY <1>a, <2>1, <3>1
    <3>3. Len(popped) + 1 \in 1 .. Len(pushed) + 1
      BY <1>a
    <3> QED
      BY <1>a, <2>1, <3>1, <3>2, <3>3, SuffixOfAppend
  <2>3. Fifo!Put(pitem)
    BY <1>4, <2>1, <2>2 DEF PushPublish, consVars, Fifo!Put
  <2> QED
    BY <2>1, <2>3 DEF Fifo!Next
<1>5. CASE PushAdvance
  BY <1>5 DEF PushAdvance, consVars, Fifo!vars
<1>6. CASE PopBegin
  BY <1>6 DEF PopBegin, prodVars, Fifo!vars
<1>7. CASE PopRefused
  \* The slot's sequence is not tail_seq + 1, so no slot holds an item.
  <2>1. cpc = "idle" /\ sequence[SlotOf(tail_seq)] # tail_seq + 1
    BY <1>7 DEF PopRefused, SlotIsReady
  <2>2. tail_seq = Released
    BY <1>a, <2>1 DEF RingInvariant, TypeOK, CursorsFollow
  <2>3. Published = Released
    BY <1>a, <2>1, <2>2, CapacityAssumption DEF RingInvariant, SlotsPartitioned
  <2>4. queue = <<>>
    BY <1>a, <2>3
  <2> QED
    BY <1>7, <2>4 DEF PopRefused, prodVars, Fifo!Next, Fifo!GetRefused
<1>8. CASE PopRead
  BY <1>8 DEF PopRead, prodVars, Fifo!vars
<1>9. CASE PopRelease
  <2>1. Released < Published /\ citem = pushed[Released + 1]
    BY <1>9 DEF PopRelease, RingInvariant, InFlight
  <2>2. Released + 1 \in 1 .. Len(pushed)
    BY <1>a, <2>1
  <2>3. queue # <<>> /\ Head(queue) = citem /\ Tail(queue) = SubSeq(pushed, Released + 2, Len(pushed))
    BY <1>a, <2>1, <2>2, HeadOfSuffix
  <2>4. queue' = Tail(queue) /\ popped' = Append(popped, Head(queue))
    <3>1. pushed' = pushed /\ popped' = Append(popped, citem)
      BY <1>9 DEF PopRelease, prodVars
    <3>2. Len(popped') = Released + 1
      BY <1>a, <3>1
    <3> QED
      BY <1>a, <2>3, <3>1, <3>2
  <2>5. Fifo!Get
    BY <1>9, <2>3, <2>4 DEF PopRelease, prodVars, Fifo!Get
  <2> QED
    BY <2>5 DEF Fifo!Next
<1>10. CASE PopAdvance
  BY <1>10 DEF PopAdvance, prodVars, Fifo!vars
<1>11. CASE Size
  BY <1>11 DEF Size, SizeLoadHead, SizeLoadTail, prodVars, consVars, Fifo!vars
<1>12. CASE UNCHANGED vars
  BY <1>12 DEF vars, prodVars, consVars, Fifo!vars
<1> QED
  BY <1>1, <1>2, <1>3, <1>4, <1>5, <1>6, <1>7, <1>8, <1>9, <1>10, <1>11, <1>12
     DEF Next, Push, Pop

\* For every capacity, every set of items and every number of pushes: SPSCRing
\* implements a bounded FIFO queue, a refused push seeing it full and a refused
\* pop seeing it empty.
THEOREM RingImplementsFifo == Spec => ImplementsFifo
<1>1. Init => Fifo!Init
  BY DEF Init, Fifo!Init
<1>2. RingInvariant /\ RingInvariant' /\ [Next]_vars => [Fifo!Next]_(Fifo!vars)
  BY StepRefines
<1> QED
  BY <1>1, <1>2, RingCorrect, PTL DEF Spec, ImplementsFifo, Fifo!Spec

=============================================================================
