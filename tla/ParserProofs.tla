---------------------------- MODULE ParserProofs ----------------------------
(***************************************************************************)
(* Parser.tla for pools, rings and feeds of any size and for every limit   *)
(* of the message's arrays: the parser implements the lossy feed           *)
(* LossyFeed, no object is lost or handed out twice, and a message pool    *)
(* with two objects more than the queue holds is never found empty.        *)
(*                                                                         *)
(* The heart of the invariant is Counting: every raw message taken was     *)
(* counted, but for the one in work.  So the place in the feed of each raw *)
(* message in the ring follows from the statistics, and Contents says that *)
(* the ring, the message in work and the message made of it hold what is   *)
(* at that place.  Apart and RawApart say that no two of the parser, the   *)
(* rings and the pools have the same object, so that what one of them      *)
(* writes changes nothing for the others.                                  *)
(***************************************************************************)
EXTENDS Parser, FiniteSetTheorems, SequenceTheorems, TLAPS

\* The raw messages taken so far that no statistic counts.
Pending == IF pc \in {"allocate", "parse", "push", "terminated"} THEN 1 ELSE 0
Counted == messages_parsed_ + (parse_errors_ + queue_full_drops_)

\* Where in the feed the k-th message of the ring is from, and the one in work.
Position(k) == received - Len(raw_queue) + k
Raw(k) == [content |-> feed[k], receive_timestamp |-> k]

Types ==
    /\ raw_queue \in Seq(RawSlots \cup {Null}) /\ raw_free \subseteq RawSlots
    /\ raw_msg \in RawSlots \cup {Null}
    /\ DOMAIN raw = RawSlots /\ DOMAIN message = Slots
    /\ pool \subseteq Slots /\ free \subseteq pool /\ queue \in Seq(pool)
    /\ normalized \in pool \cup {Null} /\ handled \in pool \cup {Null}
    /\ messages_parsed_ \in Nat /\ parse_errors_ \in Nat /\ queue_full_drops_ \in Nat
    /\ feed \in Seq(Documents \cup {Invalid, Null}) /\ received \in 0 .. Len(feed)
    /\ pc \in {"created", "test", "body", "allocate", "parse", "push", "finish",
               "returned", "terminated"}

Apart ==
    /\ \A i, j \in DOMAIN queue : queue[i] = queue[j] => i = j
    /\ \A i \in DOMAIN queue : queue[i] \notin free /\ queue[i] # handled /\ queue[i] # normalized
    /\ handled \notin free /\ normalized \notin free
    /\ normalized = handled => normalized = Null
    /\ pc \in {"parse", "push"} => normalized # Null
    /\ pc \notin {"parse", "push", "terminated"} => normalized = Null

RawApart ==
    /\ \A i, j \in DOMAIN raw_queue :
          raw_queue[i] = raw_queue[j] /\ raw_queue[i] # Null => i = j
    /\ \A i \in DOMAIN raw_queue :
          /\ raw_queue[i] \notin raw_free
          /\ raw_queue[i] = raw_msg => raw_msg = Null
    /\ raw_msg \notin raw_free
    /\ pc \in {"allocate", "parse", "push", "finish"} => raw_msg # Null
    /\ pc \notin {"allocate", "parse", "push", "finish", "terminated"} => raw_msg = Null

Counting == received = Counted + Len(raw_queue) + Pending

Contents ==
    /\ \A k \in DOMAIN raw_queue :
          IF feed[Position(k)] = Null THEN raw_queue[k] = Null
          ELSE raw_queue[k] # Null /\ raw[raw_queue[k]] = Raw(Position(k))
    /\ pc \in {"allocate", "parse", "push"} =>
          /\ raw[raw_msg] = Raw(Position(0))
          /\ feed[Position(0)] \notin {Invalid, Null}
    /\ pc = "push" =>
          /\ message[normalized].receive_time = Position(0)
          /\ Faithful(message[normalized].body, feed[Position(0)])

ParserInv == Types /\ Apart /\ RawApart /\ Counting /\ Contents

\* Every object of the pool is somewhere; a raw object is missing for every
\* allocation that got nullptr.
Missing == RawSlots \ (raw_free \cup Range(raw_queue) \cup {raw_msg})
Conserved ==
    /\ pool \subseteq free \cup Range(queue) \cup {normalized, handled}
    /\ exhausted \in Nat /\ Cardinality(Missing) = exhausted

-----------------------------------------------------------------------------
(* Sequences.                                                              *)

LEMMA TailOf ==
    ASSUME NEW S, NEW q \in Seq(S), q # <<>>
    PROVE  /\ Len(q) \in Nat \ {0} /\ DOMAIN q = 1 .. Len(q)
           /\ Head(q) = q[1] /\ Head(q) \in S
           /\ Tail(q) \in Seq(S) /\ Len(Tail(q)) = Len(q) - 1
           /\ DOMAIN Tail(q) = 1 .. Len(q) - 1
           /\ \A k \in 1 .. Len(q) - 1 : Tail(q)[k] = q[k + 1]
<1>1. Len(q) \in Nat /\ Len(q) # 0 /\ DOMAIN q = 1 .. Len(q)
      BY LenProperties, EmptySeq
<1>2. /\ Head(q) \in S /\ Tail(q) \in Seq(S) /\ Len(Tail(q)) = Len(q) - 1
      /\ \A k \in 1 .. Len(Tail(q)) : Tail(q)[k] = q[k + 1]
      BY HeadTailProperties
<1>. QED
     BY <1>1, <1>2, LenProperties

LEMMA AppendOf ==
    ASSUME NEW S, NEW q \in Seq(S), NEW x \in S
    PROVE  /\ Len(q) \in Nat /\ DOMAIN q = 1 .. Len(q)
           /\ Append(q, x) \in Seq(S) /\ Len(Append(q, x)) = Len(q) + 1
           /\ DOMAIN Append(q, x) = 1 .. Len(q) + 1
           /\ \A k \in 1 .. Len(q) : Append(q, x)[k] = q[k]
           /\ Append(q, x)[Len(q) + 1] = x
<1>1. Len(q) \in Nat /\ DOMAIN q = 1 .. Len(q)
      BY LenProperties
<1>2. /\ Append(q, x) \in Seq(S) /\ Len(Append(q, x)) = Len(q) + 1
      /\ \A k \in 1 .. Len(q) : Append(q, x)[k] = q[k]
      /\ Append(q, x)[Len(q) + 1] = x
      BY AppendProperties
<1>. QED
     BY <1>1, <1>2, LenProperties

-----------------------------------------------------------------------------
(* What is made of a document says what it says.                           *)

LEMMA CutLists ==
    ASSUME NEW list, list \in Seq(Range(list)), NEW limit \in Nat,
           NoArray \notin Range(Cut(list, limit))
    PROVE  Lists(Cut(list, limit), list, limit)
<1>. DEFINE n == IF Len(list) < limit THEN Len(list) ELSE limit
            cut == SubSeq(list, 1, n)
<1>1. /\ Len(list) \in Nat /\ n \in 0 .. Len(list)
      /\ \A k \in 1 .. Len(list) : list[k] \in Range(list)
      BY LenProperties
<1>2. /\ cut \in Seq(Range(list)) /\ Len(cut) = n
      /\ \A k \in 1 .. n : cut[k] = list[k]
      BY <1>1, SubSeqProperties
<1>3. DOMAIN cut = 1 .. n
      BY <1>2, LenProperties
<1>4. \A k \in DOMAIN cut : cut[k] # NoArray
      BY DEF Range, Cut
<1>. QED
     BY <1>2, <1>3, <1>4 DEF Lists, Cut

LEMMA ParsedFaithful ==
    ASSUME NEW doc \in Documents, NEW m \in parse_message(doc), ~Throws(m)
    PROVE  Faithful(m, doc)
<1>1. doc # Malformed
      BY DEF parse_message
<1>2. \A list \in {doc.bids, doc.asks, doc.b, doc.a} \ {Absent} : list \in Seq(Range(list))
      BY <1>1, DocumentsAssumption
<1>3. MAX_LEVELS \in Nat /\ MAX_UPDATES \in Nat
      BY LimitsAssumption
<1>4. CASE doc.e = "depthUpdate"
  <2>1. m \in parse_depth_update_obj(doc)
        BY <1>1, <1>4, DocumentsAssumption DEF parse_message
  <2>2. /\ m.type = "DELTA"
        /\ m.instrument = Field(doc.s, EmptySymbol)
        /\ m.first_update_id = Field(doc.U, 0) /\ m.last_update_id = Field(doc.u, 0)
        /\ m.bid_updates = Cut(Field(doc.b, <<>>), MAX_UPDATES)
        /\ m.ask_updates = Cut(Field(doc.a, <<>>), MAX_UPDATES)
        BY <2>1 DEF parse_depth_update_obj
  <2>3. NoArray \notin Range(m.bid_updates) /\ NoArray \notin Range(m.ask_updates)
        BY <2>2 DEF Throws
  <2>4. doc.b # Absent => Lists(m.bid_updates, doc.b, MAX_UPDATES)
        BY <1>2, <1>3, <2>2, <2>3, CutLists DEF Field
  <2>5. doc.a # Absent => Lists(m.ask_updates, doc.a, MAX_UPDATES)
        BY <1>2, <1>3, <2>2, <2>3, CutLists DEF Field
  <2>. QED
       BY <1>4, <2>2, <2>4, <2>5 DEF Faithful, Field
<1>5. CASE doc.e = "trade"
  <2>1. m \in parse_trade_obj(doc)
        BY <1>1, <1>5, DocumentsAssumption DEF parse_message
  <2>2. PICK time \in IF doc.T = Absent THEN Timestamps ELSE {doc.T} :
            m = [type |-> "TRADE", instrument |-> Field(doc.s, EmptySymbol), timestamp |-> time]
        BY <2>1 DEF parse_trade_obj
  <2>. QED
       BY <1>5, <2>2 DEF Faithful, Field
<1>6. CASE doc.e = Absent
  <2>1. m \in parse_snapshot_obj(doc)
        BY <1>1, <1>6, DocumentsAssumption DEF parse_message
  <2>2. /\ m.type = "SNAPSHOT" /\ m.instrument = UNKNOWN
        /\ m.last_update_id = doc.lastUpdateId
        /\ m.bids = Cut(Field(doc.bids, <<>>), MAX_LEVELS)
        /\ m.asks = Cut(Field(doc.asks, <<>>), MAX_LEVELS)
        BY <2>1 DEF parse_snapshot_obj
  <2>3. NoArray \notin Range(m.bids) /\ NoArray \notin Range(m.asks)
        BY <2>2 DEF Throws
  <2>4. doc.bids # Absent => Lists(m.bids, doc.bids, MAX_LEVELS)
        BY <1>2, <1>3, <2>2, <2>3, CutLists DEF Field
  <2>5. doc.asks # Absent => Lists(m.asks, doc.asks, MAX_LEVELS)
        BY <1>2, <1>3, <2>2, <2>3, CutLists DEF Field
  <2>. QED
       BY <1>6, <2>2, <2>4, <2>5 DEF Faithful
<1>. QED
     BY <1>1, <1>4, <1>5, <1>6 DEF parse_message

-----------------------------------------------------------------------------
(* The invariant holds at the start.                                       *)

LEMMA ParserInitInv == Init => ParserInv
<1>. SUFFICES ASSUME Init PROVE ParserInv
     OBVIOUS
<1>1. feed \in Seq(Documents \cup {Invalid, Null})
      BY FeedsAssumption DEF Init
<1>2. Len(feed) \in Nat
      BY <1>1, LenProperties
<1>3. Types
      BY <1>1, <1>2 DEF Init, Types
<1>4. Apart /\ RawApart
      BY ObjectsAssumption DEF Init, Apart, RawApart
<1>5. Counting /\ Contents
      BY DEF Init, Counting, Contents, Counted, Pending
<1>. QED
     BY <1>3, <1>4, <1>5 DEF ParserInv

-----------------------------------------------------------------------------
(* Steps that touch neither the raw ring nor what is taken from it, and    *)
(* steps that touch neither the ring of messages nor their objects.        *)

RawStays == UNCHANGED <<rawVars, raw_msg, received, feed>>
OutStays == UNCHANGED <<outVars, normalized, pool>>

LEMMA TypesStep == Types /\ Apart /\ RawApart /\ [Next]_vars => Types'
<1>. SUFFICES ASSUME Types, Apart, RawApart, [Next]_vars PROVE Types'
     OBVIOUS
<1>1. Len(feed) \in Nat
      BY LenProperties DEF Types
<1>2. ASSUME NEW slot \in raw_free, Receive(slot) PROVE Types'
  <2>1. Append(raw_queue, slot) \in Seq(RawSlots \cup {Null})
        BY AppendOf DEF Types
  <2>. QED
       BY <1>1, <1>2, <2>1 DEF Receive, outVars, setup, statVars, loopVars, Types
<1>3. CASE ReceiveNull
  <2>1. Append(raw_queue, Null) \in Seq(RawSlots \cup {Null})
        BY AppendOf DEF Types
  <2>. QED
       BY <1>1, <1>3, <2>1 DEF ReceiveNull, outVars, setup, statVars, loopVars, Types
<1>4. CASE Handle
      BY <1>4, TailOf DEF Handle, rawVars, setup, statVars, loopVars, Types
<1>5. CASE Handled
      BY <1>5 DEF Handled, rawVars, setup, statVars, loopVars, Types
<1>6. CASE Take
  <2>1. Head(raw_queue) \in RawSlots \cup {Null} /\ Tail(raw_queue) \in Seq(RawSlots \cup {Null})
        BY <1>6, TailOf DEF Take, Types
  <2>. QED
       BY <1>6, <2>1 DEF Take, outVars, setup, loopVars, Types
<1>7. CASE Push
  <2>1. normalized \in pool
        BY <1>7 DEF Push, Apart, Types
  <2>2. Append(queue, normalized) \in Seq(pool)
        BY <2>1, AppendOf DEF Types
  <2>. QED
       BY <1>7, <2>2 DEF Push, rawVars, setup, loopVars, Types
<1>8. CASE QueueEmpty \/ Allocate \/ Exhausted \/ Depleted
      BY <1>8 DEF QueueEmpty, Allocate, Exhausted, Depleted, rawVars, outVars, setup, statVars,
         loopVars, Types
<1>9. CASE Parse \/ ParseThrows
      BY <1>9 DEF Parse, ParseThrows, rawVars, outVars, setup, statVars, loopVars, Types
<1>10. CASE ParseError \/ PushRefused
      BY <1>10 DEF ParseError, PushRefused, Discard, rawVars, setup, loopVars, Types, Apart
<1>11. CASE Finish
      BY <1>11 DEF Finish, GiveRawBack, outVars, setup, statVars, loopVars, Types, RawApart
<1>12. CASE StartRun \/ LoopTest \/ Stop
      BY <1>12 DEF StartRun, LoopTest, Stop, rawVars, outVars, setup, statVars, loopVars, Types
<1>13. CASE UNCHANGED vars
      BY <1>13 DEF vars, rawVars, outVars, setup, statVars, loopVars, Types
<1>. QED
     BY <1>2, <1>3, <1>4, <1>5, <1>6, <1>7, <1>8, <1>9, <1>10, <1>11, <1>12, <1>13
     DEF Next, ParserThread, Others, ProcessOne

LEMMA CountingStep == Types /\ Counting /\ [Next]_vars => Counting'
<1>. SUFFICES ASSUME Types, Counting, [Next]_vars PROVE Counting'
     OBVIOUS
<1>. USE DEF Counted, Pending
<1>1. Len(raw_queue) \in Nat /\ received \in Nat
      BY LenProperties DEF Types
<1>2. ASSUME NEW slot \in raw_free, Receive(slot) PROVE Counting'
  <2>1. Len(raw_queue') = Len(raw_queue) + 1
        BY <1>2, AppendOf DEF Receive, Types
  <2>. QED
       BY <1>1, <1>2, <2>1 DEF Receive, statVars, Counting, Types
<1>3. CASE ReceiveNull
  <2>1. Len(raw_queue') = Len(raw_queue) + 1
        BY <1>3, AppendOf DEF ReceiveNull, Types
  <2>. QED
       BY <1>1, <1>3, <2>1 DEF ReceiveNull, statVars, Counting, Types
<1>4. CASE Take
  <2>1. Len(raw_queue') = Len(raw_queue) - 1
        BY <1>4, TailOf DEF Take, Types
  <2>. QED
       BY <1>1, <1>4, <2>1 DEF Take, Counting, Types
<1>5. CASE Handle \/ Handled \/ Stop \/ UNCHANGED vars
      BY <1>5 DEF Handle, Handled, Stop, vars, rawVars, statVars, Counting
<1>6. CASE Push
      BY <1>1, <1>6 DEF Push, rawVars, Counting, Types
<1>7. CASE Exhausted \/ ParseError \/ PushRefused
      BY <1>1, <1>7 DEF Exhausted, ParseError, PushRefused, rawVars, Counting, Types
<1>8. CASE QueueEmpty \/ Allocate \/ Depleted \/ Parse \/ ParseThrows
      BY <1>1, <1>8 DEF QueueEmpty, Allocate, Depleted, Parse, ParseThrows, rawVars, statVars,
         Counting
<1>9. CASE Finish \/ StartRun \/ LoopTest
      BY <1>1, <1>9 DEF Finish, GiveRawBack, StartRun, LoopTest, rawVars, statVars, Counting
<1>. QED
     BY <1>2, <1>3, <1>4, <1>5, <1>6, <1>7, <1>8, <1>9
     DEF Next, ParserThread, Others, ProcessOne

LEMMA ApartStep == Types /\ Apart /\ [Next]_vars => Apart'
<1>. SUFFICES ASSUME Types, Apart, [Next]_vars PROVE Apart'
     OBVIOUS
<1>1. Len(queue) \in Nat /\ DOMAIN queue = 1 .. Len(queue) /\ Null \notin pool
      BY LenProperties, ObjectsAssumption DEF Types
<1>2. CASE Handle
  <2>1. /\ DOMAIN queue' = 1 .. Len(queue) - 1 /\ handled' = queue[1]
        /\ \A k \in DOMAIN queue' : queue'[k] = queue[k + 1] /\ k + 1 \in DOMAIN queue
        /\ 1 \in DOMAIN queue
        BY <1>1, <1>2, TailOf DEF Handle, Types
  <2>2. \A k \in DOMAIN queue' : k + 1 # 1
        BY <1>1, <2>1
  <2>3. /\ normalized' = normalized /\ free' = free /\ pc' = pc
        BY <1>2 DEF Handle
  <2>4. \A i, j \in DOMAIN queue' : queue'[i] = queue'[j] => i = j
        BY <1>1, <2>1 DEF Apart
  <2>5. \A i \in DOMAIN queue' :
            queue'[i] \notin free' /\ queue'[i] # handled' /\ queue'[i] # normalized'
        BY <2>1, <2>2, <2>3 DEF Apart
  <2>. QED
       BY <2>1, <2>3, <2>4, <2>5 DEF Apart
<1>3. CASE Handled
      BY <1>1, <1>3 DEF Handled, Apart, Types
<1>4. CASE Allocate
      BY <1>1, <1>4 DEF Allocate, Apart, Types
<1>5. CASE ParseError \/ PushRefused
  <2>1. normalized \in pool /\ normalized # handled
        BY <1>1, <1>5 DEF ParseError, PushRefused, Apart, Types
  <2>2. /\ free' = free \cup {normalized} /\ normalized' = Null /\ pc' = "finish"
        /\ UNCHANGED <<queue, handled>>
        BY <1>5 DEF ParseError, PushRefused, Discard
  <2>3. \A i \in DOMAIN queue : queue[i] \in pool
        BY <1>1 DEF Types
  <2>. QED
       BY <1>1, <2>1, <2>2, <2>3 DEF Apart, Types
<1>6. CASE Push
  <2>1. /\ DOMAIN queue' = 1 .. Len(queue) + 1
        /\ \A k \in DOMAIN queue : queue'[k] = queue[k]
        /\ queue'[Len(queue) + 1] = normalized
        BY <1>1, <1>6, AppendOf DEF Push, Apart, Types
  <2>2. \A k \in DOMAIN queue' : k \in DOMAIN queue \/ k = Len(queue) + 1
        BY <1>1, <2>1
  <2>3. normalized # Null /\ normalized \notin free /\ normalized # handled
        BY <1>6 DEF Push, Apart
  <2>. QED
       BY <1>1, <1>6, <2>1, <2>2, <2>3 DEF Push, Apart, Types
<1>7. ASSUME OutStays, pc' \in {"parse", "push"} => pc \in {"parse", "push"},
             pc' \notin {"parse", "push", "terminated"} => pc \notin {"parse", "push", "terminated"}
      PROVE  Apart'
      BY <1>7 DEF OutStays, outVars, Apart
<1>8. ASSUME NEW slot \in raw_free, Receive(slot) PROVE Apart'
      BY <1>7, <1>8 DEF Receive, setup, OutStays
<1>9. CASE ReceiveNull \/ Stop \/ UNCHANGED vars
      BY <1>7, <1>9 DEF ReceiveNull, Stop, setup, vars, OutStays
<1>10. CASE QueueEmpty \/ Take \/ Exhausted \/ Depleted \/ Finish \/ StartRun \/ LoopTest
      BY <1>7, <1>10 DEF QueueEmpty, Take, Exhausted, Depleted, Finish, StartRun, LoopTest,
         setup, OutStays
<1>11. CASE Parse \/ ParseThrows
      BY <1>11 DEF Parse, ParseThrows, outVars, Apart
<1>. QED
     BY <1>2, <1>3, <1>4, <1>5, <1>6, <1>8, <1>9, <1>10, <1>11
     DEF Next, ParserThread, Others, ProcessOne

LEMMA RawApartStep == Types /\ RawApart /\ [Next]_vars => RawApart'
<1>. SUFFICES ASSUME Types, RawApart, [Next]_vars PROVE RawApart'
     OBVIOUS
<1>. DEFINE n == Len(raw_queue)
<1>1. n \in Nat /\ DOMAIN raw_queue = 1 .. n /\ Null \notin RawSlots
      BY LenProperties, ObjectsAssumption DEF Types
<1>2. ASSUME NEW slot \in RawSlots \cup {Null}, raw_queue' = Append(raw_queue, slot),
             slot # Null => slot \in raw_free, slot # Null => raw_free' = raw_free \ {slot},
             slot = Null => raw_free' = raw_free, UNCHANGED <<raw_msg, pc>>
      PROVE  RawApart'
  <2>1. /\ DOMAIN raw_queue' = 1 .. n + 1
        /\ \A k \in 1 .. n : raw_queue'[k] = raw_queue[k]
        /\ raw_queue'[n + 1] = slot
        BY <1>2, AppendOf DEF Types
  <2>2. \A k \in DOMAIN raw_queue' : k \in DOMAIN raw_queue \/ k = n + 1
        BY <1>1, <2>1
  <2>3. slot # Null => slot # raw_msg /\ \A k \in 1 .. n : raw_queue[k] # slot
        BY <1>1, <1>2 DEF RawApart
  <2>4. \A i, j \in DOMAIN raw_queue' :
            raw_queue'[i] = raw_queue'[j] /\ raw_queue'[i] # Null => i = j
        BY <1>1, <2>1, <2>2, <2>3 DEF RawApart
  <2>5. Null \notin raw_free /\ raw_free' \subseteq raw_free
        BY <1>1, <1>2 DEF Types
  <2>6. \A i \in DOMAIN raw_queue' :
            /\ raw_queue'[i] \notin raw_free'
            /\ raw_queue'[i] = raw_msg => raw_msg = Null
        BY <1>1, <1>2, <2>1, <2>2, <2>3, <2>5 DEF RawApart
  <2>. QED
       BY <1>2, <2>4, <2>5, <2>6 DEF RawApart
<1>3. ASSUME NEW slot \in raw_free, Receive(slot) PROVE RawApart'
  <2>1. slot \in RawSlots
        BY DEF Types
  <2>. QED
       BY <1>1, <1>2, <1>3, <2>1 DEF Receive
<1>4. CASE ReceiveNull
      BY <1>2, <1>4 DEF ReceiveNull
<1>5. CASE Take
  <2>1. /\ n # 0 /\ DOMAIN raw_queue' = 1 .. n - 1 /\ raw_msg' = raw_queue[1]
        /\ \A k \in 1 .. n - 1 : raw_queue'[k] = raw_queue[k + 1]
        BY <1>5, TailOf DEF Take, Types
  <2>2. /\ 1 \in DOMAIN raw_queue
        /\ \A k \in DOMAIN raw_queue' : k + 1 \in DOMAIN raw_queue /\ k + 1 # 1
        BY <1>1, <2>1
  <2>3. \A i, j \in DOMAIN raw_queue' :
            raw_queue'[i] = raw_queue'[j] /\ raw_queue'[i] # Null => i = j
        BY <1>1, <2>1, <2>2 DEF RawApart
  <2>4. /\ raw_free' = raw_free
        /\ pc' \in {"test", "finish", "allocate"} /\ (pc' = "test" <=> raw_msg' = Null)
        BY <1>5 DEF Take
  <2>5. \A i \in DOMAIN raw_queue' :
            /\ raw_queue'[i] \notin raw_free'
            /\ raw_queue'[i] = raw_msg' => raw_msg' = Null
        BY <2>1, <2>2, <2>4 DEF RawApart
  <2>6. raw_msg' \notin raw_free'
        BY <2>1, <2>2, <2>4 DEF RawApart
  <2>. QED
       BY <2>3, <2>4, <2>5, <2>6 DEF RawApart
<1>6. CASE Exhausted
      BY <1>1, <1>6 DEF Exhausted, rawVars, RawApart, Types
<1>7. CASE Finish
  <2>1. raw_msg \in RawSlots
        BY <1>7 DEF Finish, RawApart, Types
  <2>2. /\ raw_free' = raw_free \cup {raw_msg} /\ raw_msg' = Null /\ pc' = "test"
        /\ UNCHANGED raw_queue
        BY <1>7 DEF Finish, GiveRawBack
  <2>. QED
       BY <1>1, <2>1, <2>2 DEF RawApart, Types
<1>8. ASSUME RawStays,
             pc' \in {"allocate", "parse", "push", "finish"} =>
                 pc \in {"allocate", "parse", "push", "finish"},
             pc' \notin {"allocate", "parse", "push", "finish", "terminated"} =>
                 pc \notin {"allocate", "parse", "push", "finish", "terminated"}
      PROVE  RawApart'
      BY <1>8 DEF RawStays, rawVars, RawApart
<1>9. CASE Handle \/ Handled \/ Stop \/ UNCHANGED vars
      BY <1>8, <1>9 DEF Handle, Handled, Stop, vars, setup, RawStays
<1>10. CASE QueueEmpty \/ Allocate \/ Depleted \/ StartRun \/ LoopTest
      BY <1>8, <1>10 DEF QueueEmpty, Allocate, Depleted, StartRun, LoopTest, setup, RawStays
<1>11. CASE Parse \/ ParseError \/ ParseThrows
      BY <1>8, <1>11 DEF Parse, ParseError, ParseThrows, setup, RawStays
<1>12. CASE Push \/ PushRefused
      BY <1>8, <1>12 DEF Push, PushRefused, setup, RawStays
<1>. QED
     BY <1>3, <1>4, <1>5, <1>6, <1>7, <1>9, <1>10, <1>11, <1>12
     DEF Next, ParserThread, Others, ProcessOne

LEMMA ContentsStep == ParserInv /\ [Next]_vars => Contents'
<1>. SUFFICES ASSUME Types, Apart, RawApart, Counting, Contents, [Next]_vars PROVE Contents'
     BY DEF ParserInv
<1>. DEFINE n == Len(raw_queue)
<1>1. n \in Nat /\ DOMAIN raw_queue = 1 .. n /\ received \in Nat /\ Null \notin RawSlots
      BY LenProperties, ObjectsAssumption DEF Types
\* Raw messages are received.
<1>2. ASSUME NEW slot \in RawSlots \cup {Null}, raw_queue' = Append(raw_queue, slot),
             received' = received + 1, received + 1 \in 1 .. Len(feed),
             feed[received + 1] = Null <=> slot = Null,
             \A s \in RawSlots \ {slot} : raw'[s] = raw[s],
             slot # Null => slot \in raw_free /\ raw'[slot] = Raw(received + 1),
             UNCHANGED <<feed, raw_msg, normalized, message, pc>>
      PROVE  Contents'
  <2>1. /\ DOMAIN raw_queue' = 1 .. n + 1 /\ Len(raw_queue') = n + 1
        /\ \A k \in 1 .. n : raw_queue'[k] = raw_queue[k]
        /\ raw_queue'[n + 1] = slot
        BY <1>2, AppendOf DEF Types
  <2>2. \A k \in Int : Position(k)' = Position(k)
        BY <1>1, <1>2, <2>1 DEF Position
  <2>3. \A k \in Int : Raw(k)' = Raw(k)
        BY <1>2 DEF Raw
  <2>4. \A k \in DOMAIN raw_queue :
            raw_queue[k] # Null => raw'[raw_queue[k]] = raw[raw_queue[k]]
    <3>1. \A k \in DOMAIN raw_queue : raw_queue[k] # Null =>
              raw_queue[k] \in RawSlots /\ raw_queue[k] # slot
          BY <1>1, <1>2 DEF Types, RawApart
    <3>. QED
         BY <1>2, <3>1
  <2>5. ASSUME NEW k \in DOMAIN raw_queue'
        PROVE  IF feed'[Position(k)'] = Null THEN raw_queue'[k] = Null
               ELSE raw_queue'[k] # Null /\ raw'[raw_queue'[k]] = Raw(Position(k))'
    <3>0. k \in Int /\ Position(k) \in Int
          BY <1>1, <2>1 DEF Position
    <3>1. CASE k \in 1 .. n
          BY <1>1, <1>2, <2>1, <2>2, <2>3, <2>4, <3>0, <3>1 DEF Contents
    <3>2. CASE k = n + 1
      <4>1. Position(k) = received + 1
            BY <1>1, <3>2 DEF Position
      <4>. QED
           BY <1>2, <2>1, <2>2, <2>3, <3>0, <3>2, <4>1
    <3>. QED
         BY <1>1, <2>1, <3>1, <3>2
  <2>6. pc \in {"allocate", "parse", "push"} =>
            raw'[raw_msg] = Raw(Position(0)) /\ feed[Position(0)] \notin {Invalid, Null}
    <3>1. pc \in {"allocate", "parse", "push"} => raw_msg \in RawSlots /\ raw_msg # slot
          BY <1>2 DEF Types, RawApart
    <3>. QED
         BY <1>2, <3>1 DEF Contents
  <2>7. Position(0)' = Position(0) /\ Raw(Position(0))' = Raw(Position(0))
        BY <1>1, <2>2, <2>3 DEF Position
  <2>. QED
       BY <1>2, <2>5, <2>6, <2>7 DEF Contents
<1>3. ASSUME NEW slot \in raw_free, Receive(slot) PROVE Contents'
  <2>1. slot \in RawSlots /\ slot # Null
        BY <1>1 DEF Types
  <2>2. received + 1 \in 1 .. Len(feed) /\ feed[received + 1] # Null
        BY <1>1, <1>3, LenProperties DEF Receive, Types
  <2>3. /\ raw'[slot] = Raw(received + 1)
        /\ \A s \in RawSlots \ {slot} : raw'[s] = raw[s]
        BY <1>3, <2>1 DEF Receive, Raw, Types
  <2>4. /\ raw_queue' = Append(raw_queue, slot) /\ received' = received + 1
        /\ UNCHANGED <<feed, raw_msg, normalized, message, pc>>
        BY <1>3 DEF Receive, outVars, setup
  <2>. QED
       BY <1>2, <2>1, <2>2, <2>3, <2>4
<1>4. CASE ReceiveNull
  <2>1. received + 1 \in 1 .. Len(feed) /\ feed[received + 1] = Null
        BY <1>1, <1>4, LenProperties DEF ReceiveNull, Types
  <2>2. /\ raw_queue' = Append(raw_queue, Null) /\ received' = received + 1
        /\ UNCHANGED <<feed, raw, raw_msg, normalized, message, pc>>
        BY <1>4 DEF ReceiveNull, outVars, setup
  <2>. QED
       BY <1>2, <2>1, <2>2
\* A raw message is taken from the ring.
<1>5. CASE Take
  <2>1. /\ n # 0 /\ DOMAIN raw_queue' = 1 .. n - 1 /\ Len(raw_queue') = n - 1
        /\ raw_msg' = raw_queue[1]
        /\ \A k \in 1 .. n - 1 : raw_queue'[k] = raw_queue[k + 1]
        BY <1>5, TailOf DEF Take, Types
  <2>2. UNCHANGED <<feed, raw, received, message, normalized>> /\ pc' # "push"
        BY <1>5 DEF Take, outVars, setup
  <2>3. \A k \in Int : Position(k)' = Position(k + 1) /\ Raw(k)' = Raw(k)
        BY <1>1, <2>1, <2>2 DEF Position, Raw
  <2>4. ASSUME NEW k \in DOMAIN raw_queue'
        PROVE  IF feed'[Position(k)'] = Null THEN raw_queue'[k] = Null
               ELSE raw_queue'[k] # Null /\ raw'[raw_queue'[k]] = Raw(Position(k))'
    <3>1. /\ k \in Int /\ k + 1 \in DOMAIN raw_queue /\ Position(k + 1) \in Int
          /\ raw_queue'[k] = raw_queue[k + 1]
          BY <1>1, <2>1 DEF Position
    <3>2. Position(k)' = Position(k + 1) /\ Raw(Position(k))' = Raw(Position(k + 1))
          BY <2>2, <2>3, <3>1 DEF Raw
    <3>. QED
         BY <2>2, <3>1, <3>2 DEF Contents
  <2>5. pc' \in {"allocate", "parse", "push"} =>
            raw'[raw_msg'] = Raw(Position(0))' /\ feed'[Position(0)'] \notin {Invalid, Null}
    <3>1. SUFFICES ASSUME pc' \in {"allocate", "parse", "push"}
                   PROVE  raw'[raw_msg'] = Raw(Position(0))'
                          /\ feed'[Position(0)'] \notin {Invalid, Null}
          OBVIOUS
    <3>2. raw_msg' # Null /\ raw[raw_msg'].content # Invalid
          BY <1>5, <3>1 DEF Take, is_valid
    <3>3. 1 \in DOMAIN raw_queue /\ Position(1) \in Int
          BY <1>1, <2>1 DEF Position
    <3>4. raw[raw_msg'] = Raw(Position(1)) /\ feed[Position(1)] # Null
          BY <2>1, <3>2, <3>3 DEF Contents
    <3>5. Position(0)' = Position(1) /\ Raw(Position(0))' = Raw(Position(1))
          BY <2>2, <2>3 DEF Raw
    <3>. QED
         BY <2>2, <3>2, <3>4, <3>5 DEF Raw
  <2>. QED
       BY <2>2, <2>4, <2>5 DEF Contents
\* The message in work.
<1>6. CASE Parse
  <2>1. UNCHANGED <<raw_queue, raw, raw_msg, received, feed>> /\ pc = "parse" /\ pc' = "push"
        BY <1>6 DEF Parse, rawVars, setup
  <2>2. PICK m \in parse_message(Content) :
            /\ ~Throws(m)
            /\ message' = [message EXCEPT ![normalized] =
                  [body |-> m, receive_time |-> raw[raw_msg].receive_timestamp]]
        BY <1>6 DEF Parse
  <2>3. normalized \in Slots /\ normalized' = normalized
        BY <1>6 DEF Parse, Apart, Types
  <2>4. raw[raw_msg] = Raw(Position(0)) /\ feed[Position(0)] \notin {Invalid, Null}
        BY <2>1 DEF Contents
  <2>5. Content = feed[Position(0)] /\ raw[raw_msg].receive_timestamp = Position(0)
        BY <2>4 DEF Content, Raw
  <2>6. Position(0) \in 1 .. Len(feed)
        BY <1>1, <2>1 DEF Position, Counting, Counted, Pending, Types
  <2>7. Content \in Documents
        BY <2>4, <2>5, <2>6, LenProperties DEF Types
  <2>8. Faithful(m, feed[Position(0)])
        BY <2>2, <2>5, <2>7, ParsedFaithful
  <2>9. message'[normalized] = [body |-> m, receive_time |-> Position(0)]
        BY <2>2, <2>3, <2>5 DEF Types
  <2>10. \A k \in Int : Position(k)' = Position(k) /\ Raw(k)' = Raw(k)
        BY <2>1 DEF Position, Raw
  <2>11. Position(0)' = Position(0) /\ Raw(Position(0))' = Raw(Position(0))
        BY <2>1 DEF Position, Raw
  <2>12. \A k \in DOMAIN raw_queue : Raw(Position(k))' = Raw(Position(k))
        BY <2>1 DEF Position, Raw
  <2>. QED
       BY <1>1, <2>1, <2>3, <2>4, <2>8, <2>9, <2>10, <2>11, <2>12 DEF Contents
<1>7. CASE Finish
  <2>1. /\ UNCHANGED <<raw_queue, received, feed>> /\ pc' = "test"
        /\ \A s \in RawSlots \ {raw_msg} : raw'[s] = raw[s]
        BY <1>7 DEF Finish, GiveRawBack, setup, Types
  <2>2. \A k \in DOMAIN raw_queue : raw_queue[k] # Null => raw_queue[k] \in RawSlots \ {raw_msg}
        BY <1>1, <1>7 DEF Finish, RawApart, Types
  <2>3. \A k \in DOMAIN raw_queue :
            Position(k)' = Position(k) /\ Raw(Position(k))' = Raw(Position(k))
        BY <2>1 DEF Position, Raw
  <2>. QED
       BY <2>1, <2>2, <2>3 DEF Contents
\* Steps that change none of it.
<1>8. ASSUME UNCHANGED <<raw_queue, raw, received, feed>>,
             pc' \in {"allocate", "parse", "push"} =>
                 pc \in {"allocate", "parse", "push"} /\ UNCHANGED raw_msg,
             pc' = "push" => /\ pc = "push" /\ UNCHANGED normalized
                             /\ message'[normalized] = message[normalized]
      PROVE  Contents'
  <2>1. \A k \in DOMAIN raw_queue :
            Position(k)' = Position(k) /\ Raw(Position(k))' = Raw(Position(k))
        BY <1>8 DEF Position, Raw
  <2>2. Position(0)' = Position(0) /\ Raw(Position(0))' = Raw(Position(0))
        BY <1>8 DEF Position, Raw
  <2>. QED
       BY <1>8, <2>1, <2>2 DEF Contents
<1>9. CASE Handled
  <2>1. pc = "push" => message'[normalized] = message[normalized]
        BY <1>9 DEF Handled, Apart, Types
  <2>. QED
       BY <1>8, <1>9, <2>1 DEF Handled, rawVars, setup
<1>10. CASE Handle \/ Stop \/ UNCHANGED vars
      BY <1>8, <1>10 DEF Handle, Stop, vars, rawVars, outVars, setup
<1>11. CASE QueueEmpty \/ Allocate \/ Exhausted \/ Depleted \/ StartRun \/ LoopTest
      BY <1>8, <1>11 DEF QueueEmpty, Allocate, Exhausted, Depleted, StartRun, LoopTest,
         rawVars, outVars, setup
<1>12. CASE ParseError \/ ParseThrows \/ Push \/ PushRefused
      BY <1>8, <1>12 DEF ParseError, ParseThrows, Push, PushRefused, rawVars, outVars, setup
<1>. QED
     BY <1>3, <1>4, <1>5, <1>6, <1>7, <1>9, <1>10, <1>11, <1>12
     DEF Next, ParserThread, Others, ProcessOne

LEMMA ParserNextInv == ParserInv /\ [Next]_vars => ParserInv'
BY TypesStep, ApartStep, RawApartStep, CountingStep, ContentsStep DEF ParserInv

-----------------------------------------------------------------------------
(* What the lossy feed has delivered: the message in the hands of the      *)
(* OrderBook thread, if there is one, before those of its queue.           *)

Out == [k \in DOMAIN Delivered |-> message[Delivered[k]]]
Hands(h) == IF h = Null THEN 0 ELSE 1
Line(h, q) == (IF h = Null THEN <<>> ELSE <<h>>) \o q
Nth(h, q, k) == IF k <= Hands(h) THEN h ELSE q[k - Hands(h)]
Given(h, q, f) == [k \in DOMAIN Line(h, q) |-> f[Line(h, q)[k]]]

LEMMA LineIs ==
    ASSUME NEW S, NEW q \in Seq(S), NEW h \in S \cup {Null}
    PROVE  /\ Line(h, q) \in Seq(S) /\ Hands(h) + Len(q) \in Nat
           /\ Len(q) \in Nat /\ DOMAIN q = 1 .. Len(q) /\ Hands(h) \in {0, 1}
           /\ DOMAIN Line(h, q) = 1 .. Hands(h) + Len(q)
           /\ \A k \in 1 .. Hands(h) + Len(q) : Line(h, q)[k] = Nth(h, q, k)
<1>1. Len(q) \in Nat /\ DOMAIN q = 1 .. Len(q)
      BY LenProperties
<1>2. CASE h = Null
  <2>1. Line(h, q) = q
        BY <1>2, ConcatEmptySeq DEF Line
  <2>. QED
       BY <1>1, <1>2, <2>1 DEF Hands, Nth
<1>3. CASE h # Null
  <2>. DEFINE s == <<h>>
  <2>1. s \in Seq(S) /\ Len(s) = 1 /\ s[1] = h
        BY <1>3
  <2>2. Line(h, q) = s \o q /\ Hands(h) = 1
        BY <1>3 DEF Line, Hands
  <2>. HIDE DEF s
  <2>3. /\ s \o q \in Seq(S) /\ Len(s \o q) = 1 + Len(q)
        /\ \A k \in 1 .. 1 + Len(q) : (s \o q)[k] = IF k <= 1 THEN s[k] ELSE q[k - 1]
    <3>1. /\ s \o q \in Seq(S) /\ Len(s \o q) = Len(s) + Len(q)
          /\ \A k \in 1 .. Len(s) + Len(q) :
                (s \o q)[k] = IF k <= Len(s) THEN s[k] ELSE q[k - Len(s)]
          BY <2>1, ConcatProperties
    <3>. QED
         BY <2>1, <3>1
  <2>4. DOMAIN (s \o q) = 1 .. 1 + Len(q)
        BY <2>3, LenProperties
  <2>5. ASSUME NEW k \in 1 .. 1 + Len(q)
        PROVE  (s \o q)[k] = IF k <= 1 THEN h ELSE q[k - 1]
    <3>1. k <= 1 => k = 1
          BY <1>1
    <3>. QED
         BY <2>1, <2>3, <3>1
  <2>. QED
       BY <1>1, <1>3, <2>2, <2>3, <2>4, <2>5 DEF Nth
<1>. QED
     BY <1>2, <1>3

LEMMA OutIs ==
    ASSUME NEW S, NEW q \in Seq(S), NEW h \in S \cup {Null}, NEW f, S \subseteq DOMAIN f
    PROVE  /\ Given(h, q, f) \in Seq(Range(f))
           /\ Len(Given(h, q, f)) = Hands(h) + Len(q)
           /\ \A k \in 1 .. Hands(h) + Len(q) : Given(h, q, f)[k] = f[Line(h, q)[k]]
<1>. DEFINE n == Hands(h) + Len(q)
            g == Given(h, q, f)
<1>1. DOMAIN Line(h, q) = 1 .. n /\ n \in Nat /\ Line(h, q) \in Seq(S)
      BY LineIs
<1>2. \A k \in 1 .. n : Line(h, q)[k] \in DOMAIN f
      BY <1>1
<1>3. \A k \in 1 .. n : f[Line(h, q)[k]] \in Range(f)
      BY <1>2 DEF Range
<1>. HIDE DEF n
<1>4. DOMAIN g = 1 .. n /\ g \in [1 .. n -> Range(f)]
      BY <1>1, <1>3 DEF Given
<1>5. \A k \in 1 .. n : g[k] = f[Line(h, q)[k]]
      BY <1>1 DEF Given
<1>6. g \in Seq(Range(f)) /\ Len(g) = n
      BY <1>1, <1>4
<1>. QED
     BY <1>5, <1>6 DEF n

LEMMA OutIsGiven ==
    Out = Given(handled, queue, message) /\ Out' = Given(handled', queue', message')
BY DEF Out, Given, Delivered, Line

\* The two, of this state and of the next.
LEMMA LineNow ==
    Types => \A k \in 1 .. Hands(handled) + Len(queue) :
                Line(handled, queue)[k] = Nth(handled, queue, k)
<1>1. Types => queue \in Seq(pool) /\ handled \in pool \cup {Null}
      BY DEF Types
<1>. QED
     BY <1>1, LineIs

LEMMA LineNext ==
    Types' => \A k \in 1 .. Hands(handled') + Len(queue') :
                 Line(handled', queue')[k] = Nth(handled', queue', k)
<1>1. Types' => queue' \in Seq(pool') /\ handled' \in pool' \cup {Null}
      BY DEF Types
<1>. QED
     BY <1>1, LineIs

LEMMA LinesEnd ==
    /\ Types => /\ DOMAIN Line(handled, queue) = 1 .. Hands(handled) + Len(queue)
                /\ Hands(handled) \in {0, 1} /\ Len(queue) \in Nat
                /\ DOMAIN queue = 1 .. Len(queue)
    /\ Types' => DOMAIN Line(handled', queue') = 1 .. Hands(handled') + Len(queue')
<1>1. Types => queue \in Seq(pool) /\ handled \in pool \cup {Null}
      BY DEF Types
<1>2. Types' => queue' \in Seq(pool') /\ handled' \in pool' \cup {Null}
      BY DEF Types
<1>3. Types => /\ DOMAIN Line(handled, queue) = 1 .. Hands(handled) + Len(queue)
               /\ Hands(handled) \in {0, 1} /\ Len(queue) \in Nat
               /\ DOMAIN queue = 1 .. Len(queue)
      BY <1>1, LineIs
<1>4. Types' => DOMAIN Line(handled', queue') = 1 .. Hands(handled') + Len(queue')
      BY <1>2, LineIs
<1>. QED
     BY <1>3, <1>4

LEMMA OutNow ==
    Types => /\ Out \in Seq(Range(message)) /\ Len(Out) = Hands(handled) + Len(queue)
             /\ \A k \in 1 .. Hands(handled) + Len(queue) :
                   Out[k] = message[Line(handled, queue)[k]]
<1>1. Types => /\ queue \in Seq(pool) /\ handled \in pool \cup {Null}
               /\ pool \subseteq DOMAIN message
      BY DEF Types
<1>2. Types => /\ Given(handled, queue, message) \in Seq(Range(message))
               /\ Len(Given(handled, queue, message)) = Hands(handled) + Len(queue)
               /\ \A k \in 1 .. Hands(handled) + Len(queue) :
                     Given(handled, queue, message)[k] = message[Line(handled, queue)[k]]
      BY <1>1, OutIs
<1>. QED
     BY <1>2, OutIsGiven

LEMMA OutNext ==
    Types' => /\ Out' \in Seq(Range(message')) /\ Len(Out') = Hands(handled') + Len(queue')
              /\ \A k \in 1 .. Hands(handled') + Len(queue') :
                    Out'[k] = message'[Line(handled', queue')[k]]
<1>1. Types' => /\ queue' \in Seq(pool') /\ handled' \in pool' \cup {Null}
                /\ pool' \subseteq DOMAIN message'
      BY DEF Types
<1>2. Types' => /\ Given(handled', queue', message') \in Seq(Range(message'))
                /\ Len(Given(handled', queue', message')) = Hands(handled') + Len(queue')
                /\ \A k \in 1 .. Hands(handled') + Len(queue') :
                      Given(handled', queue', message')[k] = message'[Line(handled', queue')[k]]
      BY <1>1, OutIs
<1>. QED
     BY <1>2, OutIsGiven

\* Lines of the same length with the same messages are the same delivery.
LEMMA OutSame ==
    ASSUME Hands(handled') + Len(queue') = Hands(handled) + Len(queue), Types, pool' = pool,
           Types',
           \A k \in 1 .. Hands(handled) + Len(queue) :
              message'[Line(handled', queue')[k]] = message[Line(handled, queue)[k]]
    PROVE  Out' = Out
<1>1. Delivered = Line(handled, queue) /\ Delivered' = Line(handled', queue')
      BY DEF Delivered, Line
<1>2. /\ DOMAIN Line(handled, queue) = 1 .. Hands(handled) + Len(queue)
      /\ DOMAIN Line(handled', queue') = 1 .. Hands(handled') + Len(queue')
      BY LinesEnd
<1>. QED
     BY <1>1, <1>2 DEF Out

\* What nobody writes stays delivered as it is.
LEMMA OutStutters ==
    ASSUME Types, Types', UNCHANGED <<queue, handled, pool>>,
           \A i \in DOMAIN queue : message'[queue[i]] = message[queue[i]],
           handled # Null => message'[handled] = message[handled]
    PROVE  Out' = Out
<1>. DEFINE h == Hands(handled)
            n == h + Len(queue)
<1>1. /\ n \in Nat /\ h \in {0, 1} /\ Len(queue) \in Nat /\ DOMAIN queue = 1 .. Len(queue)
      /\ \A k \in 1 .. n :
            Line(handled, queue)[k] = Nth(handled, queue, k)
      BY LinesEnd, LineNow
<1>2. ASSUME NEW k \in 1 .. n
      PROVE  message'[Line(handled, queue)[k]] = message[Line(handled, queue)[k]]
  <2>1. k <= h => handled # Null
        BY <1>1 DEF Hands
  <2>2. ~(k <= h) => k - h \in DOMAIN queue
        BY <1>1
  <2>. QED
       BY <1>1, <2>1, <2>2 DEF Nth
<1>. QED
     BY <1>2, OutSame

LEMMA OutOfHandle == ASSUME Types, Types', Handle PROVE Out' = Out
<1>. DEFINE n == Len(queue)
<1>1. /\ handled = Null /\ handled' = Head(queue) /\ queue' = Tail(queue)
      /\ UNCHANGED <<message, pool>> /\ queue # <<>>
      BY DEF Handle, setup
<1>2. /\ n \in Nat \ {0} /\ handled' = queue[1] /\ Len(queue') = n - 1 /\ handled' \in pool
      /\ \A k \in 1 .. n - 1 : queue'[k] = queue[k + 1]
      BY <1>1, TailOf DEF Types
<1>3. handled' # Null
      BY <1>2, ObjectsAssumption DEF Types
<1>4. Hands(handled) = 0 /\ Hands(handled') = 1
      BY <1>1, <1>3 DEF Hands
<1>6. \A k \in 1 .. n : Line(handled, queue)[k] = queue[k]
  <2>1. \A k \in 1 .. Hands(handled) + Len(queue) :
            Line(handled, queue)[k] = Nth(handled, queue, k)
        BY LineNow
  <2>. QED
       BY <1>2, <1>4, <2>1 DEF Nth
<1>7. \A k \in 1 .. n : Line(handled', queue')[k] = IF k <= 1 THEN handled' ELSE queue'[k - 1]
  <2>1. \A k \in 1 .. Hands(handled') + Len(queue') :
            Line(handled', queue')[k] = Nth(handled', queue', k)
        BY LineNext
  <2>. QED
       BY <1>2, <1>4, <2>1 DEF Nth
<1>8. ASSUME NEW k \in 1 .. n
      PROVE  Line(handled', queue')[k] = Line(handled, queue)[k]
  <2>1. CASE k = 1
        BY <1>2, <1>6, <1>7, <2>1
  <2>2. CASE k # 1
    <3>1. k - 1 \in 1 .. n - 1 /\ ~(k <= 1) /\ (k - 1) + 1 = k
          BY <1>2, <2>2
    <3>. QED
         BY <1>2, <1>6, <1>7, <3>1
  <2>. QED
       BY <2>1, <2>2
<1>9. Hands(handled') + Len(queue') = Hands(handled) + Len(queue)
      BY <1>2, <1>4
<1>10. \A k \in 1 .. Hands(handled) + Len(queue) :
          message'[Line(handled', queue')[k]] = message[Line(handled, queue)[k]]
      BY <1>1, <1>2, <1>4, <1>8
<1>. QED
     BY <1>1, <1>9, <1>10, OutSame

LEMMA OutOfPush ==
    ASSUME Types, Types', Push, normalized \in pool
    PROVE  /\ Len(Out') = Len(Out) + 1
           /\ Out' = Append(Out, Out'[Len(Out')])
           /\ Out'[Len(Out')] = message[normalized]
<1>. DEFINE h == Hands(handled)
            n == Len(queue)
<1>1. queue' = Append(queue, normalized) /\ UNCHANGED <<handled, message, pool>>
      BY DEF Push, setup
<1>2. /\ n \in Nat /\ Len(queue') = n + 1 /\ queue' \in Seq(pool)
      /\ \A k \in 1 .. n : queue'[k] = queue[k]
      /\ queue'[n + 1] = normalized
      BY <1>1, AppendOf DEF Types
<1>3. /\ h \in {0, 1}
      /\ \A k \in 1 .. h + n : Line(handled, queue)[k] = Nth(handled, queue, k)
      /\ \A k \in 1 .. h + (n + 1) :
            Line(handled, queue')[k] = Nth(handled, queue', k)
  <2>1. \A k \in 1 .. Hands(handled') + Len(queue') :
            Line(handled', queue')[k] = Nth(handled', queue', k)
        BY LineNext
  <2>2. h \in {0, 1} /\ \A k \in 1 .. h + n : Line(handled, queue)[k] = Nth(handled, queue, k)
        BY LineNow, LinesEnd
  <2>. QED
       BY <1>1, <1>2, <2>1, <2>2
<1>4. /\ Len(Out) = h + n /\ Out \in Seq(Range(message))
      /\ \A k \in 1 .. h + n : Out[k] = message[Line(handled, queue)[k]]
      BY OutNow
<1>5. /\ Len(Out') = h + (n + 1) /\ Out' \in Seq(Range(message))
      /\ \A k \in 1 .. h + (n + 1) : Out'[k] = message[Line(handled, queue')[k]]
  <2>1. /\ Out' \in Seq(Range(message'))
        /\ Len(Out') = Hands(handled') + Len(queue')
        /\ \A k \in 1 .. Hands(handled') + Len(queue') :
              Out'[k] = message'[Line(handled', queue')[k]]
        BY OutNext
  <2>. QED
       BY <1>1, <1>2, <2>1
<1>6. Len(Out') = Len(Out) + 1
      BY <1>2, <1>3, <1>4, <1>5
<1>7. ASSUME NEW k \in 1 .. h + n PROVE Line(handled, queue')[k] = Line(handled, queue)[k]
  <2>1. k \in 1 .. h + (n + 1) /\ (~(k <= h) => k - h \in 1 .. n)
        BY <1>2, <1>3
  <2>2. Nth(handled, queue', k) = Nth(handled, queue, k)
        BY <1>2, <2>1 DEF Nth
  <2>. QED
       BY <1>3, <2>1, <2>2
<1>8. \A k \in 1 .. h + n : Out'[k] = Out[k]
  <2>1. \A k \in 1 .. h + n : k \in 1 .. h + (n + 1)
        BY <1>2, <1>3
  <2>. QED
       BY <1>4, <1>5, <1>7, <2>1
<1>9. Out'[h + (n + 1)] = message[normalized]
  <2>1. h + (n + 1) \in 1 .. h + (n + 1) /\ ~(h + (n + 1) <= h) /\ (h + (n + 1)) - h = n + 1
        BY <1>2, <1>3
  <2>2. Nth(handled, queue', h + (n + 1)) = normalized
        BY <1>2, <2>1 DEF Nth
  <2>. QED
       BY <1>3, <1>5, <2>1, <2>2
<1>10. Out' = Append(Out, Out'[Len(Out')])
  <2>. DEFINE m == Out'[Len(Out')]
              S == Range(message)
  <2>1. m \in S
        BY <1>2, <1>3, <1>5
  <2>. HIDE DEF m, S
  <2>2. Append(Out, m) \in Seq(S) /\ Len(Append(Out, m)) = Len(Out) + 1
        BY <1>4, <2>1, AppendOf DEF S
  <2>3. /\ \A k \in 1 .. Len(Out) : Append(Out, m)[k] = Out[k]
        /\ Append(Out, m)[Len(Out) + 1] = m
        BY <1>4, <2>1, AppendOf DEF S
  <2>4. ASSUME NEW k \in 1 .. Len(Out') PROVE Out'[k] = Append(Out, m)[k]
    <3>1. k \in 1 .. Len(Out) \/ k = Len(Out) + 1
          BY <1>2, <1>3, <1>4, <1>6
    <3>. QED
         BY <1>4, <1>6, <1>8, <2>3, <3>1 DEF m
  <2>5. Out' \in Seq(S) /\ Len(Out') = Len(Append(Out, m))
        BY <1>5, <1>6, <2>2 DEF S
  <2>6. Out' = Append(Out, m)
        BY <2>2, <2>4, <2>5, SeqEqual
  <2>. QED
       BY <2>6 DEF m
<1>. QED
     BY <1>5, <1>6, <1>9, <1>10

LEMMA OutOfHandled ==
    ASSUME Types, Types', Apart, Handled
    PROVE  Out # <<>> /\ Out' = Tail(Out)
<1>. DEFINE n == Len(queue)
<1>1. /\ handled # Null /\ handled' = Null /\ UNCHANGED <<queue, pool>>
      /\ message' = [message EXCEPT ![handled] = NoMessage]
      BY DEF Handled, setup
<1>2. Hands(handled) = 1 /\ Hands(handled') = 0
      BY <1>1 DEF Hands
<1>3. n \in Nat /\ DOMAIN queue = 1 .. n
      BY LinesEnd
<1>4. \A k \in 1 .. n : queue[k] # handled
      BY <1>3 DEF Apart
<1>5. \A k \in 1 .. n : message'[queue[k]] = message[queue[k]]
      BY <1>1, <1>3, <1>4 DEF Types
<1>6. /\ Len(Out) = 1 + n /\ Out \in Seq(Range(message))
      /\ \A k \in 1 .. 1 + n : Out[k] = message[Line(handled, queue)[k]]
  <2>1. /\ Out \in Seq(Range(message)) /\ Len(Out) = Hands(handled) + Len(queue)
        /\ \A k \in 1 .. Hands(handled) + Len(queue) :
              Out[k] = message[Line(handled, queue)[k]]
        BY OutNow
  <2>. QED
       BY <1>2, <2>1
<1>7. /\ Len(Out') = n /\ Out' \in Seq(Range(message'))
      /\ \A k \in 1 .. n : Out'[k] = message'[Line(Null, queue)[k]]
  <2>1. /\ Out' \in Seq(Range(message'))
        /\ Len(Out') = Hands(handled') + Len(queue')
        /\ \A k \in 1 .. Hands(handled') + Len(queue') :
              Out'[k] = message'[Line(handled', queue')[k]]
        BY OutNext
  <2>. QED
       BY <1>1, <1>2, <1>3, <2>1
<1>8. \A k \in 1 .. n : Line(Null, queue)[k] = queue[k]
  <2>1. \A k \in 1 .. 0 + n : Line(Null, queue)[k] = IF k <= 0 THEN Null ELSE queue[k - 0]
    <3>1. \A k \in 1 .. Hands(handled') + Len(queue') :
              Line(handled', queue')[k] = Nth(handled', queue', k)
          BY LineNext
    <3>. QED
         BY <1>1, <1>2, <3>1 DEF Nth
  <2>. QED
       BY <1>3, <2>1
<1>9. \A k \in 1 .. n : Line(handled, queue)[k + 1] = queue[k]
  <2>1. \A k \in 1 .. 1 + n :
            Line(handled, queue)[k] = IF k <= 1 THEN handled ELSE queue[k - 1]
    <3>1. \A k \in 1 .. Hands(handled) + Len(queue) :
              Line(handled, queue)[k] = Nth(handled, queue, k)
          BY LineNow
    <3>. QED
         BY <1>2, <3>1 DEF Nth
  <2>. SUFFICES ASSUME NEW k \in 1 .. n PROVE Line(handled, queue)[k + 1] = queue[k]
       OBVIOUS
  <2>2. k + 1 \in 1 .. 1 + n /\ ~(k + 1 <= 1) /\ (k + 1) - 1 = k
        BY <1>3
  <2>. QED
       BY <2>1, <2>2
<1>10. Out # <<>>
       BY <1>3, <1>6
<1>. DEFINE S == Range(message) \cup Range(message')
<1>11. /\ Tail(Out) \in Seq(Range(message)) /\ Len(Tail(Out)) = (1 + n) - 1
       /\ \A k \in 1 .. (1 + n) - 1 : Tail(Out)[k] = Out[k + 1]
       BY <1>6, <1>10, TailOf
<1>12. ASSUME NEW k \in 1 .. n PROVE Out'[k] = Tail(Out)[k]
  <2>1. k \in 1 .. (1 + n) - 1 /\ k + 1 \in 1 .. 1 + n
        BY <1>3
  <2>2. Tail(Out)[k] = message[queue[k]]
        BY <1>6, <1>9, <1>11, <2>1
  <2>3. Out'[k] = message'[queue[k]]
        BY <1>7, <1>8
  <2>. QED
       BY <1>5, <2>2, <2>3
<1>13. Out' \in Seq(S) /\ Tail(Out) \in Seq(S) /\ Len(Out') = Len(Tail(Out))
  <2>1. Len(Out') = Len(Tail(Out))
        BY <1>3, <1>7, <1>11
  <2>2. Range(message) \subseteq S /\ Range(message') \subseteq S
        OBVIOUS
  <2>. HIDE DEF S
  <2>. QED
       BY <1>7, <1>11, <2>1, <2>2
<1>. HIDE DEF S
<1>14. Out' = Tail(Out)
       BY <1>7, <1>12, <1>13, SeqEqual
<1>. QED
     BY <1>10, <1>14

-----------------------------------------------------------------------------
(* The parser implements the lossy feed.                                   *)

\* Between taking a message and counting it the parser has one of the feed left.
LEMMA OneLeft ==
    ASSUME Types, Counting
    PROVE  /\ Counted \in Nat /\ Len(raw_queue) \in Nat /\ Len(feed) \in Nat
           /\ Counted + Len(raw_queue) + Pending <= Len(feed) /\ Pending \in {0, 1}
           /\ Pending = 1 => Position(0) = Counted + 1
<1>1. Len(raw_queue) \in Nat /\ Len(feed) \in Nat
      BY LenProperties DEF Types
<1>2. Counted \in Nat /\ Pending \in {0, 1} /\ received \in 0 .. Len(feed)
      BY DEF Counted, Pending, Types
<1>. QED
     BY <1>1, <1>2 DEF Counting, Position

Promise == Promised!Next \/ UNCHANGED Promised!feedVars

LEMMA ParserStepSimulated == ParserInv /\ ParserInv' /\ [Next]_vars => Promise
<1>. SUFFICES ASSUME Types, Types', Apart, Counting, Contents, [Next]_vars PROVE Promise
     BY DEF ParserInv
<1>1. /\ Counted \in Nat /\ Len(raw_queue) \in Nat /\ Len(feed) \in Nat
      /\ Counted + Len(raw_queue) + Pending <= Len(feed) /\ Pending \in {0, 1}
      /\ Pending = 1 => Position(0) = Counted + 1
      BY OneLeft
<1>2. messages_parsed_ \in Nat /\ parse_errors_ \in Nat /\ queue_full_drops_ \in Nat
      BY DEF Types
\* A message is delivered, one is lost, one is given back, or nothing is seen.
<1>3. CASE Push
  <2>1. /\ pc = "push" /\ messages_parsed_' = messages_parsed_ + 1
        /\ UNCHANGED <<feed, parse_errors_, queue_full_drops_>>
        BY <1>3 DEF Push, setup
  <2>2. normalized \in pool
        BY <2>1 DEF Apart, Types
  <2>3. /\ Len(Out') = Len(Out) + 1 /\ Out' = Append(Out, Out'[Len(Out')])
        /\ Out'[Len(Out')] = message[normalized]
        BY <1>3, <2>2, OutOfPush
  <2>4. Position(0) = Counted + 1 /\ Counted + 1 <= Len(feed)
        BY <1>1, <2>1 DEF Pending
  <2>5. /\ Out'[Len(Out')].receive_time = Counted + 1
        /\ Faithful(Out'[Len(Out')].body, feed[Counted + 1])
        BY <2>1, <2>3, <2>4 DEF Contents
  <2>6. Promised!Deliver
        BY <2>1, <2>3, <2>4, <2>5 DEF Promised!Deliver, Counted, Out
  <2>. QED
       BY <2>6 DEF Promise, Promised!Next
<1>4. ASSUME Counted < Len(feed), UNCHANGED <<feed, messages_parsed_>>, Out' = Out,
             \/ parse_errors_' = parse_errors_ + 1 /\ UNCHANGED queue_full_drops_
             \/ queue_full_drops_' = queue_full_drops_ + 1 /\ UNCHANGED parse_errors_
      PROVE  Promise
  <2>1. (parse_errors_ + queue_full_drops_)' = (parse_errors_ + queue_full_drops_) + 1
        BY <1>2, <1>4
  <2>2. Promised!Lose
        BY <1>4, <2>1 DEF Promised!Lose, Counted, Out
  <2>. QED
       BY <2>2 DEF Promise, Promised!Next
<1>5. ASSUME UNCHANGED <<feed, statVars>>, Out' = Out PROVE Promise
      BY <1>5 DEF Promise, Promised!feedVars, Out, statVars
<1>6. ASSUME UNCHANGED <<outVars, pool>> PROVE Out' = Out
      BY <1>6, OutStutters DEF outVars
<1>7. CASE Take
  <2>1. /\ Out' = Out /\ UNCHANGED <<feed, messages_parsed_, queue_full_drops_>>
        /\ parse_errors_' \in {parse_errors_, parse_errors_ + 1}
        /\ pc = "body" /\ raw_queue # <<>>
        BY <1>6, <1>7 DEF Take, setup
  <2>2. Counted < Len(feed)
    <3>1. Len(raw_queue) # 0
          BY <2>1, TailOf DEF Types
    <3>. QED
         BY <1>1, <3>1
  <2>3. CASE parse_errors_' = parse_errors_
        BY <1>5, <2>1, <2>3 DEF statVars
  <2>. QED
       BY <1>4, <2>1, <2>2, <2>3
<1>8. CASE Exhausted
  <2>1. /\ Out' = Out /\ parse_errors_' = parse_errors_ + 1 /\ pc = "allocate"
        /\ UNCHANGED <<feed, messages_parsed_, queue_full_drops_>>
        BY <1>6, <1>8 DEF Exhausted, setup
  <2>. QED
       BY <1>1, <1>4, <2>1 DEF Pending
<1>9. ASSUME Discard, normalized # Null, UNCHANGED <<queue, handled, pool>> PROVE Out' = Out
  <2>1. \A s \in pool : s # normalized => message'[s] = message[s]
        BY <1>9 DEF Discard, Types
  <2>2. \A i \in DOMAIN queue : queue[i] \in pool /\ queue[i] # normalized
        BY LenProperties DEF Types, Apart
  <2>3. handled # Null => handled \in pool /\ handled # normalized
        BY <1>9 DEF Types, Apart
  <2>. QED
       BY <1>9, <2>1, <2>2, <2>3, OutStutters
<1>10. CASE ParseError \/ PushRefused
  <2>1. Discard /\ normalized # Null /\ UNCHANGED <<queue, handled, pool>>
        BY <1>10 DEF ParseError, PushRefused, setup, Apart
  <2>2. Counted < Len(feed)
        BY <1>1, <1>10 DEF ParseError, PushRefused, Pending
  <2>. QED
       BY <1>4, <1>9, <1>10, <2>1, <2>2 DEF ParseError, PushRefused, setup
<1>11. CASE Handled
  <2>1. Out # <<>> /\ Out' = Tail(Out)
        BY <1>11, OutOfHandled
  <2>2. Promised!Consume
        BY <1>11, <2>1 DEF Promised!Consume, Out, Handled, setup, statVars
  <2>. QED
       BY <2>2 DEF Promise, Promised!Next
<1>12. CASE Handle
       BY <1>5, <1>12, OutOfHandle DEF Handle, setup
<1>13. CASE Parse
  <2>1. normalized # Null /\ UNCHANGED <<queue, handled, pool, feed, statVars>>
        BY <1>13 DEF Parse, setup, Apart
  <2>2. \A s \in pool : s # normalized => message'[s] = message[s]
        BY <1>13 DEF Parse, Types
  <2>3. \A i \in DOMAIN queue : queue[i] \in pool /\ queue[i] # normalized
        BY LenProperties DEF Types, Apart
  <2>4. handled # Null => handled \in pool /\ handled # normalized
        BY <2>1 DEF Types, Apart
  <2>5. Out' = Out
        BY <2>1, <2>2, <2>3, <2>4, OutStutters
  <2>. QED
       BY <1>5, <2>1, <2>5
<1>14. CASE Allocate
  <2>1. UNCHANGED <<queue, handled, message, pool, feed, statVars>>
        BY <1>14 DEF Allocate, setup
  <2>. QED
       BY <1>5, <2>1, OutStutters
<1>15. ASSUME NEW slot \in raw_free, Receive(slot) PROVE Promise
       BY <1>5, <1>6, <1>15 DEF Receive, setup
<1>16. CASE ReceiveNull \/ Stop \/ QueueEmpty \/ Depleted \/ ParseThrows
       BY <1>5, <1>6, <1>16 DEF ReceiveNull, Stop, QueueEmpty, Depleted, ParseThrows, setup
<1>17. CASE Finish \/ StartRun \/ LoopTest \/ UNCHANGED vars
       BY <1>5, <1>6, <1>17 DEF Finish, StartRun, LoopTest, vars, setup
<1>. QED
     BY <1>3, <1>7, <1>8, <1>10, <1>11, <1>12, <1>13, <1>14, <1>15, <1>16, <1>17
     DEF Next, ParserThread, Others, ProcessOne

\* The parser delivers, in order and each at most once, messages that say what their
\* documents say, and counts every other message it takes as lost: it is the lossy
\* feed, whatever its pools and rings hold and however the three threads interleave.
THEOREM ParserImplementsFeed == Spec => ImplementsLossyFeed
<1>1. Init => Promised!Init
  <2>. SUFFICES ASSUME Init PROVE Promised!Init
       OBVIOUS
  <2>1. Types /\ queue = <<>> /\ handled = Null
        BY ParserInitInv DEF ParserInv, Init
  <2>2. Out \in Seq(Range(message)) /\ Len(Out) = 0
    <3>1. Len(Out) = Hands(handled) + Len(queue) /\ Out \in Seq(Range(message))
          BY <2>1, OutNow
    <3>. QED
         BY <2>1, <3>1, EmptySeq DEF Hands
  <2>3. Out = <<>>
        BY <2>2, EmptySeq
  <2>. QED
       BY <2>3 DEF Init, Promised!Init, Out
<1>2. ParserInv /\ ParserInv' /\ [Next]_vars => [Promised!Next]_(Promised!feedVars)
      BY ParserStepSimulated DEF Promise
<1>. QED
     BY <1>1, <1>2, ParserInitInv, ParserNextInv, PTL DEF Spec, ImplementsLossyFeed, Promised!Spec

-----------------------------------------------------------------------------
(* No object is lost, but for one raw object with every allocation that    *)
(* got nullptr; and of those there is none when the pool is large enough.  *)

Bounded == Len(queue) <= QueueCapacity
ObjectsInv == ParserInv /\ Conserved /\ Bounded /\ PoolSuffices

LEMMA TakenFrom ==
    ASSUME NEW S, NEW q \in Seq(S), q # <<>>
    PROVE  Range(q) = Range(Tail(q)) \cup {Head(q)}
<1>1. /\ Len(q) \in Nat \ {0} /\ DOMAIN q = 1 .. Len(q) /\ Head(q) = q[1]
      /\ DOMAIN Tail(q) = 1 .. Len(q) - 1
      /\ \A k \in 1 .. Len(q) - 1 : Tail(q)[k] = q[k + 1]
      BY TailOf
<1>2. ASSUME NEW x \in Range(q) PROVE x \in Range(Tail(q)) \cup {Head(q)}
  <2>1. PICK k \in DOMAIN q : q[k] = x
        BY DEF Range
  <2>2. CASE k = 1
        BY <1>1, <2>1, <2>2
  <2>3. CASE k # 1
    <3>1. k - 1 \in DOMAIN Tail(q) /\ Tail(q)[k - 1] = x
      <4>1. k - 1 \in 1 .. Len(q) - 1 /\ (k - 1) + 1 = k
            BY <1>1, <2>3
      <4>. QED
           BY <1>1, <2>1, <4>1
    <3>. QED
         BY <3>1 DEF Range
  <2>. QED
       BY <2>2, <2>3
<1>3. ASSUME NEW x \in Range(Tail(q)) PROVE x \in Range(q)
  <2>1. PICK k \in DOMAIN Tail(q) : Tail(q)[k] = x
        BY DEF Range
  <2>2. k + 1 \in DOMAIN q /\ q[k + 1] = x
        BY <1>1, <2>1
  <2>. QED
       BY <2>2 DEF Range
<1>4. Head(q) \in Range(q)
      BY <1>1 DEF Range
<1>. QED
     BY <1>2, <1>3, <1>4

LEMMA AddedTo ==
    ASSUME NEW S, NEW q \in Seq(S), NEW x \in S
    PROVE  Range(Append(q, x)) = Range(q) \cup {x}
<1>. DEFINE t == Append(q, x)
            n == Len(q)
<1>1. /\ n \in Nat /\ DOMAIN q = 1 .. n /\ DOMAIN t = 1 .. n + 1
      /\ \A k \in 1 .. n : t[k] = q[k]
      /\ t[n + 1] = x
      BY AppendOf
<1>. HIDE DEF t, n
<1>2. \A k \in DOMAIN t : t[k] \in Range(q) \cup {x}
  <2>1. \A k \in DOMAIN t : k \in DOMAIN q \/ k = n + 1
        BY <1>1
  <2>. QED
       BY <1>1, <2>1 DEF Range
<1>3. \A k \in DOMAIN q : q[k] \in Range(t)
  <2>1. \A k \in DOMAIN q : k \in DOMAIN t /\ t[k] = q[k]
        BY <1>1
  <2>. QED
       BY <2>1 DEF Range
<1>4. x \in Range(t)
  <2>1. n + 1 \in DOMAIN t
        BY <1>1
  <2>. QED
       BY <1>1, <2>1 DEF Range
<1>5. Range(t) = Range(q) \cup {x}
      BY <1>2, <1>3, <1>4 DEF Range
<1>. QED
     BY <1>5 DEF t

\* The set of the objects on a ring is no larger than the ring.
LEMMA RingSize ==
    ASSUME NEW S, NEW q \in Seq(S)
    PROVE  IsFiniteSet(Range(q)) /\ Cardinality(Range(q)) <= Len(q)
<1>1. Len(q) \in Nat /\ DOMAIN q = 1 .. Len(q)
      BY LenProperties
<1>2. IsFiniteSet(1 .. Len(q)) /\ Cardinality(1 .. Len(q)) = Len(q)
  <2>1. 1 <= Len(q) \/ Len(q) = 0
        BY <1>1
  <2>. QED
       BY <1>1, <2>1, FS_Interval
<1>. DEFINE f == [k \in 1 .. Len(q) |-> q[k]]
<1>3. f \in Surjection(1 .. Len(q), Range(q))
  <2>1. f \in [1 .. Len(q) -> Range(q)]
        BY <1>1 DEF Range
  <2>2. \A y \in Range(q) : \E k \in 1 .. Len(q) : f[k] = y
        BY <1>1 DEF Range
  <2>. QED
       BY <2>1, <2>2 DEF Surjection
<1>. QED
     BY <1>2, <1>3, FS_Surjection

LEMMA ConservedInit == Init => Conserved /\ Bounded /\ PoolSuffices
<1>. SUFFICES ASSUME Init PROVE Conserved /\ Bounded /\ PoolSuffices
     OBVIOUS
<1>1. Missing = {}
      BY DEF Init, Missing
<1>2. Cardinality(Missing) = 0
      BY <1>1, FS_EmptySet
<1>3. Bounded
      BY EmptySeq, ObjectsAssumption DEF Init, Bounded
<1>. QED
     BY <1>2, <1>3 DEF Init, Conserved, PoolSuffices

LEMMA BoundedStep == Types /\ Bounded /\ [Next]_vars => Bounded'
<1>. SUFFICES ASSUME Types, Bounded, [Next]_vars PROVE Bounded'
     OBVIOUS
<1>1. Len(queue) \in Nat /\ QueueCapacity \in Nat
      BY ObjectsAssumption, LenProperties DEF Types
<1>2. CASE Handle
      BY <1>1, <1>2, TailOf DEF Handle, Bounded, Types
<1>3. CASE Push
  <2>1. Len(queue') = Len(queue) + 1
        BY <1>3, LenProperties DEF Push, Types
  <2>. QED
       BY <1>1, <1>3, <2>1 DEF Push, Bounded
<1>4. ASSUME UNCHANGED queue PROVE Bounded'
      BY <1>4 DEF Bounded
<1>5. ASSUME NEW slot \in raw_free, Receive(slot) PROVE Bounded'
      BY <1>4, <1>5 DEF Receive, outVars
<1>. QED
     BY <1>2, <1>3, <1>4, <1>5
     DEF Next, ParserThread, Others, ProcessOne, ReceiveNull, Handled, Stop, QueueEmpty, Take,
     Allocate, Exhausted, Depleted, Parse, ParseError, ParseThrows, PushRefused, Finish,
     StartRun, LoopTest, vars, outVars

\* Where the objects of the message pool go.
LEMMA PoolConserved ==
    ASSUME Types, Types', Apart, [Next]_vars,
           pool \subseteq free \cup Range(queue) \cup {normalized, handled}
    PROVE  pool' \subseteq free' \cup Range(queue') \cup {normalized', handled'}
<1>. DEFINE Kept == pool' \subseteq free' \cup Range(queue') \cup {normalized', handled'}
<1>0. Null \notin pool
      BY ObjectsAssumption DEF Types
<1>1. CASE Handle
  <2>1. Range(queue) = Range(queue') \cup {handled'}
        BY <1>1, TakenFrom DEF Handle, Types
  <2>. QED
       BY <1>0, <1>1, <2>1 DEF Handle, setup
<1>2. CASE Handled
      BY <1>0, <1>2 DEF Handled, setup
<1>3. CASE Allocate
  <2>1. normalized = Null /\ UNCHANGED <<queue, handled, pool>>
        BY <1>3 DEF Allocate, Apart, setup
  <2>2. free \subseteq free' \cup {normalized'}
        BY <1>3 DEF Allocate
  <2>. QED
       BY <1>0, <2>1, <2>2
<1>4. CASE ParseError \/ PushRefused
  <2>1. free' = free \cup {normalized} /\ UNCHANGED <<queue, handled, pool>>
        BY <1>4 DEF ParseError, PushRefused, Discard, setup
  <2>. QED
       BY <2>1
<1>5. CASE Push
  <2>1. normalized \in pool
        BY <1>5 DEF Push, Apart, Types
  <2>2. Range(queue') = Range(queue) \cup {normalized}
        BY <1>5, <2>1, AddedTo DEF Push, Types
  <2>3. UNCHANGED <<free, handled, pool>>
        BY <1>5 DEF Push, setup
  <2>. QED
       BY <2>2, <2>3
<1>6. ASSUME OutStays PROVE Kept
      BY <1>6 DEF OutStays, outVars
<1>7. ASSUME NEW slot \in raw_free, Receive(slot) PROVE Kept
      BY <1>6, <1>7 DEF Receive, setup, OutStays
<1>8. CASE ReceiveNull \/ Stop \/ UNCHANGED vars
      BY <1>6, <1>8 DEF ReceiveNull, Stop, setup, vars, OutStays
<1>9. CASE QueueEmpty \/ Take \/ Exhausted \/ Depleted \/ Finish \/ StartRun \/ LoopTest
      BY <1>6, <1>9 DEF QueueEmpty, Take, Exhausted, Depleted, Finish, StartRun, LoopTest,
         setup, OutStays
<1>10. CASE Parse \/ ParseThrows
      BY <1>10 DEF Parse, ParseThrows, outVars, setup
<1>. QED
     BY <1>1, <1>2, <1>3, <1>4, <1>5, <1>7, <1>8, <1>9, <1>10
     DEF Next, ParserThread, Others, ProcessOne

\* And those of the raw pool: only Exhausted loses one.
LEMMA MissingStep ==
    ASSUME Types, RawApart, [Next]_vars
    PROVE  \/ Missing' = Missing /\ exhausted' = exhausted
           \/ Exhausted /\ raw_msg \in RawSlots /\ Missing' = Missing \cup {raw_msg}
<1>. DEFINE Same == Missing' = Missing /\ exhausted' = exhausted
<1>0. Null \notin RawSlots /\ raw_free \subseteq RawSlots
      BY ObjectsAssumption DEF Types
<1>1. ASSUME NEW slot \in raw_free, Receive(slot) PROVE Same
  <2>1. Range(raw_queue') = Range(raw_queue) \cup {slot}
        BY <1>0, <1>1, AddedTo DEF Receive, Types
  <2>. QED
       BY <1>0, <1>1, <2>1 DEF Receive, Missing
<1>2. CASE ReceiveNull
  <2>1. Range(raw_queue') = Range(raw_queue) \cup {Null}
        BY <1>2, AddedTo DEF ReceiveNull, Types
  <2>. QED
       BY <1>0, <1>2, <2>1 DEF ReceiveNull, Missing
<1>3. CASE Take
  <2>1. Range(raw_queue) = Range(raw_queue') \cup {raw_msg'}
        BY <1>3, TakenFrom DEF Take, Types
  <2>2. raw_msg = Null
        BY <1>3 DEF Take, RawApart
  <2>. QED
       BY <1>0, <1>3, <2>1, <2>2 DEF Take, Missing
<1>4. CASE Exhausted
  <2>1. raw_msg \in RawSlots /\ raw_msg \notin raw_free
        BY <1>4 DEF Exhausted, RawApart, Types
  <2>2. raw_msg \notin Range(raw_queue)
        BY <1>0, <2>1 DEF RawApart, Range
  <2>. QED
       BY <1>0, <1>4, <2>1, <2>2 DEF Exhausted, rawVars, Missing
<1>5. CASE Finish
      BY <1>0, <1>5 DEF Finish, GiveRawBack, Missing
<1>6. ASSUME RawStays, UNCHANGED exhausted PROVE Same
      BY <1>6 DEF RawStays, rawVars, Missing
<1>7. CASE Handle \/ Handled \/ Stop \/ UNCHANGED vars
      BY <1>6, <1>7 DEF Handle, Handled, Stop, vars, setup, RawStays
<1>8. CASE QueueEmpty \/ Allocate \/ Depleted \/ StartRun \/ LoopTest
      BY <1>6, <1>8 DEF QueueEmpty, Allocate, Depleted, StartRun, LoopTest, setup, RawStays
<1>9. CASE Parse \/ ParseError \/ ParseThrows
      BY <1>6, <1>9 DEF Parse, ParseError, ParseThrows, setup, RawStays
<1>10. CASE Push \/ PushRefused
      BY <1>6, <1>10 DEF Push, PushRefused, setup, RawStays
<1>. QED
     BY <1>1, <1>2, <1>3, <1>4, <1>5, <1>7, <1>8, <1>9, <1>10
     DEF Next, ParserThread, Others, ProcessOne

\* A pool found empty has all its objects in the ring and with the OrderBook thread.
LEMMA EmptyPoolIsSmall ==
    ASSUME Types, Apart, Bounded, Exhausted,
           pool \subseteq free \cup Range(queue) \cup {normalized, handled}
    PROVE  Cardinality(pool) \in Nat /\ Cardinality(pool) <= QueueCapacity + 1
<1>1. pool \subseteq Range(queue) \cup {handled}
  <2>1. normalized = Null /\ free = {} /\ Null \notin pool
        BY ObjectsAssumption DEF Exhausted, Apart, Types
  <2>. QED
       BY <2>1
<1>2. IsFiniteSet(Range(queue)) /\ Cardinality(Range(queue)) <= Len(queue)
      BY RingSize DEF Types
<1>3. /\ IsFiniteSet(Range(queue) \cup {handled})
      /\ Cardinality(Range(queue) \cup {handled}) <= Cardinality(Range(queue)) + 1
  <2>1. Cardinality(Range(queue)) \in Nat
        BY <1>2, FS_CardinalityType
  <2>. DEFINE ring == Range(queue)
  <2>2. IsFiniteSet(ring) /\ Cardinality(ring) \in Nat
        BY <1>2, <2>1
  <2>. HIDE DEF ring
  <2>3. /\ IsFiniteSet(ring \cup {handled})
        /\ Cardinality(ring \cup {handled}) =
              IF handled \in ring THEN Cardinality(ring) ELSE Cardinality(ring) + 1
        BY <2>2, FS_AddElement
  <2>4. Cardinality(ring \cup {handled}) <= Cardinality(ring) + 1
        BY <2>2, <2>3
  <2>. QED
       BY <2>3, <2>4 DEF ring
<1>4. IsFiniteSet(pool) /\ Cardinality(pool) <= Cardinality(Range(queue) \cup {handled})
      BY <1>1, <1>3, FS_Subset
<1>5. /\ Cardinality(pool) \in Nat /\ Cardinality(Range(queue)) \in Nat
      /\ Cardinality(Range(queue) \cup {handled}) \in Nat
      /\ Len(queue) \in Nat /\ QueueCapacity \in Nat
      BY <1>2, <1>3, <1>4, FS_CardinalityType, LenProperties, ObjectsAssumption DEF Types
<1>. QED
     BY <1>2, <1>3, <1>4, <1>5 DEF Bounded

LEMMA ObjectsNextInv == ObjectsInv /\ [Next]_vars => ObjectsInv'
<1>. SUFFICES ASSUME ParserInv, Conserved, Bounded, PoolSuffices, [Next]_vars PROVE ObjectsInv'
     BY DEF ObjectsInv
<1>1. ParserInv' /\ Bounded'
      BY ParserNextInv, BoundedStep DEF ParserInv
<1>2. pool' \subseteq free' \cup Range(queue') \cup {normalized', handled'}
      BY <1>1, PoolConserved DEF ParserInv, Conserved
<1>3. \/ Missing' = Missing /\ exhausted' = exhausted
      \/ Exhausted /\ raw_msg \in RawSlots /\ Missing' = Missing \cup {raw_msg}
      BY MissingStep DEF ParserInv
<1>4. exhausted' \in Nat /\ Cardinality(Missing') = exhausted'
  <2>1. CASE Missing' = Missing /\ exhausted' = exhausted
        BY <2>1 DEF Conserved
  <2>2. CASE Exhausted /\ raw_msg \in RawSlots /\ Missing' = Missing \cup {raw_msg}
    <3>1. raw_msg \notin Missing /\ Missing \subseteq RawSlots
          BY DEF Missing
    <3>2. IsFiniteSet(Missing)
          BY <3>1, FS_Subset, ObjectsAssumption
    <3>3. Cardinality(Missing \cup {raw_msg}) = Cardinality(Missing) + 1
          BY <3>1, <3>2, FS_AddElement
    <3>. QED
         BY <2>2, <3>3 DEF Exhausted, Conserved
  <2>. QED
       BY <1>3, <2>1, <2>2
<1>5. PoolSuffices'
  <2>1. pool' = pool
        BY DEF Next, ParserThread, Others, ProcessOne, Receive, ReceiveNull, Handle, Handled,
           Stop, QueueEmpty, Take, Allocate, Exhausted, Depleted, Parse, ParseError,
           ParseThrows, Push, PushRefused, Finish, StartRun, LoopTest, vars, setup
  <2>2. CASE exhausted' = exhausted
        BY <2>1, <2>2 DEF PoolSuffices
  <2>3. CASE Exhausted
    <3>1. Cardinality(pool) \in Nat /\ Cardinality(pool) <= QueueCapacity + 1
          BY <2>3, EmptyPoolIsSmall DEF ParserInv, Conserved
    <3>2. QueueCapacity \in Nat
          BY ObjectsAssumption
    <3>. QED
         BY <2>1, <3>1, <3>2 DEF PoolSuffices
  <2>. QED
       BY <1>3, <2>2, <2>3
<1>. QED
     BY <1>1, <1>2, <1>4, <1>5 DEF ObjectsInv, Conserved

LEMMA ObjectsAlways == Spec => []ObjectsInv
<1>1. Init => ObjectsInv
      BY ParserInitInv, ConservedInit DEF ObjectsInv
<1>. QED
     BY <1>1, ObjectsNextInv, PTL DEF Spec

\* Without thread caches a message pool with two objects more than the queue holds is
\* never found empty, whatever the feed and the speed of the three threads.
THEOREM PoolNeverEmpty == Spec => []PoolSuffices
<1>1. ObjectsInv => PoolSuffices
      BY DEF ObjectsInv
<1>. QED
     BY <1>1, ObjectsAlways, PTL

LEMMA OneOrNone ==
    ASSUME NEW T, \A i, j \in T : i = j
    PROVE  Cardinality(T) = IF T = {} THEN 0 ELSE 1
<1>1. CASE T = {}
      BY <1>1, FS_EmptySet
<1>2. CASE T # {}
  <2>1. PICK t \in T : TRUE
        BY <1>2
  <2>2. T = {t}
        BY <2>1
  <2>. QED
       BY <2>2, FS_Singleton
<1>. QED
     BY <1>1, <1>2

\* An object that is at most once on the ring and in the hands of at most one thread.
LEMMA PlacedOnce ==
    ASSUME NEW slot, NEW objects, NEW q, NEW hands,
           \A i, j \in DOMAIN q : q[i] = slot /\ q[j] = slot => i = j,
           \A i, j \in DOMAIN hands : hands[i] = slot /\ hands[j] = slot => i = j
    PROVE  Placed(slot, objects, q, hands) =
               (IF slot \in objects THEN 1 ELSE 0)
               + (IF slot \in Range(q) THEN 1 ELSE 0)
               + (IF slot \in Range(hands) THEN 1 ELSE 0)
<1>1. Cardinality({k \in DOMAIN q : q[k] = slot}) = IF slot \in Range(q) THEN 1 ELSE 0
  <2>. DEFINE T == {k \in DOMAIN q : q[k] = slot}
  <2>1. Cardinality(T) = IF T = {} THEN 0 ELSE 1
        BY OneOrNone
  <2>2. T = {} <=> slot \notin Range(q)
        BY DEF Range
  <2>. QED
       BY <2>1, <2>2
<1>2. Cardinality({k \in DOMAIN hands : hands[k] = slot}) =
          IF slot \in Range(hands) THEN 1 ELSE 0
  <2>. DEFINE T == {k \in DOMAIN hands : hands[k] = slot}
  <2>1. Cardinality(T) = IF T = {} THEN 0 ELSE 1
        BY OneOrNone
  <2>2. T = {} <=> slot \notin Range(hands)
        BY DEF Range
  <2>. QED
       BY <2>1, <2>2
<1>. QED
     BY <1>1, <1>2 DEF Placed

\* Both pools: nothing is lost and nothing is handed out twice, but for the raw object
\* of each allocation that got nullptr.
THEOREM NothingLost == Spec => []ObjectsAccounted
<1>1. ObjectsInv => ObjectsAccounted
  <2>. SUFFICES ASSUME Types, Apart, RawApart, Conserved PROVE ObjectsAccounted
       BY DEF ObjectsInv, ParserInv
  <2>. DEFINE hands == <<normalized, handled>>
              rawHands == <<raw_msg>>
              Raws(s) == Placed(s, raw_free, raw_queue, rawHands)
  <2>0. Null \notin RawSlots /\ Null \notin pool
        BY ObjectsAssumption DEF Types
  <2>1. ASSUME NEW s \in pool PROVE Placed(s, free, queue, hands) = 1
    <3>1. s # Null
          BY <2>0
    <3>2. /\ DOMAIN hands = {1, 2} /\ hands[1] = normalized /\ hands[2] = handled
          /\ Range(hands) = {normalized, handled}
          BY DEF Range
    <3>3. normalized = s => handled # s
          BY <3>1 DEF Apart
    <3>4. \A i, j \in DOMAIN hands : hands[i] = s /\ hands[j] = s => i = j
          BY <3>2, <3>3
    <3>5. \A i, j \in DOMAIN queue : queue[i] = s /\ queue[j] = s => i = j
          BY DEF Apart
    <3>6. Placed(s, free, queue, hands) =
              (IF s \in free THEN 1 ELSE 0) + (IF s \in Range(queue) THEN 1 ELSE 0)
              + (IF s \in Range(hands) THEN 1 ELSE 0)
          BY <3>4, <3>5, PlacedOnce
    <3>7. s \in free \/ s \in Range(queue) \/ s \in Range(hands)
          BY <3>2 DEF Conserved
    <3>8. /\ ~(s \in free /\ s \in Range(queue)) /\ ~(s \in free /\ s \in Range(hands))
          /\ ~(s \in Range(queue) /\ s \in Range(hands))
          BY <3>2 DEF Apart, Range
    <3>. QED
         BY <3>6, <3>7, <3>8
  <2>2. ASSUME NEW s \in RawSlots
        PROVE  Raws(s) <= 1 /\ (Raws(s) = 0 <=> s \in Missing)
    <3>1. s # Null
          BY <2>0
    <3>2. DOMAIN rawHands = {1} /\ rawHands[1] = raw_msg /\ Range(rawHands) = {raw_msg}
          BY DEF Range
    <3>3. \A i, j \in DOMAIN rawHands : rawHands[i] = s /\ rawHands[j] = s => i = j
          BY <3>2
    <3>4. \A i, j \in DOMAIN raw_queue : raw_queue[i] = s /\ raw_queue[j] = s => i = j
          BY <3>1 DEF RawApart
    <3>5. Raws(s) = (IF s \in raw_free THEN 1 ELSE 0)
                    + (IF s \in Range(raw_queue) THEN 1 ELSE 0)
                    + (IF s \in Range(rawHands) THEN 1 ELSE 0)
          BY <3>3, <3>4, PlacedOnce
    <3>6. /\ ~(s \in raw_free /\ s \in Range(raw_queue)) /\ ~(s \in raw_free /\ s = raw_msg)
          /\ ~(s \in Range(raw_queue) /\ s = raw_msg)
          BY <3>1 DEF RawApart, Range
    <3>7. s \in Missing <=> s \notin raw_free /\ s \notin Range(raw_queue) /\ s # raw_msg
          BY DEF Missing
    <3>. QED
         BY <3>2, <3>5, <3>6, <3>7
  <2>3. {s \in RawSlots : Raws(s) = 0} = Missing
        BY <2>2 DEF Missing
  <2>. QED
       BY <2>1, <2>2, <2>3 DEF ObjectsAccounted, Conserved
<1>. QED
     BY <1>1, ObjectsAlways, PTL

=============================================================================
