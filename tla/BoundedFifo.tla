---------------------------- MODULE BoundedFifo ----------------------------
(***************************************************************************)
(* What a caller of SPSCRing (src/core/spsc_ring.hpp) is promised: a       *)
(* first-in first-out queue of bounded capacity whose two operations never *)
(* block.  A push is refused only while the queue is full, a pop only      *)
(* while it is empty, and an accepted item comes out once, in order.       *)
(* SPSCRing.tla is shown to implement this specification.                  *)
(***************************************************************************)
EXTENDS Naturals, Sequences

CONSTANTS
    Items,      \* what the queue carries (RawMessage* or NormalizedMessage*)
    Capacity    \* how many of them it can hold

VARIABLES
    queue,      \* accepted and not yet delivered, oldest first
    delivered,  \* everything try_pop has returned, in order
    pushReply,  \* what the last finished try_push answered
    popReply    \* what the last finished try_pop answered

vars == <<queue, delivered, pushReply, popReply>>

Replies == {"none", "ok", "refused"}

TypeOK ==
    /\ queue \in Seq(Items)
    /\ Len(queue) <= Capacity
    /\ delivered \in Seq(Items)
    /\ pushReply \in Replies
    /\ popReply \in Replies

Init ==
    /\ queue = <<>>
    /\ delivered = <<>>
    /\ pushReply = "none"
    /\ popReply = "none"

Put(item) ==
    /\ Len(queue) < Capacity
    /\ queue' = Append(queue, item)
    /\ pushReply' = "ok"
    /\ UNCHANGED <<delivered, popReply>>

PutRefused ==
    /\ Len(queue) = Capacity
    /\ pushReply' = "refused"
    /\ UNCHANGED <<queue, delivered, popReply>>

Get ==
    /\ queue # <<>>
    /\ delivered' = Append(delivered, Head(queue))
    /\ queue' = Tail(queue)
    /\ popReply' = "ok"
    /\ UNCHANGED pushReply

GetRefused ==
    /\ queue = <<>>
    /\ popReply' = "refused"
    /\ UNCHANGED <<queue, delivered, pushReply>>

Next ==
    \/ \E item \in Items : Put(item)
    \/ PutRefused
    \/ Get
    \/ GetRefused

Spec == Init /\ [][Next]_vars

=============================================================================
