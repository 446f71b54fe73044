----------------------------- MODULE ObjectPool -----------------------------
(***************************************************************************)
(* What a pool of objects promises the threads that use it                 *)
(* (src/core/memory_pool.hpp): an object is free or in use, never both; a  *)
(* call that asks for a number of objects gets that many, or all there     *)
(* are; and what is given back can be given out again.                     *)
(***************************************************************************)
EXTENDS Integers, FiniteSets

CONSTANTS
    Objects,    \* the blocks of the pool
    Threads,    \* the threads that use it
    MaxBatch    \* the most objects a call asks for

VARIABLES
    free,       \* objects in the pool
    inUse,      \* objects that belong to a client
    wanted,     \* for each thread, the number of objects its call asks for
    got         \* for each thread, what its last call returned

poolVars == <<free, inUse, wanted, got>>

Init ==
    /\ free = Objects
    /\ inUse = {}
    /\ wanted = [t \in Threads |-> 0]
    /\ got = [t \in Threads |-> {}]

Call(t, count) ==
    /\ wanted[t] = 0
    /\ wanted' = [wanted EXCEPT ![t] = count]
    /\ UNCHANGED <<free, inUse, got>>

\* All that was asked for, or all there is, nothing (nullptr) included.
Return(t) ==
    /\ wanted[t] > 0
    /\ \E S \in SUBSET free :
          /\ Cardinality(S) <= wanted[t]
          /\ Cardinality(S) < wanted[t] => S = free
          /\ free' = free \ S
          /\ inUse' = inUse \cup S
          /\ got' = [got EXCEPT ![t] = S]
    /\ wanted' = [wanted EXCEPT ![t] = 0]

Release(S) ==
    /\ S # {} /\ S \subseteq inUse
    /\ free' = free \cup S
    /\ inUse' = inUse \ S
    /\ UNCHANGED <<wanted, got>>

Next ==
    \/ \E t \in Threads, count \in 1 .. MaxBatch : Call(t, count)
    \/ \E t \in Threads : Return(t)
    \/ \E S \in SUBSET inUse : Release(S)

Spec == Init /\ [][Next]_poolVars
=============================================================================
