------------------------------ MODULE PoolPtr -------------------------------
(***************************************************************************)
(* PoolPtr of src/core/memory_pool.hpp: the owner of an object of a pool,  *)
(* which it gives back when it goes.  One thread has some PoolPtrs; other  *)
(* threads use the same pool.                                              *)
(*                                                                         *)
(* The pool gives what ObjectPool.tla promises.  It has no thread caches:  *)
(* what this thread gives back, another may take next.  When it is empty   *)
(* it answers nullptr, of which reset(args) makes an exception.  The       *)
(* constructors of the objects throw nothing.                              *)
(***************************************************************************)
EXTENDS Integers, FiniteSets

CONSTANTS
    Objects,    \* the objects of the pool
    Handles,    \* the thread's PoolPtr variables
    Null        \* nullptr; no handle

ASSUME NullAssumption == Null \notin Objects \cup Handles

VARIABLES
    free,       \* objects in the pool
    others,     \* objects of the other threads
    released,   \* objects the thread has as plain pointers
    alive,      \* the variables that hold a PoolPtr
    ptr_,       \* their objects
    pool_,      \* do they point to the pool?
    resetting,  \* the PoolPtr in the middle of reset(args)
    dangling    \* history: those whose reset(args) failed after it gave back the object

ptrVars == <<free, others, released, alive, ptr_, pool_, resetting, dangling>>

PtrInit ==
    /\ free = Objects /\ others = {} /\ released = {}
    /\ alive = {} /\ dangling = {}
    /\ ptr_ = [h \in Handles |-> Null]
    /\ pool_ = [h \in Handles |-> FALSE]
    /\ resetting = Null

\* What the destructor, reset() and the assignment give back: if (ptr_ && pool_).
Owned(h) == IF pool_[h] THEN {ptr_[h]} \ {Null} ELSE {}

-----------------------------------------------------------------------------
(* Constructors, destructor and assignment.                                *)

Make(h) ==
    /\ h \notin alive
    /\ \E o \in free \cup {Null} :
          /\ o = Null => free = {}
          /\ free' = free \ {o}
          /\ ptr_' = [ptr_ EXCEPT ![h] = o]
    /\ pool_' = [pool_ EXCEPT ![h] = TRUE]
    /\ alive' = alive \cup {h}
    /\ UNCHANGED <<others, released, resetting, dangling>>

\* Seeded bug: the other one keeps its object.
TransferShared(h, other) ==
    /\ ptr_' = [ptr_ EXCEPT ![h] = ptr_[other]]
    /\ pool_' = [pool_ EXCEPT ![h] = pool_[other]]

Transfer(h, other) ==
    /\ ptr_' = [ptr_ EXCEPT ![h] = ptr_[other], ![other] = Null]
    /\ pool_' = [pool_ EXCEPT ![h] = pool_[other], ![other] = FALSE]

MoveConstruct(h, other) ==
    /\ h \notin alive /\ other \in alive
    /\ Transfer(h, other)
    /\ alive' = alive \cup {h}
    /\ UNCHANGED <<free, others, released, resetting, dangling>>

\* Assignment to itself does nothing.
MoveAssign(h, other) ==
    /\ h # other /\ {h, other} \subseteq alive
    /\ free' = free \cup Owned(h)
    /\ Transfer(h, other)
    /\ UNCHANGED <<others, released, alive, resetting, dangling>>

Destruct(h) ==
    /\ h \in alive
    /\ free' = free \cup Owned(h)
    /\ alive' = alive \ {h}
    /\ UNCHANGED <<others, released, ptr_, pool_, resetting, dangling>>

-----------------------------------------------------------------------------
(* release() and the two forms of reset().                                 *)

Release(h) ==
    /\ h \in alive
    /\ released' = released \cup ({ptr_[h]} \ {Null})
    /\ ptr_' = [ptr_ EXCEPT ![h] = Null]
    /\ UNCHANGED <<free, others, alive, pool_, resetting, dangling>>

Reset(h) ==
    /\ h \in alive
    /\ free' = free \cup Owned(h)
    /\ ptr_' = [ptr_ EXCEPT ![h] = Null]
    /\ UNCHANGED <<others, released, alive, pool_, resetting, dangling>>

\* reset(args) gives the object back first.  It must not be called on a PoolPtr that
\* was moved from, whose pool_ is null.
ResetBegin(h) ==
    /\ h \in alive /\ pool_[h]
    /\ free' = free \cup Owned(h)
    /\ resetting' = h
    /\ UNCHANGED <<others, released, alive, ptr_, pool_, dangling>>

ResetEnd ==
    /\ resetting # Null
    /\ \E o \in free :
          /\ free' = free \ {o}
          /\ ptr_' = [ptr_ EXCEPT ![resetting] = o]
    /\ resetting' = Null
    /\ UNCHANGED <<others, released, alive, pool_, dangling>>

\* bad_alloc leaves ptr_ as it was.
ResetThrows ==
    /\ resetting # Null
    /\ free = {}
    /\ dangling' = IF ptr_[resetting] = Null THEN dangling ELSE dangling \cup {resetting}
    /\ resetting' = Null
    /\ UNCHANGED <<free, others, released, alive, ptr_, pool_>>

-----------------------------------------------------------------------------
(* The users of the pool.                                                  *)

GiveBackReleased(o) ==
    /\ o \in released
    /\ released' = released \ {o}
    /\ free' = free \cup {o}
    /\ UNCHANGED <<others, alive, ptr_, pool_, resetting, dangling>>

OthersTake(o) ==
    /\ o \in free
    /\ free' = free \ {o}
    /\ others' = others \cup {o}
    /\ UNCHANGED <<released, alive, ptr_, pool_, resetting, dangling>>

OthersGiveBack(o) ==
    /\ o \in others
    /\ others' = others \ {o}
    /\ free' = free \cup {o}
    /\ UNCHANGED <<released, alive, ptr_, pool_, resetting, dangling>>

Thread ==
    \/ ResetEnd \/ ResetThrows
    \/ /\ resetting = Null
       /\ \/ \E h \in Handles : Make(h) \/ Destruct(h) \/ Release(h) \/ Reset(h) \/ ResetBegin(h)
          \/ \E h, other \in Handles : MoveConstruct(h, other) \/ MoveAssign(h, other)
          \/ \E o \in Objects : GiveBackReleased(o)

\* What follows when an object has two owners is undefined.
PtrNext == dangling = {} /\ (Thread \/ \E o \in Objects : OthersTake(o) \/ OthersGiveBack(o))

-----------------------------------------------------------------------------
\* Through moves, releases and resets every object has one owner at a time: the pool,
\* a PoolPtr, this thread or another one.  But a reset(args) that fails, because
\* another thread took the object it gave back, leaves its PoolPtr with that object,
\* which the destructor gives back again.
Owners(o) ==
    Cardinality({h \in alive \ {resetting} : ptr_[h] = o})
    + Cardinality({S \in {<<1, free>>, <<2, others>>, <<3, released>>} : o \in S[2]})
OwnedOnce ==
    \A o \in Objects : Owners(o) = 1 + Cardinality({h \in dangling : ptr_[h] = o})

=============================================================================
