---------------------------- MODULE MCMemoryPool ----------------------------
(* MemoryPool on three blocks: the least with which a stale exchange could    *)
(* find the head it expects on top of another list.                          *)
EXTENDS MemoryPool, TLC

ThreadSymmetry == Permutations(Threads)
=============================================================================
