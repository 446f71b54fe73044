--------------------------- MODULE MCThreadCache ---------------------------
(* ThreadCache without a cache, with one of two objects, and with one large   *)
(* enough for maybe_shrink_cache(), which needs a threshold above the batch.  *)
EXTENDS ThreadCache, TLC

MCRequests == {<<0, 1>>, <<2, 3>>, <<9, 2>>}
PoolSymmetry == Permutations(Objects) \cup Permutations(Threads)
=============================================================================
