----------------------------- MODULE MCSPSCRing -----------------------------
(* SPSCRing on a small ring: the constructor is asked for one slot and makes *)
(* two, and the producer goes into a third lap of it.               *)
EXTENDS SPSCRing

MCCapacity == RoundUpToPowerOfTwo(1, 5)
=============================================================================
