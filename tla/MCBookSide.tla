----------------------------- MODULE MCBookSide -----------------------------
(* BookSide with fewer nodes than prices can never need, and top-N depths    *)
(* below, at and above the number of levels the book reaches.                *)
EXTENDS BookSide, TLC

MCPrices == 1 .. 5
\* The largest int64_t, the smallest quantity that is none, and the largest.
MCQuantities == {HalfWord - 1, HalfWord, 2 * HalfWord - 1}
MCDepths == {1, 2, 3}
NodeSymmetry == Permutations(Nodes)
=============================================================================
