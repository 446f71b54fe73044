---------------------------- MODULE MCOrderBook -----------------------------
(* OrderBook with three prices, so that each side has a best level, a next   *)
(* one to fall back to and one beyond the top-N depth, and books may cross.  *)
EXTENDS OrderBook, TLC

MCPrices == 1 .. 3
\* The second is beyond int64_t.
MCQuantities == {1, 2}
MCDepths == {2}
L(p, q) == [price |-> p, quantity |-> q]
\* Nothing; a level without quantity, and a level given twice.
MCSnapshotLevels == {<<>>, <<L(2, 1), L(3, 0), L(1, 2), L(2, 2)>>}
NodeSymmetry == Permutations(Nodes)
=============================================================================
