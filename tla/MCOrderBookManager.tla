------------------------- MODULE MCOrderBookManager -------------------------
(* OrderBookManager with one book whose best bid is set, replaced and deleted *)
(* while its best ask moves, and one book that must not be disturbed by it.   *)
EXTENDS OrderBookManager, TLC

CONSTANTS i1, i2, x
MCPrices == 1 .. 2
MCQuantities == {1, 2}
Change(s, p, q) == [side |-> s, price |-> p, quantity |-> q]
MCHistory ==
    i1 :> <<Change("BUY", 1, 1), Change("SELL", 2, 1), Change("BUY", 1, 0)>>
    @@ i2 :> <<Change("BUY", 2, 2)>>
=============================================================================
