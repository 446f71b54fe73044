----------------------------- MODULE MCValues ------------------------------
(***************************************************************************)
(* Small instances of the classes of src/core that others build on and     *)
(* that one thread uses at a time: Price, InstrumentId, Timestamp, PoolPtr *)
(* and Configuration.  They share no state: a behaviour is one of any of   *)
(* them, while the others stay in one of their initial states.             *)
(***************************************************************************)
EXTENDS FixedPoint, InstrumentId, Timestamp, PoolPtr, Configuration, TLC

VARIABLE unit   \* the class the behaviour is about

vars == <<unit, priceVars, idVars, clockVars, ptrVars, configVars>>

\* Numbers and texts that are none, of at most five characters.
MCTexts == UNION {[1 .. k -> {0, 1, 9, Dot, Minus}] : k \in 0 .. 5}

\* Documents that give settings of every section, right, wrong and out of range, and
\* exchanges that are complete, incomplete and contradictory.
Exchange(url) == [websocket_url |-> url, subscriptions |-> {"btcusdt@depth"}]
MCDocuments ==
    {<<>>,
     [system |-> [log_level |-> "debug"], exchanges |-> [binance |-> Exchange("wss://b")]],
     [system |-> [log_level |-> "loud"], debug |-> [verbose_logging |-> TRUE]],
     [threading |-> [orderbook_thread_core |-> 4], memory |-> [queue_size |-> -1]],
     [threading |-> [orderbook_thread_core |-> 1], memory |-> [queue_size |-> 0]],
     [memory |-> [queue_size |-> 3], debug |-> [disconnect_interval_sec |-> 0]],
     [exchanges |-> [binance |-> [connect_timeout_ms |-> -1] @@ Exchange("wss://b"),
                     kraken |-> Exchange("ws://k")]],
     [exchanges |-> [kraken |-> [use_ssl |-> FALSE] @@ Exchange("ws://k")]],
     [exchanges |-> [kraken |-> [use_ssl |-> FALSE, read_timeout_ms |-> 0,
                                 parser_core |-> 2] @@ Exchange("ws://k")]]}

Least(S) == CHOOSE n \in S : \A m \in S : n <= m

\* A class the behaviour is not about stays in one of its initial states.
IdleId == id = [i \in Ids |-> [exchange |-> 1, symbol_data |-> Blank]]
IdleClock ==
    /\ zero = Least(Zeros)
    /\ calibrated = Readings(Least(Begins), Least(Delays), Least(Sleeps), Least(Delays))
    /\ tsc_frequency_ = calibrate(zero, calibrated)
    /\ now = calibrated.end_tsc
    /\ Begun(zero, now)

Init ==
    /\ unit \in {"price", "id", "clock", "ptr", "config"}
    /\ IF unit = "price" THEN PriceInit ELSE text = <<>> /\ value = 0
    /\ IF unit = "id" THEN IdInit ELSE IdleId /\ given = [i \in Ids |-> <<>>]
    /\ IF unit = "clock" THEN ClockInit ELSE IdleClock
    /\ PtrInit /\ ConfigInit

Next ==
    /\ UNCHANGED unit
    /\ \/ unit = "price" /\ PriceNext /\ UNCHANGED <<idVars, clockVars, ptrVars, configVars>>
       \/ unit = "id" /\ IdNext /\ UNCHANGED <<priceVars, clockVars, ptrVars, configVars>>
       \/ unit = "clock" /\ ClockNext /\ UNCHANGED <<priceVars, idVars, ptrVars, configVars>>
       \/ unit = "ptr" /\ PtrNext /\ UNCHANGED <<priceVars, idVars, clockVars, configVars>>
       \/ unit = "config" /\ ConfigNext /\ UNCHANGED <<priceVars, idVars, clockVars, ptrVars>>

Spec == Init /\ [][Next]_vars

=============================================================================
