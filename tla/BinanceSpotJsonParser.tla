----------------------- MODULE BinanceSpotJsonParser -----------------------
(***************************************************************************)
(* What BinanceSpotJsonParser (src/exchanges/binance/binance_spot_parser.  *)
(* hpp) makes of a JSON document: parse_message() and its three cases.     *)
(*                                                                         *)
(* A document is what simdjson makes of the text: malformed, or a record   *)
(* with the fields of Binance's formats, of which any may be Absent; a     *)
(* field of another JSON type than the parser asks for is absent to it.    *)
(* A level is a pair of price and quantity as Price::from_string() and     *)
(* Quantity::from_string() read them, or NoArray.                          *)
(***************************************************************************)
EXTENDS Integers, Sequences, Functions

CONSTANTS
    Absent,         \* a field that is not there
    Malformed,      \* a document that is no JSON object
    NoArray,        \* an entry of a list of levels that is no array
    UNKNOWN,        \* the instrument "UNKNOWN"
    EmptySymbol,    \* the instrument of the empty symbol
    Timestamps,     \* the bits an uninitialized integer may have
    MAX_LEVELS,     \* SnapshotMessage::MAX_LEVELS
    MAX_UPDATES     \* DeltaMessage::MAX_UPDATES

ASSUME LimitsAssumption == {MAX_LEVELS, MAX_UPDATES} \subseteq Nat \ {0}

\* What a field that is not there leaves in the variable it was to be read into.
Field(value, initial) == IF value = Absent THEN initial ELSE value

\* Seeded bug: the level that reaches the limit is dropped, too.
CutShort(levels, limit) ==
    SubSeq(levels, 1, IF Len(levels) < limit THEN Len(levels) ELSE limit - 1)

\* The loops over an array stop at the limit of the message's own array.
Cut(levels, limit) == SubSeq(levels, 1, IF Len(levels) < limit THEN Len(levels) ELSE limit)

\* The symbol of a snapshot is not in the document, and a placeholder is used.
parse_snapshot_obj(doc) ==
    {[type |-> "SNAPSHOT", instrument |-> UNKNOWN,
      last_update_id |-> doc.lastUpdateId,
      bids |-> Cut(Field(doc.bids, <<>>), MAX_LEVELS),
      asks |-> Cut(Field(doc.asks, <<>>), MAX_LEVELS)]}

parse_depth_update_obj(doc) ==
    {[type |-> "DELTA", instrument |-> Field(doc.s, EmptySymbol),
      first_update_id |-> Field(doc.U, 0), last_update_id |-> Field(doc.u, 0),
      bid_updates |-> Cut(Field(doc.b, <<>>), MAX_UPDATES),
      ask_updates |-> Cut(Field(doc.a, <<>>), MAX_UPDATES)]}

\* trade_time_ms is not initialized.
parse_trade_obj(doc) ==
    {[type |-> "TRADE", instrument |-> Field(doc.s, EmptySymbol), timestamp |-> time] :
        time \in IF doc.T = Absent THEN Timestamps ELSE {doc.T}}

\* The messages a document may become; none when parse_message() returns false.
parse_message(doc) ==
    CASE doc = Malformed -> {}
      [] doc # Malformed /\ doc.e = "depthUpdate" -> parse_depth_update_obj(doc)
      [] doc # Malformed /\ doc.e = "trade" -> parse_trade_obj(doc)
      [] doc # Malformed /\ doc.e = Absent /\ doc.lastUpdateId # Absent ->
            parse_snapshot_obj(doc)
      [] OTHER -> {}

\* The conversion of an entry to an array throws when the entry is none.
Throws(m) ==
    \/ m.type = "SNAPSHOT" /\ NoArray \in Range(m.bids) \cup Range(m.asks)
    \/ m.type = "DELTA" /\ NoArray \in Range(m.bid_updates) \cup Range(m.ask_updates)

=============================================================================
