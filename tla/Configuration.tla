--------------------------- MODULE Configuration ---------------------------
(***************************************************************************)
(* Configuration of src/core/configuration.hpp and .cpp: the settings of   *)
(* the process, loaded from TOML documents.  A document is merged into the *)
(* settings there are, and validated after that; a document that is        *)
(* rejected stays in effect.                                               *)
(*                                                                         *)
(* A table is a record of the keys it gives, those whose value has another *)
(* type than the setting left out, as the parser passes over them.         *)
(***************************************************************************)
EXTENDS Integers, Sequences, FiniteSets

CONSTANTS
    num_cores,              \* what hardware_concurrency() answers: 0 for "unknown"
    WsUrls, WssUrls,        \* the URLs that begin with ws:// and with wss://
    IntWidth,                  \* bits of an int and a uint32_t
    SizeWidth,              \* bits of a size_t
    Documents,              \* the documents that may be loaded
    Missing, Malformed,     \* a file that is not there; a text that is no TOML
    Paths, NoPath,          \* the files; the empty path
    MaxLoads                \* bound on the documents parsed since the last clear()

ASSUME CoresAssumption == num_cores \in Nat
ASSUME WidthsAssumption == {IntWidth, SizeWidth} \subseteq Nat \ {0}
ASSUME PathAssumption == NoPath \notin Paths
ASSUME ContentAssumption == {Missing, Malformed} \cap Documents = {}

VARIABLES
    config,     \* system_, threading_, memory_ and debug_
    exchanges_,
    loaded_, filepath_,
    layers,     \* history: the documents parsed since the last clear()
    accepted    \* history: did the last of them pass validate()?

configVars == <<config, exchanges_, loaded_, filepath_, layers, accepted>>

Defaults ==
    [system |-> [log_level |-> "info", log_file |-> "/workspace/output/crypto_lob.log"],
     threading |-> [control_thread_core |-> -1, orderbook_thread_core |-> -1],
     memory |-> [raw_message_pool_size |-> 8192, normalized_pool_size |-> 8192,
                 queue_size |-> 4096],
     debug |-> [verbose_logging |-> FALSE, save_raw_messages |-> FALSE,
                raw_message_dir |-> "/workspace/output/raw_messages/",
                enable_profiling |-> FALSE,
                profile_output |-> "/workspace/output/profile.json",
                simulate_disconnects |-> FALSE, disconnect_interval_sec |-> 300,
                max_messages_per_second |-> 0]]

ExchangeDefaults ==
    [connector_core |-> -1, parser_core |-> -1, websocket_url |-> "", use_ssl |-> TRUE,
     connect_timeout_ms |-> 5000, handshake_timeout_ms |-> 5000, read_timeout_ms |-> 30000,
     ping_interval_ms |-> 20000, pong_timeout_ms |-> 60000, reconnect_delay_ms |-> 1000,
     max_reconnect_attempts |-> 0, max_reconnect_delay_ms |-> 60000, subscriptions |-> {}]

ConfigInit ==
    /\ config = Defaults
    /\ exchanges_ = [name \in {} |-> ExchangeDefaults]
    /\ loaded_ = FALSE /\ filepath_ = NoPath
    /\ layers = <<>> /\ accepted = TRUE

-----------------------------------------------------------------------------
(* Parsing.  A number is an int64_t, cast to the type of its setting.      *)

Cores == {"control_thread_core", "orderbook_thread_core", "connector_core", "parser_core"}
Sizes == DOMAIN Defaults.memory
Counts ==
    {"connect_timeout_ms", "handshake_timeout_ms", "read_timeout_ms", "ping_interval_ms",
     "pong_timeout_ms", "reconnect_delay_ms", "max_reconnect_attempts",
     "max_reconnect_delay_ms", "disconnect_interval_sec", "max_messages_per_second"}

Signed(n) == ((n + 2^(IntWidth - 1)) % 2^IntWidth) - 2^(IntWidth - 1)

Cast(key, v) ==
    CASE key \in Cores -> Signed(v)
      [] key \in Counts -> v % 2^IntWidth
      [] key \in Sizes -> v % 2^SizeWidth
      [] OTHER -> v

\* The settings of a section with those of a table over them.
Merged(section, table) ==
    [key \in DOMAIN section |->
        IF key \in DOMAIN table THEN Cast(key, table[key]) ELSE section[key]]

parse_sections(doc) ==
    [s \in DOMAIN config |-> IF s \in DOMAIN doc THEN Merged(config[s], doc[s]) ELSE config[s]]

\* ExchangesOf(doc): the tables of a document's exchanges, by name.
ExchangesOf(doc) == IF "exchanges" \in DOMAIN doc THEN doc.exchanges ELSE <<>>

\* Seeded bug: an exchange is merged into what an earlier document said of it.
parse_exchange_over(name, table) ==
    Merged(IF name \in DOMAIN exchanges_ THEN exchanges_[name] ELSE ExchangeDefaults, table)

\* An exchange is made from the defaults and put in the place of an earlier one.
parse_exchange(name, table) == Merged(ExchangeDefaults, table)

parse_exchanges(doc) ==
    [name \in DOMAIN exchanges_ \cup DOMAIN ExchangesOf(doc) |->
        IF name \in DOMAIN ExchangesOf(doc)
        THEN parse_exchange(name, ExchangesOf(doc)[name])
        ELSE exchanges_[name]]

-----------------------------------------------------------------------------
(* Validation.                                                             *)

ValidSystem(c) ==
    /\ c.log_level \in {"trace", "debug", "info", "warn", "error"}
    /\ c.log_file # ""

\* -1 is for no pinning; nothing is checked when the number of cores is unknown.
ValidCore(core) == core = -1 \/ num_cores = 0 \/ core \in 0 .. num_cores - 1
ValidThreading(c) == ValidCore(c.control_thread_core) /\ ValidCore(c.orderbook_thread_core)

\* A queue size that is no power of two, and pools smaller than the queue, give a
\* warning only.
ValidMemory(c) == \A key \in Sizes : c[key] > 0

ValidExchange(c) ==
    /\ c.websocket_url \in IF c.use_ssl THEN WssUrls ELSE WsUrls
    /\ \A key \in {"connect_timeout_ms", "handshake_timeout_ms", "read_timeout_ms",
                   "ping_interval_ms", "pong_timeout_ms", "reconnect_delay_ms"} : c[key] > 0
    /\ c.max_reconnect_delay_ms >= c.reconnect_delay_ms
    /\ c.subscriptions # {}
    /\ ValidCore(c.connector_core) /\ ValidCore(c.parser_core)

\* Does validate() return?
validate(sections, exchanges) ==
    /\ ValidSystem(sections.system)
    /\ ValidThreading(sections.threading)
    /\ ValidMemory(sections.memory)
    /\ \A name \in DOMAIN exchanges : ValidExchange(exchanges[name])

-----------------------------------------------------------------------------
(* The operations.                                                         *)

\* Seeded bug: only what the document says is validated.
AcceptsAlone(doc) ==
    validate(parse_sections(doc),
             [name \in DOMAIN ExchangesOf(doc) |-> parse_exchange(name, ExchangesOf(doc)[name])])

\* Does the load of a document return?  It is all of the settings that are validated.
Accepts(doc) == validate(parse_sections(doc), parse_exchanges(doc))

\* load_from_string(doc), and the end of load_from_file().
Load(doc) ==
    /\ Len(layers) < MaxLoads
    /\ config' = parse_sections(doc)
    /\ exchanges_' = parse_exchanges(doc)
    /\ loaded_' = TRUE
    /\ accepted' = Accepts(doc)

load_from_string(content) ==
    /\ content \in Documents
    /\ Load(content)
    /\ layers' = Append(layers, [path |-> NoPath, doc |-> content])
    /\ UNCHANGED filepath_

load_from_file(path, content) ==
    /\ content \in Documents
    /\ Load(content)
    /\ layers' = Append(layers, [path |-> path, doc |-> content])
    /\ filepath_' = path

\* A file that is not there and a text that is no TOML are refused before anything
\* changes.
Refuse(content) == content \in {Missing, Malformed} /\ UNCHANGED configVars

clear ==
    /\ config' = Defaults
    /\ exchanges_' = [name \in {} |-> ExchangeDefaults]
    /\ loaded_' = FALSE /\ filepath_' = NoPath
    /\ layers' = <<>> /\ accepted' = TRUE

ConfigNext ==
    \/ \E content \in Documents \cup {Missing, Malformed} :
          \/ load_from_string(content)
          \/ \E path \in Paths : load_from_file(path, content)
          \/ Refuse(content)
    \/ clear

-----------------------------------------------------------------------------
(* Correctness.                                                            *)

\* The last of the documents for which P holds, 0 if there is none.
LastLayer(P(_)) ==
    LET which == {i \in DOMAIN layers : P(layers[i])}
    IN  IF which = {} THEN 0 ELSE CHOOSE i \in which : \A j \in which : j <= i

\* What the documents parsed since the last clear() say: of each setting the last
\* one that gives it, or its default; of an exchange the last one that names it and
\* the defaults, nothing of the earlier ones.
LastWord ==
    [sections |->
        [s \in DOMAIN Defaults |->
            [key \in DOMAIN Defaults[s] |->
                LET Gives(layer) == s \in DOMAIN layer.doc /\ key \in DOMAIN layer.doc[s]
                    i == LastLayer(Gives)
                IN  IF i = 0 THEN Defaults[s][key] ELSE Cast(key, layers[i].doc[s][key])]],
     exchanges |->
        [name \in UNION {DOMAIN ExchangesOf(layers[i].doc) : i \in DOMAIN layers} |->
            LET Names(layer) == name \in DOMAIN ExchangesOf(layer.doc)
            IN  Merged(ExchangeDefaults, layers[LastLayer(Names)].doc.exchanges[name])]]

\* The settings are the last word of all documents loaded, the rejected ones too, in
\* whatever order they came; the path is that of the last file among them.
LastWordCounts ==
    /\ config = LastWord.sections
    /\ exchanges_ = LastWord.exchanges
    /\ LET FromFile(layer) == layer.path # NoPath
           i == LastLayer(FromFile)
       IN  filepath_ = IF i = 0 THEN NoPath ELSE layers[i].path
    /\ loaded_ <=> layers # <<>>

\* Whoever saw no exception at the last load has valid settings, and the other way
\* round: an exchange that was rejected once makes every later document fail until
\* one names it again, whatever that document is about.
ValidUnlessRejected == accepted <=> validate(LastWord.sections, LastWord.exchanges)

=============================================================================
