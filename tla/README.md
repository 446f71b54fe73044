# crypto-lob in TLA+

Models, model-checking runs and machine-checked proofs for crypto-lob, a limit
order book for exchange market data written in C++20.  Every definition is
translated from the code under `src/`; `PROJECT.json` names the lines each one
stands for (`map`), the runs, the seeded bugs each property is tested against
(`mutants`), and the hazards the properties are aimed at.

## 1. The system

Market data flows through a pipeline of threads that share nothing but queues of
pointers and object pools (`docs/arch_guide.md`, section 3):

    exchange -> connector -> [ring of RawMessage*] -> parser thread
             -> [ring of NormalizedMessage*] -> OrderBook thread -> books

Connectors, the control thread and the recorder are described by the guide but
are not in the source; `main()` prints a banner.  What is there:

| Component (file under `src/src/`) | State | Operations | Shared with |
|---|---|---|---|
| `SPSCRing` (`core/spsc_ring.hpp`) | slots with a sequence and a datum, two cursors | `try_push`, `try_pop`, `size` and what is derived from it | one producer thread, one consumer thread, observers |
| `MemoryPool`, `ThreadLocalCache` (`core/memory_pool.hpp`) | tagged head of a free list threaded through the free objects, a count; per thread a stack of cached objects | `allocate_raw`, `deallocate_raw`, the two batch forms, refill, flush, shrink, destruction | every thread |
| `PoolPtr` (`core/memory_pool.hpp`) | a pointer and its pool | construct, move, `reset`, `release` | its owner |
| `BookSide` (`orderbook/book_side.hpp`) | red-black tree and hash set of the same level nodes, cached N-th price, depth | `apply_update`, `clear`, `set_top_n_depth`, queries | its book; the node pool |
| `OrderBook` (`orderbook/order_book.hpp`) | two sides, cached top of book | `update`, `snapshot`, `clear`, queries | OrderBook thread |
| `OrderBookManager` (`orderbook/order_book_manager.hpp`) | books, per instrument `last_update_id`, `awaiting_snapshot`, `gaps_detected`; statistics; `running_` | `add_instrument`, `process_one`, `run`, `stop` | the queue, the message pool, the thread that calls `stop` |
| `Parser` (`exchanges/parser.hpp`) | two queues, two pools, statistics, `running_` | `process_one`, `run`, `stop` | connector and OrderBook thread |
| `BinanceSpotJsonParser` | none that lasts | `parse_message` and three cases | - |
| `Configuration` (`core/configuration.*`) | five sections, `loaded_`, `filepath_` | load, validate, clear | read by all |
| `Price`, `Quantity` (`core/price.hpp`) | an integer of 64 bits | parse, print, calculate | - |
| `InstrumentId` (`core/instrument.hpp`) | an exchange and a fixed array of characters | construct, `set_symbol`, compare, hash | key of the books |
| `Timestamp` (`core/timestamp.hpp`) | the measured frequency of the counter | `rdtsc`, `tsc_to_ns` | - |

What makes each of them hard, and what makes it correct:

* **SPSCRing.** The payload of a slot is written and read with plain accesses;
  one acquire/release pair on the slot's sequence is all that separates the two
  threads, and the same slot is used again a lap later.  Correct: no data race,
  nothing lost, duplicated, reordered or overwritten, everything delivered.
* **MemoryPool.** A lock-free stack whose pop reads a node that may no longer be
  free.  Correct: no object is handed out twice or lost; `nullptr` only when there
  is none; the count never goes below zero.
* **BookSide.** One set of levels in two containers and a pool, and a cached
  price that only some updates refresh although every later answer depends on it.
  Signed changes are made of unsigned quantities.  Correct: the containers agree, no
  node leaks, the cache is exact, `affects_top_n` is exact, the changes add up.
* **OrderBook.** Two sides on one pool; a "did the top move" test by address and
  quantity; `snapshot` rebuilds both sides level by level.  Correct: to its user
  it is two maps from price to quantity and their best entries.
* **OrderBookManager.** Messages are lost by full queues, repeated, reordered
  across reconnects; four early returns must give the message back.  Correct: a
  book is stale or right, never wrong; message objects are conserved; an outage is
  one gap; a snapshot heals it; `stop` stops.
* **ThreadLocalCache.** Objects in a cache are out of reach of other threads, and
  a thread that finds nothing throws or ends the process.  Correct: no object is
  lost or doubled between caches and list, the loops stay inside the array, and a
  thread runs dry only when the pool is really short.
* **Parser.** Two pools and two queues on every path.  Correct: each object is
  given back on each path, the order and content of messages is kept, each is
  counted once.
* **PoolPtr.** A pointer is moved, released and replaced; replacing gives the old
  object back before the new one is there.  Correct: one owner at a time.
* **Configuration.** A document is merged into what is there and validated
  afterwards.  Correct: the settings are the last word of all documents, and who
  saw no exception has valid ones.
* **Price.** Nothing checks for overflow.  Correct: a number is read as what it
  says, what is printed reads back, and the checks the header recommends decide.
* **InstrumentId.** A shorter symbol leaves the tail of a longer one in the array,
  and a symbol may have a null character in it.  Correct: equality, order and hash
  never see what is behind the first null character.
* **Timestamp.** Two clocks are read one after the other, once, and what comes
  between the readings spoils every later measurement; the counter wraps around, a
  product with 10^9 overflows after some seconds, and divisions cut off.  Correct:
  elapsed time to a tenth, as long as the products fit and the calibration was not
  held up for long.

## 2. The modules

Every module of a component names in its header the file it models; its
variables carry the names of the code's members where there is one.

    BoundedFifo  <--implements--  SPSCRing
    LevelBook    <--implements--  OrderBook  --(two instances)-->  BookSide
    ObjectPool   <--implements--  MemoryPool
    LossyFeed    <--implements--  Parser
    BookLevels   <--extended by-- LevelBook, OrderBook, OrderBookManager
    BinanceSpotJsonParser  <--extended by-- Parser
    FixedPoint, InstrumentId, Timestamp, PoolPtr, Configuration
                 <--extended by-- MCValues

* **SPSCRing** (`core/spsc_ring.hpp`).  The members are `slots_` (sequence and datum
  of each slot), `head_seq_` and `tail_seq_`; a program counter per thread says
  which access comes next.  `try_push` is `PushBegin` (the loads and the test of the
  slot's sequence), `PushWrite` (the datum), `PushPublish` (the sequence) and
  `PushAdvance` (the cursor), or `PushRefused`; `try_pop` likewise.  `size()` is two
  loads, of which an observer may make the second at any later time.  `pushed` and
  `popped` are history.  The capacity is what `RoundUpToPowerOfTwo` makes of a
  request: never less than two (with a single slot, the sequence a push publishes
  would equal the one the next push waits for).  A request above 2^32 makes the
  constructor throw and leaves no ring (`spsc_ring.hpp:101-109`); the module is
  about rings there are.  **BoundedFifo** is the queue it promises to be:  `Put`,
  `PutRefused`, `Get`, `GetRefused`.
* **BookSide** (`orderbook/book_side.hpp`).  `tree` is the set of nodes in the Boost
  red-black tree, `index` the Boost hash set as a map from price to node, `free` the
  node pool, `level` the node contents, `nth_price` the cached `nth_price_` and
  `top_n_depth` the depth.  `apply_update` is one of `IgnoreDelete`, `InsertLevel`,
  `DeleteLevel`, `SetQuantity`, by the code's own conditions; `clear` and
  `set_top_n_depth` are `Clear` and `SetTopNDepth`.  The code's `std::abort()` calls
  set `aborted`.  Quantities are `uint64_t`, words of `2 * HalfWord` values, and
  `delta_qty` is made of them by the code's casts to `int64_t` (`Int64`), which
  change the sign of those from 2^63 on.  The queries are operators, and so are
  `validate_bst_property` and `validate_hash_coherence`, which `BookInvariant`
  contains.  The second half of the latter, a search in the tree for each element of
  the hash set, is left out:  `iterator_to` finds any node by its own address, so it
  cannot fail.
* **OrderBook** (`orderbook/order_book.hpp`).  Two instances of BookSide on one
  pool, `cached_tob`, and the loops of `snapshot` and `clear` one level or one
  side at a time.  `TopMoved` is the code's test by node and quantity.  The queries
  (`find_level`, `get_levels`, the depths, `empty`, `is_crossed`) are operators.
  **LevelBook**, built on **BookLevels**, is the book as its user sees it: two
  functions from price to quantity, with `update`, `snapshot` and `clear` atomic.
  `WithLevels` is what a list of levels makes of a side, one after the other.
* **OrderBookManager** (`orderbook/order_book_manager.hpp`).  The queue, the pool
  of message slots, per instrument the two sides and `last_update_id`,
  `awaiting_snapshot`, `gaps_detected`.  `process_one` is one action per path:
  `QueueEmpty`, `NullMessage`, `UnknownInstrument`, `ApplySnapshot`, the early
  returns of a delta `DropAwaiting`, `DropGap` and `SkipOld`, `ApplyDelta`,
  `Trade`, `OtherType`; `StartRun`, `LoopTest` and `Stop` are the life of the
  thread.  The parser never sends a null pointer or an unknown type, but the
  handler has a case for each.
  `process_one` is one step because nothing it reads or writes is written by
  another thread, except the ends of the queue and of the pool.  The books in it
  are those of BookLevels, which OrderBook is proved to implement (section 4); the
  queue is the FIFO that SPSCRing is proved to be.
  **What arrives** is modelled by truth, not by order: a history of changes of
  each book on the exchange is a constant, and a message is any snapshot or
  delta that is true of that history.  Any of them may arrive at any time, which
  covers loss, repetition and reordering.
* **MemoryPool** (`core/memory_pool.hpp`).  `free_head_` (pointer and tag),
  `next` (the links inside the blocks), `allocated_count_`.  Every load, every
  compare-exchange and every counter update that another thread can see is a
  step of its own; a compare-exchange that fails, also spuriously, reloads the
  head (`AllocateRetry`, `BatchRetry`, `DeallocateHead`).  A client overwrites the
  link of a block it holds (`Use`), and a late reader then reads `Garbage`.
  `deallocate_raw` is `deallocate_raw_batch` of one block.  `stack` is history:
  the blocks in the order in which the list should hold them.  **ObjectPool** is
  the promise: free, in use, `Call`, `Return`, `Release`.
  A constant says whether clients keep other allocations apart from a batch
  allocation: with that rule batches are safe, without it they are not.
* **ThreadCache** (`CacheConfig`, `ThreadLocalCache` and the high-level calls of
  `core/memory_pool.hpp`).  Per thread `cache` is the filled part of the array,
  `global_pool_` its pointer to the pool; `free` is the global list, one step per
  object taken or given back, as ObjectPool allows.  A call is a loop over
  `TakeCached`, a refill (`RefillBegin`, `RefillTake`, `RefillEnd`, or `Deplete`
  when not even one object came) or, without a cache, `TakeGlobal`; the three
  loops that give objects back share `GiveBack`.  Whether the clock and the 256th
  call make a deallocation look at shrinking is a free choice.  `lost` is
  history: what a batch had collected when the exception destroyed its vector.
* **BinanceSpotJsonParser** (`exchanges/binance/binance_spot_parser.hpp`) is the
  function `parse_message` from a document to the messages it may become.  More
  than one is possible because a trade without a time gets an uninitialized one;
  none when it returns false; and the conversion of a level that is no array
  throws (`Throws`).
* **Parser** (`exchanges/parser.hpp`).  The two rings with the objects on them, the
  two pools, the thread's `raw_msg` and `normalized`.  Each access of
  `process_one` to a ring or a pool is a step: `QueueEmpty` or `Take`; `Allocate`,
  `Exhausted` (the pool returned `nullptr`; the raw object stays behind) or
  `Depleted` (a pool with caches does not return); `Parse`, `ParseError` or
  `ParseThrows`; `Push` or `PushRefused`; `Finish`.  The connector is external;
  the OrderBook thread is reduced to taking a message and giving it back.
  **LossyFeed** is what all of this is for, without pools or rings: of the messages
  received some are delivered, in order, each once and saying what its document
  says (`Says`, which Parser defines as `Faithful`), and the others are counted as
  lost.
* **PoolPtr** (`core/memory_pool.hpp`).  The `PoolPtr` variables of one thread, over
  a pool that other threads use at any time.  `reset(args)` is two steps, because
  between giving the old object back and asking for a new one another thread can
  take it; `ResetThrows` is what follows when the pool is empty then.
* **FixedPoint** (`core/price.hpp`).  `from_string`, `to_string` and the compound
  assignments, as operators on integers that wrap around after `Width` bits.
* **InstrumentId** (`core/instrument.hpp`).  The array cell by cell, since what is
  left of an earlier symbol in it is the point; `Equal`, `Less` and `Hashed` read
  it as the code does.  Symbols may hold the null character, 0.
* **Timestamp** (`core/timestamp.hpp`).  True time passes in instants, of which a
  tick of the counter and a nanosecond each have some number: the frequency is no
  whole number of ticks per nanosecond, and the clocks show whole units.
  `Readings` are the instants of the calibration's four readings: `steady_clock`,
  some delay, the counter, a sleep of any length, `steady_clock`, another delay, the
  counter.  `calibrate` makes the frequency of them and `tsc_to_ns` nanoseconds of a
  difference, in words of `Bits` bits.
* **Configuration** (`core/configuration.hpp`, `.cpp`).  `load_from_string` and
  `load_from_file` are one step each, for nothing of another thread can come
  between: parse section by section into the members, set `loaded_` and
  `filepath_`, validate.  A table is a record of the keys it gives; the casts to
  `int`, `uint32_t` and `size_t` are `Cast`.  `layers` is history: the documents
  parsed since the last `clear`.

## 3. The runs

| Run | Bounds | States | What it shows |
|---|---|---|---|
| `ring` | 2 slots, 2 items, 5 pushes, words modulo 256 | 141 142 | no data race, FIFO, refinement of BoundedFifo, delivery |
| `ring_size` | the same, 3 pushes | (stops) | a counterexample: `size()` beyond the capacity |
| `book_side` | 4 nodes, 5 prices, 3 quantities about the largest `int64_t`, depths 1-3 | 36 318 | coherence of containers and cache, exactness of `affects_top_n`, `delta_qty` |
| `book_side_sentinel` | the same | (stops) | a counterexample: the level that completes the top N |
| `order_book` | 6 nodes, 3 prices, depth 2, two snapshot lists | 21 292 | the two sides share a pool; the queries agree; refinement of LevelBook |
| `manager` | 2 instruments + 1 stranger, 3 changes and 1 change, 2 slots, 3 messages | 102 896 | sync, accounting, gaps, BBO changes, liveness |
| `manager_stop` | the same, 1 message | (stops) | a counterexample: a lost `stop()` |
| `pool` | 3 blocks, 2 threads that allocate singly and in batches of up to 2, 5 calls | 977 518 | the list, its count, refinement of ObjectPool |
| `pool_aba` | the same, batches overlapping with other allocations, 8 calls | (stops) | a counterexample: ABA |
| `thread_cache` | 5 objects, 2 threads, caches of 0, 2 and 5 objects, both policies | 92 949 | objects conserved, caches in bounds, depletion justified, exits |
| `parser` | 2 raw objects, 2 or 4 normalized ones, rings of 2, 4 feeds of up to 5 messages | 242 148 | objects conserved, sizing, refinement of LossyFeed, delivery |
| `values` | 2 decimal places in 12 bits, 3 cells, a 13-bit clock, 3 objects and 2 PoolPtrs, 9 documents of which 3 are loaded | 277 491 | prices, identifiers, clock, PoolPtr, configuration |

Why the bounds are enough:

* A two-slot ring has every relation a larger one has (empty, one in, full); five
  pushes take it through two laps and into a third, so that a slot is reused
  after having been reused.  `Word` stands for 2^64: larger than any count a run
  reaches, so that only a negative difference wraps, as in 64 bits.
* Books are compared by order and equality of prices and by quantities being
  equal or not.  Five prices with depths up to three put a level before, at and
  behind the N-th position, with one to fall in and one to fall out; `order_book`
  has crossed books because both sides use the same prices.  In `book_side` words are of
  three bits, and the quantities the largest that a cast to `int64_t` keeps, the
  smallest it does not, and the largest there is; so casts, negations and
  differences all wrap around, alone and together.
* Three messages are a snapshot, a message lost or repeated or reordered, and
  one that comes after it: the shortest outage with its healing, for one
  instrument while the other must stay as it is.
* Two threads and five calls let one thread be overtaken by an allocate, allocate,
  free, free of the other, which is the ABA pattern; with three blocks the list
  below the head has really changed.
* The three cache sizes are the three ways the code goes: none; one whose batch is
  the whole cache; one whose shrink threshold lies above the batch, the only case
  in which `maybe_shrink_cache` does anything.  Five objects are fewer than two
  full caches of five, so caches starve each other.
* `values` has no interaction between its five classes; one run starts each of
  them.  Every text of up to five characters out of two digits that make carries
  (1, 9), 0, the point and the sign is parsed: in 12 bits (±20.47 with two
  places) these reach beyond every limit, as 11 digits do in 64 bits.  Three
  cells and characters with the null among them hold symbols shorter than, as long as
  and longer than the array keeps, cut by a null at every place, each over each.  The
  clock makes two ticks in three nanoseconds; its 13 bits wrap around during the
  calibration, during a measurement or in neither, some measurements are too long for
  a product with the 72 nanoseconds of a second, and some calibrations are held up
  for a quarter of their sleep.
  Three objects, two PoolPtrs and free-running other threads empty the pool within
  a `reset`.  The nine documents set every section, rightly, wrongly and with
  numbers that change in the cast; three in a row make a right one after a wrong
  one after a right one.
* The four feeds of `parser` hold every kind of document in orders that fill the
  ring, fail in a row (more failures than the pool has objects), and mix invalid
  and null messages with good ones.  A message pool of four is the ring and one
  object for each of the two threads, one of two is the ring alone.

`CHECK_DEADLOCK FALSE` is said for `manager`, `manager_stop` and `parser` (after
`stop()` the thread ends, and what is left in the queue stays there; the parser's
process may also die of an exception), for the pool runs (`MaxCalls` bounds the
calls, so runs end), for `thread_cache` (threads exit, the process terminates) and
for `values` (a measurement, a sequence of loads and the use of a PoolPtr whose
object has two owners end).

Fairness.  `ring` assumes weak fairness of the consumer's next access, `manager` of
the OrderBook thread and `parser` of the parser thread, because both `run()` loops
poll without blocking (`order_book_manager.hpp:254-263`, `parser.hpp:136-143`);
nothing is assumed of producers, observers, the exchange, the connector or the
caller of `stop`.  The pool has no liveness property: the code is lock-free, a
single thread may be overtaken for ever.

### What the counterexamples say

* `ring_size`: `size()`, and so `fill_ratio()` and `full()`, can report about
  2^64 elements, because the two cursors are loaded one after the other and a
  consumer may in between pass the head that was loaded.  This is already so
  under sequentially consistent interleaving; weaker memory only adds to it.
* `book_side_sentinel`: a side with fewer than N levels caches `Price::zero()`,
  and the answer for the level that completes the top N is a comparison with it:
  on asks the update is reported as not affecting the top N.
* `manager_stop`: `run()` sets `running_` when it is entered, so a `stop()` that
  came before is lost.
* `pool_aba`: `allocate_raw_batch` installs the tag it finds in the list instead
  of a new one, so the head can return to an earlier pointer and tag, and a
  stale compare-exchange succeeds.  The trace takes four calls: a thread reads the head (block 1, tag 1) and
  its link; the other empties the list, which leaves (null, 0), and gives block
  1 back, which makes the head (block 1, tag 1) again; the first thread's
  exchange succeeds and puts a block that is in use at the head.

### What else the models made visible

None of these contradicts a statement of the repository closely enough to be a
counterexample run; the models contain them as they are.

* When `message_pool_.allocate()` returns `nullptr`, `Parser::process_one` returns
  without giving back the raw message (`parser.hpp:96-100`), so each exhaustion
  makes the raw pool smaller for good; `ObjectsAccounted` counts exactly these.
  With thread caches, as by default, the test for `nullptr` cannot succeed, since
  depletion throws or terminates.
* The message pool must be two larger than the queue for this never to happen
  (`PoolSuffices`); the validation warns only below the size of the queue
  (`configuration.cpp:136`).
* A snapshot is always given the instrument `UNKNOWN` (`binance_spot_parser.hpp:121`,
  marked as a placeholder), which OrderBookManager counts as unknown and drops.
  As long as that is so, a book fed by this parser never leaves
  `awaiting_snapshot`.
* An entry of a list of levels that is no array throws out of `run()`.
* `allocate_batch` returns fewer objects than asked for only without a cache; with
  one, it throws or terminates, and after an exception the objects it had
  collected are lost.  `allocate_raw_batch`, with its ABA, is reached only with a
  cache size of 0.
* `Parser::run()` loses a `stop()` that comes before it, as `OrderBookManager::run()`
  does (`parser.hpp:137`).
* `PoolPtr::reset(args)` that finds the pool empty throws after it has given its
  object back and before it forgets it (`memory_pool.hpp:1224`): the destructor
  gives the object back a second time.  `OwnedOnce` counts exactly this.
* A rejected document stays in effect and `loaded_` stays true
  (`configuration.cpp:151`), and an exchange that was rejected once makes every
  later load fail until a document names it again.  `configuration.hpp:97` calls
  the configuration immutable after loading; loading again merges.
* A negative number becomes a huge unsigned one and so passes the test for zero.
* With the default sizes (64, 32, 16) the condition of `maybe_shrink_cache` is
  never true: it needs a shrink threshold above the batch size.  The amount it
  returns is the minimum with a difference that has wrapped around
  (`memory_pool.hpp:400`), hence always half a batch; `CacheBounded` shows that
  this stays inside the cache.

## 4. What is proved

`tlapm` checks every leaf of the proofs; nothing is left out or assumed besides
the named assumptions on constants, which TLC evaluates in the runs.  Each proof
module states its argument at its top.

| Module | Theorems | Holds for |
|---|---|---|
| `SPSCRingProofs` | `RingCorrect`, `RingRaceFree`, `CursorDistance`, `RingImplementsFifo` | every capacity of at least 2, every item set, any number of pushes below the word size |
| `BookSideProofs` | `ContainersCoherent`, `NthPriceAlwaysCoherent`, `AffectsTopNAlwaysExact`, `TopNChangesAlwaysReported`, `DeltaQtyAlwaysAccounts` | every finite pool, all integer prices, all quantities of a word of any size, all depths of at least 1, both sides |
| `OrderBookProofs` | `SidesAlwaysShareThePool`, `QueriesAlwaysAgree`, `ImplementsPromise` | every finite pool, all integer prices, all depths of at least 1, snapshots with lists of every length |
| `OrderBookManagerProofs` | `TypeCorrect`, `EveryMessageAccounted`, `BooksInSync`, `OneGapPerOutage`, `BboChangesCounted` | every finite set of instruments, every finite history, every pool and number of messages |
| `ParserProofs` | `ParserImplementsFeed`, `NothingLost`, `PoolNeverEmpty` | every finite pair of pools, rings of every size, every feed, all limits of the lists |
| `MemoryPoolProofs` | `FreeListSafe`, `PointersSafe`, `PoolRefinement`, `CountAlwaysFollows` | every number of blocks and threads and batches of every length, if no other allocation is under way during the allocation of a batch |
| `ThreadCacheProofs` | `CachesBounded`, `NothingStaysCached`, `EveryObjectHasOneOwner`, `DepletionOnlyByOthers` | every finite pool and set of threads, all sizes given to `CacheConfig()`, all limits and batches |
| `ValuesProofs` | `KeysAgree` | arrays of at least 2 cells, every set of characters, null among them, symbols of every length |
| | `OwnersAreUnique` | every finite pool, any number of PoolPtrs |
| | `LastWordAlwaysCounts`, `ValidAlwaysUnlessRejected` | any documents, loaded in any order and any number |
| | `AlwaysMeasuredWithinTenth` | counters of any frequency of 100 Hz or more, words, seconds and calibrations of any length |
| | `ChecksAlwaysDecide` | registers of any width, any prices and factors |
| | `NumbersAlwaysParsed`, `PrintedAlwaysReadsBack` | registers of any width, any number of places, number texts of any length, every price but the smallest |

* **SPSCRing.**  `RingInvariant` is inductive as it stands.  It partitions the
  sequence numbers `Released .. Released + Capacity - 1` into published ones,
  whose slots hold sequence + 1 and the item that was pushed, and free ones,
  whose slots hold the sequence itself; the slot of each is its remainder.  All
  it needs of arithmetic is that `Capacity` consecutive numbers have different
  remainders (`SlotInjective`) and the next one that of the first
  (`SlotPeriodic`).  The refinement maps the queue to the items published and
  not yet released.
* **BookSide.**  The invariant joins the coherence of the containers with that
  of the cache, since the comparison with the cache is only right if the cache is
  (`CachedComparison`).  That the level at position k exists is a pigeonhole
  argument over the numbers of levels ahead (`AtExists`).  An insertion or
  deletion that `affects_top_n` does not report leaves the N-th level alone
  (`NthStable`, `NthStableBehind`).  `TopNChangesAlwaysReported` takes the same
  comparison on the book as it was before the insertion, plus one level; where the
  cache was still the sentinel the new level completes the N, which is the case
  `book_side_sentinel` is about.  `DeltaQtyAlwaysAccounts` needs the sum over the
  levels, a recursion over sets that takes an element CHOOSE picks.  Induction over
  sets cannot be cited, but a smallest set for which a claim fails can be taken
  (`LeastSet`); that the sum is the same in whatever order (`SumWithout`) is
  shown on one.  What a cast or a difference loses is a word, which a lemma
  says of an insertion, a deletion and a change (`Int64OfDifferences`).
* **OrderBook.**  `BookInvariant` is inductive.  `BookOK` says that each side's tree,
  hash map and cached N-th price agree (`SideOK`) and that the stack of the pool
  holds exactly the nodes neither side has; `PhaseOK` says how far the loop of
  `snapshot` is and when the cached top is that of the sides.  A theorem about
  BookSide cannot be cited of its two instances, so what the operations leave is
  proved of a side given as a record, for both orders at once (the lemmas
  `...Outcome`).  In the refinement `TopMoved` compares nodes where the
  promise compares prices: one update takes a node from the pool or gives one back,
  never both, and writes no price of a node that stays, so another node is
  another price (`BestMoved`).
* **OrderBookManager.**  `DeltaAdvances` is the heart: a delta that starts no
  later than one past the version a side has, and ends no earlier, brings the
  side to the delta's last version, because a price it does not name was not
  touched in between.  To apply it to the message at the head of the queue the
  invariant must know that this slot still holds a message that arrived, hence
  `MessagesAccounted` is part of it.  `BboChangesCounted` rests on a message naming
  each price once: when an update has moved the top of a side, none of those behind
  it can bring the old top back (`TopNeverReturns`), so that asking after each
  update is asking at the end.
* **MemoryPool.**  The exchanges of single blocks, and all that give blocks back,
  make the tag of the head larger.  Between two batch allocations a head that still
  equals the one a thread has loaded has therefore not been exchanged
  meanwhile; its block was in the list all the time, nobody wrote its link, and the
  link the thread has read is still there (`Expectations`).  A batch allocation may make
  the tag smaller, as `pool_aba` shows, but under `BatchesAlone` no other
  allocation relies on it then.  The walk over the list is safe for another
  reason: nothing is taken from the list meanwhile, so what has been walked over is
  still there, pushed down by what was given back on top of it (`Walks`); if the
  head is still the block the walk began at, the walk has been over the top
  of the list.  The blocks calls claim are in use, each by one call (`Claims`), so
  the writes of clients and of calls that give back never touch the list
  (`WritesSpareList`).  `CountAlwaysFollows` counts the calls between an exchange
  and the counter update that belongs to it: those that have taken a block are not
  in the count yet, those that have given one back still are, and a finite set of
  such calls holds a block each that no other holds.
* **ThreadCache.**  `LoopInvariant` says what the counters of the loops promise and
  when a cache has a pool; `SizesValid` is all it needs of `CacheConfig()`.  A step
  is one thread's, so `StepDivides` shows only that what this thread and the shared
  places have stays apart (`Split`) and adds up to the same objects; what the other
  threads have was apart from all of that and is left alone (`OthersAlone`).
  `DepletionOnlyByOthers` follows by counting: the places in the other caches map
  onto the objects in them (`CachesHold`).  The free list is the one ObjectPool
  promises, so for batches from a pool without caches this rests on the rule
  `BatchesAlone`.
* **Parser.**  `Counting` is the key: the raw messages taken are those counted and
  the one in work, so the place in the feed of each message in the ring follows
  from the statistics, and `Contents` says that the ring, the message in work and
  what was made of it hold what is at that place.  `Apart` and `RawApart` keep the
  objects of the ring, of the threads and of the pools apart, so that reuse of one
  changes no other.  `ParsedFaithful` is the lemma about `parse_message`, for
  every document.  Two more facts are added for the last two theorems:
  `Conserved`, every object is somewhere or was lost by an `Exhausted` step; and
  `Bounded`, the ring has no more than its capacity.  When the pool is found
  empty its objects are on the ring or with the OrderBook thread, so there
  are at most one more than the ring holds (`EmptyPoolIsSmall`).
* **InstrumentId.**  The invariant says what a symbol determines of the array: the
  cells up to where it shows, at the end of what is kept or at a null character in
  it, and the null there.  Two arrays are equal in the
  comparisons when they agree up to the first null, and the first difference
  decides the order (a least one exists because the naturals are well-founded).
* **PoolPtr.**  Of the places an object may be in (a PoolPtr, released, freed or
  other threads, leaked) each has at most one, until a `reset(args)` throws.
* **Configuration.**  `layers` grows by a document; the last word of a sequence of
  documents is that of the last one where it says something and that of the others
  where not, which is what the merge into the members does, section by section
  and exchange by exchange.
* **Timestamp.**  The invariant says that the readings are the clocks'.  The rest is
  arithmetic.  A clock that shows whole units shows of a span a unit more or less
  (`SpanShown`), and the difference of two readings of the counter is what it made in
  between, however it wrapped, if a word can hold that (`CounterDifference`).  The two
  divisions, multiplied out, bound what is shown from both sides (`Divided`,
  `ShownAbove`, `ShownBelow`), and what the clocks showed of the calibration is within
  a twentieth of what it took (`Rounded`), hence the tenth (`ShownEnough`,
  `ShownNotTooMuch`).  The readings must be that close: `Undisturbed` is a condition
  of the property, which the code does not check.
* **Price.**  Arithmetic modulo a word.  The provers know nothing
  of powers of two, so that `2^Width` is twice `2^(Width - 1)`, that this is a positive
  number, and that a digit is more than three bits, is assumed by name
  (`WidthAssumption`, `ClockAssumption`, `DigitsAssumption`) and evaluated in the run.
  The powers of ten are a recursive function; that it exists, and hence unfolds, is
  proved (`PowersExist`, `Powers`), as it is of the folds of the loops (`FoldExists`,
  `ScanRun`, `SumRun`).  Both rest on induction over the numbers for sets
  (`Counting`), which needs no operator as a parameter.
  `from_string`: two integers are `Same` when a register keeps the same of them, which
  sums and products preserve, so it does not matter which step wraps around.  A
  character taken in keeps the value, scaled by the places still to come, the same
  as what the characters so far contribute to the number (`IntegerScanned`,
  `FractionScanned`); digits beyond the last place contribute nothing.
  `to_string`: the first digits of a number are worth the number without the others
  (`DigitsWorth`), those left out of a fraction are zeros (`TrailingZeros`), so what
  is printed of a magnitude says that magnitude (`MagnitudePrinted`) and is read back
  by the first theorem.

## 5. What is only model-checked

* Liveness under fairness (`EveryItemDelivered`, `MessagesHandled`,
  `SnapshotHeals`, `RawMessagesReturned`) is out of the prover's reach, as is
  anything about ENABLED.
* The pool when batch allocations overlap with other allocations: it is not safe then
  (`pool_aba`).

No module has a RECURSIVE operator; `RoundUpToPowerOfTwo` states what the code's
doubling loop ends with.

## 6. Abstractions and assumptions

* Boost's red-black tree and hash set are the ordered set and the map they
  promise to be.  Top-of-book queries and iterators are functions of them.
* A message names each price of a side once, as the exchange's updates do; with a
  price twice, `bbo_changes` could count a delta that moves the top and moves it back.
* The threads' accesses interleave one at a time.  For the ring and the free
  list the accesses that matter are acquire/release pairs on one variable;
  `NoSlotRace` says that the plain accesses are ordered by them.
* `BookInSync` is about messages that are complete.  The parser cuts a snapshot at
  20 levels and a delta at 100 entries per side
  (`binance_spot_parser.hpp`, lines 127, 151, 199 and 223); `ImplementsLossyFeed`
  says that this is all that is cut, and for an update that is cut `BookInSync` is not claimed.
* Nothing asks the exchange for a snapshot after a gap
  (`order_book_manager.hpp:187-190`); `SnapshotHeals` speaks of one that comes.
* Pool tags are unbounded in the model and 64 bits in the code: a wrap-around
  within one thread's window is excluded.
* A pool is destroyed after its threads were joined, as its comment requires
  (`memory_pool.hpp:640-648`), so `shutting_down_` is false while threads run;
  clients give back only blocks of the pool, so `owns()` is true.
* In ThreadCache a thread uses the pool no more after it has destroyed it, and
  destroys it when the others have exited.  In Parser a pool with caches may fail
  at any allocation, since the missing objects may be in the caches of others;
  when it really can is `DepletionJustified`.
* What a JSON document contains is what simdjson says it does; a field of another
  type than asked for counts as absent.
* A list in a document is a sequence, and the value that stands for an absent field is
  no event type (`DocumentsAssumption`).
* Signed overflow wraps around in FixedPoint, as `price.hpp` says it does; in the
  language it is undefined.  A division by 0, or of the smallest number by -1, is
  undefined too and not taken.  So it is with the signed differences of `delta_qty`.
* The counter runs at one speed and `steady_clock` shows the true time.  The sleep
  of the calibration takes a nanosecond at least, so `elapsed_ns` is not 0.
* A quantity in a message is `Price::raw_value()`, a signed integer that
  `process_one` converts to an unsigned one (`order_book_manager.hpp:158,205`).  In the
  manager's module quantities are what comes out of that, also in the books of the
  exchange: a negative quantity, should one be sent, counts as the large number its
  bits are.
* What a TOML document contains is what toml++ says; a value of another type than
  asked for counts as absent, as `value<T>()` has it.  Nobody reads a configuration
  while it is loaded.
* Depth 0 is never passed to `set_top_n_depth`; a pool has at least one block.

## 7. Not modelled

* `HugePageAllocator`: `mmap`, `madvise` and `aligned_alloc`, with no state of
  its own.  The platform helpers are compiler hints, `main` prints a banner, the
  example prints a configuration.
* Connectors, control thread and recorder are described by the guide but are not in
  the source.
* JSON decoding is simdjson's, TOML decoding toml++'s, the containers of the book
  are Boost's.
* `rdtscp()` and `rdtsc_ordered()` differ from `rdtsc()` by fences that one thread
  cannot tell apart.  The copy of a frame into a `RawMessage` and the layout of
  messages in memory are bytes no property is about; hence these two parts are
  `partly` modelled.

## 8. Plan

Modelled so far, in this order: the ring, the book and its sides, the manager, the
free list, the thread caches, the parser and its feed, the values, PoolPtr and the
configuration.  Left:

1. **Pipeline**: Parser composed with OrderBookManager on one queue and one pool;
   that the parser's messages are what the manager's model lets arrive, as long as
   nothing is cut.  Until snapshots name their instrument (section 3) the
   composition does nothing either part does not do alone.
2. **Proofs**: everything the runs check of safety is proved; with the pipeline, that the
   parser and the manager together implement a lossy feed of books.
