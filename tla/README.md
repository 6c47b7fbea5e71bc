# TLA+ models of the cexoms core

These are TLA+ specifications of the concurrent core of the cexoms order
management system (`src/core`), with TLC configurations that check them.
Each module is translated from the C++ source. Each action is one handler of
the code, or one atomic step of a handler where other threads can interleave
between its steps. `PROJECT.json` lists the components, the runs, the mutants,
the source lines behind every definition (`map`), the findings and the hazards.

## The system

| Part | Source | State | Operations | Threads |
|---|---|---|---|---|
| Ring buffer | `include/ring_buffer.h` | `head`, `tail` (atomics), `buffer_[capacity]`, `mask_` | `push`, `pop`, `size`, `empty`; `next_power_of_two` in the ctor | one producer and one consumer by contract |
| Order manager | `engine/order_manager.cpp/.h` | one `RingBuffer<Order>` per exchange; `orders_` and `exchange_orders_` under a shared_mutex; `next_order_id_`; rate window `last_rate_check_`, `orders_this_second_`; `running_`; statistics | `SubmitOrder`, `CancelOrder`, `UpdateOrder`, `GetOrder`, `GetOrdersByExchange`, `Start`, `Stop`, worker `ProcessingLoop` → `ProcessOrder` / `ProcessCancellation` | client threads, the connector thread (UpdateOrder), one worker, the host (Start/Stop) |
| Aggregated order book | `engine/order_manager.cpp:210-321`, `include/order_manager.h:91-131` | `books_`: symbol → venue → book, under a shared_mutex | `UpdateBook`, `GetAggregatedBook`, `GetBestBidAsk`, `GetBestExchange`, `MergeBooks` | callers |
| Risk engine | `src/risk/risk_engine.cpp/.h` | `positions_[MAX_SYMBOLS]` of atomics (quantity, value, avg_price, realized_pnl), `daily_pnl_`, `open_orders_`, counters, log ring | `checkOrder` (4 gates), `updatePosition`, `updateOrderCount`, `resetDailyPnL`, `start`, `stop` | order-placing callers and fill callbacks, concurrently |
| Arbitrage detector | `src/strategies/arbitrage_detector.cpp/.h` | `symbol_prices_[100][10]` of `PriceFeed`, `exchange_count_` per symbol, `symbol_index_` map, `symbol_count_`, opportunity ring, `running_` | `updatePriceFeed`, `detectOpportunities`, `checkArbitrageOpportunity`, `calculateFee`, `getNextOpportunity`, `start`, `stop` | one writer per upstream pipeline, one detection thread, one consumer |
| Market maker | `src/strategies/market_maker.cpp/.h` | `market_state_`, `inventory_state_` snapshots, price history, quote ring, counters | `updateMarketData`, `updatePosition`, `generateQuotes`, `getNextQuote`; `SpreadCalculator`, `RiskChecker` | market-data thread, fill thread, quote thread |
| Hosts | `engine/main.cpp`, `src/main.cpp` | none of their own | start, print statistics, stop | main thread |

How the parts interact: clients call `OrderManager::SubmitOrder`, which pushes
into the ring of the order's exchange. The worker pops from every ring and
indexes the order. `CancelOrder` goes through the same ring. The connector
reports fills with `UpdateOrder`, directly under the write lock. The risk
engine sits in front of order placement (`checkOrder`, then
`updateOrderCount(+1)` once the order is placed) and behind fills
(`updatePosition`). The arbitrage detector and the market maker take market
data from upstream pipelines and publish opportunities and quotes into their
own SPSC rings. In this repository the hosts only start and stop the engines,
so the interactions between engines are protocols the callers have to
follow. The models take each engine with its callers rather than composing
the engines with one another.

## Modules

| Module | Models | Notes |
|---|---|---|
| `RingQueue` | what a ring promises: a bounded FIFO of capacity − 1 with atomic push and pop | abstract specification |
| `RingBuffer` | `push` split into load head / full check / write slot / publish; `pop` split into empty check / read slot / release; `next_power_of_two` on a `Width`-bit word (RECURSIVE `Smear`); `size` | `Abstract == INSTANCE RingQueue WITH queue <- Occupied`; `Occupied` reads the live slots from the tail the consumer will publish |
| `OrderManager` | client threads in `SubmitOrder` (clock read, window reset, `fetch_add` gate, ring push), `CancelOrder`; the connector's `UpdateOrder`; the worker's loop (`running_` test; for each ring, the pop, and then `ProcessOrder` / `ProcessCancellation` as a step of its own, with the popped order held in `held`); the host's `Start` and `Stop` (clear flag, then join); a clock | rings are abstracted to sequences bounded by `QueueSlots` (justified by `ring_spsc`); history variables record admissions per rate window (keyed by the `last_rate_check_` they counted under) and accepted orders |
| `RiskEngine` + `Rationals` | `checkOrder` with its gates in source order, `updatePosition` with `calculateRealizedPnL` and the avg-price branches, `updateOrderCount`, `start`, `stop`, `resetDailyPnL` | callers place several orders and fill or close them (spec §4.C), so `checkOrder` and `updateOrderCount` interleave; prices are exact rationals because the code uses `double` only to divide |
| `ArbitrageDetector` + `Rationals` | `updatePriceFeed`: symbol lookup or registration (`fetch_add`, then `fetch_sub` above the cap), venue scan, slot claim, one plain store per field; `detectOpportunities` per symbol with the pair loop (RECURSIVE `PairScan`), staleness on unsigned time; `checkArbitrageOpportunity`, `calculateFee`; the opportunity ring and its consumer; `start`, `stop`; a clock | history variables record the quotes each venue published (`requested`, `published`) and the opportunities emitted |
| `MarketMaker` + `Rationals` | `updateMarketData`: history slot, `calculateVolatility`, then `market_state_ = new_state` one field per step and the version bumps; `updatePosition`; `generateQuotes`: the running test, the copy of `market_state_` one field per step, the copy of the position, the early return, `calculateSpread`, the reset of `active_quotes_`, one step per `generateQuoteLevel` call (`fetch_add` and the `MAX_QUOTES` cap, the price, the skew from `inventory_state_` read anew), and one step per push with `quotes_generated_`; `getNextQuote`; `start`, `stop` | quote_buffer_ is a bounded sequence (justified by `ring_spsc`); the standard deviation of log-returns is the constant operator `StdDev`, applied to the price ratios the code forms; quotes carry the snapshot and positions they were priced from |
| `AggregatedOrderBook` | `UpdateBook`, and the readers `GetBestBidAsk` and `GetBestExchange` through `GetAggregatedBook`/`MergeBooks`; each is one step under `book_mutex_`. `GetAggregatedBook` is a set of possible books: any venue iteration order, any tie order `std::sort` (not stable) may leave, any start of the `last_update` maximum (uninitialised in `Book merged;`). `WalkLevels` is the cumulative walk, RECURSIVE | the readers record their answer in `bidAsk`/`bestVenue` until the next `UpdateBook`; the properties compare it with reference definitions that use neither the sort nor the walk |
| `MC*` | model values, small quote and fee tables, the slot function of symbols | one per specification |

`Rationals` has the exact arithmetic of fractions (`<<num, den>>` reduced by
a RECURSIVE gcd) that the risk engine, the detector and the market maker need.

## Runs

Passing runs check a type invariant and the properties that make the
component correct. Each violation run checks one property the spec, a
comment or the code's own intent states, and TLC refutes it. The
counterexample is a finding (see `PROJECT.json`).

| Run | Checks | Shows |
|---|---|---|
| `ring_spsc` (pass) | `TypeOK`, `NextPowerOfTwoCorrect`, `RefinesRingQueue`, `AcceptedEventuallyPopped` | one producer and one consumer interleaved at every atomic access implement the bounded FIFO; `next_power_of_two` is correct for every input 1..2^(Width−1); with the consumer polling, every accepted item is eventually popped |
| `ring_two_producers` | `FifoNoLoss` | two threads pushing into one ring, as concurrent `SubmitOrder` callers for one exchange do, lose an accepted element |
| `om_core` (pass) | `TypeOK`, `RateLimitPerSecond`, `AcceptedOrderConserved`, `AcceptedEventuallyIndexed` | with one client: the rate limit holds across window resets; every accepted order is in exactly one place (its ring, the worker's hands between pop and `ProcessOrder`, or `orders_`) and a rejected one nowhere, also when `Stop` clears `running_` between the pop and `ProcessOrder` and `Start` runs again; connector updates may move an order to any exchange; every accepted order is indexed once the manager is running |
| `om_cancel_after_fill` | `TerminalStatusFinal` | a queued cancel overwrites FILLED with CANCELED |
| `om_rate_double_reset` (violation) | `RateLimitPerSecond` | two `SubmitOrder` callers cross a second boundary; both find the window expired and both reset it, so three orders pass in one second against a limit of two (finding: spec §5 calls the counters atomic, but the reset is check-then-act on a plain `last_rate_check_`) |
| `risk_pnl` | `PnLAccountingIdentity` | a partial reduction re-averages `avg_price`; realized PnL stops matching cash flow plus the cost basis held |
| `arb_core` (pass) | `TypeOK`, `PublishedVenueHasSlot` | with one pipeline, every venue that published keeps exactly one slot and both table limits are honoured, while the detector scans and pushes opportunities |
| `arb_slot_race` | `PublishedVenueHasSlot` | two pipelines adding distinct venues of one symbol claim one slot (contrary to spec §5) |
| `arb_symbol_overrun` | `DetectorIndexInBounds` | with a single writer, as spec §5 allows, a detection pass that loads `symbol_count_` between `getOrCreateSymbolIndex`'s `fetch_add` and its `fetch_sub` reads `symbol_prices_[MAX_SYMBOLS]`, one past the array |
| `book_core` (pass) | `TypeOK`, `BestBidAskIsExtreme`, `BestExchangeAtMarginalPrice` | for every venue order and tie order, the best bid/ask is a level at the highest bid/lowest ask of all venues, and `GetBestExchange` names a venue quoting the marginal price (the best price whose liquidity at or better covers the quantity), the best price if nothing covers it, `BINANCE_SPOT` for an empty side |
| `mm_core` (pass) | `TypeOK`, `BatchIsLevelPrefix`, `QuotePricesPositive` | with both updaters racing the quote thread and a consumer, every batch is Buy 0, Sell 0, Buy 1, ... cut at `MAX_QUOTES` (no level lost, repeated or reordered, even when pushes fail on a full ring), and no quote is priced at zero or below, half-written first snapshot included |
| `mm_torn_snapshot` | `BatchFromCoherentSnapshot` | a quote priced from a mix of two snapshots: the new bid with the old ask and mid, or a level skewed by a position the spread was not computed from (contrary to spec §5) |

For every property of a passing run, `PROJECT.json` names a mutant. A mutant
is an operator that changes one mapped definition the way a plausible bug
would. With it in place, TLC finds that property violated under the run's
own configuration.

## Bounds and why they are enough

- **Ring.** `RequestedSize 3` on a 4-bit word gives capacity 4 and three
  usable slots. Five items push the ring through full, empty and the index
  wrap, twice over. `NextPowerOfTwoCorrect` covers every input of the word.
- **Order manager.** It has two exchanges and `QueueSlots 1`, so a full ring
  is met. `MaxOrdersPerSecond 1` with two operations per client reaches the
  limit. The clock covers two seconds, so the window resets and a second
  order can reach a ring that is still full. Two Starts give
  a restart with orders left in the rings. `MaxUpdates 1` lets the connector
  update one order. `om_rate_double_reset` uses two clients with two
  operations each: with a limit of two, the smallest interleaving that
  exceeds it needs both clients to cross the same second boundary.
- **Risk engine.** `risk_pnl` uses one caller, prices 9 and 10 and
  quantities 1 and 2. That is enough for a position to open, grow, shrink,
  flip and go flat within four orders.
- **Market maker.** Two quote levels a side against `MaxQuotes 3` cut every
  batch. One ring slot makes pushes fail. Three market updates into a
  history of three make the volatility non-zero. Positions +100 and −50
  (max_inventory 100) take both skew branches. Two `generateQuotes` calls
  exercise the reset of `active_quotes_`. Level spacing is 100 bps, because
  TLC's integers are 32-bit and a 2 bps spacing overflows the exact
  fractions; the properties do not depend on the spacing.
- **Aggregated order book.** Two venues of one symbol, each side of a book
  drawn from: empty, one level at 1, one at 2, two levels out of order (so
  the sort has work). Equal prices meet across venues, and the quantities
  1, 2, 4 make the walk stop exactly at a level, stop inside the second
  price, and run off the end. Two clock values and two indeterminate starts
  cover `last_update`. One symbol suffices: symbols never share a book.
- **Arbitrage detector.** Three venues of two symbols go into a table of one
  symbol and two venue slots, so both caps are hit. The two quotes cross
  between venues, so opportunities exist. `StaleAfter 1` with the clock at
  2..3 makes feeds go stale. One opportunity slot makes the ring fill.

Every bound is a named constant of the module, checked in the guards.

## Fairness

`RingBuffer` and `OrderManager` state liveness properties. `RingBuffer`
assumes weak fairness of each step of `pop`: its consumer is the order
manager's worker, described next. Producers may stop pushing.
`OrderManager` assumes weak fairness of the worker's step. The worker thread spins in `ProcessingLoop` while
`running_` is set and never blocks (`std::this_thread::yield` only), so it is
scheduled. No other thread is assumed to make progress. Clients and the
connector may stop calling, and the host may stop the manager; liveness is
asked only of orders accepted while the manager runs.

## Not modelled (yet)

- **SpreadCalculator and RiskChecker.** Nothing in the repository calls
  them. RiskChecker's stop-loss test on a short position (the ratio's sign
  flips) and its eleventh-loss stop (`> 10` against spec §4.E's ten) are
  listed hazards.
- **The market maker's volatility wrap and crossed quotes.** These are listed
  hazards. The wrap needs more updates than the history holds. Crossed
  quotes are what spec §8 scenario 5 prescribes.
- **The merged `last_update`.** It is modelled (an indeterminate start, a
  non-monotonic clock) but no property states spec §4.F's max(ts): no code
  in the repository reads it. It is a listed hazard.
- **Whether opportunities are complete.** The detector skips a feed stamped
  after the pass read the clock (the unsigned wrap at line 85) and drops
  what a full ring cannot take. Spec §4.D allows both, and a later pass
  sees the feed again, so no property asks that every profitable pair is
  emitted. What `arb_core` asks is about the price matrix, not about the
  prices of emitted opportunities: with one writer those are the venue's own
  quotes by construction.
- **`GetOrdersByExchange` after an exchange change.** `UpdateOrder` replaces
  the whole record, so a connector update can move an order to another
  exchange while `exchange_orders_` keeps it under the old one. `om_core`
  explores such updates. Spec §4.B does not say which venue the listing
  should use, so no property asserts either reading.
- **The torn detector feed.** `OpportunityBacked` in `ArbitrageDetector` is
  refuted by one writer republishing a venue during a detection pass, but
  no run checks it: `mm_torn_snapshot` shows the same plain-store tearing
  in the market maker.
- **`GetOrder` / `GetOrdersByExchange`.** These are reads; the torn read of
  a record through the returned `shared_ptr` is a listed hazard.
- **`UpdateLatencyStats`, `SetCPUAffinity`, the log ring, the
  timestamp/latency counters.** Statistics, with no effect on decisions.
  Only the worker writes the latency atomics, so its CAS loops cannot
  fail; a wall-clock step back during `ProcessOrder` (a huge unsigned
  latency) is a listed hazard.
- **The risk engine's load/store races inside `updatePosition`, and hash
  aliasing of symbols.** These are planned: split `updatePosition` at its
  atomic accesses and map two symbols to one slot.
- **The unordered_map `symbol_index_` race.** This is undefined behaviour in
  C++. The model keeps lookup-or-insert as one step.
- **Floating-point rounding.** Prices and fees are exact rationals. The
  properties concern which prices and quantities are combined, not rounding.
- **Two concurrent risk callers.** `checkOrder` tests `open_orders_` and
  `updateOrderCount` raises it later, so two callers can overshoot
  `max_open_orders`. Spec §5 gives each subsystem one mutator thread, so no
  run asks it. The hazard is listed.
- **Hosts.** They only start, print and stop.

## Plan for later sittings

Each remaining question can only be answered by a counterexample, so each
would need a violation run of its own. The twelve runs are all in use, and
each current violation run records a finding. A new question would have to
replace one of them. The single-caller run of `RiskEngine`, whose
`open_orders_` property only restated gate 4, was retired in favour of
`om_rate_double_reset`.

1. `OrderManager`: `GetOrder` readers dereferencing the returned pointer
   while `UpdateOrder` assigns the record (a torn read).
2. `RiskEngine`: `updatePosition` split at its load/store pairs, and two
   symbols sharing one hashed slot. Both need two concurrent mutators or
   aliased symbols. Spec §5 and §9 place these outside the contract or
   list them as a known limitation.
3. `MarketMaker`: `quotes_generated_` against successful pushes, and the
   volatility pairs across the history wrap.
4. `RiskChecker`: the stop-loss sign of a short position and the stop on
   the eleventh loss rather than the tenth.
