-------------------------- MODULE ArbitrageDetector --------------------------
(***************************************************************************)
(* oms::strategies::ArbitrageDetector (src/strategies/                     *)
(* arbitrage_detector.cpp, include/strategies/arbitrage_detector.h).       *)
(*                                                                         *)
(* Writer threads call updatePriceFeed; each writer owns a set of venues   *)
(* (spec.md 5: a single upstream pipeline owns each venue).  One detection *)
(* thread calls detectOpportunities in a loop and pushes what it finds     *)
(* into opportunity_buffer_, from which a consumer calls                   *)
(* getNextOpportunity.                                                     *)
(*                                                                         *)
(* updatePriceFeed is split at its shared-memory accesses: the symbol      *)
(* lookup (symbol_index_ and the symbol_count_ fetch_add), the load of     *)
(* exchange_count with the scan of the venue names, the exchange_count     *)
(* fetch_add, and then one step per field of the PriceFeed it overwrites   *)
(* in place (plain stores), the timestamp last.  The detector handles one  *)
(* symbol per step: it reads that symbol's exchange_count and feeds and    *)
(* pushes what checkArbitrageOpportunity emits for all pairs.              *)
(*                                                                         *)
(* Venues and symbols are model values (the char arrays are compared with  *)
(* strcmp only for equality); prices and quantities are integers and the   *)
(* rates are exact rationals.  The opportunity's id and timestamps are not *)
(* modelled.                                                               *)
(***************************************************************************)
EXTENDS Integers, Sequences, FiniteSets, TLC, Rationals

CONSTANTS
  Writers,          \* threads calling updatePriceFeed
  Owns,             \* Owns[w]: the venues writer w publishes
  Symbols,          \* symbols quoted
  Quotes,           \* [bid, bidQty, ask, askQty] records a venue may publish
  TakerFees,        \* config_.taker_fees: venue -> rate, for some venues
  MinProfitRate,    \* config_.min_profit_rate (a rational)
  MinProfitAmount,  \* config_.min_profit_amount
  MaxPositionSize,  \* config_.max_position_size
  MaxSymbols,       \* MAX_SYMBOLS
  MaxExchanges,     \* MAX_EXCHANGES
  OppSlots,         \* usable slots of opportunity_buffer_ (capacity - 1)
  StaleAfter,       \* the 1 s staleness bound, in clock ticks
  ClockStart,       \* the steady clock when the detector is built
  MaxTime,          \* last clock value explored
  MaxUpdates,       \* updatePriceFeed calls each writer makes
  NoVenue,          \* PriceFeed::exchange of a slot never written ("")
  NoSymbol          \* SymbolPrices::symbol of an entry never written

Venues == UNION {Owns[w] : w \in Writers}

ASSUME \A q \in Quotes : q.ask > 0 /\ q.bid > 0
ASSUME MinProfitAmount > 0 /\ MaxPositionSize > 0
ASSUME NoVenue \notin Venues /\ NoSymbol \notin Symbols
\* A slot written for the first time still has timestamp_ns 0, and so an
\* ask of 0, until its last store; the clock starts late enough that such
\* a feed is stale and never reaches the division by buy.ask_price.
ASSUME ClockStart > StaleAfter

SymIdx == 0 .. MaxSymbols - 1
ExIdx == 0 .. MaxExchanges - 1

\* The fields of PriceFeed in the order updatePriceFeed stores them
\* (arbitrage_detector.cpp:52-58; the feed's own symbol copy is never read).
Fields == <<"venue", "bid", "bidQty", "ask", "askQty", "ts">>

\* PriceFeed::PriceFeed(): empty names, zero prices and timestamp.
EmptyFeed == [venue |-> NoVenue, bid |-> 0, bidQty |-> 0, ask |-> 0,
              askQty |-> 0, ts |-> 0]

VARIABLES
  now,            \* steady_clock::now()
  running,        \* running_
  symbolIndex,    \* symbol_index_: symbol -> index (a function, grows)
  symbolCount,    \* symbol_count_
  symName,        \* symbol_prices_[i].symbol
  exchangeCount,  \* symbol_prices_[i].exchange_count
  feeds,          \* symbol_prices_[i].feeds[j]
  processed,      \* processed_prices_
  wpc,            \* each writer: "idle", "undo", "scan", "claim", "write"
  wreq,           \* the call's arguments: [venue, symbol, quote]
  widx,           \* sym_idx of the call
  wex,            \* exchange_idx of the call
  wfield,         \* the next field of Fields the call stores
  updates,        \* calls each writer has made
  dpc,            \* detector: "idle" or "scan"
  dcur,           \* current_time of the pass
  dcount,         \* sym_count of the pass
  dsym,           \* sym_idx of the pass
  ring,           \* opportunity_buffer_ contents, oldest first
  requested,      \* history: <<venue, symbol, quote>> of every call made
  published,      \* history: <<venue, symbol, quote>> of completed calls
  emitted         \* history: every opportunity pushed

vars == <<now, running, symbolIndex, symbolCount, symName, exchangeCount,
          feeds, processed, wpc, wreq, widx, wex, wfield, updates, dpc, dcur,
          dcount, dsym, ring, requested, published, emitted>>

matrixVars == <<symbolIndex, symbolCount, symName, exchangeCount, feeds,
                processed>>
writerVars == <<wpc, wreq, widx, wex, wfield, updates>>
detectorVars == <<dpc, dcur, dcount, dsym>>

Init ==
  /\ now = ClockStart
  /\ running = FALSE
  /\ symbolIndex = << >>
  /\ symbolCount = 0
  /\ symName = [i \in SymIdx |-> NoSymbol]
  /\ exchangeCount = [i \in SymIdx |-> 0]
  /\ feeds = [i \in SymIdx |-> [j \in ExIdx |-> EmptyFeed]]
  /\ processed = 0
  /\ wpc = [w \in Writers |-> "idle"]
  /\ wreq = [w \in Writers |-> [venue |-> NoVenue, symbol |-> NoSymbol,
                                quote |-> CHOOSE q \in Quotes : TRUE]]
  /\ widx = [w \in Writers |-> 0]
  /\ wex = [w \in Writers |-> 0]
  /\ wfield = [w \in Writers |-> 1]
  /\ updates = [w \in Writers |-> 0]
  /\ dpc = "idle"
  /\ dcur = 0
  /\ dcount = 0
  /\ dsym = 0
  /\ ring = << >>
  /\ requested = {}
  /\ published = {}
  /\ emitted = {}

-----------------------------------------------------------------------------
(* updatePriceFeed (arbitrage_detector.cpp:17-61) with                     *)
(* getOrCreateSymbolIndex (185-209).                                       *)

\* The call starts; getOrCreateSymbolIndex finds the symbol, or takes the
\* next index with symbol_count_.fetch_add and registers the symbol under
\* it, or (index past MAX_SYMBOLS) must give the index back.  Concurrent
\* use of the unordered_map symbol_index_ is not modelled: the lookup and
\* the insert are one step.
UpdatePriceFeedBegin(w) ==
  /\ wpc[w] = "idle"
  /\ updates[w] < MaxUpdates
  /\ updates' = [updates EXCEPT ![w] = @ + 1]
  /\ \E v \in Owns[w], s \in Symbols, q \in Quotes :
       /\ wreq' = [wreq EXCEPT ![w] = [venue |-> v, symbol |-> s, quote |-> q]]
       /\ requested' = requested \cup {<<v, s, q>>}
       /\ IF s \in DOMAIN symbolIndex
            THEN /\ widx' = [widx EXCEPT ![w] = symbolIndex[s]]
                 /\ wpc' = [wpc EXCEPT ![w] = "scan"]
                 /\ UNCHANGED <<symbolIndex, symbolCount, symName>>
            ELSE /\ symbolCount' = symbolCount + 1
                 /\ widx' = [widx EXCEPT ![w] = symbolCount]
                 /\ IF symbolCount >= MaxSymbols
                      THEN /\ wpc' = [wpc EXCEPT ![w] = "undo"]
                           /\ UNCHANGED <<symbolIndex, symName>>
                      ELSE /\ symName' = [symName EXCEPT ![symbolCount] = s]
                           /\ symbolIndex' = symbolIndex @@ (s :> symbolCount)
                           /\ wpc' = [wpc EXCEPT ![w] = "scan"]
  /\ UNCHANGED <<now, running, exchangeCount, feeds, processed, wex, wfield,
                 detectorVars, ring, published, emitted>>

\* symbol_count_.fetch_sub(1); return MAX_SYMBOLS, and updatePriceFeed
\* returns: the symbol limit is reached.
UndoSymbolCount(w) ==
  /\ wpc[w] = "undo"
  /\ symbolCount' = symbolCount - 1
  /\ wpc' = [wpc EXCEPT ![w] = "idle"]
  /\ UNCHANGED <<now, running, symbolIndex, symName, exchangeCount, feeds,
                 processed, wreq, widx, wex, wfield, updates, detectorVars,
                 ring, requested, published, emitted>>

\* Mutant: the linear search stops one slot short of count.
ScanExchangesShortSearch(w) ==
  /\ wpc[w] = "scan"
  /\ LET i == widx[w]
         count == exchangeCount[i]
         found == {j \in 0 .. count - 2 :
                     j \in ExIdx /\ feeds[i][j].venue = wreq[w].venue}
     IN /\ IF found # {}
             THEN /\ wex' = [wex EXCEPT ![w] = CHOOSE j \in found :
                                                 \A k \in found : j <= k]
                  /\ wfield' = [wfield EXCEPT ![w] = 1]
                  /\ wpc' = [wpc EXCEPT ![w] = "write"]
             ELSE IF count < MaxExchanges
                    THEN /\ wex' = [wex EXCEPT ![w] = count]
                         /\ wpc' = [wpc EXCEPT ![w] = "claim"]
                         /\ UNCHANGED wfield
                    ELSE /\ wpc' = [wpc EXCEPT ![w] = "idle"]
                         /\ UNCHANGED <<wex, wfield>>
  /\ UNCHANGED <<now, running, matrixVars, wreq, widx, updates, detectorVars,
                 ring, requested, published, emitted>>

\* Mutant: the venue limit tested with <= instead of <.
ScanExchangesOffByOne(w) ==
  /\ wpc[w] = "scan"
  /\ LET i == widx[w]
         count == exchangeCount[i]
         found == {j \in 0 .. count - 1 :
                     j \in ExIdx /\ feeds[i][j].venue = wreq[w].venue}
     IN /\ IF found # {}
             THEN /\ wex' = [wex EXCEPT ![w] = CHOOSE j \in found :
                                                 \A k \in found : j <= k]
                  /\ wfield' = [wfield EXCEPT ![w] = 1]
                  /\ wpc' = [wpc EXCEPT ![w] = "write"]
             ELSE IF count <= MaxExchanges
                    THEN /\ wex' = [wex EXCEPT ![w] = count]
                         /\ wpc' = [wpc EXCEPT ![w] = "claim"]
                         /\ UNCHANGED wfield
                    ELSE /\ wpc' = [wpc EXCEPT ![w] = "idle"]
                         /\ UNCHANGED <<wex, wfield>>
  /\ UNCHANGED <<now, running, matrixVars, wreq, widx, updates, detectorVars,
                 ring, requested, published, emitted>>

\* count = exchange_count.load(); the linear search of feeds[0 .. count-1]
\* for the venue; a venue not found gets slot count if count is below
\* MAX_EXCHANGES, otherwise the call returns.  A count past MAX_EXCHANGES
\* makes the search read past feeds (undefined behaviour; not followed).
ScanExchanges(w) ==
  /\ wpc[w] = "scan"
  /\ LET i == widx[w]
         count == exchangeCount[i]
         found == {j \in 0 .. count - 1 :
                     j \in ExIdx /\ feeds[i][j].venue = wreq[w].venue}
     IN /\ IF found # {}
             THEN /\ wex' = [wex EXCEPT ![w] = CHOOSE j \in found :
                                                 \A k \in found : j <= k]
                  /\ wfield' = [wfield EXCEPT ![w] = 1]
                  /\ wpc' = [wpc EXCEPT ![w] = "write"]
             ELSE IF count < MaxExchanges
                    THEN /\ wex' = [wex EXCEPT ![w] = count]
                         /\ wpc' = [wpc EXCEPT ![w] = "claim"]
                         /\ UNCHANGED wfield
                    ELSE /\ wpc' = [wpc EXCEPT ![w] = "idle"]
                         /\ UNCHANGED <<wex, wfield>>
  /\ UNCHANGED <<now, running, matrixVars, wreq, widx, updates, detectorVars,
                 ring, requested, published, emitted>>

\* exchange_count.fetch_add(1): the slot read as count is claimed.
ClaimSlot(w) ==
  /\ wpc[w] = "claim"
  /\ exchangeCount' = [exchangeCount EXCEPT ![widx[w]] = @ + 1]
  /\ wfield' = [wfield EXCEPT ![w] = 1]
  /\ wpc' = [wpc EXCEPT ![w] = "write"]
  /\ UNCHANGED <<now, running, symbolIndex, symbolCount, symName, feeds,
                 processed, wreq, widx, wex, updates, detectorVars, ring,
                 requested, published, emitted>>

\* The value the call stores into field f of the slot.
FieldValue(w, f) ==
  LET q == wreq[w].quote IN
  CASE f = "venue"  -> wreq[w].venue
    [] f = "bid"    -> q.bid
    [] f = "bidQty" -> q.bidQty
    [] f = "ask"    -> q.ask
    [] f = "askQty" -> q.askQty
    [] f = "ts"     -> now

\* One plain store into feeds[exchange_idx]; after the timestamp,
\* processed_prices_.fetch_add(1) and the call returns.
WriteField(w) ==
  /\ wpc[w] = "write"
  /\ LET f == Fields[wfield[w]] IN
       /\ feeds' = [feeds EXCEPT ![widx[w]][wex[w]][f] = FieldValue(w, f)]
       /\ IF f = "ts"
            THEN /\ processed' = processed + 1
                 /\ wpc' = [wpc EXCEPT ![w] = "idle"]
                 /\ published' = published \cup
                      {<<wreq[w].venue, wreq[w].symbol, wreq[w].quote>>}
                 /\ UNCHANGED wfield
            ELSE /\ wfield' = [wfield EXCEPT ![w] = @ + 1]
                 /\ UNCHANGED <<processed, wpc, published>>
  /\ UNCHANGED <<now, running, symbolIndex, symbolCount, symName,
                 exchangeCount, wreq, widx, wex, updates, detectorVars, ring,
                 requested, emitted>>

-----------------------------------------------------------------------------
(* checkArbitrageOpportunity (arbitrage_detector.cpp:105-171) with         *)
(* calculateFee (211-226): buy on `buy` at its ask, sell on `sell` at its  *)
(* bid.  A feed whose ask is still 0 is one whose slot is being written    *)
(* for the first time; its timestamp is still 0, so the pair loops skip it *)
(* as stale (ASSUME ClockStart > StaleAfter) before any division by it.    *)

\* calculateFee(exchange, price, true): the venue's taker rate, 0.1% if the
\* venue has none.
TakerRate(v) == IF v \in DOMAIN TakerFees THEN TakerFees[v] ELSE Rat(1, 1000)
CalculateFee(v, price) == RMulInt(TakerRate(v), price)

MinInt(a, b) == IF a <= b THEN a ELSE b

\* The opportunity the check builds (lines 130-165).
Opportunity(sym, buy, sell) ==
  LET edge == sell.bid - buy.ask
      fees == RAdd(CalculateFee(buy.venue, buy.ask), CalculateFee(sell.venue, sell.bid))
      q0 == MinInt(buy.askQty, sell.bidQty)
      qty == IF q0 * buy.ask > MaxPositionSize THEN Rat(MaxPositionSize, buy.ask)
                                               ELSE Int2Rat(q0)
  IN [symbol |-> sym, buy |-> buy.venue, sell |-> sell.venue,
      buyPrice |-> buy.ask, sellPrice |-> sell.bid, maxQty |-> qty,
      rate |-> RSub(Rat(edge, buy.ask), RDiv(fees, Int2Rat(buy.ask))),
      netProfit |-> RSub(RMulInt(qty, edge), RMul(qty, fees))]

\* The early returns of the check (lines 108-145), in their order.
Profitable(buy, sell) ==
  /\ sell.bid - buy.ask > 0
  /\ ~RLess(Rat(sell.bid - buy.ask, buy.ask), MinProfitRate)
  /\ LET o == Opportunity(NoSymbol, buy, sell) IN
       /\ ~RLess(o.rate, MinProfitRate)
       /\ ~RLess(o.netProfit, Int2Rat(MinProfitAmount))

CheckArbitrageOpportunity(sym, buy, sell) ==
  IF Profitable(buy, sell) THEN << Opportunity(sym, buy, sell) >> ELSE << >>

-----------------------------------------------------------------------------
(* detectOpportunities (arbitrage_detector.cpp:63-103).                    *)

\* current_time - timestamp_ns > 1 s on unsigned words: a feed stamped
\* after current_time was read wraps around and is skipped as well.
IsStale(cur, f) == f.ts > cur \/ cur - f.ts > StaleAfter

\* What the pair loops of one symbol emit, in loop order: for i < j, both
\* fresh, the check of (i, j) and then of (j, i).
RECURSIVE PairScan(_, _, _, _, _, _)
PairScan(sym, row, count, cur, i, j) ==
  IF i >= count THEN << >>
  ELSE IF IsStale(cur, row[i]) \/ j >= count
         THEN PairScan(sym, row, count, cur, i + 1, i + 2)
  ELSE (IF IsStale(cur, row[j]) THEN << >>
        ELSE CheckArbitrageOpportunity(sym, row[i], row[j]) \o
             CheckArbitrageOpportunity(sym, row[j], row[i]))
       \o PairScan(sym, row, count, cur, i, j + 1)

\* if (!running_) return; current_time and sym_count are read.
DetectBegin ==
  /\ dpc = "idle"
  /\ running
  /\ dcur' = now
  /\ dcount' = symbolCount
  /\ dsym' = 0
  /\ dpc' = "scan"
  /\ UNCHANGED <<now, running, matrixVars, writerVars, ring,
                 requested, published, emitted>>

\* One pass of the symbol loop.  Reading symbol_prices_[sym_idx] with
\* sym_idx past MAX_SYMBOLS, or feeds[i] with i past MAX_EXCHANGES, reads
\* outside the arrays; the pass is not followed further then.  Pushes stop
\* succeeding when the ring is full (nothing pops inside the step); each
\* successful push counts in detected_count_, a statistic not modelled.
DetectSymbol ==
  /\ dpc = "scan"
  /\ dsym < dcount
  /\ IF dsym >= MaxSymbols \/ exchangeCount[dsym] > MaxExchanges
       THEN /\ dpc' = "idle"
            /\ UNCHANGED <<dsym, ring, emitted>>
       ELSE LET count == exchangeCount[dsym]
                found == IF count < 2 THEN << >>
                         ELSE PairScan(symName[dsym], feeds[dsym], count,
                                       dcur, 0, 1)
                k == MinInt(Len(found), OppSlots - Len(ring))
                pushed == SubSeq(found, 1, k)
            IN /\ ring' = ring \o pushed
               /\ emitted' = emitted \cup {pushed[n] : n \in 1 .. k}
               /\ dsym' = dsym + 1
               /\ UNCHANGED dpc
  /\ UNCHANGED <<now, running, matrixVars, writerVars, dcur, dcount,
                 requested, published>>

\* The symbol loop ends.
DetectEnd ==
  /\ dpc = "scan"
  /\ dsym >= dcount
  /\ dpc' = "idle"
  /\ UNCHANGED <<now, running, matrixVars, writerVars, dcur, dcount, dsym,
                 ring, requested, published, emitted>>

\* getNextOpportunity (173-175): the consumer pops the oldest opportunity.
GetNextOpportunity ==
  /\ ring # << >>
  /\ ring' = Tail(ring)
  /\ UNCHANGED <<now, running, matrixVars, writerVars, detectorVars,
                 requested, published, emitted>>

\* start() and stop() (177-183) store running_.
Start ==
  /\ ~running
  /\ running' = TRUE
  /\ UNCHANGED <<now, matrixVars, writerVars, detectorVars, ring,
                 requested, published, emitted>>

Stop ==
  /\ running
  /\ running' = FALSE
  /\ UNCHANGED <<now, matrixVars, writerVars, detectorVars, ring,
                 requested, published, emitted>>

\* The steady clock advances.
Tick ==
  /\ now < MaxTime
  /\ now' = now + 1
  /\ UNCHANGED <<running, matrixVars, writerVars, detectorVars, ring,
                 requested, published, emitted>>

Next ==
  \/ \E w \in Writers :
       \/ UpdatePriceFeedBegin(w) \/ UndoSymbolCount(w) \/ ScanExchanges(w)
       \/ ClaimSlot(w) \/ WriteField(w)
  \/ DetectBegin \/ DetectSymbol \/ DetectEnd
  \/ GetNextOpportunity
  \/ Start \/ Stop \/ Tick

Spec == Init /\ [][Next]_vars

-----------------------------------------------------------------------------

Feed == [venue : Venues \cup {NoVenue}, bid : Nat, bidQty : Nat, ask : Nat,
         askQty : Nat, ts : Nat]

TypeOK ==
  /\ now \in ClockStart .. MaxTime /\ running \in BOOLEAN
  /\ symbolCount \in Nat
  /\ exchangeCount \in [SymIdx -> Nat]
  /\ feeds \in [SymIdx -> [ExIdx -> Feed]]
  /\ wpc \in [Writers -> {"idle", "undo", "scan", "claim", "write"}]
  /\ wex \in [Writers -> ExIdx]
  /\ wfield \in [Writers -> DOMAIN Fields]
  /\ dpc \in {"idle", "scan"}
  /\ Len(ring) <= OppSlots

\* The price matrix (spec.md 2) keeps one slot for every venue whose update
\* completed: after updatePriceFeed(v, s, ...) returned, exactly one of the
\* first exchange_count feeds of s carries v's name, so detectOpportunities
\* sees v's latest prices from then on and never pairs v with an older
\* quote of its own.
PublishedVenueHasSlot ==
  \A r \in published :
     /\ r[2] \in DOMAIN symbolIndex
     /\ LET i == symbolIndex[r[2]]
            slots == {j \in 0 .. exchangeCount[i] - 1 :
                        j \in ExIdx /\ feeds[i][j].venue = r[1]}
        IN Cardinality(slots) = 1

\* detectOpportunities (arbitrage_detector.cpp:69-72) indexes
\* symbol_prices_[sym_idx] only below MAX_SYMBOLS: the sym_count it loads
\* never exceeds the array, even while getOrCreateSymbolIndex (195-197)
\* has raised symbol_count_ by fetch_add and not yet lowered it again.
DetectorIndexInBounds ==
  (dpc = "scan" /\ dsym < dcount) => dsym < MaxSymbols

\* Every opportunity pushed is the one checkArbitrageOpportunity computes
\* from two quotes the venues published whole: its quantity and profit are
\* not made of the fields of two different quotes of one venue.
FeedOf(r) == [venue |-> r[1], bid |-> r[3].bid, bidQty |-> r[3].bidQty,
              ask |-> r[3].ask, askQty |-> r[3].askQty, ts |-> 0]
OpportunityBacked ==
  \A o \in emitted :
     \E rb, rs \in requested :
        /\ rb[2] = o.symbol /\ rs[2] = o.symbol
        /\ o = Opportunity(o.symbol, FeedOf(rb), FeedOf(rs))

=============================================================================
