---------------------------- MODULE MarketMaker ----------------------------
(***************************************************************************)
(* oms::strategies::MarketMakerEngine (src/strategies/market_maker.cpp).   *)
(*                                                                         *)
(* Threads: one market-data updater (updateMarketData), one position       *)
(* updater (updatePosition), the quote thread (generateQuotes), the        *)
(* consumer of quote_buffer_ (getNextQuote) and the host (start/stop).     *)
(*                                                                         *)
(* market_state_ is a plain struct: the updater's `market_state_ =         *)
(* new_state` and the quote thread's `market = market_state_` are copies   *)
(* of one field after another (spec.md 9), so each copy is one step per    *)
(* field the quotes depend on.  inventory_state_ contributes only its      *)
(* position to the quotes; a position is a single double, read and written *)
(* whole.  generateQuoteLevel is one step per call: it re-reads            *)
(* inventory_state_ on each call (line 188).                               *)
(*                                                                         *)
(* Prices are exact rationals.  Volatility needs log and sqrt; the         *)
(* standard deviation of the log-returns is the constant operator StdDev,  *)
(* applied to the sequence of price ratios the code forms.                 *)
(***************************************************************************)
EXTENDS Integers, Sequences, FiniteSets, Rationals

CONSTANTS
  MarketInputs,       \* [bid, ask] prices updateMarketData is called with
  Positions,          \* positions updatePosition is called with
  StdDev(_),          \* sample std deviation of the logs of a ratio sequence
  BaseSpreadBps,      \* config_.base_spread_bps
  MinSpreadBps,       \* config_.min_spread_bps
  MaxSpreadBps,       \* config_.max_spread_bps
  QuoteLevels,        \* config_.quote_levels
  LevelSpacingBps,    \* config_.level_spacing_bps
  MaxInventory,       \* config_.max_inventory
  InventorySkew,      \* config_.inventory_skew (a rational)
  VolatilityFactor,   \* config_.volatility_factor (a rational)
  MaxQuotes,          \* MAX_QUOTES
  HistorySize,        \* PRICE_HISTORY_SIZE
  QuoteSlots,         \* usable slots of quote_buffer_
  MaxMarketUpdates,   \* bound: updateMarketData calls
  MaxPositionUpdates, \* bound: updatePosition calls
  MaxTicks            \* bound: generateQuotes calls

ASSUME MaxInventory > 0 /\ QuoteLevels > 0 /\ MaxQuotes > 0 /\ HistorySize > 1

RZero == Int2Rat(0)
ROne == Int2Rat(1)
RMax(a, b) == IF RLess(a, b) THEN b ELSE a
RMin(a, b) == IF RLess(a, b) THEN a ELSE b
RPositive(a) == a[1] > 0
Bps(n) == Rat(n, 10000)

\* The MarketSnapshot fields the quotes read, in declaration order.
Fields == <<"bid", "ask", "mid", "vol">>
EmptySnapshot == [f \in {"bid", "ask", "mid", "vol"} |-> RZero]
HistIdx == 0 .. HistorySize - 1
QuoteIdx == 0 .. MaxQuotes - 1
Sides == {"BUY", "SELL"}

VARIABLES
  running,          \* running_
  marketState,      \* market_state_
  inventoryState,   \* inventory_state_.position
  marketVersion,    \* market_version_ (and market_updates_, bumped with it)
  inventoryVersion, \* inventory_version_
  priceHistory,     \* price_history_
  priceIndex,       \* price_index_
  mpc,              \* updater: "idle" or storing new_state into market_state_
  mnew,             \* updater: new_state
  mfield,           \* updater: next field of market_state_ to store
  qpc,              \* quote thread: "idle", "copy", "spread", "level", "push"
  qmarket,          \* quote thread: its copy `market`
  qfield,           \* quote thread: next field of market_state_ to copy
  qinventory,       \* quote thread: its copy `inventory` (position)
  qspread,          \* quote thread: spread of the batch
  qcall,            \* quote thread: generateQuoteLevel calls made
  qi,               \* quote thread: index of the push loop
  ticks,            \* generateQuotes calls made
  activeQuotes,     \* active_quotes_
  currentQuotes,    \* current_quotes_
  ring,             \* quote_buffer_ contents, oldest first
  quotesGenerated,  \* quotes_generated_
  built,            \* history: every new_state updateMarketData built
  attempted         \* history: every quote the push loop handed to push

vars == <<running, marketState, inventoryState, marketVersion,
          inventoryVersion, priceHistory, priceIndex, mpc, mnew, mfield, qpc,
          qmarket, qfield, qinventory, qspread, qcall, qi, ticks,
          activeQuotes, currentQuotes, ring, quotesGenerated, built,
          attempted>>

updaterVars == <<marketState, marketVersion, priceHistory, priceIndex, mpc,
                 mnew, mfield, built>>
quoteVars == <<qpc, qmarket, qfield, qinventory, qspread, qcall, qi, ticks,
               activeQuotes, currentQuotes, quotesGenerated, attempted>>

NoQuote == [batch |-> 0, side |-> "BUY", level |-> 0, price |-> RZero,
            market |-> EmptySnapshot, spreadPos |-> 0, skewPos |-> 0]

Init ==
  /\ running = FALSE
  /\ marketState = EmptySnapshot
  /\ inventoryState = 0
  /\ marketVersion = 0
  /\ inventoryVersion = 0
  /\ priceHistory = [i \in HistIdx |-> RZero]
  /\ priceIndex = 0
  /\ mpc = "idle"
  /\ mnew = EmptySnapshot
  /\ mfield = 1
  /\ qpc = "idle"
  /\ qmarket = EmptySnapshot
  /\ qfield = 1
  /\ qinventory = 0
  /\ qspread = RZero
  /\ qcall = 0
  /\ qi = 0
  /\ ticks = 0
  /\ activeQuotes = 0
  /\ currentQuotes = [i \in QuoteIdx |-> NoQuote]
  /\ ring = << >>
  /\ quotesGenerated = 0
  /\ built = {EmptySnapshot}
  /\ attempted = << >>

-----------------------------------------------------------------------------
(* updateMarketData (19-41) *)

\* calculateVolatility (126-151): the ratios of neighbouring array entries
\* (i-1, i) that are both positive, in array order; 0 with fewer than two.
CalculateVolatility(h) ==
  LET pairs == [i \in 1 .. HistorySize - 1 |-> <<h[i - 1], h[i]>>]
      valid == SelectSeq(pairs, LAMBDA p : RPositive(p[1]) /\ RPositive(p[2]))
      ratios == [n \in 1 .. Len(valid) |-> RDiv(valid[n][2], valid[n][1])]
  IN IF Len(valid) < 2 THEN RZero ELSE StdDev(ratios)

\* Lines 21-35: build new_state, take a history slot with fetch_add, store
\* the mid there and compute the volatility.  Only this thread touches the
\* history, so the whole prefix is one step.
UpdateMarketData ==
  /\ mpc = "idle"
  /\ priceIndex < MaxMarketUpdates
  /\ \E q \in MarketInputs :
       LET mid == Rat(q.bid + q.ask, 2)
           h == [priceHistory EXCEPT ![priceIndex % HistorySize] = mid]
       IN /\ priceHistory' = h
          /\ mnew' = [bid |-> Int2Rat(q.bid), ask |-> Int2Rat(q.ask),
                      mid |-> mid, vol |-> CalculateVolatility(h)]
          /\ built' = built \cup {mnew'}
  /\ priceIndex' = priceIndex + 1
  /\ mfield' = 1
  /\ mpc' = "store"
  /\ UNCHANGED <<running, marketState, inventoryState, marketVersion,
                 inventoryVersion, quoteVars, ring>>

\* Line 38, market_state_ = new_state, one field per step; after the last
\* field, lines 39-40 bump market_version_ and market_updates_.
StoreMarketField ==
  /\ mpc = "store"
  /\ LET f == Fields[mfield] IN
       marketState' = [marketState EXCEPT ![f] = mnew[f]]
  /\ IF mfield = Len(Fields)
       THEN /\ mpc' = "idle"
            /\ marketVersion' = marketVersion + 1
            /\ UNCHANGED mfield
       ELSE /\ mfield' = mfield + 1
            /\ UNCHANGED <<mpc, marketVersion>>
  /\ UNCHANGED <<running, inventoryState, inventoryVersion, priceHistory,
                 priceIndex, mnew, built, quoteVars, ring>>

\* updatePosition (43-58): inventory_state_ = new_state and a version
\* bump.  unrealized_pnl, computed from a copy of market_state_, is not
\* read by quote generation and is left out.
UpdatePosition ==
  /\ inventoryVersion < MaxPositionUpdates
  /\ \E p \in Positions : inventoryState' = p
  /\ inventoryVersion' = inventoryVersion + 1
  /\ UNCHANGED <<running, updaterVars, quoteVars, ring>>


-----------------------------------------------------------------------------
(* generateQuotes (60-92) *)

\* getInventorySkew (153-160): 1 + inventory_skew * |position / max_inventory|.
GetInventorySkew(pos) ==
  RAdd(ROne, RMul(InventorySkew, Rat(Abs(pos), MaxInventory)))

\* calculateSpread (106-124): base * (1 + volatility * volatility_factor)
\* * skew, clamped to [min_spread, max_spread].
CalculateSpread(m, pos) ==
  LET volFactor == RAdd(ROne, RMul(m.vol, VolatilityFactor))
      spread == RMul(RMul(Bps(BaseSpreadBps), volFactor), GetInventorySkew(pos))
  IN RMax(Bps(MinSpreadBps), RMin(Bps(MaxSpreadBps), spread))

\* Lines 181-205: the price of one level before and after the inventory
\* skew; both branches of the code move a Sell down and a Buy up.
LevelPrice(side, mid, spread, level, pos) ==
  LET levelSpread == RMul(spread, RAdd(ROne, Bps(level * LevelSpacingBps)))
      price == IF side = "BUY" THEN RMul(mid, RSub(ROne, levelSpread))
                               ELSE RMul(mid, RAdd(ROne, levelSpread))
      a == RMul(Rat(Abs(pos), MaxInventory), RMul(InventorySkew, Rat(1, 2)))
  IN CASE pos > 0 /\ side = "SELL" -> RMul(price, RSub(ROne, a))
       [] pos > 0 /\ side = "BUY"  -> RMul(price, RAdd(ROne, a))
       [] pos < 0 /\ side = "BUY"  -> RMul(price, RAdd(ROne, a))
       [] pos < 0 /\ side = "SELL" -> RMul(price, RSub(ROne, a))
       [] OTHER                    -> price

\* Line 61: a call while stopped returns at once.
QuoteTick ==
  /\ qpc = "idle"
  /\ ticks < MaxTicks
  /\ ticks' = ticks + 1
  /\ IF running THEN /\ qpc' = "copy"
                     /\ qfield' = 1
                ELSE UNCHANGED <<qpc, qfield>>
  /\ UNCHANGED <<running, inventoryState, inventoryVersion, updaterVars,
                 qmarket, qinventory, qspread, qcall, qi, activeQuotes,
                 currentQuotes, quotesGenerated, attempted, ring>>

\* Line 63, market = market_state_, one field per step.
CopyMarketField ==
  /\ qpc = "copy"
  /\ LET f == Fields[qfield] IN
       qmarket' = [qmarket EXCEPT ![f] = marketState[f]]
  /\ IF qfield = Len(Fields)
       THEN /\ qpc' = "spread"
            /\ UNCHANGED qfield
       ELSE /\ qfield' = qfield + 1
            /\ UNCHANGED qpc
  /\ UNCHANGED <<running, inventoryState, inventoryVersion, updaterVars,
                 qinventory, qspread, qcall, qi, ticks, activeQuotes,
                 currentQuotes, quotesGenerated, attempted, ring>>

\* Mutant: active_quotes_ not cleared before the levels.
ComputeSpreadNoReset ==
  /\ qpc = "spread"
  /\ qinventory' = inventoryState
  /\ IF ~(RPositive(qmarket.mid) /\ RPositive(qmarket.bid) /\ RPositive(qmarket.ask))
       THEN /\ qpc' = "idle"
            /\ UNCHANGED <<qspread, qcall>>
       ELSE /\ qspread' = CalculateSpread(qmarket, inventoryState)
            /\ qcall' = 0
            /\ qpc' = "level"
  /\ UNCHANGED <<running, inventoryState, inventoryVersion, updaterVars,
                 qmarket, qfield, qi, ticks, activeQuotes, currentQuotes,
                 quotesGenerated, attempted, ring>>

\* Mutant: quotes generated without market data.
ComputeSpreadNoGuard ==
  /\ qpc = "spread"
  /\ qinventory' = inventoryState
  /\ qspread' = CalculateSpread(qmarket, inventoryState)
  /\ activeQuotes' = 0
  /\ qcall' = 0
  /\ qpc' = "level"
  /\ UNCHANGED <<running, inventoryState, inventoryVersion, updaterVars,
                 qmarket, qfield, qi, ticks, currentQuotes, quotesGenerated,
                 attempted, ring>>

\* Lines 64-75: inventory = inventory_state_; return without market data;
\* the spread; active_quotes_.store(0).
ComputeSpread ==
  /\ qpc = "spread"
  /\ qinventory' = inventoryState
  /\ IF ~(RPositive(qmarket.mid) /\ RPositive(qmarket.bid) /\ RPositive(qmarket.ask))
       THEN /\ qpc' = "idle"
            /\ UNCHANGED <<qspread, qcall, activeQuotes>>
       ELSE /\ qspread' = CalculateSpread(qmarket, inventoryState)
            /\ activeQuotes' = 0
            /\ qcall' = 0
            /\ qpc' = "level"
  /\ UNCHANGED <<running, inventoryState, inventoryVersion, updaterVars,
                 qmarket, qfield, qi, ticks, currentQuotes, quotesGenerated,
                 attempted, ring>>

\* Mutant: the MAX_QUOTES test with > instead of >=.
GenerateQuoteLevelOffByOne ==
  /\ qpc = "level"
  /\ LET side == IF qcall % 2 = 0 THEN "BUY" ELSE "SELL"
         level == qcall \div 2
     IN IF activeQuotes > MaxQuotes
          THEN UNCHANGED <<activeQuotes, currentQuotes>>
          ELSE /\ currentQuotes' = [currentQuotes EXCEPT ![activeQuotes] =
                    [batch |-> ticks, side |-> side, level |-> level,
                     price |-> LevelPrice(side, qmarket.mid, qspread, level,
                                          inventoryState),
                     market |-> qmarket, spreadPos |-> qinventory,
                     skewPos |-> inventoryState]]
               /\ activeQuotes' = activeQuotes + 1
  /\ qcall' = qcall + 1
  /\ IF qcall + 1 = 2 * QuoteLevels THEN /\ qpc' = "push"
                                         /\ qi' = 0
                                    ELSE UNCHANGED <<qpc, qi>>
  /\ UNCHANGED <<running, inventoryState, inventoryVersion, updaterVars,
                 qmarket, qfield, qinventory, qspread, ticks, quotesGenerated,
                 attempted, ring>>

\* Lines 78-84 and generateQuoteLevel (162-206): call number qcall is level
\* qcall \div 2, Buy then Sell.  idx = active_quotes_.fetch_add(1); at
\* MAX_QUOTES the call gives the index back and returns; otherwise it fills
\* current_quotes_[idx], the skew taken from inventory_state_ read anew.
GenerateQuoteLevel ==
  /\ qpc = "level"
  /\ LET side == IF qcall % 2 = 0 THEN "BUY" ELSE "SELL"
         level == qcall \div 2
     IN IF activeQuotes >= MaxQuotes
          THEN UNCHANGED <<activeQuotes, currentQuotes>>
          ELSE /\ currentQuotes' = [currentQuotes EXCEPT ![activeQuotes] =
                    [batch |-> ticks, side |-> side, level |-> level,
                     price |-> LevelPrice(side, qmarket.mid, qspread, level,
                                          inventoryState),
                     market |-> qmarket, spreadPos |-> qinventory,
                     skewPos |-> inventoryState]]
               /\ activeQuotes' = activeQuotes + 1
  /\ qcall' = qcall + 1
  /\ IF qcall + 1 = 2 * QuoteLevels THEN /\ qpc' = "push"
                                         /\ qi' = 0
                                    ELSE UNCHANGED <<qpc, qi>>
  /\ UNCHANGED <<running, inventoryState, inventoryVersion, updaterVars,
                 qmarket, qfield, qinventory, qspread, ticks, quotesGenerated,
                 attempted, ring>>

\* Lines 87-91: push current_quotes_[0 .. active_quotes_-1]; a push into a
\* full ring returns false, and quotes_generated_ counts the quote anyway.
PushQuote ==
  /\ qpc = "push"
  /\ qi < activeQuotes
  /\ ring' = IF Len(ring) < QuoteSlots THEN Append(ring, currentQuotes[qi])
                                       ELSE ring
  /\ quotesGenerated' = quotesGenerated + 1
  /\ attempted' = Append(attempted, currentQuotes[qi])
  /\ qi' = qi + 1
  /\ IF qi + 1 = activeQuotes THEN qpc' = "idle" ELSE UNCHANGED qpc
  /\ UNCHANGED <<running, inventoryState, inventoryVersion, updaterVars,
                 qmarket, qfield, qinventory, qspread, qcall, ticks,
                 activeQuotes, currentQuotes>>

\* getNextQuote (94-96): the consumer pops the oldest quote.
GetNextQuote ==
  /\ ring # << >>
  /\ ring' = Tail(ring)
  /\ UNCHANGED <<running, inventoryState, inventoryVersion, updaterVars,
                 quoteVars>>

\* start (98-100) and stop (102-104).
Start ==
  /\ running' = TRUE
  /\ UNCHANGED <<inventoryState, inventoryVersion, updaterVars, quoteVars, ring>>

Stop ==
  /\ running' = FALSE
  /\ UNCHANGED <<inventoryState, inventoryVersion, updaterVars, quoteVars, ring>>

-----------------------------------------------------------------------------

Next ==
  \/ UpdateMarketData \/ StoreMarketField \/ UpdatePosition
  \/ QuoteTick \/ CopyMarketField \/ ComputeSpread \/ GenerateQuoteLevel
  \/ PushQuote \/ GetNextQuote \/ Start \/ Stop

Spec == Init /\ [][Next]_vars

-----------------------------------------------------------------------------

Snapshot == [{"bid", "ask", "mid", "vol"} -> Rats]
Quote == [batch : 0 .. MaxTicks, side : Sides, level : 0 .. QuoteLevels - 1,
          price : Rats, market : Snapshot, spreadPos : Positions \cup {0},
          skewPos : Positions \cup {0}]

TypeOK ==
  /\ running \in BOOLEAN
  /\ marketState \in Snapshot /\ mnew \in Snapshot /\ qmarket \in Snapshot
  /\ inventoryState \in Positions \cup {0}
  /\ priceHistory \in [HistIdx -> Rats]
  /\ mpc \in {"idle", "store"} /\ mfield \in DOMAIN Fields
  /\ qpc \in {"idle", "copy", "spread", "level", "push"}
  /\ qfield \in DOMAIN Fields
  /\ activeQuotes \in 0 .. MaxQuotes
  /\ currentQuotes \in [QuoteIdx -> Quote]
  /\ Len(ring) <= QuoteSlots
  /\ quotesGenerated = Len(attempted)

\* Every batch generateQuotes hands to the ring is Buy 0, Sell 0, Buy 1,
\* Sell 1, ... in that order, cut at MAX_QUOTES: fetch_add / fetch_sub on
\* active_quotes_ over the level calls, the reset at line 75 and the push
\* loop over active_quotes_ never drop, repeat or reorder a level.
Pattern == [n \in 1 .. 2 * QuoteLevels |->
              <<IF n % 2 = 1 THEN "BUY" ELSE "SELL", (n - 1) \div 2>>]
BatchLength == IF 2 * QuoteLevels < MaxQuotes THEN 2 * QuoteLevels ELSE MaxQuotes
BatchOf(b) == LET qs == SelectSeq(attempted, LAMBDA q : q.batch = b)
              IN [n \in 1 .. Len(qs) |-> <<qs[n].side, qs[n].level>>]
BatchIsLevelPrefix ==
  \A b \in 1 .. ticks :
     LET got == BatchOf(b) IN
       /\ Len(got) <= BatchLength
       /\ got = SubSeq(Pattern, 1, Len(got))
       /\ (b < ticks \/ qpc = "idle") => Len(got) \in {0, BatchLength}

\* No quote is priced at zero or below: generateQuotes returns unless its
\* copy of the snapshot has a positive mid, bid and ask (line 67), and the
\* spread and skew factors stay below one for positions within
\* max_inventory.
QuotePricesPositive ==
  \A n \in 1 .. Len(attempted) : RPositive(attempted[n].price)

\* spec.md 5: quote generation sees a coherent snapshot.  Every quote was
\* priced from one snapshot some updateMarketData call built, not a mix of
\* the fields of two, and skewed by the same position its batch's spread
\* was computed from.
BatchFromCoherentSnapshot ==
  \A n \in 1 .. Len(attempted) :
     /\ attempted[n].market \in built
     /\ attempted[n].skewPos = attempted[n].spreadPos

=============================================================================
