------------------------- MODULE AggregatedOrderBook -------------------------
(***************************************************************************)
(* AggregatedOrderBook of include/order_manager.h and                      *)
(* engine/order_manager.cpp: one book per (symbol, venue), written by      *)
(* UpdateBook under the unique lock of book_mutex_, and read by            *)
(* GetBestBidAsk and GetBestExchange, each of which takes the shared lock  *)
(* once, inside GetAggregatedBook.  Every operation is therefore one       *)
(* atomic step.                                                            *)
(*                                                                         *)
(* GetAggregatedBook is not a function of the books: the venues come out   *)
(* of the unordered_map in an unspecified order, std::sort is not stable,  *)
(* so levels of equal price may end up in any order, and MergeBooks starts *)
(* the latest-update maximum from `Book merged;`, whose last_update (a     *)
(* std::chrono::microseconds) is default-initialised and so indeterminate. *)
(* The model lets GetAggregatedBook return any of the books these choices  *)
(* allow.  Prices and quantities (doubles) are small integers; num_orders  *)
(* is never read and is left out.                                          *)
(***************************************************************************)
EXTENDS Integers, Sequences, SequencesExt

CONSTANTS
    Exchanges,       \* the ExchangeType values books are published for
    Symbols,         \* symbols
    BINANCE_SPOT,    \* the venue of the sentinels and of the fallback answer
    SideInputs,      \* sequences of [price, quantity] a connector passes as bids or asks
    Times,           \* values system_clock::now() may return (it is not monotonic)
    Indeterminate,   \* values an uninitialised Book::last_update may hold
    MaxPrice,        \* std::numeric_limits<Price>::max()
    QueryQuantities, \* quantities GetBestExchange is asked for
    NoQuery          \* no query answered since the last update

ASSUME BINANCE_SPOT \in Exchanges
ASSUME \A s \in SideInputs : \A i \in DOMAIN s : s[i].price < MaxPrice

Sides == {"BUY", "SELL"}

VARIABLES
    books,      \* books_: symbol -> (venue -> Book), a venue present once updated
    bidAsk,     \* answer of the last GetBestBidAsk since the last UpdateBook
    bestVenue   \* answer of the last GetBestExchange since the last UpdateBook

vars == <<books, bidAsk, bestVenue>>

Level == [price : Int, quantity : Int, exchange : Exchanges]

\* The vector of levels a connector hands over for venue e.
Tag(side, e) ==
    [i \in 1..Len(side) |->
        [price |-> side[i].price, quantity |-> side[i].quantity, exchange |-> e]]

BidsBefore(a, b) == a.price > b.price
AsksBefore(a, b) == a.price < b.price

\* The arrangements std::sort may leave one side's levels in under that
\* side's comparator: a permutation in which no later element compares
\* before an earlier one.
StdSort(levels, side) ==
    LET comp(x, y) == IF side = "bids" THEN BidsBefore(x, y) ELSE AsksBefore(x, y)
    IN  { arr \in { [i \in 1..Len(levels) |-> levels[p[i]]] : p \in Permutations(1..Len(levels)) } :
            IsSorted(arr, LAMBDA x, y : ~comp(y, x)) }

\* Mutant: bids sorted with the ask comparator (ascending).
MergeBooksBidsAscending(bks) ==
    LET allBids == FoldLeft(LAMBDA acc, bk : acc \o bk.bids, <<>>, bks)
        allAsks == FoldLeft(LAMBDA acc, bk : acc \o bk.asks, <<>>, bks)
        Latest(g) == FoldLeft(LAMBDA m, bk : IF bk.last_update > m THEN bk.last_update ELSE m, g, bks)
    IN  { [bids |-> b, asks |-> a, last_update |-> Latest(g)] :
            b \in StdSort(allBids, "asks"),
            a \in StdSort(allAsks, "asks"),
            g \in Indeterminate }

\* MergeBooks over exchange_books: concatenate every venue's side, sort it,
\* and take the latest last_update starting from the indeterminate one.
MergeBooks(bks) ==
    LET allBids == FoldLeft(LAMBDA acc, bk : acc \o bk.bids, <<>>, bks)
        allAsks == FoldLeft(LAMBDA acc, bk : acc \o bk.asks, <<>>, bks)
        Latest(g) == FoldLeft(LAMBDA m, bk : IF bk.last_update > m THEN bk.last_update ELSE m, g, bks)
    IN  { [bids |-> b, asks |-> a, last_update |-> Latest(g)] :
            b \in StdSort(allBids, "bids"),
            a \in StdSort(allAsks, "asks"),
            g \in Indeterminate }

\* GetAggregatedBook: Book{} (value-initialised) for an unknown symbol,
\* otherwise MergeBooks over the venues in any iteration order.
GetAggregatedBook(s) ==
    IF DOMAIN books[s] = {}
    THEN { [bids |-> <<>>, asks |-> <<>>, last_update |-> 0] }
    ELSE UNION { MergeBooks([i \in DOMAIN o |-> books[s][o[i]]]) :
                    o \in SetToSeqs(DOMAIN books[s]) }

NoBid == [price |-> 0, quantity |-> 0, exchange |-> BINANCE_SPOT]
NoAsk == [price |-> MaxPrice, quantity |-> 0, exchange |-> BINANCE_SPOT]

\* Mutant: the walk stops only once the cumulative quantity exceeds quantity.
RECURSIVE WalkLevelsStrict(_, _, _, _)
WalkLevelsStrict(levels, i, cumulative, quantity) ==
    IF i > Len(levels) THEN levels[1].exchange
    ELSE IF cumulative + levels[i].quantity > quantity THEN levels[i].exchange
    ELSE WalkLevelsStrict(levels, i + 1, cumulative + levels[i].quantity, quantity)

\* The walk of GetBestExchange over one side of the merged book: the venue
\* of the first level at which the cumulative quantity reaches quantity,
\* else the venue of the front level.
RECURSIVE WalkLevels(_, _, _, _)
WalkLevels(levels, i, cumulative, quantity) ==
    IF i > Len(levels) THEN levels[1].exchange
    ELSE IF cumulative + levels[i].quantity >= quantity THEN levels[i].exchange
    ELSE WalkLevels(levels, i + 1, cumulative + levels[i].quantity, quantity)

BestExchangeOf(book, side, quantity) ==
    IF side = "BUY" /\ book.asks # <<>> THEN WalkLevels(book.asks, 1, 0, quantity)
    ELSE IF side = "SELL" /\ book.bids # <<>> THEN WalkLevels(book.bids, 1, 0, quantity)
    ELSE BINANCE_SPOT

Init ==
    /\ books = [s \in Symbols |-> [e \in {} |-> NoBid]]
    /\ bidAsk = NoQuery
    /\ bestVenue = NoQuery

\* Mutant: the new levels are appended to the stored ones instead of
\* replacing them.
UpdateBookAppend(e, s) ==
    /\ \E b, a \in SideInputs, t \in Times :
          LET old == IF e \in DOMAIN books[s] THEN books[s][e]
                     ELSE [bids |-> <<>>, asks |-> <<>>, last_update |-> 0]
          IN  books' = [books EXCEPT ![s] =
                          (e :> [bids |-> old.bids \o Tag(b, e), asks |-> old.asks \o Tag(a, e),
                                 last_update |-> t]) @@ @]
    /\ bidAsk' = NoQuery
    /\ bestVenue' = NoQuery

\* UpdateBook: books_[symbol][exchange] is created if absent and its bids,
\* asks and last_update (system_clock::now()) are replaced.
UpdateBook(e, s) ==
    /\ \E b, a \in SideInputs, t \in Times :
          books' = [books EXCEPT ![s] =
                      (e :> [bids |-> Tag(b, e), asks |-> Tag(a, e), last_update |-> t]) @@ @]
    /\ bidAsk' = NoQuery
    /\ bestVenue' = NoQuery

\* GetBestBidAsk: the front of each merged side, or the sentinels.
GetBestBidAsk(s) ==
    /\ \E book \in GetAggregatedBook(s) :
          bidAsk' = [symbol |-> s,
                     bid |-> IF book.bids = <<>> THEN NoBid ELSE Head(book.bids),
                     ask |-> IF book.asks = <<>> THEN NoAsk ELSE Head(book.asks)]
    /\ UNCHANGED <<books, bestVenue>>

GetBestExchange(s, side, quantity) ==
    /\ \E book \in GetAggregatedBook(s) :
          bestVenue' = [symbol |-> s, side |-> side, quantity |-> quantity,
                        venue |-> BestExchangeOf(book, side, quantity)]
    /\ UNCHANGED <<books, bidAsk>>

Next ==
    \/ \E e \in Exchanges, s \in Symbols : UpdateBook(e, s)
    \/ \E s \in Symbols : GetBestBidAsk(s)
    \/ \E s \in Symbols, side \in Sides, q \in QueryQuantities : GetBestExchange(s, side, q)

Spec == Init /\ [][Next]_vars

-----------------------------------------------------------------------------
(* Reference definitions, independent of the merge and of the walk.         *)

\* Every level the venues of symbol s quote on one side ("bids" or "asks").
VenueLevels(s, side) ==
    FoldLeft(LAMBDA acc, e : acc \o books[s][e][side], <<>>, SetToSeq(DOMAIN books[s]))

\* The quantity of the levels satisfying P, counting repeated levels.
Depth(levels, P(_)) ==
    FoldLeft(LAMBDA acc, l : IF P(l) THEN acc + l.quantity ELSE acc, 0, levels)

MaxLevels == Max({Len(side) : side \in SideInputs})

LevelOf(e) ==
    LET input == UNION {ToSet(side) : side \in SideInputs}
    IN  [price : {l.price : l \in input}, quantity : {l.quantity : l \in input}, exchange : {e}]

TypeOK ==
    /\ \A s \in Symbols : \A e \in DOMAIN books[s] :
          /\ e \in Exchanges
          /\ books[s][e] \in [bids : BoundedSeq(LevelOf(e), MaxLevels),
                              asks : BoundedSeq(LevelOf(e), MaxLevels),
                              last_update : Times]
    /\ bidAsk \in {NoQuery} \cup [symbol : Symbols, bid : Level, ask : Level]
    /\ bestVenue \in {NoQuery} \cup
          [symbol : Symbols, side : Sides, quantity : QueryQuantities, venue : Exchanges]

\* GetBestBidAsk answers, across all venues, a level carrying the highest
\* bid and one carrying the lowest ask (the sentinels when no venue quotes
\* that side), whatever order the venues were merged in: the comparators
\* MergeBooks hands to std::sort must put the best price first.
BestBidAskIsExtreme ==
    bidAsk # NoQuery =>
        LET bids == ToSet(VenueLevels(bidAsk.symbol, "bids"))
            asks == ToSet(VenueLevels(bidAsk.symbol, "asks"))
        IN  /\ IF bids = {} THEN bidAsk.bid = NoBid
                ELSE bidAsk.bid \in bids /\ \A l \in bids : l.price <= bidAsk.bid.price
            /\ IF asks = {} THEN bidAsk.ask = NoAsk
                ELSE bidAsk.ask \in asks /\ \A l \in asks : l.price >= bidAsk.ask.price

\* GetBestExchange(symbol, side, qty) names a venue quoting the marginal
\* price: the best price p such that the liquidity at p or better across all
\* venues covers qty.  When all venues together cannot cover qty it names a
\* venue quoting the best price, and when the side is empty BINANCE_SPOT.
\* This holds for every tie order std::sort and the map leave, and for
\* repeated prices within and across venues.
BestExchangeAtMarginalPrice ==
    bestVenue # NoQuery =>
        LET q == bestVenue
            levels == VenueLevels(q.symbol, IF q.side = "BUY" THEN "asks" ELSE "bids")
            quoted == ToSet(levels)
            AsGood(p, r) == IF q.side = "BUY" THEN p <= r ELSE p >= r
            Covers(p) == Depth(levels, LAMBDA l : AsGood(l.price, p)) >= q.quantity
            VenuesAt(p) == {l.exchange : l \in {m \in quoted : m.price = p}}
            BestOf(S) == CHOOSE l \in S : \A m \in S : AsGood(l.price, m.price)
            covering == {l \in quoted : Covers(l.price)}
        IN  CASE levels = <<>> -> q.venue = BINANCE_SPOT
              [] covering = {}  -> q.venue \in VenuesAt(BestOf(quoted).price)
              [] OTHER          -> q.venue \in VenuesAt(BestOf(covering).price)

=============================================================================
