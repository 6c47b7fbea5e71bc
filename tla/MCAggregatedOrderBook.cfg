\* Two venues, one symbol; every operation of AggregatedOrderBook.
CONSTANTS
    Exchanges = {BINANCE_SPOT, BYBIT_SPOT}
    Symbols = {BTCUSDT}
    BINANCE_SPOT = BINANCE_SPOT
    SideInputs <- MCSideInputs
    Times = {1, 2}
    Indeterminate = {0, 3}
    MaxPrice = 1000
    QueryQuantities = {1, 2, 4}
    NoQuery = NoQuery
SPECIFICATION Spec
INVARIANTS TypeOK BestBidAskIsExtreme BestExchangeAtMarginalPrice
