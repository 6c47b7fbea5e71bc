\* Two threads calling SubmitOrder, as spec.md 5 allows, across a second
\* boundary: both may find the window expired and both reset it.
CONSTANTS
  Exchanges = {binance_spot, upbit}
  Clients = {c1, c2}
  Statuses = {"NEW", "FILLED", "CANCELED"}
  UpdateExchanges <- MCUpdateAnyExchange
  QueueSlots = 1
  MaxOrdersPerSecond = 2
  MaxOps = 2
  MaxUpdates = 1
  MaxStarts = 2
  MaxTime = 1
  NoCid = NoCid
SPECIFICATION Spec
INVARIANT RateLimitPerSecond
CHECK_DEADLOCK FALSE
