\* A client cancels an order through the queue while the connector reports
\* the order filled through UpdateOrder, keeping its exchange.
CONSTANTS
  Exchanges = {binance_spot, upbit}
  Clients = {c1}
  Statuses = {"FILLED"}
  UpdateExchanges <- MCUpdateSameExchange
  QueueSlots = 1
  MaxOrdersPerSecond = 3
  MaxOps = 2
  MaxUpdates = 1
  MaxStarts = 1
  MaxTime = 0
  NoCid = NoCid
SPECIFICATION Spec
PROPERTY TerminalStatusFinal
CHECK_DEADLOCK FALSE
