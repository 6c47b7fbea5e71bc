\* Market-data and position updaters, the quote thread and a consumer.
\* Two levels a side against MAX_QUOTES 3 cut every batch; one ring slot
\* makes pushes fail; three updates fill a history of three.
CONSTANTS
  MarketInputs <- MCMarketInputs
  Positions <- MCPositions
  StdDev <- MCStdDev
  BaseSpreadBps = 10
  MinSpreadBps = 5
  MaxSpreadBps = 50
  QuoteLevels = 2
  LevelSpacingBps = 100
  MaxInventory = 100
  InventorySkew <- MCInventorySkew
  VolatilityFactor <- MCVolatilityFactor
  MaxQuotes = 3
  HistorySize = 3
  QuoteSlots = 1
  MaxMarketUpdates = 3
  MaxPositionUpdates = 1
  MaxTicks = 2
SPECIFICATION Spec
INVARIANTS TypeOK BatchIsLevelPrefix QuotePricesPositive
\* The updaters and the quote thread run out of calls.
CHECK_DEADLOCK FALSE
