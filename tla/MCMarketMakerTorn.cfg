\* The quote thread copying market_state_ and re-reading inventory_state_
\* while the updaters store them.
CONSTANTS
  MarketInputs <- MCMarketInputs
  Positions <- MCPositions
  StdDev <- MCStdDev
  BaseSpreadBps = 10
  MinSpreadBps = 5
  MaxSpreadBps = 50
  QuoteLevels = 2
  LevelSpacingBps = 100
  MaxInventory = 100
  InventorySkew <- MCInventorySkew
  VolatilityFactor <- MCVolatilityFactor
  MaxQuotes = 3
  HistorySize = 3
  QuoteSlots = 2
  MaxMarketUpdates = 3
  MaxPositionUpdates = 1
  MaxTicks = 2
SPECIFICATION Spec
INVARIANT BatchFromCoherentSnapshot
\* The updaters and the quote thread run out of calls.
CHECK_DEADLOCK FALSE
