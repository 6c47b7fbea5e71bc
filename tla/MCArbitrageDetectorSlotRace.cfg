\* Two pipelines, one venue each, publishing a symbol for the first time.
CONSTANTS
  A = A  B = B  C = C  w1 = w1  w2 = w2  s1 = s1  s2 = s2
  NoVenue = NoVenue  NoSymbol = NoSymbol
  Writers = {w1, w2}
  Owns <- MCOwnsTwo
  Symbols = {s1}
  Quotes <- MCQuotes
  TakerFees <- MCTakerFees
  MinProfitRate <- MCMinProfitRate
  MinProfitAmount = 1
  MaxPositionSize = 20
  MaxSymbols = 1
  MaxExchanges = 3
  OppSlots = 1
  StaleAfter = 1
  ClockStart = 2
  MaxTime = 3
  MaxUpdates = 1
SPECIFICATION Spec
INVARIANT PublishedVenueHasSlot
CHECK_DEADLOCK FALSE
