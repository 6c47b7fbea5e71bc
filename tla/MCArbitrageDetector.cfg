\* One writer publishing three venues of two symbols into a matrix of one
\* symbol and two venue slots, so that both capacity limits are reached.
CONSTANTS
  A = A  B = B  C = C  w1 = w1  w2 = w2  s1 = s1  s2 = s2
  NoVenue = NoVenue  NoSymbol = NoSymbol
  Writers = {w1}
  Owns <- MCOwnsOne
  Symbols = {s1, s2}
  Quotes <- MCQuotes
  TakerFees <- MCTakerFees
  MinProfitRate <- MCMinProfitRate
  MinProfitAmount = 1
  MaxPositionSize = 20
  MaxSymbols = 1
  MaxExchanges = 2
  OppSlots = 1
  StaleAfter = 1
  ClockStart = 2
  MaxTime = 3
  MaxUpdates = 3
SPECIFICATION Spec
INVARIANTS TypeOK PublishedVenueHasSlot
CHECK_DEADLOCK FALSE
