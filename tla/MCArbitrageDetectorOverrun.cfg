\* One writer (the single mutator of spec.md 5) registering two symbols in a
\* matrix of one symbol slot, the detector running beside it.
CONSTANTS
  A = A  B = B  C = C  w1 = w1  w2 = w2  s1 = s1  s2 = s2
  NoVenue = NoVenue  NoSymbol = NoSymbol
  Writers = {w1}
  Owns <- MCOwnsOne
  Symbols = {s1, s2}
  Quotes <- MCQuotes
  TakerFees <- MCTakerFees
  MinProfitRate <- MCMinProfitRate
  MinProfitAmount = 1
  MaxPositionSize = 20
  MaxSymbols = 1
  MaxExchanges = 2
  OppSlots = 1
  StaleAfter = 1
  ClockStart = 2
  MaxTime = 3
  MaxUpdates = 3
SPECIFICATION Spec
INVARIANT DetectorIndexInBounds
CHECK_DEADLOCK FALSE
