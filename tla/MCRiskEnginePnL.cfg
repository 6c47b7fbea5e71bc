\* One caller reducing a position in steps (spec.md 4.C, updatePosition).
CONSTANTS
  btc = btc
  eth = eth
  Symbols = {btc}
  SlotOf <- MCSlotOf
  Callers = {r1}
  Prices = {9, 10}
  Quantities = {1, 2}
  MaxOrderValue = 20
  MaxPositionValue = 30
  DailyLossLimit = 1
  MaxOpenOrders = 1
  MaxOrders = 4
SPECIFICATION Spec
INVARIANT PnLAccountingIdentity
CHECK_DEADLOCK FALSE
