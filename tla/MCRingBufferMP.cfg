\* Two threads pushing into one ring, as two callers of
\* OrderManager::SubmitOrder for the same exchange do.
CONSTANTS
  RequestedSize <- MCRequestedSize
  Width <- MCWidth
  Producers = {p1, p2}
  Items = {i1, i2, i3}
  NULL = NULL
SPECIFICATION Spec
INVARIANT FifoNoLoss
CHECK_DEADLOCK FALSE
