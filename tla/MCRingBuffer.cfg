\* One producer, one consumer: the contract of the ring.
CONSTANTS
  RequestedSize <- MCRequestedSize
  Width <- MCWidth
  Producers = {p1}
  Items = {i1, i2, i3, i4, i5}
  NULL = NULL
SPECIFICATION Spec
INVARIANTS TypeOK NextPowerOfTwoCorrect
PROPERTIES RefinesRingQueue AcceptedEventuallyPopped
\* The producer runs out of items and the consumer drains the ring.
CHECK_DEADLOCK FALSE
