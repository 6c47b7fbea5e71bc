\* One submitting thread, a connector, the worker and the host.  Rings of one
\* usable slot (ring_buffer_size 2) so that a full ring is met; two seconds
\* of clock so that the rate window resets.
CONSTANTS
  Exchanges = {binance_spot, upbit}
  Clients = {c1}
  Statuses = {"NEW", "FILLED", "CANCELED"}
  UpdateExchanges <- MCUpdateAnyExchange
  QueueSlots = 1
  MaxOrdersPerSecond = 1
  MaxOps = 2
  MaxUpdates = 1
  MaxStarts = 2
  MaxTime = 1
  NoCid = NoCid
SPECIFICATION Spec
INVARIANTS TypeOK RateLimitPerSecond AcceptedOrderConserved
PROPERTY AcceptedEventuallyIndexed
\* The host stops the manager and the clients run out of calls.
CHECK_DEADLOCK FALSE
