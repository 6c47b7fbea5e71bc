-------------------------- MODULE MCOrderManager ---------------------------
(* Model values and bounds for checking OrderManager with TLC. *)
EXTENDS OrderManager

\* A connector reporting on an order keeps its exchange.
MCUpdateSameExchange(e) == {e}
\* UpdateOrder takes a whole Order, exchange included.
MCUpdateAnyExchange(e) == Exchanges
=============================================================================
