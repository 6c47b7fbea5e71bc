--------------------------- MODULE MCRiskEngine ----------------------------
(* Model values and bounds for checking RiskEngine with TLC. *)
EXTENDS RiskEngine

CONSTANTS btc, eth

\* Distinct slots for the two symbols.
MCSlotOf == [s \in Symbols |-> IF s = btc THEN 0 ELSE 1]
=============================================================================
