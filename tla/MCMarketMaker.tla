--------------------------- MODULE MCMarketMaker ---------------------------
(***************************************************************************)
(* Model values for MarketMaker: two top-of-book quotes a basis point      *)
(* apart, and the sample deviation of log-returns as a rational that is 0  *)
(* exactly when every ratio is the same, as the real one is.               *)
(***************************************************************************)
EXTENDS MarketMaker

MCMarketInputs == {[bid |-> 99, ask |-> 101], [bid |-> 100, ask |-> 102]}

MCStdDev(ratios) ==
  IF \A i, j \in DOMAIN ratios : ratios[i] = ratios[j] THEN RZero
  ELSE Rat(1, 2)

MCPositions == {100, -50}

MCInventorySkew == Rat(1, 2)
MCVolatilityFactor == Int2Rat(1)

=============================================================================
