------------------------ MODULE MCAggregatedOrderBook ------------------------
EXTENDS AggregatedOrderBook

\* Level vectors a connector may pass: empty, one level, two levels out of
\* price order, so that equal prices meet across venues and the cumulative
\* walk both stops exactly at and runs past a level.
MCSideInputs ==
    { <<>>,
      <<[price |-> 1, quantity |-> 1]>>,
      <<[price |-> 2, quantity |-> 2]>>,
      <<[price |-> 1, quantity |-> 1], [price |-> 2, quantity |-> 1]>> }
=============================================================================
