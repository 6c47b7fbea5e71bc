------------------------ MODULE MCArbitrageDetector -------------------------
(* Model values and bounds for checking ArbitrageDetector with TLC.        *)
EXTENDS ArbitrageDetector

CONSTANTS A, B, C, w1, w2, s1, s2

\* Venue A quotes a low ask, B a high bid; the second quote is a move of
\* the whole book by 3.
MCQuotes == { [bid |-> 9, bidQty |-> 1, ask |-> 10, askQty |-> 1],
              [bid |-> 12, bidQty |-> 3, ask |-> 13, askQty |-> 3] }

\* A has a 1% taker fee configured; the others get the 0.1% default.
MCTakerFees == [v \in {A} |-> Rat(1, 100)]

MCMinProfitRate == Rat(1, 100)

\* One upstream pipeline for all venues.
MCOwnsOne == [w \in {w1} |-> {A, B, C}]

\* Two pipelines, each owning its own venues.
MCOwnsTwo == [w \in {w1, w2} |-> IF w = w1 THEN {A} ELSE {B}]
=============================================================================
