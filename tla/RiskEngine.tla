----------------------------- MODULE RiskEngine -----------------------------
(***************************************************************************)
(* oms::risk::RiskEngine (src/risk/risk_engine.cpp, risk_engine.h).        *)
(*                                                                         *)
(* Callers follow the protocol spec.md 4.C gives them: checkOrder; if it   *)
(* passed, updateOrderCount(+1); when the order fills, updatePosition with *)
(* the signed quantity at the fill price; when it is done (filled or       *)
(* cancelled), updateOrderCount(-1).  Each call is one step: the calls of  *)
(* one caller are sequential, and several callers interleave call by call. *)
(*                                                                         *)
(* Quantities and prices are integers; avg_price and daily_pnl, which the  *)
(* code keeps in doubles, are exact rationals here so that the accounting  *)
(* is not blurred by rounding.  hashSymbol(symbol) % MAX_SYMBOLS is the    *)
(* constant function SlotOf, which may send two symbols to one slot.       *)
(***************************************************************************)
EXTENDS Integers, Sequences, FiniteSets, Rationals

CONSTANTS
  Symbols,          \* symbols traded
  SlotOf,           \* hashSymbol(symbol) % MAX_SYMBOLS, as a function
  Callers,          \* threads calling the engine
  Prices,           \* order and fill prices
  Quantities,       \* order quantities (positive)
  MaxOrderValue,    \* config_.max_order_value
  MaxPositionValue, \* config_.max_position_value
  DailyLossLimit,   \* config_.daily_loss_limit
  MaxOpenOrders,    \* config_.max_open_orders
  MaxOrders         \* orders each caller sends

ASSUME SlotOf \in [Symbols -> Nat]
ASSUME Prices \subseteq Nat \ {0} /\ Quantities \subseteq Nat \ {0}

Slots == {SlotOf[s] : s \in Symbols}
Sides == {"BUY", "SELL"}

-----------------------------------------------------------------------------

VARIABLES
  quantity,    \* positions_[slot].quantity
  value,       \* positions_[slot].value
  avgPrice,    \* positions_[slot].avg_price
  dailyPnl,    \* daily_pnl_
  openOrders,  \* open_orders_
  running,     \* running_
  totalChecks, \* total_checks_
  rpc,         \* each caller: "idle", or "checked" after a passed check
  rorder,      \* rorder[c][k]: the k-th order caller c sent to checkOrder
  ostate,      \* ostate[c][k]: "none", "open", "filled" or "done"
  sent,        \* orders each caller has sent to checkOrder
  realized,    \* history: realized PnL the engine booked, per slot
  cash         \* history: cash paid out (-) or taken in (+), per slot

vars == <<quantity, value, avgPrice, dailyPnl, openOrders, running, totalChecks,
          rpc, rorder, ostate, sent, realized, cash>>

engineVars == <<quantity, value, avgPrice, dailyPnl, openOrders, running,
                totalChecks>>
historyVars == <<realized, cash>>

OrderNums == 1 .. MaxOrders
Orders == [symbol : Symbols, side : Sides, price : Prices, quantity : Quantities]
NoRiskOrder == [symbol |-> CHOOSE s \in Symbols : TRUE, side |-> "BUY",
                price |-> CHOOSE p \in Prices : TRUE,
                quantity |-> CHOOSE q \in Quantities : TRUE]

\* RiskEngine::RiskEngine: every slot zero, daily_pnl_ and open_orders_ 0.
Init ==
  /\ quantity = [s \in Slots |-> 0]
  /\ value = [s \in Slots |-> 0]
  /\ avgPrice = [s \in Slots |-> Int2Rat(0)]
  /\ dailyPnl = Int2Rat(0)
  /\ openOrders = 0
  /\ running = FALSE
  /\ totalChecks = 0
  /\ rpc = [c \in Callers |-> "idle"]
  /\ rorder = [c \in Callers |-> [k \in OrderNums |-> NoRiskOrder]]
  /\ ostate = [c \in Callers |-> [k \in OrderNums |-> "none"]]
  /\ sent = [c \in Callers |-> 0]
  /\ realized = [s \in Slots |-> Int2Rat(0)]
  /\ cash = [s \in Slots |-> 0]

-----------------------------------------------------------------------------
(* checkOrder (risk_engine.cpp:37-89) *)

\* The four gates in order; each is tested only if the earlier ones passed,
\* which for a pure conjunction is the same as testing them all.
OrderValue(o) == o.price * o.quantity
PassesGates(o) ==
  /\ OrderValue(o) <= MaxOrderValue
  /\ Abs(value[SlotOf[o.symbol]] +
         (IF o.side = "BUY" THEN OrderValue(o) ELSE -OrderValue(o)))
       <= MaxPositionValue
  /\ ~RLess(dailyPnl, Int2Rat(-DailyLossLimit))
  /\ openOrders < MaxOpenOrders

\* A stopped engine returns false before counting the check; otherwise the
\* check is counted and the caller goes on only if it passed.
CheckOrder(c) ==
  /\ rpc[c] = "idle"
  /\ sent[c] < MaxOrders
  /\ \E o \in Orders :
       /\ rorder' = [rorder EXCEPT ![c][sent[c] + 1] = o]
       /\ rpc' = [rpc EXCEPT ![c] = IF running /\ PassesGates(o) THEN "checked"
                                                                 ELSE "idle"]
  /\ totalChecks' = IF running THEN totalChecks + 1 ELSE totalChecks
  /\ sent' = [sent EXCEPT ![c] = @ + 1]
  /\ UNCHANGED <<quantity, value, avgPrice, dailyPnl, openOrders, running,
                 ostate, historyVars>>

\* updateOrderCount(+1) after a passed check (risk_engine.cpp:120-122).
OpenOrder(c) ==
  /\ rpc[c] = "checked"
  /\ openOrders' = openOrders + 1
  /\ rpc' = [rpc EXCEPT ![c] = "idle"]
  /\ ostate' = [ostate EXCEPT ![c][sent[c]] = "open"]
  /\ UNCHANGED <<quantity, value, avgPrice, dailyPnl, running, totalChecks,
                 rorder, sent, historyVars>>

-----------------------------------------------------------------------------
(* updatePosition (risk_engine.cpp:91-118) with calculateRealizedPnL       *)
(* (167-179).                                                              *)

\* PnL of the closed part of the position: min(|old|, |delta|) times the
\* move from the average price, long or short.
CalculateRealizedPnL(oldQty, oldPrice, delta, newPrice) ==
  LET closed == IF Abs(oldQty) <= Abs(delta) THEN Abs(oldQty) ELSE Abs(delta)
  IN IF oldQty > 0 THEN RMulInt(RSub(Int2Rat(newPrice), oldPrice), closed)
                   ELSE RMulInt(RSub(oldPrice, Int2Rat(newPrice)), closed)

\* The new avg_price: a weighted average while old and new quantity have
\* the same sign, the fill price when the position opens or flips, the old
\* average when the position becomes flat.
NewAvgPrice(oldQty, oldAvg, delta, price) ==
  LET newQty == oldQty + delta IN
  IF newQty = 0 THEN oldAvg
  ELSE IF oldQty * newQty > 0
         THEN Rat(oldQty * oldAvg[1] + delta * price * oldAvg[2],
                  oldAvg[2] * newQty)
         ELSE Int2Rat(price)

UpdatePosition(symbol, delta, price) ==
  LET s == SlotOf[symbol]
      old == quantity[s]
      pnl == CalculateRealizedPnL(old, avgPrice[s], delta, price)
  IN /\ quantity' = [quantity EXCEPT ![s] = old + delta]
     /\ value' = [value EXCEPT ![s] = (old + delta) * price]
     /\ IF old * delta < 0
          THEN /\ dailyPnl' = RAdd(dailyPnl, pnl)
               /\ realized' = [realized EXCEPT ![s] = RAdd(@, pnl)]
          ELSE UNCHANGED <<dailyPnl, realized>>
     /\ avgPrice' = [avgPrice EXCEPT ![s] = NewAvgPrice(old, @, delta, price)]
     /\ cash' = [cash EXCEPT ![s] = @ - delta * price]

\* An open order of the caller fills completely at its price.
Fill(c, k) ==
  /\ ostate[c][k] = "open"
  /\ LET o == rorder[c][k] IN
       UpdatePosition(o.symbol,
                      IF o.side = "BUY" THEN o.quantity ELSE -o.quantity,
                      o.price)
  /\ ostate' = [ostate EXCEPT ![c][k] = "filled"]
  /\ UNCHANGED <<openOrders, running, totalChecks, rpc, rorder, sent>>

\* updateOrderCount(-1) when the order is done, filled or cancelled.
CloseOrder(c, k) ==
  /\ ostate[c][k] \in {"open", "filled"}
  /\ openOrders' = openOrders - 1
  /\ ostate' = [ostate EXCEPT ![c][k] = "done"]
  /\ UNCHANGED <<quantity, value, avgPrice, dailyPnl, running, totalChecks,
                 rpc, rorder, sent, historyVars>>

-----------------------------------------------------------------------------
(* start, stop, resetDailyPnL (risk_engine.cpp:27-35, 132-135) *)

Start ==
  /\ running' = TRUE
  /\ UNCHANGED <<quantity, value, avgPrice, dailyPnl, openOrders, totalChecks,
                 rpc, rorder, ostate, sent, historyVars>>

Stop ==
  /\ running' = FALSE
  /\ UNCHANGED <<quantity, value, avgPrice, dailyPnl, openOrders, totalChecks,
                 rpc, rorder, ostate, sent, historyVars>>

ResetDailyPnL ==
  /\ dailyPnl' = Int2Rat(0)
  /\ UNCHANGED <<quantity, value, avgPrice, openOrders, running, totalChecks,
                 rpc, rorder, ostate, sent, historyVars>>

Next ==
  \/ \E c \in Callers :
       \/ CheckOrder(c) \/ OpenOrder(c)
       \/ \E k \in OrderNums : Fill(c, k) \/ CloseOrder(c, k)
  \/ Start \/ Stop \/ ResetDailyPnL

Spec == Init /\ [][Next]_vars

-----------------------------------------------------------------------------

TypeOK ==
  /\ quantity \in [Slots -> Int] /\ value \in [Slots -> Int]
  /\ avgPrice \in [Slots -> Rats] /\ dailyPnl \in Rats
  /\ openOrders \in Nat
  /\ running \in BOOLEAN /\ totalChecks \in Nat
  /\ rpc \in [Callers -> {"idle", "checked"}]
  /\ rorder \in [Callers -> [OrderNums -> Orders]]
  /\ ostate \in [Callers -> [OrderNums -> {"none", "open", "filled", "done"}]]

\* Realized PnL is the profit of the closed quantity only: for every slot,
\* what the engine booked as realized equals the cash the fills produced
\* plus the cost basis of what is still held (quantity * avg_price).  When
\* the position is flat this says daily PnL is the round trip's profit.
PnLAccountingIdentity ==
  \A s \in Slots :
     realized[s] = RAdd(Int2Rat(cash[s]), RMulInt(avgPrice[s], quantity[s]))

=============================================================================
