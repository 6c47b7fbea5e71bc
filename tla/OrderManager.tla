---------------------------- MODULE OrderManager ----------------------------
(***************************************************************************)
(* oms::OrderManager (engine/order_manager.cpp, include/order_manager.h).  *)
(*                                                                         *)
(* Client threads call SubmitOrder and CancelOrder; a connector thread     *)
(* calls UpdateOrder; the host calls Start and Stop; Start spawns the      *)
(* worker running ProcessingLoop.  Each exchange has a ring buffer, shown  *)
(* by RingBuffer to implement the bounded FIFO queue of RingQueue: here    *)
(* a queue is a sequence of at most QueueSlots orders and a push or a pop  *)
(* is one step.  The rate limiter's shared counter and timestamp are       *)
(* accessed in separate steps, as in the code.  Time is the steady clock   *)
(* counted in whole seconds.                                               *)
(*                                                                         *)
(* An order is a record: cid (client_order_id), id, exchange, status.      *)
(* Prices, quantities and timestamps are left out: nothing here reads them.*)
(***************************************************************************)
EXTENDS Integers, Sequences, FiniteSets, TLC

CONSTANTS
  Exchanges,          \* ExchangeType values with a queue
  Clients,            \* threads calling SubmitOrder / CancelOrder
  Statuses,           \* OrderStatus values a connector reports
  UpdateExchanges(_), \* exchanges UpdateOrder may give a stored order
  QueueSlots,         \* usable slots of a ring: capacity_ - 1
  MaxOrdersPerSecond, \* config_.max_orders_per_second
  MaxOps,             \* calls each client makes
  MaxUpdates,         \* UpdateOrder calls the connector makes
  MaxStarts,          \* Start calls the host makes
  MaxTime,            \* seconds of steady clock explored
  NoCid               \* client_order_id of a synthesized cancel

ASSUME QueueSlots \in Nat /\ MaxOrdersPerSecond \in Nat
ASSUME Statuses \subseteq {"NEW", "PARTIALLY_FILLED", "FILLED", "CANCELED",
                            "REJECTED", "EXPIRED"}

\* The fixed order in which ProcessingLoop walks order_queues_.
ExchangeSeq == CHOOSE s \in [1 .. Cardinality(Exchanges) -> Exchanges] :
                 \A i, j \in DOMAIN s : i # j => s[i] # s[j]
NumExchanges == Cardinality(Exchanges)

Terminal == {"FILLED", "CANCELED", "REJECTED", "EXPIRED"}

VARIABLES
  now,               \* steady_clock::now(), in seconds
  lastRateCheck,     \* last_rate_check_
  ordersThisSecond,  \* orders_this_second_
  queues,            \* order_queues_: exchange -> FIFO of orders
  orders,            \* orders_: id -> stored order
  exchangeOrders,    \* exchange_orders_: exchange -> ids in insertion order
  nextOrderId,       \* next_order_id_
  running,           \* running_
  wpc,               \* worker thread: "none", "top", "scan", "process", "exited"
  wi,                \* position of the worker in its pass over the queues
  held,              \* the worker's local `order`, popped and not yet processed
  hostpc,            \* host thread: "idle" or "joining" (inside Stop)
  starts,            \* Start calls made
  cpc,               \* where each client is inside SubmitOrder
  corder,            \* the order each client is submitting
  cnow,              \* the `now` each client read
  ops,               \* calls each client has made
  updates,           \* UpdateOrder calls made
  stats,             \* stats_.orders_processed / orders_rejected
  admittedAt,        \* history: orders passing the rate gate, by the
                     \* last_rate_check_ of the window they counted in
  acceptedCids       \* history: cids of orders SubmitOrder returned true for

vars == <<now, lastRateCheck, ordersThisSecond, queues, orders, exchangeOrders,
          nextOrderId, running, wpc, wi, held, hostpc, starts, cpc, corder, cnow,
          ops, updates, stats, admittedAt, acceptedCids>>

clientVars == <<cpc, corder, cnow, ops>>
workerVars == <<wpc, wi, held>>
indexVars == <<orders, exchangeOrders, nextOrderId>>
rateVars == <<lastRateCheck, ordersThisSecond>>

NoOrder == [cid |-> NoCid, id |-> 0, exchange |-> CHOOSE e \in Exchanges : TRUE,
            status |-> "NEW"]

\* OrderManager::OrderManager: one empty ring per exchange, last_rate_check_
\* set to the construction time.
Init ==
  /\ now = 0
  /\ lastRateCheck = 0
  /\ ordersThisSecond = 0
  /\ queues = [e \in Exchanges |-> << >>]
  /\ orders = << >>
  /\ exchangeOrders = [e \in Exchanges |-> << >>]
  /\ nextOrderId = 1
  /\ running = FALSE
  /\ wpc = "none"
  /\ wi = 1
  /\ held = NoOrder
  /\ hostpc = "idle"
  /\ starts = 0
  /\ cpc = [c \in Clients |-> "idle"]
  /\ corder = [c \in Clients |-> NoOrder]
  /\ cnow = [c \in Clients |-> 0]
  /\ ops = [c \in Clients |-> 0]
  /\ updates = 0
  /\ stats = [processed |-> 0, rejected |-> 0]
  /\ admittedAt = [t \in 0 .. MaxTime |-> 0]
  /\ acceptedCids = {}

-----------------------------------------------------------------------------
(* SubmitOrder (order_manager.cpp:24-45) and CancelOrder (47-54)           *)

\* The orders a client may hand to SubmitOrder: a new order for some
\* exchange, or the record CancelOrder(id, exchange) synthesizes.
NewOrder(c, e) == [cid |-> <<c, ops[c] + 1>>, id |-> 0, exchange |-> e,
                   status |-> "NEW"]
CancelRecord(id, e) == [cid |-> NoCid, id |-> id, exchange |-> e,
                        status |-> "CANCELED"]
Submittable(c) ==
  {NewOrder(c, e) : e \in Exchanges} \cup
  {CancelRecord(id, e) : id \in 1 .. nextOrderId, e \in Exchanges}

\* auto now = steady_clock::now(); if (now - last_rate_check_ >= 1s) ...
SubmitBegin(c) ==
  /\ cpc[c] = "idle"
  /\ ops[c] < MaxOps
  /\ \E o \in Submittable(c) : corder' = [corder EXCEPT ![c] = o]
  /\ ops' = [ops EXCEPT ![c] = @ + 1]
  /\ cnow' = [cnow EXCEPT ![c] = now]
  /\ cpc' = [cpc EXCEPT ![c] = IF now - lastRateCheck >= 1 THEN "reset"
                                                          ELSE "gate"]
  /\ UNCHANGED <<now, rateVars, queues, indexVars, running, workerVars,
                 hostpc, starts, updates, stats, admittedAt, acceptedCids>>

\* orders_this_second_.store(0); last_rate_check_ = now;
SubmitResetWindow(c) ==
  /\ cpc[c] = "reset"
  /\ ordersThisSecond' = 0
  /\ lastRateCheck' = cnow[c]
  /\ cpc' = [cpc EXCEPT ![c] = "gate"]
  /\ UNCHANGED <<now, queues, indexVars, running, workerVars, hostpc, starts,
                 corder, cnow, ops, updates, stats, admittedAt, acceptedCids>>

\* Mutant: the limit compared with > instead of >=.
SubmitRateGateOffByOne(c) ==
  /\ cpc[c] = "gate"
  /\ ordersThisSecond' = ordersThisSecond + 1
  /\ IF ordersThisSecond > MaxOrdersPerSecond
       THEN /\ stats' = [stats EXCEPT !.rejected = @ + 1]
            /\ cpc' = [cpc EXCEPT ![c] = "idle"]
            /\ UNCHANGED admittedAt
       ELSE /\ admittedAt' = [admittedAt EXCEPT ![lastRateCheck] = @ + 1]
            /\ cpc' = [cpc EXCEPT ![c] = "push"]
            /\ UNCHANGED stats
  /\ UNCHANGED <<now, lastRateCheck, queues, indexVars, running, workerVars,
                 hostpc, starts, corder, cnow, ops, updates, acceptedCids>>

\* if (orders_this_second_.fetch_add(1) >= max) { rejected++; return false; }
SubmitRateGate(c) ==
  /\ cpc[c] = "gate"
  /\ ordersThisSecond' = ordersThisSecond + 1
  /\ IF ordersThisSecond >= MaxOrdersPerSecond
       THEN /\ stats' = [stats EXCEPT !.rejected = @ + 1]
            /\ cpc' = [cpc EXCEPT ![c] = "idle"]
            /\ UNCHANGED admittedAt
       ELSE /\ admittedAt' = [admittedAt EXCEPT ![lastRateCheck] = @ + 1]
            /\ cpc' = [cpc EXCEPT ![c] = "push"]
            /\ UNCHANGED stats
  /\ UNCHANGED <<now, lastRateCheck, queues, indexVars, running, workerVars,
                 hostpc, starts, corder, cnow, ops, updates, acceptedCids>>

\* Mutant: the result of push ignored and the ring overfilled.
SubmitPushIgnoreFull(c) ==
  /\ cpc[c] = "push"
  /\ queues' = [queues EXCEPT ![corder[c].exchange] = Append(@, corder[c])]
  /\ acceptedCids' = acceptedCids \cup
                       (IF corder[c].cid = NoCid THEN {} ELSE {corder[c].cid})
  /\ cpc' = [cpc EXCEPT ![c] = "idle"]
  /\ UNCHANGED <<now, rateVars, indexVars, running, workerVars, hostpc, starts,
                 corder, cnow, ops, updates, stats, admittedAt>>

\* if (!queue->push(order)) { rejected++; return false; } return true;
SubmitPush(c) ==
  /\ cpc[c] = "push"
  /\ LET o == corder[c] IN
       IF Len(queues[o.exchange]) < QueueSlots
         THEN /\ queues' = [queues EXCEPT ![o.exchange] = Append(@, o)]
              /\ acceptedCids' = acceptedCids \cup
                                   (IF o.cid = NoCid THEN {} ELSE {o.cid})
              /\ UNCHANGED stats
         ELSE /\ stats' = [stats EXCEPT !.rejected = @ + 1]
              /\ UNCHANGED <<queues, acceptedCids>>
  /\ cpc' = [cpc EXCEPT ![c] = "idle"]
  /\ UNCHANGED <<now, rateVars, indexVars, running, workerVars, hostpc, starts,
                 corder, cnow, ops, updates, admittedAt>>

-----------------------------------------------------------------------------
(* UpdateOrder (order_manager.cpp:56-66), under the write lock: the stored *)
(* record of order.id is replaced by order; an unknown id returns false.   *)

UpdateOrder ==
  /\ updates < MaxUpdates
  /\ updates' = updates + 1
  /\ \E id \in 1 .. nextOrderId, s \in Statuses :
       IF id \in DOMAIN orders
         THEN \E e \in UpdateExchanges(orders[id].exchange) :
                orders' = [orders EXCEPT ![id] = [@ EXCEPT !.status = s,
                                                           !.exchange = e]]
         ELSE UNCHANGED orders
  /\ UNCHANGED <<now, rateVars, queues, exchangeOrders, nextOrderId, running,
                 workerVars, hostpc, starts, clientVars, stats, admittedAt,
                 acceptedCids>>

-----------------------------------------------------------------------------
(* The worker: ProcessingLoop (order_manager.cpp:118-146), ProcessOrder    *)
(* (148-167) and ProcessCancellation (169-180).                            *)

\* ProcessCancellation: under the write lock, cancel the stored order if it
\* exists and its exchange matches; otherwise nothing.
ProcessCancellation(o) ==
  /\ orders' = IF o.id \in DOMAIN orders /\ orders[o.id].exchange = o.exchange
                 THEN [orders EXCEPT ![o.id].status = "CANCELED"]
                 ELSE orders
  /\ UNCHANGED <<exchangeOrders, nextOrderId>>

\* ProcessOrder: a cancel record goes to ProcessCancellation; any other order
\* takes next_order_id_ and is stored in orders_ and exchange_orders_.
ProcessOrder(o) ==
  IF o.status = "CANCELED"
    THEN ProcessCancellation(o)
    ELSE /\ nextOrderId' = nextOrderId + 1
         /\ orders' = orders @@ (nextOrderId :> [o EXCEPT !.id = nextOrderId])
         /\ exchangeOrders' = [exchangeOrders EXCEPT
                                 ![o.exchange] = Append(@, nextOrderId)]

\* Mutant: the worker leaves the loop when it finds every queue empty
\* (a break where the code yields).
WorkerLoopTopExitWhenIdle ==
  /\ wpc = "top"
  /\ IF running /\ \E e \in Exchanges : queues[e] # << >>
       THEN wpc' = "scan" /\ wi' = 1
       ELSE wpc' = "exited" /\ UNCHANGED wi
  /\ UNCHANGED <<now, rateVars, queues, indexVars, running, held, hostpc,
                 starts, clientVars, updates, stats, admittedAt, acceptedCids>>

\* while (running_.load()) { ... } : the loop test at the top of each pass.
WorkerLoopTop ==
  /\ wpc = "top"
  /\ IF running THEN wpc' = "scan" /\ wi' = 1
               ELSE wpc' = "exited" /\ UNCHANGED wi
  /\ UNCHANGED <<now, rateVars, queues, indexVars, running, held, hostpc,
                 starts, clientVars, updates, stats, admittedAt, acceptedCids>>

\* The for loop moves on to the next queue, or back to the loop test after
\* the last one.  The yield after an idle pass changes no state.
NextQueue ==
  IF wi = NumExchanges THEN wpc' = "top" /\ wi' = 1
                       ELSE wpc' = "scan" /\ wi' = wi + 1

\* if (queue->pop(order)): one iteration of the for loop over
\* order_queues_ takes the order off the queue, or moves on if it is empty.
WorkerVisitQueue ==
  /\ wpc = "scan"
  /\ LET e == ExchangeSeq[wi] IN
       IF queues[e] # << >>
         THEN /\ queues' = [queues EXCEPT ![e] = Tail(@)]
              /\ held' = Head(queues[e])
              /\ wpc' = "process"
              /\ UNCHANGED wi
         ELSE NextQueue /\ UNCHANGED <<queues, held>>
  /\ UNCHANGED <<now, rateVars, indexVars, running, hostpc, starts, clientVars,
                 updates, stats, admittedAt, acceptedCids>>

\* Mutant: the popped order is dropped when running_ has been cleared in
\* the meantime (a running_ test between pop and ProcessOrder).
WorkerProcessOrderDropWhenStopped ==
  /\ wpc = "process"
  /\ IF running
       THEN ProcessOrder(held) /\ stats' = [stats EXCEPT !.processed = @ + 1]
       ELSE UNCHANGED <<indexVars, stats>>
  /\ NextQueue
  /\ UNCHANGED <<now, rateVars, queues, held, running, hostpc, starts,
                 clientVars, updates, admittedAt, acceptedCids>>

\* ProcessOrder(order) on the popped order, whatever running_ is by now;
\* stats_.orders_processed.fetch_add(1); then the next queue.
WorkerProcessOrder ==
  /\ wpc = "process"
  /\ ProcessOrder(held)
  /\ stats' = [stats EXCEPT !.processed = @ + 1]
  /\ NextQueue
  /\ UNCHANGED <<now, rateVars, queues, held, running, hostpc, starts,
                 clientVars, updates, admittedAt, acceptedCids>>

-----------------------------------------------------------------------------
(* Start (order_manager.cpp:97-106) and Stop (108-116), called by the host *)
(* thread.  Start with running_ already true, or Stop with it false,       *)
(* returns at once and changes nothing.                                    *)

Start ==
  /\ hostpc = "idle"
  /\ ~running
  /\ starts < MaxStarts
  /\ starts' = starts + 1
  /\ running' = TRUE
  /\ wpc' = "top"
  /\ wi' = 1
  /\ UNCHANGED <<now, rateVars, queues, indexVars, held, hostpc, clientVars, updates,
                 stats, admittedAt, acceptedCids>>

\* running_.exchange(false), then processing_thread_.join()
StopBegin ==
  /\ hostpc = "idle"
  /\ running
  /\ running' = FALSE
  /\ hostpc' = "joining"
  /\ UNCHANGED <<now, rateVars, queues, indexVars, workerVars, starts,
                 clientVars, updates, stats, admittedAt, acceptedCids>>

StopJoin ==
  /\ hostpc = "joining"
  /\ wpc = "exited"
  /\ hostpc' = "idle"
  /\ UNCHANGED <<now, rateVars, queues, indexVars, running, workerVars, starts,
                 clientVars, updates, stats, admittedAt, acceptedCids>>

\* The steady clock moves on by a second.
Tick ==
  /\ now < MaxTime
  /\ now' = now + 1
  /\ UNCHANGED <<rateVars, queues, indexVars, running, workerVars, hostpc,
                 starts, clientVars, updates, stats, admittedAt, acceptedCids>>

-----------------------------------------------------------------------------

ClientStep(c) ==
  SubmitBegin(c) \/ SubmitResetWindow(c) \/ SubmitRateGate(c) \/ SubmitPush(c)

WorkerStep == WorkerLoopTop \/ WorkerVisitQueue \/ WorkerProcessOrder

Next ==
  \/ \E c \in Clients : ClientStep(c)
  \/ UpdateOrder
  \/ WorkerStep
  \/ Start \/ StopBegin \/ StopJoin
  \/ Tick

\* Only the worker is assumed to keep running: it is a dedicated thread that
\* never blocks.  Clients, the connector, the host and time may stop.
Fairness == WF_vars(WorkerStep)

Spec == Init /\ [][Next]_vars /\ Fairness

-----------------------------------------------------------------------------

OrderRec == [cid : (Clients \X (1 .. MaxOps)) \cup {NoCid}, id : Nat,
             exchange : Exchanges, status : Statuses \cup {"NEW", "CANCELED"}]

TypeOK ==
  /\ now \in 0 .. MaxTime /\ lastRateCheck \in 0 .. MaxTime
  /\ ordersThisSecond \in Nat
  /\ queues \in [Exchanges -> Seq(OrderRec)]
  /\ \A e \in Exchanges : Len(queues[e]) <= QueueSlots
  /\ DOMAIN orders \subseteq Nat \ {0}
  /\ \A id \in DOMAIN orders : orders[id] \in OrderRec
  /\ exchangeOrders \in [Exchanges -> Seq(Nat \ {0})]
  /\ running \in BOOLEAN
  /\ wpc \in {"none", "top", "scan", "process", "exited"}
  /\ wi \in 1 .. NumExchanges /\ held \in OrderRec
  /\ hostpc \in {"idle", "joining"}
  /\ cpc \in [Clients -> {"idle", "reset", "gate", "push"}]
  /\ corder \in [Clients -> OrderRec]

\* The rate limiter lets at most max_orders_per_second orders through its
\* gate in any one window, the second that starts at last_rate_check_
\* (spec.md 4.B, scenario 2); spec.md 5 says this holds for SubmitOrder
\* called from any number of threads.
RateLimitPerSecond == \A t \in 0 .. MaxTime : admittedAt[t] <= MaxOrdersPerSecond

\* Where the order a client submitted as its k-th call is: its copies in
\* the rings, in the worker's hands, and stored in orders_.
Occurrences(cid) ==
  Cardinality({p \in UNION {{e} \X DOMAIN queues[e] : e \in Exchanges} :
                 queues[p[1]][p[2]].cid = cid})
  + (IF wpc = "process" /\ held.cid = cid THEN 1 ELSE 0)
  + Cardinality({id \in DOMAIN orders : orders[id].cid = cid})

\* spec.md 3 (Lifecycle): an order is created on SubmitOrder, enqueued,
\* admitted and never deleted from the index.  Every order SubmitOrder
\* accepted is in exactly one place at every moment, its ring, the
\* worker's local copy between pop and ProcessOrder, or orders_, across
\* Stop, join and a later Start; a rejected order is nowhere.
AcceptedOrderConserved ==
  \A cid \in Clients \X (1 .. MaxOps) :
     Occurrences(cid) = IF cid \in acceptedCids THEN 1 ELSE 0

IsIndexed(cid) == \E id \in DOMAIN orders : orders[id].cid = cid

\* Every order SubmitOrder accepted is eventually taken off its queue by the
\* worker and stored in the index, unless the manager has been stopped.
AcceptedEventuallyIndexed ==
  \A c \in Clients, k \in 1 .. MaxOps :
     (<<c, k>> \in acceptedCids) ~> (IsIndexed(<<c, k>>) \/ ~running)

\* spec.md 3 (Lifecycle): an order is mutated until it reaches a terminal
\* status (Filled, Canceled, Rejected, Expired); no step changes the status
\* of an order that has reached one.
TerminalStatusFinal ==
  [][\A id \in DOMAIN orders :
       orders[id].status \in Terminal => orders'[id].status = orders[id].status]_vars

=============================================================================
