----------------------------- MODULE OrderBook -----------------------------
(***************************************************************************)
(* Limit orders of the trading contract (trading/src/lib.rs): price-time   *)
(* matching, time in force, cancellation and the trade log.                *)
(*                                                                         *)
(* create_limit_order runs a loop.  Each iteration is one step here, and   *)
(* `taker` is the order the running invocation has in hand; the host runs  *)
(* one invocation at a time, so nothing else moves until it is done.  The  *)
(* taker's stored copy lags behind the one in hand, but no iteration reads *)
(* it, so one copy stands for both.                                        *)
(***************************************************************************)
EXTENDS HostClock, Sequences, FiniteSets, Functions

CONSTANTS
    Users,       \* addresses that trade
    Pairs,       \* trading pairs
    Prices,      \* limit prices an order is created with
    Amounts,     \* amounts an order is created with
    MaxOrders    \* bound on the number of orders

ASSUME InputsAssumption == Prices \subseteq Int /\ Amounts \subseteq Int
ASSUME MaxOrdersAssumption == MaxOrders \in Nat

VARIABLES
    o_cnt,    \* id of the last order
    orders,   \* orders by id
    obook,    \* ids of the resting orders, per pair and side
    taker,    \* order being matched, 0 between invocations
    trades,   \* the trade log; a trade's id is its position
    stats     \* running totals

bookVars == <<o_cnt, orders, obook, taker, trades, stats>>

OrderSide == {"Buy", "Sell"}
OrderStatus == {"Open", "PartiallyFilled", "Filled", "Cancelled"}
TimeInForce == {"Gtc", "Ioc", "Fok"}

LimitOrder ==
    [owner : Users, pair : Pairs, side : OrderSide, price : Int, amount : Int,
     remaining : Int, status : OrderStatus, tif : TimeInForce, timestamp : Nat]

Trade ==
    [trader : Users, pair : Pairs, signed_amount : Int, price : Int, timestamp : Nat]

\* The type invariant of the book.
BookTypeOK ==
    /\ o_cnt \in Nat
    /\ orders \in [1..o_cnt -> LimitOrder]
    /\ obook \in [Pairs \X OrderSide -> Seq(1..o_cnt)]
    /\ taker \in 0..o_cnt
    /\ trades \in Seq(Trade)
    /\ stats \in [total_trades : Nat, total_volume : Int]

-----------------------------------------------------------------------------
(* The book.  Here and below, a definition marked "Faulty" is a variant of  *)
(* the one that follows it, with a defect the properties catch.            *)

Opposite(side) == IF side = "Buy" THEN "Sell" ELSE "Buy"

BetterPrice(side, p, q) == IF side = "Buy" THEN p < q ELSE p > q

IsOpen(o) == o.status \in {"Open", "PartiallyFilled"}

Listed(ids, id) == \E i \in DOMAIN ids : ids[i] = id

\* Faulty: the order stays in its book.
keep_order_in_book(ids, id) == ids

\* The code drops every occurrence of the id; BookSound shows there is at
\* most one.
remove_order_from_book(ids, id) ==
    IF Listed(ids, id)
    THEN LET at == CHOOSE i \in DOMAIN ids : ids[i] = id
         IN  [j \in 1..(Len(ids) - 1) |-> IF j < at THEN ids[j] ELSE ids[j + 1]]
    ELSE ids

\* Faulty: equal prices do not match.
order_matches_strictly(incoming, resting) ==
    /\ incoming.pair = resting.pair
    /\ resting.side = Opposite(incoming.side)
    /\ BetterPrice(incoming.side, resting.price, incoming.price)

order_matches(incoming, resting) ==
    /\ incoming.pair = resting.pair
    /\ resting.side = Opposite(incoming.side)
    /\ IF incoming.side = "Buy" THEN incoming.price >= resting.price
                                ELSE incoming.price <= resting.price

OppositeBook(incoming) == obook[incoming.pair, Opposite(incoming.side)]

\* Positions of the opposite book that can fill the incoming order.
Fillable(incoming) ==
    {i \in DOMAIN OppositeBook(incoming) :
        LET o == orders[OppositeBook(incoming)[i]]
        IN  IsOpen(o) /\ o.remaining > 0 /\ order_matches(incoming, o)}

\* Faulty: the newest order of a price comes first.
BeatsNewest(incoming, i, j) ==
    LET a == orders[OppositeBook(incoming)[i]]
        b == orders[OppositeBook(incoming)[j]]
    IN  \/ BetterPrice(incoming.side, a.price, b.price)
        \/ a.price = b.price /\ a.timestamp > b.timestamp
        \/ a.price = b.price /\ a.timestamp = b.timestamp /\ i <= j

\* The position the scan of pick_best_match_index ends with: best price for
\* the incoming side, then earliest timestamp, then first in the book.
Beats(incoming, i, j) ==
    LET a == orders[OppositeBook(incoming)[i]]
        b == orders[OppositeBook(incoming)[j]]
    IN  \/ BetterPrice(incoming.side, a.price, b.price)
        \/ a.price = b.price /\ a.timestamp < b.timestamp
        \/ a.price = b.price /\ a.timestamp = b.timestamp /\ i <= j

pick_best_match_index(incoming) ==
    {i \in Fillable(incoming) : \A j \in Fillable(incoming) : Beats(incoming, i, j)}

available_fill_for_order(incoming) ==
    SumFunction([i \in Fillable(incoming) |-> orders[OppositeBook(incoming)[i]].remaining])

-----------------------------------------------------------------------------
(* The trade log *)

TradeRecord(trader, pair, amount, price, side) ==
    [trader |-> trader, pair |-> pair,
     signed_amount |-> IF side = "Buy" THEN amount ELSE -amount,
     price |-> price, timestamp |-> now]

\* n records that together trade `volume`.
record_trades(ts, volume) ==
    /\ trades' = trades \o ts
    /\ stats' = [total_trades |-> stats.total_trades + Len(ts),
                 total_volume |-> stats.total_volume + volume]

-----------------------------------------------------------------------------
(* Limit orders *)

NewOrder(trader, pair, side, price, amount, tif) ==
    [owner |-> trader, pair |-> pair, side |-> side, price |-> price,
     amount |-> amount, remaining |-> amount, status |-> "Open", tif |-> tif,
     timestamp |-> now]

\* Faulty: fill-or-kill is not checked before the loop.
create_limit_order_unchecked(trader, pair, side, price, amount, tif) ==
    LET order == NewOrder(trader, pair, side, price, amount, tif) IN
    /\ taker = 0
    /\ amount > 0 /\ price > 0
    /\ o_cnt < MaxOrders
    /\ o_cnt' = o_cnt + 1
    /\ orders' = [i \in 1..(o_cnt + 1) |-> IF i \in 1..o_cnt THEN orders[i] ELSE order]
    /\ taker' = o_cnt + 1
    /\ UNCHANGED <<obook, trades, stats, now>>

\* create_limit_order up to its matching loop.
create_limit_order(trader, pair, side, price, amount, tif) ==
    LET order == NewOrder(trader, pair, side, price, amount, tif) IN
    /\ taker = 0
    /\ amount > 0 /\ price > 0
    /\ tif = "Fok" => available_fill_for_order(order) >= amount
    /\ o_cnt < MaxOrders
    /\ o_cnt' = o_cnt + 1
    /\ orders' = [i \in 1..(o_cnt + 1) |-> IF i \in 1..o_cnt THEN orders[i] ELSE order]
    /\ taker' = o_cnt + 1
    /\ UNCHANGED <<obook, trades, stats, now>>

StatusAfterFill(remaining) == IF remaining = 0 THEN "Filled" ELSE "PartiallyFilled"

Filled(o, fill) ==
    [o EXCEPT !.remaining = @ - fill, !.status = StatusAfterFill(o.remaining - fill)]

\* One iteration of match_limit_order: the best resting order is filled at
\* its own price, and both sides are logged.  The loop's two `continue`
\* branches re-test what pick_best_match_index has just tested.
match_limit_order ==
    LET incoming == orders[taker] IN
    /\ taker # 0
    /\ incoming.remaining > 0
    /\ \E i \in pick_best_match_index(incoming) :
         LET maker_id == OppositeBook(incoming)[i]
             maker    == orders[maker_id]
             fill     == IF incoming.remaining < maker.remaining
                         THEN incoming.remaining ELSE maker.remaining
         IN  /\ orders' = [orders EXCEPT ![maker_id] = Filled(maker, fill),
                                         ![taker] = Filled(incoming, fill)]
             /\ obook' = IF maker.remaining = fill
                         THEN [obook EXCEPT ![<<maker.pair, maker.side>>] =
                                 remove_order_from_book(@, maker_id)]
                         ELSE obook
             /\ record_trades(
                  <<TradeRecord(incoming.owner, incoming.pair, fill, maker.price, incoming.side),
                    TradeRecord(maker.owner, maker.pair, fill, maker.price, maker.side)>>,
                  2 * fill)
    /\ UNCHANGED <<o_cnt, taker, now>>

\* Faulty: only a filled order leaves the loop.
OnlyWhenFilled(order) == order.remaining <= 0

\* The matching loop is over: nothing remains, or nothing matches.
LoopIsOver(order) == order.remaining <= 0 \/ Fillable(order) = {}

\* The rest of create_limit_order.  A Fok remainder would return Err and roll
\* the whole invocation back; FokCovered shows that it never comes to that.
finish_order ==
    LET order == orders[taker] IN
    /\ taker # 0
    /\ LoopIsOver(order)
    /\ order.tif = "Fok" => order.remaining <= 0
    /\ obook' = IF order.tif = "Gtc" /\ order.remaining > 0
                THEN [obook EXCEPT ![<<order.pair, order.side>>] = Append(@, taker)]
                ELSE obook
    /\ orders' = IF order.tif = "Ioc" /\ order.remaining > 0
                 THEN [orders EXCEPT ![taker].status = "Cancelled"]
                 ELSE orders
    /\ taker' = 0
    /\ UNCHANGED <<o_cnt, trades, stats, now>>

\* Not gated by the pause level.
cancel_order(trader, id) ==
    /\ taker = 0
    /\ orders[id].owner = trader
    /\ IsOpen(orders[id])
    /\ orders' = [orders EXCEPT ![id].status = "Cancelled"]
    /\ obook' = [obook EXCEPT ![<<orders[id].pair, orders[id].side>>] =
                   remove_order_from_book(@, id)]
    /\ UNCHANGED <<o_cnt, taker, trades, stats, now>>

-----------------------------------------------------------------------------
BookInit ==
    /\ o_cnt = 0
    /\ orders = [i \in 1..0 |-> i]
    /\ obook = [k \in Pairs \X OrderSide |-> <<>>]
    /\ taker = 0
    /\ trades = <<>>
    /\ stats = [total_trades |-> 0, total_volume |-> 0]

Tick == taker = 0 /\ LedgerCloses /\ UNCHANGED bookVars

Next ==
    \/ \E u \in Users, k \in Pairs, s \in OrderSide, p \in Prices, a \in Amounts,
          tif \in TimeInForce : create_limit_order(u, k, s, p, a, tif)
    \/ match_limit_order
    \/ finish_order
    \/ \E u \in Users, id \in 1..o_cnt : cancel_order(u, id)
    \/ Tick

Init == BookInit /\ now = 0

vars == <<bookVars, now>>

Spec == Init /\ [][Next]_vars

\* The host runs an invocation to its end.
Fairness == WF_vars(match_limit_order \/ finish_order)

FairSpec == Spec /\ Fairness

-----------------------------------------------------------------------------
OrderConsistent(o) ==
    /\ 0 <= o.remaining /\ o.remaining <= o.amount
    /\ o.price > 0 /\ o.amount > 0
    /\ o.timestamp <= now
    /\ o.status = "Filled" <=> o.remaining = 0
    /\ o.status = "Open" => o.remaining = o.amount
    /\ o.status = "PartiallyFilled" => o.remaining < o.amount

\* What the orders have filled is the logged volume, and bought and sold
\* amounts cancel out.
FillsBalance ==
    /\ SumFunction([id \in 1..o_cnt |-> orders[id].amount - orders[id].remaining])
          = stats.total_volume
    /\ SumFunction([i \in DOMAIN trades |-> trades[i].signed_amount]) = 0
    /\ stats.total_trades = Len(trades)

Rests(ids, k) ==
    \A i \in DOMAIN ids :
        /\ orders[ids[i]].pair = k[1] /\ orders[ids[i]].side = k[2]
        /\ orders[ids[i]].tif = "Gtc"
        /\ IsOpen(orders[ids[i]])
        /\ ids[i] # taker

Ascending(ids) == \A i, j \in DOMAIN ids : i < j => ids[i] < ids[j]

(***************************************************************************)
(* Books, orders and trades agree between any two steps.  An order's       *)
(* status agrees with what remains of it and nothing is overfilled; a book *)
(* lists open good-till-cancelled orders of its pair and side, each once   *)
(* and in the order of their ids; every open order except the one in hand  *)
(* is in its book; and matching creates and loses nothing                  *)
(* (match_limit_order, cancel_order and finish_order each update them all).*)
(***************************************************************************)
BookSound ==
    /\ BookTypeOK
    /\ \A id \in 1..o_cnt : OrderConsistent(orders[id])
    /\ \A k \in Pairs \X OrderSide : Rests(obook[k], k) /\ Ascending(obook[k])
    /\ \A id \in 1..o_cnt :
         (IsOpen(orders[id]) /\ id # taker)
             => Listed(obook[orders[id].pair, orders[id].side], id)
    /\ FillsBalance

(***************************************************************************)
(* The book is never crossed: no resting buy reaches the price of a        *)
(* resting sell of the same pair, because a remainder rests only when      *)
(* match_limit_order found nothing left to match.                          *)
(***************************************************************************)
NeverCrossed ==
    \A k \in Pairs :
        \A i \in DOMAIN obook[k, "Buy"], j \in DOMAIN obook[k, "Sell"] :
            orders[obook[k, "Buy"][i]].price < orders[obook[k, "Sell"][j]].price

(***************************************************************************)
(* A fill-or-kill order that passed the check before the loop finds its    *)
(* whole remainder in the book at every iteration, so the check after the  *)
(* loop never fails (create_limit_order tests twice).                      *)
(***************************************************************************)
FokCovered ==
    (taker # 0 /\ orders[taker].tif = "Fok")
        => available_fill_for_order(orders[taker]) >= orders[taker].remaining

\* Nothing in the book comes before the order m that is being filled.
ComesFirst(m) ==
    /\ \A o \in 1..o_cnt :
         (/\ o # taker /\ o # m /\ IsOpen(orders[o])
          /\ orders[o].pair = orders[m].pair
          /\ orders[o].side = orders[m].side)
         => \/ BetterPrice(orders[taker].side, orders[m].price, orders[o].price)
            \/ orders[m].price = orders[o].price /\ m < o
    /\ order_matches(orders[taker], orders[m])

(***************************************************************************)
(* Price-time priority over the order ids: an order is filled from the     *)
(* book only when no other order of that side has a better price, or the   *)
(* same price and a smaller id, and never at a price worse than the        *)
(* taker's limit (pick_best_match_index compares prices and timestamps and *)
(* never looks at ids).                                                    *)
(***************************************************************************)
PriorityKept ==
    [][\A m \in 1..o_cnt :
          (m # taker /\ orders[m].remaining # orders'[m].remaining)
              => ComesFirst(m) /\ trades'[Len(trades')].price = orders[m].price]_vars

(***************************************************************************)
(* The matching loop ends: an order taken in hand is eventually filled,    *)
(* rested or cancelled.                                                    *)
(***************************************************************************)
MatchingEnds == taker # 0 ~> taker = 0
=============================================================================
