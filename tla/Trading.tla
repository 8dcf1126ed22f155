------------------------------ MODULE Trading ------------------------------
(***************************************************************************)
(* The trading contract (Contracts/contracts/trading/src/lib.rs): the      *)
(* order book, direct trades and batches behind one gate (initialized,     *)
(* rate limit, circuit breaker), the administration of that gate, and the  *)
(* private trades that go round it.                                        *)
(*                                                                         *)
(* Fees are a token transfer in the same invocation: when it fails the     *)
(* whole call is rolled back, so it is left out.                           *)
(***************************************************************************)
EXTENDS PrivateTrading, CircuitBreaker

CONSTANTS
    Pairs, Prices, Amounts, MaxOrders,
    Batches,          \* batches of trades a trader submits
    MaxBatchSize,     \* longest batch accepted (25 in the code)
    DefaultRateLimit, \* the configuration init stores
    RateLimits,       \* configurations an administrator sets
    MaxTrades         \* bound on the length of the trade log

RateLimitConfig ==
    [window_secs : Nat, user_limit : Nat, global_limit : Nat, premium_user_limit : Nat]

BatchItem == [pair : Pairs, amount : Int, price : Int, side : {"Buy", "Sell"}]

\* init stores limits of 60 s, 5, 100 and 20.
ASSUME RateLimitsAssumption ==
    /\ DefaultRateLimit \in RateLimitConfig /\ RateLimits \subseteq RateLimitConfig
    /\ \A f \in DOMAIN DefaultRateLimit : DefaultRateLimit[f] # 0
ASSUME TradeInputsAssumption ==
    /\ Prices \subseteq Int /\ Amounts \subseteq Int /\ Batches \subseteq Seq(BatchItem)
    /\ MaxOrders \in Nat /\ MaxBatchSize \in Nat /\ MaxTrades \in Nat

VARIABLES
    o_cnt, orders, obook, taker, trades, stats,
    rl_cfg,    \* rate-limit configuration
    prem,      \* premium users
    rlu,       \* calls of a user in a window
    rlg,       \* calls of everybody in a window
    touched    \* not in the code: what administrators have set since init,
               \* "pause" (the level) or "rate" (the limits)

Book == INSTANCE OrderBook

bookVars == <<o_cnt, orders, obook, taker, trades, stats>>
rateVars == <<rl_cfg, prem, rlu, rlg>>
tradingVars == <<aclVars, cbVars, bookVars, rateVars, privVars, now, touched>>

Windows == 0..MaxTime

\* The type invariant of the whole contract.
TradingTypeOK ==
    /\ AclTypeOK
    /\ CbTypeOK
    /\ Book!BookTypeOK
    /\ rl_cfg \in RateLimitConfig
    /\ prem \in SUBSET Users
    /\ rlu \in [Users \X Windows -> Nat]
    /\ rlg \in [Windows -> Nat]
    /\ PrivTypeOK
    /\ touched \in SUBSET {"pause", "rate"}

-----------------------------------------------------------------------------
(* The gate *)

UserLimit(u) == IF u \in prem THEN rl_cfg.premium_user_limit ELSE rl_cfg.user_limit

\* Faulty: the global count is not written; a limit is one call too generous.
check_and_consume_for_user(u) ==
    LET window == now \div rl_cfg.window_secs IN
    /\ rlu[u, window] < UserLimit(u)
    /\ rlg[window] < rl_cfg.global_limit
    /\ rlu' = [rlu EXCEPT ![<<u, window>>] = @ + 1]
    /\ UNCHANGED <<rlg, rl_cfg, prem>>

check_and_consume_one_more(u) ==
    LET window == now \div rl_cfg.window_secs IN
    /\ rlu[u, window] <= UserLimit(u)
    /\ rlg[window] <= rl_cfg.global_limit
    /\ rlu' = [rlu EXCEPT ![<<u, window>>] = @ + 1]
    /\ rlg' = [rlg EXCEPT ![window] = @ + 1]
    /\ UNCHANGED <<rl_cfg, prem>>

check_and_consume_trade_rate_limit(u) ==
    LET window == now \div rl_cfg.window_secs IN
    /\ rlu[u, window] < UserLimit(u)
    /\ rlg[window] < rl_cfg.global_limit
    /\ rlu' = [rlu EXCEPT ![<<u, window>>] = @ + 1]
    /\ rlg' = [rlg EXCEPT ![window] = @ + 1]
    /\ UNCHANGED <<rl_cfg, prem>>

ensure_tradeable(u) ==
    /\ taker = 0
    /\ initialized
    /\ check_and_consume_trade_rate_limit(u)
    /\ require_not_paused("trade")

-----------------------------------------------------------------------------
(* Deployment and administration.  An invocation runs to its end before    *)
(* the next one starts: nothing happens between while an order is in hand. *)

\* The zero configurations are refused by set_rate_limit_config, so the
\* check for them in the gate never fails.
deploy(admin, approvers, executor, config) ==
    /\ init(admin, approvers, executor)
    /\ cb_init(config)
    /\ rl_cfg' = DefaultRateLimit
    /\ prem' = {}
    /\ UNCHANGED <<rlu, rlg, bookVars, privVars, now, touched>>

set_rate_limit_config(admin, cfg) ==
    /\ require_permission(admin, "set_rate")
    /\ \A f \in DOMAIN cfg : cfg[f] # 0
    /\ rl_cfg' = cfg
    /\ touched' = touched \cup {"rate"}
    /\ UNCHANGED <<aclVars, cbVars, bookVars, prem, rlu, rlg, privVars, now>>

set_premium_user(admin, user, is_premium) ==
    /\ require_permission(admin, "premium")
    /\ prem' = IF is_premium THEN prem \cup {user} ELSE prem \ {user}
    /\ UNCHANGED <<aclVars, cbVars, bookVars, rl_cfg, rlu, rlg, privVars, now, touched>>

\* set_pause_level, and pause and unpause with their fixed levels.
set_pause_level(admin, level) ==
    /\ require_permission(admin, "pause")
    /\ set_level(level)
    /\ touched' = touched \cup {"pause"}
    /\ UNCHANGED <<aclVars, bookVars, rateVars, privVars, now>>

unpause(admin) ==
    /\ require_permission(admin, "unpause")
    /\ set_level("None")
    /\ touched' = touched \cup {"pause"}
    /\ UNCHANGED <<aclVars, bookVars, rateVars, privVars, now>>

pause_function(admin, fn) ==
    /\ require_permission(admin, "pause")
    /\ pause_fn(fn)
    /\ touched' = touched \cup {"pause"}
    /\ UNCHANGED <<aclVars, bookVars, rateVars, privVars, now>>

unpause_function(admin, fn) ==
    /\ require_permission(admin, "unpause")
    /\ unpause_fn(fn)
    /\ UNCHANGED <<aclVars, bookVars, rateVars, privVars, now, touched>>

-----------------------------------------------------------------------------
(* Trading *)

\* The breaker is asked before the trade is counted: the trade that trips it
\* still goes through.
trade(trader, pair, amount, price, side) ==
    /\ amount > 0 /\ price > 0
    /\ ensure_tradeable(trader)
    /\ track_activity(amount)
    /\ Len(trades) < MaxTrades
    /\ Book!record_trades(<<Book!TradeRecord(trader, pair, amount, price, side)>>, amount)
    /\ UNCHANGED <<aclVars, o_cnt, orders, obook, taker, privVars, now, touched>>

BatchVolume(batch) == Book!SumFunction([i \in DOMAIN batch |-> batch[i].amount])

\* One unit of the rate limit for the whole batch; the breaker does not
\* count it, and the prices are not looked at.  An empty batch does nothing.
batch_trade(trader, batch) ==
    /\ batch # <<>> /\ Len(batch) <= MaxBatchSize
    /\ \A i \in DOMAIN batch : batch[i].amount > 0
    /\ ensure_tradeable(trader)
    /\ Len(trades) + Len(batch) <= MaxTrades
    /\ Book!record_trades(
         [i \in DOMAIN batch |-> Book!TradeRecord(trader, batch[i].pair, batch[i].amount,
                                                  batch[i].price, batch[i].side)],
         BatchVolume(batch))
    /\ UNCHANGED <<aclVars, cbVars, o_cnt, orders, obook, taker, privVars, now, touched>>

\* Limit orders pass the gate but are not counted by the breaker.
create_limit_order(trader, pair, side, price, amount, tif) ==
    /\ ensure_tradeable(trader)
    /\ Book!create_limit_order(trader, pair, side, price, amount, tif)
    /\ UNCHANGED <<aclVars, cbVars, privVars, touched>>

cancel_order(trader, id) ==
    /\ initialized
    /\ Book!cancel_order(trader, id)
    /\ UNCHANGED <<aclVars, cbVars, rateVars, privVars, touched>>

\* What the running create_limit_order still has to do.
ContinueInvocation ==
    /\ Book!match_limit_order \/ Book!finish_order
    /\ UNCHANGED <<aclVars, cbVars, rateVars, privVars, touched>>

PrivateTrade ==
    /\ taker = 0
    /\ PrivNext
    /\ UNCHANGED <<aclVars, cbVars, bookVars, rateVars, now, touched>>

-----------------------------------------------------------------------------
TradingInit ==
    /\ AclInit
    /\ CbInit
    /\ Book!BookInit
    /\ rl_cfg = DefaultRateLimit
    /\ prem = {}
    /\ rlu = [x \in Users \X Windows |-> 0]
    /\ rlg = [w \in Windows |-> 0]
    /\ PrivInit
    /\ now = 0
    /\ touched = {}

DeployNext ==
    \E a, e \in Users, as \in SUBSET Users, c \in CbConfigs : deploy(a, as, e, c)

AclCall ==
    /\ taker = 0
    /\ AclEndpoints
    /\ UNCHANGED <<cbVars, bookVars, rateVars, privVars, now, touched>>

AdminNext ==
    /\ taker = 0
    /\ \E a \in Users :
       \/ \E c \in RateLimits : set_rate_limit_config(a, c)
       \/ \E u \in Users, b \in BOOLEAN : set_premium_user(a, u, b)
       \/ \E l \in PauseLevel : set_pause_level(a, l)
       \/ unpause(a)
       \/ \E f \in PausableFns : pause_function(a, f) \/ unpause_function(a, f)

TradeNext ==
    \E u \in Users, k \in Pairs, s \in Book!OrderSide, p \in Prices, n \in Amounts :
       \/ trade(u, k, n, p, s)
       \/ \E tif \in Book!TimeInForce : create_limit_order(u, k, s, p, n, tif)

BatchNext == \E u \in Users, b \in Batches : batch_trade(u, b)

CancelNext == \E u \in Users, id \in 1..o_cnt : cancel_order(u, id)

LedgerTick ==
    /\ taker = 0
    /\ LedgerCloses
    /\ UNCHANGED <<aclVars, cbVars, bookVars, rateVars, privVars, touched>>

TradingNext ==
    \/ DeployNext \/ AclCall \/ AdminNext
    \/ TradeNext \/ BatchNext \/ CancelNext \/ ContinueInvocation
    \/ PrivateTrade
    \/ LedgerTick

TradingSpec == TradingInit /\ [][TradingNext]_tradingVars

-----------------------------------------------------------------------------
(***************************************************************************)
(* The two rate-limit counters agree in every window, whatever becomes of  *)
(* the configuration and the premium list: the global count is the sum of  *)
(* the users' counts (check_and_consume_trade_rate_limit writes both).     *)
(***************************************************************************)
RateCountersAgree ==
    TradingTypeOK /\ \A w \in Windows : rlg[w] = Book!SumFunction([u \in Users |-> rlu[u, w]])

PlacedIn(u, w) ==
    {id \in 1..o_cnt : orders[id].owner = u /\ orders[id].timestamp \div rl_cfg.window_secs = w}

(***************************************************************************)
(* Until an administrator sets other limits, they hold for wall-clock      *)
(* windows, whoever becomes premium or stops being it: the limit orders an *)
(* address placed in a window are covered by its counter, and no counter   *)
(* passes the largest limit it can have had                                *)
(* (check_and_consume_trade_rate_limit, before every order).               *)
(***************************************************************************)
CallsWithinRate ==
    "rate" \notin touched =>
        \A u \in Users, w \in Windows :
            /\ Cardinality(PlacedIn(u, w)) <= rlu[u, w]
            /\ \/ rlu[u, w] <= rl_cfg.user_limit
               \/ rlu[u, w] <= rl_cfg.premium_user_limit
            /\ rlg[w] <= rl_cfg.global_limit

(***************************************************************************)
(* Until an administrator sets the pause level, reaching a threshold means *)
(* a full pause, and so the count of a period never passes the threshold,  *)
(* but for the first trade where the threshold is below one                *)
(* (track_activity reads the level before the trade and writes it after).  *)
(***************************************************************************)
BreakerTrips ==
    (/\ initialized /\ "pause" \notin touched
     /\ OverThreshold(cb_state) /\ cb_state.current_period_tx_count > 0)
        => /\ cb_state.pause_level = "Full"
           /\ \/ cb_state.current_period_tx_count <= cb_config.max_tx_count_per_period
              \/ cb_state.current_period_tx_count = 1

Volume(trade_record) ==
    IF trade_record.signed_amount < 0 THEN -trade_record.signed_amount
                                      ELSE trade_record.signed_amount

(***************************************************************************)
(* The running totals are those of the trade log, whichever way a trade    *)
(* came about: directly, in a batch or by matching two orders, where both  *)
(* sides are logged (record_trade keeps the log and the totals apart).     *)
(***************************************************************************)
TotalsFollowLog ==
    /\ stats.total_trades = Len(trades)
    /\ stats.total_volume = Book!SumFunction([i \in DOMAIN trades |-> Volume(trades[i])])
=============================================================================
