----------------------------- MODULE MCTrading -----------------------------
(* TLC instance of Trading: alice deploys and administers the contract.    *)
EXTENDS Trading

Limit(w, u, g, p) ==
    [window_secs |-> w, user_limit |-> u, global_limit |-> g, premium_user_limit |-> p]

MCDefaultRateLimit == Limit(2, 1, 3, 2)
MCRateLimits == {Limit(1, 2, 2, 1), Limit(0, 1, 1, 1)}

MCCbConfigs == {[max_volume_per_period |-> 4, max_tx_count_per_period |-> 2,
                 period_duration |-> 2],
                [max_volume_per_period |-> 2, max_tx_count_per_period |-> 3,
                 period_duration |-> 1],
                [max_volume_per_period |-> 0, max_tx_count_per_period |-> 0,
                 period_duration |-> 1]}

Item(n, p, s) == [pair |-> "XLMUSD", amount |-> n, price |-> p, side |-> s]

MCBatches == {<<>>,
              <<Item(1, 0, "Buy")>>,
              <<Item(1, 1, "Buy"), Item(2, 1, "Sell")>>,
              <<Item(1, 1, "Buy"), Item(0, 1, "Sell")>>,
              <<Item(1, 1, "Buy"), Item(1, 1, "Buy"), Item(1, 1, "Buy")>>}

-----------------------------------------------------------------------------
(* One behaviour is one of three scenarios, with bounds of its own below   *)
(* those of the constants: the three vary different things.  Deployment at *)
(* a later ledger is left to the second.                                   *)

VARIABLE scenario

mcVars == <<tradingVars, scenario>>

Deployment(configs) == \E c \in configs : deploy("alice", {}, "alice", c)

\* The gate and its administration: two orders, one trade, two
\* ledgers, and only bob is ever premium.
GateNext ==
    /\ \/ Deployment({c \in CbConfigs : c.period_duration = 2})
       \/ AdminNext
       \/ TradeNext
       \/ BatchNext
       \/ CancelNext
       \/ ContinueInvocation
       \/ LedgerTick /\ initialized
    /\ o_cnt' <= 2 /\ Len(trades') <= 1 /\ now' <= 1 /\ prem' \subseteq {"bob"}

\* The breaker and the rate limit left to themselves.
UnattendedNext ==
    \/ Deployment(CbConfigs)
    \/ TradeNext
    \/ BatchNext
    \/ ContinueInvocation
    \/ LedgerTick

\* Private trades, with an administrator who appoints auditors.
PrivateNext ==
    /\ \/ Deployment({c \in CbConfigs : c.period_duration = 2})
       \/ assign_permission("alice", ROLE_ADMIN, "audit")
            /\ UNCHANGED <<cbVars, bookVars, rateVars, privVars, now, touched>>
       \/ PrivateTrade
       \/ LedgerTick /\ initialized
    /\ now' <= 1

MCInit == TradingInit /\ scenario \in {"gate", "unattended", "private"}

MCNext ==
    /\ \/ scenario = "gate" /\ GateNext
       \/ scenario = "unattended" /\ UnattendedNext
       \/ scenario = "private" /\ PrivateNext
    /\ UNCHANGED scenario

MCSpec == MCInit /\ [][MCNext]_mcVars
=============================================================================
