---------------------------- MODULE MCOrderBook ----------------------------
(* TLC instance of OrderBook.  Nothing tells one pair from another, so the *)
(* first order is taken to be on the first pair.                           *)
EXTENDS OrderBook

CONSTANT FirstPair

MCNext == Next /\ (o_cnt' = 1 => orders'[1].pair = FirstPair)

MCSpec == Init /\ [][MCNext]_vars /\ Fairness
=============================================================================
