--------------------------- MODULE WebhookPromise ---------------------------
(***************************************************************************)
(* What the webhook service promises for each pair of an event and a       *)
(* consumer, without saying how: the pair becomes owed when the event is   *)
(* queued, and an owed pair is settled (delivered, or recorded as failed)  *)
(* or dropped, at most once, and stays so.  A restart, a consumer that may *)
(* not receive, or one that is gone drops a pair; the abstract level does  *)
(* not say which.  It promises no end: a pair may stay owed.               *)
(***************************************************************************)
CONSTANT Pairs

VARIABLE debt

PromiseInit == debt = [p \in Pairs |-> "none"]

\* Some pairs go from one state to another, the others stay.
Some(from, to) == /\ debt' \in [Pairs -> {"none", "owed", "settled", "dropped"}]
                  /\ \A p \in Pairs : debt'[p] = debt[p] \/ <<debt[p], debt'[p]>> = <<from, to>>

Owe == Some("none", "owed")

DropSome == Some("owed", "dropped")

Close(p) == /\ debt[p] = "owed"
            /\ \E how \in {"settled", "dropped"} : debt' = [debt EXCEPT ![p] = how]

PromiseNext == Owe \/ DropSome \/ \E p \in Pairs : Close(p)

PromiseSpec == PromiseInit /\ [][PromiseNext]_debt
=============================================================================
