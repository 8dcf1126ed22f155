------------------------------- MODULE MCAuth -------------------------------
(* TLC instance of Auth: three requests from an empty database, or two     *)
(* requests after a login and a bind have given an account two wallets.    *)
EXTENDS Auth, TLC

Untouched == [op |-> None, pc |-> "idle", key |-> None, nonce |-> None,
              user |-> None, token |-> None, rivals |-> {}, bound |-> None]

TwoWallets(r1, r2, n1, n2, k1, k2) ==
    /\ nonces = [n \in Nonces |-> [key |-> IF n = n1 THEN k1 ELSE k2,
                                   expired |-> FALSE, status |-> "used"]]
    /\ users = [r \in Requests |-> IF r = r1 THEN "active" ELSE None]
    /\ wallets = [k \in Keys |-> IF k = k1
                                 THEN [row |-> r1, user |-> r1, isPrimary |-> TRUE]
                                 ELSE [row |-> r2, user |-> r1, isPrimary |-> FALSE]]
    /\ tokens = [r \in Requests |->
                   IF r = r1 THEN [user |-> r1, revoked |-> FALSE, expired |-> FALSE,
                                   parent |-> None] ELSE None]
    /\ bearers = {r1}
    /\ req = [r \in Requests |->
                CASE r = r1 -> [Untouched EXCEPT !.op = "login", !.pc = "done",
                                  !.key = k1, !.nonce = n1, !.user = r1]
                  [] r = r2 -> [Untouched EXCEPT !.op = "bind", !.pc = "done",
                                  !.key = k2, !.nonce = n2, !.user = r1]
                  [] OTHER -> Untouched]

MCInit ==
    \/ /\ AuthInit!1 /\ AuthInit!2 /\ AuthInit!3 /\ AuthInit!4 /\ AuthInit!5
       /\ \E gone \in Requests :
            req = [r \in Requests |-> IF r = gone THEN [Untouched EXCEPT !.pc = "refused"]
                                                  ELSE Untouched]
    \/ \E r1, r2 \in Requests, n1, n2 \in Nonces, k1, k2 \in Keys :
         /\ r1 # r2 /\ n1 # n2 /\ k1 # k2
         /\ TwoWallets(r1, r2, n1, n2, k1, k2)

MCSpec == MCInit /\ [][AuthNext]_authVars

AuthSymmetry == Permutations(Keys) \cup Permutations(Nonces) \cup Permutations(Requests)
=============================================================================
