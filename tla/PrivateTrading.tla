--------------------------- MODULE PrivateTrading ---------------------------
(***************************************************************************)
(* Private trades of the trading contract (trading/src/lib.rs): solvency   *)
(* proofs, balance commitments, private trade records, view keys and       *)
(* audits.  Hashes and commitments are drawn from a set; the all-zero one, *)
(* which every endpoint refuses, is not in it.  The assets, liabilities    *)
(* and amount commitments and the key material are stored and never read.  *)
(***************************************************************************)
EXTENDS ACL, HostClock

CONSTANTS
    Hashes,          \* proof hashes and balance commitments
    ProofTtl,        \* validity of a solvency proof (3600 s in the code)
    MaxPrivate,      \* bound on proofs, balance updates and private trades
    MaxAudits        \* bound on view keys and audits

ASSUME ProofTtlAssumption == ProofTtl \in Nat /\ MaxPrivate \in Nat /\ MaxAudits \in Nat

VARIABLES
    solv_prf,   \* the last solvency proof of a trader; nonce 0: none yet
    prv_bal,    \* the last balance commitment of a trader; nonce 0: none yet
    prv_trd,    \* private trades; the id is the position
    cmp_key,    \* version of a trader's view key; 0: none yet
    prv_aud     \* audits; the id is the position

privVars == <<solv_prf, prv_bal, prv_trd, cmp_key, prv_aud>>

NoHash == "none"

\* The type invariant of the private trades.
PrivTypeOK ==
    /\ solv_prf \in [Users -> [proof_hash : Hashes \cup {NoHash}, nonce : Nat,
                               expires_at : Nat]]
    /\ prv_bal \in [Users -> [commitment : Hashes \cup {NoHash}, nonce : Nat]]
    /\ prv_trd \in Seq([trader : Users, balance_commitment : Hashes,
                        solvency_proof_hash : Hashes, timestamp : Nat])
    /\ cmp_key \in [Users -> Nat]
    /\ prv_aud \in Seq([trade_id : Nat, auditor : Users, trader : Users])

PrivInit ==
    /\ solv_prf = [u \in Users |-> [proof_hash |-> NoHash, nonce |-> 0, expires_at |-> 0]]
    /\ prv_bal = [u \in Users |-> [commitment |-> NoHash, nonce |-> 0]]
    /\ prv_trd = <<>>
    /\ cmp_key = [u \in Users |-> 0]
    /\ prv_aud = <<>>

submit_solvency_proof(trader, hash) ==
    /\ initialized
    /\ solv_prf[trader].nonce < MaxPrivate
    /\ solv_prf' = [solv_prf EXCEPT ![trader] =
                      [proof_hash |-> hash, nonce |-> @.nonce + 1,
                       expires_at |-> now + ProofTtl]]
    /\ UNCHANGED <<prv_bal, prv_trd, cmp_key, prv_aud>>

\* Faulty: the nonce is left behind.
NextBalanceSameNonce(trader, commitment) ==
    prv_bal' = [prv_bal EXCEPT ![trader].commitment = commitment]

NextBalance(trader, commitment) ==
    prv_bal' = [prv_bal EXCEPT ![trader] =
                  [commitment |-> commitment, nonce |-> @.nonce + 1]]

update_private_balance(trader, commitment) ==
    /\ initialized
    /\ prv_bal[trader].nonce < MaxPrivate
    /\ NextBalance(trader, commitment)
    /\ UNCHANGED <<solv_prf, prv_trd, cmp_key, prv_aud>>

\* Neither the pause level nor the rate limit is consulted, and the proof is
\* compared by its hash alone: its balance commitment is not read.
execute_private_trade(trader, price, commitment, hash) ==
    /\ initialized
    /\ price > 0
    /\ solv_prf[trader].nonce > 0
    /\ now <= solv_prf[trader].expires_at
    /\ solv_prf[trader].proof_hash = hash
    /\ Len(prv_trd) < MaxPrivate /\ prv_bal[trader].nonce < MaxPrivate
    /\ prv_trd' = Append(prv_trd, [trader |-> trader, balance_commitment |-> commitment,
                                   solvency_proof_hash |-> hash, timestamp |-> now])
    /\ NextBalance(trader, commitment)
    /\ UNCHANGED <<solv_prf, cmp_key, prv_aud>>

register_compliance_view_key(trader) ==
    /\ initialized
    /\ cmp_key[trader] < MaxAudits
    /\ cmp_key' = [cmp_key EXCEPT ![trader] = @ + 1]
    /\ UNCHANGED <<solv_prf, prv_bal, prv_trd, prv_aud>>

audit_private_trade(auditor, id) ==
    /\ require_permission(auditor, "audit")
    /\ Len(prv_aud) < MaxAudits
    /\ prv_aud' = Append(prv_aud, [trade_id |-> id, auditor |-> auditor,
                                   trader |-> prv_trd[id].trader])
    /\ UNCHANGED <<solv_prf, prv_bal, prv_trd, cmp_key>>

PrivNext ==
    \/ \E u \in Users, h \in Hashes :
         \/ submit_solvency_proof(u, h)
         \/ update_private_balance(u, h)
         \/ \E p \in {0, 1}, c \in Hashes : execute_private_trade(u, p, c, h)
    \/ \E u \in Users :
         \/ register_compliance_view_key(u)
         \/ \E id \in DOMAIN prv_trd : audit_private_trade(u, id)

-----------------------------------------------------------------------------
(***************************************************************************)
(* The trader's balance commitment is the newest private trade's unless a  *)
(* later update replaced it: its nonce counts both kinds of writes, so it  *)
(* is never behind the number of the trader's trades                       *)
(* (execute_private_trade and update_private_balance share the record).    *)
(***************************************************************************)
BalanceFollowsTrades ==
    \A u \in Users :
        LET mine == {i \in DOMAIN prv_trd : prv_trd[i].trader = u}
        IN  /\ Cardinality(mine) <= prv_bal[u].nonce
            /\ (mine # {} /\ prv_bal[u].nonce = Cardinality(mine))
                  => \E i \in mine :
                       /\ \A j \in mine : j <= i
                       /\ prv_bal[u].commitment = prv_trd[i].balance_commitment
=============================================================================
