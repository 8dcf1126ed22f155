-------------------------------- MODULE Auth --------------------------------
(***************************************************************************)
(* Wallet login, sessions and wallet bindings (Backend/src/auth).  Each    *)
(* HTTP request is a process, and every awaited query of its handler is a  *)
(* step of its own, so requests interleave as they do on the event loop    *)
(* and between instances.  A request inserts at most one row per table, so *)
(* the row it inserts carries the request's name.  A request may die       *)
(* anywhere: the handlers use no transaction.                              *)
(***************************************************************************)
EXTENDS Absent, Naturals, FiniteSets

CONSTANTS
    Keys,       \* Stellar public keys
    Nonces,     \* nonces that may be issued
    Requests    \* requests, and the rows they insert

VARIABLES
    nonces,     \* login_nonces, by nonce
    users,      \* users, by the request that inserted them
    wallets,    \* wallet_bindings, by public key (a unique column)
    tokens,     \* refresh_tokens, by the request that inserted them
    bearers,    \* users holding an access token that has not expired
    req         \* where each request is and what it has read

authVars == <<nonces, users, wallets, tokens, bearers, req>>

Binding == [row : Requests, user : Requests, isPrimary : BOOLEAN]
RefreshToken ==
    [user : Requests, revoked : BOOLEAN, expired : BOOLEAN,
     parent : Requests \cup {None}]
ASSUME NullAssumption ==
    /\ None \notin Keys \cup Nonces \cup Requests \cup Binding \cup RefreshToken
    /\ None \notin {"login", "bind", "unbind", "refresh", "logout", "active", "inactive"}

Ended == {"done", "refused", "died"}
Request ==
    [op    : {None, "login", "bind", "unbind", "refresh", "logout"},
     pc    : Ended \cup {"idle", "mark", "find", "create", "check", "demote", "insert",
              "issue", "rotate", "revokeAll", "count", "remove", "another", "promote"},
     key   : Keys \cup {None},
     nonce : Nonces \cup {None},
     user  : Requests \cup {None},
     token : Requests \cup {None},   \* the refresh token presented
     rivals : SUBSET Requests,       \* history: who else had passed its check by then
     bound : Binding \cup {None}]    \* the binding read by unbindWallet

\* The tables and the requests' local state are well typed.
AuthTypeOK ==
    /\ nonces \in [Nonces -> [key : Keys \cup {None}, expired : BOOLEAN,
                              status : {"unissued", "fresh", "used", "deleted"}]]
    /\ users \in [Requests -> {None, "active", "inactive"}]
    /\ wallets \in [Keys -> Binding \cup {None}]
    /\ tokens \in [Requests -> RefreshToken \cup {None}]
    /\ bearers \subseteq Requests
    /\ req \in [Requests -> Request]

AuthInit ==
    /\ nonces = [n \in Nonces |-> [key |-> None, expired |-> FALSE, status |-> "unissued"]]
    /\ users = [r \in Requests |-> None]
    /\ wallets = [k \in Keys |-> None]
    /\ tokens = [r \in Requests |-> None]
    /\ bearers = {}
    /\ req = [r \in Requests |->
                [op |-> None, pc |-> "idle", key |-> None, nonce |-> None,
                 user |-> None, token |-> None, rivals |-> {}, bound |-> None]]

WalletsOf(u) == {k \in Keys : wallets[k] # None /\ wallets[k].user = u}
At(r, label) == req[r].pc = label
Goto(r, label) == req' = [req EXCEPT ![r].pc = label]

-----------------------------------------------------------------------------
\* Nonces: the endpoint, the five minutes and the hourly clean-up.
generateNonce(n, k) ==
    /\ nonces[n].status = "unissued"
    /\ nonces' = [nonces EXCEPT ![n].status = "fresh", ![n].key = k]
    /\ UNCHANGED <<users, wallets, tokens, bearers, req>>

NonceExpires(n) ==
    /\ nonces[n].status \in {"fresh", "used"} /\ ~nonces[n].expired
    /\ nonces' = [nonces EXCEPT ![n].expired = TRUE]
    /\ UNCHANGED <<users, wallets, tokens, bearers, req>>

cleanupExpiredNonces ==
    /\ \E n \in Nonces : nonces[n].expired /\ nonces[n].status # "deleted"
    /\ nonces' = [n \in Nonces |-> IF nonces[n].expired
                                   THEN [nonces[n] EXCEPT !.status = "deleted"]
                                   ELSE nonces[n]]
    /\ UNCHANGED <<users, wallets, tokens, bearers, req>>

validateNonce(n, k) ==
    nonces[n].key = k /\ nonces[n].status = "fresh" /\ ~nonces[n].expired

\* JwtStrategy.validate: the bearer of an access token of an active user.
Authenticated(u) == u \in bearers /\ users[u] = "active"

\* Faulty: the nonce is spent when the wallet is bound, not before.
AfterSignatureLate(op) == IF op = "login" THEN "find" ELSE "check"

\* What follows a valid signature: markNonceUsed.
AfterSignature(op) == "mark"

\* The first query of a login or of a bind; signed: the signature verifies
\* with the key the request names.
PresentNonce(r, op, u, k, n, signed) ==
    /\ At(r, "idle")
    /\ op = "bind" => Authenticated(u)
    /\ req' = [req EXCEPT ![r] =
                 [@ EXCEPT !.op = op, !.user = u, !.key = k, !.nonce = n,
                           !.pc = IF validateNonce(n, k) /\ signed
                                  THEN AfterSignature(op) ELSE "refused"]]
    /\ UNCHANGED <<nonces, users, wallets, tokens, bearers>>

walletLogin(r, k, n, signed) == PresentNonce(r, "login", None, k, n, signed)
bindWallet(r, u, k, n, signed) == PresentNonce(r, "bind", u, k, n, signed)

\* An UPDATE: nothing happens to a row that was cleaned up meanwhile.
markNonceUsed(r) ==
    /\ At(r, "mark")
    /\ nonces' = [nonces EXCEPT ![req[r].nonce].status =
                    IF @ = "deleted" THEN @ ELSE "used"]
    /\ Goto(r, IF req[r].op = "login" THEN "find" ELSE "check")
    /\ UNCHANGED <<users, wallets, tokens, bearers>>

findUserByWallet(r) ==
    /\ At(r, "find")
    /\ LET b == wallets[req[r].key] IN
       req' = [req EXCEPT ![r] = IF b = None
                                 THEN [@ EXCEPT !.pc = "create"]
                                 ELSE [@ EXCEPT !.pc = "issue", !.user = b.user]]
    /\ UNCHANGED <<nonces, users, wallets, tokens, bearers>>

createUserWithWallet(r) ==
    /\ At(r, "create")
    /\ users' = [users EXCEPT ![r] = "active"]
    /\ req' = [req EXCEPT ![r].user = r, ![r].pc = "check"]
    /\ UNCHANGED <<nonces, wallets, tokens, bearers>>

\* bindWalletToUser: the check, the demotion of the other wallets when the
\* new one is primary (a login's), and the insert, which the unique column
\* refuses if another request bound the key since the check.
CheckUnbound(r) ==
    /\ At(r, "check")
    /\ Goto(r, IF wallets[req[r].key] # None THEN "refused"
               ELSE IF req[r].op = "login" THEN "demote" ELSE "insert")
    /\ UNCHANGED <<nonces, users, wallets, tokens, bearers>>

DemoteOthers(r) ==
    /\ At(r, "demote")
    /\ wallets' = [k \in Keys |-> IF k \in WalletsOf(req[r].user)
                                  THEN [wallets[k] EXCEPT !.isPrimary = FALSE]
                                  ELSE wallets[k]]
    /\ Goto(r, "insert")
    /\ UNCHANGED <<nonces, users, tokens, bearers>>

NewBinding(r) == [row |-> r, user |-> req[r].user, isPrimary |-> req[r].op = "login"]

\* Faulty: no unique column, so the insert shadows the other binding.
InsertBindingTwice(r) ==
    /\ At(r, "insert")
    /\ wallets' = [wallets EXCEPT ![req[r].key] = NewBinding(r)]
    /\ Goto(r, IF req[r].op = "login" THEN "issue" ELSE "done")
    /\ UNCHANGED <<nonces, users, tokens, bearers>>

InsertBinding(r) ==
    /\ At(r, "insert")
    /\ IF wallets[req[r].key] # None
       THEN Goto(r, "refused") /\ UNCHANGED wallets
       ELSE /\ wallets' = [wallets EXCEPT ![req[r].key] = NewBinding(r)]
            /\ Goto(r, IF req[r].op = "login" THEN "issue" ELSE "done")
    /\ UNCHANGED <<nonces, users, tokens, bearers>>

-----------------------------------------------------------------------------
\* The refreshes of a token between its check and its revocation.
Rotating(t) == {s \in Requests : At(s, "rotate") /\ req[s].token = t}

\* Faulty: a revoked token is accepted too.
refreshRevokedToo(r, t) ==
    /\ At(r, "idle")
    /\ tokens[t] # None
    /\ req' = [req EXCEPT ![r] =
                 [@ EXCEPT !.op = "refresh", !.token = t, !.user = tokens[t].user,
                           !.rivals = Rotating(t),
                           !.pc = IF ~tokens[t].expired /\ users[tokens[t].user] = "active"
                                  THEN "rotate" ELSE "refused"]]
    /\ UNCHANGED <<nonces, users, wallets, tokens, bearers>>

\* refreshAccessToken: the checks on the row, the revocation, and the issue
\* of the next token, three queries.
refreshAccessToken(r, t) ==
    /\ At(r, "idle")
    /\ tokens[t] # None
    /\ req' = [req EXCEPT ![r] =
                 [@ EXCEPT !.op = "refresh", !.token = t, !.user = tokens[t].user,
                           !.rivals = Rotating(t),
                           !.pc = IF /\ ~tokens[t].revoked /\ ~tokens[t].expired
                                     /\ users[tokens[t].user] = "active"
                                  THEN "rotate" ELSE "refused"]]
    /\ UNCHANGED <<nonces, users, wallets, tokens, bearers>>

revokeRefreshToken(r) ==
    /\ At(r, "rotate")
    /\ tokens' = [tokens EXCEPT ![req[r].token].revoked = TRUE]
    /\ Goto(r, "issue")
    /\ UNCHANGED <<nonces, users, wallets, bearers>>

\* The new refresh token is stored, then both tokens are returned.
generateRefreshToken(r) ==
    /\ At(r, "issue")
    /\ tokens' = [tokens EXCEPT ![r] = [user |-> req[r].user, revoked |-> FALSE,
                                        expired |-> FALSE, parent |-> req[r].token]]
    /\ bearers' = bearers \cup {req[r].user}
    /\ Goto(r, "done")
    /\ UNCHANGED <<nonces, users, wallets>>

logout(r, u) ==
    /\ At(r, "idle") /\ Authenticated(u)
    /\ req' = [req EXCEPT ![r].op = "logout", ![r].user = u, ![r].pc = "revokeAll"]
    /\ UNCHANGED <<nonces, users, wallets, tokens, bearers>>

revokeAllUserRefreshTokens(r) ==
    /\ At(r, "revokeAll")
    /\ tokens' = [t \in Requests |->
                    IF tokens[t] # None /\ tokens[t].user = req[r].user
                    THEN [tokens[t] EXCEPT !.revoked = TRUE] ELSE tokens[t]]
    /\ Goto(r, "done")
    /\ UNCHANGED <<nonces, users, wallets, bearers>>

-----------------------------------------------------------------------------
\* unbindWallet: the binding, the count, the removal (by row, of whatever is
\* left of it), any other wallet of the user, and its promotion.  The last
\* save writes the row that was read: it inserts it again if it is gone, and
\* fails on the unique column if the key has another row by then.
unbindWallet(r, u, k) ==
    /\ At(r, "idle") /\ Authenticated(u)
    /\ req' = [req EXCEPT ![r] =
                 [@ EXCEPT !.op = "unbind", !.user = u, !.key = k,
                           !.bound = IF k \in WalletsOf(u) THEN wallets[k] ELSE None,
                           !.pc = IF k \in WalletsOf(u) THEN "count" ELSE "refused"]]
    /\ UNCHANGED <<nonces, users, wallets, tokens, bearers>>

\* Faulty: the only wallet may go.
CountWalletsNot(r) ==
    /\ At(r, "count") /\ Goto(r, "remove")
    /\ UNCHANGED <<nonces, users, wallets, tokens, bearers>>

CountWallets(r) ==
    /\ At(r, "count")
    /\ Goto(r, IF Cardinality(WalletsOf(req[r].user)) = 1 THEN "refused" ELSE "remove")
    /\ UNCHANGED <<nonces, users, wallets, tokens, bearers>>

HoldsRow(k, row) == wallets[k] # None /\ wallets[k].row = row

RemoveBinding(r) ==
    /\ At(r, "remove")
    /\ wallets' = [k \in Keys |->
                     IF HoldsRow(k, req[r].bound.row) THEN None ELSE wallets[k]]
    /\ Goto(r, IF req[r].bound.isPrimary THEN "another" ELSE "done")
    /\ UNCHANGED <<nonces, users, tokens, bearers>>

FindAnother(r) ==
    /\ At(r, "another")
    /\ IF WalletsOf(req[r].user) = {} THEN Goto(r, "done")
       ELSE \E k \in WalletsOf(req[r].user) :
              req' = [req EXCEPT ![r].key = k, ![r].bound = wallets[k],
                                 ![r].pc = "promote"]
    /\ UNCHANGED <<nonces, users, wallets, tokens, bearers>>

PromoteAnother(r) ==
    LET k == req[r].key
        saved == [req[r].bound EXCEPT !.isPrimary = TRUE] IN
    /\ At(r, "promote")
    /\ IF wallets[k] # None /\ ~HoldsRow(k, saved.row)
       THEN Goto(r, "refused") /\ UNCHANGED wallets
       ELSE Goto(r, "done") /\ wallets' = [wallets EXCEPT ![k] = saved]
    /\ UNCHANGED <<nonces, users, tokens, bearers>>

-----------------------------------------------------------------------------
\* Time, an operator who disables an account, and a request that dies.
TokenExpires(t) ==
    /\ tokens[t] # None /\ ~tokens[t].expired
    /\ tokens' = [tokens EXCEPT ![t].expired = TRUE]
    /\ UNCHANGED <<nonces, users, wallets, bearers, req>>

AccessExpires(u) ==
    /\ u \in bearers
    /\ bearers' = bearers \ {u}
    /\ UNCHANGED <<nonces, users, wallets, tokens, req>>

Deactivate(u) ==
    /\ users[u] = "active"
    /\ users' = [users EXCEPT ![u] = "inactive"]
    /\ UNCHANGED <<nonces, wallets, tokens, bearers, req>>

RequestDies(r) ==
    /\ req[r].pc \notin Ended \cup {"idle"}
    /\ Goto(r, "died")
    /\ UNCHANGED <<nonces, users, wallets, tokens, bearers>>

Step(r) ==
    \/ markNonceUsed(r) \/ findUserByWallet(r) \/ createUserWithWallet(r)
    \/ CheckUnbound(r) \/ DemoteOthers(r) \/ InsertBinding(r)
    \/ revokeRefreshToken(r) \/ generateRefreshToken(r)
    \/ revokeAllUserRefreshTokens(r)
    \/ CountWallets(r) \/ RemoveBinding(r) \/ FindAnother(r) \/ PromoteAnother(r)

Arrive(r) ==
    \/ \E k \in Keys, n \in Nonces, signed \in BOOLEAN :
         \/ walletLogin(r, k, n, signed)
         \/ \E u \in Requests : bindWallet(r, u, k, n, signed)
    \/ \E t \in Requests : refreshAccessToken(r, t)
    \/ \E u \in Requests : logout(r, u) \/ \E k \in Keys : unbindWallet(r, u, k)

AuthClock ==
    \/ \E n \in Nonces : NonceExpires(n)
    \/ cleanupExpiredNonces
    \/ \E r \in Requests : TokenExpires(r) \/ AccessExpires(r) \/ Deactivate(r)

AuthNext ==
    \/ \E n \in Nonces, k \in Keys : generateNonce(n, k)
    \/ \E r \in Requests : Arrive(r) \/ Step(r) \/ RequestDies(r)
    \/ AuthClock

AuthSpec == AuthInit /\ [][AuthNext]_authVars

-----------------------------------------------------------------------------
Spent(n) == nonces[n].status \in {"used", "deleted"}

(***************************************************************************)
(* Every binding and every session that a nonce opened was opened by a     *)
(* request that named the nonce's own key, and the nonce cannot be         *)
(* presented again: markNonceUsed runs before anything is stored, and the  *)
(* stale save at the end of unbindWallet brings back no other binding.     *)
(* With the type invariant.                                                *)
(***************************************************************************)
NonceSpentFirst ==
    /\ AuthTypeOK
    /\ \A k \in Keys : wallets[k] # None =>
          LET r == req[wallets[k].row] IN
          r.key = k /\ nonces[r.nonce].key = k /\ Spent(r.nonce)
    /\ \A r \in Requests : tokens[r] # None /\ tokens[r].parent = None =>
          nonces[req[r].nonce].key = req[r].key /\ Spent(req[r].nonce)

(***************************************************************************)
(* A refresh token that was exchanged is revoked, its successor belongs to *)
(* the same user, and it has a second successor only if two refreshes of   *)
(* it overlapped: the later one passed refreshAccessToken's check while    *)
(* the earlier one had passed it and not revoked the token yet.  (Such a   *)
(* pair does leave two live successors, and a refresh caught between its   *)
(* revocation and its issue by a logout leaves a live one: the code has    *)
(* nothing against either.)  Whatever else interleaves, expires or dies.   *)
(***************************************************************************)
RotatedIsRevoked ==
    \A r \in Requests : tokens[r] # None /\ tokens[r].parent # None =>
        /\ LET t == tokens[tokens[r].parent] IN t.revoked /\ t.user = tokens[r].user
        /\ \A s \in Requests \ {r} :
              tokens[s] # None /\ tokens[s].parent = tokens[r].parent =>
                  s \in req[r].rivals \/ r \in req[s].rivals

UnbindsOf(u) == {r \in Requests : req[r].op = "unbind" /\ req[r].user = u}

(***************************************************************************)
(* "Account must have at least one wallet": an account that got a wallet   *)
(* keeps one, whatever else runs, as long as its unbind requests do not    *)
(* overlap (here: there is at most one; two that overlap both count the    *)
(* other's wallet and can leave none).                                     *)
(***************************************************************************)
LastWalletKept ==
    \A u \in Requests :
        (tokens[u] # None /\ users[u] # None /\ \A r, s \in UnbindsOf(u) : r = s)
            => WalletsOf(u) # {}

(***************************************************************************)
(* A wallet never changes hands directly: between two users lies a moment  *)
(* at which it is bound to nobody, and a binding keeps its row and its     *)
(* user for as long as it lives (the check in bindWalletToUser is stale    *)
(* when the insert runs; the unique column decides).                       *)
(***************************************************************************)
WalletKeepsItsUser ==
    [][\A k \in Keys : wallets[k] # None /\ wallets'[k] # None =>
          wallets'[k].row = wallets[k].row /\ wallets'[k].user = wallets[k].user]_authVars
=============================================================================
