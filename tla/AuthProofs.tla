----------------------------- MODULE AuthProofs -----------------------------
(***************************************************************************)
(* Proofs about Auth, for any keys, nonces and requests.                   *)
(***************************************************************************)
EXTENDS Auth, FiniteSetTheorems, TLAPS

(***************************************************************************)
(* What the place of a request says about its local variables.             *)
(***************************************************************************)
Shape(q) ==
    /\ q.pc = "idle" => q.op = None /\ q.user = None /\ q.token = None
    /\ q.pc \in {"mark", "check", "insert"} => q.op \in {"login", "bind"}
    /\ q.pc \in {"find", "create", "demote"} => q.op = "login"
    /\ q.pc = "issue" => q.op \in {"login", "refresh"}
    /\ q.pc = "rotate" => q.op = "refresh"
    /\ q.pc = "revokeAll" => q.op = "logout"
    /\ q.pc \in {"count", "remove", "another", "promote"} => q.op = "unbind" /\ q.bound \in Binding
    /\ q.op \in {"login", "bind"} => q.key \in Keys /\ q.nonce \in Nonces /\ q.token = None
    /\ q.op = "refresh" => q.token \in Requests
    /\ q.op = "unbind" => q.key \in Keys
    /\ q.op \in {"bind", "unbind", "logout"} => q.user \in Requests
    /\ q.pc \in {"check", "demote", "insert", "issue", "rotate"} => q.user \in Requests

Shaped == \A r \in Requests : Shape(req[r])

(***************************************************************************)
(* refreshAccessToken rotates a token that exists.                         *)
(***************************************************************************)
Tokened == \A r \in Requests : req[r].pc = "rotate" => tokens[req[r].token] # None

-----------------------------------------------------------------------------
(***************************************************************************)
(* A binding, a token and a request are records, and none of them is null. *)
(***************************************************************************)
LEMMA NotNull ==
    /\ None \notin Binding /\ None \notin RefreshToken
    /\ None \notin Requests /\ None \notin Keys /\ None \notin Nonces
    /\ None \notin {"login", "bind", "unbind", "refresh", "logout", "active", "inactive"}
  BY NullAssumption

NonceRow == [key : Keys \cup {None}, expired : BOOLEAN,
             status : {"unissued", "fresh", "used", "deleted"}]

(***************************************************************************)
(* The rows the queries write.                                             *)
(***************************************************************************)
LEMMA Rows ==
    /\ \A n \in NonceRow, k \in Keys, s \in {"unissued", "fresh", "used", "deleted"} :
          [n EXCEPT !.status = s, !.key = k] \in NonceRow
    /\ \A n \in NonceRow, s \in {"unissued", "fresh", "used", "deleted"} :
          /\ [n EXCEPT !.status = s] \in NonceRow
          /\ [n EXCEPT !.expired = TRUE] \in NonceRow
    /\ \A b \in Binding, p \in BOOLEAN : [b EXCEPT !.isPrimary = p] \in Binding
    /\ \A t \in RefreshToken : /\ [t EXCEPT !.revoked = TRUE] \in RefreshToken
                               /\ [t EXCEPT !.expired = TRUE] \in RefreshToken
<1>1. \A n \in NonceRow, k \in Keys, s \in {"unissued", "fresh", "used", "deleted"} :
          [n EXCEPT !.status = s, !.key = k] \in NonceRow
  BY DEF NonceRow
<1>2. \A n \in NonceRow, s \in {"unissued", "fresh", "used", "deleted"} :
          /\ [n EXCEPT !.status = s] \in NonceRow
          /\ [n EXCEPT !.expired = TRUE] \in NonceRow
  BY DEF NonceRow
<1>3. \A b \in Binding, p \in BOOLEAN : [b EXCEPT !.isPrimary = p] \in Binding
  BY DEF Binding
<1>4. \A t \in RefreshToken : /\ [t EXCEPT !.revoked = TRUE] \in RefreshToken
                            /\ [t EXCEPT !.expired = TRUE] \in RefreshToken
  BY DEF RefreshToken
<1> QED
  BY <1>1, <1>2, <1>3, <1>4

(***************************************************************************)
(* A request whose local variables become q, in shape, leaves the others   *)
(* where they are.                                                         *)
(***************************************************************************)
LEMMA Moving ==
    ASSUME AuthTypeOK, Shaped, NEW r \in Requests, NEW q \in Request, Shape(q),
           req' = [req EXCEPT ![r] = q]
    PROVE  req' \in [Requests -> Request] /\ Shaped'
<1>1. req \in [Requests -> Request]
  BY DEF AuthTypeOK
<1>2. req' \in [Requests -> Request] /\ req'[r] = q /\ \A s \in Requests \ {r} : req'[s] = req[s]
  BY <1>1
<1> QED
  BY <1>2 DEF Shaped

Labels == Ended \cup {"idle", "mark", "find", "create", "check", "demote", "insert",
              "issue", "rotate", "revokeAll", "count", "remove", "another", "promote"}

(***************************************************************************)
(* A request that only moves on.                                           *)
(***************************************************************************)
LEMMA Going ==
    ASSUME AuthTypeOK, Shaped, NEW r \in Requests, NEW label \in Labels, Goto(r, label),
           Shape([req[r] EXCEPT !.pc = label])
    PROVE  req' \in [Requests -> Request] /\ Shaped'
<1>1. [req[r] EXCEPT !.pc = label] \in Request
  BY DEF AuthTypeOK, Request, Labels, Ended
<1> QED
  BY <1>1, Moving DEF Goto

(***************************************************************************)
(* The labels an ordinary query may lead to.                               *)
(***************************************************************************)
LEMMA GoingOn ==
    ASSUME AuthTypeOK, Shaped, NEW r \in Requests, NEW label \in Labels, Goto(r, label),
           \/ label \in {"refused", "died", "done"}
           \/ req[r].op = "login" /\ label \in {"find", "create"}
           \/ req[r].op = "login" /\ req[r].user \in Requests /\ label = "demote"
           \/ req[r].op \in {"login", "bind"} /\ req[r].user \in Requests /\ label \in {"check", "insert"}
           \/ req[r].op \in {"login", "refresh"} /\ req[r].user \in Requests /\ label = "issue"
           \/ req[r].op = "unbind" /\ req[r].bound \in Binding /\ label \in {"remove", "another", "promote"}
    PROVE  req' \in [Requests -> Request] /\ Shaped'
<1>1. Shape(req[r]) /\ req[r] \in Request
  BY DEF Shaped, AuthTypeOK
<1>2. Shape([req[r] EXCEPT !.pc = label])
  BY <1>1 DEF Shape, Request, Ended
<1> QED
  BY <1>2, Going

(***************************************************************************)
(* Every query of every handler keeps the tables and the requests' local   *)
(* variables well typed and in shape.                                      *)
(***************************************************************************)
LEMMA TypeStep ==
    ASSUME AuthTypeOK, Shaped, Tokened, [AuthNext]_authVars
    PROVE  AuthTypeOK' /\ Shaped'
<1>t. /\ nonces \in [Nonces -> NonceRow]
      /\ users \in [Requests -> {None, "active", "inactive"}]
      /\ wallets \in [Keys -> Binding \cup {None}]
      /\ tokens \in [Requests -> RefreshToken \cup {None}]
      /\ bearers \subseteq Requests
      /\ req \in [Requests -> Request]
  BY DEF AuthTypeOK, NonceRow
<1>s. \A r \in Requests : Shape(req[r]) /\ req[r] \in Request
  BY <1>t DEF Shaped
<1>1. ASSUME NEW n \in Nonces, NEW k \in Keys, generateNonce(n, k)
      PROVE  AuthTypeOK' /\ Shaped'
  <2>1. nonces' \in [Nonces -> NonceRow]
    BY <1>1, <1>t, Rows DEF generateNonce
  <2> QED
    BY <1>1, <2>1 DEF generateNonce, AuthTypeOK, Shaped, NonceRow
<1>2. ASSUME NEW n \in Nonces, NonceExpires(n)
      PROVE  AuthTypeOK' /\ Shaped'
  <2>1. nonces' \in [Nonces -> NonceRow]
    <3>1. [nonces[n] EXCEPT !.expired = TRUE] \in NonceRow
      BY <1>t, Rows
    <3> QED
      BY <1>2, <1>t, <3>1 DEF NonceExpires
  <2> QED
    BY <1>2, <2>1 DEF NonceExpires, AuthTypeOK, Shaped, NonceRow
<1>3. CASE cleanupExpiredNonces
  <2>1. nonces' \in [Nonces -> NonceRow]
    <3>1. \A n \in Nonces : [nonces[n] EXCEPT !.status = "deleted"] \in NonceRow
      BY <1>t, Rows
    <3> QED
      BY <1>3, <1>t, <3>1 DEF cleanupExpiredNonces
  <2> QED
    BY <1>3, <2>1 DEF cleanupExpiredNonces, AuthTypeOK, Shaped, NonceRow
<1>4. ASSUME NEW r \in Requests, NEW op \in {"login", "bind"}, NEW u \in Requests \cup {None},
             NEW k \in Keys, NEW n \in Nonces, NEW signed \in BOOLEAN,
             op = "bind" => u \in Requests, op = "login" => u = None,
             PresentNonce(r, op, u, k, n, signed)
      PROVE  AuthTypeOK' /\ Shaped'
  <2> DEFINE label == IF validateNonce(n, k) /\ signed THEN AfterSignature(op) ELSE "refused"
             q == [req[r] EXCEPT !.op = op, !.user = u, !.key = k, !.nonce = n, !.pc = label]
  <2>0. label \in Labels /\ Shape(req[r]) /\ req[r].pc = "idle" /\ req[r] \in Request
    BY <1>4, <1>s DEF PresentNonce, At, Labels, Ended, AfterSignature
  <2>1. req' = [req EXCEPT ![r] = q]
    BY <1>4, <1>t DEF PresentNonce
  <2>2. Shape(q)
    BY <1>4, <2>0 DEF Shape, Request, Labels, Ended, AfterSignature
  <2> HIDE DEF label
  <2>3. q \in Request
    BY <1>4, <2>0, ZenonT(60) DEF Request, Labels, AfterSignature
  <2> HIDE DEF q
  <2>4. req' \in [Requests -> Request] /\ Shaped'
    BY <2>1, <2>2, <2>3, Moving
  <2> QED
    BY <1>4, <2>4 DEF PresentNonce, AuthTypeOK
<1>5. ASSUME NEW r \in Requests, markNonceUsed(r)
      PROVE  AuthTypeOK' /\ Shaped'
  <2>1. req' \in [Requests -> Request] /\ Shaped'
    BY <1>5, <1>s, GoingOn DEF markNonceUsed, At, Shape, Labels, Ended
  <2>2. nonces' \in [Nonces -> NonceRow]
    BY <1>5, <1>t, <1>s, Rows DEF markNonceUsed, At, Shape
  <2> QED
    BY <1>5, <2>1, <2>2 DEF markNonceUsed, AuthTypeOK, NonceRow
<1>6. ASSUME NEW r \in Requests, findUserByWallet(r)
      PROVE  AuthTypeOK' /\ Shaped'
  <2> DEFINE b == wallets[req[r].key]
             q == IF b = None THEN [req[r] EXCEPT !.pc = "create"]
                              ELSE [req[r] EXCEPT !.pc = "issue", !.user = b.user]
  <2>0. b \in Binding \cup {None}
    BY <1>6, <1>t, <1>s DEF findUserByWallet, At, Shape
  <2>1. q \in Request
    <3>1. CASE b = None
      <4>1. [req[r] EXCEPT !.pc = "create"] \in Request
        BY <1>s DEF Request
      <4> QED
        BY <3>1, <4>1
    <3>2. CASE b # None
      <4>1. b.user \in Requests
        BY <2>0, <3>2 DEF Binding
      <4>2. \A u \in Requests : [req[r] EXCEPT !.pc = "issue", !.user = u] \in Request
        BY <1>s DEF Request
      <4> QED
        BY <3>2, <4>1, <4>2
    <3> QED
      BY <3>1, <3>2
  <2>2. Shape(q)
    BY <1>6, <2>0, <1>s DEF findUserByWallet, At, Shape, Request, Ended, Binding
  <2>3. req' = [req EXCEPT ![r] = q]
    BY <1>6, <1>t DEF findUserByWallet
  <2> HIDE DEF q
  <2>4. req' \in [Requests -> Request] /\ Shaped'
    BY <2>1, <2>2, <2>3, Moving
  <2> QED
    BY <1>6, <2>4 DEF findUserByWallet, AuthTypeOK
<1>7. ASSUME NEW r \in Requests, createUserWithWallet(r)
      PROVE  AuthTypeOK' /\ Shaped'
  <2> DEFINE q == [req[r] EXCEPT !.user = r, !.pc = "check"]
  <2>0. Shape(req[r]) /\ req[r].pc = "create" /\ req[r] \in Request
    BY <1>7, <1>s DEF createUserWithWallet, At
  <2>1. q \in Request /\ Shape(q)
    <3>1. q \in Request
      BY <2>0 DEF Request, Ended
    <3>2. Shape(q)
      BY <2>0 DEF Shape, Request
    <3> QED
      BY <3>1, <3>2
  <2>2. req' = [req EXCEPT ![r] = q]
    BY <1>7, <1>t DEF createUserWithWallet
  <2> HIDE DEF q
  <2>3. req' \in [Requests -> Request] /\ Shaped'
    BY <2>1, <2>2, Moving
  <2>4. users' \in [Requests -> {None, "active", "inactive"}]
    BY <1>7, <1>t DEF createUserWithWallet
  <2> QED
    BY <1>7, <2>3, <2>4 DEF createUserWithWallet, AuthTypeOK
<1>8. ASSUME NEW r \in Requests, CheckUnbound(r)
      PROVE  AuthTypeOK' /\ Shaped'
  <2>1. req' \in [Requests -> Request] /\ Shaped'
    BY <1>8, <1>s, GoingOn DEF CheckUnbound, At, Shape, Labels, Ended
  <2> QED
    BY <1>8, <2>1 DEF CheckUnbound, AuthTypeOK
<1>9. ASSUME NEW r \in Requests, DemoteOthers(r)
      PROVE  AuthTypeOK' /\ Shaped'
  <2>1. req' \in [Requests -> Request] /\ Shaped'
    BY <1>9, <1>s, GoingOn DEF DemoteOthers, At, Shape, Labels, Ended
  <2>2. wallets' \in [Keys -> Binding \cup {None}]
    BY <1>9, <1>t, <1>s, Rows DEF DemoteOthers, WalletsOf
  <2> QED
    BY <1>9, <2>1, <2>2 DEF DemoteOthers, AuthTypeOK
<1>10. ASSUME NEW r \in Requests, InsertBinding(r)
      PROVE  AuthTypeOK' /\ Shaped'
  <2>1. req' \in [Requests -> Request] /\ Shaped'
    BY <1>10, <1>s, GoingOn DEF InsertBinding, At, Shape, Labels, Ended
  <2>2. wallets' \in [Keys -> Binding \cup {None}]
    <3>1. req[r].user \in Requests /\ req[r].key \in Keys
      BY <1>10, <1>s DEF InsertBinding, At, Shape
    <3>2. NewBinding(r) \in Binding
      BY <3>1 DEF NewBinding, Binding
    <3> QED
      BY <1>10, <1>t, <3>1, <3>2 DEF InsertBinding
  <2> QED
    BY <1>10, <2>1, <2>2 DEF InsertBinding, AuthTypeOK
<1>11. ASSUME NEW r \in Requests, NEW t \in Requests, refreshAccessToken(r, t)
      PROVE  AuthTypeOK' /\ Shaped'
  <2> DEFINE label == IF /\ ~tokens[t].revoked /\ ~tokens[t].expired
                         /\ users[tokens[t].user] = "active" THEN "rotate" ELSE "refused"
             q == [req[r] EXCEPT !.op = "refresh", !.token = t, !.user = tokens[t].user,
                          !.rivals = Rotating(t), !.pc = label]
  <2>u. tokens[t].user \in Requests
    BY <1>11, <1>t DEF refreshAccessToken, RefreshToken
  <2>0. label \in Labels /\ Shape(req[r]) /\ req[r].pc = "idle" /\ req[r] \in Request
    BY <1>11, <1>s DEF refreshAccessToken, At, Labels, Ended
  <2>1. req' = [req EXCEPT ![r] = q]
    BY <1>11, <1>t DEF refreshAccessToken
  <2>2. Shape(q)
    BY <1>11, <2>0, <2>u DEF Shape, Request, Labels, Ended
  <2> HIDE DEF label
  <2>3. q \in Request
    <3>1. Rotating(t) \in SUBSET Requests
      BY DEF Rotating
    <3> QED
      BY <1>11, <2>0, <2>u, <3>1, ZenonT(60) DEF Request, Labels
  <2> HIDE DEF q
  <2>4. req' \in [Requests -> Request] /\ Shaped'
    BY <2>1, <2>2, <2>3, Moving
  <2> QED
    BY <1>11, <2>4 DEF refreshAccessToken, AuthTypeOK
<1>12. ASSUME NEW r \in Requests, revokeRefreshToken(r)
      PROVE  AuthTypeOK' /\ Shaped'
  <2>1. req' \in [Requests -> Request] /\ Shaped'
    BY <1>12, <1>s, GoingOn DEF revokeRefreshToken, At, Shape, Labels, Ended
  <2>2. req[r].token \in Requests /\ tokens[req[r].token] # None
    BY <1>12, <1>s DEF revokeRefreshToken, At, Shape, Tokened
  <2>3. tokens' \in [Requests -> RefreshToken \cup {None}]
    BY <1>12, <1>t, <2>2, Rows DEF revokeRefreshToken
  <2> QED
    BY <1>12, <2>1, <2>3 DEF revokeRefreshToken, AuthTypeOK
<1>13. ASSUME NEW r \in Requests, generateRefreshToken(r)
      PROVE  AuthTypeOK' /\ Shaped'
  <2>1. req' \in [Requests -> Request] /\ Shaped'
    BY <1>13, <1>s, GoingOn DEF generateRefreshToken, Labels, Ended
  <2>2. req[r].user \in Requests /\ req[r].token \in Requests \cup {None}
    BY <1>13, <1>s DEF generateRefreshToken, At, Shape, Request
  <2>3. tokens' \in [Requests -> RefreshToken \cup {None}] /\ bearers' \subseteq Requests
    BY <1>13, <1>t, <2>2 DEF generateRefreshToken, RefreshToken
  <2> QED
    BY <1>13, <2>1, <2>3 DEF generateRefreshToken, AuthTypeOK
<1>14. ASSUME NEW r \in Requests, NEW u \in Requests, logout(r, u)
      PROVE  AuthTypeOK' /\ Shaped'
  <2> DEFINE q == [req[r] EXCEPT !.op = "logout", !.user = u, !.pc = "revokeAll"]
  <2>1. q \in Request /\ Shape(q)
    BY <1>14, <1>s, ZenonT(60) DEF logout, At, Shape, Request, Ended
  <2>2. req' = [req EXCEPT ![r] = q]
    BY <1>14, <1>t DEF logout
  <2> HIDE DEF q
  <2>3. req' \in [Requests -> Request] /\ Shaped'
    BY <2>1, <2>2, Moving
  <2> QED
    BY <1>14, <2>3 DEF logout, AuthTypeOK
<1>15. ASSUME NEW r \in Requests, revokeAllUserRefreshTokens(r)
      PROVE  AuthTypeOK' /\ Shaped'
  <2>1. req' \in [Requests -> Request] /\ Shaped'
    BY <1>15, <1>s, GoingOn DEF revokeAllUserRefreshTokens, At, Shape, Labels, Ended
  <2>2. tokens' \in [Requests -> RefreshToken \cup {None}]
    BY <1>15, <1>t, <1>s, Rows DEF revokeAllUserRefreshTokens, At, Shape
  <2> QED
    BY <1>15, <2>1, <2>2 DEF revokeAllUserRefreshTokens, AuthTypeOK
<1>16. ASSUME NEW r \in Requests, NEW u \in Requests, NEW k \in Keys, unbindWallet(r, u, k)
      PROVE  AuthTypeOK' /\ Shaped'
  <2> DEFINE label == IF k \in WalletsOf(u) THEN "count" ELSE "refused"
             b == IF k \in WalletsOf(u) THEN wallets[k] ELSE None
             q == [req[r] EXCEPT !.op = "unbind", !.user = u, !.key = k,
                          !.bound = b, !.pc = label]
  <2>u. b \in Binding \cup {None} /\ (label = "count" => b \in Binding)
    BY <1>t DEF WalletsOf
  <2>0. label \in Labels /\ Shape(req[r]) /\ req[r].pc = "idle" /\ req[r] \in Request
    BY <1>16, <1>s DEF unbindWallet, At, Labels, Ended
  <2>1. req' = [req EXCEPT ![r] = q]
    BY <1>16, <1>t DEF unbindWallet
  <2> HIDE DEF b
  <2>2. Shape(q)
    BY <1>16, <2>0, <2>u DEF Shape, Request, Labels, Ended
  <2> HIDE DEF label
  <2>3. q \in Request
    BY <1>16, <2>0, <2>u, ZenonT(60) DEF Request, Labels
  <2> HIDE DEF q
  <2>4. req' \in [Requests -> Request] /\ Shaped'
    BY <2>1, <2>2, <2>3, Moving
  <2> QED
    BY <1>16, <2>4 DEF unbindWallet, AuthTypeOK
<1>17. ASSUME NEW r \in Requests, CountWallets(r)
      PROVE  AuthTypeOK' /\ Shaped'
  <2>1. req' \in [Requests -> Request] /\ Shaped'
    BY <1>17, <1>s, GoingOn DEF CountWallets, At, Shape, Labels, Ended
  <2> QED
    BY <1>17, <2>1 DEF CountWallets, AuthTypeOK
<1>18. ASSUME NEW r \in Requests, RemoveBinding(r)
      PROVE  AuthTypeOK' /\ Shaped'
  <2>1. req' \in [Requests -> Request] /\ Shaped'
    BY <1>18, <1>s, GoingOn DEF RemoveBinding, At, Shape, Labels, Ended
  <2>2. wallets' \in [Keys -> Binding \cup {None}]
    BY <1>18, <1>t, <1>s, Rows DEF RemoveBinding
  <2> QED
    BY <1>18, <2>1, <2>2 DEF RemoveBinding, AuthTypeOK
<1>19. ASSUME NEW r \in Requests, FindAnother(r)
      PROVE  AuthTypeOK' /\ Shaped'
  <2>1. CASE Goto(r, "done")
    <3>1. req' \in [Requests -> Request] /\ Shaped'
      BY <2>1, GoingOn DEF Labels, Ended
    <3> QED
      BY <1>19, <3>1 DEF FindAnother, AuthTypeOK
  <2>2. ASSUME NEW k \in WalletsOf(req[r].user),
               req' = [req EXCEPT ![r].key = k, ![r].bound = wallets[k], ![r].pc = "promote"]
        PROVE  AuthTypeOK' /\ Shaped'
    <3> DEFINE q == [req[r] EXCEPT !.key = k, !.bound = wallets[k], !.pc = "promote"]
    <3>0. wallets[k] \in Binding /\ k \in Keys
      BY <1>t DEF WalletsOf
    <3>1. q \in Request /\ Shape(q)
      <4>0. Shape(req[r]) /\ req[r].pc = "another" /\ req[r] \in Request
        BY <1>19, <1>s DEF FindAnother, At
      <4> DEFINE b == wallets[k]
      <4>1. b \in Binding
        BY <3>0
      <4> HIDE DEF b
      <4>2. q \in Request
        BY <3>0, <4>0, <4>1 DEF Request, Ended
      <4>3. Shape(q)
        BY <3>0, <4>0, <4>1 DEF Shape, Request
      <4> QED
        BY <4>2, <4>3
    <3>2. req' = [req EXCEPT ![r] = q]
      BY <2>2, <1>t
    <3> HIDE DEF q
    <3>3. req' \in [Requests -> Request] /\ Shaped'
      BY <3>1, <3>2, Moving
    <3> QED
      BY <1>19, <3>3 DEF FindAnother, AuthTypeOK
  <2> QED
    BY <1>19, <2>1, <2>2 DEF FindAnother
<1>20. ASSUME NEW r \in Requests, PromoteAnother(r)
      PROVE  AuthTypeOK' /\ Shaped'
  <2>1. req' \in [Requests -> Request] /\ Shaped'
    BY <1>20, <1>s, GoingOn DEF PromoteAnother, At, Shape, Labels, Ended
  <2>2. wallets' \in [Keys -> Binding \cup {None}]
    <3>1. req[r].bound \in Binding /\ req[r].key \in Keys
      BY <1>20, <1>s DEF PromoteAnother, At, Shape
    <3>2. [req[r].bound EXCEPT !.isPrimary = TRUE] \in Binding
      BY <3>1, Rows
    <3> QED
      BY <1>20, <1>t, <3>1, <3>2 DEF PromoteAnother
  <2> QED
    BY <1>20, <2>1, <2>2 DEF PromoteAnother, AuthTypeOK
<1>21. ASSUME NEW t \in Requests, TokenExpires(t)
      PROVE  AuthTypeOK' /\ Shaped'
  <2>1. tokens' \in [Requests -> RefreshToken \cup {None}]
    BY <1>21, <1>t, Rows DEF TokenExpires
  <2> QED
    BY <1>21, <2>1 DEF TokenExpires, AuthTypeOK, Shaped
<1>22. ASSUME NEW u \in Requests, AccessExpires(u)
      PROVE  AuthTypeOK' /\ Shaped'
  BY <1>22, <1>t DEF AccessExpires, AuthTypeOK, Shaped
<1>23. ASSUME NEW u \in Requests, Deactivate(u)
      PROVE  AuthTypeOK' /\ Shaped'
  BY <1>23, <1>t DEF Deactivate, AuthTypeOK, Shaped
<1>24. ASSUME NEW r \in Requests, RequestDies(r)
      PROVE  AuthTypeOK' /\ Shaped'
  <2>1. req' \in [Requests -> Request] /\ Shaped'
    BY <1>24, <1>s, GoingOn DEF RequestDies, At, Shape, Labels, Ended
  <2> QED
    BY <1>24, <2>1 DEF RequestDies, AuthTypeOK
<1>25. CASE UNCHANGED authVars
  BY <1>25 DEF authVars, AuthTypeOK, Shaped
<1> QED
  BY <1>1, <1>2, <1>3, <1>4, <1>5, <1>6, <1>7, <1>8, <1>9, <1>10, <1>11, <1>12, <1>13,
     <1>14, <1>15, <1>16, <1>17, <1>18, <1>19, <1>20, <1>21, <1>22, <1>23, <1>24, <1>25 DEF
     AuthNext, Arrive, Step, AuthClock, walletLogin, bindWallet

-----------------------------------------------------------------------------
(***************************************************************************)
(* A refresh token was issued by its request, and the token it replaces    *)
(* belonged to the same user and was revoked before the issue.             *)
(***************************************************************************)
TokenInv ==
    \A r \in Requests :
        /\ tokens[r] # None => /\ req[r].pc = "done" /\ req[r].op \in {"login", "refresh"}
                               /\ tokens[r].user = req[r].user /\ tokens[r].parent = req[r].token
        /\ req[r].op = "refresh" /\ req[r].pc \in {"rotate", "issue", "done"} =>
              tokens[req[r].token] # None /\ tokens[req[r].token].user = req[r].user
        /\ req[r].op = "refresh" /\ req[r].pc \in {"issue", "done"} => tokens[req[r].token].revoked

(***************************************************************************)
(* Of two refreshes that passed the check on one token, the later one saw  *)
(* the earlier one between its check and its revocation.                   *)
(***************************************************************************)
Took(r) == req[r].op = "refresh" /\ req[r].pc \in {"rotate", "issue", "done"}

RivalInv ==
    \A r, s \in Requests : r # s /\ Took(r) /\ Took(s) /\ req[r].token = req[s].token =>
        s \in req[r].rivals \/ r \in req[s].rivals

(***************************************************************************)
(* A request past markNonceUsed has spent a nonce of its own key.          *)
(***************************************************************************)
Good(r) == nonces[req[r].nonce].key = req[r].key /\ Spent(req[r].nonce)

NonceInv ==
    \A r \in Requests : req[r].op \in {"login", "bind"} =>
        /\ req[r].pc = "mark" => /\ nonces[req[r].nonce].key = req[r].key
                                 /\ nonces[req[r].nonce].status # "unissued"
        /\ req[r].pc \in {"find", "create", "check", "demote", "insert", "issue", "done"} => Good(r)

(***************************************************************************)
(* A binding of key k, stored or read by an unbind request: the request    *)
(* that inserted it named k and the binding's user.                        *)
(***************************************************************************)
Inserted(b, k) ==
    /\ req[b.row].op \in {"login", "bind"} /\ req[b.row].pc \in {"issue", "done", "died"}
    /\ req[b.row].key = k /\ req[b.row].user = b.user /\ Good(b.row)

BindingInv ==
    /\ \A k \in Keys : wallets[k] # None => Inserted(wallets[k], k)
    /\ \A r \in Requests : req[r].op = "unbind" /\ req[r].pc \in {"count", "remove", "another", "promote"} =>
          Inserted(req[r].bound, req[r].key) /\ req[r].bound.user = req[r].user

(***************************************************************************)
(* A user that does not exist, or has no wallet yet, is known to nobody    *)
(* but the login that creates it.                                          *)
(***************************************************************************)
Unborn(u) == users[u] = None \/ req[u].pc \in {"check", "demote", "insert"}

BirthInv ==
    \A u \in Requests :
        /\ users[u] # None => /\ req[u].op = "login" /\ req[u].user = u
                              /\ req[u].pc \notin {"idle", "mark", "find", "create"}
        /\ Unborn(u) => /\ u \notin bearers
                        /\ \A k \in Keys : wallets[k] # None => wallets[k].user # u
                        /\ \A r \in Requests : tokens[r] # None => tokens[r].user # u
                        /\ \A r \in Requests : req[r].user = u => r = u /\ users[u] # None

(***************************************************************************)
(* An account whose first wallet was bound keeps one while its unbind      *)
(* requests do not overlap, and the one that passed the count leaves       *)
(* another wallet behind.                                                  *)
(***************************************************************************)
Got(u) == users[u] # None /\ (tokens[u] # None \/ req[u].pc = "issue")
OneUnbind(u) == \A r, s \in UnbindsOf(u) : r = s

WalletInv ==
    \A u \in Requests : Got(u) /\ OneUnbind(u) =>
        /\ WalletsOf(u) # {}
        /\ \A r \in UnbindsOf(u) : req[r].pc = "remove" =>
              \E k \in WalletsOf(u) : wallets[k].row # req[r].bound.row

AuthInv ==
    /\ AuthTypeOK /\ Shaped /\ TokenInv /\ RivalInv
    /\ NonceInv /\ BindingInv /\ BirthInv /\ WalletInv

-----------------------------------------------------------------------------
(* What the steps do to the requests *)

\* Request r moves to a label and keeps its variables; the others stay.
Others(r) == \A s \in Requests \ {r} : req'[s] = req[s]
Went(r, label) ==
    /\ Others(r) /\ req'[r].pc = label
    /\ req'[r].op = req[r].op /\ req'[r].key = req[r].key /\ req'[r].nonce = req[r].nonce
    /\ req'[r].user = req[r].user /\ req'[r].token = req[r].token /\ req'[r].bound = req[r].bound
    /\ req'[r].rivals = req[r].rivals

(***************************************************************************)
(* A query that only moves its request on.                                 *)
(***************************************************************************)
LEMMA GotoWent ==
    ASSUME AuthTypeOK, NEW r \in Requests, NEW label, Goto(r, label)
    PROVE  Went(r, label)
<1>1. req \in [Requests -> Request] /\ req[r] \in Request
  BY DEF AuthTypeOK
<1> DEFINE q == [req[r] EXCEPT !.pc = label]
<1>2. /\ q.pc = label /\ q.op = req[r].op /\ q.key = req[r].key /\ q.nonce = req[r].nonce
      /\ q.user = req[r].user /\ q.token = req[r].token /\ q.bound = req[r].bound
      /\ q.rivals = req[r].rivals
  BY <1>1 DEF Request
<1>3. req' = [req EXCEPT ![r] = q]
  BY <1>1 DEF Goto
<1> HIDE DEF q
<1>4. req'[r] = q /\ Others(r)
  BY <1>1, <1>3 DEF Others
<1> QED
  BY <1>2, <1>4 DEF Went

(***************************************************************************)
(* A request that takes the variables q.                                   *)
(***************************************************************************)
LEMMA TookOn ==
    ASSUME AuthTypeOK, NEW r \in Requests, NEW q, req' = [req EXCEPT ![r] = q]
    PROVE  req'[r] = q /\ Others(r)
  BY DEF AuthTypeOK, Others

(***************************************************************************)
(* The variables of a login or a bind that arrives.                        *)
(***************************************************************************)
LEMMA Presented ==
    ASSUME AuthTypeOK, NEW r \in Requests, NEW op, NEW u, NEW k, NEW n, NEW signed,
           PresentNonce(r, op, u, k, n, signed)
    PROVE  /\ Others(r)
           /\ req'[r].op = op /\ req'[r].user = u /\ req'[r].key = k /\ req'[r].nonce = n
           /\ req'[r].token = req[r].token
           /\ req'[r].pc = IF validateNonce(n, k) /\ signed THEN AfterSignature(op) ELSE "refused"
<1>1. req \in [Requests -> Request] /\ req[r] \in Request
  BY DEF AuthTypeOK
<1> DEFINE q == [req[r] EXCEPT !.op = op, !.user = u, !.key = k, !.nonce = n,
                                !.pc = IF validateNonce(n, k) /\ signed THEN AfterSignature(op) ELSE "refused"]
<1>2. /\ q.op = op /\ q.user = u /\ q.key = k /\ q.nonce = n
      /\ q.token = req[r].token
      /\ q.pc = IF validateNonce(n, k) /\ signed THEN AfterSignature(op) ELSE "refused"
  BY <1>1 DEF Request
<1>3. req' = [req EXCEPT ![r] = q]
  BY <1>1 DEF PresentNonce
<1> HIDE DEF q
<1>4. req'[r] = q /\ Others(r)
  BY <1>3, TookOn
<1> QED
  BY <1>2, <1>4

(***************************************************************************)
(* The variables of a login that has looked its wallet up.                 *)
(***************************************************************************)
LEMMA Found ==
    ASSUME AuthTypeOK, NEW r \in Requests, findUserByWallet(r)
    PROVE  /\ Others(r)
           /\ req'[r].op = req[r].op /\ req'[r].key = req[r].key /\ req'[r].nonce = req[r].nonce
           /\ req'[r].token = req[r].token /\ req'[r].rivals = req[r].rivals
           /\ wallets[req[r].key] = None => req'[r].pc = "create" /\ req'[r].user = req[r].user
           /\ wallets[req[r].key] # None => req'[r].pc = "issue" /\ req'[r].user = wallets[req[r].key].user
<1>1. req \in [Requests -> Request] /\ req[r] \in Request
  BY DEF AuthTypeOK
<1> DEFINE q == IF wallets[req[r].key] = None THEN [req[r] EXCEPT !.pc = "create"]
                ELSE [req[r] EXCEPT !.pc = "issue", !.user = wallets[req[r].key].user]
<1>2. /\ q.op = req[r].op /\ q.key = req[r].key /\ q.nonce = req[r].nonce
      /\ q.token = req[r].token /\ q.rivals = req[r].rivals
      /\ wallets[req[r].key] = None => q.pc = "create" /\ q.user = req[r].user
      /\ wallets[req[r].key] # None => q.pc = "issue" /\ q.user = wallets[req[r].key].user
  BY <1>1 DEF Request
<1>3. req' = [req EXCEPT ![r] = q]
  BY <1>1 DEF findUserByWallet
<1> HIDE DEF q
<1>4. req'[r] = q /\ Others(r)
  BY <1>3, TookOn
<1> QED
  BY <1>2, <1>4

(***************************************************************************)
(* The variables of a login that has created its user.                     *)
(***************************************************************************)
LEMMA Created ==
    ASSUME AuthTypeOK, NEW r \in Requests, createUserWithWallet(r)
    PROVE  /\ Others(r)
           /\ req'[r].op = req[r].op /\ req'[r].key = req[r].key /\ req'[r].nonce = req[r].nonce
           /\ req'[r].token = req[r].token /\ req'[r].pc = "check" /\ req'[r].user = r
           /\ req'[r].rivals = req[r].rivals
<1>1. req \in [Requests -> Request] /\ req[r] \in Request
  BY DEF AuthTypeOK
<1> DEFINE q == [req[r] EXCEPT !.user = r, !.pc = "check"]
<1>2. /\ q.op = req[r].op /\ q.key = req[r].key /\ q.nonce = req[r].nonce
      /\ q.token = req[r].token /\ q.pc = "check" /\ q.user = r /\ q.rivals = req[r].rivals
  BY <1>1 DEF Request
<1>3. req' = [req EXCEPT ![r] = q]
  BY <1>1 DEF createUserWithWallet
<1> HIDE DEF q
<1>4. req'[r] = q /\ Others(r)
  BY <1>3, TookOn
<1> QED
  BY <1>2, <1>4

(***************************************************************************)
(* The variables of a refresh that arrives.                                *)
(***************************************************************************)
LEMMA Refreshed ==
    ASSUME AuthTypeOK, NEW r \in Requests, NEW t, refreshAccessToken(r, t)
    PROVE  /\ Others(r)
           /\ req'[r].op = "refresh" /\ req'[r].token = t /\ req'[r].user = tokens[t].user
           /\ req'[r].pc \in {"rotate", "refused"} /\ req'[r].rivals = Rotating(t)
           /\ req'[r].pc = "rotate" => ~tokens[t].revoked
<1>1. req \in [Requests -> Request] /\ req[r] \in Request
  BY DEF AuthTypeOK
<1> DEFINE q == [req[r] EXCEPT !.op = "refresh", !.token = t, !.user = tokens[t].user,
                                !.rivals = Rotating(t),
                                !.pc = IF /\ ~tokens[t].revoked /\ ~tokens[t].expired
                                          /\ users[tokens[t].user] = "active"
                                       THEN "rotate" ELSE "refused"]
<1>2. /\ q.op = "refresh" /\ q.token = t /\ q.user = tokens[t].user
      /\ q.pc \in {"rotate", "refused"} /\ q.rivals = Rotating(t)
      /\ q.pc = "rotate" => ~tokens[t].revoked
  BY <1>1 DEF Request
<1>3. req' = [req EXCEPT ![r] = q]
  BY <1>1 DEF refreshAccessToken
<1> HIDE DEF q
<1>4. req'[r] = q /\ Others(r)
  BY <1>3, TookOn
<1> QED
  BY <1>2, <1>4

(***************************************************************************)
(* The variables of a logout that arrives.                                 *)
(***************************************************************************)
LEMMA LoggedOut ==
    ASSUME AuthTypeOK, NEW r \in Requests, NEW u, logout(r, u)
    PROVE  /\ Others(r)
           /\ req'[r].op = "logout" /\ req'[r].user = u /\ req'[r].pc = "revokeAll"
<1>1. req \in [Requests -> Request] /\ req[r] \in Request
  BY DEF AuthTypeOK
<1> DEFINE q == [req[r] EXCEPT !.op = "logout", !.user = u, !.pc = "revokeAll"]
<1>2. /\ q.op = "logout" /\ q.user = u /\ q.pc = "revokeAll"
  BY <1>1 DEF Request
<1>3. req' = [req EXCEPT ![r] = q]
  BY <1>1 DEF logout
<1> HIDE DEF q
<1>4. req'[r] = q /\ Others(r)
  BY <1>3, TookOn
<1> QED
  BY <1>2, <1>4

(***************************************************************************)
(* The variables of an unbind that arrives.                                *)
(***************************************************************************)
LEMMA Unbinding ==
    ASSUME AuthTypeOK, NEW r \in Requests, NEW u, NEW k, unbindWallet(r, u, k)
    PROVE  /\ Others(r)
           /\ req'[r].op = "unbind" /\ req'[r].user = u /\ req'[r].key = k
           /\ req'[r].pc \in {"count", "refused"}
           /\ req'[r].pc = "count" => k \in WalletsOf(u) /\ req'[r].bound = wallets[k]
<1>1. req \in [Requests -> Request] /\ req[r] \in Request
  BY DEF AuthTypeOK
<1> DEFINE q == [req[r] EXCEPT !.op = "unbind", !.user = u, !.key = k,
                     !.bound = IF k \in WalletsOf(u) THEN wallets[k] ELSE None,
                     !.pc = IF k \in WalletsOf(u) THEN "count" ELSE "refused"]
<1>2. /\ q.op = "unbind" /\ q.user = u /\ q.key = k
      /\ q.pc \in {"count", "refused"}
      /\ q.pc = "count" => k \in WalletsOf(u) /\ q.bound = wallets[k]
  BY <1>1 DEF Request
<1>3. req' = [req EXCEPT ![r] = q]
  BY <1>1 DEF unbindWallet
<1> HIDE DEF q
<1>4. req'[r] = q /\ Others(r)
  BY <1>3, TookOn
<1> QED
  BY <1>2, <1>4

(***************************************************************************)
(* The variables of an unbind that has found another wallet.               *)
(***************************************************************************)
LEMMA Other ==
    ASSUME AuthTypeOK, NEW r \in Requests, NEW k,
           req' = [req EXCEPT ![r].key = k, ![r].bound = wallets[k], ![r].pc = "promote"]
    PROVE  /\ Others(r)
           /\ req'[r].op = req[r].op /\ req'[r].user = req[r].user /\ req'[r].key = k
           /\ req'[r].bound = wallets[k] /\ req'[r].pc = "promote"
<1>1. req \in [Requests -> Request] /\ req[r] \in Request
  BY DEF AuthTypeOK
<1> DEFINE q == [req[r] EXCEPT !.key = k, !.bound = wallets[k], !.pc = "promote"]
<1>2. /\ q.op = req[r].op /\ q.user = req[r].user /\ q.key = k
      /\ q.bound = wallets[k] /\ q.pc = "promote"
  BY <1>1 DEF Request
<1>3. req' = [req EXCEPT ![r] = q]
  BY <1>1
<1> HIDE DEF q
<1>4. req'[r] = q /\ Others(r)
  BY <1>3, TookOn
<1> QED
  BY <1>2, <1>4

-----------------------------------------------------------------------------
(* What a step may do: to a request, and to each table *)

\* From one label to another, the variables kept.
Passes(s) ==
    LET from == req[s].pc  to == req'[s].pc  op == req[s].op IN
    \/ from = "mark" /\ to = (IF op = "login" THEN "find" ELSE "check")
    \/ from = "check" /\ to \in {"refused", IF op = "login" THEN "demote" ELSE "insert"}
    \/ from = "demote" /\ to = "insert"
    \/ from = "insert" /\ to \in {"refused", IF op = "login" THEN "issue" ELSE "done"}
    \/ from = "rotate" /\ to = "issue"
    \/ from = "issue" /\ to = "done"
    \/ from = "revokeAll" /\ to = "done"
    \/ from = "count" /\ to = "refused"
    \/ from = "count" /\ to = "remove" /\ Cardinality(WalletsOf(req[s].user)) # 1
    \/ from = "remove" /\ to \in {"another", "done"}
    \/ from = "another" /\ to = "done"
    \/ from = "promote" /\ to \in {"refused", "done"}
    \/ from \notin Ended \cup {"idle"} /\ to = "died"

Keeps(s) ==
    /\ req'[s].op = req[s].op /\ req'[s].nonce = req[s].nonce
    /\ req'[s].token = req[s].token /\ req'[s].rivals = req[s].rivals

Moves(s) ==
    LET p == req[s]  q == req'[s] IN
    \/ q = p
    \/ p.pc = "idle" /\ q.op \in {"login", "bind"} /\ q.pc \in {"mark", "refused"}
       /\ (q.op = "login" => q.user = None) /\ (q.op = "bind" => Authenticated(q.user))
       /\ (q.pc = "mark" => nonces[q.nonce].key = q.key /\ nonces[q.nonce].status = "fresh")
    \/ p.pc = "idle" /\ q.op = "refresh" /\ q.pc \in {"rotate", "refused"}
       /\ tokens[q.token] # None /\ q.user = tokens[q.token].user
       /\ q.rivals = Rotating(q.token) /\ (q.pc = "rotate" => ~tokens[q.token].revoked)
    \/ p.pc = "idle" /\ q.op = "logout" /\ q.pc = "revokeAll" /\ Authenticated(q.user)
    \/ p.pc = "idle" /\ q.op = "unbind" /\ q.pc \in {"count", "refused"} /\ Authenticated(q.user)
       /\ (q.pc = "count" => q.key \in WalletsOf(q.user) /\ q.bound = wallets[q.key])
    \/ p.pc = "find" /\ Keeps(s) /\ q.key = p.key
       /\ q.pc = "create" /\ q.user = p.user
    \/ p.pc = "find" /\ Keeps(s) /\ q.key = p.key
       /\ q.pc = "issue" /\ wallets[p.key] # None /\ q.user = wallets[p.key].user
    \/ p.pc = "create" /\ Keeps(s) /\ q.key = p.key /\ q.pc = "check" /\ q.user = s
    \/ p.pc = "another" /\ q.pc = "promote" /\ q.op = p.op /\ q.user = p.user
       /\ q.key \in WalletsOf(p.user) /\ q.bound = wallets[q.key]
    \/ Passes(s) /\ Keeps(s) /\ q.key = p.key /\ q.user = p.user /\ q.bound = p.bound

RequestMotion == \A s \in Requests : Moves(s)

NonceMotion ==
    /\ \A n \in Nonces : nonces[n].status # "unissued" =>
          /\ nonces'[n].key = nonces[n].key /\ nonces'[n].status # "unissued"
          /\ Spent(n) => Spent(n)'
    /\ \A s \in Requests : req[s].pc = "mark" /\ req'[s].pc \in {"find", "check"} =>
          nonces'[req[s].nonce].status \in {"used", "deleted"}

TokenMotion ==
    /\ \A t \in Requests :
          IF tokens[t] # None
          THEN /\ tokens'[t] # None /\ tokens'[t].user = tokens[t].user
               /\ tokens'[t].parent = tokens[t].parent
               /\ tokens[t].revoked = TRUE => tokens'[t].revoked = TRUE
          ELSE tokens'[t] # None => /\ req[t].pc = "issue" /\ req'[t].pc = "done"
                                    /\ tokens'[t].user = req[t].user
                                    /\ tokens'[t].parent = req[t].token
    /\ \A s \in Requests :
          /\ req[s].pc = "rotate" /\ req'[s].pc = "issue" => tokens'[req[s].token].revoked = TRUE
          /\ req[s].pc = "issue" /\ req'[s].pc = "done" => tokens'[s] # None

WalletMotion ==
    /\ \A k \in Keys :
          \/ wallets'[k] = None /\ wallets[k] = None
          \/ /\ wallets'[k] = None /\ wallets[k] # None
             /\ \E s \in Requests : /\ req[s].pc = "remove" /\ req'[s].pc \in {"another", "done"}
                                    /\ wallets[k].row = req[s].bound.row
          \/ /\ wallets'[k] # None /\ wallets[k] # None
             /\ wallets'[k].row = wallets[k].row /\ wallets'[k].user = wallets[k].user
          \/ /\ wallets'[k] # None /\ wallets[k] = None
             /\ \E s \in Requests : /\ req[s].pc = "insert" /\ req'[s].pc \in {"issue", "done"}
                                    /\ req[s].key = k
                                    /\ wallets'[k].row = s /\ wallets'[k].user = req[s].user
          \/ /\ wallets'[k] # None
             /\ \E s \in Requests : /\ req[s].pc = "promote" /\ req'[s].pc = "done" /\ req[s].key = k
                                    /\ wallets[k] = None \/ wallets[k].row = req[s].bound.row
                                    /\ wallets'[k].row = req[s].bound.row
                                    /\ wallets'[k].user = req[s].bound.user
    /\ \A s \in Requests : req[s].pc = "insert" /\ req'[s].pc \in {"issue", "done"} =>
          wallets'[req[s].key] # None /\ wallets'[req[s].key].user = req[s].user

UserMotion ==
    /\ \A u \in Requests : users'[u] # None <=> users[u] # None \/ (req[u].pc = "create" /\ req'[u].pc = "check")
    /\ \A u \in bearers' : u \in bearers \/ \E s \in Requests : /\ req[s].pc = "issue" /\ req'[s].pc = "done"
                                                              /\ u = req[s].user

(***************************************************************************)
(* Every query does what its handler's place allows, to its own request    *)
(* and to the tables.                                                      *)
(***************************************************************************)
LEMMA Motion ==
    ASSUME AuthTypeOK, Shaped, Tokened, TokenInv, [AuthNext]_authVars
    PROVE  RequestMotion /\ NonceMotion /\ TokenMotion /\ WalletMotion /\ UserMotion
<1>t. /\ nonces \in [Nonces -> NonceRow]
      /\ users \in [Requests -> {None, "active", "inactive"}]
      /\ wallets \in [Keys -> Binding \cup {None}]
      /\ tokens \in [Requests -> RefreshToken \cup {None}]
      /\ None \notin Binding /\ None \notin RefreshToken /\ None \notin {"active", "inactive"}
  BY NotNull DEF AuthTypeOK, NonceRow
<1>q. \A r \in Requests : req[r] \in Request
  BY DEF AuthTypeOK
<1>s. \A r \in Requests :
         /\ req[r].op = "refresh" => req[r].token \in Requests
         /\ req[r].op \in {"login", "bind"} => req[r].key \in Keys /\ req[r].nonce \in Nonces
         /\ req[r].op = "unbind" => req[r].key \in Keys
         /\ req[r].pc \in {"mark", "check", "insert"} => req[r].op \in {"login", "bind"}
         /\ req[r].pc = "rotate" => req[r].op = "refresh"
         /\ req[r].pc = "issue" => req[r].user \in Requests
         /\ req[r].pc \in {"count", "remove", "another", "promote"} =>
               req[r].op = "unbind" /\ req[r].bound \in Binding
  BY DEF Shaped, Shape
<1>1. ASSUME NEW n \in Nonces, NEW k \in Keys, generateNonce(n, k)
      PROVE  RequestMotion /\ NonceMotion /\ TokenMotion /\ WalletMotion /\ UserMotion
  <2>2. RequestMotion
    BY <1>1 DEF RequestMotion, Moves, generateNonce
  <2>3. UNCHANGED <<users, wallets, tokens, bearers, req>>
    BY <1>1 DEF generateNonce
  <2>4. NonceMotion
    BY <1>1, <2>3, <1>t, <1>s DEF NonceMotion, Spent, generateNonce
  <2>5. TokenMotion
    BY <2>3 DEF TokenMotion
  <2>6. WalletMotion
    BY <2>3 DEF WalletMotion
  <2>7. UserMotion
    BY <2>3 DEF UserMotion
  <2> QED
    BY <2>2, <2>4, <2>5, <2>6, <2>7
<1>2. ASSUME NEW n \in Nonces, NonceExpires(n)
      PROVE  RequestMotion /\ NonceMotion /\ TokenMotion /\ WalletMotion /\ UserMotion
  <2>2. RequestMotion
    BY <1>2 DEF RequestMotion, Moves, NonceExpires
  <2>3. UNCHANGED <<users, wallets, tokens, bearers, req>>
    BY <1>2 DEF NonceExpires
  <2>4. NonceMotion
    BY <1>2, <2>3, <1>t, <1>s DEF NonceMotion, Spent, NonceExpires
  <2>5. TokenMotion
    BY <2>3 DEF TokenMotion
  <2>6. WalletMotion
    BY <2>3 DEF WalletMotion
  <2>7. UserMotion
    BY <2>3 DEF UserMotion
  <2> QED
    BY <2>2, <2>4, <2>5, <2>6, <2>7
<1>3. CASE cleanupExpiredNonces
  <2>2. RequestMotion
    BY <1>3 DEF RequestMotion, Moves, cleanupExpiredNonces
  <2>3. UNCHANGED <<users, wallets, tokens, bearers, req>>
    BY <1>3 DEF cleanupExpiredNonces
  <2>4. NonceMotion
    BY <1>3, <2>3, <1>t, <1>s DEF NonceMotion, Spent, cleanupExpiredNonces
  <2>5. TokenMotion
    BY <2>3 DEF TokenMotion
  <2>6. WalletMotion
    BY <2>3 DEF WalletMotion
  <2>7. UserMotion
    BY <2>3 DEF UserMotion
  <2> QED
    BY <2>2, <2>4, <2>5, <2>6, <2>7
<1>4. ASSUME NEW r \in Requests, NEW op \in {"login", "bind"}, NEW u \in Requests \cup {None},
             NEW k \in Keys, NEW n \in Nonces, NEW signed \in BOOLEAN,
             op = "bind" => u \in Requests, op = "login" => u = None, PresentNonce(r, op, u, k, n, signed)
      PROVE  RequestMotion /\ NonceMotion /\ TokenMotion /\ WalletMotion /\ UserMotion
  <2>0. /\ Others(r) /\ req'[r].op = op /\ req'[r].user = u /\ req'[r].key = k
        /\ req'[r].nonce = n /\ req'[r].token = req[r].token
        /\ req'[r].pc = IF validateNonce(n, k) /\ signed THEN AfterSignature(op) ELSE "refused"
    BY <1>4, Presented
  <2>1. req[r].pc = "idle"
    BY <1>4 DEF PresentNonce, At
  <2>2. RequestMotion
    <3>1. op = "bind" => Authenticated(u)
      BY <1>4 DEF PresentNonce
    <3>2. Moves(r)
      BY <2>0, <2>1, <3>1, <1>4 DEF Moves, validateNonce, AfterSignature
    <3> QED
      BY <2>0, <3>2 DEF RequestMotion, Moves, Others
  <2>3. UNCHANGED <<nonces, users, wallets, tokens, bearers>>
    BY <1>4 DEF PresentNonce
  <2>4. NonceMotion
    BY <2>3, <2>0, <2>1 DEF NonceMotion, Went, Others, Ended, Spent
  <2>5. TokenMotion
    BY <2>3, <2>0, <2>1 DEF TokenMotion, Went, Others, Ended
  <2>6. WalletMotion
    BY <2>3, <2>0, <2>1 DEF WalletMotion, Went, Others, Ended
  <2>7. UserMotion
    BY <2>3, <2>0, <2>1 DEF UserMotion, Went, Others, Ended
  <2> QED
    BY <2>2, <2>4, <2>5, <2>6, <2>7
<1>5. ASSUME NEW r \in Requests, markNonceUsed(r)
      PROVE  RequestMotion /\ NonceMotion /\ TokenMotion /\ WalletMotion /\ UserMotion
  <2>0. Went(r, IF req[r].op = "login" THEN "find" ELSE "check")
    BY <1>5, GotoWent DEF markNonceUsed
  <2>1. req[r].pc = "mark"
    BY <1>5 DEF markNonceUsed, At
  <2>2. RequestMotion
    BY <2>0, <2>1 DEF RequestMotion, Moves, Passes, Keeps, Went, Others
  <2>3. UNCHANGED <<users, wallets, tokens, bearers>>
    BY <1>5 DEF markNonceUsed
  <2>4. NonceMotion
    <3> DEFINE n0 == req[r].nonce
               st == IF nonces[n0].status = "deleted" THEN "deleted" ELSE "used"
    <3>1. n0 \in Nonces
      BY <2>1, <1>s
    <3>2. nonces' = [nonces EXCEPT ![n0] = [nonces[n0] EXCEPT !.status = st]]
      BY <1>5 DEF markNonceUsed
    <3>3. \A w \in NonceRow, x \in {"deleted", "used"} :
             [w EXCEPT !.status = x].key = w.key /\ [w EXCEPT !.status = x].status = x
      BY DEF NonceRow
    <3>4. nonces'[n0].key = nonces[n0].key /\ nonces'[n0].status \in {"used", "deleted"}
      BY <1>t, <3>1, <3>2, <3>3
    <3>5. \A n \in Nonces : n # n0 => nonces'[n] = nonces[n]
      BY <1>t, <3>1, <3>2
    <3> HIDE DEF n0, st
    <3>6. \A n \in Nonces : nonces[n].status # "unissued" =>
             /\ nonces'[n].key = nonces[n].key /\ nonces'[n].status # "unissued"
             /\ Spent(n) => Spent(n)'
      BY <3>4, <3>5 DEF Spent
    <3>7. \A s \in Requests : s # r => req'[s] = req[s]
      BY <2>0 DEF Went, Others
    <3> QED
      BY <3>4, <3>6, <3>7 DEF NonceMotion, n0
  <2>5. TokenMotion
    BY <2>3, <2>0, <2>1 DEF TokenMotion, Went, Others, Ended
  <2>6. WalletMotion
    BY <2>3, <2>0, <2>1 DEF WalletMotion, Went, Others, Ended
  <2>7. UserMotion
    BY <2>3, <2>0, <2>1 DEF UserMotion, Went, Others, Ended
  <2> QED
    BY <2>2, <2>4, <2>5, <2>6, <2>7
<1>6. ASSUME NEW r \in Requests, findUserByWallet(r)
      PROVE  RequestMotion /\ NonceMotion /\ TokenMotion /\ WalletMotion /\ UserMotion
  <2>0. /\ Others(r) /\ req'[r].op = req[r].op /\ req'[r].key = req[r].key
        /\ req'[r].nonce = req[r].nonce /\ req'[r].token = req[r].token
        /\ req'[r].rivals = req[r].rivals
        /\ wallets[req[r].key] = None => req'[r].pc = "create" /\ req'[r].user = req[r].user
        /\ wallets[req[r].key] # None => req'[r].pc = "issue" /\ req'[r].user = wallets[req[r].key].user
    BY <1>6, Found
  <2>1. req[r].pc = "find"
    BY <1>6 DEF findUserByWallet, At
  <2>2. RequestMotion
    <3>1. Moves(r)
      <4>1. CASE wallets[req[r].key] = None
        <5>1. req'[r].pc = "create" /\ req'[r].user = req[r].user /\ Keeps(r) /\ req'[r].key = req[r].key
          BY <2>0, <4>1 DEF Keeps
        <5> QED
          BY <2>1, <5>1 DEF Moves
      <4>2. CASE wallets[req[r].key] # None
        BY <2>0, <2>1, <4>2 DEF Moves, Keeps
      <4> QED
        BY <4>1, <4>2
    <3> QED
      BY <2>0, <3>1 DEF RequestMotion, Moves, Others
  <2>3. UNCHANGED <<nonces, users, wallets, tokens, bearers>>
    BY <1>6 DEF findUserByWallet
  <2>4. NonceMotion
    BY <2>3, <2>0, <2>1 DEF NonceMotion, Went, Others, Ended, Spent
  <2>5. TokenMotion
    BY <2>3, <2>0, <2>1 DEF TokenMotion, Went, Others, Ended
  <2>6. WalletMotion
    BY <2>3, <2>0, <2>1 DEF WalletMotion, Went, Others, Ended
  <2>7. UserMotion
    BY <2>3, <2>0, <2>1 DEF UserMotion, Went, Others, Ended
  <2> QED
    BY <2>2, <2>4, <2>5, <2>6, <2>7
<1>7. ASSUME NEW r \in Requests, createUserWithWallet(r)
      PROVE  RequestMotion /\ NonceMotion /\ TokenMotion /\ WalletMotion /\ UserMotion
  <2>0. /\ Others(r) /\ req'[r].op = req[r].op /\ req'[r].key = req[r].key
        /\ req'[r].nonce = req[r].nonce /\ req'[r].token = req[r].token
        /\ req'[r].pc = "check" /\ req'[r].user = r /\ req'[r].rivals = req[r].rivals
    BY <1>7, Created
  <2>1. req[r].pc = "create"
    BY <1>7 DEF createUserWithWallet, At
  <2>2. RequestMotion
    BY <2>0, <2>1 DEF RequestMotion, Moves, Passes, Keeps, Went, Others
  <2>3. UNCHANGED <<nonces, wallets, tokens, bearers>>
    BY <1>7 DEF createUserWithWallet
  <2>4. NonceMotion
    BY <2>3, <2>0, <2>1 DEF NonceMotion, Went, Others, Ended, Spent
  <2>5. TokenMotion
    BY <2>3, <2>0, <2>1 DEF TokenMotion, Went, Others, Ended
  <2>6. WalletMotion
    BY <2>3, <2>0, <2>1 DEF WalletMotion, Went, Others, Ended
  <2>7. UserMotion
    BY <1>7, <2>3, <2>0, <2>1, <1>t, <1>s DEF UserMotion, Went, Others, Ended,
       createUserWithWallet
  <2> QED
    BY <2>2, <2>4, <2>5, <2>6, <2>7
<1>8. ASSUME NEW r \in Requests, CheckUnbound(r)
      PROVE  RequestMotion /\ NonceMotion /\ TokenMotion /\ WalletMotion /\ UserMotion
  <2>0. Went(r, IF wallets[req[r].key] # None THEN "refused"
                 ELSE IF req[r].op = "login" THEN "demote" ELSE "insert")
    BY <1>8, GotoWent DEF CheckUnbound
  <2>1. req[r].pc = "check"
    BY <1>8 DEF CheckUnbound, At
  <2>2. RequestMotion
    BY <2>0, <2>1 DEF RequestMotion, Moves, Passes, Keeps, Went, Others
  <2>3. UNCHANGED <<nonces, users, wallets, tokens, bearers>>
    BY <1>8 DEF CheckUnbound
  <2>4. NonceMotion
    BY <2>3, <2>0, <2>1 DEF NonceMotion, Went, Others, Ended, Spent
  <2>5. TokenMotion
    BY <2>3, <2>0, <2>1 DEF TokenMotion, Went, Others, Ended
  <2>6. WalletMotion
    BY <2>3, <2>0, <2>1 DEF WalletMotion, Went, Others, Ended
  <2>7. UserMotion
    BY <2>3, <2>0, <2>1 DEF UserMotion, Went, Others, Ended
  <2> QED
    BY <2>2, <2>4, <2>5, <2>6, <2>7
<1>9. ASSUME NEW r \in Requests, DemoteOthers(r)
      PROVE  RequestMotion /\ NonceMotion /\ TokenMotion /\ WalletMotion /\ UserMotion
  <2>0. Went(r, "insert")
    BY <1>9, GotoWent DEF DemoteOthers
  <2>1. req[r].pc = "demote"
    BY <1>9 DEF DemoteOthers, At
  <2>2. RequestMotion
    BY <2>0, <2>1 DEF RequestMotion, Moves, Passes, Keeps, Went, Others
  <2>3. UNCHANGED <<nonces, users, tokens, bearers>>
    BY <1>9 DEF DemoteOthers
  <2>4. NonceMotion
    BY <2>3, <2>0, <2>1 DEF NonceMotion, Went, Others, Ended, Spent
  <2>5. TokenMotion
    BY <2>3, <2>0, <2>1 DEF TokenMotion, Went, Others, Ended
  <2>6. WalletMotion
    <3>1. \A k \in Keys : wallets'[k] = IF k \in WalletsOf(req[r].user)
                                        THEN [wallets[k] EXCEPT !.isPrimary = FALSE] ELSE wallets[k]
      BY <1>9 DEF DemoteOthers
    <3>2. \A b \in Binding : LET d == [b EXCEPT !.isPrimary = FALSE] IN
             d \in Binding /\ d.row = b.row /\ d.user = b.user
      BY DEF Binding
    <3>3. \A k \in Keys : IF wallets[k] = None THEN wallets'[k] = None
                          ELSE wallets'[k] # None /\ wallets'[k].row = wallets[k].row
                               /\ wallets'[k].user = wallets[k].user
      <4> SUFFICES ASSUME NEW k \in Keys
                   PROVE  IF wallets[k] = None THEN wallets'[k] = None
                          ELSE wallets'[k] # None /\ wallets'[k].row = wallets[k].row
                               /\ wallets'[k].user = wallets[k].user
        OBVIOUS
      <4> DEFINE y == [wallets[k] EXCEPT !.isPrimary = FALSE]
      <4>1. wallets'[k] = wallets[k] \/ (wallets[k] # None /\ wallets'[k] = y)
        BY <3>1 DEF WalletsOf
      <4>2. wallets[k] # None => y \in Binding /\ y.row = wallets[k].row /\ y.user = wallets[k].user
        BY <1>t, <3>2
      <4> HIDE DEF y
      <4> QED
        BY <1>t, <4>1, <4>2
    <3> QED
      BY <2>0, <2>1, <3>3 DEF WalletMotion, Went, Others
  <2>7. UserMotion
    BY <2>3, <2>0, <2>1 DEF UserMotion, Went, Others, Ended
  <2> QED
    BY <2>2, <2>4, <2>5, <2>6, <2>7
<1>10. ASSUME NEW r \in Requests, InsertBinding(r)
      PROVE  RequestMotion /\ NonceMotion /\ TokenMotion /\ WalletMotion /\ UserMotion
  <2>0. \/ Went(r, "refused") /\ UNCHANGED wallets
        \/ /\ wallets[req[r].key] = None /\ wallets' = [wallets EXCEPT ![req[r].key] = NewBinding(r)]
           /\ Went(r, IF req[r].op = "login" THEN "issue" ELSE "done")
    BY <1>10, GotoWent DEF InsertBinding
  <2>1. req[r].pc = "insert"
    BY <1>10 DEF InsertBinding, At
  <2>2. RequestMotion
    BY <2>0, <2>1 DEF RequestMotion, Moves, Passes, Keeps, Went, Others
  <2>3. UNCHANGED <<nonces, users, tokens, bearers>>
    BY <1>10 DEF InsertBinding
  <2>4. NonceMotion
    BY <2>3, <2>0, <2>1 DEF NonceMotion, Went, Others, Ended, Spent
  <2>5. TokenMotion
    BY <2>3, <2>0, <2>1 DEF TokenMotion, Went, Others, Ended
  <2>6. WalletMotion
    <3>1. CASE Went(r, "refused") /\ UNCHANGED wallets
      BY <2>1, <3>1 DEF WalletMotion, Went, Others
    <3>2. CASE /\ wallets[req[r].key] = None /\ wallets' = [wallets EXCEPT ![req[r].key] = NewBinding(r)]
               /\ Went(r, IF req[r].op = "login" THEN "issue" ELSE "done")
      <4>1. req[r].key \in Keys /\ req[r].user \in Requests
        BY <2>1 DEF Shaped, Shape
      <4>2. NewBinding(r) \in Binding /\ NewBinding(r).row = r /\ NewBinding(r).user = req[r].user
        BY <4>1 DEF NewBinding, Binding
      <4>3. /\ wallets'[req[r].key] = NewBinding(r) /\ wallets'[req[r].key] # None
            /\ \A k \in Keys \ {req[r].key} : wallets'[k] = wallets[k]
        BY <1>t, <3>2, <4>1, <4>2
      <4> QED
        BY <2>1, <3>2, <4>2, <4>3 DEF WalletMotion, Went, Others
    <3> QED
      BY <2>0, <3>1, <3>2
  <2>7. UserMotion
    BY <2>3, <2>0, <2>1 DEF UserMotion, Went, Others, Ended
  <2> QED
    BY <2>2, <2>4, <2>5, <2>6, <2>7
<1>11. ASSUME NEW r \in Requests, NEW t \in Requests, refreshAccessToken(r, t)
      PROVE  RequestMotion /\ NonceMotion /\ TokenMotion /\ WalletMotion /\ UserMotion
  <2>0. /\ Others(r) /\ req'[r].op = "refresh" /\ req'[r].token = t
        /\ req'[r].user = tokens[t].user /\ req'[r].pc \in {"rotate", "refused"}
        /\ req'[r].rivals = Rotating(t) /\ (req'[r].pc = "rotate" => ~tokens[t].revoked)
    BY <1>11, Refreshed
  <2>1. req[r].pc = "idle"
    BY <1>11 DEF refreshAccessToken, At
  <2>2. RequestMotion
    BY <1>11, <2>0, <2>1 DEF RequestMotion, Moves, Passes, Keeps, Went, Others,
       refreshAccessToken
  <2>3. UNCHANGED <<nonces, users, wallets, tokens, bearers>>
    BY <1>11 DEF refreshAccessToken
  <2>4. NonceMotion
    BY <2>3, <2>0, <2>1 DEF NonceMotion, Went, Others, Ended, Spent
  <2>5. TokenMotion
    BY <2>3, <2>0, <2>1 DEF TokenMotion, Went, Others, Ended
  <2>6. WalletMotion
    BY <2>3, <2>0, <2>1 DEF WalletMotion, Went, Others, Ended
  <2>7. UserMotion
    BY <2>3, <2>0, <2>1 DEF UserMotion, Went, Others, Ended
  <2> QED
    BY <2>2, <2>4, <2>5, <2>6, <2>7
<1>12. ASSUME NEW r \in Requests, revokeRefreshToken(r)
      PROVE  RequestMotion /\ NonceMotion /\ TokenMotion /\ WalletMotion /\ UserMotion
  <2>0. Went(r, "issue")
    BY <1>12, GotoWent DEF revokeRefreshToken
  <2>1. req[r].pc = "rotate"
    BY <1>12 DEF revokeRefreshToken, At
  <2>2. RequestMotion
    BY <2>0, <2>1 DEF RequestMotion, Moves, Passes, Keeps, Went, Others
  <2>3. UNCHANGED <<nonces, users, wallets, bearers>>
    BY <1>12 DEF revokeRefreshToken
  <2>4. NonceMotion
    BY <2>3, <2>0, <2>1 DEF NonceMotion, Went, Others, Ended, Spent
  <2>5. TokenMotion
    <3>1. \A x \in RefreshToken : LET y == [x EXCEPT !.revoked = TRUE] IN
             y \in RefreshToken /\ y.user = x.user /\ y.parent = x.parent /\ y.revoked = TRUE
      BY DEF RefreshToken
    <3>2. req[r].token \in Requests /\ tokens[req[r].token] \in RefreshToken
      BY <1>t, <1>s, <2>1 DEF Tokened
    <3>3. /\ tokens'[req[r].token] = [tokens[req[r].token] EXCEPT !.revoked = TRUE]
          /\ \A t \in Requests \ {req[r].token} : tokens'[t] = tokens[t]
      BY <1>12, <1>t, <3>2 DEF revokeRefreshToken
    <3>4. /\ tokens'[req[r].token] # None /\ tokens'[req[r].token].revoked = TRUE
          /\ tokens'[req[r].token].user = tokens[req[r].token].user
          /\ tokens'[req[r].token].parent = tokens[req[r].token].parent
      BY <1>t, <3>1, <3>2, <3>3
    <3>5. \A t \in Requests : IF tokens[t] = None THEN tokens'[t] = None
             ELSE /\ tokens'[t] # None /\ tokens'[t].user = tokens[t].user /\ tokens'[t].parent = tokens[t].parent
                  /\ tokens[t].revoked = TRUE => tokens'[t].revoked = TRUE
      BY <1>t, <3>2, <3>3, <3>4, ZenonT(60)
    <3> QED
      BY <2>0, <2>1, <3>4, <3>5 DEF TokenMotion, Went, Others
  <2>6. WalletMotion
    BY <2>3, <2>0, <2>1 DEF WalletMotion, Went, Others, Ended
  <2>7. UserMotion
    BY <2>3, <2>0, <2>1 DEF UserMotion, Went, Others, Ended
  <2> QED
    BY <2>2, <2>4, <2>5, <2>6, <2>7
<1>13. ASSUME NEW r \in Requests, generateRefreshToken(r)
      PROVE  RequestMotion /\ NonceMotion /\ TokenMotion /\ WalletMotion /\ UserMotion
  <2>0. Went(r, "done")
    BY <1>13, GotoWent DEF generateRefreshToken
  <2>1. req[r].pc = "issue"
    BY <1>13 DEF generateRefreshToken, At
  <2>2. RequestMotion
    BY <2>0, <2>1 DEF RequestMotion, Moves, Passes, Keeps, Went, Others
  <2>3. UNCHANGED <<nonces, users, wallets>>
    BY <1>13 DEF generateRefreshToken
  <2>4. NonceMotion
    BY <2>3, <2>0, <2>1 DEF NonceMotion, Went, Others, Ended, Spent
  <2>5. TokenMotion
    <3> DEFINE y == [user |-> req[r].user, revoked |-> FALSE, expired |-> FALSE, parent |-> req[r].token]
    <3>1. y \in RefreshToken /\ y.user = req[r].user /\ y.parent = req[r].token
      BY <1>s, <2>1, <1>q DEF RefreshToken, Request
    <3>2. tokens' = [tokens EXCEPT ![r] = y]
      BY <1>13 DEF generateRefreshToken
    <3> HIDE DEF y
    <3>3. tokens'[r] = y /\ tokens'[r] # None /\ \A t \in Requests \ {r} : tokens'[t] = tokens[t]
      BY <1>t, <3>1, <3>2
    <3>4. tokens[r] = None
      BY <2>1 DEF TokenInv
    <3> QED
      BY <2>0, <2>1, <3>1, <3>3, <3>4 DEF TokenMotion, Went, Others
  <2>6. WalletMotion
    BY <2>3, <2>0, <2>1 DEF WalletMotion, Went, Others, Ended
  <2>7. UserMotion
    BY <1>13, <2>3, <2>0, <2>1, <1>t, <1>s DEF UserMotion, Went, Others, Ended,
       generateRefreshToken
  <2> QED
    BY <2>2, <2>4, <2>5, <2>6, <2>7
<1>14. ASSUME NEW r \in Requests, NEW u \in Requests, logout(r, u)
      PROVE  RequestMotion /\ NonceMotion /\ TokenMotion /\ WalletMotion /\ UserMotion
  <2>0. /\ Others(r) /\ req'[r].op = "logout" /\ req'[r].user = u /\ req'[r].pc = "revokeAll"
    BY <1>14, LoggedOut
  <2>1. req[r].pc = "idle"
    BY <1>14 DEF logout, At
  <2>2. RequestMotion
    BY <1>14, <2>0, <2>1, ZenonT(60) DEF RequestMotion, Moves, Passes, Keeps, Went, Others, logout
  <2>3. UNCHANGED <<nonces, users, wallets, tokens, bearers>>
    BY <1>14 DEF logout
  <2>4. NonceMotion
    BY <2>3, <2>0, <2>1 DEF NonceMotion, Went, Others, Ended, Spent
  <2>5. TokenMotion
    BY <2>3, <2>0, <2>1 DEF TokenMotion, Went, Others, Ended
  <2>6. WalletMotion
    BY <2>3, <2>0, <2>1 DEF WalletMotion, Went, Others, Ended
  <2>7. UserMotion
    BY <2>3, <2>0, <2>1 DEF UserMotion, Went, Others, Ended
  <2> QED
    BY <2>2, <2>4, <2>5, <2>6, <2>7
<1>15. ASSUME NEW r \in Requests, revokeAllUserRefreshTokens(r)
      PROVE  RequestMotion /\ NonceMotion /\ TokenMotion /\ WalletMotion /\ UserMotion
  <2>0. Went(r, "done")
    BY <1>15, GotoWent DEF revokeAllUserRefreshTokens
  <2>1. req[r].pc = "revokeAll"
    BY <1>15 DEF revokeAllUserRefreshTokens, At
  <2>2. RequestMotion
    BY <2>0, <2>1 DEF RequestMotion, Moves, Passes, Keeps, Went, Others
  <2>3. UNCHANGED <<nonces, users, wallets, bearers>>
    BY <1>15 DEF revokeAllUserRefreshTokens
  <2>4. NonceMotion
    BY <2>3, <2>0, <2>1 DEF NonceMotion, Went, Others, Ended, Spent
  <2>5. TokenMotion
    <3>1. \A x \in RefreshToken : LET y == [x EXCEPT !.revoked = TRUE] IN
             y \in RefreshToken /\ y.user = x.user /\ y.parent = x.parent /\ y.revoked = TRUE
      BY DEF RefreshToken
    <3>2. \A t \in Requests : tokens'[t] = IF tokens[t] # None /\ tokens[t].user = req[r].user
                                          THEN [tokens[t] EXCEPT !.revoked = TRUE] ELSE tokens[t]
      BY <1>15 DEF revokeAllUserRefreshTokens
    <3>3. \A t \in Requests : IF tokens[t] = None THEN tokens'[t] = None
             ELSE /\ tokens'[t] # None /\ tokens'[t].user = tokens[t].user /\ tokens'[t].parent = tokens[t].parent
                  /\ tokens[t].revoked = TRUE => tokens'[t].revoked = TRUE
      <4> SUFFICES ASSUME NEW t \in Requests
                   PROVE  IF tokens[t] = None THEN tokens'[t] = None
                          ELSE /\ tokens'[t] # None /\ tokens'[t].user = tokens[t].user
                               /\ tokens'[t].parent = tokens[t].parent
                               /\ tokens[t].revoked = TRUE => tokens'[t].revoked = TRUE
        OBVIOUS
      <4> DEFINE y == [tokens[t] EXCEPT !.revoked = TRUE]
      <4>1. tokens'[t] = tokens[t] \/ (tokens[t] # None /\ tokens'[t] = y)
        BY <3>2
      <4>2. tokens[t] # None => /\ y \in RefreshToken /\ y.user = tokens[t].user
                                /\ y.parent = tokens[t].parent /\ y.revoked = TRUE
        BY <1>t, <3>1
      <4> HIDE DEF y
      <4> QED
        BY <1>t, <4>1, <4>2
    <3> QED
      BY <2>0, <2>1, <3>3 DEF TokenMotion, Went, Others
  <2>6. WalletMotion
    BY <2>3, <2>0, <2>1 DEF WalletMotion, Went, Others, Ended
  <2>7. UserMotion
    BY <2>3, <2>0, <2>1 DEF UserMotion, Went, Others, Ended
  <2> QED
    BY <2>2, <2>4, <2>5, <2>6, <2>7
<1>16. ASSUME NEW r \in Requests, NEW u \in Requests, NEW k \in Keys, unbindWallet(r, u, k)
      PROVE  RequestMotion /\ NonceMotion /\ TokenMotion /\ WalletMotion /\ UserMotion
  <2>0. /\ Others(r) /\ req'[r].op = "unbind" /\ req'[r].user = u /\ req'[r].key = k
        /\ req'[r].pc \in {"count", "refused"}
        /\ req'[r].pc = "count" => k \in WalletsOf(u) /\ req'[r].bound = wallets[k]
    BY <1>16, Unbinding
  <2>1. req[r].pc = "idle"
    BY <1>16 DEF unbindWallet, At
  <2>2. RequestMotion
    BY <1>16, <2>0, <2>1 DEF RequestMotion, Moves, Passes, Keeps, Went, Others, unbindWallet
  <2>3. UNCHANGED <<nonces, users, wallets, tokens, bearers>>
    BY <1>16 DEF unbindWallet
  <2>4. NonceMotion
    BY <2>3, <2>0, <2>1 DEF NonceMotion, Went, Others, Ended, Spent
  <2>5. TokenMotion
    BY <2>3, <2>0, <2>1 DEF TokenMotion, Went, Others, Ended
  <2>6. WalletMotion
    BY <2>3, <2>0, <2>1 DEF WalletMotion, Went, Others, Ended
  <2>7. UserMotion
    BY <2>3, <2>0, <2>1 DEF UserMotion, Went, Others, Ended
  <2> QED
    BY <2>2, <2>4, <2>5, <2>6, <2>7
<1>17. ASSUME NEW r \in Requests, CountWallets(r)
      PROVE  RequestMotion /\ NonceMotion /\ TokenMotion /\ WalletMotion /\ UserMotion
  <2>0. Went(r, IF Cardinality(WalletsOf(req[r].user)) = 1 THEN "refused" ELSE "remove")
    BY <1>17, GotoWent DEF CountWallets
  <2>1. req[r].pc = "count"
    BY <1>17 DEF CountWallets, At
  <2>2. RequestMotion
    BY <2>0, <2>1 DEF RequestMotion, Moves, Passes, Keeps, Went, Others
  <2>3. UNCHANGED <<nonces, users, wallets, tokens, bearers>>
    BY <1>17 DEF CountWallets
  <2>4. NonceMotion
    BY <2>3, <2>0, <2>1 DEF NonceMotion, Went, Others, Ended, Spent
  <2>5. TokenMotion
    BY <2>3, <2>0, <2>1 DEF TokenMotion, Went, Others, Ended
  <2>6. WalletMotion
    BY <2>3, <2>0, <2>1 DEF WalletMotion, Went, Others, Ended
  <2>7. UserMotion
    BY <2>3, <2>0, <2>1 DEF UserMotion, Went, Others, Ended
  <2> QED
    BY <2>2, <2>4, <2>5, <2>6, <2>7
<1>18. ASSUME NEW r \in Requests, RemoveBinding(r)
      PROVE  RequestMotion /\ NonceMotion /\ TokenMotion /\ WalletMotion /\ UserMotion
  <2>0. Went(r, IF req[r].bound.isPrimary THEN "another" ELSE "done")
    BY <1>18, GotoWent DEF RemoveBinding
  <2>1. req[r].pc = "remove"
    BY <1>18 DEF RemoveBinding, At
  <2>2. RequestMotion
    BY <2>0, <2>1 DEF RequestMotion, Moves, Passes, Keeps, Went, Others
  <2>3. UNCHANGED <<nonces, users, tokens, bearers>>
    BY <1>18 DEF RemoveBinding
  <2>4. NonceMotion
    BY <2>3, <2>0, <2>1 DEF NonceMotion, Went, Others, Ended, Spent
  <2>5. TokenMotion
    BY <2>3, <2>0, <2>1 DEF TokenMotion, Went, Others, Ended
  <2>6. WalletMotion
    <3>1. \A k \in Keys : wallets'[k] = IF HoldsRow(k, req[r].bound.row) THEN None ELSE wallets[k]
      BY <1>18 DEF RemoveBinding
    <3>2. req'[r].pc \in {"another", "done"}
      BY <2>0 DEF Went
    <3> QED
      BY <2>0, <2>1, <3>1, <3>2 DEF WalletMotion, Went, Others, HoldsRow
  <2>7. UserMotion
    BY <2>3, <2>0, <2>1 DEF UserMotion, Went, Others, Ended
  <2> QED
    BY <2>2, <2>4, <2>5, <2>6, <2>7
<1>19. ASSUME NEW r \in Requests, FindAnother(r)
      PROVE  RequestMotion /\ NonceMotion /\ TokenMotion /\ WalletMotion /\ UserMotion
  <2>0. \/ Went(r, "done")
        \/ \E k \in WalletsOf(req[r].user) :
              /\ Others(r) /\ req'[r].op = req[r].op /\ req'[r].user = req[r].user
              /\ req'[r].key = k /\ req'[r].bound = wallets[k] /\ req'[r].pc = "promote"
    BY <1>19, GotoWent, Other DEF FindAnother
  <2>1. req[r].pc = "another"
    BY <1>19 DEF FindAnother, At
  <2>2. RequestMotion
    BY <2>0, <2>1 DEF RequestMotion, Moves, Passes, Keeps, Went, Others
  <2>3. UNCHANGED <<nonces, users, wallets, tokens, bearers>>
    BY <1>19 DEF FindAnother
  <2>4. NonceMotion
    BY <2>3, <2>0, <2>1 DEF NonceMotion, Went, Others, Ended, Spent
  <2>5. TokenMotion
    BY <2>3, <2>0, <2>1 DEF TokenMotion, Went, Others, Ended
  <2>6. WalletMotion
    BY <2>3, <2>0, <2>1 DEF WalletMotion, Went, Others, Ended
  <2>7. UserMotion
    BY <2>3, <2>0, <2>1 DEF UserMotion, Went, Others, Ended
  <2> QED
    BY <2>2, <2>4, <2>5, <2>6, <2>7
<1>20. ASSUME NEW r \in Requests, PromoteAnother(r)
      PROVE  RequestMotion /\ NonceMotion /\ TokenMotion /\ WalletMotion /\ UserMotion
  <2>0. \/ Went(r, "refused") /\ UNCHANGED wallets
        \/ /\ wallets[req[r].key] = None \/ HoldsRow(req[r].key, req[r].bound.row)
           /\ wallets' = [wallets EXCEPT ![req[r].key] = [req[r].bound EXCEPT !.isPrimary = TRUE]]
           /\ Went(r, "done")
    BY <1>20, GotoWent DEF PromoteAnother, HoldsRow
  <2>1. req[r].pc = "promote"
    BY <1>20 DEF PromoteAnother, At
  <2>2. RequestMotion
    BY <2>0, <2>1 DEF RequestMotion, Moves, Passes, Keeps, Went, Others
  <2>3. UNCHANGED <<nonces, users, tokens, bearers>>
    BY <1>20 DEF PromoteAnother
  <2>4. NonceMotion
    BY <2>3, <2>0, <2>1 DEF NonceMotion, Went, Others, Ended, Spent
  <2>5. TokenMotion
    BY <2>3, <2>0, <2>1 DEF TokenMotion, Went, Others, Ended
  <2>6. WalletMotion
    <3>1. CASE Went(r, "refused") /\ UNCHANGED wallets
      BY <2>1, <3>1 DEF WalletMotion, Went, Others
    <3>2. CASE /\ wallets[req[r].key] = None \/ HoldsRow(req[r].key, req[r].bound.row)
               /\ wallets' = [wallets EXCEPT ![req[r].key] = [req[r].bound EXCEPT !.isPrimary = TRUE]]
               /\ Went(r, "done")
      <4> DEFINE d == [req[r].bound EXCEPT !.isPrimary = TRUE]
      <4>1. req[r].key \in Keys /\ req[r].bound \in Binding
        BY <1>s, <2>1
      <4>2. d \in Binding /\ d.row = req[r].bound.row /\ d.user = req[r].bound.user
        BY <4>1 DEF Binding
      <4> HIDE DEF d
      <4>3. /\ wallets'[req[r].key] = d /\ wallets'[req[r].key] # None
            /\ \A k \in Keys \ {req[r].key} : wallets'[k] = wallets[k]
        BY <1>t, <3>2, <4>1, <4>2 DEF d
      <4>4. wallets[req[r].key] = None \/ wallets[req[r].key].row = req[r].bound.row
        BY <3>2 DEF HoldsRow
      <4> QED
        BY <2>1, <3>2, <4>2, <4>3, <4>4, ZenonT(60) DEF WalletMotion, Went, Others
    <3> QED
      BY <2>0, <3>1, <3>2
  <2>7. UserMotion
    BY <2>3, <2>0, <2>1 DEF UserMotion, Went, Others, Ended
  <2> QED
    BY <2>2, <2>4, <2>5, <2>6, <2>7
<1>21. ASSUME NEW t \in Requests, TokenExpires(t)
      PROVE  RequestMotion /\ NonceMotion /\ TokenMotion /\ WalletMotion /\ UserMotion
  <2>2. RequestMotion
    BY <1>21 DEF RequestMotion, Moves, TokenExpires
  <2>3. UNCHANGED <<nonces, users, wallets, bearers, req>>
    BY <1>21 DEF TokenExpires
  <2>4. NonceMotion
    BY <2>3 DEF NonceMotion, Spent
  <2>5. TokenMotion
    <3>1. \A x \in RefreshToken : LET y == [x EXCEPT !.expired = TRUE] IN
             y \in RefreshToken /\ y.user = x.user /\ y.parent = x.parent /\ y.revoked = x.revoked
      BY DEF RefreshToken
    <3>2. /\ tokens[t] \in RefreshToken /\ tokens'[t] = [tokens[t] EXCEPT !.expired = TRUE]
          /\ \A x \in Requests \ {t} : tokens'[x] = tokens[x]
      BY <1>21, <1>t DEF TokenExpires
    <3>3. /\ tokens'[t] # None /\ tokens'[t].user = tokens[t].user
          /\ tokens'[t].parent = tokens[t].parent /\ tokens'[t].revoked = tokens[t].revoked
      BY <1>t, <3>1, <3>2
    <3> QED
      BY <1>t, <2>3, <3>2, <3>3 DEF TokenMotion
  <2>6. WalletMotion
    BY <2>3 DEF WalletMotion
  <2>7. UserMotion
    BY <2>3 DEF UserMotion
  <2> QED
    BY <2>2, <2>4, <2>5, <2>6, <2>7
<1>22. ASSUME NEW u \in Requests, AccessExpires(u)
      PROVE  RequestMotion /\ NonceMotion /\ TokenMotion /\ WalletMotion /\ UserMotion
  <2>2. RequestMotion
    BY <1>22 DEF RequestMotion, Moves, AccessExpires
  <2>3. UNCHANGED <<nonces, users, wallets, tokens, req>>
    BY <1>22 DEF AccessExpires
  <2>4. NonceMotion
    BY <2>3 DEF NonceMotion, Spent
  <2>5. TokenMotion
    BY <2>3 DEF TokenMotion
  <2>6. WalletMotion
    BY <2>3 DEF WalletMotion
  <2>7. UserMotion
    BY <1>22, <2>3, <1>t, <1>s DEF UserMotion, AccessExpires
  <2> QED
    BY <2>2, <2>4, <2>5, <2>6, <2>7
<1>23. ASSUME NEW u \in Requests, Deactivate(u)
      PROVE  RequestMotion /\ NonceMotion /\ TokenMotion /\ WalletMotion /\ UserMotion
  <2>2. RequestMotion
    BY <1>23 DEF RequestMotion, Moves, Deactivate
  <2>3. UNCHANGED <<nonces, wallets, tokens, bearers, req>>
    BY <1>23 DEF Deactivate
  <2>4. NonceMotion
    BY <2>3 DEF NonceMotion, Spent
  <2>5. TokenMotion
    BY <2>3 DEF TokenMotion
  <2>6. WalletMotion
    BY <2>3 DEF WalletMotion
  <2>7. UserMotion
    BY <1>23, <2>3, <1>t, <1>s DEF UserMotion, Deactivate
  <2> QED
    BY <2>2, <2>4, <2>5, <2>6, <2>7
<1>24. ASSUME NEW r \in Requests, RequestDies(r)
      PROVE  RequestMotion /\ NonceMotion /\ TokenMotion /\ WalletMotion /\ UserMotion
  <2>0. Went(r, "died")
    BY <1>24, GotoWent DEF RequestDies
  <2>1. req[r].pc \notin Ended \cup {"idle"}
    BY <1>24 DEF RequestDies
  <2>2. RequestMotion
    BY <2>0, <2>1 DEF RequestMotion, Moves, Passes, Keeps, Went, Others
  <2>3. UNCHANGED <<nonces, users, wallets, tokens, bearers>>
    BY <1>24 DEF RequestDies
  <2>4. NonceMotion
    BY <2>3, <2>0, <2>1 DEF NonceMotion, Went, Others, Ended, Spent
  <2>5. TokenMotion
    BY <2>3, <2>0, <2>1 DEF TokenMotion, Went, Others, Ended
  <2>6. WalletMotion
    BY <2>3, <2>0, <2>1 DEF WalletMotion, Went, Others, Ended
  <2>7. UserMotion
    BY <2>3, <2>0, <2>1 DEF UserMotion, Went, Others, Ended
  <2> QED
    BY <2>2, <2>4, <2>5, <2>6, <2>7
<1>25. CASE UNCHANGED authVars
  BY <1>25 DEF authVars, RequestMotion, Moves, NonceMotion, Spent, TokenMotion,
     WalletMotion, UserMotion
<1> QED
  BY <1>1, <1>2, <1>3, <1>4, <1>5, <1>6, <1>7, <1>8, <1>9, <1>10, <1>11, <1>12, <1>13,
     <1>14, <1>15, <1>16, <1>17, <1>18, <1>19, <1>20, <1>21, <1>22, <1>23, <1>24, <1>25 DEF
     AuthNext, Arrive, Step, AuthClock, walletLogin, bindWallet
-----------------------------------------------------------------------------
(* The invariant, part by part *)

(***************************************************************************)
(* A refresh revokes the token it was given before it stores the next one, *)
(* and tokens never change hands.                                          *)
(***************************************************************************)
LEMMA TokenStep ==
    ASSUME AuthTypeOK, Shaped, TokenInv, RequestMotion, TokenMotion, Shaped'
    PROVE  TokenInv'
<1> SUFFICES ASSUME NEW r \in Requests
             PROVE  /\ tokens'[r] # None => /\ req'[r].pc = "done" /\ req'[r].op \in {"login", "refresh"}
                                            /\ tokens'[r].user = req'[r].user
                                            /\ tokens'[r].parent = req'[r].token
                    /\ req'[r].op = "refresh" /\ req'[r].pc \in {"rotate", "issue", "done"} =>
                         tokens'[req'[r].token] # None /\ tokens'[req'[r].token].user = req'[r].user
                    /\ req'[r].op = "refresh" /\ req'[r].pc \in {"issue", "done"} =>
                         tokens'[req'[r].token].revoked
  BY DEF TokenInv
<1>m. Moves(r)
  BY DEF RequestMotion
<1>s. Shape(req[r]) /\ Shape(req'[r])
  BY DEF Shaped
<1>t. \A t \in Requests : tokens[t] # None => tokens[t].revoked \in BOOLEAN
  BY DEF AuthTypeOK, RefreshToken
<1>1. tokens'[r] # None => /\ req'[r].pc = "done" /\ req'[r].op \in {"login", "refresh"}
                           /\ tokens'[r].user = req'[r].user /\ tokens'[r].parent = req'[r].token
  <2>1. CASE tokens[r] # None
    BY <1>m, <2>1, ZenonT(60) DEF TokenInv, TokenMotion, Moves, Passes, Keeps, Ended
  <2>2. CASE tokens[r] = None
    BY <1>m, <1>s, <2>2 DEF TokenMotion, Moves, Passes, Keeps, Shape
  <2> QED
    BY <2>1, <2>2
<1>2. ASSUME req'[r].op = "refresh", req'[r].pc \in {"rotate", "issue", "done"}
      PROVE  tokens'[req'[r].token] # None /\ tokens'[req'[r].token].user = req'[r].user
  <2>1. req'[r].token \in Requests
    BY <1>2, <1>s DEF Shape
  <2>2. tokens[req'[r].token] # None /\ tokens[req'[r].token].user = req'[r].user
    BY <1>2, <1>m, <1>s DEF TokenInv, Moves, Passes, Keeps, Shape, Ended
  <2> QED
    BY <2>1, <2>2 DEF TokenMotion
<1>3. ASSUME req'[r].op = "refresh", req'[r].pc \in {"issue", "done"}
      PROVE  tokens'[req'[r].token].revoked
  <2>1. req'[r].token \in Requests /\ tokens[req'[r].token] # None
    BY <1>2, <1>3, <1>m, <1>s DEF Shape, TokenInv, Moves, Passes, Keeps, Ended
  <2>2. \/ req[r].op = "refresh" /\ req[r].pc \in {"issue", "done"} /\ req'[r].token = req[r].token
        \/ req[r].pc = "rotate" /\ req'[r].pc = "issue" /\ req'[r].token = req[r].token
    BY <1>3, <1>m, <1>s DEF Moves, Passes, Keeps, Shape, Ended
  <2>3. tokens'[req'[r].token].revoked = TRUE
    BY <1>t, <2>1, <2>2 DEF TokenInv, TokenMotion
  <2> QED
    BY <2>3
<1> QED
  BY <1>1, <1>2, <1>3

(***************************************************************************)
(* One request moves at a time.                                            *)
(***************************************************************************)
LEMMA OneMoves ==
    ASSUME AuthTypeOK, [AuthNext]_authVars, NEW r \in Requests, NEW s \in Requests, r # s
    PROVE  req'[r] = req[r] \/ req'[s] = req[s]
<1>f. req \in [Requests -> Request]
  BY DEF AuthTypeOK
<1>1. ASSUME NEW x \in Requests, NEW q, req' = [req EXCEPT ![x] = q]
      PROVE  req'[r] = req[r] \/ req'[s] = req[s]
  BY <1>1, <1>f
<1>2. ASSUME NEW x \in Requests, Step(x) \/ RequestDies(x)
      PROVE  \E q : req' = [req EXCEPT ![x] = q]
  BY <1>2, <1>f DEF Step, RequestDies, Goto, markNonceUsed, findUserByWallet,
     createUserWithWallet, CheckUnbound, DemoteOthers, InsertBinding, revokeRefreshToken,
     generateRefreshToken, revokeAllUserRefreshTokens, CountWallets, RemoveBinding,
     FindAnother, PromoteAnother
<1>3. ASSUME NEW x \in Requests, Arrive(x)
      PROVE  \E q : req' = [req EXCEPT ![x] = q]
  BY <1>3, <1>f DEF Arrive, walletLogin, bindWallet, PresentNonce, refreshAccessToken,
     logout, unbindWallet
<1>4. ASSUME AuthClock \/ (\E n \in Nonces, k \in Keys : generateNonce(n, k)) \/ UNCHANGED authVars
      PROVE  req' = req
  BY <1>4 DEF AuthClock, NonceExpires, cleanupExpiredNonces, TokenExpires, AccessExpires,
     Deactivate, generateNonce, authVars
<1> QED
  BY <1>1, <1>2, <1>3, <1>4 DEF AuthNext

(***************************************************************************)
(* A refresh that passes the check finds no other past the revocation, so  *)
(* whoever passed it before is still between the two.                      *)
(***************************************************************************)
LEMMA RivalStep ==
    ASSUME AuthTypeOK, Shaped, TokenInv, RivalInv, RequestMotion, [AuthNext]_authVars
    PROVE  RivalInv'
<1> SUFFICES ASSUME NEW r \in Requests, NEW s \in Requests, r # s, Took(r)', Took(s)',
                    req'[r].token = req'[s].token
             PROVE  s \in req'[r].rivals \/ r \in req'[s].rivals
  BY DEF RivalInv
<1>1. ASSUME NEW x \in Requests, Took(x)'
      PROVE  \/ /\ req'[x].pc = "rotate" /\ req'[x].rivals = Rotating(req'[x].token)
                /\ ~tokens[req'[x].token].revoked
             \/ /\ Took(x) /\ req'[x].token = req[x].token /\ req'[x].rivals = req[x].rivals
  <2>1. Moves(x) /\ Shape(req[x])
    BY DEF RequestMotion, Shaped
  <2> QED
    BY <1>1, <2>1 DEF Moves, Passes, Keeps, Took, Shape, Ended
<1>2. ASSUME NEW x \in Requests, NEW y \in Requests, Took(x)', Took(y), req[y].token = req'[x].token,
             req'[x].pc = "rotate", req'[x].rivals = Rotating(req'[x].token),
             ~tokens[req'[x].token].revoked
      PROVE  y \in req'[x].rivals
  BY <1>2 DEF TokenInv, Took, Rotating, At
<1>3. \/ Took(r) /\ req'[r].token = req[r].token
      \/ Took(s) /\ req'[s].token = req[s].token
  BY OneMoves DEF Took
<1> QED
  BY <1>1, <1>2, <1>3 DEF RivalInv

(***************************************************************************)
(* A nonce that was presented and spent stays so.                          *)
(***************************************************************************)
LEMMA NonceStep ==
    ASSUME Shaped, NonceInv, RequestMotion, NonceMotion, Shaped'
    PROVE  NonceInv'
<1> SUFFICES ASSUME NEW r \in Requests, req'[r].op \in {"login", "bind"}
             PROVE  /\ req'[r].pc = "mark" => /\ nonces'[req'[r].nonce].key = req'[r].key
                                              /\ nonces'[req'[r].nonce].status # "unissued"
                    /\ req'[r].pc \in {"find", "create", "check", "demote", "insert", "issue", "done"} => Good(r)'
  BY DEF NonceInv
<1>m. Moves(r)
  BY DEF RequestMotion
<1>s. Shape(req[r]) /\ Shape(req'[r]) /\ req'[r].nonce \in Nonces
  BY DEF Shaped, Shape
<1>1. req'[r].pc = "mark" => /\ nonces[req'[r].nonce].key = req'[r].key
                             /\ nonces[req'[r].nonce].status # "unissued"
  BY <1>m, <1>s DEF NonceInv, Moves, Passes, Keeps
<1>2. ASSUME req'[r].pc \in {"find", "create", "check", "demote", "insert", "issue", "done"}
      PROVE  Good(r)'
  <2>1. /\ req'[r].nonce = req[r].nonce /\ req'[r].key = req[r].key /\ req[r].op \in {"login", "bind"}
        /\ \/ req[r].pc \in {"find", "create", "check", "demote", "insert", "issue", "done"}
           \/ req[r].pc = "mark" /\ req'[r].pc \in {"find", "check"}
    BY <1>2, <1>m, <1>s DEF Moves, Passes, Keeps, Shape
  <2>2. nonces[req[r].nonce].key = req[r].key /\ nonces[req[r].nonce].status # "unissued"
    BY <2>1 DEF NonceInv, Good, Spent
  <2> QED
    BY <1>s, <2>1, <2>2 DEF NonceInv, NonceMotion, Good, Spent
<1> QED
  BY <1>1, <1>2, <1>s DEF NonceMotion

(***************************************************************************)
(* The request behind a binding keeps what it named.                       *)
(***************************************************************************)
LEMMA InsertedStays ==
    ASSUME AuthTypeOK, Shaped, RequestMotion, NonceMotion, NEW b \in Binding, NEW k \in Keys, Inserted(b, k)
    PROVE  Inserted(b, k)'
<1>1. b.row \in Requests
  BY DEF Binding
<1>2. Moves(b.row) /\ Shape(req[b.row])
  BY <1>1 DEF RequestMotion, Shaped
<1>3. /\ req'[b.row].op = req[b.row].op /\ req'[b.row].key = req[b.row].key
      /\ req'[b.row].user = req[b.row].user /\ req'[b.row].nonce = req[b.row].nonce
      /\ req'[b.row].pc \in {"issue", "done", "died"}
  BY <1>1, <1>2 DEF Inserted, Moves, Passes, Keeps, Ended
<1>4. req[b.row].nonce \in Nonces
  BY <1>2 DEF Inserted, Shape
<1>5. Good(b.row)'
  BY <1>3, <1>4 DEF Inserted, Good, NonceMotion, Spent
<1> QED
  BY <1>3, <1>5 DEF Inserted

(***************************************************************************)
(* Every binding, stored or held by an unbind request, was inserted by the *)
(* request of its row.                                                     *)
(***************************************************************************)
LEMMA BindingStep ==
    ASSUME AuthTypeOK, Shaped, BindingInv, RequestMotion, NonceMotion, WalletMotion,
           AuthTypeOK', Shaped', NonceInv'
    PROVE  BindingInv'
<1>t. /\ \A k \in Keys : wallets[k] # None => wallets[k] \in Binding
      /\ \A k \in Keys : wallets'[k] # None => wallets'[k] \in Binding
  BY DEF AuthTypeOK
<1>s. \A r \in Requests : Shape(req[r]) /\ Shape(req'[r]) /\ Moves(r)
  BY DEF Shaped, RequestMotion
<1>1. ASSUME NEW k \in Keys, wallets'[k] # None
      PROVE  Inserted(wallets[k], k)'
  <2>1. CASE /\ wallets[k] # None
             /\ wallets'[k].row = wallets[k].row /\ wallets'[k].user = wallets[k].user
    <3>1. PICK b \in Binding : b = wallets[k]
      BY <1>t, <2>1
    <3>2. Inserted(b, k) /\ wallets'[k].row = b.row /\ wallets'[k].user = b.user
      BY <2>1, <3>1 DEF BindingInv
    <3>3. Inserted(b, k)'
      BY <3>2, InsertedStays
    <3> QED
      BY <3>2, <3>3 DEF Inserted, Good
  <2>2. ASSUME NEW s \in Requests, req[s].pc = "insert", req'[s].pc \in {"issue", "done"},
               req[s].key = k, wallets'[k].row = s, wallets'[k].user = req[s].user
        PROVE  Inserted(wallets[k], k)'
    <3>1. /\ req'[s].op \in {"login", "bind"} /\ req'[s].key = k /\ req'[s].user = req[s].user
      BY <1>s, <2>2 DEF Moves, Passes, Keeps, Shape
    <3>2. Good(s)'
      BY <2>2, <3>1 DEF NonceInv
    <3> QED
      BY <2>2, <3>1, <3>2 DEF Inserted
  <2>3. ASSUME NEW s \in Requests, req[s].pc = "promote", req[s].key = k,
               wallets'[k].row = req[s].bound.row, wallets'[k].user = req[s].bound.user
        PROVE  Inserted(wallets[k], k)'
    <3>1. PICK b \in Binding : b = req[s].bound
      BY <1>s, <2>3 DEF Shape
    <3>2. Inserted(b, k) /\ wallets'[k].row = b.row /\ wallets'[k].user = b.user
      BY <1>s, <2>3, <3>1 DEF Shape, BindingInv
    <3>3. Inserted(b, k)'
      BY <3>2, InsertedStays
    <3> QED
      BY <3>2, <3>3 DEF Inserted, Good
  <2> QED
    BY <1>1, <2>1, <2>2, <2>3 DEF WalletMotion
<1>2. ASSUME NEW r \in Requests, req'[r].op = "unbind",
             req'[r].pc \in {"count", "remove", "another", "promote"}
      PROVE  Inserted(req[r].bound, req[r].key)' /\ req'[r].bound.user = req'[r].user
  <2>1. /\ req'[r].bound \in Binding /\ req'[r].key \in Keys
    BY <1>2, <1>s DEF Shape
  <2>2. Inserted(req'[r].bound, req'[r].key) /\ req'[r].bound.user = req'[r].user
    <3>1. \/ /\ req[r].op = "unbind" /\ req[r].pc \in {"count", "remove", "another", "promote"}
             /\ req'[r].bound = req[r].bound /\ req'[r].key = req[r].key /\ req'[r].user = req[r].user
          \/ req'[r].key \in WalletsOf(req'[r].user) /\ req'[r].bound = wallets[req'[r].key]
      BY <1>2, <1>s DEF Moves, Passes, Keeps, Shape, Ended
    <3> QED
      BY <3>1 DEF BindingInv, WalletsOf
  <2>3. PICK b \in Binding, k \in Keys : b = req'[r].bound /\ k = req'[r].key
    BY <2>1
  <2>4. Inserted(b, k)'
    BY <2>2, <2>3, InsertedStays
  <2> QED
    BY <2>2, <2>3, <2>4 DEF Inserted, Good
<1> QED
  BY <1>1, <1>2 DEF BindingInv

(***************************************************************************)
(* A user becomes known to others only through its first wallet.           *)
(***************************************************************************)
LEMMA BirthStep ==
    ASSUME AuthTypeOK, Shaped, TokenInv, BirthInv, BindingInv,
           RequestMotion, TokenMotion, WalletMotion, UserMotion, Shaped'
    PROVE  BirthInv'
<1>s. \A r \in Requests : Shape(req[r]) /\ Moves(r)
  BY DEF Shaped, RequestMotion
<1>0. None \notin Requests
  BY NotNull
<1> SUFFICES ASSUME NEW u \in Requests
             PROVE  /\ users'[u] # None => /\ req'[u].op = "login" /\ req'[u].user = u
                                           /\ req'[u].pc \notin {"idle", "mark", "find", "create"}
                    /\ Unborn(u)' => /\ u \notin bearers'
                                     /\ \A k \in Keys : wallets'[k] # None => wallets'[k].user # u
                                     /\ \A r \in Requests : tokens'[r] # None => tokens'[r].user # u
                                     /\ \A r \in Requests : req'[r].user = u => r = u /\ users'[u] # None
  BY DEF BirthInv
<1>1. users'[u] # None => /\ req'[u].op = "login" /\ req'[u].user = u
                          /\ req'[u].pc \notin {"idle", "mark", "find", "create"}
  <2>1. CASE users[u] # None
    <3>1. req[u].op = "login" /\ req[u].user = u /\ req[u].pc \notin {"idle", "mark", "find", "create"}
      BY <2>1 DEF BirthInv
    <3> QED
      BY <1>s, <3>1 DEF Moves, Passes, Keeps, Shape
  <2>2. CASE users[u] = None /\ users'[u] # None
    <3>1. req[u].pc = "create" /\ req'[u].pc = "check"
      BY <2>2 DEF UserMotion
    <3> QED
      BY <1>s, <3>1 DEF Moves, Passes, Keeps, Shape
  <2> QED
    BY <2>1, <2>2
<1>2. ASSUME Unborn(u)'
      PROVE  /\ u \notin bearers'
             /\ \A k \in Keys : wallets'[k] # None => wallets'[k].user # u
             /\ \A r \in Requests : tokens'[r] # None => tokens'[r].user # u
             /\ \A r \in Requests : req'[r].user = u => r = u /\ users'[u] # None
  <2>1. Unborn(u)
    <3>1. CASE users'[u] = None
      BY <3>1 DEF Unborn, UserMotion
    <3>2. CASE req'[u].pc \in {"check", "demote", "insert"} /\ users'[u] # None
      <4>1. req'[u].pc \in {"check", "demote", "insert"} => req[u].pc \in {"mark", "create", "check", "demote", "insert"}
        BY <1>s DEF Moves, Passes
      <4> QED
        BY <3>2, <4>1 DEF Unborn, BirthInv
    <3> QED
      BY <1>2, <3>1, <3>2 DEF Unborn
  <2>2. /\ u \notin bearers
        /\ \A k \in Keys : wallets[k] # None => wallets[k].user # u
        /\ \A r \in Requests : tokens[r] # None => tokens[r].user # u
        /\ \A r \in Requests : req[r].user = u => r = u /\ users[u] # None
    BY <2>1 DEF BirthInv
  <2>3. ASSUME NEW r \in Requests, req[r].user = u
        PROVE  /\ r = u /\ users[u] # None /\ req[u].op = "login" /\ req[u].pc \in {"check", "demote", "insert"}
               /\ users'[u] # None /\ req'[u].pc \in {"check", "demote", "insert"}
    BY <1>2, <2>1, <2>2, <2>3 DEF Unborn, BirthInv, UserMotion
  <2>4. u \notin bearers'
    BY <2>2, <2>3 DEF UserMotion
  <2>5. ASSUME NEW k \in Keys, wallets'[k] # None
        PROVE  wallets'[k].user # u
    <3>1. ASSUME NEW s \in Requests, req[s].pc = "insert", req'[s].pc \in {"issue", "done"},
                 wallets'[k].user = req[s].user
          PROVE  wallets'[k].user # u
      BY <2>3, <3>1
    <3>2. ASSUME NEW s \in Requests, req[s].pc = "promote", wallets'[k].user = req[s].bound.user
          PROVE  wallets'[k].user # u
      <4>1. req[s].bound.user = req[s].user
        BY <1>s, <3>2 DEF BindingInv, Shape
      <4> QED
        BY <2>3, <3>2, <4>1
    <3> QED
      BY <2>2, <2>5, <3>1, <3>2 DEF WalletMotion
  <2>6. ASSUME NEW r \in Requests, tokens'[r] # None
        PROVE  tokens'[r].user # u
    BY <2>2, <2>3, <2>6 DEF TokenMotion
  <2>7. ASSUME NEW r \in Requests, req'[r].user = u
        PROVE  r = u /\ users'[u] # None
    <3>1. CASE req[r].user = u
      BY <2>3, <3>1
    <3>2. CASE req[r].user # u
      <4>1. \/ req[r].pc = "idle" /\ u \in bearers
            \/ req'[r].op = "refresh" /\ tokens[req'[r].token] # None /\ u = tokens[req'[r].token].user
            \/ req[r].pc = "find" /\ wallets[req[r].key] # None /\ u = wallets[req[r].key].user
            \/ req[r].pc = "create" /\ req'[r].pc = "check" /\ u = r
        BY <1>0, <1>s, <2>7, <3>2 DEF Moves, Authenticated
      <4>2. /\ req'[r].op = "refresh" => req'[r].token \in Requests
            /\ req[r].pc = "find" => req[r].key \in Keys
        BY <1>s DEF Shaped, Shape
      <4> QED
        BY <2>2, <4>1, <4>2 DEF UserMotion
    <3> QED
      BY <3>1, <3>2
  <2> QED
    BY <2>4, <2>5, <2>6, <2>7
<1> QED
  BY <1>1, <1>2

(***************************************************************************)
(* The wallets of a user change by its own unbind requests only: a binding *)
(* stays with its row, or an unbind request of the same user removes it.   *)
(***************************************************************************)
LEMMA WalletStays ==
    ASSUME AuthTypeOK, Shaped, BindingInv, WalletMotion, NEW u \in Requests, NEW k \in WalletsOf(u)
    PROVE  \/ k \in WalletsOf(u)' /\ wallets'[k].row = wallets[k].row
           \/ \E s \in UnbindsOf(u) : req[s].pc = "remove" /\ wallets[k].row = req[s].bound.row
<1>1. k \in Keys /\ wallets[k] # None /\ wallets[k].user = u /\ req[wallets[k].row].user = u
  BY DEF WalletsOf, BindingInv, Inserted
<1>2. ASSUME NEW s \in Requests, req[s].pc \in {"remove", "promote"}, wallets[k].row = req[s].bound.row
      PROVE  s \in UnbindsOf(u) /\ req[s].bound.user = u
  <2>1. req[s].op = "unbind"
    BY <1>2 DEF Shaped, Shape
  <2>2. req[req[s].bound.row].user = req[s].bound.user /\ req[s].bound.user = req[s].user
    BY <1>2, <2>1 DEF BindingInv, Inserted
  <2> QED
    BY <1>1, <1>2, <2>1, <2>2 DEF UnbindsOf
<1> QED
  BY <1>1, <1>2 DEF WalletMotion, WalletsOf

(***************************************************************************)
(* An account that got its first wallet keeps one.                         *)
(***************************************************************************)
LEMMA WalletStep ==
    ASSUME AuthTypeOK, Shaped, TokenInv, BindingInv, BirthInv, WalletInv,
           RequestMotion, TokenMotion, WalletMotion, UserMotion, TokenInv', BirthInv', Shaped'
    PROVE  WalletInv'
<1>s. \A r \in Requests : Shape(req[r]) /\ Shape(req'[r]) /\ Moves(r)
  BY DEF Shaped, RequestMotion
<1>0. None \notin Requests /\ None # "unbind"
  BY NotNull
<1> SUFFICES ASSUME NEW u \in Requests, Got(u)', OneUnbind(u)'
             PROVE  /\ WalletsOf(u)' # {}
                    /\ \A r \in UnbindsOf(u)' : req'[r].pc = "remove" =>
                         \E k \in WalletsOf(u)' : wallets'[k].row # req'[r].bound.row
  BY DEF WalletInv
<1>1. UnbindsOf(u) \subseteq UnbindsOf(u)'
  BY <1>0, <1>s DEF UnbindsOf, Moves, Passes, Keeps, Shape
<1>2. OneUnbind(u)
  BY <1>1 DEF OneUnbind
<1>3. ASSUME NEW r \in UnbindsOf(u)', req'[r].pc = "remove"
      PROVE  /\ r \in UnbindsOf(u) /\ req'[r].bound = req[r].bound
             /\ \/ req[r].pc = "remove"
                \/ req[r].pc = "count" /\ Cardinality(WalletsOf(u)) # 1
  BY <1>3, <1>s DEF UnbindsOf, Moves, Passes, Keeps
<1>4. CASE Got(u)
  <2>1. /\ WalletsOf(u) # {}
        /\ \A r \in UnbindsOf(u) : req[r].pc = "remove" =>
              \E k \in WalletsOf(u) : wallets[k].row # req[r].bound.row
    BY <1>2, <1>4 DEF WalletInv
  <2>2. ASSUME NEW r \in UnbindsOf(u), NEW k \in WalletsOf(u),
               req[r].pc # "remove" \/ wallets[k].row # req[r].bound.row
        PROVE  k \in WalletsOf(u)' /\ wallets'[k].row = wallets[k].row
    BY <1>2, <2>2, WalletStays DEF OneUnbind
  <2>3. WalletsOf(u)' # {}
    <3>1. CASE UnbindsOf(u) = {}
      BY <2>1, <3>1, WalletStays
    <3>2. ASSUME NEW r \in UnbindsOf(u)
          PROVE  WalletsOf(u)' # {}
      BY <2>1, <2>2
    <3> QED
      BY <3>1, <3>2
  <2>4. ASSUME NEW r \in UnbindsOf(u)', req'[r].pc = "remove"
        PROVE  \E k \in WalletsOf(u)' : wallets'[k].row # req'[r].bound.row
    <3>0. r \in UnbindsOf(u) /\ req'[r].bound = req[r].bound
      BY <1>3, <2>4
    <3>1. CASE req[r].pc = "remove"
      <4>1. PICK k \in WalletsOf(u) : wallets[k].row # req[r].bound.row
        BY <2>1, <3>0, <3>1
      <4> QED
        BY <2>2, <3>0, <4>1
    <3>2. CASE req[r].pc = "count" /\ Cardinality(WalletsOf(u)) # 1
      <4>1. PICK k \in WalletsOf(u) : TRUE
        BY <2>1
      <4>2. WalletsOf(u) # {k}
        BY <3>2, FS_Singleton
      <4>3. PICK j \in WalletsOf(u) : j # k
        BY <4>1, <4>2
      <4>4. wallets[k].row # wallets[j].row
        BY <4>3 DEF WalletsOf, BindingInv, Inserted
      <4> QED
        BY <2>2, <3>0, <3>2, <4>4
    <3> QED
      BY <1>3, <2>4, <3>1, <3>2
  <2> QED
    BY <2>3, <2>4
<1>5. CASE ~Got(u)
  <2>1. users[u] # None /\ req[u].pc = "insert" /\ req'[u].pc = "issue"
    <3>1. users'[u] # None /\ req'[u].pc \in {"issue", "done"} /\ req'[u].op = "login"
      BY DEF Got, TokenInv, BirthInv
    <3>2. users[u] # None
      BY <3>1 DEF UserMotion
    <3>3. req[u].op = "login" /\ req[u].pc \notin {"idle", "mark", "find", "create", "issue"} /\ tokens[u] = None
      BY <1>5, <3>2 DEF BirthInv, Got
    <3>4. tokens'[u] = None
      BY <3>3 DEF TokenMotion
    <3>5. req'[u].pc = "issue"
      BY <3>4 DEF Got
    <3> QED
      BY <1>s, <3>2, <3>3, <3>5 DEF Moves, Passes, Shape
  <2>2. req[u].user = u /\ req[u].op = "login" /\ req[u].key \in Keys
    BY <1>s, <2>1 DEF BirthInv, Shape
  <2>3. WalletsOf(u)' # {}
    BY <2>1, <2>2 DEF WalletMotion, WalletsOf
  <2>4. UnbindsOf(u) = {}
    BY <2>1, <2>2 DEF BirthInv, Unborn, UnbindsOf
  <2> QED
    BY <1>3, <2>3, <2>4
<1> QED
  BY <1>4, <1>5

-----------------------------------------------------------------------------
(***************************************************************************)
(* One step keeps the invariant, and is one of the steps Motion describes. *)
(***************************************************************************)
LEMMA AuthStep ==
    ASSUME AuthInv, [AuthNext]_authVars
    PROVE  AuthInv' /\ WalletMotion
<1>1. AuthTypeOK /\ Shaped /\ TokenInv /\ RivalInv /\ NonceInv /\ BindingInv /\ BirthInv /\ WalletInv
  BY DEF AuthInv
<1>2. Tokened
  BY <1>1 DEF Tokened, TokenInv, Shaped, Shape
<1>3. AuthTypeOK' /\ Shaped'
  BY <1>1, <1>2, TypeStep
<1>4. RequestMotion /\ NonceMotion /\ TokenMotion /\ WalletMotion /\ UserMotion
  BY <1>1, <1>2, Motion
<1>5. TokenInv'
  BY <1>1, <1>3, <1>4, TokenStep
<1>r. RivalInv'
  BY <1>1, <1>4, RivalStep
<1>6. NonceInv'
  BY <1>1, <1>3, <1>4, NonceStep
<1>7. BindingInv'
  BY <1>1, <1>3, <1>4, <1>6, BindingStep
<1>8. BirthInv'
  BY <1>1, <1>3, <1>4, BirthStep
<1>9. WalletInv'
  BY <1>1, <1>3, <1>4, <1>5, <1>8, WalletStep
<1> QED
  BY <1>3, <1>4, <1>5, <1>r, <1>6, <1>7, <1>8, <1>9 DEF AuthInv

(***************************************************************************)
(* The invariant holds whatever requests arrive, interleave and die.       *)
(***************************************************************************)
THEOREM AuthInvariance == AuthSpec => []AuthInv
<1>1. AuthInit => AuthInv
  <2> SUFFICES ASSUME AuthInit PROVE AuthInv
    OBVIOUS
  <2>0. None \notin {"login", "bind", "unbind", "refresh", "logout", "active", "inactive"}
    BY NotNull
  <2>1. /\ \A r \in Requests : req[r] = [op |-> None, pc |-> "idle", key |-> None, nonce |-> None,
                                         user |-> None, token |-> None, rivals |-> {}, bound |-> None]
        /\ \A r \in Requests : users[r] = None /\ tokens[r] = None
        /\ \A k \in Keys : wallets[k] = None
        /\ bearers = {}
    BY DEF AuthInit
  <2>2. \A r \in Requests : req[r].op = None /\ req[r].pc = "idle" /\ req[r].user = None /\ req[r].token = None
    BY <2>1
  <2>3. AuthTypeOK
    BY DEF AuthInit, AuthTypeOK, Request, Ended
  <2>4. Shaped
    BY <2>0, <2>2 DEF Shaped, Shape
  <2>5. TokenInv /\ NonceInv /\ BindingInv
    BY <2>0, <2>1, <2>2 DEF TokenInv, NonceInv, BindingInv
  <2>7. RivalInv
    BY <2>2 DEF RivalInv, Took
  <2>6. BirthInv /\ WalletInv
    BY <2>0, <2>1, <2>2, NotNull DEF BirthInv, WalletInv, Got
  <2> QED
    BY <2>3, <2>4, <2>5, <2>6, <2>7 DEF AuthInv
<1>2. AuthInv /\ [AuthNext]_authVars => AuthInv'
  BY AuthStep
<1> QED
  BY <1>1, <1>2, PTL DEF AuthSpec

(***************************************************************************)
(* Every stored binding and every session a nonce opened belongs to the    *)
(* key the nonce was issued to, and the nonce is spent (walletLogin,       *)
(* bindWallet, markNonceUsed, unbindWallet).                               *)
(***************************************************************************)
THEOREM NoncesAreSpentFirst == AuthSpec => []NonceSpentFirst
<1>1. AuthInv => NonceSpentFirst
  <2> SUFFICES ASSUME AuthInv PROVE NonceSpentFirst
    OBVIOUS
  <2>1. \A k \in Keys : wallets[k] # None => Inserted(wallets[k], k)
    BY DEF AuthInv, BindingInv
  <2>2. ASSUME NEW r \in Requests, tokens[r] # None, tokens[r].parent = None
        PROVE  Good(r)
    <3>1. req[r].pc = "done" /\ req[r].op \in {"login", "refresh"} /\ req[r].token = None
      BY <2>2 DEF AuthInv, TokenInv
    <3>2. req[r].op = "login"
      BY <3>1, NotNull DEF AuthInv, Shaped, Shape
    <3> QED
      BY <3>1, <3>2 DEF AuthInv, NonceInv
  <2> QED
    BY <2>1, <2>2 DEF AuthInv, NonceSpentFirst, Inserted, Good
<1> QED
  BY <1>1, AuthInvariance, PTL

(***************************************************************************)
(* A refresh token that was exchanged is revoked, its successor belongs to *)
(* the same user, and a second successor takes a refresh that passed the   *)
(* check while the first was between its check and its revocation          *)
(* (refreshAccessToken).                                                   *)
(***************************************************************************)
THEOREM RotationRevokes == AuthSpec => []RotatedIsRevoked
<1>1. AuthInv => RotatedIsRevoked
  <2> SUFFICES ASSUME AuthInv PROVE RotatedIsRevoked
    OBVIOUS
  <2>1. ASSUME NEW r \in Requests, tokens[r] # None, tokens[r].parent # None
        PROVE  Took(r) /\ req[r].pc = "done" /\ tokens[r].user = req[r].user /\ tokens[r].parent = req[r].token
    <3>1. /\ req[r].pc = "done" /\ req[r].op \in {"login", "refresh"}
          /\ tokens[r].user = req[r].user /\ tokens[r].parent = req[r].token
      BY <2>1 DEF AuthInv, TokenInv
    <3>2. req[r].op = "refresh"
      BY <2>1, <3>1 DEF AuthInv, Shaped, Shape
    <3> QED
      BY <3>1, <3>2 DEF Took
  <2>2. ASSUME NEW r \in Requests, tokens[r] # None, tokens[r].parent # None
        PROVE  tokens[tokens[r].parent].revoked /\ tokens[tokens[r].parent].user = tokens[r].user
    BY <2>1, <2>2 DEF AuthInv, TokenInv, Took
  <2>3. ASSUME NEW r \in Requests, tokens[r] # None, tokens[r].parent # None,
               NEW s \in Requests \ {r}, tokens[s] # None, tokens[s].parent = tokens[r].parent
        PROVE  s \in req[r].rivals \/ r \in req[s].rivals
    BY <2>1, <2>3 DEF AuthInv, RivalInv
  <2> QED
    BY <2>2, <2>3 DEF RotatedIsRevoked
<1> QED
  BY <1>1, AuthInvariance, PTL

(***************************************************************************)
(* An account that got a wallet keeps one as long as its unbind requests   *)
(* do not overlap (unbindWallet's count).                                  *)
(***************************************************************************)
THEOREM LastWalletStays == AuthSpec => []LastWalletKept
<1>1. AuthInv => LastWalletKept
  BY DEF AuthInv, WalletInv, Got, OneUnbind, LastWalletKept
<1> QED
  BY <1>1, AuthInvariance, PTL

(***************************************************************************)
(* A binding keeps its row and its user until it is removed, whatever the  *)
(* stale check of bindWalletToUser and the stale save of unbindWallet do.  *)
(***************************************************************************)
THEOREM WalletsKeepTheirUsers == AuthSpec => WalletKeepsItsUser
<1>1. AuthInv /\ [AuthNext]_authVars =>
        [\A k \in Keys : wallets[k] # None /\ wallets'[k] # None =>
            wallets'[k].row = wallets[k].row /\ wallets'[k].user = wallets[k].user]_authVars
  <2> SUFFICES ASSUME AuthInv, [AuthNext]_authVars, NEW k \in Keys, wallets[k] # None, wallets'[k] # None
               PROVE  wallets'[k].row = wallets[k].row /\ wallets'[k].user = wallets[k].user
    OBVIOUS
  <2>1. WalletMotion
    BY AuthStep
  <2>2. ASSUME NEW s \in Requests, req[s].pc = "promote", req[s].key = k,
               wallets[k].row = req[s].bound.row, wallets'[k].row = req[s].bound.row,
               wallets'[k].user = req[s].bound.user
        PROVE  wallets'[k].row = wallets[k].row /\ wallets'[k].user = wallets[k].user
    <3>1. req[s].op = "unbind"
      BY <2>2 DEF AuthInv, Shaped, Shape
    <3>2. Inserted(req[s].bound, k) /\ Inserted(wallets[k], k)
      BY <2>2, <3>1 DEF AuthInv, BindingInv
    <3> QED
      BY <2>2, <3>2 DEF Inserted
  <2> QED
    BY <2>1, <2>2 DEF WalletMotion
<1> QED
  BY <1>1, AuthInvariance, PTL DEF AuthSpec, WalletKeepsItsUser
=============================================================================
