--------------------------- MODULE SessionsProofs ---------------------------
(***************************************************************************)
(* Theorems about Sessions, for every number of tokens, requests and       *)
(* providers, every margin and every set of lifetimes.                     *)
(***************************************************************************)
EXTENDS Sessions, TLAPS

\* A new Map holds nothing, of whatever type.
LEMMA EmptyMapType ==
  ASSUME NEW K, NEW V
  PROVE  IsMap(EmptyMap, K, V) /\ DOMAIN EmptyMap = {}
  BY DEF IsMap, EmptyMap

\* set keeps the type of a Map.
LEMMA PutType ==
  ASSUME NEW K, NEW V, NEW m, NEW k \in K, NEW v \in V, IsMap(m, K, V)
  PROVE  IsMap(Put(m, k, v), K, V)
  BY DEF IsMap, Put

\* delete keeps the type of a Map.
LEMMA WithoutType ==
  ASSUME NEW K, NEW V, NEW m, NEW S, IsMap(m, K, V)
  PROVE  IsMap(Without(m, S), K, V)
  BY DEF IsMap, Without, Restrict

LEMMA ExpiryType ==
  ASSUME TypeOK, NEW lifetime \in Lifetimes
  PROVE  ExpiryAfter(lifetime) \in Nat \cup {Never}
  BY SessionsAssumption DEF TypeOK, ExpiryAfter, Never

\* The record a refresh writes is a session record of the same provider, with
\* the backend token that arrived.
LEMMA RenewedType ==
  ASSUME TypeOK, NEW s \in Session, NEW n \in 1..MaxSerial,
         NEW lifetime \in Lifetimes, NEW rotates \in BOOLEAN
  PROVE  LET u == Renewed(s, n, lifetime, rotates) IN
         /\ u \in Session
         /\ u.provider = s.provider
         /\ u.serial = n
         /\ u.refreshToken = IF rotates THEN n ELSE s.refreshToken
<1> DEFINE x == ExpiryAfter(lifetime)
           u == [provider |-> s.provider, serial |-> n,
                 refreshToken |-> IF rotates THEN n ELSE s.refreshToken,
                 expiresAt |-> x]
<1>1. x \in Nat \cup {Never}
  BY ExpiryType
<1>2. Renewed(s, n, lifetime, rotates) = u
  <2> HIDE DEF x
  <2>1. s = [provider |-> s.provider, serial |-> s.serial,
             refreshToken |-> s.refreshToken, expiresAt |-> s.expiresAt]
    BY DEF Session
  <2>2. Renewed(s, n, lifetime, rotates) =
          [s EXCEPT !.serial = n,
                    !.refreshToken = IF rotates THEN n ELSE s.refreshToken,
                    !.expiresAt = x]
    BY <2>1 DEF Renewed, x
  <2> QED BY <2>1, <2>2
<1>3. n \in 1..MaxSerial /\ s.refreshToken \in 0..MaxSerial
  BY SessionsAssumption DEF Session
<1>4. (IF rotates THEN n ELSE s.refreshToken) \in 0..MaxSerial
  BY <1>3
<1>5. u \in Session
  BY <1>1, <1>3, <1>4 DEF Session
<1> QED BY <1>2, <1>5

\* The next token a provider makes: a refresh that is answered is granted it,
\* and both ends have it; when the answer is lost only the provider has.
LEMMA NextIssue ==
  ASSUME TypeOK, NEW t \in DOMAIN issued, issued[t].made < MaxSerial,
         NEW rotates \in BOOLEAN
  PROVE  LET n == issued[t].made + 1 IN
         /\ n \in 1..MaxSerial
         /\ issued[t].serial < n
         /\ [made |-> n, serial |-> n,
             refreshToken |-> IF rotates THEN n ELSE issued[t].refreshToken]
              \in Issues
         /\ [made |-> n, serial |-> issued[t].serial,
             refreshToken |-> issued[t].refreshToken] \in Issues
<1>1. issued[t] \in Issues
  BY DEF TypeOK, IsMap
<1>2. /\ issued[t].made \in 1..MaxSerial /\ issued[t].serial \in Nat
      /\ issued[t].refreshToken \in Nat /\ issued[t].serial <= issued[t].made
  BY <1>1 DEF Issues
<1> DEFINE n == issued[t].made + 1
           rt == IF rotates THEN n ELSE issued[t].refreshToken
<1>3. n \in 1..MaxSerial /\ issued[t].serial < n /\ issued[t].serial <= n
  BY <1>2, SessionsAssumption
<1>4. rt \in Nat
  BY <1>2, <1>3
<1> HIDE DEF n, rt
<1>5. n \in Nat /\ n <= n
  BY <1>3
<1>6. [made |-> n, serial |-> n, refreshToken |-> rt] \in Issues
  BY <1>3, <1>4, <1>5 DEF Issues
<1>7. [made |-> n, serial |-> issued[t].serial,
       refreshToken |-> issued[t].refreshToken] \in Issues
  BY <1>2, <1>3 DEF Issues
<1> QED BY <1>3, <1>6, <1>7 DEF n, rt

\* A lost answer counts one token more for its session and changes nothing
\* else of what was issued.
LEMMA LostFacts ==
  ASSUME TypeOK, NEW t \in DOMAIN issued, UNCHANGED issued \/ AnswerLost(t)
  PROVE  /\ DOMAIN issued' = DOMAIN issued
         /\ \A u \in DOMAIN issued :
              /\ issued'[u].serial = issued[u].serial
              /\ issued'[u].refreshToken = issued[u].refreshToken
         /\ \A u \in DOMAIN issued : u # t => issued'[u] = issued[u]
         /\ IsMap(issued', Tokens, Issues)
<1>1. CASE UNCHANGED issued
  BY <1>1 DEF TypeOK
<1>2. CASE AnswerLost(t)
  <2> DEFINE i == [made |-> issued[t].made + 1, serial |-> issued[t].serial,
                   refreshToken |-> issued[t].refreshToken]
  <2>1. i \in Issues /\ i.serial = issued[t].serial
        /\ i.refreshToken = issued[t].refreshToken
    BY <1>2, NextIssue DEF AnswerLost
  <2>2. issued' = [issued EXCEPT ![t] = i]
    BY <1>2 DEF AnswerLost
  <2> HIDE DEF i
  <2> QED BY <2>1, <2>2 DEF TypeOK, IsMap
<1> QED BY <1>1, <1>2

\* Settling a refresh call touches only the requests that wait for it.
LEMMA SettleType ==
  ASSUME TypeOK, NEW r, NEW s \in Session
  PROVE  IsMap(Settle(r, s), Requests, Request)
  BY DEF TypeOK, IsMap, Settle, Request

LEMMA TypeInit == Init => TypeOK
  BY EmptyMapType, SessionsAssumption DEF Init, TypeOK, IsMap

\* Every session held and every session a request is about was issued.
KnownTokens ==
  /\ DOMAIN store \subseteq DOMAIN issued
  /\ \A r \in DOMAIN req : req[r].token \in DOMAIN issued

LEMMA TypeStep ==
  ASSUME TypeOK, KnownTokens, [Next]_vars PROVE TypeOK'
<1>1. ASSUME NEW p \in Providers, StartLogin(p) PROVE TypeOK'
  BY <1>1 DEF TypeOK, StartLogin, Login, IsMap
<1>2. ASSUME NEW l \in logins, NEW t \in Tokens, NEW life \in Lifetimes,
             NEW rt \in BOOLEAN, LoginAnswered(l, t, life, rt)
      PROVE  TypeOK'
  <2> DEFINE s == [provider |-> l.provider, serial |-> 1,
                   refreshToken |-> IF rt THEN 1 ELSE None,
                   expiresAt |-> ExpiryAfter(life)]
             i == [made |-> 1, serial |-> 1,
                   refreshToken |-> IF rt THEN 1 ELSE None]
  <2>1. s \in Session /\ i \in Issues
    BY ExpiryType, SessionsAssumption DEF TypeOK, Login, Session, Issues, None
  <2>2. store' = Put(store, t, s) /\ issued' = Put(issued, t, i)
    BY <1>2 DEF LoginAnswered
  <2>3. IsMap(store', Tokens, Session)
    BY <2>1, <2>2, PutType DEF TypeOK
  <2>4. IsMap(issued', Tokens, Issues)
    BY <2>1, <2>2, PutType DEF TypeOK
  <2> QED BY <1>2, <2>3, <2>4 DEF TypeOK, LoginAnswered
<1>3. ASSUME NEW l \in logins, LoginFailed(l) PROVE TypeOK'
  BY <1>3 DEF TypeOK, LoginFailed
<1>4. ASSUME NEW r \in Requests, NEW t \in Tokens, NEW p \in Providers,
             NEW ph \in {"granted", "waiting"}, NEW o \in Requests,
             t \in DOMAIN store
      PROVE  IsMap(Put(req, r, Entry(ph, t, p, o, store[t])), Requests, Request)
  <2>1. Entry(ph, t, p, o, store[t]) \in Request
    BY <1>4 DEF TypeOK, IsMap, Entry, Request
  <2> QED BY <2>1, PutType DEF TypeOK
<1>5. ASSUME NEW r \in Requests, NEW t \in Tokens, NEW p \in Providers,
             UseAsIs(r, t, p)
      PROVE  TypeOK'
  BY <1>4, <1>5 DEF TypeOK, UseAsIs, Usable
<1>6. ASSUME NEW r \in Requests, NEW t \in Tokens, NEW p \in Providers,
             ShareRefresh(r, t, p)
      PROVE  TypeOK'
  <2>1. inFlight[t] \in Requests
    BY <1>6 DEF TypeOK, IsMap, ShareRefresh
  <2> QED BY <1>4, <1>6, <2>1 DEF TypeOK, ShareRefresh, Usable
<1>7. ASSUME NEW r \in Requests, NEW t \in Tokens, NEW p \in Providers,
             StartRefresh(r, t, p)
      PROVE  TypeOK'
  BY <1>4, <1>7, PutType DEF TypeOK, StartRefresh, RefreshDue, Usable
<1>8. ASSUME NEW r \in Requests, NEW t \in Tokens, NEW p \in Providers,
             CannotRefresh(r, t, p)
      PROVE  TypeOK'
  BY <1>4, <1>8, WithoutType DEF TypeOK, CannotRefresh, RefreshDue, Usable
<1>9. ASSUME NEW r \in DOMAIN req, NEW life \in Lifetimes,
             NEW rotates \in BOOLEAN, RefreshAnswered(r, life, rotates)
      PROVE  TypeOK'
  <2> DEFINE t == req[r].token
             n == issued[t].made + 1
             s == Renewed(req[r].record, n, life, rotates)
             i == [made |-> n, serial |-> n,
                   refreshToken |-> IF rotates THEN n
                                    ELSE issued[t].refreshToken]
  <2>1. t \in Tokens /\ req[r].record \in Session /\ t \in DOMAIN issued
    BY DEF TypeOK, IsMap, Request, KnownTokens
  <2>2. n \in 1..MaxSerial /\ i \in Issues
    <3>1. issued[t].made \in Nat
      BY <2>1 DEF TypeOK, IsMap, Issues
    <3>2. issued[t].made < MaxSerial
      BY <1>9, <3>1, SessionsAssumption DEF RefreshAnswered
    <3> QED BY <2>1, <3>2, NextIssue
  <2>3. s \in Session
    BY <2>1, <2>2, RenewedType
  <2>4. /\ store' = Put(store, t, s) /\ req' = Settle(r, s)
        /\ inFlight' = Without(inFlight, {t})
        /\ issued' = [issued EXCEPT ![t] = i]
        /\ UNCHANGED <<clock, providers, logins, ended>>
    BY <1>9 DEF RefreshAnswered
  <2> HIDE DEF s, i, n
  <2>5. IsMap(store', Tokens, Session)
    BY <2>1, <2>3, <2>4, PutType DEF TypeOK
  <2>6. IsMap(req', Requests, Request)
    BY <2>3, <2>4, SettleType
  <2>7. IsMap(inFlight', Tokens, Requests)
    BY <2>4, WithoutType DEF TypeOK
  <2>8. IsMap(issued', Tokens, Issues)
    BY <2>2, <2>4 DEF TypeOK, IsMap
  <2> QED BY <2>4, <2>5, <2>6, <2>7, <2>8 DEF TypeOK
<1>10. ASSUME NEW r \in DOMAIN req, RefreshFailed(r) PROVE TypeOK'
  <2>1. req[r].record \in Session /\ req[r].token \in DOMAIN issued
    BY DEF TypeOK, IsMap, Request, KnownTokens
  <2>2. IsMap(Settle(r, req[r].record), Requests, Request)
    BY <2>1, SettleType
  <2>3. IsMap(issued', Tokens, Issues)
    BY <1>10, <2>1, LostFacts DEF RefreshFailed
  <2> QED BY <1>10, <2>2, <2>3, WithoutType DEF TypeOK, RefreshFailed
<1>11. ASSUME NEW r \in DOMAIN req, Respond(r) PROVE TypeOK'
  BY <1>11, WithoutType DEF TypeOK, Respond
<1>12. ASSUME NEW t \in Tokens, Logout(t) PROVE TypeOK'
  BY <1>12, WithoutType DEF TypeOK, Logout
<1>13. ASSUME NEW t \in Tokens, Revoke(t) PROVE TypeOK'
  BY <1>13, WithoutType DEF TypeOK, Revoke
<1>14. CASE Sweep
  BY <1>14, WithoutType DEF TypeOK, Sweep
<1>15. CASE Restart
  BY <1>15, EmptyMapType DEF TypeOK, Restart, IsMap
<1>16. CASE Tick
  BY <1>16, SessionsAssumption DEF TypeOK, Tick
<1>17. ASSUME NEW p \in Providers, NEW kind \in Kinds, SaveProvider(p, kind)
       PROVE  TypeOK'
  BY <1>17, PutType DEF TypeOK, SaveProvider
<1>18. ASSUME NEW p \in Providers, RemoveProvider(p) PROVE TypeOK'
  BY <1>18, WithoutType DEF TypeOK, RemoveProvider
<1>19. CASE UNCHANGED vars
  BY <1>19 DEF TypeOK, vars
<1> QED
  BY <1>1, <1>2, <1>3, <1>5, <1>6, <1>7, <1>8, <1>9, <1>10, <1>11, <1>12,
     <1>13, <1>14, <1>15, <1>16, <1>17, <1>18, <1>19 DEF Next

-----------------------------------------------------------------------------
(***************************************************************************)
(* The inductive invariant.  SingleFlight and NewestTokens are not         *)
(* inductive alone: a login must find its token unknown to the store and   *)
(* to every request, and a refresh its session issued (KnownTokens); a request that shares a refresh must be *)
(* of the provider of the call it waits for (OneProvider); and the record  *)
(* a call took along must be the one the store still holds, if it holds    *)
(* one (OneRecord).                                                        *)
(***************************************************************************)
OneProvider ==
  \A r \in DOMAIN req : req[r].phase = "waiting" =>
    req[req[r].owner].record.provider = req[r].needs

OneRecord ==
  \A t \in DOMAIN store \cap DOMAIN inFlight :
    store[t] = req[inFlight[t]].record

IInv ==
  /\ TypeOK /\ SingleFlight /\ NewestTokens
  /\ KnownTokens /\ OneProvider /\ OneRecord

USE DEF KnownTokens, OneProvider, OneRecord

\* Steps that leave sessions, refreshes and requests alone.
LEMMA KeepsWhenUntouched ==
  ASSUME IInv, TypeOK', UNCHANGED <<store, inFlight, req, issued>>
  PROVE  IInv'
  BY DEF IInv, SingleFlight, NewestTokens, Refreshing

\* Steps that only drop sessions.
LEMMA KeepsWhenDropping ==
  ASSUME IInv, TypeOK', NEW S, store' = Without(store, S),
         UNCHANGED <<inFlight, req, issued>>
  PROVE  IInv'
<1>1. /\ DOMAIN store' \subseteq DOMAIN store
      /\ \A t \in DOMAIN store' : store'[t] = store[t]
  BY DEF Without, Restrict
<1>2. SingleFlight'
  BY DEF IInv, SingleFlight, Refreshing
<1>3. NewestTokens'
  BY <1>1 DEF IInv, NewestTokens
<1> QED BY <1>1, <1>2, <1>3 DEF IInv

\* Steps by which a new request is served at once.
LEMMA KeepsWhenServing ==
  ASSUME IInv, TypeOK', NEW r, r \notin DOMAIN req,
         NEW e, e.phase = "granted", e.token \in DOMAIN issued,
         req' = Put(req, r, e), UNCHANGED <<store, inFlight, issued>>
  PROVE  IInv'
<1>1. /\ DOMAIN req' = DOMAIN req \cup {r}
      /\ req'[r] = e
      /\ \A q \in DOMAIN req : req'[q] = req[q]
  BY DEF Put
<1>2. \A t \in DOMAIN inFlight : inFlight[t] \in DOMAIN req
  BY DEF IInv, SingleFlight, Refreshing
<1>3. SingleFlight'
  BY <1>1, <1>2 DEF IInv, SingleFlight, Refreshing
<1>4. NewestTokens'
  BY <1>1, <1>2 DEF IInv, NewestTokens
<1>5. KnownTokens'
  BY <1>1 DEF IInv
<1>6. OneProvider' /\ OneRecord'
  BY <1>1, <1>2 DEF IInv, SingleFlight
<1> QED BY <1>3, <1>4, <1>5, <1>6 DEF IInv

\* Steps by which the refresh of r ends: its call is gone, the requests that
\* waited for it are gone or served with s, and everything else stands.
RefreshEnds(r, s) ==
  /\ Refreshing(r)
  /\ inFlight' = Without(inFlight, {req[r].token})
  /\ req' = Settle(r, s) \/ req' = Without(req, WaitingOn(r))

RefreshEndFrame(r) ==
  /\ req[r].token \in DOMAIN inFlight /\ inFlight[req[r].token] = r
  /\ DOMAIN inFlight' = DOMAIN inFlight \ {req[r].token}
  /\ \A u \in DOMAIN inFlight' :
       /\ inFlight'[u] = inFlight[u]
       /\ inFlight[u] \in DOMAIN req'
       /\ req'[inFlight[u]] = req[inFlight[u]]
  /\ DOMAIN req' \subseteq DOMAIN req
  /\ \A q \in DOMAIN req' : req'[q].token = req[q].token
  /\ \A q \in DOMAIN req' : req'[q].phase = "waiting" =>
       /\ req'[q] = req[q]
       /\ req[q].owner # r
       /\ req[q].token # req[r].token

LEMMA RefreshEndFacts ==
  ASSUME IInv, NEW r, NEW s, RefreshEnds(r, s)
  PROVE  RefreshEndFrame(r)
<1>1. req[r].token \in DOMAIN inFlight /\ inFlight[req[r].token] = r
  BY DEF IInv, SingleFlight, Refreshing, RefreshEnds
<1>2. /\ DOMAIN inFlight' = DOMAIN inFlight \ {req[r].token}
      /\ \A u \in DOMAIN inFlight' : inFlight'[u] = inFlight[u]
  BY DEF Without, Restrict, RefreshEnds
<1>3. \A q \in DOMAIN req : req[q] \in Request
  BY DEF IInv, TypeOK, IsMap
<1>4. /\ DOMAIN req' \subseteq DOMAIN req
      /\ \A q \in DOMAIN req' : req'[q].token = req[q].token
      /\ \A q \in DOMAIN req : req[q].phase = "waiting" /\ req[q].owner # r =>
           q \in DOMAIN req' /\ req'[q] = req[q]
      /\ \A q \in DOMAIN req' : req'[q].phase = "waiting" =>
           req'[q] = req[q] /\ req[q].owner # r
  <2>1. CASE req' = Settle(r, s)
    BY <1>3, <2>1 DEF Settle, WaitingOn, Request
  <2>2. CASE req' = Without(req, WaitingOn(r))
    BY <2>2 DEF Without, Restrict, WaitingOn
  <2> QED BY <2>1, <2>2 DEF RefreshEnds
<1>5. \A q \in DOMAIN req' : req'[q].phase = "waiting" =>
        req[q].token # req[r].token
  BY <1>1, <1>4 DEF IInv, SingleFlight
<1>6. \A u \in DOMAIN inFlight' :
        inFlight[u] \in DOMAIN req' /\ req'[inFlight[u]] = req[inFlight[u]]
  BY <1>1, <1>2, <1>4 DEF IInv, SingleFlight, Refreshing
<1> QED BY <1>1, <1>2, <1>4, <1>5, <1>6 DEF RefreshEndFrame

\* The session of the call is written with its newest tokens and its
\* provider, or dropped, or left as it is.
SettlesSession(t) ==
  /\ DOMAIN issued' = DOMAIN issued
  /\ \A u \in DOMAIN issued : u # t => issued'[u] = issued[u]
  /\ DOMAIN store' \subseteq DOMAIN store \cup {t}
  /\ \A u \in DOMAIN store' : u # t => store'[u] = store[u]
  /\ t \in DOMAIN store' => /\ store'[t].serial = issued'[t].serial
                           /\ store'[t].refreshToken = issued'[t].refreshToken

LEMMA KeepsWhenRefreshEnds ==
  ASSUME IInv, TypeOK', NEW r, NEW s, RefreshEnds(r, s),
         SettlesSession(req[r].token)
  PROVE  IInv'
<1>0. RefreshEndFrame(r)
  BY RefreshEndFacts
<1>1. SingleFlight'
  <2>1. \A q \in DOMAIN req' : req'[q].phase = "waiting" =>
          /\ req'[q].token \in DOMAIN inFlight'
          /\ req'[q].owner = inFlight'[req'[q].token]
    BY <1>0 DEF RefreshEndFrame, IInv, SingleFlight
  <2>2. \A u \in DOMAIN inFlight' :
          Refreshing(inFlight[u])' /\ req'[inFlight'[u]].token = u
    BY <1>0 DEF RefreshEndFrame, IInv, SingleFlight, Refreshing
  <2> QED BY <2>1, <2>2 DEF SingleFlight
<1>2. NewestTokens'
  <2>1. \A u \in DOMAIN store' :
          /\ store'[u].serial = issued'[u].serial
          /\ store'[u].refreshToken = issued'[u].refreshToken
    BY DEF SettlesSession, IInv, NewestTokens
  <2>2. ASSUME NEW u \in DOMAIN inFlight'
        PROVE  /\ u \in DOMAIN inFlight /\ u # req[r].token
               /\ req'[inFlight'[u]].record = req[inFlight[u]].record
               /\ u \in DOMAIN issued
    BY <1>0 DEF RefreshEndFrame, IInv, SingleFlight, Refreshing
  <2>3. ASSUME NEW u \in DOMAIN inFlight'
        PROVE  /\ req'[inFlight'[u]].record.serial = issued'[u].serial
               /\ req'[inFlight'[u]].record.refreshToken = issued'[u].refreshToken
    BY <2>2 DEF SettlesSession, IInv, NewestTokens
  <2> QED BY <2>1, <2>3 DEF NewestTokens
<1>3. KnownTokens'
  <2>1. req[r].token \in DOMAIN issued
    BY DEF RefreshEnds, Refreshing, IInv
  <2> QED BY <1>0, <2>1 DEF RefreshEndFrame, SettlesSession, IInv
<1>4. OneProvider' /\ OneRecord'
  <2>1. ASSUME NEW q \in DOMAIN req', req'[q].phase = "waiting"
        PROVE  req'[req'[q].owner].record.provider = req'[q].needs
    <3>1. /\ q \in DOMAIN req /\ req'[q] = req[q]
          /\ req[q].token \in DOMAIN inFlight /\ req[q].token # req[r].token
          /\ req[q].owner = inFlight[req[q].token]
      BY <1>0, <2>1 DEF RefreshEndFrame, IInv, SingleFlight
    <3>2. req'[req[q].owner] = req[req[q].owner]
      BY <1>0, <3>1 DEF RefreshEndFrame
    <3> QED BY <2>1, <3>1, <3>2 DEF IInv
  <2>2. ASSUME NEW u \in DOMAIN store' \cap DOMAIN inFlight'
        PROVE  store'[u] = req'[inFlight'[u]].record
    BY <1>0 DEF RefreshEndFrame, SettlesSession, IInv
  <2> QED BY <2>1, <2>2
<1> QED BY <1>1, <1>2, <1>3, <1>4 DEF IInv

LEMMA IInvStep ==
  ASSUME IInv, TypeOK', [Next]_vars PROVE IInv'
<1>1. ASSUME NEW p \in Providers, StartLogin(p) PROVE IInv'
  BY <1>1, KeepsWhenUntouched DEF StartLogin
<1>2. ASSUME NEW l \in logins, NEW t \in Tokens, NEW life \in Lifetimes,
             NEW rt \in BOOLEAN, LoginAnswered(l, t, life, rt)
      PROVE  IInv'
  <2>1. t \notin DOMAIN issued /\ UNCHANGED <<req, inFlight>>
    BY <1>2 DEF LoginAnswered, FreshToken
  <2>2. t \notin DOMAIN inFlight
    BY <2>1 DEF IInv, SingleFlight, Refreshing
  <2>3. /\ DOMAIN store' = DOMAIN store \cup {t}
        /\ DOMAIN issued' = DOMAIN issued \cup {t}
        /\ \A u \in DOMAIN store : u # t => store'[u] = store[u]
        /\ \A u \in DOMAIN issued : u # t => issued'[u] = issued[u]
        /\ store'[t].serial = issued'[t].serial
        /\ store'[t].refreshToken = issued'[t].refreshToken
    BY <1>2 DEF LoginAnswered, Put
  <2>4. SingleFlight'
    BY <2>1 DEF IInv, SingleFlight, Refreshing
  <2>5. NewestTokens'
    BY <2>1, <2>2, <2>3 DEF IInv, NewestTokens, SingleFlight, Refreshing
  <2>6. KnownTokens'
    BY <2>1, <2>3 DEF IInv
  <2>7. OneProvider' /\ OneRecord'
    BY <2>1, <2>2, <2>3 DEF IInv
  <2> QED BY <2>4, <2>5, <2>6, <2>7 DEF IInv
<1>3. ASSUME NEW l \in logins, LoginFailed(l) PROVE IInv'
  BY <1>3, KeepsWhenUntouched DEF LoginFailed
<1>4. ASSUME NEW r \in Requests, NEW t \in Tokens, NEW p \in Providers,
             UseAsIs(r, t, p)
      PROVE  IInv'
  <2>1. t \in DOMAIN issued
    BY <1>4 DEF UseAsIs, Usable, IInv
  <2> QED BY <1>4, <2>1, KeepsWhenServing DEF UseAsIs, Entry
<1>5. ASSUME NEW r \in Requests, NEW t \in Tokens, NEW p \in Providers,
             ShareRefresh(r, t, p)
      PROVE  IInv'
  <2> DEFINE o == inFlight[t]
  <2>1. /\ r \notin DOMAIN req
        /\ t \in DOMAIN store /\ store[t].provider = p
        /\ t \in DOMAIN inFlight
        /\ UNCHANGED <<store, inFlight, issued>>
    BY <1>5 DEF ShareRefresh, Usable
  <2>2. /\ DOMAIN req' = DOMAIN req \cup {r}
        /\ req'[r] = Entry("waiting", t, p, o, store[t])
        /\ \A q \in DOMAIN req : req'[q] = req[q]
    BY <1>5 DEF ShareRefresh, Put
  <2>3. /\ o \in DOMAIN req /\ o # r
        /\ \A u \in DOMAIN inFlight : inFlight[u] \in DOMAIN req
    BY <2>1 DEF IInv, SingleFlight, Refreshing
  <2>4. SingleFlight'
    BY <2>1, <2>2, <2>3 DEF IInv, SingleFlight, Refreshing, Entry
  <2>5. NewestTokens'
    BY <2>1, <2>2, <2>3 DEF IInv, NewestTokens
  <2>6. KnownTokens'
    BY <2>1, <2>2 DEF IInv, Entry
  <2>7. OneProvider' /\ OneRecord'
    BY <2>1, <2>2, <2>3 DEF IInv, SingleFlight, Entry
  <2> QED BY <2>4, <2>5, <2>6, <2>7 DEF IInv
<1>6. ASSUME NEW r \in Requests, NEW t \in Tokens, NEW p \in Providers,
             StartRefresh(r, t, p)
      PROVE  IInv'
  <2>1. /\ r \notin DOMAIN req
        /\ t \in DOMAIN store /\ store[t].provider = p
        /\ t \notin DOMAIN inFlight
        /\ UNCHANGED <<store, issued>>
    BY <1>6 DEF StartRefresh, RefreshDue, Usable
  <2>2. /\ DOMAIN req' = DOMAIN req \cup {r}
        /\ req'[r] = Entry("waiting", t, p, r, store[t])
        /\ \A q \in DOMAIN req : req'[q] = req[q]
        /\ DOMAIN inFlight' = DOMAIN inFlight \cup {t}
        /\ inFlight'[t] = r
        /\ \A u \in DOMAIN inFlight : inFlight'[u] = inFlight[u]
    BY <1>6, <2>1 DEF StartRefresh, Put
  <2>3. \A u \in DOMAIN inFlight : inFlight[u] \in DOMAIN req /\ inFlight[u] # r
    BY <2>1 DEF IInv, SingleFlight, Refreshing
  <2>4. SingleFlight'
    BY <2>1, <2>2, <2>3 DEF IInv, SingleFlight, Refreshing, Entry
  <2>5. NewestTokens'
    BY <2>1, <2>2, <2>3 DEF IInv, NewestTokens, Entry
  <2>6. KnownTokens'
    BY <2>1, <2>2 DEF IInv, Entry
  <2>7. OneProvider' /\ OneRecord'
    BY <2>1, <2>2, <2>3 DEF IInv, SingleFlight, Entry
  <2> QED BY <2>4, <2>5, <2>6, <2>7 DEF IInv
<1>7. ASSUME NEW r \in Requests, NEW t \in Tokens, NEW p \in Providers,
             CannotRefresh(r, t, p)
      PROVE  IInv'
  <2>1. t \in DOMAIN issued
    BY <1>7 DEF CannotRefresh, RefreshDue, Usable, IInv
  <2>2. CASE IsExpired(store[t])
    BY <1>7, <2>2, KeepsWhenDropping DEF CannotRefresh
  <2>3. CASE ~IsExpired(store[t])
    BY <1>7, <2>1, <2>3, KeepsWhenServing DEF CannotRefresh, Entry
  <2> QED BY <2>2, <2>3
<1>8. ASSUME NEW r \in DOMAIN req, NEW life \in Lifetimes,
             NEW rotates \in BOOLEAN, RefreshAnswered(r, life, rotates)
      PROVE  IInv'
  <2> DEFINE t == req[r].token
             n == issued[t].made + 1
             s == Renewed(req[r].record, n, life, rotates)
  <2>1. RefreshEnds(r, s)
    BY <1>8 DEF RefreshAnswered, RefreshEnds
  <2>2. t \in DOMAIN inFlight /\ inFlight[t] = r
    BY <1>8 DEF RefreshAnswered, IInv, SingleFlight, Refreshing
  <2>3. /\ req[r].record \in Session /\ t \in DOMAIN issued
        /\ req[r].record.serial = issued[t].serial
        /\ req[r].record.refreshToken = issued[t].refreshToken
        /\ issued[t].made \in Nat
    BY <2>2 DEF IInv, NewestTokens, TypeOK, IsMap, Request, Issues
  <2>4. /\ s.serial = n
        /\ s.refreshToken = IF rotates THEN n ELSE req[r].record.refreshToken
    <3>1. n \in 1..MaxSerial
      BY <1>8, <2>3, NextIssue, SessionsAssumption DEF RefreshAnswered, IInv
    <3> QED BY <2>3, <3>1, RenewedType DEF IInv
  <2>5. /\ DOMAIN store' = DOMAIN store \cup {t}
        /\ store'[t] = s
        /\ \A u \in DOMAIN store : u # t => store'[u] = store[u]
    BY <1>8 DEF RefreshAnswered, Put
  <2>6. /\ DOMAIN issued' = DOMAIN issued
        /\ \A u \in DOMAIN issued : u # t => issued'[u] = issued[u]
        /\ issued'[t] = [made |-> n, serial |-> n,
                         refreshToken |-> IF rotates THEN n
                                          ELSE issued[t].refreshToken]
    BY <1>8, <2>3 DEF RefreshAnswered, IInv, TypeOK, IsMap
  <2>7. SettlesSession(t)
    <3> HIDE DEF s, t, n
    <3> QED BY <2>3, <2>4, <2>5, <2>6 DEF SettlesSession
  <2> QED BY <2>1, <2>7, KeepsWhenRefreshEnds
<1>9. ASSUME NEW r \in DOMAIN req, RefreshFailed(r) PROVE IInv'
  <2> DEFINE t == req[r].token
             s == req[r].record
  <2>1. RefreshEnds(r, s)
    BY <1>9 DEF RefreshFailed, RefreshEnds
  <2>2. /\ DOMAIN store' \subseteq DOMAIN store
        /\ \A u \in DOMAIN store' : store'[u] = store[u]
    BY <1>9 DEF RefreshFailed, Without, Restrict
  <2>3. /\ DOMAIN issued' = DOMAIN issued
        /\ \A u \in DOMAIN issued :
             /\ issued'[u].serial = issued[u].serial
             /\ issued'[u].refreshToken = issued[u].refreshToken
        /\ \A u \in DOMAIN issued : u # t => issued'[u] = issued[u]
    BY <1>9, LostFacts DEF RefreshFailed, IInv, KnownTokens
  <2>4. SettlesSession(t)
    BY <2>2, <2>3 DEF SettlesSession, IInv, NewestTokens
  <2> QED BY <2>1, <2>4, KeepsWhenRefreshEnds
<1>10. ASSUME NEW r \in DOMAIN req, Respond(r) PROVE IInv'
  <2>1. /\ req[r].phase = "granted" /\ UNCHANGED <<store, inFlight, issued>>
        /\ DOMAIN req' = DOMAIN req \ {r}
        /\ \A q \in DOMAIN req' : req'[q] = req[q]
    BY <1>10 DEF Respond, Without, Restrict
  <2>2. /\ \A u \in DOMAIN inFlight : inFlight[u] \in DOMAIN req'
        /\ \A q \in DOMAIN req' : req[q].phase = "waiting" =>
             req[q].owner \in DOMAIN req'
    BY <2>1 DEF IInv, SingleFlight, Refreshing
  <2>3. SingleFlight'
    BY <2>1, <2>2 DEF IInv, SingleFlight, Refreshing
  <2>4. NewestTokens' /\ KnownTokens' /\ OneProvider' /\ OneRecord'
    BY <2>1, <2>2 DEF IInv, NewestTokens
  <2> QED BY <2>3, <2>4 DEF IInv
<1>11. ASSUME NEW t \in Tokens, Logout(t) \/ Revoke(t) PROVE IInv'
  BY <1>11, KeepsWhenDropping DEF Logout, Revoke
<1>12. CASE Sweep
  BY <1>12, KeepsWhenDropping DEF Sweep
<1>13. CASE Restart
  BY <1>13, EmptyMapType
     DEF Restart, IInv, SingleFlight, NewestTokens, EmptyMap
<1>14. CASE Tick
  BY <1>14, KeepsWhenUntouched DEF Tick
<1>15. ASSUME NEW p \in Providers, NEW kind \in Kinds, SaveProvider(p, kind)
       PROVE  IInv'
  BY <1>15, KeepsWhenUntouched DEF SaveProvider
<1>16. ASSUME NEW p \in Providers, RemoveProvider(p) PROVE IInv'
  BY <1>16, KeepsWhenUntouched DEF RemoveProvider
<1>17. CASE UNCHANGED vars
  BY <1>17, KeepsWhenUntouched DEF vars
<1> QED
  BY <1>1, <1>2, <1>3, <1>4, <1>5, <1>6, <1>7, <1>8, <1>9, <1>10, <1>11,
     <1>12, <1>13, <1>14, <1>15, <1>16, <1>17 DEF Next

\* What Next keeps, from what the theorems below follow.
LEMMA Invariance == Spec => []IInv
<1>1. Init => IInv
  BY EmptyMapType, TypeInit
     DEF Init, IInv, SingleFlight, NewestTokens, EmptyMap
<1>2. IInv /\ [Next]_vars => IInv'
  BY TypeStep, IInvStep DEF IInv
<1> QED BY <1>1, <1>2, PTL DEF Spec

\* TypeOK: every variable keeps to its type.
THEOREM TypeCorrect == Spec => []TypeOK
<1>1. IInv => TypeOK
  BY DEF IInv
<1> QED BY <1>1, Invariance, PTL

\* N requests for a session that is due cause one refresh, and all of them
\* wait for it.
THEOREM OneRefreshPerSession == Spec => []SingleFlight
<1>1. IInv => SingleFlight
  BY DEF IInv
<1> QED BY <1>1, Invariance, PTL

\* NewestTokens: no refresh token that arrived is lost, and none that it
\* replaced is presented again, however many answers never arrive.
THEOREM NoTokenLost == Spec => []NewestTokens
<1>1. IInv => NewestTokens
  BY DEF IInv
<1> QED BY <1>1, Invariance, PTL

-----------------------------------------------------------------------------
(***************************************************************************)
(* What a request is granted.  A request is served at once with a record   *)
(* of the store, or at the end of the refresh it waited for with the       *)
(* record of that call; IInv says of both whose they are and how new.      *)
(***************************************************************************)
Sound(r) ==
  LET t == req'[r].token
      s == req'[r].record
  IN
  /\ s.provider = req'[r].needs
  /\ s.serial = issued'[t].serial
  /\ IsExpired(s) => issued'[t].serial > issued[t].serial

LEMMA ServedAtOnce ==
  ASSUME IInv, NEW q, NEW t, NEW p, Usable(t, p), ~IsExpired(store[t]),
         req' = Put(req, q, Entry("granted", t, p, q, store[t])),
         UNCHANGED issued,
         NEW r, Grants(r)
  PROVE  Sound(r)
<1>1. r = q
  BY DEF Grants, Put
<1>2. req'[r].token = t /\ req'[r].needs = p /\ req'[r].record = store[t]
  BY <1>1 DEF Put, Entry
<1>3. store[t].provider = p /\ store[t].serial = issued'[t].serial
  BY DEF Usable, IInv, NewestTokens
<1> QED BY <1>2, <1>3 DEF Sound

\* Whoever waits for the call of r waits for the same session, and needs the
\* provider of the record the call took along.
LEMMA WaitersOfOneCall ==
  ASSUME IInv, NEW r, Refreshing(r), NEW q \in WaitingOn(r)
  PROVE  /\ q \in DOMAIN req
         /\ req[q].token = req[r].token
         /\ req[r].record.provider = req[q].needs
<1>1. q \in DOMAIN req /\ req[q].phase = "waiting" /\ req[q].owner = r
  BY DEF WaitingOn
<1>2. req[q].token \in DOMAIN inFlight /\ inFlight[req[q].token] = r
  BY <1>1 DEF IInv, SingleFlight
<1> QED BY <1>1, <1>2 DEF IInv, SingleFlight

LEMMA ServedAfterRefresh ==
  ASSUME IInv, NEW o, Refreshing(o), NEW s, req' = Settle(o, s),
         s.provider = req[o].record.provider,
         s.serial = issued'[req[o].token].serial,
         IsExpired(s) =>
           issued'[req[o].token].serial > issued[req[o].token].serial,
         NEW r, Grants(r)
  PROVE  Sound(r)
<1>1. \A x \in DOMAIN req : req[x] \in Request
  BY DEF IInv, TypeOK, IsMap
<1>2. r \in DOMAIN req
  BY DEF Grants, Settle
<1>3. r \in WaitingOn(o)
  BY <1>2 DEF Grants, Settle, WaitingOn
<1>4. req'[r] = [req[r] EXCEPT !.phase = "granted", !.record = s]
  BY <1>2, <1>3 DEF Settle
<1>5. /\ req'[r].record = s /\ req'[r].token = req[r].token
      /\ req'[r].needs = req[r].needs
  BY <1>1, <1>2, <1>4 DEF Request
<1> QED BY <1>3, <1>5, WaitersOfOneCall DEF Sound

LEMMA GrantStep ==
  ASSUME IInv, [Next]_vars, NEW r \in Requests, Grants(r) PROVE Sound(r)
<1>1. ASSUME UNCHANGED req PROVE FALSE
  BY <1>1 DEF Grants
<1>2. ASSUME NEW S, req' = Without(req, S) PROVE FALSE
  BY <1>2 DEF Grants, Without, Restrict
<1>3. ASSUME NEW q \in Requests, NEW t \in Tokens, NEW p \in Providers,
             UseAsIs(q, t, p)
      PROVE  Sound(r)
  <2>1. clock \in Nat /\ store[t].expiresAt \in Nat \cup {Never}
    BY <1>3, SessionsAssumption
       DEF IInv, TypeOK, IsMap, Session, UseAsIs, Usable
  <2>2. ~IsExpired(store[t])
    BY <1>3, <2>1, SessionsAssumption
       DEF UseAsIs, NeedsRefresh, IsExpired, Never
  <2> QED BY <1>3, <2>2, ServedAtOnce DEF UseAsIs
<1>4. ASSUME NEW q \in Requests, NEW t \in Tokens, NEW p \in Providers,
             CannotRefresh(q, t, p)
      PROVE  Sound(r)
  BY <1>1, <1>4, ServedAtOnce DEF CannotRefresh, RefreshDue
<1>5. ASSUME NEW q \in Requests, NEW t \in Tokens, NEW p \in Providers,
             NEW o, NEW s, req' = Put(req, q, Entry("waiting", t, p, o, s))
      PROVE  FALSE
  BY <1>5 DEF Grants, Put, Entry
<1>6. ASSUME NEW o \in DOMAIN req, NEW life \in Lifetimes,
             NEW rotates \in BOOLEAN, RefreshAnswered(o, life, rotates)
      PROVE  Sound(r)
  <2> DEFINE t == req[o].token
             n == issued[t].made + 1
             s == Renewed(req[o].record, n, life, rotates)
  <2>1. Refreshing(o) /\ req' = Settle(o, s)
    BY <1>6 DEF RefreshAnswered
  <2>2. t \in DOMAIN issued /\ req[o].record \in Session
    BY DEF IInv, TypeOK, IsMap, Request
  <2>3. /\ issued[t].made \in Nat /\ issued[t].serial \in Nat
        /\ issued[t].serial < n
    BY <2>2 DEF IInv, TypeOK, IsMap, Issues
  <2>4. s.provider = req[o].record.provider /\ s.serial = n
    BY <2>2 DEF Renewed, Session
  <2>5. issued'[t].serial = n
    BY <1>6, <2>2 DEF RefreshAnswered
  <2> HIDE DEF s, n
  <2> QED BY <2>1, <2>3, <2>4, <2>5, ServedAfterRefresh
<1>7. ASSUME NEW o \in DOMAIN req, RefreshFailed(o) PROVE Sound(r)
  <2>1. Refreshing(o)
        /\ issued'[req[o].token].serial = issued[req[o].token].serial
    BY <1>7, LostFacts DEF RefreshFailed, IInv, KnownTokens
  <2>2. ~IsExpired(req[o].record) /\ req' = Settle(o, req[o].record)
    BY <1>2, <1>7 DEF RefreshFailed
  <2>3. req[o].record.serial = issued[req[o].token].serial
    BY <2>1 DEF IInv, SingleFlight, NewestTokens, Refreshing
  <2> QED BY <2>1, <2>2, <2>3, ServedAfterRefresh
<1>8. ASSUME NEW q \in DOMAIN req, Respond(q) PROVE FALSE
  BY <1>2, <1>8 DEF Respond
<1>9. ASSUME Restart PROVE FALSE
  BY <1>9, EmptyMapType DEF Grants, Restart
<1> QED
  BY <1>1, <1>3, <1>4, <1>5, <1>6, <1>7, <1>8, <1>9
     DEF Next, vars, StartLogin, LoginAnswered, LoginFailed, ShareRefresh,
         StartRefresh, Logout, Revoke, Sweep, Tick, SaveProvider, RemoveProvider

\* GrantIsSound: on every path a request gets the newest backend token of its
\* session, of the provider the gateway requires, and none that has expired
\* unless it arrived in that very step.
THEOREM GrantsAreSound == Spec => GrantIsSound
<1>1. IInv /\ [Next]_vars =>
        [\A r \in Requests : Grants(r) => Sound(r)]_vars
  BY GrantStep
<1>2. [\A r \in Requests : Grants(r) => Sound(r)]_vars =>
        [\A r \in Requests : Grants(r) =>
           LET t == req'[r].token
               s == req'[r].record
           IN
           /\ s.provider = req'[r].needs
           /\ s.serial = issued'[t].serial
           /\ IsExpired(s) => issued'[t].serial > issued[t].serial]_vars
  BY DEF Sound
<1> QED BY <1>1, <1>2, Invariance, PTL DEF Spec, GrantIsSound

-----------------------------------------------------------------------------
(***************************************************************************)
(* The refinement.                                                         *)
(***************************************************************************)

\* Steps that hold, issue and renew the same sessions as before.
LEMMA StuttersWhenUntouched ==
  ASSUME UNCHANGED <<store, inFlight, issued>>
  PROVE  UNCHANGED Lifecycle!lifecycle
  BY DEF Lifecycle!lifecycle, Status

\* Steps that drop sessions end those that were held.
LEMMA DroppingEnds ==
  ASSUME IInv, NEW S, store' = Without(store, S), UNCHANGED <<inFlight, issued>>
  PROVE  Lifecycle!Next
<1> DEFINE E == S \cap DOMAIN store
<1>1. DOMAIN store' = DOMAIN store \ S
  BY DEF Without, Restrict
<1>2. E \in SUBSET Tokens /\ E \subseteq DOMAIN issued
  BY DEF IInv, TypeOK, IsMap
<1>3. \A t \in E : Status[t] = "live"
  BY <1>2 DEF Status
<1>4. Status' = [t \in Tokens |-> IF t \in E THEN "ended" ELSE Status[t]]
  BY <1>1, <1>2 DEF Status
<1>5. Lifecycle!End(E)
  BY <1>3, <1>4 DEF Lifecycle!End
<1> QED BY <1>2, <1>5 DEF Lifecycle!Next

LEMMA LoginIssues ==
  ASSUME IInv, NEW l, NEW t \in Tokens, NEW life, NEW rt,
         LoginAnswered(l, t, life, rt)
  PROVE  Lifecycle!Issue(t)
<1>1. /\ t \notin DOMAIN issued
      /\ DOMAIN store' = DOMAIN store \cup {t}
      /\ DOMAIN issued' = DOMAIN issued \cup {t}
      /\ inFlight' = inFlight
  BY DEF LoginAnswered, FreshToken, Put
<1>2. Status[t] = "unissued"
  BY <1>1 DEF Status
<1>3. Status' = [Status EXCEPT ![t] = "live"]
  BY <1>1 DEF Status
<1> QED BY <1>1, <1>2, <1>3 DEF Lifecycle!Issue

LEMMA RefreshBegins ==
  ASSUME IInv, NEW r, NEW t \in Tokens, NEW p, StartRefresh(r, t, p)
  PROVE  Lifecycle!BeginRenewal(t)
<1>1. /\ t \in DOMAIN store /\ t \in DOMAIN issued /\ t \notin DOMAIN inFlight
      /\ DOMAIN inFlight' = DOMAIN inFlight \cup {t}
      /\ store' = store /\ issued' = issued
  BY DEF IInv, StartRefresh, RefreshDue, Usable, Put
<1>2. Status[t] = "live" /\ Status' = Status
  BY <1>1 DEF Status
<1> QED BY <1>1, <1>2 DEF Lifecycle!BeginRenewal

LEMMA RefreshRenews ==
  ASSUME IInv, NEW r \in DOMAIN req, NEW life, NEW rotates,
         RefreshAnswered(r, life, rotates)
  PROVE  req[r].token \in Tokens /\ Lifecycle!Renew(req[r].token)
<1> DEFINE t == req[r].token
<1>1. /\ t \in Tokens /\ t \in DOMAIN issued /\ t \in DOMAIN inFlight
  BY DEF IInv, TypeOK, IsMap, Request, SingleFlight, RefreshAnswered, Refreshing
<1>2. /\ DOMAIN inFlight' = DOMAIN inFlight \ {t}
      /\ DOMAIN store' = DOMAIN store \cup {t}
      /\ DOMAIN issued' = DOMAIN issued
  BY DEF RefreshAnswered, Put, Without, Restrict
<1>3. Status' = [Status EXCEPT ![t] = "live"]
  BY <1>1, <1>2 DEF Status
<1> QED BY <1>1, <1>2, <1>3 DEF Lifecycle!Renew

LEMMA RefreshFails ==
  ASSUME IInv, NEW r \in DOMAIN req, RefreshFailed(r)
  PROVE  req[r].token \in Tokens /\ Lifecycle!FailRenewal(req[r].token)
<1> DEFINE t == req[r].token
<1>1. /\ t \in Tokens /\ t \in DOMAIN issued /\ t \in DOMAIN inFlight
  BY DEF IInv, TypeOK, IsMap, Request, SingleFlight, RefreshFailed, Refreshing
<1>2. /\ DOMAIN inFlight' = DOMAIN inFlight \ {t}
      /\ DOMAIN issued' = DOMAIN issued
  BY <1>1, LostFacts DEF IInv, RefreshFailed, Without, Restrict
<1>3. DOMAIN store' = DOMAIN store \ {t} \/ store' = store
  BY DEF RefreshFailed, Without, Restrict
<1>4. Status' = Status \/ Status' = [Status EXCEPT ![t] = "ended"]
  BY <1>1, <1>2, <1>3 DEF Status
<1> QED BY <1>1, <1>2, <1>4 DEF Lifecycle!FailRenewal

LEMMA RestartEnds ==
  ASSUME IInv, Restart PROVE Lifecycle!Next
<1>1. DOMAIN store' = {} /\ DOMAIN inFlight' = {} /\ issued' = issued
  BY EmptyMapType DEF Restart
<1>2. DOMAIN store \in SUBSET Tokens /\ DOMAIN store \subseteq DOMAIN issued
  BY DEF IInv, TypeOK, IsMap
<1>3. \A t \in DOMAIN store : Status[t] = "live"
  BY <1>2 DEF Status
<1>4. Status' = [t \in Tokens |-> IF t \in DOMAIN store THEN "ended"
                                  ELSE Status[t]]
  BY <1>1, <1>2 DEF Status
<1>5. \A t \in Tokens : Status'[t] # "live"
  BY <1>1 DEF Status
<1>6. Lifecycle!End(DOMAIN store)
  BY <1>1, <1>3, <1>4, <1>5 DEF Lifecycle!End
<1> QED BY <1>2, <1>6 DEF Lifecycle!Next

LEMMA StepRefines ==
  ASSUME IInv, [Next]_vars PROVE [Lifecycle!Next]_(Lifecycle!lifecycle)
<1>1. ASSUME UNCHANGED <<store, inFlight, issued>>
      PROVE  [Lifecycle!Next]_(Lifecycle!lifecycle)
  BY <1>1, StuttersWhenUntouched
<1>2. ASSUME NEW l \in logins, NEW t \in Tokens, NEW life \in Lifetimes,
             NEW rt \in BOOLEAN, LoginAnswered(l, t, life, rt)
      PROVE  Lifecycle!Next
  BY <1>2, LoginIssues DEF Lifecycle!Next
<1>3. ASSUME NEW r \in Requests, NEW t \in Tokens, NEW p \in Providers,
             StartRefresh(r, t, p)
      PROVE  Lifecycle!Next
  BY <1>3, RefreshBegins DEF Lifecycle!Next
<1>4. ASSUME NEW r \in Requests, NEW t \in Tokens, NEW p \in Providers,
             CannotRefresh(r, t, p)
      PROVE  [Lifecycle!Next]_(Lifecycle!lifecycle)
  BY <1>1, <1>4, DroppingEnds DEF CannotRefresh
<1>5. ASSUME NEW r \in DOMAIN req, NEW life \in Lifetimes,
             NEW rotates \in BOOLEAN, RefreshAnswered(r, life, rotates)
      PROVE  Lifecycle!Next
  BY <1>5, RefreshRenews DEF Lifecycle!Next
<1>6. ASSUME NEW r \in DOMAIN req, RefreshFailed(r) PROVE Lifecycle!Next
  BY <1>6, RefreshFails DEF Lifecycle!Next
<1>7. ASSUME NEW t \in Tokens, Logout(t) \/ Revoke(t) PROVE Lifecycle!Next
  BY <1>7, DroppingEnds DEF Logout, Revoke
<1>8. CASE Sweep
  BY <1>8, DroppingEnds DEF Sweep
<1>9. CASE Restart
  BY <1>9, RestartEnds
<1> QED
  BY <1>1, <1>2, <1>3, <1>4, <1>5, <1>6, <1>7, <1>8, <1>9
     DEF Next, vars, StartLogin, LoginFailed, UseAsIs, ShareRefresh, Respond,
         Tick, SaveProvider, RemoveProvider

\* ImplementsLifecycle: the service gives every token the abstract life.
THEOREM ImplementsSessionLifecycle == Spec => ImplementsLifecycle
<1>1. Init => Lifecycle!Init
  BY EmptyMapType DEF Init, Lifecycle!Init, Status
<1>2. IInv /\ [Next]_vars => [Lifecycle!Next]_(Lifecycle!lifecycle)
  BY StepRefines
<1> QED
  BY <1>1, <1>2, Invariance, PTL DEF Spec, ImplementsLifecycle, Lifecycle!Spec

-----------------------------------------------------------------------------
(***************************************************************************)
(* How a session leaves the store.  A failed refresh judges the expiry of  *)
(* the record it took along; OneRecord makes that the session's own.       *)
(***************************************************************************)
Dropped(t) == t \in DOMAIN store /\ t \notin DOMAIN store' /\ t \notin ended'

Useless(t) ==
  /\ IsExpired(store[t])
  /\ \/ store[t].refreshToken = None
     \/ t \in DOMAIN inFlight \ DOMAIN inFlight'
     \/ ~Renewable(store[t])

LEMMA DropStep ==
  ASSUME IInv, [Next]_vars, NEW t, Dropped(t) PROVE Useless(t)
<1>1. ASSUME DOMAIN store \subseteq DOMAIN store' PROVE FALSE
  BY <1>1 DEF Dropped
<1>2. ASSUME NEW r, NEW u, NEW p, CannotRefresh(r, u, p) PROVE Useless(t)
  <2>1. t = u /\ IsExpired(store[u]) /\ ~Renewable(store[u])
    BY <1>1, <1>2 DEF CannotRefresh, Dropped, Without, Restrict
  <2> QED BY <2>1 DEF Useless
<1>3. ASSUME NEW r, RefreshFailed(r) PROVE Useless(t)
  <2>1. t = req[r].token /\ IsExpired(req[r].record)
    BY <1>1, <1>3 DEF RefreshFailed, Dropped, Without, Restrict
  <2>2. t \in DOMAIN inFlight /\ inFlight[t] = r
    BY <1>3, <2>1 DEF RefreshFailed, IInv, SingleFlight, Refreshing
  <2>3. t \notin DOMAIN inFlight'
    BY <1>3, <2>1 DEF RefreshFailed, Without, Restrict
  <2>4. store[t] = req[r].record
    BY <2>2 DEF Dropped, IInv
  <2> QED BY <2>1, <2>2, <2>3, <2>4 DEF Useless
<1>4. ASSUME NEW u, Logout(u) \/ Revoke(u) PROVE FALSE
  BY <1>4 DEF Logout, Revoke, Dropped, Without, Restrict
<1>5. CASE Sweep
  <2>1. t \in Swept
    BY <1>5 DEF Sweep, Dropped, Without, Restrict
  <2> QED BY <2>1 DEF Swept, Useless
<1>6. ASSUME Restart PROVE FALSE
  BY <1>6 DEF Restart, Dropped, IInv
<1>7. ASSUME NEW k, NEW v, store' = Put(store, k, v) PROVE FALSE
  BY <1>1, <1>7 DEF Put
<1> QED
  BY <1>1, <1>2, <1>3, <1>4, <1>5, <1>6, <1>7
     DEF Next, vars, StartLogin, LoginAnswered, LoginFailed, UseAsIs,
         ShareRefresh, StartRefresh, RefreshAnswered, Respond, Tick,
         SaveProvider, RemoveProvider

\* SessionKeptWhileUseful: a session that can serve or be renewed is dropped
\* only when somebody ended it or its refresh failed once it had expired.
THEOREM SessionsKept == Spec => SessionKeptWhileUseful
<1>1. IInv /\ [Next]_vars =>
        [\A t \in DOMAIN store :
           (t \notin DOMAIN store' /\ t \notin ended') =>
             /\ IsExpired(store[t])
             /\ \/ store[t].refreshToken = None
                \/ t \in DOMAIN inFlight \ DOMAIN inFlight'
                \/ ~Renewable(store[t])]_vars
  BY DropStep DEF Dropped, Useless
<1> QED BY <1>1, Invariance, PTL DEF Spec, SessionKeptWhileUseful

-----------------------------------------------------------------------------
(***************************************************************************)
(* What is over stays over.                                                *)
(***************************************************************************)

LEMMA OverStep ==
  ASSUME IInv, [Next]_vars, NEW t \in Tokens, Over(t) PROVE Over(t)'
<1>1. Status[t] = "ended" /\ t \notin DOMAIN inFlight
  BY DEF Over, Status
<1>2. [Lifecycle!Next]_(Lifecycle!lifecycle)
  BY StepRefines
<1>3. Status'[t] = "ended" /\ t \notin DOMAIN inFlight'
  <2>1. CASE UNCHANGED Lifecycle!lifecycle
    BY <1>1, <2>1 DEF Lifecycle!lifecycle
  <2>2. ASSUME NEW u \in Tokens, Lifecycle!Issue(u)
        PROVE  Status'[t] = "ended" /\ t \notin DOMAIN inFlight'
    BY <1>1, <2>2 DEF Lifecycle!Issue, Status
  <2>3. ASSUME NEW u \in Tokens, Lifecycle!BeginRenewal(u)
        PROVE  Status'[t] = "ended" /\ t \notin DOMAIN inFlight'
    BY <1>1, <2>3 DEF Lifecycle!BeginRenewal, Status
  <2>4. ASSUME NEW u \in Tokens, Lifecycle!Renew(u) \/ Lifecycle!FailRenewal(u)
        PROVE  Status'[t] = "ended" /\ t \notin DOMAIN inFlight'
    BY <1>1, <2>4 DEF Lifecycle!Renew, Lifecycle!FailRenewal, Status
  <2>5. ASSUME NEW S \in SUBSET Tokens, Lifecycle!End(S)
        PROVE  Status'[t] = "ended" /\ t \notin DOMAIN inFlight'
    BY <1>1, <2>5 DEF Lifecycle!End, Status
  <2> QED BY <1>2, <2>1, <2>2, <2>3, <2>4, <2>5 DEF Lifecycle!Next
<1> QED BY <1>3 DEF Over, Status

\* OverForGood: a session that ended while no refresh of it was under way
\* never comes back.
THEOREM EndedForGood == Spec => OverForGood
<1>1. IInv /\ [Next]_vars => [\A t \in Tokens : Over(t) => Over(t)']_vars
  BY OverStep
<1> QED BY <1>1, Invariance, PTL DEF Spec, OverForGood

(***************************************************************************)
(* A session that has expired and holds no refresh token is dead: the      *)
(* sweep may drop it because it "can never become valid again"             *)
(* (sessionStore.ts:31-33).  That needs one more fact than IInv: a refresh *)
(* call is only ever made with a refresh token, so none is under way for a *)
(* dead session.                                                           *)
(***************************************************************************)
CallsHoldTokens ==
  \A t \in DOMAIN inFlight : req[inFlight[t]].record.refreshToken # None

Dead(t) ==
  t \in DOMAIN store /\ IsExpired(store[t]) /\ store[t].refreshToken = None

\* A dead session stays dead until it is dropped, and no request is served
\* with it, whatever a provider answers and however the console changes the
\* providers.
DeadForGood ==
  [][\A t \in Tokens : Dead(t) =>
       /\ t \in DOMAIN store' => Dead(t)'
       /\ \A r \in Requests : Grants(r) => req'[r].token # t]_vars

LEMMA CallsHoldTokensStep ==
  ASSUME IInv, CallsHoldTokens, [Next]_vars PROVE CallsHoldTokens'
<1>1. \A t \in DOMAIN inFlight :
        inFlight[t] \in DOMAIN req /\ req[inFlight[t]].phase = "waiting"
  BY DEF IInv, SingleFlight, Refreshing
<1>2. ASSUME UNCHANGED <<req, inFlight>> PROVE CallsHoldTokens'
  BY <1>2 DEF CallsHoldTokens
<1>3. ASSUME NEW r, r \notin DOMAIN req, NEW e, req' = Put(req, r, e),
             inFlight' = inFlight
      PROVE  CallsHoldTokens'
  BY <1>1, <1>3 DEF CallsHoldTokens, Put
<1>4. ASSUME NEW r, NEW t, NEW p, StartRefresh(r, t, p) PROVE CallsHoldTokens'
  <2>1. store[t].refreshToken # None /\ r \notin DOMAIN req
    BY <1>4 DEF StartRefresh, Renewable
  <2>2. req'[r].record = store[t]
    BY <1>4 DEF StartRefresh, Put, Entry
  <2>3. /\ DOMAIN inFlight' = DOMAIN inFlight \cup {t}
        /\ inFlight'[t] = r
        /\ \A u \in DOMAIN inFlight \ {t} : inFlight'[u] = inFlight[u]
        /\ \A q \in DOMAIN req : req'[q] = req[q]
    BY <1>4, <2>1 DEF StartRefresh, Put
  <2> QED BY <1>1, <2>1, <2>2, <2>3 DEF CallsHoldTokens
<1>5. ASSUME NEW r, NEW s, RefreshEnds(r, s) PROVE CallsHoldTokens'
  <2>1. RefreshEndFrame(r)
    BY <1>5, RefreshEndFacts
  <2>2. \A t \in DOMAIN inFlight' :
          t \in DOMAIN inFlight /\ req'[inFlight'[t]] = req[inFlight[t]]
    BY <2>1 DEF RefreshEndFrame
  <2> QED BY <2>2 DEF CallsHoldTokens
<1>6. ASSUME NEW r, NEW life, NEW rotates, RefreshAnswered(r, life, rotates)
      PROVE  CallsHoldTokens'
  BY <1>5, <1>6 DEF RefreshAnswered, RefreshEnds
<1>7. ASSUME NEW r, RefreshFailed(r) PROVE CallsHoldTokens'
  BY <1>5, <1>7 DEF RefreshFailed, RefreshEnds
<1>8. ASSUME NEW r \in DOMAIN req, Respond(r) PROVE CallsHoldTokens'
  BY <1>1, <1>8 DEF Respond, Without, Restrict, CallsHoldTokens
<1>9. CASE Restart
  BY <1>9, EmptyMapType DEF Restart, CallsHoldTokens
<1>10. ASSUME NEW r, NEW t, NEW p,
              UseAsIs(r, t, p) \/ ShareRefresh(r, t, p) \/ CannotRefresh(r, t, p)
       PROVE  CallsHoldTokens'
  BY <1>2, <1>3, <1>10 DEF UseAsIs, ShareRefresh, CannotRefresh
<1> QED
  BY <1>2, <1>4, <1>6, <1>7, <1>8, <1>9, <1>10
     DEF Next, vars, StartLogin, LoginAnswered, LoginFailed, Logout, Revoke,
         Sweep, Tick, SaveProvider, RemoveProvider

LEMMA DeadHasNoCall ==
  ASSUME IInv, CallsHoldTokens, NEW t, Dead(t) PROVE t \notin DOMAIN inFlight
  BY DEF IInv, CallsHoldTokens, Dead

LEMMA DeadIsDue ==
  ASSUME IInv, NEW t, Dead(t) PROVE NeedsRefresh(store[t]) /\ ~Renewable(store[t])
<1>1. store[t] \in Session /\ clock \in Nat
  BY SessionsAssumption DEF IInv, TypeOK, IsMap, Dead
<1> QED BY <1>1, SessionsAssumption
        DEF Session, Dead, IsExpired, NeedsRefresh, Renewable, Never

\* Steps that leave the sessions of the store as they are, or drop some.
LEMMA DeadKeeps ==
  ASSUME IInv, NEW t, Dead(t), NEW S, store' = store \/ store' = Without(store, S),
         clock' = clock \/ (clock < MaxClock /\ clock' = clock + 1),
         t \in DOMAIN store'
  PROVE  Dead(t)'
<1>1. store[t] \in Session /\ clock \in Nat
  BY SessionsAssumption DEF IInv, TypeOK, IsMap, Dead
<1>2. store'[t] = store[t]
  BY DEF Without, Restrict
<1> QED BY <1>1, <1>2 DEF Dead, IsExpired, Session, Never

\* Steps that write the session of another token.
LEMMA DeadKeepsBesidePut ==
  ASSUME NEW t, Dead(t), NEW u, u # t, NEW s, store' = Put(store, u, s),
         clock' = clock
  PROVE  Dead(t)'
  BY DEF Dead, IsExpired, Put

\* A refresh call that ends serves only the requests of its own token.
LEMMA DeadGetsNoAnswer ==
  ASSUME IInv, CallsHoldTokens, NEW t, Dead(t), NEW o, Refreshing(o),
         NEW s, req' = Settle(o, s), NEW r, Grants(r)
  PROVE  req'[r].token # t
<1>1. \A x \in DOMAIN req : req[x] \in Request
  BY DEF IInv, TypeOK, IsMap
<1>2. r \in DOMAIN req /\ r \in WaitingOn(o)
  BY DEF Grants, Settle, WaitingOn
<1>3. req'[r].token = req[r].token
  BY <1>1, <1>2 DEF Settle, Request
<1>4. req[r].token = req[o].token /\ req[o].token \in DOMAIN inFlight
  BY <1>2, WaitersOfOneCall DEF IInv, SingleFlight, Refreshing
<1> QED BY <1>3, <1>4, DeadHasNoCall

LEMMA DeadStep ==
  ASSUME IInv, CallsHoldTokens, [Next]_vars, NEW t \in Tokens, Dead(t)
  PROVE  /\ t \in DOMAIN store' => Dead(t)'
         /\ \A r \in Requests : Grants(r) => req'[r].token # t
<1> DEFINE Stays == t \in DOMAIN store' => Dead(t)'
           Unused == \A r \in Requests : Grants(r) => req'[r].token # t
<1>1. ASSUME UNCHANGED req PROVE Unused
  BY <1>1 DEF Grants
<1>2. ASSUME NEW S, req' = Without(req, S) PROVE Unused
  BY <1>2 DEF Grants, Without, Restrict
<1>3. ASSUME UNCHANGED <<store, clock>> PROVE Stays
  BY <1>3, DeadKeeps
<1>4. ASSUME NEW S, store' = Without(store, S), UNCHANGED clock PROVE Stays
  BY <1>4, DeadKeeps
<1>5. ASSUME NEW q, NEW u, u # t, NEW e, e.token = u, req' = Put(req, q, e)
      PROVE  Unused
  BY <1>5 DEF Grants, Put
<1>6. ASSUME NEW l, NEW u, NEW life, NEW rt, LoginAnswered(l, u, life, rt)
      PROVE  Stays /\ Unused
  <2>1. u # t
    BY <1>6 DEF LoginAnswered, FreshToken, IInv, Dead
  <2> QED BY <1>1, <1>6, <2>1, DeadKeepsBesidePut DEF LoginAnswered
<1>7. ASSUME NEW r, NEW u, NEW p, UseAsIs(r, u, p) PROVE Stays /\ Unused
  <2>1. u # t
    BY <1>7, DeadIsDue DEF UseAsIs
  <2> QED BY <1>3, <1>5, <1>7, <2>1 DEF UseAsIs, Entry
<1>8. ASSUME NEW r, NEW u, NEW p, ShareRefresh(r, u, p) PROVE Stays /\ Unused
  <2>1. u # t
    BY <1>8, DeadHasNoCall DEF ShareRefresh
  <2> QED BY <1>3, <1>5, <1>8, <2>1 DEF ShareRefresh, Entry
<1>9. ASSUME NEW r, NEW u, NEW p, StartRefresh(r, u, p) PROVE Stays /\ Unused
  <2>1. u # t
    BY <1>9, DeadIsDue DEF StartRefresh
  <2> QED BY <1>3, <1>5, <1>9, <2>1 DEF StartRefresh, Entry
<1>10. ASSUME NEW r, NEW u, NEW p, CannotRefresh(r, u, p) PROVE Stays /\ Unused
  <2>1. CASE IsExpired(store[u])
    BY <1>1, <1>4, <1>10, <2>1 DEF CannotRefresh
  <2>2. CASE ~IsExpired(store[u])
    <3>1. u # t
      BY <2>2 DEF Dead
    <3> QED BY <1>3, <1>5, <1>10, <2>2, <3>1 DEF CannotRefresh, Entry
  <2> QED BY <2>1, <2>2
<1>11. ASSUME NEW o, NEW life, NEW rotates, RefreshAnswered(o, life, rotates)
       PROVE  Stays /\ Unused
  <2> DEFINE s == Renewed(req[o].record, issued[req[o].token].made + 1,
                          life, rotates)
  <2>1. Refreshing(o) /\ req' = Settle(o, s)
    BY <1>11 DEF RefreshAnswered
  <2>2. req[o].token # t
    BY <2>1, DeadHasNoCall DEF IInv, SingleFlight, Refreshing
  <2>3. store' = Put(store, req[o].token, s) /\ clock' = clock
    BY <1>11 DEF RefreshAnswered
  <2> HIDE DEF s
  <2> QED BY <2>1, <2>2, <2>3, DeadKeepsBesidePut, DeadGetsNoAnswer
<1>12. ASSUME NEW o, RefreshFailed(o) PROVE Stays /\ Unused
  <2>1. CASE IsExpired(req[o].record)
    BY <1>2, <1>4, <1>12, <2>1 DEF RefreshFailed
  <2>2. CASE ~IsExpired(req[o].record)
    BY <1>3, <1>12, <2>2, DeadGetsNoAnswer DEF RefreshFailed
  <2> QED BY <2>1, <2>2
<1>13. ASSUME NEW r, Respond(r) PROVE Stays /\ Unused
  BY <1>2, <1>3, <1>13 DEF Respond
<1>14. ASSUME Sweep PROVE Stays /\ Unused
  BY <1>1, <1>4, <1>14 DEF Sweep
<1>15. ASSUME NEW u, Logout(u) \/ Revoke(u) PROVE Stays /\ Unused
  BY <1>1, <1>4, <1>15 DEF Logout, Revoke
<1>16. ASSUME Restart PROVE Stays /\ Unused
  BY <1>16, EmptyMapType DEF Restart, Grants
<1>17. ASSUME Tick PROVE Stays /\ Unused
  BY <1>1, <1>17, DeadKeeps DEF Tick
<1>18. ASSUME UNCHANGED <<store, clock, req>> PROVE Stays /\ Unused
  BY <1>1, <1>3, <1>18
<1> HIDE DEF Stays, Unused
<1>19. Stays /\ Unused
  BY <1>6, <1>7, <1>8, <1>9, <1>10, <1>11, <1>12, <1>13, <1>14, <1>15, <1>16,
     <1>17, <1>18
     DEF Next, vars, StartLogin, LoginFailed, SaveProvider, RemoveProvider
<1> QED BY <1>19 DEF Stays, Unused

LEMMA CallsHoldTokensAlways == Spec => [](IInv /\ CallsHoldTokens)
<1>1. Init => CallsHoldTokens
  BY EmptyMapType DEF Init, CallsHoldTokens
<1>2. IInv /\ CallsHoldTokens /\ [Next]_vars => CallsHoldTokens'
  BY CallsHoldTokensStep
<1> QED BY <1>1, <1>2, Invariance, PTL DEF Spec

\* DeadForGood: what the sweep drops could never have served again.
THEOREM DeadSessionsStayDead == Spec => DeadForGood
<1>1. (IInv /\ CallsHoldTokens) /\ [Next]_vars =>
        [\A t \in Tokens : Dead(t) =>
           /\ t \in DOMAIN store' => Dead(t)'
           /\ \A r \in Requests : Grants(r) => req'[r].token # t]_vars
  BY DeadStep
<1> QED BY <1>1, CallsHoldTokensAlways, PTL DEF Spec, DeadForGood
=============================================================================
