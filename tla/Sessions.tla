------------------------------ MODULE Sessions ------------------------------
(***************************************************************************)
(* Caller sessions: AuthService (src/auth/authService.ts) over the         *)
(* InMemorySessionStore (src/auth/sessionStore.ts), as the dispatcher, the *)
(* /auth routes and the console drive them.                                *)
(*                                                                         *)
(* The program runs on one thread and every await of the in-memory store   *)
(* resolves in the same turn of the event loop.  A turn ends only where    *)
(* the code waits for the network: a provider's login or refresh call, or  *)
(* the backend call.  One action is therefore everything that happens      *)
(* between two network answers, and requests interleave only there.        *)
(*                                                                         *)
(* A request that leaves without a session (401, or 400 for a provider     *)
(* that is no longer configured) changes nothing and is not an action.     *)
(***************************************************************************)
EXTENDS Integers, FiniteSets, JsMaps

CONSTANTS
  Tokens,     \* opaque session tokens, each drawn at most once
  Requests,   \* requests to authenticated routes that can be in progress
  Providers,  \* names of auth providers
  Kinds,      \* the provider kinds an instance considers
  Lifetimes,  \* expires_in values a provider answers; Never when it has none
  Margin,     \* REFRESH_MARGIN_MS
  MaxClock,   \* bound on the time explored
  MaxSerial,  \* bound on the backend tokens issued to one session
  MaxLogins   \* bound on the login calls waiting for a provider

Never == -1   \* expiresAt undefined
None  == 0    \* refreshToken undefined

ASSUME SessionsAssumption ==
  /\ Kinds \subseteq {"oauth2", "basicLogin", "ldap"}
  /\ Lifetimes \subseteq Nat \cup {Never}
  /\ Margin \in Nat
  /\ MaxClock \in Nat
  /\ MaxSerial \in Nat \ {0}
  /\ MaxLogins \in Nat

VARIABLES
  clock,      \* Date.now()
  providers,  \* AuthProvidersRegistry: provider name -> kind
  logins,     \* provider login calls not answered yet
  store,      \* InMemorySessionStore.sessions: token -> session record
  inFlight,   \* AuthService.refreshInFlight: token -> request that refreshes
  req,        \* requests waiting for a refresh or served with a session
  issued,     \* history: the tokens each session was given, see Issues
  ended       \* history: tokens logged out, revoked or lost in a restart

vars == <<clock, providers, logins, store, inFlight, req, issued, ended>>

(***************************************************************************)
(* A SessionRecord.  The n-th backend token a provider makes for a session *)
(* is the number n, and so is a refresh token made together with it.       *)
(***************************************************************************)
Session == [provider: Providers, serial: 1..MaxSerial,
            refreshToken: 0..MaxSerial, expiresAt: Nat \cup {Never}]

\* A request between resolveSession and its answer.  While it waits, owner is
\* the request whose refresh call it waits for: itself, or the one it shares.
Request == [phase: {"waiting", "granted"}, token: Tokens, needs: Providers,
            owner: Requests, record: Session]

Login == [provider: Providers, kind: Kinds]

\* How many backend tokens the provider made for a session, and the newest
\* backend and refresh token of those that reached the service: an answer
\* that is lost leaves the service behind.
Issues == {i \in [made: 1..MaxSerial, serial: Nat, refreshToken: Nat] :
             i.serial <= i.made}

TypeOK ==
  /\ clock \in 0..MaxClock
  /\ IsMap(providers, Providers, Kinds)
  /\ logins \subseteq Login
  /\ IsMap(store, Tokens, Session)
  /\ IsMap(inFlight, Tokens, Requests)
  /\ IsMap(req, Requests, Request)
  /\ IsMap(issued, Tokens, Issues)
  /\ ended \subseteq Tokens

Init ==
  /\ clock = 0
  /\ \E S \in SUBSET Providers : providers \in [S -> Kinds]
  /\ logins = {}
  /\ store = EmptyMap
  /\ inFlight = EmptyMap
  /\ req = EmptyMap
  /\ issued = EmptyMap
  /\ ended = {}

-----------------------------------------------------------------------------
(* Expiry *)

\* An expiry computed with the wrong sign.
ExpiryBefore(lifetime) == IF lifetime = Never THEN Never ELSE clock - lifetime

\* Date.now() + expires_in, or undefined.
ExpiryAfter(lifetime) == IF lifetime = Never THEN Never ELSE clock + lifetime

NeedsRefresh(s) == s.expiresAt # Never /\ clock >= s.expiresAt - Margin

IsExpired(s) == s.expiresAt # Never /\ clock >= s.expiresAt

-----------------------------------------------------------------------------
(* Logging in: POST /auth/login/:provider *)

StartLogin(p) ==
  /\ p \in DOMAIN providers
  /\ Cardinality(logins) < MaxLogins
  /\ logins' = logins \cup {[provider |-> p, kind |-> providers[p]]}
  /\ UNCHANGED <<clock, providers, store, inFlight, req, issued, ended>>

\* What the three provider kinds can answer: ldap always has an expiry and
\* never a refresh token.
CanAnswer(kind, lifetime, refreshable) ==
  kind = "ldap" => lifetime # Never /\ ~refreshable

\* A token that is merely not in use now.
UnheldToken(t) == t \notin DOMAIN store

\* 32 random bytes: a token never drawn before.
FreshToken(t) == t \notin DOMAIN issued

\* The provider accepted the credentials; createSession stores the session
\* under a token never used before, whatever became of the provider's config.
LoginAnswered(l, t, lifetime, refreshable) ==
  LET rt == IF refreshable THEN 1 ELSE None IN
  /\ l \in logins
  /\ FreshToken(t)
  /\ CanAnswer(l.kind, lifetime, refreshable)
  /\ logins' = logins \ {l}
  /\ store' = Put(store, t, [provider |-> l.provider, serial |-> 1,
                             refreshToken |-> rt,
                             expiresAt |-> ExpiryAfter(lifetime)])
  /\ issued' = Put(issued, t, [made |-> 1, serial |-> 1, refreshToken |-> rt])
  /\ UNCHANGED <<clock, providers, inFlight, req, ended>>

LoginFailed(l) ==
  /\ l \in logins
  /\ logins' = logins \ {l}
  /\ UNCHANGED <<clock, providers, store, inFlight, req, issued, ended>>

-----------------------------------------------------------------------------
(* Serving a request: resolveSession and ensureFresh *)

\* The presented token is known and of the provider the gateway requires.
Usable(t, p) == t \in DOMAIN store /\ store[t].provider = p

\* Request r goes on with session s in hand, or starts to wait for owner.
Entry(phase, t, p, owner, s) ==
  [phase |-> phase, token |-> t, needs |-> p, owner |-> owner, record |-> s]

UseAsIs(r, t, p) ==
  /\ r \notin DOMAIN req
  /\ Usable(t, p)
  /\ ~NeedsRefresh(store[t])
  /\ req' = Put(req, r, Entry("granted", t, p, r, store[t]))
  /\ UNCHANGED <<clock, providers, logins, store, inFlight, issued, ended>>

ShareRefresh(r, t, p) ==
  /\ r \notin DOMAIN req
  /\ Usable(t, p)
  /\ NeedsRefresh(store[t])
  /\ t \in DOMAIN inFlight
  /\ req' = Put(req, r, Entry("waiting", t, p, inFlight[t], store[t]))
  /\ UNCHANGED <<clock, providers, logins, store, inFlight, issued, ended>>

\* Every request that finds its session due starts a refresh of its own.
RefreshDueForAll(t, p) ==
  /\ Usable(t, p)
  /\ NeedsRefresh(store[t])
  /\ p \in DOMAIN providers

RefreshDue(t, p) ==
  /\ Usable(t, p)
  /\ NeedsRefresh(store[t])
  /\ t \notin DOMAIN inFlight
  /\ p \in DOMAIN providers

\* The provider's implementation has a refresh call and the session holds
\* what that call needs; otherwise doRefresh settles without the network.
Renewable(s) == providers[s.provider] = "oauth2" /\ s.refreshToken # None

StartRefresh(r, t, p) ==
  /\ r \notin DOMAIN req
  /\ RefreshDue(t, p)
  /\ Renewable(store[t])
  /\ inFlight' = Put(inFlight, t, r)
  /\ req' = Put(req, r, Entry("waiting", t, p, r, store[t]))
  /\ UNCHANGED <<clock, providers, logins, store, issued, ended>>

\* Nothing can renew the session: it serves while it lasts and is dropped,
\* with a 401, once it has expired.
CannotRefresh(r, t, p) ==
  /\ r \notin DOMAIN req
  /\ RefreshDue(t, p)
  /\ ~Renewable(store[t])
  /\ IF IsExpired(store[t])
       THEN store' = Without(store, {t}) /\ UNCHANGED req
       ELSE /\ req' = Put(req, r, Entry("granted", t, p, r, store[t]))
            /\ UNCHANGED store
  /\ UNCHANGED <<clock, providers, logins, inFlight, issued, ended>>

-----------------------------------------------------------------------------
(* The provider answers a refresh call *)

Refreshing(r) ==
  r \in DOMAIN req /\ req[r].phase = "waiting" /\ req[r].owner = r

\* Only the request that made the call hears of its answer.
OnlyOwner(r) == {r}

\* The requests that wait for the call of r: r and those that share it.
WaitingOn(r) ==
  {q \in DOMAIN req : req[q].phase = "waiting" /\ req[q].owner = r}

\* All of them go on with session s.
Settle(r, s) ==
  [q \in DOMAIN req |->
     IF q \in WaitingOn(r)
       THEN [req[q] EXCEPT !.phase = "granted", !.record = s]
       ELSE req[q]]

\* The refresh token of the answer is not taken over.
RenewedKeepingToken(s, n, lifetime, rotates) ==
  [s EXCEPT !.serial = n, !.expiresAt = ExpiryAfter(lifetime)]

\* The record doRefresh writes: the captured one, with the n-th backend token
\* and its expiry, and the refresh token made with it if the provider rotates.
Renewed(s, n, lifetime, rotates) ==
  [s EXCEPT !.serial = n,
            !.refreshToken = IF rotates THEN n ELSE @,
            !.expiresAt = ExpiryAfter(lifetime)]

\* Success: the record is stored without looking whether the session is
\* still there, and everybody who waits gets it.
RefreshAnswered(r, lifetime, rotates) ==
  LET t == req[r].token
      n == issued[t].made + 1
      s == Renewed(req[r].record, n, lifetime, rotates)
  IN
  /\ Refreshing(r)
  /\ n <= MaxSerial
  /\ store' = Put(store, t, s)
  /\ req' = Settle(r, s)
  /\ inFlight' = Without(inFlight, {t})
  /\ issued' = [issued EXCEPT ![t] =
                  [made |-> n, serial |-> n,
                   refreshToken |-> IF rotates THEN n ELSE @.refreshToken]]
  /\ UNCHANGED <<clock, providers, logins, ended>>

\* Failure, with the expiry check forgotten: the old session serves anyway.
RefreshFailedServingAnyway(r) ==
  /\ Refreshing(r)
  /\ req' = Settle(r, req[r].record)
  /\ inFlight' = Without(inFlight, {req[r].token})
  /\ UNCHANGED <<clock, providers, logins, store, issued, ended>>

\* The provider made the n-th token of t, whose answer never arrived or held
\* no access_token.  A refresh token made with it is as lost: the service keeps
\* presenting the one it has, which the provider may refuse from now on.
AnswerLost(t) ==
  /\ issued[t].made < MaxSerial
  /\ issued' = [issued EXCEPT ![t] =
                  [made |-> @.made + 1, serial |-> @.serial,
                   refreshToken |-> @.refreshToken]]

\* Failure: the old session serves while it lasts; once it has expired it is
\* dropped and everybody who waits gets a 401.  The provider refused the call,
\* or answered and the answer was lost.
RefreshFailed(r) ==
  LET t == req[r].token
      s == req[r].record
  IN
  /\ Refreshing(r)
  /\ IF IsExpired(s)
       THEN /\ store' = Without(store, {t})
            /\ req' = Without(req, WaitingOn(r))
       ELSE /\ req' = Settle(r, s)
            /\ UNCHANGED store
  /\ inFlight' = Without(inFlight, {t})
  /\ UNCHANGED issued \/ AnswerLost(t)
  /\ UNCHANGED <<clock, providers, logins, ended>>

\* The backend answered, or failed, and the response went out.
Respond(r) ==
  /\ r \in DOMAIN req
  /\ req[r].phase = "granted"
  /\ req' = Without(req, {r})
  /\ UNCHANGED <<clock, providers, logins, store, inFlight, issued, ended>>

-----------------------------------------------------------------------------
(* Ending sessions *)

\* A logout that also forgets the refresh under way, but cannot stop it.
LogoutForgettingRefresh(t) ==
  /\ t \in DOMAIN issued
  /\ store' = Without(store, {t})
  /\ inFlight' = Without(inFlight, {t})
  /\ ended' = ended \cup {t}
  /\ UNCHANGED <<clock, providers, logins, req, issued>>

\* POST /auth/logout answers 204 whether or not the session was still held.
Logout(t) ==
  /\ t \in DOMAIN issued
  /\ store' = Without(store, {t})
  /\ ended' = ended \cup {t}
  /\ UNCHANGED <<clock, providers, logins, inFlight, req, issued>>

\* DELETE /console/api/sessions/:id finds the token among the held sessions.
Revoke(t) ==
  /\ t \in DOMAIN store
  /\ store' = Without(store, {t})
  /\ ended' = ended \cup {t}
  /\ UNCHANGED <<clock, providers, logins, inFlight, req, issued>>

\* A sweep that removes what it should have kept: expired but renewable.
SweptWithRefreshToken == {t \in DOMAIN store : IsExpired(store[t])}

\* A sweep with the test of the refresh token the wrong way round.
SweptRefreshable ==
  {t \in DOMAIN store : IsExpired(store[t]) /\ store[t].refreshToken # None}

\* Expired with no refresh token: can never become valid again.
Swept ==
  {t \in DOMAIN store : IsExpired(store[t]) /\ store[t].refreshToken = None}

\* The interval timer of the store.
Sweep ==
  /\ Swept # {}
  /\ store' = Without(store, Swept)
  /\ UNCHANGED <<clock, providers, logins, inFlight, req, issued, ended>>

\* The process restarts: everything held in memory is gone.
Restart ==
  /\ logins' = {}
  /\ store' = EmptyMap
  /\ inFlight' = EmptyMap
  /\ req' = EmptyMap
  /\ ended' = DOMAIN issued
  /\ UNCHANGED <<clock, providers, issued>>

-----------------------------------------------------------------------------
(* Environment *)

Tick ==
  /\ clock < MaxClock
  /\ clock' = clock + 1
  /\ UNCHANGED <<providers, logins, store, inFlight, req, issued, ended>>

\* The console saves a provider, or a switch of workspace brings it in.
SaveProvider(p, kind) ==
  /\ providers' = Put(providers, p, kind)
  /\ UNCHANGED <<clock, logins, store, inFlight, req, issued, ended>>

\* The console deletes it, or a switch of workspace leaves it behind.  The
\* sessions it issued stay.
RemoveProvider(p) ==
  /\ p \in DOMAIN providers
  /\ providers' = Without(providers, {p})
  /\ UNCHANGED <<clock, logins, store, inFlight, req, issued, ended>>

Next ==
  \/ \E p \in Providers : StartLogin(p)
  \/ \E l \in logins, t \in Tokens, life \in Lifetimes, rt \in BOOLEAN :
       LoginAnswered(l, t, life, rt)
  \/ \E l \in logins : LoginFailed(l)
  \/ \E r \in Requests, t \in Tokens, p \in Providers :
       \/ UseAsIs(r, t, p)
       \/ ShareRefresh(r, t, p)
       \/ StartRefresh(r, t, p)
       \/ CannotRefresh(r, t, p)
  \/ \E r \in DOMAIN req, life \in Lifetimes, rotates \in BOOLEAN :
       RefreshAnswered(r, life, rotates)
  \/ \E r \in DOMAIN req : RefreshFailed(r) \/ Respond(r)
  \/ \E t \in Tokens : Logout(t) \/ Revoke(t)
  \/ Sweep
  \/ Restart
  \/ Tick
  \/ \E p \in Providers, kind \in Kinds : SaveProvider(p, kind)
  \/ \E p \in Providers : RemoveProvider(p)

Spec == Init /\ [][Next]_vars

(***************************************************************************)
(* Fairness.  A provider's answer or connection error arrives for every    *)
(* refresh call, a backend's for every request served, and the interval    *)
(* timer fires.  Nothing is assumed of callers, the console or the clock.  *)
(***************************************************************************)
SettleRefresh(r) ==
  \/ \E life \in Lifetimes, rotates \in BOOLEAN :
       RefreshAnswered(r, life, rotates)
  \/ RefreshFailed(r)

FairSpec ==
  /\ Spec
  /\ \A r \in Requests : WF_vars(SettleRefresh(r)) /\ WF_vars(Respond(r))
  /\ WF_vars(Sweep)

-----------------------------------------------------------------------------
(* Properties *)

\* A refresh call is in flight for a session exactly while refreshInFlight
\* names it, and every waiting request waits for that one call: N requests
\* for a session that is due cause one refresh (authService.ts:69-74).
SingleFlight ==
  /\ \A r \in DOMAIN req : req[r].phase = "waiting" =>
       /\ req[r].token \in DOMAIN inFlight
       /\ req[r].owner = inFlight[req[r].token]
  /\ \A t \in DOMAIN inFlight :
       Refreshing(inFlight[t]) /\ req[inFlight[t]].token = t

\* What the store holds for a session, and what a refresh of it presents and
\* merges into, is the newest backend and refresh token that ever reached the
\* service, whatever answers were lost, requests overlapped or sessions were
\* logged out and written back meanwhile: no rotation that arrived is lost, and
\* the token it replaced is not presented again (authService.ts:218-230).
NewestTokens ==
  /\ \A t \in DOMAIN store :
       /\ store[t].serial = issued[t].serial
       /\ store[t].refreshToken = issued[t].refreshToken
  /\ \A t \in DOMAIN inFlight :
       LET s == req[inFlight[t]].record IN
       /\ s.serial = issued[t].serial
       /\ s.refreshToken = issued[t].refreshToken

\* Request r gets its session in this step.
Grants(r) ==
  /\ r \in DOMAIN req'
  /\ req'[r].phase = "granted"
  /\ r \in DOMAIN req => req[r].phase = "waiting"

\* Whatever path a request took (at once, after its own refresh, after one it
\* shares, after one that failed), the backend token it gets is of the provider
\* the gateway requires, is the newest that reached the service, and has not
\* expired unless it arrived in this very step.
GrantIsSound ==
  [][\A r \in Requests : Grants(r) =>
       LET t == req'[r].token
           s == req'[r].record
       IN
       /\ s.provider = req'[r].needs
       /\ s.serial = issued'[t].serial
       /\ IsExpired(s) => issued'[t].serial > issued[t].serial]_vars

\* A session that can still serve, or could still be renewed, leaves the store
\* only because somebody ended it: not by a sweep, and by a refresh that fails
\* only once it has expired.
SessionKeptWhileUseful ==
  [][\A t \in DOMAIN store :
       (t \notin DOMAIN store' /\ t \notin ended') =>
         /\ IsExpired(store[t])
         /\ \/ store[t].refreshToken = None
            \/ t \in DOMAIN inFlight \ DOMAIN inFlight'
            \/ ~Renewable(store[t])]_vars

Status ==
  [t \in Tokens |-> IF t \notin DOMAIN issued THEN "unissued"
                    ELSE IF t \in DOMAIN store THEN "live" ELSE "ended"]

\* The detailed service implements the life a caller may rely on.
Lifecycle == INSTANCE SessionLifecycle
               WITH status <- Status, renewing <- DOMAIN inFlight

ImplementsLifecycle == Lifecycle!Spec

\* A session that was issued is not held, and no refresh call made for it is
\* waiting for its answer.
Over(t) ==
  t \in DOMAIN issued /\ t \notin DOMAIN store /\ t \notin DOMAIN inFlight

\* A session that is over never works again, whatever logins, refreshes, saves
\* of providers and restarts follow: "either way, that token now doesn't work"
\* (authRoutes.ts:80-82) is true of every logout, revocation and sweep that no
\* refresh call of the session outlives.
OverForGood == [][\A t \in Tokens : Over(t) => Over(t)']_vars

\* A logged-out, revoked or lost token never works again, refresh calls or not:
\* "either way, that token now doesn't work" (authRoutes.ts:80-82).
EndedStaysEnded == ended \cap DOMAIN store = {}

\* Every request that waits for a refresh goes on or is turned away.
WaitersSettle ==
  \A r \in Requests :
    (r \in DOMAIN req /\ req[r].phase = "waiting")
      ~> ~(r \in DOMAIN req /\ req[r].phase = "waiting")

\* A session that can never become valid again does not stay in memory for
\* ever (sessionStore.ts:31-33).
DeadSessionsSwept ==
  \A t \in Tokens :
    (t \in DOMAIN store /\ IsExpired(store[t]) /\ store[t].refreshToken = None)
      ~> (t \notin DOMAIN store)
=============================================================================
