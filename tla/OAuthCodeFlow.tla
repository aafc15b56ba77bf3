--------------------------- MODULE OAuthCodeFlow ---------------------------
(***************************************************************************)
(* The Authorization Code login: GET /auth/oauth/:provider/start and       *)
(* /callback (src/server/authRoutes.ts) over the pending-flow store        *)
(* (src/auth/oauthPendingFlowStore.ts) and the two steps of                *)
(* src/auth/oauthCodeFlow.ts.                                              *)
(*                                                                         *)
(* A request is in its own turn of the event loop; a turn ends where       *)
(* /start waits for the digest of the PKCE challenge (computed off the     *)
(* thread) and where /callback waits for the provider's token endpoint.    *)
(* The console, the clock, the sweep timer and other requests come in      *)
(* between.  Requests answered 400 that change nothing are not actions.    *)
(***************************************************************************)
EXTENDS Integers, FiniteSets, JsMaps

CONSTANTS
  States,     \* internal state values, each drawn at most once
  Callbacks,  \* /callback requests that can wait for an exchange
  Providers,  \* names of auth providers
  Apps,       \* client apps
  Urls,       \* return_to addresses
  TTL,        \* ttlMs
  MaxClock,   \* bound on the time explored
  MaxStarts   \* bound on the /start requests waiting for a digest

ASSUME OAuthAssumption ==
  TTL \in Nat /\ MaxClock \in Nat /\ MaxStarts \in Nat

\* A provider of the authorizationCode grant lists app with that return_to.
Registration == [provider: Providers, app: Apps, returnTo: Urls]

VARIABLES
  clock,       \* Date.now()
  registered,  \* the registrations of the configured providers
  starts,      \* /start requests that passed their checks and wait
  flows,       \* InMemoryOAuthPendingFlowStore.flows: state -> pending flow
  calls,       \* /callback requests waiting for the token endpoint
  born,        \* history: when each state was stored
  sessions     \* history: states whose callback minted a session

vars == <<clock, registered, starts, flows, calls, born, sessions>>

PendingFlow == [client: Registration, createdAt: Nat]

\* A callback whose flow is used up; client says where the answer will go.
Call == [state: States, client: Registration]

TypeOK ==
  /\ clock \in 0..MaxClock
  /\ registered \subseteq Registration
  /\ starts \subseteq Registration
  /\ IsMap(flows, States, PendingFlow)
  /\ IsMap(calls, Callbacks, Call)
  /\ IsMap(born, States, Nat)
  /\ sessions \subseteq States

Init ==
  /\ clock = 0
  /\ registered \in SUBSET Registration
  /\ starts = {}
  /\ flows = EmptyMap
  /\ calls = EmptyMap
  /\ born = EmptyMap
  /\ sessions = {}

-----------------------------------------------------------------------------
(* GET /auth/oauth/:provider/start *)

\* The provider, app and return_to are checked, then the digest is awaited.
StartArrives(client) ==
  /\ client \in registered
  /\ client \notin starts
  /\ Cardinality(starts) < MaxStarts
  /\ starts' = starts \cup {client}
  /\ UNCHANGED <<clock, registered, flows, calls, born, sessions>>

\* A state that is merely not pending now.
UnheldState(s) == s \notin DOMAIN flows

\* 32 random bytes: a state never drawn before.
FreshState(s) == s \notin DOMAIN born

\* The flow is stored with the age of the oldest one that is still accepted.
StartRedirectsBackdated(client, s) ==
  /\ client \in starts
  /\ FreshState(s)
  /\ starts' = starts \ {client}
  /\ flows' = Put(flows, s, [client |-> client, createdAt |-> clock - TTL])
  /\ born' = Put(born, s, clock)
  /\ UNCHANGED <<clock, registered, calls, sessions>>

\* The state is stored and the browser sent to the provider.
StartRedirects(client, s) ==
  /\ client \in starts
  /\ FreshState(s)
  /\ starts' = starts \ {client}
  /\ flows' = Put(flows, s, [client |-> client, createdAt |-> clock])
  /\ born' = Put(born, s, clock)
  /\ UNCHANGED <<clock, registered, calls, sessions>>

-----------------------------------------------------------------------------
(* GET /auth/oauth/:provider/callback *)

\* No age is ever too old.
NeverStale(s) == FALSE

Stale(s) == clock - flows[s].createdAt > TTL

\* The flow is found, is this provider's, and its app and return_to are
\* registered still.
Acceptable(s, p) ==
  /\ ~Stale(s)
  /\ flows[s].client.provider = p
  /\ flows[s].client \in registered

\* Read and deleted before anything is checked: a callback of the wrong
\* provider, too late or no longer registered uses the attempt up as well, and
\* so does one by which the provider reports an error.
CallbackRefused(s, p) ==
  /\ s \in DOMAIN flows
  /\ ~Acceptable(s, p)
  /\ flows' = Without(flows, {s})
  /\ UNCHANGED <<clock, registered, starts, calls, born, sessions>>

CallbackDenied(s, p) ==
  /\ s \in DOMAIN flows
  /\ Acceptable(s, p)
  /\ flows' = Without(flows, {s})
  /\ UNCHANGED <<clock, registered, starts, calls, born, sessions>>

CallbackExchanges(c, s, p) ==
  /\ c \notin DOMAIN calls
  /\ s \in DOMAIN flows
  /\ Acceptable(s, p)
  /\ flows' = Without(flows, {s})
  /\ calls' = Put(calls, c, [state |-> s, client |-> flows[s].client])
  /\ UNCHANGED <<clock, registered, starts, born, sessions>>

\* The token endpoint accepted the code: a session is minted whatever has
\* become of the provider meanwhile, and the browser is sent back with it.
ExchangeSucceeds(c) ==
  /\ c \in DOMAIN calls
  /\ sessions' = sessions \cup {calls[c].state}
  /\ calls' = Without(calls, {c})
  /\ UNCHANGED <<clock, registered, starts, flows, born>>

\* It refused the code or did not answer: the browser is sent back with
\* login_failed.
ExchangeFails(c) ==
  /\ c \in DOMAIN calls
  /\ calls' = Without(calls, {c})
  /\ UNCHANGED <<clock, registered, starts, flows, born, sessions>>

-----------------------------------------------------------------------------
(* Timer, restart and environment *)

\* A sweep of the flows that are exactly as old as the limit.
SweptAtLimit == {s \in DOMAIN flows : clock - flows[s].createdAt = TTL}

Swept == {s \in DOMAIN flows : Stale(s)}

Sweep ==
  /\ Swept # {}
  /\ flows' = Without(flows, Swept)
  /\ UNCHANGED <<clock, registered, starts, calls, born, sessions>>

Restart ==
  /\ starts' = {}
  /\ flows' = EmptyMap
  /\ calls' = EmptyMap
  /\ UNCHANGED <<clock, registered, born, sessions>>

Tick ==
  /\ clock < MaxClock
  /\ clock' = clock + 1
  /\ UNCHANGED <<registered, starts, flows, calls, born, sessions>>

\* The console saves or deletes a provider, or the workspace is switched.
EditProviders(now) ==
  /\ registered' = now
  /\ UNCHANGED <<clock, starts, flows, calls, born, sessions>>

Next ==
  \/ \E client \in Registration : StartArrives(client)
  \/ \E client \in starts, s \in States : StartRedirects(client, s)
  \/ \E s \in States, p \in Providers :
       \/ CallbackRefused(s, p)
       \/ CallbackDenied(s, p)
       \/ \E c \in Callbacks : CallbackExchanges(c, s, p)
  \/ \E c \in DOMAIN calls : ExchangeSucceeds(c) \/ ExchangeFails(c)
  \/ Sweep
  \/ Restart
  \/ Tick
  \/ \E now \in SUBSET Registration : EditProviders(now)

Spec == Init /\ [][Next]_vars

\* The sweep timer fires.
FairSpec == Spec /\ WF_vars(Sweep)

-----------------------------------------------------------------------------
(* Properties *)

\* The attempt of state s goes over from the store to an exchange.
Redeems(s) ==
  \E c \in DOMAIN calls' \ DOMAIN calls : calls'[c].state = s

\* An attempt is redeemed at most TTL after /start, however late the sweep.
StaleAttemptsRefused ==
  [][\A s \in States : Redeems(s) => clock - born[s] <= TTL]_vars

\* A state is stored, being exchanged, or used up, and never two of these: a
\* flow that is exchanged cannot be found again, nor exchanged beside itself.
SingleUse ==
  /\ \A c \in DOMAIN calls :
       /\ calls[c].state \notin DOMAIN flows \cup sessions
       /\ \A d \in DOMAIN calls : calls[d].state = calls[c].state => d = c
  /\ sessions \cap DOMAIN flows = {}

\* A callback waits for the exchange of state s.
Exchanging(s) == \E c \in DOMAIN calls : calls[c].state = s

Status ==
  [s \in States |-> IF s \notin DOMAIN born THEN "unstarted"
                    ELSE IF Exchanging(s) THEN "exchanging"
                    ELSE IF s \in DOMAIN flows THEN "pending" ELSE "over"]

\* The two routes implement a login that is redeemed once and yields at most
\* one session.
Attempt == INSTANCE LoginAttempt WITH status <- Status, granted <- sessions

ImplementsAttempt == Attempt!Spec

\* An attempt nobody comes back for does not stay in memory for ever
\* (oauthPendingFlowStore.ts:59-63).
AbandonedSwept ==
  \A s \in States : (s \in DOMAIN flows /\ Stale(s)) ~> (s \notin DOMAIN flows)
=============================================================================
