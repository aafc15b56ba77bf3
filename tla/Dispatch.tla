------------------------------ MODULE Dispatch ------------------------------
(***************************************************************************)
(* A request on its way through the gateway: it is matched against the     *)
(* mounted routes (mountedRouteRegistry.ts), its parameters are extracted  *)
(* (paramExtractor.ts), a session is resolved if the gateway asks for one  *)
(* (dispatch.ts), and a connector calls the backend (connectors/).  Route  *)
(* and gateways are read once, on arrival; whatever the console saves or   *)
(* switches during a wait, the request goes on with what it has read.      *)
(*                                                                         *)
(* SOAP calls share a client for each WSDL, which is fetched by the first  *)
(* of them (soap.ts).  Those who wait for it go on one after the other in  *)
(* the turn in which it arrives.  SQL calls differ from HTTP calls only in *)
(* their pools, which are the subject of SqlPools.                         *)
(*                                                                         *)
(* A request that is refused before it has to wait leaves no trace and is  *)
(* left out: no route, a missing or malformed parameter, gateways that do  *)
(* not resolve, no token.                                                  *)
(***************************************************************************)
EXTENDS Naturals, Sequences, JsMaps

CONSTANTS
  Requests,    \* requests that can be under way at a time
  Mounts,      \* the mounts of deployment.yaml: a sequence of [app, base]
  Paths,       \* method and path of a route
  Urls,        \* method and path of a request
  Matches,     \* <<base, path>> -> the requests that a mounted route matches
  Apps, Integrations, Gateways,  \* names
  Params,      \* names of parameters
  AuthToken,   \* the reserved one, __authToken
  Providers,   \* auth providers
  Addresses,   \* of backends and WSDLs
  Operations,  \* SOAP operations
  Describes,   \* WSDL -> the operations that it describes
  Configs,     \* what the console can make of the configuration
  NoGateway, NoProvider, NoAddress, NotSent

\* An input is taken from the caller's request or from the environment.
Input == [from: {"caller", "environment"}, required: BOOLEAN, default: BOOLEAN]

\* The address of an HTTP backend is missing if its URL is relative, that of a
\* SOAP backend if it is to be taken from the WSDL.
Integration ==
  [kind: {"http", "soap"}, gateway: Gateways \cup {NoGateway},
   address: Addresses \cup {NoAddress}, wsdl: Addresses \cup {NoAddress},
   operation: Operations, header: BOOLEAN, inputs: UNION {[N -> Input] : N \in SUBSET Params}]

Gateway ==
  [requires: Providers \cup {NoProvider}, common: SUBSET Params,
   base: Addresses \cup {NoAddress}, wsdl: Addresses \cup {NoAddress}]

Route == [path: Paths, integration: Integrations]

IsConfig(now) ==
  /\ IsMap(now.apps, Apps, Seq(Route))
  /\ IsMap(now.integrations, Integrations, Integration)
  /\ IsMap(now.gateways, Gateways, Gateway)

\* Resolved parameters are told apart by where they come from: the reserved one
\* from a session of some provider.
Source == {"caller", "environment", "default", "common"} \cup Providers

ASSUME DispatchAssumption ==
  /\ Mounts \in Seq([app: Apps, base: Paths])
  /\ AuthToken \in Params
  /\ Describes \in [Addresses -> SUBSET Operations]
  /\ \A now \in Configs : IsConfig(now)
  /\ NoGateway \notin Gateways /\ NoProvider \notin Providers
  /\ NoAddress \notin Addresses

VARIABLES
  config,   \* routes, integrations and gateways as they are now
  clients,  \* WSDL -> its SOAP client, or the promise of one
  req       \* requests that wait for a session, a client or a backend

vars == <<config, clients, req>>

\* What a request has read on arrival, and its parameters so far.
IsCall(call) ==
  /\ DOMAIN call = {"endpoint", "gateways", "params"}
  /\ call.endpoint \in Integration
  /\ IsMap(call.gateways, Gateways, Gateway)
  /\ IsMap(call.params, Params, Source)

\* The headers of a client and of a message are named by the requests that
\* added them.
Message == [to: Addresses \cup {NoAddress}, headers: SUBSET Requests]

Client ==
  [state: {"fetching", "ready", "failed"}, endpoint: Addresses \cup {NoAddress},
   headers: SUBSET Requests]

IsRequest(entry) ==
  /\ DOMAIN entry = {"phase", "call", "sent"}
  /\ IsCall(entry.call)
  /\ \/ entry.phase \in {"session", "client"} /\ entry.sent = NotSent
     \/ entry.phase = "backend" /\ entry.sent \in Message

TypeOK ==
  /\ config \in Configs
  /\ IsMap(clients, Addresses, Client)
  /\ DOMAIN req \subseteq Requests
  /\ \A r \in DOMAIN req : IsRequest(req[r])

Init ==
  /\ config \in Configs
  /\ clients = EmptyMap
  /\ req = EmptyMap

-----------------------------------------------------------------------------
(* Arrival *)

RoutesAt(m) ==
  IF Mounts[m].app \in DOMAIN config.apps THEN config.apps[Mounts[m].app] ELSE <<>>

\* Mount and route, by their positions, that match the request.  Unknown apps
\* and routes to unknown integrations are passed over.
Places(url) ==
  {place \in UNION {{m} \X DOMAIN RoutesAt(m) : m \in DOMAIN Mounts} :
     LET route == RoutesAt(place[1])[place[2]] IN
     /\ route.integration \in DOMAIN config.integrations
     /\ url \in Matches[Mounts[place[1]].base, route.path]}

\* The first of them serves it.
Served(url, endpoint) ==
  \E place \in Places(url) :
    /\ \A other \in Places(url) :
         \/ place[1] < other[1]
         \/ place[1] = other[1] /\ place[2] <= other[2]
    /\ endpoint = config.integrations[RoutesAt(place[1])[place[2]].integration]

\* A value was found for the parameters of given, and is of their type.
Complete(endpoint, given) ==
  /\ given \subseteq DOMAIN endpoint.inputs
  /\ \A n \in DOMAIN endpoint.inputs \ given :
       endpoint.inputs[n].required => endpoint.inputs[n].default

Extracted(endpoint, given) ==
  [n \in {p \in DOMAIN endpoint.inputs : p \in given \/ endpoint.inputs[p].default} |->
     IF n \in given THEN endpoint.inputs[n].from ELSE "default"]

\* The gateway that a call goes through, as it was on arrival.
Knows(call) == call.endpoint.gateway \in DOMAIN call.gateways

Via(call) == call.gateways[call.endpoint.gateway]

Requires(call) == IF Knows(call) THEN Via(call).requires ELSE NoProvider

-----------------------------------------------------------------------------
(* The connectors, up to their wait for the backend *)

CommonOnTop(call) ==
  LET common == IF Knows(call) THEN Via(call).common ELSE {} IN
  [n \in common \cup DOMAIN call.params |->
     IF n \in common THEN "common" ELSE call.params[n]]

\* Common parameters of the gateway lie beneath those of the request.
WithCommon(call) ==
  LET common == IF Knows(call) THEN Via(call).common ELSE {} IN
  [n \in common \cup DOMAIN call.params |->
     IF n \in DOMAIN call.params THEN call.params[n] ELSE "common"]

Wsdl(call) ==
  IF Knows(call) /\ Via(call).wsdl # NoAddress THEN Via(call).wsdl ELSE call.endpoint.wsdl

Address(call) ==
  IF call.endpoint.address # NoAddress THEN call.endpoint.address
  ELSE IF call.endpoint.kind = "soap" THEN Wsdl(call)
  ELSE IF Knows(call) THEN Via(call).base ELSE NoAddress

IsSoap(call) == call.endpoint.kind = "soap"

\* Nobody looks whether there is a WSDL.
FailsOnGateway(call) == call.endpoint.gateway # NoGateway /\ ~Knows(call)

\* The gateway is gone, or there is no WSDL.
Fails(call) ==
  \/ call.endpoint.gateway # NoGateway /\ ~Knows(call)
  \/ IsSoap(call) /\ Wsdl(call) = NoAddress

Leave(R) == req' = Without(req, R)

Wait(r, phase, call) ==
  req' = Put(req, r, [phase |-> phase, call |-> call, sent |-> NotSent])

Send(r, call, to, headers) ==
  req' = Put(req, r, [phase |-> "backend", call |-> call,
                      sent |-> [to |-> to, headers |-> headers]])

\* The endpoint is set once, with the client.
PreparedOnce(client, r, call) ==
  [client EXCEPT !.endpoint = IF @ = NoAddress THEN Address(call) ELSE @,
                 !.headers = IF call.endpoint.header THEN @ \cup {r} ELSE @]

\* The endpoint is set for every call; headers stay on the client.
Prepared(client, r, call) ==
  [client EXCEPT !.endpoint = Address(call),
                 !.headers = IF call.endpoint.header THEN @ \cup {r} ELSE @]

\* The client is there, and used in the same turn.
CallSoap(r, call) ==
  LET client == Prepared(clients[Wsdl(call)], r, call) IN
  \/ /\ call.endpoint.operation \in Describes[Wsdl(call)]
     /\ clients' = [clients EXCEPT ![Wsdl(call)] = client]
     /\ Send(r, call, client.endpoint, client.headers)
  \/ /\ call.endpoint.operation \notin Describes[Wsdl(call)]
     /\ clients' = [clients EXCEPT ![Wsdl(call)].endpoint = client.endpoint]
     /\ Leave({r})

Unfetched == [state |-> "fetching", endpoint |-> NoAddress, headers |-> {}]

\* callBackend
CallBackend(r, call) ==
  \/ /\ Fails(call)
     /\ Leave({r})
     /\ UNCHANGED clients
  \/ /\ ~Fails(call) /\ ~IsSoap(call)
     /\ Send(r, call, Address(call), {})
     /\ UNCHANGED clients
  \/ /\ ~Fails(call) /\ IsSoap(call)
     /\ Wsdl(call) \notin DOMAIN clients
     /\ clients' = Put(clients, Wsdl(call), Unfetched)
     /\ Wait(r, "client", call)
  \/ /\ ~Fails(call) /\ IsSoap(call)
     /\ Wsdl(call) \in DOMAIN clients
     /\ \/ /\ clients[Wsdl(call)].state = "fetching"
           /\ Wait(r, "client", call)
           /\ UNCHANGED clients
        \/ /\ clients[Wsdl(call)].state = "ready"
           /\ CallSoap(r, call)
        \/ /\ clients[Wsdl(call)].state = "failed"
           /\ Leave({r})
           /\ UNCHANGED clients

-----------------------------------------------------------------------------
(* Steps of a request *)

\* One that needs a session waits, if only until the store has answered.
Arrive(r, url, endpoint, given) ==
  LET call == [endpoint |-> endpoint, gateways |-> config.gateways,
               params |-> Extracted(endpoint, given)]
  IN
  /\ r \notin DOMAIN req
  /\ Served(url, endpoint)
  /\ Complete(endpoint, given)
  /\ \/ /\ Requires(call) # NoProvider
        /\ Wait(r, "session", call)
        /\ UNCHANGED clients
     \/ /\ Requires(call) = NoProvider
        /\ CallBackend(r, [call EXCEPT !.params = WithCommon(call)])
  /\ UNCHANGED config

InPhase(r, phase) == r \in DOMAIN req /\ req[r].phase = phase

\* The gateways are read again after the wait.
AuthorizedAnew(call) ==
  [call EXCEPT !.params = Put(@, AuthToken, Requires(call)), !.gateways = config.gateways]

Authorized(call) == [call EXCEPT !.params = Put(@, AuthToken, Requires(call))]

\* resolveSession gives a session of the provider it is asked for.
SessionGranted(r) ==
  LET call == Authorized(req[r].call) IN
  /\ InPhase(r, "session")
  /\ CallBackend(r, [call EXCEPT !.params = WithCommon(call)])
  /\ UNCHANGED config

SessionRefused(r) ==
  /\ InPhase(r, "session")
  /\ Leave({r})
  /\ UNCHANGED <<config, clients>>

\* The WSDL has arrived, and those who waited for the client go on.
Fetched(w) ==
  /\ clients[w].state = "fetching"
  /\ clients' = [clients EXCEPT ![w].state = "ready"]
  /\ UNCHANGED <<config, req>>

CanResume(r) ==
  InPhase(r, "client") /\ clients[Wsdl(req[r].call)].state = "ready"

Resume(r) ==
  /\ CanResume(r)
  /\ CallSoap(r, req[r].call)
  /\ UNCHANGED config

Waiting(w) == {r \in Requests : InPhase(r, "client") /\ Wsdl(req[r].call) = w}

\* It has not: those who waited are told, and the rejected promise stays where
\* it is.
FetchFails(w) ==
  /\ clients[w].state = "fetching"
  /\ clients' = [clients EXCEPT ![w].state = "failed"]
  /\ Leave(Waiting(w))
  /\ UNCHANGED config

\* The backend answers, with a result that is mapped or with an error, or it
\* does not in time; in every case the caller gets an answer.
Answered(r) ==
  /\ InPhase(r, "backend")
  /\ Leave({r})
  /\ UNCHANGED <<config, clients>>

-----------------------------------------------------------------------------
(* What else happens *)

\* A save, reload or switch.
Edit(now) ==
  /\ config' = now
  /\ UNCHANGED <<clients, req>>

Restart ==
  /\ clients' = EmptyMap
  /\ req' = EmptyMap
  /\ UNCHANGED config

\* Those who waited for a client go on in one turn.
Turn == \A r \in Requests : ~CanResume(r)

Next ==
  \/ \E r \in Requests : Resume(r)
  \/ /\ Turn
     /\ \/ \E r \in Requests, url \in Urls, given \in SUBSET Params,
             i \in DOMAIN config.integrations :
             Arrive(r, url, config.integrations[i], given)
        \/ \E r \in Requests : SessionGranted(r) \/ SessionRefused(r) \/ Answered(r)
        \/ \E w \in DOMAIN clients : Fetched(w) \/ FetchFails(w)
        \/ \E now \in Configs : Edit(now)
  \/ Restart

Spec == Init /\ [][Next]_vars

-----------------------------------------------------------------------------
(* Properties *)

\* A call through a gateway that requires a provider carries the token of a
\* session of that provider, and not what the caller, the environment, a
\* default or the gateway's common parameters give under the reserved name
\* (dispatch.ts:43-60).
AuthorizedCall ==
  \A r \in DOMAIN req : req[r].phase # "session" =>
    LET call == req[r].call IN
    Requires(call) # NoProvider =>
      AuthToken \in DOMAIN call.params /\ call.params[AuthToken] = Requires(call)

\* A call goes to the address of its own configuration and carries its own
\* headers, although SOAP calls share a client that each of them changes.
SentAsOwn ==
  \A r \in DOMAIN req : req[r].phase = "backend" =>
    LET call == req[r].call IN
    /\ req[r].sent.to = Address(call)
    /\ IsSoap(call) /\ call.endpoint.header => r \in req[r].sent.headers

\* Phases in the order in which a request goes through them.
Rank(phase) ==
  CASE phase = "session" -> 1 [] phase = "client" -> 2 [] phase = "backend" -> 3

\* A request that is as entry before and as later after a step is where it was
\* or further on, with the endpoint and gateways that it read on arrival and
\* every parameter that it had; only the reserved one may be replaced, by the
\* token of a session.  Once sent it does not change at all.
Follows(entry, later) ==
  /\ Rank(entry.phase) <= Rank(later.phase)
  /\ later.call.endpoint = entry.call.endpoint
  /\ later.call.gateways = entry.call.gateways
  /\ \A n \in DOMAIN entry.call.params :
       /\ n \in DOMAIN later.call.params
       /\ n # AuthToken => later.call.params[n] = entry.call.params[n]
  /\ entry.phase = "backend" => later = entry

\* However the console edits routes, integrations and gateways meanwhile, a
\* request is served under the one configuration it read on arrival
\* (dispatch.ts:33-41), and a SOAP client it shares changes nothing of it.
OneConfiguration ==
  [][\A r \in DOMAIN req \cap DOMAIN req' : Follows(req[r], req'[r])]_vars
=============================================================================
