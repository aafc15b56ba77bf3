--------------------------- MODULE DispatchProofs ---------------------------
(***************************************************************************)
(* Requests for any number of them, any mounts, configurations, WSDLs and  *)
(* parameters.  The properties speak of one request at a time, and what    *)
(* one request does to another goes through the shared clients only: IInv  *)
(* says that every request under way is sound for the clients as they are, *)
(* and it is enough that no step takes a client away or changes its state  *)
(* under a request that waits for it.                                      *)
(***************************************************************************)
EXTENDS Dispatch, TLAPS

\* A new Map holds nothing, of whatever type.
LEMMA EmptyMapType ==
  ASSUME NEW K, NEW V
  PROVE  IsMap(EmptyMap, K, V) /\ DOMAIN EmptyMap = {}
  BY DEF IsMap, EmptyMap

\* set keeps the type of a Map.
LEMMA PutType ==
  ASSUME NEW K, NEW V, NEW m, NEW k \in K, NEW v \in V, IsMap(m, K, V)
  PROVE  IsMap(Put(m, k, v), K, V)
  BY DEF IsMap, Put

\* A call that has come to the connectors.
Proper(call) ==
  /\ IsCall(call)
  /\ Requires(call) # NoProvider =>
       AuthToken \in DOMAIN call.params /\ call.params[AuthToken] = Requires(call)

Sound(r, entry, shared) ==
  /\ IsRequest(entry)
  /\ IF entry.phase = "session" THEN Requires(entry.call) # NoProvider ELSE Proper(entry.call)
  /\ entry.phase = "backend" =>
       /\ entry.sent.to = Address(entry.call)
       /\ IsSoap(entry.call) /\ entry.call.endpoint.header => r \in entry.sent.headers
  /\ entry.phase = "client" =>
       /\ Wsdl(entry.call) \in DOMAIN shared
       /\ shared[Wsdl(entry.call)].state \in {"fetching", "ready"}

IInv ==
  /\ config \in Configs
  /\ IsMap(clients, Addresses, Client)
  /\ DOMAIN req \subseteq Requests
  /\ \A r \in DOMAIN req : Sound(r, req[r], clients)

\* Clients stay, and stay as they are but for endpoint and headers.
Keeps(before, after) ==
  /\ IsMap(after, Addresses, Client)
  /\ \A w \in DOMAIN before : w \in DOMAIN after /\ after[w].state = before[w].state

-----------------------------------------------------------------------------
(* Frames *)

LEMMA SoundStays ==
  ASSUME NEW r, NEW entry, NEW before, NEW after,
         Sound(r, entry, before), Keeps(before, after)
  PROVE  Sound(r, entry, after)
  BY DEF Sound, Keeps

LEMMA EntryIsSound ==
  ASSUME IInv, NEW r \in Requests, NEW entry, config' \in Configs,
         req' = Put(req, r, entry), Keeps(clients, clients'), Sound(r, entry, clients')
  PROVE  IInv'
<1>1. DOMAIN req' = DOMAIN req \cup {r} /\ req'[r] = entry
      /\ \A s \in DOMAIN req : s # r => req'[s] = req[s]
  BY DEF Put
<1>2. ASSUME NEW s \in DOMAIN req' PROVE Sound(s, req'[s], clients')
  <2>1. CASE s = r
    BY <1>1, <2>1
  <2>2. CASE s # r
    BY <1>1, <2>2, SoundStays DEF IInv
  <2> QED BY <2>1, <2>2
<1>3. DOMAIN req' \subseteq Requests /\ IsMap(clients', Addresses, Client)
  BY <1>1 DEF IInv, Keeps
<1> QED BY <1>2, <1>3 DEF IInv, Sound, IsRequest, IsCall, Proper, Requires, Knows, Via, Address, IsSoap, Wsdl

LEMMA LeavingIsSound ==
  ASSUME IInv, NEW R, config' \in Configs, req' = Without(req, R),
         Keeps(clients, clients')
  PROVE  IInv'
<1>1. DOMAIN req' = DOMAIN req \ R /\ \A s \in DOMAIN req' : req'[s] = req[s]
  BY DEF Without, Restrict
<1>2. \A s \in DOMAIN req' : Sound(s, req'[s], clients')
  BY <1>1, SoundStays DEF IInv
<1>3. DOMAIN req' \subseteq Requests /\ IsMap(clients', Addresses, Client)
  BY <1>1 DEF IInv, Keeps
<1> QED BY <1>2, <1>3 DEF IInv

-----------------------------------------------------------------------------
(* Calls *)

\* The gateways of a call and what it has read have their types.
LEMMA CallParts ==
  ASSUME NEW call, IsCall(call)
  PROVE  /\ call.endpoint \in Integration
         /\ Knows(call) => Via(call) \in Gateway
         /\ Requires(call) \in Providers \cup {NoProvider}
         /\ Wsdl(call) \in Addresses \cup {NoAddress}
         /\ Address(call) \in Addresses \cup {NoAddress}
<1>1. call.endpoint \in Integration
  BY DEF IsCall
<1>2. Knows(call) => Via(call) \in Gateway
  BY DEF IsCall, IsMap, Knows, Via
<1>3. Requires(call) \in Providers \cup {NoProvider}
  BY <1>2 DEF Requires, Gateway
<1>4. Wsdl(call) \in Addresses \cup {NoAddress}
  BY <1>1, <1>2 DEF Wsdl, Gateway, Integration
<1>5. Address(call) \in Addresses \cup {NoAddress}
  BY <1>1, <1>2, <1>4 DEF Address, Gateway, Integration
<1> QED BY <1>1, <1>2, <1>3, <1>4, <1>5

\* Parameters do not decide on the gateway.
LEMMA OtherParams ==
  ASSUME NEW call, IsCall(call), NEW params, IsMap(params, Params, Source)
  PROVE  LET other == [call EXCEPT !.params = params] IN
         /\ IsCall(other)
         /\ other.params = params
         /\ Requires(other) = Requires(call)
  BY DEF IsCall, Requires, Knows, Via

\* Common parameters have their type, and leave those of the request alone.
LEMMA CommonBeneath ==
  ASSUME NEW call, IsCall(call)
  PROVE  /\ IsMap(WithCommon(call), Params, Source)
         /\ \A n \in DOMAIN call.params :
              n \in DOMAIN WithCommon(call) /\ WithCommon(call)[n] = call.params[n]
<1> DEFINE common == IF Knows(call) THEN Via(call).common ELSE {}
<1>1. common \subseteq Params
  BY CallParts DEF Gateway
<1>2. WithCommon(call) = [n \in common \cup DOMAIN call.params |->
                           IF n \in DOMAIN call.params THEN call.params[n] ELSE "common"]
  BY DEF WithCommon
<1>3. IsMap(call.params, Params, Source) /\ "common" \in Source
  BY DEF IsCall, Source
<1> HIDE DEF common
<1> QED BY <1>1, <1>2, <1>3 DEF IsMap

\* Whoever needs no session comes to the connectors as it is,
LEMMA OpenIsProper ==
  ASSUME NEW call, IsCall(call), Requires(call) = NoProvider
  PROVE  Proper([call EXCEPT !.params = WithCommon(call)])
  BY CommonBeneath, OtherParams DEF Proper

\* and whoever has got one with its token.
LEMMA AuthorizedIsProper ==
  ASSUME NEW call, IsCall(call), Requires(call) # NoProvider
  PROVE  LET given == Authorized(call) IN
         Proper([given EXCEPT !.params = WithCommon(given)])
<1> DEFINE given == Authorized(call)
<1>1. Requires(call) \in Source /\ AuthToken \in Params
  BY CallParts, DispatchAssumption DEF Source
<1>2. IsMap(call.params, Params, Source)
  BY DEF IsCall
<1>3. IsMap(Put(call.params, AuthToken, Requires(call)), Params, Source)
  BY <1>1, <1>2, PutType
<1>4. given = [call EXCEPT !.params = Put(call.params, AuthToken, Requires(call))]
  BY DEF Authorized
<1>5. /\ IsCall(given)
      /\ given.params = Put(call.params, AuthToken, Requires(call))
      /\ Requires(given) = Requires(call)
  BY <1>3, <1>4, OtherParams
<1>6. AuthToken \in DOMAIN given.params /\ given.params[AuthToken] = Requires(call)
  BY <1>5 DEF Put
<1> HIDE DEF given
<1>7. /\ IsMap(WithCommon(given), Params, Source)
      /\ AuthToken \in DOMAIN WithCommon(given)
      /\ WithCommon(given)[AuthToken] = Requires(call)
  BY <1>5, <1>6, CommonBeneath
<1>8. Proper([given EXCEPT !.params = WithCommon(given)])
  BY <1>5, <1>7, OtherParams DEF Proper
<1> QED BY <1>8 DEF given

-----------------------------------------------------------------------------
(* The connectors *)

\* A client that is changed but for its state keeps everybody sound.
LEMMA ClientChanges ==
  ASSUME IInv, NEW w \in DOMAIN clients, NEW client \in Client,
         client.state = clients[w].state, clients' = [clients EXCEPT ![w] = client]
  PROVE  Keeps(clients, clients')
  BY DEF IInv, Keeps, IsMap

LEMMA ClientsUnchanged ==
  ASSUME IInv, UNCHANGED clients
  PROVE  Keeps(clients, clients')
  BY DEF IInv, Keeps

LEMMA CallSoapKeeps ==
  ASSUME IInv, NEW r \in Requests, NEW call, Proper(call),
         Wsdl(call) \in DOMAIN clients, config' \in Configs, CallSoap(r, call)
  PROVE  IInv'
<1> DEFINE w == Wsdl(call)
           client == Prepared(clients[w], r, call)
<1>1. clients[w] \in Client /\ call.endpoint \in Integration
      /\ Address(call) \in Addresses \cup {NoAddress}
  BY CallParts DEF IInv, IsMap, Proper
<1>2. /\ client \in Client
      /\ client.state = clients[w].state
      /\ client.endpoint = Address(call)
      /\ call.endpoint.header => r \in client.headers
  BY <1>1 DEF Prepared, Client
<1>3. CASE /\ clients' = [clients EXCEPT ![w] = client]
           /\ Send(r, call, client.endpoint, client.headers)
  <2> DEFINE entry == [phase |-> "backend", call |-> call,
                       sent |-> [to |-> client.endpoint, headers |-> client.headers]]
  <2>1. Keeps(clients, clients')
    BY <1>2, <1>3, ClientChanges
  <2>2. entry.sent \in Message
    BY <1>2 DEF Client, Message
  <2>3. IsRequest(entry)
    BY <2>2 DEF IsRequest, Proper
  <2>4. Sound(r, entry, clients')
    BY <1>2, <2>3 DEF Sound
  <2>5. req' = Put(req, r, entry)
    BY <1>3 DEF Send
  <2> HIDE DEF entry
  <2> QED BY <2>1, <2>4, <2>5, EntryIsSound
<1>4. CASE /\ clients' = [clients EXCEPT ![w].endpoint = client.endpoint]
           /\ Leave({r})
  <2> DEFINE changed == [clients[w] EXCEPT !.endpoint = client.endpoint]
  <2>1. changed \in Client /\ changed.state = clients[w].state
    BY <1>1, <1>2 DEF Client
  <2>2. clients' = [clients EXCEPT ![w] = changed]
    BY <1>4
  <2>3. Keeps(clients, clients')
    BY <2>1, <2>2, ClientChanges
  <2> QED BY <1>4, <2>3, LeavingIsSound DEF Leave
<1> QED BY <1>3, <1>4 DEF CallSoap

LEMMA CallBackendKeeps ==
  ASSUME IInv, NEW r \in Requests, NEW call, Proper(call), config' \in Configs,
         CallBackend(r, call)
  PROVE  IInv'
<1> DEFINE w == Wsdl(call)
           waits == [phase |-> "client", call |-> call, sent |-> NotSent]
<1>1. IsRequest(waits)
  BY DEF IsRequest, Proper
<1>2. ASSUME w \in DOMAIN clients', clients'[w].state \in {"fetching", "ready"}
      PROVE  Sound(r, waits, clients')
  BY <1>1, <1>2 DEF Sound
<1>3. CASE Leave({r}) /\ UNCHANGED clients
  BY <1>3, ClientsUnchanged, LeavingIsSound DEF Leave
<1>4. CASE ~IsSoap(call) /\ Send(r, call, Address(call), {}) /\ UNCHANGED clients
  <2> DEFINE entry == [phase |-> "backend", call |-> call,
                       sent |-> [to |-> Address(call), headers |-> {}]]
  <2>1. entry.sent \in Message
    BY CallParts DEF Message, Proper
  <2>2. IsRequest(entry)
    BY <2>1 DEF IsRequest, Proper
  <2>3. Sound(r, entry, clients')
    BY <1>4, <2>2 DEF Sound
  <2>4. req' = Put(req, r, entry)
    BY <1>4 DEF Send
  <2> HIDE DEF entry
  <2> QED BY <1>4, <2>3, <2>4, ClientsUnchanged, EntryIsSound
<1>5. CASE /\ ~Fails(call) /\ IsSoap(call) /\ w \notin DOMAIN clients
           /\ clients' = Put(clients, w, Unfetched) /\ Wait(r, "client", call)
  <2>1. w \in Addresses /\ Unfetched \in Client
    BY <1>5, CallParts DEF Fails, Proper, Unfetched, Client
  <2>2. IsMap(clients', Addresses, Client)
    BY <1>5, <2>1, PutType DEF IInv
  <2>3. /\ w \in DOMAIN clients' /\ clients'[w].state = "fetching"
        /\ \A v \in DOMAIN clients : v \in DOMAIN clients' /\ clients'[v] = clients[v]
    BY <1>5 DEF Put, Unfetched
  <2>4. Keeps(clients, clients')
    BY <2>2, <2>3 DEF Keeps
  <2>5. req' = Put(req, r, waits)
    BY <1>5 DEF Wait
  <2> HIDE DEF waits
  <2> QED BY <1>2, <2>3, <2>4, <2>5, EntryIsSound
<1>6. CASE /\ w \in DOMAIN clients /\ clients[w].state = "fetching"
           /\ Wait(r, "client", call) /\ UNCHANGED clients
  <2>1. req' = Put(req, r, waits)
    BY <1>6 DEF Wait
  <2> HIDE DEF waits
  <2> QED BY <1>2, <1>6, <2>1, ClientsUnchanged, EntryIsSound
<1>7. CASE w \in DOMAIN clients /\ CallSoap(r, call)
  BY <1>7, CallSoapKeeps
<1> QED BY <1>3, <1>4, <1>5, <1>6, <1>7 DEF CallBackend

-----------------------------------------------------------------------------
(* The steps *)

\* What a request reads on arrival has its types.
LEMMA ArrivesTyped ==
  ASSUME IInv, NEW endpoint \in Integration, NEW given
  PROVE  IsCall([endpoint |-> endpoint, gateways |-> config.gateways,
                 params |-> Extracted(endpoint, given)])
<1>1. IsMap(config.gateways, Gateways, Gateway)
  BY DispatchAssumption DEF IInv, IsConfig
<1>2. PICK N \in SUBSET Params : endpoint.inputs \in [N -> Input]
  BY DEF Integration
<1>3. \A n \in N : endpoint.inputs[n].from \in Source /\ "default" \in Source
  BY <1>2 DEF Input, Source
<1>4. IsMap(Extracted(endpoint, given), Params, Source)
  BY <1>2, <1>3 DEF Extracted, IsMap
<1> QED BY <1>1, <1>4 DEF IsCall

LEMMA ArriveKeeps ==
  ASSUME IInv, NEW r \in Requests, NEW url, NEW i \in DOMAIN config.integrations,
         NEW given, Arrive(r, url, config.integrations[i], given)
  PROVE  IInv'
<1> DEFINE call == [endpoint |-> config.integrations[i], gateways |-> config.gateways,
                    params |-> Extracted(config.integrations[i], given)]
<1>1. config.integrations[i] \in Integration
  BY DispatchAssumption DEF IInv, IsConfig, IsMap
<1>2. IsCall(call)
  BY <1>1, ArrivesTyped
<1>3. config' \in Configs
  BY DEF Arrive, IInv
<1>4. \/ /\ Requires(call) # NoProvider
         /\ Wait(r, "session", call) /\ UNCHANGED clients
      \/ /\ Requires(call) = NoProvider
         /\ CallBackend(r, [call EXCEPT !.params = WithCommon(call)])
  BY DEF Arrive
<1> HIDE DEF call
<1>5. CASE /\ Requires(call) # NoProvider
           /\ Wait(r, "session", call) /\ UNCHANGED clients
  <2> DEFINE entry == [phase |-> "session", call |-> call, sent |-> NotSent]
  <2>1. Sound(r, entry, clients')
    BY <1>2, <1>5 DEF Sound, IsRequest
  <2>2. req' = Put(req, r, entry)
    BY <1>5 DEF Wait
  <2> HIDE DEF entry
  <2> QED BY <1>3, <1>5, <2>1, <2>2, ClientsUnchanged, EntryIsSound
<1>6. CASE /\ Requires(call) = NoProvider
           /\ CallBackend(r, [call EXCEPT !.params = WithCommon(call)])
  <2>1. Proper([call EXCEPT !.params = WithCommon(call)])
    BY <1>2, <1>6, OpenIsProper
  <2> QED BY <1>3, <1>6, <2>1, CallBackendKeeps
<1> QED BY <1>4, <1>5, <1>6

LEMMA SessionGrantedKeeps ==
  ASSUME IInv, NEW r \in Requests, SessionGranted(r)
  PROVE  IInv'
<1> DEFINE call == Authorized(req[r].call)
<1>1. IsCall(req[r].call) /\ Requires(req[r].call) # NoProvider
  BY DEF IInv, Sound, IsRequest, SessionGranted, InPhase
<1>2. Proper([call EXCEPT !.params = WithCommon(call)])
  BY <1>1, AuthorizedIsProper
<1>3. CallBackend(r, [call EXCEPT !.params = WithCommon(call)]) /\ config' \in Configs
  BY DEF SessionGranted, IInv
<1> HIDE DEF call
<1> QED BY <1>2, <1>3, CallBackendKeeps

LEMMA ResumeKeeps ==
  ASSUME IInv, NEW r \in Requests, Resume(r)
  PROVE  IInv'
<1>1. Proper(req[r].call) /\ Wsdl(req[r].call) \in DOMAIN clients
  BY DEF IInv, Sound, IsRequest, Resume, CanResume, InPhase
<1>2. CallSoap(r, req[r].call) /\ config' \in Configs
  BY DEF Resume, IInv
<1> QED BY <1>1, <1>2, CallSoapKeeps

LEMMA LeaveKeeps ==
  ASSUME IInv, NEW r \in Requests, SessionRefused(r) \/ Answered(r)
  PROVE  IInv'
  BY ClientsUnchanged, LeavingIsSound DEF SessionRefused, Answered, Leave, IInv

\* The state of a client has changed, and all clients have their type.
LEMMA StateChanges ==
  ASSUME IInv, NEW w \in DOMAIN clients, NEW state \in {"fetching", "ready", "failed"},
         clients' = [clients EXCEPT ![w].state = state]
  PROVE  /\ IsMap(clients', Addresses, Client)
         /\ DOMAIN clients' = DOMAIN clients
         /\ clients'[w].state = state
         /\ \A v \in DOMAIN clients : v # w => clients'[v].state = clients[v].state
<1> DEFINE changed == [clients[w] EXCEPT !.state = state]
<1>1. clients[w] \in Client
  BY DEF IInv, IsMap
<1>2. changed \in Client /\ changed.state = state
  BY <1>1 DEF Client
<1>3. clients' = [clients EXCEPT ![w] = changed]
  OBVIOUS
<1> HIDE DEF changed
<1> QED BY <1>2, <1>3 DEF IInv, IsMap

LEMMA FetchedKeeps ==
  ASSUME IInv, NEW w \in DOMAIN clients, Fetched(w)
  PROVE  IInv'
<1>1. /\ IsMap(clients', Addresses, Client)
      /\ DOMAIN clients' = DOMAIN clients
      /\ clients'[w].state = "ready"
      /\ \A v \in DOMAIN clients : v # w => clients'[v].state = clients[v].state
  BY StateChanges DEF Fetched
<1>2. req' = req /\ config' = config
  BY DEF Fetched
<1>3. ASSUME NEW r \in DOMAIN req PROVE Sound(r, req[r], clients')
  BY <1>1 DEF IInv, Sound
<1> QED BY <1>1, <1>2, <1>3 DEF IInv

LEMMA FetchFailsKeeps ==
  ASSUME IInv, NEW w \in DOMAIN clients, FetchFails(w)
  PROVE  IInv'
<1>1. /\ IsMap(clients', Addresses, Client)
      /\ DOMAIN clients' = DOMAIN clients
      /\ \A v \in DOMAIN clients : v # w => clients'[v].state = clients[v].state
  BY StateChanges DEF FetchFails
<1>2. DOMAIN req' = DOMAIN req \ Waiting(w) /\ \A r \in DOMAIN req' : req'[r] = req[r]
  BY DEF FetchFails, Leave, Waiting, Without, Restrict
<1>3. ASSUME NEW r \in DOMAIN req' PROVE Sound(r, req'[r], clients')
  <2>1. Sound(r, req[r], clients) /\ r \in Requests /\ r \in DOMAIN req
    BY <1>2, <1>3 DEF IInv
  <2>2. req[r].phase = "client" => Wsdl(req[r].call) # w
    BY <1>2, <1>3, <2>1 DEF Waiting, InPhase
  <2>3. Sound(r, req[r], clients')
    BY <1>1, <2>1, <2>2 DEF Sound
  <2> QED BY <1>2, <1>3, <2>3
<1>4. config' \in Configs /\ DOMAIN req' \subseteq Requests
  BY <1>2 DEF FetchFails, IInv
<1> QED BY <1>1, <1>3, <1>4 DEF IInv

LEMMA EditKeeps ==
  ASSUME IInv, NEW now \in Configs, Edit(now)
  PROVE  IInv'
  BY DEF IInv, Edit

LEMMA RestartKeeps ==
  ASSUME IInv, Restart
  PROVE  IInv'
  BY EmptyMapType DEF IInv, Restart

-----------------------------------------------------------------------------
(* The theorems *)

\* Every request is sound in every state, from which the rest follows.
THEOREM EveryRequestSound == Spec => []IInv
<1>1. Init => IInv
  BY EmptyMapType DEF Init, IInv
<1>2. IInv /\ [Next]_vars => IInv'
  <2> SUFFICES ASSUME IInv, [Next]_vars PROVE IInv'
    OBVIOUS
  <2>1. CASE \E r \in Requests : Resume(r)
    BY <2>1, ResumeKeeps
  <2>2. CASE \E r \in Requests, url \in Urls, given \in SUBSET Params,
                i \in DOMAIN config.integrations :
                Arrive(r, url, config.integrations[i], given)
    BY <2>2, ArriveKeeps
  <2>3. CASE \E r \in Requests : SessionGranted(r) \/ SessionRefused(r) \/ Answered(r)
    BY <2>3, SessionGrantedKeeps, LeaveKeeps
  <2>4. CASE \E w \in DOMAIN clients : Fetched(w) \/ FetchFails(w)
    BY <2>4, FetchedKeeps, FetchFailsKeeps
  <2>5. CASE \E now \in Configs : Edit(now)
    BY <2>5, EditKeeps
  <2>6. CASE Restart
    BY <2>6, RestartKeeps
  <2>7. CASE UNCHANGED vars
    BY <2>7 DEF IInv, vars
  <2> QED BY <2>1, <2>2, <2>3, <2>4, <2>5, <2>6, <2>7 DEF Next
<1> QED BY <1>1, <1>2, PTL DEF Spec

\* Every state of the data plane is well typed (dispatch.ts, soap.ts).
THEOREM TypeCorrect == Spec => []TypeOK
<1>1. IInv => TypeOK
  BY DEF IInv, TypeOK, Sound
<1> QED BY <1>1, EveryRequestSound, PTL

\* No call through a gateway that requires a provider goes without the token
\* of a session of that provider, whatever parameters the endpoint and the
\* gateway declare (dispatch.ts:43-63, connectors/index.ts:38-44).
THEOREM OnlyAuthorized == Spec => []AuthorizedCall
<1>1. IInv => AuthorizedCall
  BY DEF IInv, AuthorizedCall, Sound, Proper
<1> QED BY <1>1, EveryRequestSound, PTL

\* Calls that share a SOAP client each go to their own endpoint with their own
\* headers, for any number of them (soap.ts:37-57).
THEOREM NobodySendsForAnother == Spec => []SentAsOwn
<1>1. IInv => SentAsOwn
  BY DEF IInv, SentAsOwn, Sound
<1> QED BY <1>1, EveryRequestSound, PTL

-----------------------------------------------------------------------------
(***************************************************************************)
(* What a step may not do to a request under way.                          *)
(***************************************************************************)

LEMMA FollowsItself ==
  ASSUME NEW entry, IsRequest(entry) PROVE Follows(entry, entry)
  BY DEF Follows, IsRequest, Rank

LEMMA LeavingFollows ==
  ASSUME IInv, NEW R, req' = Without(req, R) \/ req' = req,
         NEW r \in DOMAIN req \cap DOMAIN req'
  PROVE  Follows(req[r], req'[r])
<1>1. req'[r] = req[r] /\ IsRequest(req[r])
  BY DEF Without, Restrict, IInv, Sound
<1> QED BY <1>1, FollowsItself

LEMMA EntryFollows ==
  ASSUME IInv, NEW r, NEW entry, req' = Put(req, r, entry),
         r \in DOMAIN req => Follows(req[r], entry),
         NEW s \in DOMAIN req \cap DOMAIN req'
  PROVE  Follows(req[s], req'[s])
<1>1. CASE s = r
  BY <1>1 DEF Put
<1>2. CASE s # r
  <2>1. req'[s] = req[s] /\ IsRequest(req[s])
    BY <1>2 DEF Put, IInv, Sound
  <2> QED BY <2>1, FollowsItself
<1> QED BY <1>1, <1>2

\* What a connector leaves behind: nothing, or the request with its call.
Proceeds(r, call, phases) ==
  \/ req' = Without(req, {r})
  \/ \E entry : /\ req' = Put(req, r, entry)
                /\ entry.call = call
                /\ entry.phase \in phases

LEMMA CallSoapProceeds ==
  ASSUME NEW r, NEW call, CallSoap(r, call)
  PROVE  Proceeds(r, call, {"backend"})
<1>1. ASSUME NEW to, NEW headers, Send(r, call, to, headers)
      PROVE  Proceeds(r, call, {"backend"})
  BY <1>1 DEF Send, Proceeds
<1>2. ASSUME Leave({r}) PROVE Proceeds(r, call, {"backend"})
  BY <1>2 DEF Leave, Proceeds
<1> QED BY <1>1, <1>2 DEF CallSoap

LEMMA CallBackendProceeds ==
  ASSUME NEW r, NEW call, CallBackend(r, call)
  PROVE  Proceeds(r, call, {"client", "backend"})
<1> DEFINE Goal == Proceeds(r, call, {"client", "backend"})
<1>1. ASSUME NEW to, NEW headers, Send(r, call, to, headers) PROVE Goal
  BY <1>1 DEF Send, Proceeds
<1>2. ASSUME Leave({r}) PROVE Goal
  BY <1>2 DEF Leave, Proceeds
<1>3. ASSUME Wait(r, "client", call) PROVE Goal
  BY <1>3 DEF Wait, Proceeds
<1>4. ASSUME CallSoap(r, call) PROVE Goal
  BY <1>4, CallSoapProceeds DEF Proceeds
<1> HIDE DEF Goal
<1>5. Goal
  BY <1>1, <1>2, <1>3, <1>4 DEF CallBackend
<1> QED BY <1>5 DEF Goal

LEMMA SessionFollows ==
  ASSUME IInv, NEW r \in Requests, SessionGranted(r),
         NEW s \in DOMAIN req \cap DOMAIN req'
  PROVE  Follows(req[s], req'[s])
<1> DEFINE given == Authorized(req[r].call)
           call == [given EXCEPT !.params = WithCommon(given)]
<1>1. /\ req[r].phase = "session" /\ IsCall(req[r].call)
      /\ Requires(req[r].call) # NoProvider
  BY DEF IInv, Sound, IsRequest, SessionGranted, InPhase
<1>2. Requires(req[r].call) \in Source /\ AuthToken \in Params
  BY <1>1, CallParts, DispatchAssumption DEF Source
<1>3. /\ IsCall(given)
      /\ given.params = Put(req[r].call.params, AuthToken, Requires(req[r].call))
      /\ given.endpoint = req[r].call.endpoint
      /\ given.gateways = req[r].call.gateways
  <2>1. IsMap(Put(req[r].call.params, AuthToken, Requires(req[r].call)), Params, Source)
    BY <1>1, <1>2, PutType DEF IsCall
  <2> QED BY <1>1, <2>1, OtherParams DEF Authorized, IsCall
<1>4. /\ call.params = WithCommon(given)
      /\ call.endpoint = given.endpoint
      /\ call.gateways = given.gateways
  BY <1>3 DEF IsCall
<1>5. \A n \in DOMAIN req[r].call.params :
        /\ n \in DOMAIN call.params
        /\ n # AuthToken => call.params[n] = req[r].call.params[n]
  <2>1. \A n \in DOMAIN given.params :
          n \in DOMAIN call.params /\ call.params[n] = given.params[n]
    BY <1>3, <1>4, CommonBeneath
  <2>2. \A n \in DOMAIN req[r].call.params :
          /\ n \in DOMAIN given.params
          /\ n # AuthToken => given.params[n] = req[r].call.params[n]
    BY <1>3 DEF Put
  <2> HIDE DEF given, call
  <2> QED BY <2>1, <2>2
<1>6. Proceeds(r, call, {"client", "backend"})
  BY CallBackendProceeds DEF SessionGranted
<1> HIDE DEF given, call
<1>7. ASSUME NEW entry, entry.call = call, entry.phase \in {"client", "backend"}
      PROVE  Follows(req[r], entry)
  BY <1>1, <1>3, <1>4, <1>5, <1>7 DEF Follows, Rank
<1> QED BY <1>6, <1>7, LeavingFollows, EntryFollows DEF Proceeds

LEMMA ResumeFollows ==
  ASSUME IInv, NEW r \in Requests, Resume(r),
         NEW s \in DOMAIN req \cap DOMAIN req'
  PROVE  Follows(req[s], req'[s])
<1>1. Proceeds(r, req[r].call, {"backend"}) /\ req[r].phase = "client"
  BY CallSoapProceeds DEF Resume, CanResume, InPhase
<1>2. ASSUME NEW entry, entry.call = req[r].call, entry.phase = "backend"
      PROVE  Follows(req[r], entry)
  BY <1>1, <1>2 DEF Follows, Rank
<1> QED BY <1>1, <1>2, LeavingFollows, EntryFollows DEF Proceeds

LEMMA ArriveFollows ==
  ASSUME IInv, NEW r, NEW url, NEW endpoint, NEW given,
         Arrive(r, url, endpoint, given),
         NEW s \in DOMAIN req \cap DOMAIN req'
  PROVE  Follows(req[s], req'[s])
<1>1. r \notin DOMAIN req
  BY DEF Arrive
<1>2. ASSUME NEW call, Wait(r, "session", call) PROVE Follows(req[s], req'[s])
  BY <1>1, <1>2, EntryFollows DEF Wait
<1>3. ASSUME NEW call, CallBackend(r, call) PROVE Follows(req[s], req'[s])
  BY <1>1, <1>3, CallBackendProceeds, LeavingFollows, EntryFollows DEF Proceeds
<1> QED BY <1>2, <1>3 DEF Arrive

\* OneConfiguration: edits and switches do not reach a request under way.
THEOREM RequestsGoOn == Spec => OneConfiguration
<1>1. ASSUME IInv, [Next]_vars, NEW r \in DOMAIN req \cap DOMAIN req'
      PROVE  Follows(req[r], req'[r])
  <2>1. ASSUME NEW R, req' = Without(req, R) \/ req' = req
        PROVE  Follows(req[r], req'[r])
    BY <1>1, <2>1, LeavingFollows
  <2>2. ASSUME Restart PROVE FALSE
    BY <1>1, <2>2, EmptyMapType DEF Restart
  <2> QED
    BY <1>1, <2>1, <2>2, SessionFollows, ResumeFollows, ArriveFollows
       DEF Next, vars, SessionRefused, Answered, Fetched, FetchFails, Leave, Edit
<1>2. IInv /\ [Next]_vars =>
        [\A r \in DOMAIN req \cap DOMAIN req' : Follows(req[r], req'[r])]_vars
  BY <1>1
<1> QED BY <1>2, EveryRequestSound, PTL DEF Spec, OneConfiguration

-----------------------------------------------------------------------------
(***************************************************************************)
(* The shared clients.                                                     *)
(***************************************************************************)

\* Who is at a SOAP backend was sent there by a client whose WSDL arrived.
SentByReady ==
  \A r \in DOMAIN req : req[r].phase = "backend" /\ IsSoap(req[r].call) =>
    /\ Wsdl(req[r].call) \in DOMAIN clients
    /\ clients[Wsdl(req[r].call)].state = "ready"

\* No call of a WSDL whose fetch has failed is waiting or under way: the cached
\* rejection refuses each of them (soap.ts:9-16).
FailedServesNobody ==
  \A r \in DOMAIN req : req[r].phase # "session" /\ IsSoap(req[r].call) =>
    /\ Wsdl(req[r].call) \in DOMAIN clients
    /\ clients[Wsdl(req[r].call)].state # "failed"

\* A client stays in the cache until the process restarts, in the state its one
\* fetch has given it and with every header that a call has added to it: a WSDL
\* that could not be fetched once is not tried again, and the headers of one
\* call go out with those that follow (soap.ts:12-15 and 50-53).
ClientsStay ==
  [][\A w \in DOMAIN clients :
       \/ clients' = EmptyMap /\ req' = EmptyMap
       \/ /\ w \in DOMAIN clients'
          /\ clients[w].state # "fetching" => clients'[w].state = clients[w].state
          /\ clients[w].headers \subseteq clients'[w].headers]_vars

\* A step that adds to a client, or to the cache, and keeps what there is.
Grows ==
  \A w \in DOMAIN clients :
    /\ w \in DOMAIN clients'
    /\ clients[w].state # "fetching" => clients'[w].state = clients[w].state
    /\ clients[w].headers \subseteq clients'[w].headers

LEMMA CallSoapGrows ==
  ASSUME IInv, NEW r, NEW call, Wsdl(call) \in DOMAIN clients, CallSoap(r, call)
  PROVE  Grows
<1> DEFINE w == Wsdl(call)
           client == Prepared(clients[w], r, call)
<1>1. \A v \in DOMAIN clients : clients[v] \in Client
  BY DEF IInv, IsMap
<1>2. /\ client.state = clients[w].state
      /\ clients[w].headers \subseteq client.headers
  BY <1>1 DEF Prepared, Client
<1>3. CASE clients' = [clients EXCEPT ![w] = client]
  <2>1. DOMAIN clients' = DOMAIN clients /\ clients'[w] = client
        /\ \A v \in DOMAIN clients : v # w => clients'[v] = clients[v]
    BY <1>3
  <2> HIDE DEF client, w
  <2> QED BY <1>2, <2>1 DEF Grows
<1>4. CASE clients' = [clients EXCEPT ![w].endpoint = client.endpoint]
  <2> HIDE DEF client
  <2>1. /\ clients'[w].state = clients[w].state
        /\ clients'[w].headers = clients[w].headers
    BY <1>1, <1>4 DEF Client
  <2>2. DOMAIN clients' = DOMAIN clients
        /\ \A v \in DOMAIN clients : v # w => clients'[v] = clients[v]
    BY <1>4
  <2> HIDE DEF w
  <2> QED BY <2>1, <2>2 DEF Grows
<1> QED BY <1>3, <1>4 DEF CallSoap

LEMMA CallBackendGrows ==
  ASSUME IInv, NEW r, NEW call, CallBackend(r, call)
  PROVE  Grows
<1>1. ASSUME UNCHANGED clients PROVE Grows
  BY <1>1 DEF Grows
<1>2. ASSUME NEW w, NEW client, w \notin DOMAIN clients,
             clients' = Put(clients, w, client)
      PROVE  Grows
  BY <1>2 DEF Grows, Put
<1> QED BY <1>1, <1>2, CallSoapGrows DEF CallBackend

LEMMA StateGrows ==
  ASSUME IInv, NEW w \in DOMAIN clients, clients[w].state = "fetching",
         NEW state, clients' = [clients EXCEPT ![w].state = state]
  PROVE  Grows
<1>1. clients[w] \in Client
  BY DEF IInv, IsMap
<1>2. clients'[w].headers = clients[w].headers
  BY <1>1 DEF Client
<1>3. DOMAIN clients' = DOMAIN clients
      /\ \A v \in DOMAIN clients : v # w => clients'[v] = clients[v]
  OBVIOUS
<1> QED BY <1>2, <1>3 DEF Grows

LEMMA ClientsStep ==
  ASSUME IInv, [Next]_vars PROVE Grows \/ Restart
<1>1. ASSUME UNCHANGED clients PROVE Grows
  BY <1>1 DEF Grows
<1>2. ASSUME NEW r \in Requests, Resume(r) PROVE Grows
  <2>1. Wsdl(req[r].call) \in DOMAIN clients
    BY <1>2 DEF IInv, Sound, Resume, CanResume, InPhase
  <2> QED BY <1>2, <2>1, CallSoapGrows DEF Resume
<1>3. ASSUME NEW r, NEW url, NEW endpoint, NEW given,
             Arrive(r, url, endpoint, given)
      PROVE  Grows
  BY <1>1, <1>3, CallBackendGrows DEF Arrive
<1>4. ASSUME NEW r, SessionGranted(r) PROVE Grows
  BY <1>4, CallBackendGrows DEF SessionGranted
<1>5. ASSUME NEW w \in DOMAIN clients, Fetched(w) \/ FetchFails(w) PROVE Grows
  BY <1>5, StateGrows DEF Fetched, FetchFails
<1> QED
  BY <1>1, <1>2, <1>3, <1>4, <1>5
     DEF Next, vars, SessionRefused, Answered, Edit

\* ClientsStay: no client is fetched a second time or loses a header.
THEOREM FetchedOnce == Spec => ClientsStay
<1>1. IInv /\ [Next]_vars =>
        [\A w \in DOMAIN clients :
           \/ clients' = EmptyMap /\ req' = EmptyMap
           \/ /\ w \in DOMAIN clients'
              /\ clients[w].state # "fetching" => clients'[w].state = clients[w].state
              /\ clients[w].headers \subseteq clients'[w].headers]_vars
  BY ClientsStep DEF Grows, Restart
<1> QED BY <1>1, EveryRequestSound, PTL DEF Spec, ClientsStay

\* A SOAP call is sent by a client that is ready.
LEMMA ReadyEntry ==
  ASSUME IInv, SentByReady, Grows, NEW r, NEW entry, req' = Put(req, r, entry),
         entry.phase = "backend" /\ IsSoap(entry.call) =>
           /\ Wsdl(entry.call) \in DOMAIN clients
           /\ clients[Wsdl(entry.call)].state = "ready"
  PROVE  SentByReady'
<1>1. \A s \in DOMAIN req' : IF s = r THEN req'[s] = entry
                             ELSE s \in DOMAIN req /\ req'[s] = req[s]
  BY DEF Put
<1>2. ASSUME NEW s \in DOMAIN req', req'[s].phase = "backend", IsSoap(req'[s].call)
      PROVE  /\ Wsdl(req'[s].call) \in DOMAIN clients
             /\ clients[Wsdl(req'[s].call)].state = "ready"
  BY <1>1, <1>2 DEF SentByReady
<1> QED BY <1>2 DEF SentByReady, Grows, IsSoap, Wsdl, Knows, Via

LEMMA ReadyLeaving ==
  ASSUME SentByReady, Grows, NEW R, req' = Without(req, R) \/ req' = req
  PROVE  SentByReady'
<1>1. \A s \in DOMAIN req' : s \in DOMAIN req /\ req'[s] = req[s]
  BY DEF Without, Restrict
<1> QED BY <1>1 DEF SentByReady, Grows, IsSoap, Wsdl, Knows, Via

LEMMA CallSoapReady ==
  ASSUME IInv, SentByReady, NEW r, NEW call, Wsdl(call) \in DOMAIN clients,
         clients[Wsdl(call)].state = "ready", CallSoap(r, call)
  PROVE  SentByReady'
<1>1. Grows
  BY CallSoapGrows
<1>2. ASSUME NEW to, NEW headers, Send(r, call, to, headers) PROVE SentByReady'
  <2> DEFINE entry == [phase |-> "backend", call |-> call,
                       sent |-> [to |-> to, headers |-> headers]]
  <2>1. req' = Put(req, r, entry) /\ entry.call = call
    BY <1>2 DEF Send
  <2> HIDE DEF entry
  <2> QED BY <1>1, <2>1, ReadyEntry
<1> QED BY <1>1, <1>2, ReadyLeaving DEF CallSoap, Leave

LEMMA CallBackendReady ==
  ASSUME IInv, SentByReady, NEW r, NEW call, CallBackend(r, call)
  PROVE  SentByReady'
<1>1. Grows
  BY CallBackendGrows
<1>2. ASSUME ~IsSoap(call), Send(r, call, Address(call), {}) PROVE SentByReady'
  <2> DEFINE entry == [phase |-> "backend", call |-> call,
                       sent |-> [to |-> Address(call), headers |-> {}]]
  <2>1. req' = Put(req, r, entry) /\ entry.call = call
    BY <1>2 DEF Send
  <2> HIDE DEF entry
  <2> QED BY <1>1, <1>2, <2>1, ReadyEntry
<1>3. ASSUME NEW phase, phase # "backend", Wait(r, phase, call) PROVE SentByReady'
  <2> DEFINE entry == [phase |-> phase, call |-> call, sent |-> NotSent]
  <2>1. req' = Put(req, r, entry) /\ entry.phase # "backend"
    BY <1>3 DEF Wait
  <2> HIDE DEF entry
  <2> QED BY <1>1, <2>1, ReadyEntry
<1> QED BY <1>1, <1>2, <1>3, ReadyLeaving, CallSoapReady DEF CallBackend, Leave

LEMMA ReadyStep ==
  ASSUME IInv, SentByReady, [Next]_vars PROVE SentByReady'
<1>1. CASE Restart
  BY <1>1, EmptyMapType DEF Restart, SentByReady
<1>2. ASSUME Grows, NEW R, req' = Without(req, R) \/ req' = req PROVE SentByReady'
  BY <1>2, ReadyLeaving
<1>3. ASSUME NEW r \in Requests, Resume(r) PROVE SentByReady'
  <2>1. Wsdl(req[r].call) \in DOMAIN clients
    BY <1>3 DEF IInv, Sound, Resume, CanResume, InPhase
  <2> QED BY <1>3, <2>1, CallSoapReady DEF Resume, CanResume
<1>4. ASSUME NEW r, NEW url, NEW endpoint, NEW given,
             Arrive(r, url, endpoint, given)
      PROVE  SentByReady'
  <2>1. ASSUME NEW call, Wait(r, "session", call), UNCHANGED clients
        PROVE  SentByReady'
    <3> DEFINE entry == [phase |-> "session", call |-> call, sent |-> NotSent]
    <3>1. req' = Put(req, r, entry) /\ entry.phase # "backend" /\ Grows
      BY <2>1 DEF Wait, Grows
    <3> HIDE DEF entry
    <3> QED BY <3>1, ReadyEntry
  <2> QED BY <1>4, <2>1, CallBackendReady DEF Arrive
<1>5. ASSUME NEW r, SessionGranted(r) PROVE SentByReady'
  BY <1>5, CallBackendReady DEF SessionGranted
<1>6. CASE Grows
  BY <1>2, <1>3, <1>4, <1>5, <1>6, <1>1
     DEF Next, vars, SessionRefused, Answered, Fetched, FetchFails, Edit, Leave
<1> QED BY <1>1, <1>6, ClientsStep

\* FailedServesNobody: with FetchedOnce, a WSDL that could not be fetched stays
\* without service until the process restarts.
THEOREM FailureIsCached == Spec => []FailedServesNobody
<1>1. Init => SentByReady
  BY EmptyMapType DEF Init, SentByReady
<1>2. IInv /\ SentByReady /\ [Next]_vars => SentByReady'
  BY ReadyStep
<1>3. IInv /\ SentByReady => FailedServesNobody
  BY DEF IInv, SentByReady, FailedServesNobody, Sound, IsRequest
<1> QED BY <1>1, <1>2, <1>3, EveryRequestSound, PTL DEF Spec
=============================================================================
