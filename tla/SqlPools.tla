------------------------------ MODULE SqlPools ------------------------------
(***************************************************************************)
(* The pools of the SQL connector (src/connectors/sql.ts): one knex        *)
(* instance per gateway name and resolved configuration, kept in knexCache *)
(* and shared by the calls of all requests, while the console edits the    *)
(* gateways and switches workspaces.                                       *)
(*                                                                         *)
(* A request resolves the gateways once, then may wait for its session to  *)
(* be refreshed, then asks for a pool with the configuration it resolved,  *)
(* then waits for a connection and for the database.  A switch of          *)
(* workspace waits for the destruction of every pool in the cache.         *)
(*                                                                         *)
(* knex and its pool are a library: a connection goes to one call at a     *)
(* time, a destroyed pool gives out no more, and its destruction ends when *)
(* those it gave out are back.  Test connections and introspection open a  *)
(* pool of their own outside the cache and are not modelled.               *)
(***************************************************************************)
EXTENDS Integers, FiniteSets, JsMaps

CONSTANTS
  Names,     \* names of SQL gateways
  Configs,   \* their resolved configurations
  Requests,  \* requests to SQL integrations that can be in progress
  Switches,  \* PUT /settings requests that can be in progress
  Pools,     \* knex instances, each created at most once
  NoPool,    \* no instance yet
  PoolSize   \* connections of one pool

ASSUME SqlPoolsAssumption == PoolSize \in Nat \ {0} /\ NoPool \notin Pools

VARIABLES
  gateways,   \* GatewaysRegistry: gateway name -> configuration
  knexCache,  \* <<name, configuration>> -> pool
  pools,      \* every pool created so far
  calls,      \* requests between the resolution of the gateways and the answer
  switching   \* switches that wait in closeAllSqlConnections

vars == <<gateways, knexCache, pools, calls, switching>>

\* The gateways a file can hold.
Workspace == UNION {[N -> Configs] : N \in SUBSET Names}

Key == Names \X Configs

\* A knex instance.  duringSwitch is history: some switch was waiting for
\* pools to close when it was created.
Pool == [name: Names, config: Configs, state: {"open", "closing", "closed"},
         duringSwitch: BOOLEAN]

\* A call that has resolved its gateway, then waits for a connection, then
\* holds one.
Call == [phase: {"resolved", "queued", "connected"}, name: Names,
         config: Configs, pool: Pools \cup {NoPool}]

Switch == [closes: SUBSET Pools, to: Workspace]

TypeOK ==
  /\ gateways \in Workspace
  /\ IsMap(knexCache, Key, Pools)
  /\ IsMap(pools, Pools, Pool)
  /\ IsMap(calls, Requests, Call)
  /\ IsMap(switching, Switches, Switch)

Init ==
  /\ gateways \in Workspace
  /\ knexCache = EmptyMap
  /\ pools = EmptyMap
  /\ calls = EmptyMap
  /\ switching = EmptyMap

Cached == {knexCache[k] : k \in DOMAIN knexCache}

IsOpen(p) == p \in DOMAIN pools /\ pools[p].state = "open"

\* destroy() of the pools P: those that were open stop giving out connections.
Destroy(P) ==
  [p \in DOMAIN pools |-> IF p \in P /\ IsOpen(p)
                            THEN [pools[p] EXCEPT !.state = "closing"]
                            ELSE pools[p]]

-----------------------------------------------------------------------------
(* A call *)

\* The dispatcher resolves the gateways and takes the request's own along.
Resolve(r, n) ==
  /\ r \notin DOMAIN calls
  /\ n \in DOMAIN gateways
  /\ calls' = Put(calls, r, [phase |-> "resolved", name |-> n,
                             config |-> gateways[n], pool |-> NoPool])
  /\ UNCHANGED <<gateways, knexCache, pools, switching>>

\* The call has its answer, was refused a session, or failed.
Leaves(r) ==
  /\ calls' = Without(calls, {r})
  /\ UNCHANGED <<gateways, knexCache, pools, switching>>

Refused(r) == calls[r].phase = "resolved" /\ Leaves(r)

\* A key that leaves the configuration out.
KeyByName(c) == CHOOSE k \in Key : k[1] = c.name

\* A key made of the pool in place of the configuration.
KeyByPool(c) == <<c.name, c.pool>>

KeyOf(c) == <<c.name, c.config>>

\* Other configurations of the same name stay.
NoneSuperseded(n) == {}

\* What the cache holds under a name when it holds nothing under the
\* configuration asked for.
Superseded(n) == {k \in DOMAIN knexCache : k[1] = n}

\* The entries are deleted and their pools forgotten.
EvictedUndestroyed(n) == {}

Evicted(n) == {knexCache[k] : k \in Superseded(n)}

\* getKnex finds a pool for the name and configuration of the call.
Reuse(r) ==
  LET k == KeyOf(calls[r]) IN
  /\ calls[r].phase = "resolved"
  /\ k \in DOMAIN knexCache
  /\ calls' = [calls EXCEPT ![r].phase = "queued", ![r].pool = knexCache[k]]
  /\ UNCHANGED <<gateways, knexCache, pools, switching>>

\* getKnex creates one and destroys whatever it held under that name.
Create(r, p) ==
  LET c == calls[r] IN
  /\ c.phase = "resolved"
  /\ KeyOf(c) \notin DOMAIN knexCache
  /\ p \notin DOMAIN pools
  /\ pools' = Put(Destroy(Evicted(c.name)), p,
                  [name |-> c.name, config |-> c.config, state |-> "open",
                   duringSwitch |-> DOMAIN switching # {}])
  /\ knexCache' = Put(Without(knexCache, Superseded(c.name)), KeyOf(c), p)
  /\ calls' = [calls EXCEPT ![r].phase = "queued", ![r].pool = p]
  /\ UNCHANGED <<gateways, switching>>

\* The driver refuses the configuration: what was held under the name is gone
\* all the same, and the call fails.
CreateFails(r) ==
  LET c == calls[r] IN
  /\ c.phase = "resolved"
  /\ KeyOf(c) \notin DOMAIN knexCache
  /\ pools' = Destroy(Evicted(c.name))
  /\ knexCache' = Without(knexCache, Superseded(c.name))
  /\ calls' = Without(calls, {r})
  /\ UNCHANGED <<gateways, switching>>

Connected(p) ==
  {r \in DOMAIN calls : calls[r].phase = "connected" /\ calls[r].pool = p}

\* The pool has a free connection for the call.
Connect(r) ==
  /\ calls[r].phase = "queued"
  /\ IsOpen(calls[r].pool)
  /\ Cardinality(Connected(calls[r].pool)) < PoolSize
  /\ calls' = [calls EXCEPT ![r].phase = "connected"]
  /\ UNCHANGED <<gateways, knexCache, pools, switching>>

\* It waited too long, or its pool was destroyed: 502.
GetsNoConnection(r) == calls[r].phase = "queued" /\ Leaves(r)

\* The database answered, or failed.
Answered(r) == calls[r].phase = "connected" /\ Leaves(r)

\* The last connection came back to a pool that is being destroyed.
Closed(p) ==
  /\ pools[p].state = "closing"
  /\ Connected(p) = {}
  /\ pools' = [pools EXCEPT ![p].state = "closed"]
  /\ UNCHANGED <<gateways, knexCache, calls, switching>>

-----------------------------------------------------------------------------
(* The console *)

\* PUT and POST /gateways, and the changes a reload finds in the file.
SaveGateway(n, c) ==
  /\ gateways' = Put(gateways, n, c)
  /\ UNCHANGED <<knexCache, pools, calls, switching>>

\* DELETE /gateways/:name leaves its pool in the cache.
DeleteGateway(n) ==
  /\ gateways' = Without(gateways, {n})
  /\ UNCHANGED <<knexCache, pools, calls, switching>>

\* knexCache.clear()
Cleared == EmptyMap

\* The end of PUT /settings: the whole cache is cleared, and the gateways are
\* those of the new folder unless an unreadable file stops the switch.
ClearsAndSwitches(to) == knexCache' = Cleared /\ gateways' \in {to, gateways}

\* closeAllSqlConnections finds pools to destroy and waits for them.
BeginSwitch(s, to) ==
  /\ s \notin DOMAIN switching
  /\ \E p \in Cached : pools[p].state # "closed"
  /\ pools' = Destroy(Cached)
  /\ switching' = Put(switching, s, [closes |-> Cached, to |-> to])
  /\ UNCHANGED <<gateways, knexCache, calls>>

\* The switch looks at the cache again when it is woken.
WaitsForWhateverIsCached(s) == Cached

\* The pools the switch found when it began.
WaitsFor(s) == switching[s].closes

\* All of them are closed.
EndSwitch(s) ==
  /\ \A p \in WaitsFor(s) : pools[p].state = "closed"
  /\ ClearsAndSwitches(switching[s].to)
  /\ switching' = Without(switching, {s})
  /\ UNCHANGED <<pools, calls>>

\* There was nothing to wait for.
SwitchAtOnce(to) ==
  /\ \A p \in Cached : pools[p].state = "closed"
  /\ ClearsAndSwitches(to)
  /\ UNCHANGED <<pools, calls, switching>>

Next ==
  \/ \E r \in Requests, n \in Names : Resolve(r, n)
  \/ \E r \in DOMAIN calls :
       \/ Refused(r)
       \/ Reuse(r)
       \/ CreateFails(r)
       \/ Connect(r)
       \/ GetsNoConnection(r)
       \/ Answered(r)
  \/ \E r \in DOMAIN calls, p \in Pools : Create(r, p)
  \/ \E p \in DOMAIN pools : Closed(p)
  \/ \E n \in Names, c \in Configs : SaveGateway(n, c)
  \/ \E n \in DOMAIN gateways : DeleteGateway(n)
  \/ \E s \in Switches, to \in Workspace : BeginSwitch(s, to)
  \/ \E s \in DOMAIN switching : EndSwitch(s)
  \/ \E to \in Workspace : SwitchAtOnce(to)

Spec == Init /\ [][Next]_vars

\* The database answers every query, the library finishes every destruction
\* that nothing holds up, and a switch goes on when its pools are closed.
FairSpec ==
  /\ Spec
  /\ \A r \in Requests : WF_vars(r \in DOMAIN calls /\ Answered(r))
  /\ \A p \in Pools : WF_vars(p \in DOMAIN pools /\ Closed(p))
  /\ \A s \in Switches : WF_vars(s \in DOMAIN switching /\ EndSwitch(s))

-----------------------------------------------------------------------------
(* Properties *)

\* However calls with old and new configurations of a gateway follow each
\* other, one pool is held under its name.
OnePoolPerName ==
  \A k, l \in DOMAIN knexCache : k[1] = l[1] => k = l

\* A call runs on a pool of its own gateway with the configuration it
\* resolved: an edit never sends it to the database of another one
\* (sql.ts:6-9).
OwnPool ==
  \A r \in DOMAIN calls : calls[r].phase # "resolved" =>
    /\ calls[r].pool \in DOMAIN pools
    /\ pools[calls[r].pool].name = calls[r].name
    /\ pools[calls[r].pool].config = calls[r].config

\* A pool that is in the cache can be used, unless a switch that is going on
\* destroys it: no call is handed a dead pool once the switch is over.
CachedPoolsLive ==
  \A p \in Cached :
    IsOpen(p) \/ \E s \in DOMAIN switching : p \in switching[s].closes

\* A pool that is open and no longer in the cache, which nothing will ever
\* destroy, was created while a switch waited; nothing else loses pools.
LostOnlyInSwitch ==
  \A p \in DOMAIN pools :
    IsOpen(p) => p \in Cached \/ pools[p].duringSwitch

\* After a switch no pool is left open unless the cache holds it: "close them
\* now rather than leaking them until process exit" (consoleApi.ts:622-625).
NothingLeaks == \A p \in DOMAIN pools : IsOpen(p) => p \in Cached

\* A switch that was begun comes to its end, whatever is being called.
SwitchEnds ==
  \A s \in Switches : s \in DOMAIN switching ~> s \notin DOMAIN switching
=============================================================================
