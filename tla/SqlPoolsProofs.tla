--------------------------- MODULE SqlPoolsProofs ---------------------------
(***************************************************************************)
(* The pool cache for every number of gateways, configurations, requests,  *)
(* switches and pools.  IInv adds two facts to the properties: an entry of *)
(* the cache holds a pool of its own key, so that dropping the entries of  *)
(* a name destroys no pool that stays; and while a switch waits, no pool   *)
(* from before it is open, so that clearing the cache forgets no other.    *)
(***************************************************************************)
EXTENDS SqlPools, TLAPS

\* A new Map holds nothing, of whatever type.
LEMMA EmptyMapType ==
  ASSUME NEW K, NEW V
  PROVE  IsMap(EmptyMap, K, V) /\ DOMAIN EmptyMap = {}
  BY DEF IsMap, EmptyMap

\* set keeps the type of a Map.
LEMMA PutType ==
  ASSUME NEW K, NEW V, NEW m, NEW k \in K, NEW v \in V, IsMap(m, K, V)
  PROVE  IsMap(Put(m, k, v), K, V)
  BY DEF IsMap, Put

\* delete keeps the type of a Map.
LEMMA WithoutType ==
  ASSUME NEW K, NEW V, NEW m, NEW S, IsMap(m, K, V)
  PROVE  IsMap(Without(m, S), K, V)
  BY DEF IsMap, Without, Restrict

CachedUnderOwnKey ==
  \A k \in DOMAIN knexCache :
    /\ knexCache[k] \in DOMAIN pools
    /\ pools[knexCache[k]].name = k[1]
    /\ pools[knexCache[k]].config = k[2]

OldPoolsClosed ==
  DOMAIN switching # {} =>
    \A p \in DOMAIN pools : IsOpen(p) => pools[p].duringSwitch

CacheInv == OnePoolPerName /\ CachedUnderOwnKey

LeakInv == LostOnlyInSwitch /\ OldPoolsClosed

IInv == TypeOK /\ CacheInv /\ OwnPool /\ CachedPoolsLive /\ LeakInv

-----------------------------------------------------------------------------
(* destroy() *)

\* It changes the state of open pools of P to closing and nothing else.
LEMMA DestroyFacts ==
  ASSUME IsMap(pools, Pools, Pool), NEW P
  PROVE  /\ DOMAIN Destroy(P) = DOMAIN pools
         /\ IsMap(Destroy(P), Pools, Pool)
         /\ \A p \in DOMAIN pools :
              /\ Destroy(P)[p].name = pools[p].name
              /\ Destroy(P)[p].config = pools[p].config
              /\ Destroy(P)[p].duringSwitch = pools[p].duringSwitch
              /\ Destroy(P)[p].state = "open"
                   <=> pools[p].state = "open" /\ p \notin P
<1> DEFINE d(p) == [pools[p] EXCEPT !.state = "closing"]
<1>1. \A p \in DOMAIN pools : pools[p] \in Pool
  BY DEF IsMap
<1>2. \A p \in DOMAIN pools :
        /\ d(p) \in Pool
        /\ d(p).name = pools[p].name
        /\ d(p).config = pools[p].config
        /\ d(p).duringSwitch = pools[p].duringSwitch
        /\ d(p).state = "closing"
  BY <1>1 DEF Pool
<1>3. DOMAIN Destroy(P) = DOMAIN pools
  BY DEF Destroy
<1>4. \A p \in DOMAIN pools :
        Destroy(P)[p] = IF p \in P /\ pools[p].state = "open"
                          THEN d(p) ELSE pools[p]
  BY DEF Destroy, IsOpen
<1> HIDE DEF d
<1>5. IsMap(Destroy(P), Pools, Pool)
  <2>1. \A p \in DOMAIN pools : Destroy(P)[p] \in Pool
    BY <1>1, <1>2, <1>4
  <2> QED BY <1>3, <2>1 DEF IsMap, Destroy
<1> QED BY <1>2, <1>3, <1>4, <1>5

-----------------------------------------------------------------------------
(* Types *)

LEMMA InitType == Init => TypeOK
  BY EmptyMapType DEF Init, TypeOK

LEMMA WorkspaceType ==
  ASSUME NEW g \in Workspace
  PROVE  /\ DOMAIN g \subseteq Names
         /\ \A n \in DOMAIN g : g[n] \in Configs
         /\ \A n \in Names, c \in Configs : Put(g, n, c) \in Workspace
         /\ \A S : Without(g, S) \in Workspace
<1>1. PICK N \in SUBSET Names : g \in [N -> Configs]
  BY DEF Workspace
<1>2. ASSUME NEW n \in Names, NEW c \in Configs
      PROVE  Put(g, n, c) \in Workspace
  <2>1. Put(g, n, c) \in [N \cup {n} -> Configs]
    BY <1>1 DEF Put
  <2>2. N \cup {n} \in SUBSET Names
    OBVIOUS
  <2> QED BY <2>1, <2>2 DEF Workspace
<1>3. ASSUME NEW S PROVE Without(g, S) \in Workspace
  <2>1. Without(g, S) \in [N \ S -> Configs]
    BY <1>1 DEF Without, Restrict
  <2>2. N \ S \in SUBSET Names
    OBVIOUS
  <2> QED BY <2>1, <2>2 DEF Workspace
<1> QED BY <1>1, <1>2, <1>3

LEMMA KeyType ==
  ASSUME TypeOK, NEW r \in DOMAIN calls
  PROVE  /\ r \in Requests
         /\ calls[r] \in Call
         /\ KeyOf(calls[r]) \in Key
  BY DEF TypeOK, IsMap, Call, Key, KeyOf

\* The steps that create or close pools.
LEMMA PoolsTyped ==
  ASSUME TypeOK,
         \/ \E r \in DOMAIN calls, p \in Pools : Create(r, p)
         \/ \E r \in DOMAIN calls : CreateFails(r)
         \/ \E p \in DOMAIN pools : Closed(p)
         \/ \E s \in Switches, to \in Workspace : BeginSwitch(s, to)
  PROVE  IsMap(pools, Pools, Pool)'
<1> USE DEF TypeOK
<1>1. ASSUME NEW r \in DOMAIN calls, NEW p \in Pools, Create(r, p)
      PROVE  IsMap(pools, Pools, Pool)'
  <2> DEFINE d == Destroy(Evicted(calls[r].name))
             new == [name |-> calls[r].name, config |-> calls[r].config,
                     state |-> "open", duringSwitch |-> DOMAIN switching # {}]
  <2>1. new \in Pool
    BY KeyType DEF Call, Pool
  <2>2. IsMap(d, Pools, Pool)
    BY DestroyFacts
  <2>3. pools' = Put(d, p, new)
    BY <1>1 DEF Create
  <2> HIDE DEF d, new
  <2>4. IsMap(Put(d, p, new), Pools, Pool)
    BY <2>1, <2>2, PutType
  <2> QED BY <2>3, <2>4
<1>2. ASSUME NEW r \in DOMAIN calls, CreateFails(r)
      PROVE  IsMap(pools, Pools, Pool)'
  BY <1>2, DestroyFacts DEF CreateFails
<1>3. ASSUME NEW p \in DOMAIN pools, Closed(p)
      PROVE  IsMap(pools, Pools, Pool)'
  BY <1>3 DEF Closed, IsMap, Pool
<1>4. ASSUME NEW s \in Switches, NEW to \in Workspace, BeginSwitch(s, to)
      PROVE  IsMap(pools, Pools, Pool)'
  BY <1>4, DestroyFacts DEF BeginSwitch
<1> QED BY <1>1, <1>2, <1>3, <1>4

\* The steps that change calls.
LEMMA CallsTyped ==
  ASSUME TypeOK,
         \/ \E r \in Requests, n \in Names : Resolve(r, n)
         \/ \E r \in DOMAIN calls :
              \/ Leaves(r) \/ Reuse(r) \/ Connect(r) \/ CreateFails(r)
         \/ \E r \in DOMAIN calls, p \in Pools : Create(r, p)
  PROVE  IsMap(calls, Requests, Call)'
<1> USE DEF TypeOK
<1>1. ASSUME NEW r \in Requests, NEW n \in Names, Resolve(r, n)
      PROVE  IsMap(calls, Requests, Call)'
  <2> DEFINE new == [phase |-> "resolved", name |-> n,
                     config |-> gateways[n], pool |-> NoPool]
  <2>1. new \in Call
    BY <1>1, WorkspaceType DEF Resolve, Call
  <2>2. calls' = Put(calls, r, new)
    BY <1>1 DEF Resolve
  <2> HIDE DEF new
  <2> QED BY <2>1, <2>2, PutType
<1>2. ASSUME NEW r, calls' = Without(calls, {r})
      PROVE  IsMap(calls, Requests, Call)'
  BY <1>2, WithoutType
<1>3. ASSUME NEW r \in DOMAIN calls, NEW p \in Pools,
             calls' = [calls EXCEPT ![r].phase = "queued", ![r].pool = p]
      PROVE  IsMap(calls, Requests, Call)'
  BY <1>3 DEF IsMap, Call
<1>4. ASSUME NEW r \in DOMAIN calls, Reuse(r)
      PROVE  IsMap(calls, Requests, Call)'
  <2>1. knexCache[KeyOf(calls[r])] \in Pools
    BY <1>4 DEF Reuse, IsMap
  <2> QED BY <1>3, <1>4, <2>1 DEF Reuse
<1>5. ASSUME NEW r \in DOMAIN calls, Connect(r)
      PROVE  IsMap(calls, Requests, Call)'
  BY <1>5 DEF Connect, IsMap, Call
<1> QED BY <1>1, <1>2, <1>3, <1>4, <1>5 DEF Leaves, Create, CreateFails

LEMMA CacheTyped ==
  ASSUME TypeOK,
         \/ \E r \in DOMAIN calls, p \in Pools : Create(r, p)
         \/ \E r \in DOMAIN calls : CreateFails(r)
         \/ knexCache' = Cleared
  PROVE  IsMap(knexCache, Key, Pools)'
<1>1. ASSUME NEW r \in DOMAIN calls, NEW p \in Pools, Create(r, p)
      PROVE  IsMap(knexCache, Key, Pools)'
  <2> DEFINE rest == Without(knexCache, Superseded(calls[r].name))
  <2>1. IsMap(rest, Key, Pools)
    BY WithoutType DEF TypeOK
  <2>2. knexCache' = Put(rest, KeyOf(calls[r]), p)
    BY <1>1 DEF Create
  <2> HIDE DEF rest
  <2> QED BY <2>1, <2>2, KeyType, PutType
<1>2. ASSUME NEW r \in DOMAIN calls, CreateFails(r)
      PROVE  IsMap(knexCache, Key, Pools)'
  BY <1>2, WithoutType DEF CreateFails, TypeOK
<1> QED BY <1>1, <1>2, EmptyMapType DEF Cleared

LEMMA SwitchingTyped ==
  ASSUME TypeOK,
         \/ \E s \in Switches, to \in Workspace : BeginSwitch(s, to)
         \/ \E s \in DOMAIN switching : EndSwitch(s)
         \/ \E to \in Workspace : SwitchAtOnce(to)
  PROVE  gateways' \in Workspace /\ IsMap(switching, Switches, Switch)'
<1> USE DEF TypeOK
<1>1. ASSUME NEW s \in Switches, NEW to \in Workspace, BeginSwitch(s, to)
      PROVE  gateways' \in Workspace /\ IsMap(switching, Switches, Switch)'
  <2> DEFINE new == [closes |-> Cached, to |-> to]
  <2>1. new \in Switch
    BY DEF Switch, Cached, IsMap
  <2>2. switching' = Put(switching, s, new)
    BY <1>1 DEF BeginSwitch
  <2> HIDE DEF new
  <2>3. IsMap(switching, Switches, Switch)'
    BY <2>1, <2>2, PutType
  <2> QED BY <1>1, <2>3 DEF BeginSwitch
<1>2. ASSUME NEW s \in DOMAIN switching, EndSwitch(s)
      PROVE  gateways' \in Workspace /\ IsMap(switching, Switches, Switch)'
  <2>1. switching[s].to \in Workspace
    BY DEF IsMap, Switch
  <2> QED BY <1>2, <2>1, WithoutType DEF EndSwitch, ClearsAndSwitches
<1> QED BY <1>1, <1>2 DEF SwitchAtOnce, ClearsAndSwitches

LEMMA TypeStep == TypeOK /\ [Next]_vars => TypeOK'
<1> SUFFICES ASSUME TypeOK, [Next]_vars PROVE TypeOK'
  OBVIOUS
<1>1. gateways' \in Workspace
  BY WorkspaceType, SwitchingTyped
     DEF TypeOK, Next, vars, Resolve, Leaves, Refused, Reuse, Create,
         CreateFails, Connect, GetsNoConnection, Answered, Closed, SaveGateway,
         DeleteGateway
<1>2. IsMap(knexCache, Key, Pools)'
  BY CacheTyped
     DEF TypeOK, Next, vars, Resolve, Leaves, Refused, Reuse, Connect,
         GetsNoConnection, Answered, Closed, SaveGateway, DeleteGateway,
         BeginSwitch, EndSwitch, SwitchAtOnce, ClearsAndSwitches
<1>3. IsMap(pools, Pools, Pool)'
  BY PoolsTyped
     DEF TypeOK, Next, vars, Resolve, Leaves, Refused, Reuse, Connect,
         GetsNoConnection, Answered, SaveGateway, DeleteGateway, EndSwitch,
         SwitchAtOnce
<1>4. IsMap(calls, Requests, Call)'
  BY CallsTyped
     DEF TypeOK, Next, vars, Refused, GetsNoConnection, Answered, Closed,
         SaveGateway, DeleteGateway, BeginSwitch, EndSwitch, SwitchAtOnce
<1>5. IsMap(switching, Switches, Switch)'
  BY SwitchingTyped
     DEF TypeOK, Next, vars, Resolve, Leaves, Refused, Reuse, Create,
         CreateFails, Connect, GetsNoConnection, Answered, Closed, SaveGateway,
         DeleteGateway, SwitchAtOnce
<1> QED BY <1>1, <1>2, <1>3, <1>4, <1>5 DEF TypeOK

\* TypeOK: every state is well typed.
THEOREM TypeCorrect == Spec => []TypeOK
  BY InitType, TypeStep, PTL DEF Spec

-----------------------------------------------------------------------------
(***************************************************************************)
(* The cache.  Create and CreateFails drop every entry of one name, so     *)
(* that one pool is left under it at most; whoever clears the cache leaves *)
(* nothing to prove.                                                       *)
(***************************************************************************)

\* The entries that stay are those of other names.
LEMMA RestOfCache ==
  ASSUME NEW n
  PROVE  /\ DOMAIN Without(knexCache, Superseded(n))
                = {k \in DOMAIN knexCache : k[1] # n}
         /\ \A k \in DOMAIN knexCache : k[1] # n =>
              Without(knexCache, Superseded(n))[k] = knexCache[k]
  BY DEF Without, Restrict, Superseded

\* A pool that is dropped with its name is in no entry that stays.
LEMMA EvictedAreOfOneName ==
  ASSUME CachedUnderOwnKey, NEW n, NEW p \in Evicted(n)
  PROVE  p \in DOMAIN pools /\ pools[p].name = n
  BY DEF CachedUnderOwnKey, Evicted, Superseded

\* Pools keep their name and configuration, and none goes away.
LEMMA PoolsKept ==
  ASSUME TypeOK, [Next]_vars
  PROVE  \A p \in DOMAIN pools :
           /\ p \in DOMAIN pools'
           /\ pools'[p].name = pools[p].name
           /\ pools'[p].config = pools[p].config
<1>1. ASSUME NEW r \in DOMAIN calls, NEW q \in Pools, Create(r, q),
             NEW p \in DOMAIN pools
      PROVE  /\ p \in DOMAIN pools'
             /\ pools'[p].name = pools[p].name
             /\ pools'[p].config = pools[p].config
  <2> DEFINE d == Destroy(Evicted(calls[r].name))
  <2>1. /\ DOMAIN d = DOMAIN pools
        /\ d[p].name = pools[p].name
        /\ d[p].config = pools[p].config
    BY DestroyFacts DEF TypeOK
  <2>2. p # q /\ \E v : pools' = Put(d, q, v)
    BY <1>1 DEF Create
  <2> HIDE DEF d
  <2> QED BY <2>1, <2>2 DEF Put
<1>2. ASSUME NEW P, pools' = Destroy(P), NEW p \in DOMAIN pools
      PROVE  /\ p \in DOMAIN pools'
             /\ pools'[p].name = pools[p].name
             /\ pools'[p].config = pools[p].config
  BY <1>2, DestroyFacts DEF TypeOK
<1>3. ASSUME NEW q \in DOMAIN pools, Closed(q), NEW p \in DOMAIN pools
      PROVE  /\ p \in DOMAIN pools'
             /\ pools'[p].name = pools[p].name
             /\ pools'[p].config = pools[p].config
  <2>1. pools[p] \in Pool
    BY DEF TypeOK, IsMap
  <2> QED BY <1>3, <2>1 DEF Closed, Pool
<1> QED
  BY <1>1, <1>2, <1>3
     DEF Next, vars, Resolve, Leaves, Refused, Reuse, CreateFails, Connect,
         GetsNoConnection, Answered, SaveGateway, DeleteGateway, BeginSwitch,
         EndSwitch, SwitchAtOnce

LEMMA CacheStep == TypeOK /\ CacheInv /\ [Next]_vars => CacheInv'
<1> SUFFICES ASSUME TypeOK, CacheInv, [Next]_vars PROVE CacheInv'
  OBVIOUS
<1> USE DEF CacheInv
<1>1. ASSUME UNCHANGED knexCache PROVE CacheInv'
  BY <1>1, PoolsKept DEF OnePoolPerName, CachedUnderOwnKey
<1>2. ASSUME knexCache' = Cleared PROVE CacheInv'
  BY <1>2, EmptyMapType DEF OnePoolPerName, CachedUnderOwnKey, Cleared
<1>3. ASSUME NEW n, knexCache' = Without(knexCache, Superseded(n))
      PROVE  CacheInv'
  <2>1. /\ DOMAIN knexCache' = {k \in DOMAIN knexCache : k[1] # n}
        /\ \A k \in DOMAIN knexCache' : knexCache'[k] = knexCache[k]
    BY <1>3, RestOfCache
  <2> QED BY <2>1, PoolsKept DEF OnePoolPerName, CachedUnderOwnKey
<1>4. ASSUME NEW r \in DOMAIN calls, NEW p \in Pools, Create(r, p)
      PROVE  CacheInv'
  <2> DEFINE n == calls[r].name
             key == KeyOf(calls[r])
  <2>1. /\ DOMAIN knexCache' = {k \in DOMAIN knexCache : k[1] # n} \cup {key}
        /\ knexCache'[key] = p
        /\ \A k \in DOMAIN knexCache : k[1] # n => knexCache'[k] = knexCache[k]
    BY <1>4, RestOfCache DEF Create, Put, KeyOf
  <2>2. key[1] = n /\ key[2] = calls[r].config
    BY DEF KeyOf
  <2>3. /\ p \in DOMAIN pools'
        /\ pools'[p].name = n
        /\ pools'[p].config = calls[r].config
    BY <1>4 DEF Create, Put
  <2> HIDE DEF n, key
  <2>4. OnePoolPerName'
    BY <2>1, <2>2 DEF OnePoolPerName
  <2>5. CachedUnderOwnKey'
    BY <2>1, <2>2, <2>3, PoolsKept DEF CachedUnderOwnKey
  <2> QED BY <2>4, <2>5
<1> QED
  BY <1>1, <1>2, <1>3, <1>4
     DEF Next, vars, Resolve, Leaves, Refused, Reuse, CreateFails, Connect,
         GetsNoConnection, Answered, Closed, SaveGateway, DeleteGateway,
         BeginSwitch, EndSwitch, SwitchAtOnce, ClearsAndSwitches

LEMMA OwnPoolStep ==
  TypeOK /\ CacheInv /\ OwnPool /\ [Next]_vars => OwnPool'
<1> SUFFICES ASSUME TypeOK, CacheInv, OwnPool, [Next]_vars PROVE OwnPool'
  OBVIOUS
<1> USE DEF OwnPool
<1>1. ASSUME UNCHANGED calls PROVE OwnPool'
  BY <1>1, PoolsKept
<1>2. ASSUME NEW r, calls' = Without(calls, {r}) PROVE OwnPool'
  BY <1>2, PoolsKept DEF Without, Restrict
<1>3. ASSUME NEW r \in Requests, NEW n \in Names, Resolve(r, n) PROVE OwnPool'
  BY <1>3, PoolsKept DEF Resolve, Put
<1>4. ASSUME NEW r \in DOMAIN calls, NEW p,
             calls' = [calls EXCEPT ![r].phase = "queued", ![r].pool = p],
             p \in DOMAIN pools', pools'[p].name = calls[r].name,
             pools'[p].config = calls[r].config
      PROVE  OwnPool'
  <2>1. calls[r] \in Call
    BY DEF TypeOK, IsMap
  <2>2. /\ calls'[r].pool = p
        /\ calls'[r].name = calls[r].name
        /\ calls'[r].config = calls[r].config
    BY <1>4, <2>1 DEF Call
  <2>3. DOMAIN calls' = DOMAIN calls
        /\ \A q \in DOMAIN calls : q # r => calls'[q] = calls[q]
    BY <1>4
  <2> QED BY <1>4, <2>2, <2>3, PoolsKept
<1>5. ASSUME NEW r \in DOMAIN calls, Reuse(r) PROVE OwnPool'
  <2> DEFINE p == knexCache[KeyOf(calls[r])]
  <2>1. /\ p \in DOMAIN pools
        /\ pools[p].name = calls[r].name
        /\ pools[p].config = calls[r].config
    BY <1>5 DEF Reuse, CacheInv, CachedUnderOwnKey, KeyOf
  <2> QED BY <1>4, <1>5, <2>1 DEF Reuse
<1>6. ASSUME NEW r \in DOMAIN calls, NEW p \in Pools, Create(r, p)
      PROVE  OwnPool'
  BY <1>4, <1>6 DEF Create, Put
<1>7. ASSUME NEW r \in DOMAIN calls, Connect(r) PROVE OwnPool'
  <2>1. calls[r] \in Call
    BY DEF TypeOK, IsMap
  <2> QED BY <1>7, <2>1, PoolsKept DEF Connect, Call
<1> QED
  BY <1>1, <1>2, <1>3, <1>5, <1>6, <1>7
     DEF Next, vars, Leaves, Refused, CreateFails, GetsNoConnection, Answered,
         Closed, SaveGateway, DeleteGateway, BeginSwitch, EndSwitch,
         SwitchAtOnce

-----------------------------------------------------------------------------
(***************************************************************************)
(* What is open.  Only Create opens a pool, and only Destroy stops one.    *)
(***************************************************************************)

\* Whatever is in the cache after a step that creates no pool was in it.
LEMMA CachedShrinks ==
  ASSUME NEW n, \/ UNCHANGED knexCache
                \/ knexCache' = Cleared
                \/ knexCache' = Without(knexCache, Superseded(n))
  PROVE  Cached' \subseteq Cached
  BY EmptyMapType DEF Cached, Cleared, Without, Restrict

\* The steps that drop a name: what stays is as open as it was.
LEMMA OthersStayOpen ==
  ASSUME TypeOK, CacheInv, NEW n, NEW k \in DOMAIN knexCache, k[1] # n
  PROVE  Destroy(Evicted(n))[knexCache[k]].state = "open"
           <=> pools[knexCache[k]].state = "open"
<1>1. knexCache[k] \in DOMAIN pools /\ pools[knexCache[k]].name = k[1]
  BY DEF CacheInv, CachedUnderOwnKey
<1>2. knexCache[k] \notin Evicted(n)
  BY <1>1, EvictedAreOfOneName DEF CacheInv
<1> QED BY <1>1, <1>2, DestroyFacts DEF TypeOK

LEMMA LiveStep ==
  TypeOK /\ CacheInv /\ CachedPoolsLive /\ [Next]_vars => CachedPoolsLive'
<1> SUFFICES ASSUME TypeOK, CacheInv, CachedPoolsLive, [Next]_vars
             PROVE  CachedPoolsLive'
  OBVIOUS
<1>1. ASSUME UNCHANGED <<knexCache, pools, switching>> PROVE CachedPoolsLive'
  BY <1>1 DEF CachedPoolsLive, Cached, IsOpen
<1>2. ASSUME knexCache' = Cleared PROVE CachedPoolsLive'
  BY <1>2, EmptyMapType DEF CachedPoolsLive, Cached, Cleared
<1>3. ASSUME NEW r \in DOMAIN calls, CreateFails(r) PROVE CachedPoolsLive'
  <2> DEFINE n == calls[r].name
  <2>1. /\ pools' = Destroy(Evicted(n))
        /\ knexCache' = Without(knexCache, Superseded(n))
        /\ switching' = switching
    BY <1>3 DEF CreateFails
  <2>2. ASSUME NEW k \in DOMAIN knexCache'
        PROVE  /\ k \in DOMAIN knexCache
               /\ knexCache'[k] = knexCache[k]
               /\ IsOpen(knexCache[k]) => IsOpen(knexCache[k])'
    <3>1. k \in DOMAIN knexCache /\ k[1] # n /\ knexCache'[k] = knexCache[k]
      BY <2>1, <2>2, RestOfCache
    <3> QED BY <2>1, <3>1, OthersStayOpen, DestroyFacts DEF IsOpen, TypeOK
  <2> HIDE DEF n
  <2> QED BY <2>1, <2>2 DEF CachedPoolsLive, Cached
<1>4. ASSUME NEW r \in DOMAIN calls, NEW p \in Pools, Create(r, p)
      PROVE  CachedPoolsLive'
  <2> DEFINE n == calls[r].name
             d == Destroy(Evicted(n))
             rest == Without(knexCache, Superseded(n))
  <2>1. /\ \E v : pools' = Put(d, p, v) /\ v.state = "open"
        /\ knexCache' = Put(rest, KeyOf(calls[r]), p)
        /\ switching' = switching
        /\ p \notin DOMAIN pools
    BY <1>4 DEF Create
  <2>2. IsOpen(p)'
    BY <2>1 DEF IsOpen, Put
  <2>3. ASSUME NEW k \in DOMAIN knexCache', knexCache'[k] # p
        PROVE  /\ k \in DOMAIN knexCache
               /\ knexCache'[k] = knexCache[k]
               /\ IsOpen(knexCache[k]) => IsOpen(knexCache[k])'
    <3>1. k \in DOMAIN knexCache /\ k[1] # n /\ knexCache'[k] = knexCache[k]
      <4>1. knexCache' = Put(rest, KeyOf(calls[r]), p)
        BY <2>1
      <4>2. /\ DOMAIN rest = {l \in DOMAIN knexCache : l[1] # n}
            /\ \A l \in DOMAIN rest : rest[l] = knexCache[l]
        BY RestOfCache
      <4> HIDE DEF rest
      <4> QED BY <2>3, <4>1, <4>2 DEF Put
    <3>2. DOMAIN d = DOMAIN pools
      BY DestroyFacts DEF TypeOK
    <3>3. d[knexCache[k]].state = "open" <=> pools[knexCache[k]].state = "open"
      BY <3>1, OthersStayOpen
    <3> HIDE DEF d
    <3> QED BY <2>1, <3>1, <3>2, <3>3 DEF IsOpen, Put
  <2> HIDE DEF n, d, rest
  <2> QED BY <2>1, <2>2, <2>3 DEF CachedPoolsLive, Cached
<1>5. ASSUME NEW p \in DOMAIN pools, Closed(p) PROVE CachedPoolsLive'
  <2>1. /\ UNCHANGED <<knexCache, switching>>
        /\ ~IsOpen(p)
        /\ \A q : q # p /\ IsOpen(q) => IsOpen(q)'
    BY <1>5 DEF Closed, IsOpen
  <2> QED BY <2>1 DEF CachedPoolsLive, Cached
<1>6. ASSUME NEW s \in Switches, NEW to \in Workspace, BeginSwitch(s, to)
      PROVE  CachedPoolsLive'
  <2>1. /\ knexCache' = knexCache
        /\ s \in DOMAIN switching'
        /\ switching'[s].closes = Cached
    BY <1>6 DEF BeginSwitch, Put
  <2> QED BY <2>1 DEF CachedPoolsLive, Cached
<1> QED
  BY <1>1, <1>2, <1>3, <1>4, <1>5, <1>6
     DEF Next, vars, Resolve, Leaves, Refused, Reuse, Connect,
         GetsNoConnection, Answered, SaveGateway, DeleteGateway, EndSwitch,
         SwitchAtOnce, ClearsAndSwitches

\* A pool that is open after a step that creates none was open before it, and
\* has its history.
LEMMA OpenShrinks ==
  ASSUME TypeOK, NEW P,
         \/ UNCHANGED pools
         \/ pools' = Destroy(P)
         \/ \E q \in DOMAIN pools : Closed(q)
  PROVE  /\ DOMAIN pools' = DOMAIN pools
         /\ \A p \in DOMAIN pools :
              /\ pools'[p].duringSwitch = pools[p].duringSwitch
              /\ IsOpen(p)' => IsOpen(p)
<1>1. CASE UNCHANGED pools
  BY <1>1 DEF IsOpen
<1>2. CASE pools' = Destroy(P)
  BY <1>2, DestroyFacts DEF TypeOK, IsOpen
<1>3. ASSUME NEW q \in DOMAIN pools, Closed(q)
      PROVE  /\ DOMAIN pools' = DOMAIN pools
             /\ \A p \in DOMAIN pools :
                  /\ pools'[p].duringSwitch = pools[p].duringSwitch
                  /\ IsOpen(p)' => IsOpen(p)
  <2>1. \A p \in DOMAIN pools : pools[p] \in Pool
    BY DEF TypeOK, IsMap
  <2> QED BY <1>3, <2>1 DEF Closed, IsOpen, Pool
<1> QED BY <1>1, <1>2, <1>3

LEMMA LeakStep ==
  TypeOK /\ CacheInv /\ LeakInv /\ [Next]_vars => LeakInv'
<1> SUFFICES ASSUME TypeOK, CacheInv, LeakInv, [Next]_vars PROVE LeakInv'
  OBVIOUS
<1> USE DEF LeakInv
<1>1. ASSUME UNCHANGED <<knexCache, switching>>,
             UNCHANGED pools \/ \E q \in DOMAIN pools : Closed(q)
      PROVE  LeakInv'
  <2>1. Cached' = Cached
    BY <1>1 DEF Cached
  <2> QED BY <1>1, <2>1, OpenShrinks DEF LostOnlyInSwitch, OldPoolsClosed
\* An entry that goes takes its pool with it.
<1>2. ASSUME NEW r \in DOMAIN calls, CreateFails(r) PROVE LeakInv'
  <2> DEFINE n == calls[r].name
  <2>1. /\ pools' = Destroy(Evicted(n))
        /\ knexCache' = Without(knexCache, Superseded(n))
        /\ switching' = switching
    BY <1>2 DEF CreateFails
  <2>2. ASSUME NEW p \in Cached, IsOpen(p)' PROVE p \in Cached'
    <3>1. PICK k \in DOMAIN knexCache : p = knexCache[k]
      BY DEF Cached
    <3>2. k \notin Superseded(n)
      BY <2>1, <2>2, <3>1, DestroyFacts DEF Evicted, IsOpen, TypeOK
    <3>3. k[1] # n
      BY <3>1, <3>2 DEF Superseded
    <3>4. k \in DOMAIN knexCache' /\ knexCache'[k] = p
      BY <2>1, <3>1, <3>3, RestOfCache
    <3> QED BY <3>4 DEF Cached
  <2> HIDE DEF n
  <2> QED BY <2>1, <2>2, OpenShrinks DEF LostOnlyInSwitch, OldPoolsClosed
<1>3. ASSUME NEW r \in DOMAIN calls, NEW q \in Pools, Create(r, q)
      PROVE  LeakInv'
  <2> DEFINE n == calls[r].name
             d == Destroy(Evicted(n))
             rest == Without(knexCache, Superseded(n))
  <2>1. /\ \E v : /\ pools' = Put(d, q, v)
                  /\ v.duringSwitch = (DOMAIN switching # {})
        /\ knexCache' = Put(rest, KeyOf(calls[r]), q)
        /\ switching' = switching
        /\ q \notin DOMAIN pools
    BY <1>3 DEF Create
  <2>2. DOMAIN d = DOMAIN pools
        /\ \A p \in DOMAIN pools :
             /\ d[p].duringSwitch = pools[p].duringSwitch
             /\ d[p].state = "open"
                  <=> pools[p].state = "open" /\ p \notin Evicted(n)
    BY DestroyFacts DEF TypeOK
  <2>3. /\ DOMAIN rest = {k \in DOMAIN knexCache : k[1] # n}
        /\ \A k \in DOMAIN rest : rest[k] = knexCache[k]
    BY RestOfCache
  <2>4. KeyOf(calls[r])[1] = n
    BY DEF KeyOf
  <2> HIDE DEF n, d, rest
  <2>5. q \in Cached' /\ pools'[q].duringSwitch = (DOMAIN switching # {})
    BY <2>1 DEF Cached, Put
  <2>6. ASSUME NEW p \in DOMAIN pools', p # q
        PROVE  /\ p \in DOMAIN pools
               /\ pools'[p].duringSwitch = pools[p].duringSwitch
               /\ IsOpen(p)' => IsOpen(p) /\ p \notin Evicted(n)
    BY <2>1, <2>2, <2>6 DEF Put, IsOpen
  <2>7. ASSUME NEW p \in Cached, p \notin Evicted(n) PROVE p \in Cached'
    <3>1. PICK k \in DOMAIN knexCache : p = knexCache[k]
      BY DEF Cached
    <3>2. k[1] # n
      BY <2>7, <3>1 DEF Evicted, Superseded
    <3> QED BY <2>1, <2>3, <2>4, <3>1, <3>2 DEF Cached, Put
  <2>8. LostOnlyInSwitch'
    BY <2>5, <2>6, <2>7 DEF LostOnlyInSwitch
  <2>9. OldPoolsClosed'
    BY <2>1, <2>5, <2>6 DEF OldPoolsClosed
  <2> QED BY <2>8, <2>9
\* Every pool of the cache stops; what else is open was lost before.
<1>4. ASSUME NEW s \in Switches, NEW to \in Workspace, BeginSwitch(s, to)
      PROVE  LeakInv'
  <2>1. pools' = Destroy(Cached) /\ knexCache' = knexCache
    BY <1>4 DEF BeginSwitch
  <2>2. \A p \in DOMAIN pools :
          IsOpen(p)' => IsOpen(p) /\ p \notin Cached
    BY <2>1, DestroyFacts DEF TypeOK, IsOpen
  <2> QED BY <2>1, <2>2, OpenShrinks DEF LostOnlyInSwitch, OldPoolsClosed
\* The switch that waits vouches for all that is open.
<1>5. ASSUME NEW s \in DOMAIN switching, EndSwitch(s) PROVE LeakInv'
  <2>1. pools' = pools /\ DOMAIN switching # {}
    BY <1>5 DEF EndSwitch
  <2> QED BY <2>1 DEF LostOnlyInSwitch, OldPoolsClosed, IsOpen
<1>6. ASSUME NEW to \in Workspace, SwitchAtOnce(to) PROVE LeakInv'
  <2>1. /\ pools' = pools /\ switching' = switching
        /\ \A p \in Cached : ~IsOpen(p)
    BY <1>6 DEF SwitchAtOnce, IsOpen
  <2> QED BY <2>1 DEF LostOnlyInSwitch, OldPoolsClosed, IsOpen
<1> QED
  BY <1>1, <1>2, <1>3, <1>4, <1>5, <1>6
     DEF Next, vars, Resolve, Leaves, Refused, Reuse, Connect,
         GetsNoConnection, Answered, Closed, SaveGateway, DeleteGateway

-----------------------------------------------------------------------------

LEMMA Invariance == Spec => []IInv
<1>1. Init => IInv
  <2>1. Init => TypeOK
    BY InitType
  <2>2. Init => CacheInv /\ OwnPool /\ CachedPoolsLive /\ LeakInv
    BY EmptyMapType
       DEF Init, CacheInv, OnePoolPerName, CachedUnderOwnKey, OwnPool,
           CachedPoolsLive, Cached, LeakInv, LostOnlyInSwitch, OldPoolsClosed
  <2> QED BY <2>1, <2>2 DEF IInv
<1>2. IInv /\ [Next]_vars => IInv'
  BY TypeStep, CacheStep, OwnPoolStep, LiveStep, LeakStep DEF IInv
<1> QED BY <1>1, <1>2, PTL DEF Spec

\* OnePoolPerName: one pool is held under a name, however calls with old and
\* new configurations of it follow each other.
THEOREM OnePool == Spec => []OnePoolPerName
  BY Invariance, PTL DEF IInv, CacheInv

\* OwnPool: a call runs on a pool of the gateway and configuration it resolved.
THEOREM CallsOnOwnPool == Spec => []OwnPool
  BY Invariance, PTL DEF IInv

\* CachedPoolsLive: the cache hands out no pool that was destroyed, except
\* while the switch that destroys it goes on.
THEOREM NoDeadPools == Spec => []CachedPoolsLive
  BY Invariance, PTL DEF IInv

\* LostOnlyInSwitch: only a pool created while a switch waited is ever lost.
THEOREM LeaksBounded == Spec => []LostOnlyInSwitch
  BY Invariance, PTL DEF IInv, LeakInv

-----------------------------------------------------------------------------
(***************************************************************************)
(* A switch that waits.  SwitchEnds says that it comes to its end, which   *)
(* needs fairness; what makes that true is proved here: the pools it waits *)
(* for give out no more connections, so that the calls it waits for can    *)
(* only become fewer.                                                      *)
(***************************************************************************)

\* The calls that hold a connection of a pool the switch destroys.
Holding(s) ==
  {r \in DOMAIN calls :
     calls[r].phase = "connected" /\ calls[r].pool \in switching[s].closes}

\* The pools a switch waits for have stopped giving out connections.
ClosesStopped ==
  \A s \in DOMAIN switching :
    \A p \in switching[s].closes : p \in DOMAIN pools /\ ~IsOpen(p)

\* A call that has a connection keeps it to its end: neither an edit of the
\* gateway (sql.ts:16-24) nor a switch (sql.ts:36-39) closes a pool under it.
CallsFinish ==
  \A r \in DOMAIN calls :
    calls[r].phase = "connected" => pools[calls[r].pool].state # "closed"

\* While a switch waits, no call joins those it waits for, however many come
\* for the same gateway; and it goes on only when none of them is left.
WaitOnlyShrinks ==
  [][\A s \in DOMAIN switching :
       /\ s \in DOMAIN switching' => Holding(s)' \subseteq Holding(s)
       /\ s \notin DOMAIN switching' => Holding(s) = {}]_vars

WaitInv == ClosesStopped /\ CallsFinish

\* What a step does to pools that are not open, and to those that are closed.
LEMMA StoppedStaysStopped ==
  ASSUME TypeOK, [Next]_vars, NEW p \in DOMAIN pools
  PROVE  /\ p \in DOMAIN pools'
         /\ ~IsOpen(p) => ~IsOpen(p)'
<1>1. CASE UNCHANGED pools
  BY <1>1 DEF IsOpen
<1>2. ASSUME NEW P, pools' = Destroy(P)
      PROVE  p \in DOMAIN pools' /\ (~IsOpen(p) => ~IsOpen(p)')
  BY <1>2, DestroyFacts DEF TypeOK, IsOpen
<1>3. ASSUME NEW r \in DOMAIN calls, NEW q \in Pools, Create(r, q)
      PROVE  p \in DOMAIN pools' /\ (~IsOpen(p) => ~IsOpen(p)')
  <2> DEFINE d == Destroy(Evicted(calls[r].name))
  <2>1. /\ DOMAIN d = DOMAIN pools
        /\ d[p].state = "open" => pools[p].state = "open"
    BY DestroyFacts DEF TypeOK
  <2>2. p # q /\ \E v : pools' = Put(d, q, v)
    BY <1>3 DEF Create
  <2> HIDE DEF d
  <2> QED BY <2>1, <2>2 DEF Put, IsOpen
<1>4. ASSUME NEW q \in DOMAIN pools, Closed(q)
      PROVE  p \in DOMAIN pools' /\ (~IsOpen(p) => ~IsOpen(p)')
  <2>1. pools[p] \in Pool
    BY DEF TypeOK, IsMap
  <2> QED BY <1>4, <2>1 DEF Closed, IsOpen, Pool
<1> QED
  BY <1>1, <1>2, <1>3, <1>4
     DEF Next, vars, Resolve, Leaves, Refused, Reuse, CreateFails, Connect,
         GetsNoConnection, Answered, SaveGateway, DeleteGateway, BeginSwitch,
         EndSwitch, SwitchAtOnce

\* destroy() closes nothing at once.
LEMMA DestroyClosesNone ==
  ASSUME IsMap(pools, Pools, Pool), NEW P, NEW p \in DOMAIN pools
  PROVE  Destroy(P)[p].state = "closed" => pools[p].state = "closed"
<1>1. pools[p] \in Pool
  BY DEF IsMap
<1> QED BY <1>1 DEF Destroy, Pool

\* A connected call was connected before, on the same pool, or got its
\* connection of a pool that is open.
LEMMA ConnectedBefore ==
  ASSUME TypeOK, [Next]_vars,
         NEW r \in DOMAIN calls', calls'[r].phase = "connected"
  PROVE  /\ r \in DOMAIN calls
         /\ calls'[r].pool = calls[r].pool
         /\ \/ calls[r].phase = "connected"
            \/ IsOpen(calls[r].pool) /\ pools' = pools
<1> DEFINE Before == /\ r \in DOMAIN calls
                     /\ calls'[r].pool = calls[r].pool
                     /\ \/ calls[r].phase = "connected"
                        \/ IsOpen(calls[r].pool) /\ pools' = pools
<1>1. ASSUME UNCHANGED calls PROVE Before
  BY <1>1
<1>2. ASSUME NEW q, calls' = Without(calls, {q}) PROVE Before
  BY <1>2 DEF Without, Restrict
<1>3. ASSUME NEW q, NEW n, Resolve(q, n) PROVE Before
  BY <1>3 DEF Resolve, Put
<1>4. ASSUME NEW q \in DOMAIN calls, NEW p,
             calls' = [calls EXCEPT ![q].phase = "queued", ![q].pool = p]
      PROVE  Before
  <2>1. calls[q] \in Call
    BY DEF TypeOK, IsMap
  <2>2. DOMAIN calls' = DOMAIN calls
    BY <1>4
  <2>3. calls'[q].phase = "queued"
    BY <1>4, <2>1 DEF Call
  <2>4. \A x \in DOMAIN calls : x # q => calls'[x] = calls[x]
    BY <1>4
  <2> QED BY <2>2, <2>3, <2>4
<1>5. ASSUME NEW q \in DOMAIN calls, Connect(q) PROVE Before
  <2>1. calls[q] \in Call
    BY DEF TypeOK, IsMap
  <2>2. DOMAIN calls' = DOMAIN calls
    BY <1>5 DEF Connect
  <2>3. calls'[q].pool = calls[q].pool
    BY <1>5, <2>1 DEF Connect, Call
  <2>4. \A x \in DOMAIN calls : x # q => calls'[x] = calls[x]
    BY <1>5 DEF Connect
  <2> QED BY <1>5, <2>2, <2>3, <2>4 DEF Connect
<1> HIDE DEF Before
<1>6. Before
  BY <1>1, <1>2, <1>3, <1>4, <1>5
     DEF Next, vars, Leaves, Refused, Reuse, Create, CreateFails,
         GetsNoConnection, Answered, Closed, SaveGateway, DeleteGateway,
         BeginSwitch, EndSwitch, SwitchAtOnce
<1> QED BY <1>6 DEF Before

\* A pool a call is connected to is not closed by the step.
LEMMA NotClosedUnder ==
  ASSUME TypeOK, [Next]_vars,
         NEW r \in DOMAIN calls, calls[r].phase = "connected",
         calls[r].pool \in DOMAIN pools, pools[calls[r].pool].state # "closed"
  PROVE  pools'[calls[r].pool].state # "closed"
<1> DEFINE p == calls[r].pool
           Up == pools'[p].state # "closed"
<1>1. ASSUME UNCHANGED pools PROVE Up
  BY <1>1
<1>2. ASSUME NEW P, pools' = Destroy(P) PROVE Up
  BY <1>2, DestroyClosesNone DEF TypeOK
<1>3. ASSUME NEW q \in DOMAIN calls, NEW o \in Pools, Create(q, o) PROVE Up
  <2> DEFINE d == Destroy(Evicted(calls[q].name))
  <2>1. DOMAIN d = DOMAIN pools /\ d[p].state # "closed"
    BY DestroyFacts, DestroyClosesNone DEF TypeOK
  <2>2. p # o /\ \E v : pools' = Put(d, o, v)
    BY <1>3 DEF Create
  <2> HIDE DEF d, p
  <2> QED BY <2>1, <2>2 DEF Put, p
<1>4. ASSUME NEW q \in DOMAIN pools, Closed(q) PROVE Up
  <2>1. q # p
    BY <1>4 DEF Closed, Connected
  <2> QED BY <1>4, <2>1 DEF Closed
<1> HIDE DEF Up
<1>5. Up
  BY <1>1, <1>2, <1>3, <1>4
     DEF Next, vars, Resolve, Leaves, Refused, Reuse, CreateFails, Connect,
         GetsNoConnection, Answered, SaveGateway, DeleteGateway, BeginSwitch,
         EndSwitch, SwitchAtOnce
<1> QED BY <1>5 DEF Up

\* A switch that is going on keeps its pools; one that begins takes those of
\* the cache, which it has just destroyed.
LEMMA SwitchSteps ==
  ASSUME [Next]_vars, NEW s \in DOMAIN switching'
  PROVE  \/ s \in DOMAIN switching /\ switching'[s] = switching[s]
         \/ switching'[s].closes = Cached /\ pools' = Destroy(Cached)
<1>1. ASSUME NEW u, NEW to, BeginSwitch(u, to)
      PROVE  \/ s \in DOMAIN switching /\ switching'[s] = switching[s]
             \/ switching'[s].closes = Cached /\ pools' = Destroy(Cached)
  BY <1>1 DEF BeginSwitch, Put
<1>2. ASSUME NEW u, EndSwitch(u)
      PROVE  s \in DOMAIN switching /\ switching'[s] = switching[s]
  BY <1>2 DEF EndSwitch, Without, Restrict
<1> QED
  BY <1>1, <1>2
     DEF Next, vars, Resolve, Leaves, Refused, Reuse, Create, CreateFails,
         Connect, GetsNoConnection, Answered, Closed, SaveGateway,
         DeleteGateway, SwitchAtOnce

LEMMA WaitStep == IInv /\ WaitInv /\ [Next]_vars => WaitInv'
<1> SUFFICES ASSUME IInv, WaitInv, [Next]_vars PROVE WaitInv'
  OBVIOUS
<1>1. TypeOK
  BY DEF IInv
<1>2. ASSUME NEW s \in DOMAIN switching', NEW p \in switching'[s].closes
      PROVE  p \in DOMAIN pools' /\ ~IsOpen(p)'
  <2>1. CASE s \in DOMAIN switching /\ switching'[s] = switching[s]
    BY <1>1, <1>2, <2>1, StoppedStaysStopped DEF WaitInv, ClosesStopped
  <2>2. CASE switching'[s].closes = Cached /\ pools' = Destroy(Cached)
    <3>1. p \in Cached /\ p \in DOMAIN pools
      BY <1>2, <2>2 DEF Cached, IInv, CacheInv, CachedUnderOwnKey
    <3> QED BY <1>1, <2>2, <3>1, DestroyFacts DEF TypeOK, IsOpen
  <2> QED BY <2>1, <2>2, SwitchSteps
<1>3. ASSUME NEW r \in DOMAIN calls', calls'[r].phase = "connected"
      PROVE  pools'[calls'[r].pool].state # "closed"
  <2>1. /\ r \in DOMAIN calls
        /\ calls'[r].pool = calls[r].pool
        /\ \/ calls[r].phase = "connected"
           \/ IsOpen(calls[r].pool) /\ pools' = pools
    BY <1>1, <1>3, ConnectedBefore
  <2>2. CASE calls[r].phase = "connected"
    <3>1. calls[r].pool \in DOMAIN pools
      BY <2>1, <2>2 DEF IInv, OwnPool
    <3>2. pools[calls[r].pool].state # "closed"
      BY <2>1, <2>2 DEF WaitInv, CallsFinish
    <3> QED BY <1>1, <2>1, <2>2, <3>1, <3>2, NotClosedUnder
  <2>3. CASE IsOpen(calls[r].pool) /\ pools' = pools
    BY <2>1, <2>3 DEF IsOpen
  <2> QED BY <2>1, <2>2, <2>3
<1> QED BY <1>2, <1>3 DEF WaitInv, ClosesStopped, CallsFinish

LEMMA WaitInvariance == Spec => [](IInv /\ WaitInv)
<1>1. Init => WaitInv
  BY EmptyMapType DEF Init, WaitInv, ClosesStopped, CallsFinish
<1> QED BY <1>1, WaitStep, Invariance, PTL DEF Spec

\* CallsFinish: no pool is closed under a call that holds a connection of it.
THEOREM ConnectionsHeldToTheEnd == Spec => []CallsFinish
  BY WaitInvariance, PTL DEF WaitInv

LEMMA ShrinkStep ==
  ASSUME IInv, WaitInv, [Next]_vars, NEW s \in DOMAIN switching
  PROVE  /\ s \in DOMAIN switching' => Holding(s)' \subseteq Holding(s)
         /\ s \notin DOMAIN switching' => Holding(s) = {}
<1>1. ASSUME s \in DOMAIN switching' PROVE switching'[s] = switching[s]
  <2>1. ASSUME NEW u, NEW to, BeginSwitch(u, to) PROVE switching'[s] = switching[s]
    BY <2>1 DEF BeginSwitch, Put
  <2>2. ASSUME NEW u, EndSwitch(u) PROVE switching'[s] = switching[s]
    BY <1>1, <2>2 DEF EndSwitch, Without, Restrict
  <2> QED
    BY <2>1, <2>2
       DEF Next, vars, Resolve, Leaves, Refused, Reuse, Create, CreateFails,
           Connect, GetsNoConnection, Answered, Closed, SaveGateway,
           DeleteGateway, SwitchAtOnce
<1>2. ASSUME s \in DOMAIN switching', NEW r \in Holding(s)'
      PROVE  r \in Holding(s)
  <2>1. /\ r \in DOMAIN calls' /\ calls'[r].phase = "connected"
        /\ calls'[r].pool \in switching[s].closes
    BY <1>1, <1>2 DEF Holding
  <2>2. /\ r \in DOMAIN calls
        /\ calls'[r].pool = calls[r].pool
        /\ \/ calls[r].phase = "connected"
           \/ IsOpen(calls[r].pool) /\ pools' = pools
    BY <2>1, ConnectedBefore DEF IInv
  <2>3. ~IsOpen(calls[r].pool)
    BY <2>1, <2>2 DEF WaitInv, ClosesStopped
  <2> QED BY <2>1, <2>2, <2>3 DEF Holding
<1>3. ASSUME s \notin DOMAIN switching' PROVE Holding(s) = {}
  <2>1. EndSwitch(s)
    BY <1>3
       DEF Next, vars, Resolve, Leaves, Refused, Reuse, Create, CreateFails,
           Connect, GetsNoConnection, Answered, Closed, SaveGateway,
           DeleteGateway, SwitchAtOnce, BeginSwitch, EndSwitch, Put, Without,
           Restrict
  <2>2. \A p \in switching[s].closes : pools[p].state = "closed"
    BY <2>1 DEF EndSwitch, WaitsFor
  <2> QED BY <2>2 DEF Holding, WaitInv, CallsFinish
<1> QED BY <1>2, <1>3

\* WaitOnlyShrinks: calls that come while a switch waits do not prolong it,
\* and it never goes on past a call that still uses a pool it destroys.
THEOREM SwitchWaitsOnlyForItsCalls == Spec => WaitOnlyShrinks
<1>1. (IInv /\ WaitInv) /\ [Next]_vars =>
        [\A s \in DOMAIN switching :
           /\ s \in DOMAIN switching' => Holding(s)' \subseteq Holding(s)
           /\ s \notin DOMAIN switching' => Holding(s) = {}]_vars
  BY ShrinkStep
<1> QED BY <1>1, WaitInvariance, PTL DEF Spec, WaitOnlyShrinks
=============================================================================
