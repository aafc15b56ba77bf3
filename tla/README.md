# naimix: a verification development

TLA+ models of the naimix gateway (the TypeScript program under `src/`), the
TLC configurations that check them, and theorems about them checked by TLAPS.
Paths are relative to the repository root.

## The program

naimix is one Node process that serves HTTP endpoints described by
configuration.  A request is matched against a table of mounted routes, its
parameters are extracted, the gateway of its integration is looked up, the
caller's session is resolved when that gateway requires one, a connector calls
the backend (JSON, XML, SOAP or SQL) and the answer is mapped to the output.  A
console API edits the same configuration while requests are served.

### Atomicity: what one action is

Everything runs on one thread.  `await` on the in-memory stores resolves in the
same turn of the event loop, so the code between two waits for the *network* (or
a timer, or a thread pool) runs without interruption by other requests.  An action of a model is
one such stretch.  The waits, and so the interleavings, are: a provider's login,
refresh or code exchange, the backend call, the destruction of SQL pools, schema
introspection, fetching a WSDL, and the key digest of `/start`.  Requests that
Node parses out of one chunk of one pipelined connection would share a turn and
interleave at microtasks; that is not modelled.

### Inventory

| Part | State | Operations | Interacts with | Hard because | Correct when |
|---|---|---|---|---|---|
| Caller sessions (`src/auth/authService.ts`, `sessionStore.ts`) | sessions by opaque token; refresh calls in flight by token | login, resolve, refresh, logout, revoke, list, sweep | dispatcher, auth routes, console, providers | requests, logouts, sweeps, edits and restarts fall between a refresh call and its answer; tokens rotate | one refresh per session at a time; nothing stale or foreign is handed out; no rotation is lost; what is useful is kept and what is dead leaves |
| Provider kinds (`src/auth/providers/`) | none | login, refresh | sessions | failures, slow answers | each answer carries what the kind can know |
| Redirect login (`src/server/authRoutes.ts`, `src/auth/oauth*.ts`) | pending flows by state | start, callback, sweep | browser, provider, sessions | the browser returns late, twice, with another provider, after an edit or a restart | an attempt is redeemed at most once, and in time |
| Gateways and auth providers registries (`src/server/gatewaysRegistry.ts`, `authProvidersRegistry.ts`) | raw configuration in memory; a file | save, delete, reload, switch, resolve | console, dispatcher, sessions | three steps of a save, any of which can fail; secrets that are masked on the way out | a refused save changes nothing; a blank secret keeps the stored one |
| SQL pools (`src/connectors/sql.ts`) | a cache of pools by name and configuration | get, evict, close all | dispatcher, console | closing waits while requests open pools; requests hold old configurations | one pool per name; every open pool is known |
| SOAP clients (`src/connectors/soap.ts`) | a cache of clients by WSDL | get, call | dispatcher | clients are shared by concurrent calls | a call carries its own endpoint and headers |
| JSON and XML connectors | none | call | dispatcher | - | - |
| Workspace (`functionRegistry.ts`, `integrationRegistry.ts`, `appRegistry.ts`) | functions, integrations, apps in memory; a directory of files each | save, rename, delete, reload, switch, generate | console, routes, dispatcher | references across the three; memory and disk; partial failure | what is live is what a reload would make live |
| Mounted routes (`mountedRouteRegistry.ts`, `deploymentConfig.ts`) | mounts | build, match | dispatcher, workspace | dangling references, overlapping base paths | every live route has its integration |
| Generated table operations (`src/connectors/sql.ts`) | a transaction for the length of a call | list, bulk create, update, delete, procedure | SQL pools, the database | numbers from the caller; entries are checked while earlier ones are already written; other connections | limits hold; a call does all it counts or nothing |
| Console front end (`public/console/console.js`) | copies of the lists; the panel, the id it edits, the form; a drawer | navigate, fill in, save, delete, reload, switch | console API | handlers overlap and finish in any order; another client writes; secrets are not shown | the tab acts on what it shows; it settles on what the server has; secrets survive a save |
| Parameters and mapping (`paramExtractor.ts`, `mapper.ts`, `paramSubst.ts`) | none | extract, map, substitute | dispatcher | nested paths and arrays | output has the declared shape |
| Operations metrics (`opsMetrics.ts`) | counters, the last 60 samples | record, sample | operations console | a bounded ring | bounded, newest kept |
| Start-up, schemas, OpenAPI, function compiler, folder picker, logger, operations front end, MCP server, mock backend, scripts | - | - | - | - | not modelled: wiring, pure translation or clients |

`PROJECT.json` lists each part with its source files and status, and every
hazard found while reading with its line and the properties that watch it.

## Plan

Order: what a caller depends on first, then what a request shares with others,
then the configuration behind it.

1. `JsMaps`, `SessionLifecycle`, `Sessions`: caller sessions.  *Done.*
2. `LoginAttempt`, `OAuthCodeFlow`: redirect logins.  *Done.*
3. `SqlPools`: the pools that requests share and configuration changes evict.  *Done.*
4. `ConfigRegistry`: gateways and auth providers in memory and on disk.  *Done.*
5. `Workspace`: functions, integrations and apps, their references, and the
   generation of endpoints.  *Done.*
6. The data plane: mounted routes, the dispatcher and the SOAP client cache, with
   edits between the arrival of a request and its answer.  *Done.*
7. `Console`: the browser's copies, forms and handlers against the console API,
   with the masking and merging of secrets.  *Done.*
8. `TableOperations`: bulk requests entry by entry against other connections,
   and the limits of a list.  *Done.*

Each module stands for one stateful part together with everything that can
happen to it between two of its steps: `Sessions` contains the console edits and
restarts that fall into a refresh, `SqlPools` the requests that hold an old
configuration.  The parts meet in few places (the provider of a session, the
gateway of a call, the function of an integration) and there a module has the
other part as an action that may happen at any time, so no larger composition is
needed to have the interleavings.  Where one part only relies on promises of another
there is an abstract specification: `SessionLifecycle` is what a caller may rely
on about a token, `LoginAttempt` what a redirect login promises; `Sessions` and
`OAuthCodeFlow` implement them by refinement mappings.

## Modules

`JsMaps` holds JavaScript maps as functions with a finite domain (`Put`,
`Without`, `IsMap`).  A module named `MC...` instantiates a specification for
TLC, one named `...Proofs` holds the theorems about it and the lemmas they rest
on.  `PROJECT.json` maps every definition to its lines.

### Sessions (`src/auth/authService.ts`, `sessionStore.ts`, `dispatch.ts`, `authRoutes.ts`)

| State | In the code |
|---|---|
| `store` | the map of `InMemorySessionStore` |
| `inFlight` | `refreshInFlight`: token to the request that made the call |
| `req` | requests that wait for a refresh or for the backend, with the record they captured |
| `logins`, `providers`, `clock` | login calls in progress, the auth providers, time in ticks of the refresh margin |
| `issued`, `ended` | history: for each session how many tokens the provider has made and which are the newest that reached the service; tokens somebody ended |

`UseAsIs`, `ShareRefresh`, `StartRefresh` and `CannotRefresh` are the paths of
`ensureFresh` up to its first wait; `RefreshAnswered` and `RefreshFailed` are the
rest of `doRefresh` together with everybody who awaited its promise, in one turn
of the event loop.  A refresh token is a serial number, so that a spent or lost
one can be told from the newest.  A refresh that fails may have failed after the
provider rotated the token (`AnswerLost`): the record then keeps a token that is
spent, as the code does.  `Logout`, `Revoke`, `Sweep`, `Restart`, `Tick`,
`SaveProvider` and `RemoveProvider` can happen in between.

### OAuthCodeFlow (`src/server/authRoutes.ts`, `src/auth/oauthPendingFlowStore.ts`, `oauthCodeFlow.ts`)

`flows` is the store of pending flows, `starts` are requests that wait for the
digest of the PKCE verifier, `calls` callbacks that wait for the code exchange.
`StartArrives`/`StartRedirects` are the halves of `/start`; `CallbackRefused`,
`CallbackDenied` and `CallbackExchanges` the outcomes of `/callback` before the
exchange, `ExchangeSucceeds`/`ExchangeFails` those after it.  The store deletes a
flow when it is looked up, so all three outcomes use it up.

### SqlPools (`src/connectors/sql.ts`, lines 1-112, and the settings route of `consoleApi.ts`)

`knexCache` is the cache (name and configuration to pool), `pools` every pool
ever built that matters, with its state and whether it was built while a switch
waited; `calls` are requests from the moment they resolved their gateway
(`Resolve`), which may be long before `getKnex` (`Reuse`, `Create`,
`CreateFails`), to the answer.  `BeginSwitch` and `EndSwitch` are
`closeAllSqlConnections` before and after its wait.  That a destroyed pool
closes when its last connection is returned is the library's behaviour and is
marked external.

### ConfigRegistry (`gatewaysRegistry.ts`, `authProvidersRegistry.ts`, settings in `consoleApi.ts`, `index.ts`)

The twin registries are one operator with a parameter `k`.  `raw` is what each
holds, `filePath` where it writes, `files` the files by folder (`Unreadable` when
torn), `configDir` what the console reports, `deployed` what `deployment.yaml` says, `env`
the environment.  `Save` keeps the order of the code: memory, then the check of
references, then the file.  `Switch` goes through the registries one after the
other and can stop at each (`stopped`).  `refused` and `diverged` are history: a
save that was refused, an error or foreign write after which memory and file differ.

### Workspace (`functionRegistry.ts`, `integrationRegistry.ts`, `appRegistry.ts`, `crudGenerator.ts`, `consoleApi.ts`)

`functions` and `live` are the memory of the three registries, `transforms` and
`disk` their files, keyed by file name: two ids can have one (`FileOf`).
`Upsert` is `upsert` of integrations and apps with its checks and the order of
its file operations, each of which may fail; `Create`, `Update`, `AddRoute`,
`ReplaceRoute`, `RemoveRoute` are the console routes that call it.
`StartGeneration`, `Introspected` and `Generate` are `generate-crud`: the wait
for the schema, then one step per endpoint, with a roll back that can itself fail.
`Loaded` is the loader: duplicates, dangling references and unreadable files are left
out.  `Reload` and `Switch` load one registry after the other and may stop before any
of them (`stop`), when its directory cannot be listed: the rest stay as they were.
After a switch that stopped, some registries read another folder than the next
start will (`astray`), and the files of those that were not loaded are out of their
reach (`Elsewhere`).  A write that fails may leave its file as it was, cut short so that
it does not parse, or cut short so that it parses as something smaller (`CutShort`).
History: `stale` names the registries whose references were left behind by a rename
or by a load that stopped, `diverged` says that a reload will not repeat what is live.

### Dispatch (`dispatch.ts`, `paramExtractor.ts`, `mountedRouteRegistry.ts`, `connectors/`)

`config` is what the three registries hold (apps with their routes, integrations,
gateways), `clients` the cache of `soap.ts`, `req` the requests that wait for a
session, a SOAP client or a backend, each with what it read on arrival.  `Arrive`
is the dispatcher up to its first wait: the first match of the mounted routes
(`Served`), the parameters (`Extracted`) and, when no session is needed, the
connector.  `SessionGranted` goes on from there.  `CallBackend` is `callBackend` with the
connectors up to their wait.  A client is fetched by the first call for its WSDL;
those who waited for it go on in one turn (`Resume`, while `Turn` holds everything else
back), each setting endpoint and headers on the client they share
(`Prepared`).  `Edit` replaces the whole configuration, which covers every save,
reload and switch.  A parameter's value is where it came from; which requests a
pattern matches and which operations a WSDL describes are constants.

### Console (`public/console/console.js`, `secretRedaction.ts`, item routes of `consoleApi.ts`)

| State | In the code |
|---|---|
| `server` | what the registries hold, by kind and id |
| `lists` | `INTEGRATIONS`, `APPS`, `GATEWAYS`, `AUTH_PROVIDERS` |
| `screen` | `ACTIVE_DETAIL`, `CURRENT_VIEW` (the breadcrumb), the `EDITING_...` ids, the form in the panel or the rows of a catalog |
| `drawer` | `ROUTE_EDITOR_STATE` and whether the route editor covers the page |
| `handlers`, `got` | event handlers that wait: for their write (`asked`, `done`) or for the seven requests of `loadAll` (`loading`), and what these have answered |
| `newest`, `unseen` | history: the load begun last; something failed or another client wrote since |

A handler is `Save...`, `Delete...`, `NewApp`, `Reload`, `SwitchWorkspace`,
`SaveRoute` or `DeleteRoute` up to its request, a `Serve...` action of the
server, `Answered` (what it does before `loadAll`), one `ServeGet` for each list,
in any order, and `Loaded`: the lists are replaced, an open catalog is rendered
again and the handler opens or leaves an editor (`Then`).  `Refused` and `Lost`
end it early; a lost answer may belong to a write that was done.  Of an item the
model keeps its type and one key and value row, which is enough for a row to be added,
renamed, hidden, shown, removed and merged; rows are independent of each
other in the code.  Connection fields are parsed when they are read, so that a value
may be stored as a number or a boolean (`Numerals`, `IsText`), which is neither masked
nor kept.

### TableOperations (`src/connectors/sql.ts`, lines 72-307)

`table` is one table, `calls` the bulk requests with the rows they have locked
and what these were before, `applied` history.  `Create` is one statement after
every row was looked at; `BeginTransaction`, `Statement`, `RefuseEntry`,
`Commit` and `Abort` are an update or delete, where an entry is checked only
when it is its turn.  `Foreign` is any other writer.  That a statement waits for
rows another transaction wrote, and that an error in the callback rolls back, is
the database's and knex's behaviour and is marked external.  `Limit` and
`Offset` are the arithmetic of `listRows` on what `Number()` can return, `NaN`
and infinity included.  A column with a reserved name (`limit`, `ids` and so on)
cannot be filtered on.

## Runs

All passing runs explore the whole state space of their instance.

| Run | Distinct states | Bounds, and why they are enough |
|---|---|---|
| `sessions` | 1,131,482 | 2 tokens, 2 requests, 2 providers, symmetric; clock to 2 with margin 1, two refreshes per session, of which the answer may be lost. Two requests and one session give every sharing and overtaking; the second session and provider show that nothing crosses over. |
| `sessions_live` | 262,496 | 1 token, 2 requests, up to 3 backend tokens, all provider kinds, answers that are expired at once, last two ticks or have no expiry, clock to 3, fairness. Three tokens let a rotation be lost and another one arrive after it. No symmetry, for liveness. |
| `sessions_logout` | violation | 1 token, 1 request: the logout falls between the call and its answer. |
| `oauth_flow` | 22,128 | 2 attempts, 2 callbacks, 2 providers, TTL 1, clock to 3, so that an attempt outlives its TTL unswept while another is started. Fairness of the sweep. |
| `sql_pools` | 299,355 | 1 name with 2 configurations, 2 calls, 2 overlapping switches, 2 pools of size 1, fairness. Size 1 makes calls queue; two pools let one be replaced while the other is closing. |
| `sql_pools_switch` | violation | 2 names with 1 configuration, 2 calls, 1 switch, no fairness: the second name is the pool that is opened during the wait. |
| `config_registry` | 638,314 | 2 folders, 2 names, 1 variable, at most 2 failed writes or outside edits. Two faults make one mistake meet another. Deadlock is not checked: a process whose file does not parse stays down until somebody repairs it. |
| `workspace` | 856,813 | 1 function that loads or not, 5 ids of which 3 share a file name, 4 hand-made folders (in order; duplicate ids and a broken function; an unreadable file; empty), 1 fault, 1 generation at a time, reloads and switches that stop anywhere. One function, an integration that uses it and an app that routes to it are the whole chain that a load can break. |
| `workspace_add_route` | violation | The same instance: a route is removed and then refused when it is added again. |
| `dispatch` | 41,814 | 3 requests, symmetric; 2 apps mounted in one place; 3 configurations; one WSDL with two endpoints, an operation it lacks and a gateway without one. Three requests let one fetch while two wait, and one call overtake another on the shared client. |
| `console` | 2,171,593 | 2 handlers, symmetric, each begun once; 2 ids, 2 keys of which one is sensitive by name, 2 values of which one reads as a number; 2 edits of a form that has secrets, 1 of others; five contents of the server, one of them empty. Two handlers give every overtaking of one load by another, and what a third could find is what another client may leave. |
| `table_operations` | 238,885 | 2 callers, symmetric, with bodies of up to 2 entries; a primary key of 2 columns over 2 values, so that a key can be incomplete; limits 1 and 2. Two entries give an entry that fails after one that was written; two callers a transaction that finds rows of another. |

What the passing runs show:

- `sessions`: one refresh per session in flight, shared by all who wait
  (`SingleFlight`); on every path a request gets the newest token of its own session that
  reached the service (`GrantIsSound`); a session that is over, with no call under
  way, never comes back (`OverForGood`); and the service implements `SessionLifecycle`
  (`ImplementsLifecycle`).
- `sessions_live`: no rotation that arrived is lost, whatever answers were lost
  before it (`NewestTokens`); a useful session is never dropped unasked
  (`SessionKeptWhileUseful`); everybody who waits is answered (`WaitersSettle`); dead
  sessions leave (`DeadSessionsSwept`).
- `oauth_flow`: an attempt is redeemed at most once (`ImplementsAttempt`,
  which includes `SingleUse`) and in time (`StaleAttemptsRefused`); abandoned ones
  leave (`AbandonedSwept`).
- `sql_pools`: one pool per name, no call on a pool of another configuration,
  pools are lost only in a switch, and a switch ends.
- `config_registry`: what is live is what is stored, what resolved goes on
  resolving, entries stay in their folder and both registries work on the reported
  one, with the exceptions that the properties name (`diverged`, `refused`, `stopped`);
  an entry is changed by its own save or delete only (`OthersUntouched`).
- `workspace`: functions that are named are live unless a load stopped at the
  integrations (`FunctionsThere`), routes resolve unless an integration was renamed
  under them or a load stopped at the apps (`RoutesResolve`), and a reload gives what is
  live, but for the errors and oddities that `LiveIsStored` names.
- `dispatch`: a call through a gateway that requires a provider carries the token
  of its session, whatever else is given under the reserved name
  (`AuthorizedCall`); SOAP calls that share a client each go to their own endpoint with
  their own headers (`SentAsOwn`); a request is served under the one configuration it
  read on arrival, however the console edits meanwhile (`OneConfiguration`).
  `README.md:1048-1051` of the repository is more careful about endpoints that share a
  WSDL than it needs to be, as long as the SOAP library reads endpoint and headers
  when a call is made and not later: that is external and assumed.  Headers of
  earlier calls stay on the client and go along with later ones, and a WSDL that
  could not be fetched fails until a restart; the model has both, and no document
  says otherwise.
- `console`: the panel, the breadcrumb, the id that Save and Delete address and the
  form belong together, and a catalog on the screen shows the tab's list
  (`ScreenAgrees`); a tab that has come to rest shows what the server has, unless
  something failed or another client wrote, or an overtaken load came last
  (`QuietShows`); no save stores a mask, a secret text that was left blank under the key
  it was shown with stays what it is, and what a save keeps stays masked
  (`SecretsSurvive`).
- `table_operations`: a bulk call changes exactly the rows it counts, at most one
  for each entry, or nothing (`AllOrNothing`), where one that failed may be whole if
  only its answer was lost; nobody reads a part of one (`SeenWhole`); a list is never
  larger than its limit, whatever limit was asked for (`PageBounds`).

### Fairness

Assumed: a provider answers a refresh call or the connection fails; a backend
responds (the JSON and XML connectors set timeouts; the SOAP connector takes a
`timeoutMs` and does not use it, and is taken at its word like the SQL driver); the
interval timers fire (`setInterval` in both stores); a pool that nothing holds up is
destroyed and the switch that awaits it goes on.  Weak fairness is enough, since each of these
stays possible until it happens.  Nothing is assumed of callers, the
console, the clock or the browser.  The calls to an OAuth token endpoint have no
timeout in the code (`providers/oauth2.ts:88`): without the assumption about
providers `WaitersSettle` would not hold.

### What disagrees with the repository's own words

1. **A refresh undoes a logout** (`authService.ts:229`, run `sessions_logout`):
   the answer of a refresh writes the captured record back, also when the
   session was ended meanwhile; `authRoutes.ts:80-82` says the token does not work any more.
2. **A switch can lose pools** (`sql.ts:38`, run `sql_pools_switch`): pools that
   requests open while `closeAllSqlConnections` waits are cleared from the cache without
   being closed, against `consoleApi.ts:622-625`.
3. **No route can be added to an app** (`consoleApi.ts:372`, run
   `workspace_add_route`): the upsert finds the app's own id in use.  Endpoint
   generation makes the same call (`crudGenerator.ts:136`) and rolls every endpoint back.

Seen while reading, in the models where it says so, and not checked by a run:

- A refresh whose answer is lost, or has no `access_token`, after the provider
  rotated the token leaves the spent one in the session (`providers/oauth2.ts:88,
  103`, `authService.ts:231-241`): the next refresh presents it, and a provider that
  looks for replays logs the caller out.  `Sessions` has it as `AnswerLost`.
- A directory that cannot be listed (`loader.ts:41`) stops a reload or a switch half
  way (`consoleApi.ts:289-291`, `639-641`): integrations from before stay over
  functions from after, or apps over integrations.  `Workspace` has it as `stop`; the
  registry where the load stopped is the exception that `FunctionsThere` and
  `RoutesResolve` name.
- "A failed generation never leaves an orphaned Integration" (`crudGenerator.ts:145-147`)
  holds only as long as its file can be removed: `remove` throws out of the catch
  clause otherwise (`:148`).  `Generate` has that outcome.
- A password in a connection field that looks like a number is stored as one
  (`console.js:186-193`, `1101`), and numbers are neither masked nor kept
  (`secretRedaction.ts:74`, `98`): it is shown in the console, and lost when the field is
  left blank.  A secret whose key is edited is lost as well, although its field says "leave
  blank to keep".
- A refused save of a gateway or provider stays in memory
  (`gatewaysRegistry.ts:143-145`) and every request that resolves the registry
  fails until it is corrected; `ConfigRegistry` has it as `refused`.
- The comment at `console.js:2898-2902` calls the app editor's copy of the routes
  the source of truth.  `Console` has the copy: saving the app after a route was
  deleted elsewhere, or by a handler that is still under way, brings the route back.
- A hidden common parameter whose eye is clicked before saving is stored blank,
  although its field says "leave blank to keep" (`console.js:1030`): the merge
  looks at the flags that were submitted.
- A save that is answered late opens its editor again over edits made meanwhile;
  an editor of an id that is no longer listed says "New" and still sends a PUT;
  loads that overlap can arrive out of order, and only the next load corrects it.
- A list without a sort column has no stable pages (`sql.ts:155-162`).
- `TECHNICAL.md:279` gives SOAP backends a `timeoutMs` of 15 s by default, which
  the schema accepts (`schema.ts:53`) and `soap.ts` never passes on.
- The MCP server calls `/console/api/endpoints`, which `consoleApi.ts` does not serve.

## Proofs

TLAPS checks every theorem below for all values of the constants that meet the
named assumption of the module (sets are any sets, bounds any naturals).

| Module | Inductive invariant | Why it is needed |
|---|---|---|
| `SessionsProofs` | `TypeOK`, `SingleFlight`, `NewestTokens`, and that tokens in use were issued (`KnownTokens`), that a refresh call is of the provider its waiters need, and that it took along the record that is stored | `NewestTokens` is about the answer of a call, so it must know what the call captured and that only one is under way. |
| `OAuthCodeFlowProofs` | `TypeOK`, `SingleUse`, `Drawn` (states in use were drawn), `BirthKept` (a flow's age is that of its start) | A state drawn twice would break single use; the age limit looks at what is stored. |
| `SqlPoolsProofs` | `TypeOK`, `CacheInv`, `OwnPool`, `CachedPoolsLive`, `LeakInv` | An entry must hold a pool of its own key, and while a switch waits no pool from before it may be open. |
| `ConfigRegistryProofs` | `TypeOK`, the four properties, `MemoryHome`, `DownInv` | A write is at home if memory is; a start must find what the crash left. |
| `WorkspaceProofs` | `TypeOK`, `FunctionsThere`, `RoutesResolve`; beside it `InStep` and `LiveIsFunction` | References are sound only together; a registry that a stopped load left behind is `stale` until a load reaches it. `InStep` says file by file what `LiveIsStored` says of a whole load. |
| `DispatchProofs` | `IInv`: every request is `Sound` for the clients as they are, and a request that waits for a session needs one | One request touches another only through a shared client: no step takes a client away or changes its state under those who wait for it. |
| `TableOperationsProofs` | `IInv`: `TypeOK`, `PageBounds`, `CallsSound` (with `OpenSound`), `NothingBefore`, `LocksDisjoint` | `AllOrNothing` is about calls that have ended; `OpenSound` says what a transaction under way must have for any end to be sound: what it wrote is behind its locks, and its results count it. A rollback gives back the rows it saved, which is sound only if no other transaction holds locks on them, and keeps keys apart only if nobody else wrote such a key. |
| `ConsoleProofs` | `IInv`: `ScreenAgrees` for whatever lists come next (`GoodScreen`), requests of kinds that exist, no mask in forms, requests or on the server, and `Fresh` | A handler renders for lists it has yet to receive, so agreement must follow from the lists having the same kinds. `Fresh` says of the load begun last that what it has got so far is what the server has, unless some write is done and has not begun its own load: such a handler will overtake it. |

Each is proved by one lemma per action, or per group of actions that change the
same state, which a step lemma puts together.  Action properties
(`GrantIsSound`, `SessionKeptWhileUseful`, `StaleAttemptsRefused`,
`OneConfiguration`, `OthersUntouched`, `SecretsSurvive`, `SeenWhole`)
follow from the invariant in the state before the step.  `ImplementsSessionLifecycle` and
`ImplementsLoginAttempt` show that initial states map to initial states and
every step to an abstract step or a stutter.

### Beyond the runs

Some theorems state what no run has as a property.  TLC agreed on each of them
on the instance of its component's run before it was proved.

| Theorem | What it says | Argument |
|---|---|---|
| `UsedUpForGood` (redirect login) | A state that was redeemed, refused, swept or lost is never used again. | From the refinement of `LoginAttempt`. |
| `DeadSessionsStayDead` (sessions) | A session that expired and holds no refresh token serves nobody and stays so until it is dropped: sweeping it takes nothing from anybody. | A refresh call is only made with a refresh token (`CallsHoldTokens`), so none is under way for a dead session. |
| `ConnectionsHeldToTheEnd`, `SwitchWaitsOnlyForItsCalls` (pools) | No pool is closed under a call that has a connection of it; while a switch waits, no call joins those it waits for, and it goes on only when none is left. | Pools that are being destroyed take no new call (`ClosesStopped`). |
| `FetchedOnce`, `FailureIsCached` (dispatch) | A SOAP client is fetched once and kept, failed or not, until the process restarts; headers set on it only accumulate. | No step removes a client or leaves `ready` or `failed`. |
| `RoutesNeverAdded` (workspace) | Adding a route and generating endpoints never change an app: disagreement 3 for every workspace, app and route. | An upsert that does not say what it replaces finds the app's own id in use. |

### Only model-checked

`WaitersSettle`, `DeadSessionsSwept`, `AbandonedSwept` and `SwitchEnds`:
liveness under fairness and ENABLED are out of the prover's reach, as are
induction over data and recursive operators.  What these four need of safety is
proved: everybody who waits, waits for a call that is under way
(`OneRefreshPerSession`); what is swept was dead (`DeadSessionsStayDead`) or past its
age (`AgeLimit`); a switch waits for fewer and fewer calls
(`SwitchWaitsOnlyForItsCalls`).  What remains with TLC is that the steps that
fairness promises do come.  Every other property of a passing run is proved.

What the proofs assume is named in each module and evaluated by its runs:
sets of values that are kept apart from the markers among them (`None`, `Bad`,
`Malformed`), bounds that are naturals, inputs that have their type, folders that
an earlier run of the program or a person could have left, and for table
operations finitely many columns and values, since counting rows of an infinite
table means nothing.

## Not modelled, and why

- The waits that have no bound in the code (a token call of `oauth2.ts`) or a
  library's bound (30 s in `openid-client`) are one action that may take arbitrarily long.
- What the data plane does to values (coercion, substitution, mapping), the
  growth of the cache of SOAP clients with every resolved WSDL, and refusals before the
  first wait, which leave no trace.
- Requests pipelined on one connection, which could interleave at microtasks.
- Test connections and schema introspection open pools of their own and close
  them; the cache does not see them.
- Hand-written gateway names that contain `::`, the separator of the cache's keys.
- Orderly shutdown: `Restart` loses as much or more.
- Folders from environment variables of older versions (`index.ts`), which
  override `deployment.yaml`.
- Submissions that break their schema change nothing and are left out.
- In the console: signing in and out, the list of sessions, samples and test
  panels, the button that generates endpoints, function pickers, the bind mode of an
  LDAP form, and the type an integration takes over from its gateway.  None of
  them writes a list or an editor's id; the answer of a test or sample can arrive in
  another editor than the one that asked.
- The parts of the inventory without a module: see the plan, and the notes in
  `PROJECT.json`.
