----------------------------- MODULE Workspace -----------------------------
(***************************************************************************)
(* The workspace being served: transform functions, the integrations that  *)
(* name them, and the apps whose routes name integrations.  Each registry  *)
(* holds its entries in memory and writes every change to a file           *)
(* (functionRegistry.ts, integrationRegistry.ts, appRegistry.ts), and the  *)
(* console API checks the references between them (consoleApi.ts).         *)
(*                                                                         *)
(* A handler runs in one turn of the event loop, except that generating    *)
(* endpoints for a database awaits its schema; the loop over the endpoints *)
(* is one turn as well, and is cut into one step per endpoint, during      *)
(* which nothing else but a crash can happen.                              *)
(*                                                                         *)
(* Integrations and apps are kept by twin registries: an operator with a   *)
(* parameter k stands for the same method of both.  A submission that its  *)
(* schema refuses changes nothing and is left out, but for the collisions  *)
(* within an app, which depend on what the app has already.                *)
(*                                                                         *)
(* Loading goes from registry to registry and is not undone when one of    *)
(* them cannot list its directory, so a reload or a switch may stop with   *)
(* some registries loaded and the others as they were.                     *)
(***************************************************************************)
EXTENDS Naturals, FiniteSets, JsMaps

CONSTANTS
  Fns,        \* names of transform functions
  Codes,      \* texts of functions
  Works,      \* those whose module exports a function when it is loaded
  Ids,        \* ids of integrations, apps and routes
  Paths,      \* method and normalized path of a route
  Malformed,  \* a config file that does not parse or breaks its schema, as
              \* one whose routes collide does
  FileOf,     \* id -> the file the console writes it to
  Inputs,     \* what can be submitted: registry -> set of <<id, config>>
  Bodies,     \* routes that can be submitted
  Generated,  \* routes that can be generated, each with its integration
  Folders,    \* workspace folders somebody made: [transforms, disk]
  MaxFaults,  \* bound: failed file operations and checkouts
  MaxWaiting  \* bound: generations that wait for the database at a time

Kinds == {"integrations", "apps"}

\* A "reference" stands for ${env.X} somewhere in the config.
Integration == [functions: SUBSET Fns, text: {"plain", "reference"}]

Route == [id: Ids, path: Paths, integration: Ids]

Config == [integrations |-> Integration, apps |-> SUBSET Route]

\* Files are listed in the order of their names, which are numbers here.
Files == Nat \ {0}

\* An entry keeps the absolute path of its file: after a switch that stopped,
\* one in a folder that its registry does not read any more.
Elsewhere == 0

Entry(k) == [config: Config[k], file: Files \cup {Elsewhere}]

Stored(k) == [id: Ids, config: Config[k]] \cup {Malformed}

\* Within an app no two routes share an id, or a method and normalized path.
NoCollision(routes) ==
  \A r, s \in routes : r.id = s.id \/ r.path = s.path => r = s

IsFolder(folder) ==
  /\ IsMap(folder.transforms, Fns, Codes)
  /\ DOMAIN folder.disk = Kinds
  /\ \A k \in Kinds : IsMap(folder.disk[k], Files, Stored(k))

ASSUME WorkspaceAssumption ==
  /\ Works \subseteq Codes
  /\ \A k \in Kinds : Malformed \notin [id: Ids, config: Config[k]]
  /\ FileOf \in [Ids -> Files]
  /\ DOMAIN Inputs = Kinds
  /\ \A k \in Kinds : Inputs[k] \subseteq Ids \X Config[k]
  /\ Bodies \subseteq Route
  /\ Generated \subseteq Route
  /\ \A r \in Generated : r.integration = r.id
  /\ \A folder \in Folders : IsFolder(folder)
  /\ MaxFaults \in Nat /\ MaxWaiting \in Nat

VARIABLES
  functions,   \* name -> code, in memory
  live,        \* registry -> id -> entry, in memory
  transforms,  \* name -> code, the .js files
  disk,        \* registry -> file -> what it holds
  astray,      \* registries that read another folder than the next start
  waiting,     \* apps with a generation that awaits the database's schema
  generating,  \* <<app, route>> that this turn has still to generate
  faults,      \* failed file operations and checkouts so far, for the bound
  \* History:
  diverged,    \* something was done that a reload will not repeat
  stale        \* registries of which the one they refer to changed beneath

history == <<diverged, stale>>

vars == <<functions, live, transforms, disk, astray, waiting, generating, faults, history>>

TypeOK ==
  /\ IsMap(functions, Fns, Works)
  /\ DOMAIN live = Kinds
  /\ \A k \in Kinds : IsMap(live[k], Ids, Entry(k))
  /\ IsFolder([transforms |-> transforms, disk |-> disk])
  /\ astray \subseteq {"functions"} \cup Kinds
  /\ waiting \subseteq Ids
  /\ generating \subseteq Ids \X Generated
  /\ faults \in 0..MaxFaults
  /\ diverged \in BOOLEAN /\ stale \subseteq Kinds

-----------------------------------------------------------------------------
(* References and collisions *)

\* Names that a config refers to.
Needs(k, config) ==
  IF k = "integrations" THEN config.functions
  ELSE {r.integration : r \in config}

\* Names that there are to refer to.
Available(k) ==
  IF k = "integrations" THEN DOMAIN functions ELSE DOMAIN live["integrations"]

-----------------------------------------------------------------------------
(* Loading *)

Parsed(dir) == {f \in DOMAIN dir : dir[f] # Malformed}

\* Of several files with one id the first counts, also when its entry is then
\* dropped for a reference.
FirstWithId(dir) ==
  {f \in Parsed(dir) : \A g \in Parsed(dir) : dir[g].id = dir[f].id => f <= g}

Kept(k, dir, names) ==
  {f \in FirstWithId(dir) : Needs(k, dir[f].config) \subseteq names}

\* References to variables are resolved when integrations are loaded, and
\* only then.  One that is not set makes the file an error: Malformed.
Substituted(k, config) ==
  IF k = "integrations" THEN [config EXCEPT !.text = "plain"] ELSE config

Loaded(k, dir, names) ==
  LET kept == Kept(k, dir, names) IN
  [id \in {dir[f].id : f \in kept} |->
     LET f == CHOOSE g \in kept : dir[g].id = id
     IN [config |-> Substituted(k, dir[f].config), file |-> f]]

\* A module is taken for a function whatever it exports.
LoadsBroken(dir) == dir

LoadedFunctions(dir) == Restrict(dir, {n \in DOMAIN dir : dir[n] \in Works})

\* Functions, then integrations, then apps, each checked against the last.
LoadedFrom(folder) ==
  LET fns  == LoadedFunctions(folder.transforms)
      ints == Loaded("integrations", folder.disk["integrations"], DOMAIN fns)
      apps == Loaded("apps", folder.disk["apps"], DOMAIN ints)
  IN [functions |-> fns,
      live |-> [k \in Kinds |-> IF k = "integrations" THEN ints ELSE apps]]

OnDisk == [transforms |-> transforms, disk |-> disk]

\* Every config file gave an entry.
AllLoaded(folder, entries) ==
  \A k \in Kinds :
    DOMAIN folder.disk[k] = {entries[k][id].file : id \in DOMAIN entries[k]}

\* Where a load stops: at the first registry that cannot list its directory,
\* after the three of this module, or nowhere.
Stops == Kinds \cup {"gateways", "nowhere"}

\* The registries that have loaded by then; that of functions always has.
Done(stop) ==
  CASE stop = "integrations" -> {}
    [] stop = "apps"         -> {"integrations"}
    [] OTHER                 -> Kinds

\* The registries that a switch has pointed at the other folder by then.
Reached(stop) == {"functions"} \cup Done(stop) \cup (Kinds \cap {stop})

\* Functions that cannot be listed are none: that error is swallowed.
Unlisted(folder) == [transforms |-> EmptyMap, disk |-> folder.disk]

LeftBehind(entries) ==
  [id \in DOMAIN entries |-> [entries[id] EXCEPT !.file = Elsewhere]]

Fault == faults < MaxFaults /\ faults' = faults + 1

\* A registry that has not loaded keeps its entries, over whatever the others
\* now hold; moved are the registries that were pointed at another folder.
Load(folder, stop, moved) ==
  \E read \in {folder, Unlisted(folder)} :
    LET loaded == LoadedFrom(read) IN
    /\ IF stop = "nowhere" /\ read = folder THEN UNCHANGED faults ELSE Fault
    /\ functions' = loaded.functions
    /\ live' = [k \in Kinds |-> IF k \in Done(stop) THEN loaded.live[k]
                                ELSE IF k \in moved THEN LeftBehind(live[k])
                                ELSE live[k]]
    /\ diverged' = (stop # "nowhere" \/ read # folder \/ ~AllLoaded(folder, loaded.live))
    /\ stale' = (stale \ Done(stop)) \cup (Kinds \cap {stop})

Init ==
  /\ \E folder \in Folders :
       LET loaded == LoadedFrom(folder) IN
       /\ transforms = folder.transforms
       /\ disk = folder.disk
       /\ functions = loaded.functions
       /\ live = loaded.live
       /\ diverged = ~AllLoaded(folder, loaded.live)
  /\ stale = {}
  /\ astray = {}
  /\ waiting = {}
  /\ generating = {}
  /\ faults = 0

Idle == generating = {}

-----------------------------------------------------------------------------
(* Functions *)

\* PUT /functions/:name, once the code compiles.  The file is written and then
\* loaded; when that fails, or a write, the old function stays in memory.
SaveFunction(n, code) ==
  /\ Idle
  /\ \/ /\ transforms' = Put(transforms, n, code)
        /\ functions' = IF code \in Works THEN Put(functions, n, code) ELSE functions
        /\ diverged' = (diverged \/ (code \notin Works /\ n \in DOMAIN functions))
        /\ UNCHANGED faults
     \/ /\ Fault
        /\ transforms' \in {transforms} \cup
                           {Put(transforms, n, torn) : torn \in Codes \ Works}
        /\ diverged' = TRUE
        /\ UNCHANGED functions
  /\ UNCHANGED <<live, disk, astray, waiting, generating, stale>>

\* Nobody looks for integrations that use the function.
NoUsers(n) == {}

UsersOf(n) ==
  {i \in DOMAIN live["integrations"] :
     n \in live["integrations"][i].config.functions}

\* DELETE /functions/:name
DeleteFunction(n) ==
  /\ Idle
  /\ n \in DOMAIN functions
  /\ UsersOf(n) = {}
  /\ transforms' = Without(transforms, {n})
  /\ functions' = Without(functions, {n})
  /\ UNCHANGED <<live, disk, astray, waiting, generating, faults, history>>

-----------------------------------------------------------------------------
(* Integrations and apps *)

\* What upsert checks of a config when own is the id it may replace, if any.
Accepted(k, own, id, config, names) ==
  /\ Needs(k, config) \subseteq names
  /\ id \notin DOMAIN live[k] \ own
  /\ k = "apps" => NoCollision(config)

\* Memory while the file is written: a renamed entry is gone already.
Left(k, old, id) == Without(live[k], {old} \ {id})

\* The file of a renamed entry stays.
NothingFreed(k, old, id) == disk[k]

\* The files while the new one is written: the old one is gone already.
Freed(k, old, id) ==
  Without(disk[k], {live[k][i].file : i \in {old} \cap DOMAIN live[k]} \ {FileOf[id]})

NewEntries(k, old, id, config) ==
  Put(Left(k, old, id), id, [config |-> config, file |-> FileOf[id]])

NewFiles(k, old, id, config) ==
  Put(Freed(k, old, id), FileOf[id], [id |-> id, config |-> config])

\* What a file that was cut short may still hold.  One that is cut within a
\* name holds a name that nobody has, which is as good as malformed.
CutShort(k, config) ==
  IF k = "integrations"
    THEN [functions: SUBSET config.functions, text: {"plain", config.text}]
  ELSE SUBSET config

\* The files when one of the file operations of upsert fails.
FilesAfterFailure(k, old, id, config) ==
  {disk[k], Freed(k, old, id)} \cup
  {Put(Freed(k, old, id), FileOf[id], torn) :
     torn \in {Malformed} \cup [id: {id}, config: CutShort(k, config)]}

\* The file that is written is that of another entry.
Overwrites(k, old, id) ==
  /\ FileOf[id] \in DOMAIN disk[k]
  /\ \A i \in {old} \cap DOMAIN live[k] : live[k][i].file # FileOf[id]

\* A rename takes the id away from routes that name it.
Strands(k, old, id) ==
  /\ k = "integrations" /\ old # id
  /\ \E a \in DOMAIN live["apps"] : old \in Needs("apps", live["apps"][a].config)

\* What a reload will not repeat.  References of a submission stay as they are
\* until then.
Diverges(k, old, id, config) ==
  Overwrites(k, old, id) \/ Strands(k, old, id) \/ Substituted(k, config) # config

\* upsert, for a new entry (own is empty, and old is id) or in place of old.
Upsert(k, own, old, id, config) ==
  IF ~Accepted(k, own, id, config, Available(k)) THEN UNCHANGED <<live, disk, faults, history>>
  ELSE /\ \/ /\ live' = [live EXCEPT ![k] = NewEntries(k, old, id, config)]
             /\ disk' = [disk EXCEPT ![k] = NewFiles(k, old, id, config)]
             /\ diverged' = (diverged \/ Diverges(k, old, id, config))
             /\ UNCHANGED faults
          \/ /\ Fault
             /\ live' = [live EXCEPT ![k] = Left(k, old, id)]
             /\ \E left \in FilesAfterFailure(k, old, id, config) :
                  disk' = [disk EXCEPT ![k] = left]
             /\ diverged' = TRUE
       /\ stale' = IF Strands(k, old, id) THEN stale \cup {"apps"} ELSE stale

\* POST /integrations and POST /apps
Create(k, id, config) ==
  /\ Idle
  /\ Upsert(k, {}, id, id, config)
  /\ UNCHANGED <<functions, transforms, astray, waiting, generating>>

\* PUT /integrations/:id and PUT /apps/:id; the body may hold another id.
Update(k, old, id, config) ==
  /\ Idle
  /\ old \in DOMAIN live[k]
  /\ Upsert(k, {old}, old, id, config)
  /\ UNCHANGED <<functions, transforms, astray, waiting, generating>>

\* Nobody looks for routes that name the integration.
NoDependents(k, id) == {}

\* Routes that name the integration.  Nobody asks for mounts of an app.
Dependents(k, id) ==
  {a \in DOMAIN live["apps"] : k = "integrations" /\ id \in Needs("apps", live["apps"][a].config)}

\* DELETE /integrations/:id and DELETE /apps/:id.  When the file cannot be
\* removed nothing changes.
Remove(k, id) ==
  /\ Idle
  /\ id \in DOMAIN live[k]
  /\ Dependents(k, id) = {}
  /\ live' = [live EXCEPT ![k] = Without(live[k], {id})]
  /\ disk' = [disk EXCEPT ![k] = Without(disk[k], {live[k][id].file})]
  /\ UNCHANGED <<functions, transforms, astray, waiting, generating, faults, history>>

-----------------------------------------------------------------------------
(* Routes, which are saved with their whole app *)

RoutesOf(a) == live["apps"][a].config

\* What an app names in vain: its routes are not served, and reported.
Unresolved(a) == Needs("apps", RoutesOf(a)) \ DOMAIN live["integrations"]

\* POST /apps/:appId/routes, which does not say that the app replaces itself.
\* A body that repeats a route of the app is refused for its id, which a set of
\* routes does not show.
AddRoute(a, route) ==
  /\ Idle
  /\ a \in DOMAIN live["apps"]
  /\ route \notin RoutesOf(a)
  /\ Upsert("apps", {}, a, a, RoutesOf(a) \cup {route})
  /\ UNCHANGED <<functions, transforms, astray, waiting, generating>>

OtherRoutes(a, rid) == {r \in RoutesOf(a) : r.id # rid}

\* PUT /apps/:appId/routes/:routeId; the body may hold another id.  A body
\* that repeats another route of the app is refused, as in AddRoute.
ReplaceRoute(a, rid, route) ==
  /\ Idle
  /\ a \in DOMAIN live["apps"]
  /\ \E r \in RoutesOf(a) : r.id = rid
  /\ route \notin OtherRoutes(a, rid)
  /\ Upsert("apps", {a}, a, a, OtherRoutes(a, rid) \cup {route})
  /\ UNCHANGED <<functions, transforms, astray, waiting, generating>>

\* DELETE /apps/:appId/routes/:routeId
RemoveRoute(a, rid) ==
  /\ Idle
  /\ a \in DOMAIN live["apps"]
  /\ \E r \in RoutesOf(a) : r.id = rid
  /\ Upsert("apps", {a}, a, a, OtherRoutes(a, rid))
  /\ UNCHANGED <<functions, transforms, astray, waiting, generating>>

-----------------------------------------------------------------------------
(* Generating endpoints for a database *)

\* POST /gateways/:name/generate-crud, up to the call of the database.
StartGeneration(a) ==
  /\ Idle
  /\ a \in DOMAIN live["apps"]
  /\ waiting' = waiting \cup {a}
  /\ Cardinality(waiting') <= MaxWaiting
  /\ UNCHANGED <<functions, live, transforms, disk, astray, generating, faults, history>>

\* The database answers with its tables and procedures, or not at all.
Introspected(a, routes) ==
  /\ Idle
  /\ a \in waiting
  /\ waiting' = waiting \ {a}
  /\ generating' = {a} \X routes
  /\ UNCHANGED <<functions, live, transforms, disk, astray, faults, history>>

GeneratedIntegration == [functions |-> {}, text |-> "plain"]

\* The id is in use, or the app has a route like it.
Skipped(a, route) ==
  \/ route.id \in DOMAIN live["integrations"]
  \/ /\ a \in DOMAIN live["apps"]
     /\ \E r \in RoutesOf(a) : r.id = route.id \/ r.path = route.path

\* The app takes the route once the integration is there.  As in AddRoute, the
\* upsert does not say that the app replaces itself.
RouteAdded(a, route) ==
  /\ a \in DOMAIN live["apps"]
  /\ Accepted("apps", {}, a, RoutesOf(a) \cup {route},
              DOMAIN live["integrations"] \cup {route.id})

\* tryUpsert.  The integration is created, then the app is saved with the
\* route; when that is refused the integration is removed again, with the
\* file.  When the integration cannot be written there is none to remove, and
\* when it cannot be removed it stays and the error ends the turn.  File errors
\* of the save of the app are not looked at: RouteAdded does not hold of an app
\* that is there.
Generate(a, route) ==
  LET new   == NewEntries("integrations", route.id, route.id, GeneratedIntegration)
      files == NewFiles("integrations", route.id, route.id, GeneratedIntegration)
      mixed == Diverges("integrations", route.id, route.id, GeneratedIntegration)
      added == RouteAdded(a, route)
  IN
  /\ <<a, route>> \in generating
  /\ IF Skipped(a, route)
       THEN UNCHANGED <<live, disk, faults, diverged>>
            /\ generating' = generating \ {<<a, route>>}
     ELSE
       \/ /\ added
          /\ live' = [k \in Kinds |-> IF k = "integrations" THEN new
                                      ELSE NewEntries(k, a, a, RoutesOf(a) \cup {route})]
          /\ disk' = [k \in Kinds |-> IF k = "integrations" THEN files
                                      ELSE NewFiles(k, a, a, RoutesOf(a) \cup {route})]
          /\ diverged' = (diverged \/ mixed)
          /\ generating' = generating \ {<<a, route>>}
          /\ UNCHANGED faults
       \/ /\ ~added
          /\ disk' = [disk EXCEPT !["integrations"] = Without(files, {FileOf[route.id]})]
          /\ diverged' = (diverged \/ mixed)
          /\ generating' = generating \ {<<a, route>>}
          /\ UNCHANGED <<live, faults>>
       \/ /\ ~added
          /\ Fault
          /\ live' = [live EXCEPT !["integrations"] = new]
          /\ disk' = [disk EXCEPT !["integrations"] = files]
          /\ diverged' = (diverged \/ mixed)
          /\ generating' = {}
       \/ /\ Fault
          /\ \E left \in FilesAfterFailure("integrations", route.id, route.id,
                                            GeneratedIntegration) :
               disk' = [disk EXCEPT !["integrations"] = left]
          /\ diverged' = TRUE
          /\ generating' = generating \ {<<a, route>>}
          /\ UNCHANGED live
  /\ UNCHANGED <<functions, transforms, astray, waiting, stale>>

-----------------------------------------------------------------------------
(* Reload, switch, restart and the world around *)

\* POST /reload
Reload(stop) ==
  /\ Idle
  /\ Load(OnDisk, stop, {})
  /\ UNCHANGED <<transforms, disk, astray, waiting, generating>>

\* PUT /settings: another folder, which from here on is "the disk" of every
\* registry that was reached.  The next start reads it when all is done.
Switch(folder, stop) ==
  /\ Idle
  /\ Load(folder, stop, Reached(stop))
  /\ transforms' = folder.transforms
  /\ disk' = [k \in Kinds |-> IF k \in Reached(stop) THEN folder.disk[k] ELSE disk[k]]
  /\ astray' = IF stop = "nowhere" THEN {} ELSE astray \cup Reached(stop)
  /\ UNCHANGED <<waiting, generating>>

\* The folder that the next start reads, when folder is what it holds for
\* registries that have gone astray.
Reported(folder) ==
  [transforms |-> IF "functions" \in astray THEN folder.transforms ELSE transforms,
   disk |-> [k \in Kinds |-> IF k \in astray THEN folder.disk[k] ELSE disk[k]]]

\* The process dies, in whatever turn, and is started again; one that cannot
\* list its directories does not start.
Restart(reported) ==
  /\ Load(reported, "nowhere", {})
  /\ transforms' = reported.transforms
  /\ disk' = reported.disk
  /\ astray' = {}
  /\ waiting' = {}
  /\ generating' = {}

\* A checkout replaces the files that the registries read.
CheckOut(folder) ==
  /\ Idle
  /\ Fault
  /\ transforms' = folder.transforms
  /\ disk' = folder.disk
  /\ diverged' = TRUE
  /\ UNCHANGED <<functions, live, astray, waiting, generating, stale>>

Next ==
  \/ \E n \in Fns, code \in Codes : SaveFunction(n, code)
  \/ \E n \in Fns : DeleteFunction(n)
  \/ \E k \in Kinds : \E input \in Inputs[k] : Create(k, input[1], input[2])
  \/ \E k \in Kinds, old \in Ids : \E input \in Inputs[k] :
       Update(k, old, input[1], input[2])
  \/ \E k \in Kinds, id \in Ids : Remove(k, id)
  \/ \E a \in Ids, route \in Bodies : AddRoute(a, route)
  \/ \E a, rid \in Ids, route \in Bodies : ReplaceRoute(a, rid, route)
  \/ \E a, rid \in Ids : RemoveRoute(a, rid)
  \/ \E a \in Ids : StartGeneration(a)
  \/ \E a \in Ids, routes \in SUBSET Generated : Introspected(a, routes)
  \/ \E a \in Ids, route \in Generated : Generate(a, route)
  \/ \E stop \in Stops : Reload(stop)
  \/ \E folder \in Folders, stop \in Stops : Switch(folder, stop)
  \/ \E reported \in {Reported(folder) : folder \in Folders} : Restart(reported)
  \/ \E folder \in Folders : CheckOut(folder)

Spec == Init /\ [][Next]_vars

-----------------------------------------------------------------------------
(* Properties *)

\* Every function that a live integration names is live: saves check it, a
\* function in use cannot be deleted, one that fails to load leaves the old
\* one, and functions are loaded before the integrations that need them.  The
\* exception is a load that stopped at the integrations, which then name what
\* the functions were before, until they are loaded.
FunctionsThere ==
  "integrations" \notin stale =>
    \A i \in DOMAIN live["integrations"] :
      live["integrations"][i].config.functions \subseteq DOMAIN functions

\* Every route names a live integration, so that MountedRouteRegistry reports
\* no unknown one, unless an integration that routes name was renamed or a load
\* stopped at the apps, and apps have not been loaded since.
RoutesResolve ==
  "apps" \notin stale => \A a \in DOMAIN live["apps"] : Unresolved(a) = {}

\* A reload gives what is live, nothing less and nothing that was deleted or
\* renamed away, unless an error was reported or swallowed, another program
\* wrote the files, one file served two entries, a function that does not load
\* replaced one that did, a saved reference waits to be resolved, or an
\* integration was renamed under its routes.
LiveIsStored ==
  ~diverged => LoadedFrom(OnDisk) = [functions |-> functions, live |-> live]

\* A route that an app has room for can be added: only a duplicate id and a
\* colliding method and path are checked (consoleApi.ts:364-366).
RouteFits ==
  \A a \in DOMAIN live["apps"] : \A route \in Bodies \ RoutesOf(a) :
    LET routes == RoutesOf(a) \cup {route} IN
    NoCollision(routes) /\ Needs("apps", routes) \subseteq Available("apps") =>
      Accepted("apps", {}, a, routes, Available("apps"))
=============================================================================
