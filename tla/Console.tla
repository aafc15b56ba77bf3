------------------------------ MODULE Console ------------------------------
(***************************************************************************)
(* The console in the browser (public/console/console.js): one tab that    *)
(* keeps copies of the lists the console API serves, a panel that shows a  *)
(* catalog or the editor of one item, and handlers that write to the API   *)
(* and then load every list again.  A handler runs in one turn up to each  *)
(* await; in between the user clicks on, other handlers go on, and other   *)
(* clients write.                                                          *)
(*                                                                         *)
(* Of an item we keep its type and one of the key and value rows of its    *)
(* form (a header, a connection field, a client secret, a common           *)
(* parameter), since rows are edited, hidden and merged one by one, and of *)
(* an app the ids of its routes.  Signing in and out, the list of          *)
(* sessions, samples and tests change neither lists nor editors and are    *)
(* left out.                                                               *)
(***************************************************************************)
EXTENDS Naturals, JsMaps

CONSTANTS
  Ids,        \* ids and names of items
  Names,      \* kind -> those that can be typed
  NoId,       \* null, and the empty text of a name field
  RouteIds,   \* ids of routes
  NoRoute,    \* null
  Keys,       \* keys that rows can be given in a form
  Secretive,  \* those that match the pattern for sensitive keys
  NoKey,      \* there is no row
  Values,     \* values that can be typed
  Numerals,   \* those that a connection field takes for a number or a boolean
  Blank,      \* the empty text
  Redacted,   \* the dots that stand for a secret
  Handlers,   \* handlers that can be running
  Folders,    \* what the server can hold after a change from outside
  MaxBegun,   \* bound: handlers begun
  MaxEdits    \* bound: kind -> edits of fields

SharedKinds == {"integrations", "gateways", "authProviders"}

Kinds == SharedKinds \cup {"apps"}

NoKind == "none"

-----------------------------------------------------------------------------
(* Items and their rows *)

\* Fields with a key of their own that hold a secret.
OwnKeys == {"clientSecret", "bindPassword", "tokenSecret"}

RowKeys == Keys \cup OwnKeys

Sensitive == Secretive \cup OwnKeys

\* A row of common parameters is hidden by its flag, every other one by its
\* key.
Row ==
  [key: RowKeys \cup {NoKey}, value: Values \cup {Blank, Redacted},
   param: BOOLEAN, masked: BOOLEAN]

NoRow == [key |-> NoKey, value |-> Blank, param |-> FALSE, masked |-> FALSE]

Types ==
  {"call", "query", "generated", "fields", "soap", "basicLogin", "oauth2", "ldap", "app"}

Item == [type: Types, row: Row, routes: SUBSET RouteIds]

\* Types that can be picked in the form, the first one for a new item.
TypesOf(k) ==
  CASE k = "integrations"  -> {"call", "query"}
    [] k = "gateways"      -> {"fields", "soap"}
    [] k = "authProviders" -> {"basicLogin", "oauth2", "ldap"}
    [] k = "apps"          -> {"app"}

FirstType(k) ==
  CASE k = "integrations"  -> "call"
    [] k = "gateways"      -> "fields"
    [] k = "authProviders" -> "basicLogin"
    [] k = "apps"          -> "app"

\* Headers, query and arguments of a call.  A query has none, and a generated
\* backend cannot be edited: it is read back as it was.
BackendKeys(type) == IF type = "call" THEN Keys ELSE {}

\* Headers, or the fields of a database connection.
GatewayKeys(type) == IF type = "fields" THEN Keys ELSE {}

BasicLoginKeys == Keys

OAuthKeys == Keys \cup {"clientSecret"}

LdapKeys == {"bindPassword", "tokenSecret"}

ProviderKeys(type) ==
  CASE type = "basicLogin" -> BasicLoginKeys
    [] type = "oauth2"     -> OAuthKeys
    [] OTHER               -> LdapKeys

FormKeys(k, type) ==
  CASE k = "integrations"  -> BackendKeys(type)
    [] k = "gateways"      -> GatewayKeys(type)
    [] k = "authProviders" -> ProviderKeys(type)
    [] k = "apps"          -> {}

\* A text here is never sent to the browser; left blank it is kept on save.
\* Integrations are served as they are.  So are references to the environment,
\* which are no values here.
Hidden(k, row) ==
  \/ row.param /\ row.masked
  \/ ~row.param /\ k \in {"gateways", "authProviders"} /\ row.key \in Sensitive

\* The fields of a database connection are parsed: what looks like a number or
\* a boolean is stored as one.  Every other value is a text; so is what looks
\* like a number in a header, which is one of the other values here.
IsText(k, row) == k = "gateways" /\ ~row.param => row.value \notin Numerals

\* What GET answers.  Only texts are replaced.
RedactedRow(k, row) ==
  IF Hidden(k, row) /\ IsText(k, row) THEN [row EXCEPT !.value = Redacted] ELSE row

Listed(all) ==
  [k \in DOMAIN all |-> [id \in DOMAIN all[k] |->
     [all[k][id] EXCEPT !.row = RedactedRow(k, @)]]]

\* A blank field is stored as it is.
AsSubmitted(k, row, prev) == row

\* What a save stores of the submitted row where prev was stored.  Only a text
\* is kept, and only under the key that it was stored under.
Merged(k, row, prev) ==
  IF /\ Hidden(k, row) /\ row.value = Blank
     /\ prev.key = row.key /\ prev.param = row.param /\ IsText(k, prev)
  THEN [row EXCEPT !.value = prev.value] ELSE row

\* What there is of some or of all kinds.
IsAll(all) ==
  /\ DOMAIN all \subseteq Kinds
  /\ \A k \in DOMAIN all : IsMap(all[k], Ids, Item)

NoMask(all) == \A k \in DOMAIN all : \A id \in DOMAIN all[k] : all[k][id].row.value # Redacted

ASSUME ConsoleAssumption ==
  /\ Names \in [Kinds -> SUBSET Ids]
  /\ NoId \notin Ids /\ NoRoute \notin RouteIds
  /\ Secretive \subseteq Keys /\ NoKey \notin RowKeys
  /\ Redacted \notin Values \cup {Blank} /\ Numerals \subseteq Values
  /\ Handlers \cap {"shown", "old"} = {}
  /\ \A folder \in Folders : IsAll(folder) /\ NoMask(folder)
  /\ MaxBegun \in Nat /\ MaxEdits \in [Kinds -> Nat]

VARIABLES
  server,    \* kind -> id -> item: what the console API holds, for the kinds
             \* that are looked at
  lists,     \* the tab's copies: INTEGRATIONS, APPS, GATEWAYS, AUTH_PROVIDERS
  screen,    \* the panel, what it shows, and the globals that say so
  drawer,    \* the route editor on top of the page, and its ROUTE_EDITOR_STATE
  handlers,  \* handler -> what it asks for and how far it is
  got,       \* handler -> the lists its load has been answered
  begun,     \* handlers begun so far, for the bound
  edits,     \* fields edited so far, for the bound
  \* History:
  newest,    \* the load begun last, and whether it is what the lists show
  unseen     \* something changed or failed unseen after that load began

bounds == <<begun, edits>>

history == <<newest, unseen>>

vars == <<server, lists, screen, drawer, handlers, got, bounds, history>>

Request ==
  [op: {"save", "delete", "saveRoute", "deleteRoute", "reload", "switch"},
   kind: Kinds, id: Ids \cup {NoId}, name: Ids \cup {NoId}, item: Item,
   hint: RowKeys \cup {NoKey}, route: RouteIds \cup {NoRoute}, to: RouteIds \cup {NoRoute}]

Handler == [request: Request, stage: {"asked", "done", "loading"}]

Form ==
  [kind: Kinds \cup {NoKind}, of: Ids \cup {NoId}, found: BOOLEAN, name: Ids \cup {NoId},
   item: Item, hint: RowKeys \cup {NoKey}]

Screen ==
  [detail: {"empty", "catalog"} \cup Kinds,
   crumb: [kind: Kinds \cup {NoKind}, item: Ids \cup {NoId}],
   editing: [Kinds -> Ids \cup {NoId}],
   form: Form,
   table: [kind: SharedKinds \cup {NoKind}, ids: SUBSET Ids]]

Drawer ==
  [shown: BOOLEAN, app: Ids \cup {NoId}, route: RouteIds \cup {NoRoute}, picked: BOOLEAN]

TypeOK ==
  /\ IsAll(server) /\ IsAll(lists) /\ DOMAIN lists = DOMAIN server
  /\ screen \in Screen /\ drawer \in Drawer
  /\ IsMap(handlers, Handlers, Handler)
  /\ DOMAIN got = DOMAIN handlers
  /\ \A h \in DOMAIN got :
       IsAll(got[h]) /\ DOMAIN got[h] \subseteq DOMAIN server
  /\ begun \in 0..MaxBegun /\ edits \in Nat
  /\ newest \in Handlers \cup {"shown", "old"}
  /\ unseen \in BOOLEAN

-----------------------------------------------------------------------------
(* What the page shows.  What it hides is not kept: every way to show it    *)
(* again renders it anew.                                                   *)

NoItem == [type |-> "app", row |-> NoRow, routes |-> {}]

NoForm ==
  [kind |-> NoKind, of |-> NoId, found |-> FALSE, name |-> NoId, item |-> NoItem,
   hint |-> NoKey]

NoTable == [kind |-> NoKind, ids |-> {}]

NoDrawer == [shown |-> FALSE, app |-> NoId, route |-> NoRoute, picked |-> FALSE]

\* A catalog's rows are made from the tab's copy when it is rendered.
Table(all, k) == [kind |-> k, ids |-> DOMAIN all[k]]

\* closeDetail
Closed(s) ==
  [detail |-> "empty", crumb |-> [kind |-> NoKind, item |-> NoId],
   editing |-> [k \in Kinds |-> NoId], form |-> NoForm, table |-> NoTable]

\* showSharedCatalog
Catalog(s, all, k) ==
  [s EXCEPT !.detail = "catalog", !.crumb = [kind |-> k, item |-> NoId],
            !.form = NoForm, !.table = Table(all, k)]

\* backToSharedCatalog
Back(s, all, k) ==
  Catalog([s EXCEPT !.editing = [x \in Kinds |-> IF x = "apps" THEN @[x] ELSE NoId]], all, k)

\* A secret is not shown: the field is blank and says that it may stay so.
ShownRow(row) == IF row.value = Redacted THEN [row EXCEPT !.value = Blank] ELSE row

\* The form of an item that the tab knows, or else a blank one.  An app's
\* holds a copy of the routes, CURRENT_APP_ROUTES.
FormOf(all, k, id) ==
  IF id \in DOMAIN all[k]
  THEN LET item == all[k][id] IN
       [kind |-> k, of |-> id, found |-> TRUE, name |-> id,
        item |-> [item EXCEPT !.row = ShownRow(@)],
        hint |-> IF item.row.value = Redacted THEN item.row.key ELSE NoKey]
  ELSE [kind |-> k, of |-> id, found |-> FALSE,
        name |-> IF k \in {"gateways", "authProviders"} THEN id ELSE NoId,
        item |-> [NoItem EXCEPT !.type = FirstType(k)], hint |-> NoKey]

\* The editor of an item, or of a new one.
Opened(s, all, k, id) ==
  [s EXCEPT !.detail = k, !.crumb = [kind |-> k, item |-> id], !.editing[k] = id,
            !.form = FormOf(all, k, id), !.table = NoTable]

\* The name cannot be edited.
NameFixed(f) ==
  CASE f.kind = "integrations" -> FALSE
    [] f.kind = "apps"         -> f.found
    [] OTHER                   -> f.of # NoId

BlankScreen ==
  [detail |-> "empty", crumb |-> [kind |-> NoKind, item |-> NoId],
   editing |-> [k \in Kinds |-> NoId], form |-> NoForm, table |-> NoTable]

\* Right after signing in: everything is loaded and nothing is selected.
Init ==
  /\ server \in Folders
  /\ lists = Listed(server)
  /\ screen = BlankScreen /\ drawer = NoDrawer
  /\ handlers = EmptyMap /\ got = EmptyMap /\ begun = 0 /\ edits = 0
  /\ newest = "shown" /\ unseen = FALSE

-----------------------------------------------------------------------------
(* The user moves about.  The drawer covers the page while it is shown. *)

Shows(s) ==
  /\ ~drawer.shown
  /\ screen' = s
  /\ UNCHANGED <<server, lists, drawer, handlers, got, bounds, history>>

\* A category in the sidebar, or the pill of an integration.
ShowCatalog(k) == k \in DOMAIN lists /\ Shows(Catalog(screen, lists, k))

\* The close button of an editor.
BackToCatalog ==
  screen.detail \in SharedKinds /\ Shows(Back(screen, lists, screen.detail))

CloseDetail == screen.detail = "apps" /\ Shows(Closed(screen))

\* A row of the catalog, or its "+ Add" button.
OpenItem(k, id) ==
  /\ screen.detail = "catalog" /\ screen.crumb.kind = k
  /\ id \in screen.table.ids \cup {NoId}
  /\ Shows(Opened(screen, lists, k, id))

OpenIntegration(id) == OpenItem("integrations", id)

OpenGateway(id) == OpenItem("gateways", id)

OpenAuthProvider(id) == OpenItem("authProviders", id)

\* The sidebar names every app.
OpenApp(id) ==
  /\ "apps" \in DOMAIN lists /\ id \in DOMAIN lists["apps"]
  /\ Shows(Opened(screen, lists, "apps", id))

-----------------------------------------------------------------------------
(* The user edits the form of the panel *)

form == screen.form

Edits(f) ==
  /\ ~drawer.shown /\ screen.detail \in Kinds /\ edits < MaxEdits[screen.detail]
  /\ screen' = [screen EXCEPT !.form = f]
  /\ edits' = edits + 1
  /\ UNCHANGED <<server, lists, drawer, handlers, got, begun, history>>

TypeName(id) ==
  /\ ~NameFixed(form)
  /\ Edits([form EXCEPT !.name = id])
  /\ id \in Names[screen.detail] \ {form.name}

\* Another type shows other fields, all blank; common parameters stay.
ChangeType(type) ==
  /\ Edits(IF form.item.row.param THEN [form EXCEPT !.item.type = type]
           ELSE [form EXCEPT !.item.type = type, !.item.row = NoRow, !.hint = NoKey])
  /\ type \in TypesOf(screen.detail) \ {form.item.type}

\* "+ Add", or a field that the type always has.
AddRow(key, param) ==
  /\ Edits([form EXCEPT !.item.row = [NoRow EXCEPT !.key = key, !.param = param]])
  /\ form.item.row.key = NoKey
  /\ IF param THEN screen.detail = "gateways" /\ key \in Keys
     ELSE key \in FormKeys(screen.detail, form.item.type)

RemoveRow ==
  /\ form.item.row.key \in Keys
  /\ Edits([form EXCEPT !.item.row = NoRow, !.hint = NoKey])

\* The value stays as it is when the key is edited.
RenameKey(key) ==
  /\ form.item.row.key \in Keys \ {key}
  /\ Edits([form EXCEPT !.item.row.key = key])

TypeValue(value) ==
  /\ form.item.row.key # NoKey /\ form.item.row.value # value
  /\ Edits([form EXCEPT !.item.row.value = value])

\* The eye of a common parameter is the setting itself.
Toggle ==
  /\ form.item.row.param
  /\ Edits([form EXCEPT !.item.row.masked = ~@])

-----------------------------------------------------------------------------
(* Handlers up to their first await *)

Begin(h, request) ==
  /\ h \notin DOMAIN handlers /\ begun < MaxBegun
  /\ begun' = begun + 1
  /\ handlers' = Put(handlers, h, [request |-> request, stage |-> "asked"])
  /\ got' = Put(got, h, EmptyMap)
  /\ UNCHANGED <<server, lists, screen, drawer, edits, history>>

Ask(op, k, id) ==
  [op |-> op, kind |-> k, id |-> id, name |-> id, item |-> NoItem, hint |-> NoKey,
   route |-> NoRoute, to |-> NoRoute]

\* The submit button: POST for a new item, PUT for the one being edited.
Save(h, k) ==
  /\ ~drawer.shown /\ screen.detail = k /\ form.name # NoId
  /\ Begin(h, [Ask("save", k, screen.editing[k]) EXCEPT
                 !.name = form.name, !.item = form.item, !.hint = form.hint])

SaveIntegration(h) == Save(h, "integrations")

SaveGateway(h) == Save(h, "gateways")

SaveAuthProvider(h) == Save(h, "authProviders")

SaveApp(h) == Save(h, "apps")

\* The delete button is shown for items that the tab knows.
Delete(h, k) ==
  /\ ~drawer.shown /\ screen.detail = k /\ form.found
  /\ Begin(h, Ask("delete", k, screen.editing[k]))

DeleteIntegration(h) == Delete(h, "integrations")

DeleteGateway(h) == Delete(h, "gateways")

DeleteAuthProvider(h) == Delete(h, "authProviders")

DeleteApp(h) == Delete(h, "apps")

\* "+ New App" makes an id that no app the tab knows has.
NewApp(h, id) ==
  /\ ~drawer.shown /\ "apps" \in DOMAIN lists /\ id \in Names["apps"] \ DOMAIN lists["apps"]
  /\ Begin(h, [Ask("save", "apps", NoId) EXCEPT !.name = id])

Reload(h) == ~drawer.shown /\ Begin(h, Ask("reload", "apps", NoId))

SwitchWorkspace(h) == ~drawer.shown /\ Begin(h, Ask("switch", "apps", NoId))

-----------------------------------------------------------------------------
(* Routes of the app in the panel *)

Drawn(d) ==
  /\ drawer' = d
  /\ UNCHANGED <<server, lists, screen, handlers, got, bounds, history>>

\* The table of routes, in the editor of an app that the tab knows.
ShowsRoutes == ~drawer.shown /\ screen.detail = "apps" /\ form.found

RouteRows == form.item.routes

\* "Add route", or the pencil of a route.
OpenRoute(route) ==
  /\ ShowsRoutes /\ route \in RouteRows \cup {NoRoute}
  /\ Drawn([shown |-> TRUE, app |-> screen.editing["apps"], route |-> route,
            picked |-> route # NoRoute])

\* The cards of the picker.
Cards == IF "integrations" \in DOMAIN lists THEN DOMAIN lists["integrations"] ELSE {}

PickIntegration ==
  /\ drawer.shown /\ Cards # {} /\ ~drawer.picked
  /\ Drawn([drawer EXCEPT !.picked = TRUE])

CloseDrawer == drawer.shown /\ Drawn(NoDrawer)

SaveRoute(h, to) ==
  /\ drawer.shown /\ drawer.picked
  /\ Begin(h, [Ask("saveRoute", "apps", drawer.app) EXCEPT !.route = drawer.route, !.to = to])

DeleteRoute(h, route) ==
  /\ ShowsRoutes /\ route \in RouteRows
  /\ Begin(h, [Ask("deleteRoute", "apps", screen.editing["apps"]) EXCEPT !.route = route])

-----------------------------------------------------------------------------
(* The server *)

\* The item is stored under the id of the address.
SavedUnderAddress(r) == Put(server[r.kind], r.id, r.item)

\* POST refuses a name that is taken.  PUT refuses an item that is gone; a
\* gateway or provider keeps its name, others can take a free one.
Saved(r) ==
  LET items == server[r.kind]
      row   == IF r.id \in DOMAIN items THEN Merged(r.kind, r.item.row, items[r.id].row)
               ELSE r.item.row IN
  Put(Without(items, {r.id}), r.name, [r.item EXCEPT !.row = row])

CanSave(r) ==
  LET taken == DOMAIN server[r.kind] IN
  /\ r.id # NoId => r.id \in taken
  /\ r.name # r.id => r.name \notin taken

\* A route can be replaced or deleted.  Adding one is refused: the app is
\* saved as if it were new, under an id that is taken.
WithRoutes(r) ==
  LET app == server["apps"][r.id]
      new == IF r.op = "saveRoute" THEN {r.to} ELSE {} IN
  Put(server["apps"], r.id, [app EXCEPT !.routes = (@ \ {r.route}) \cup new])

CanRoute(r) ==
  /\ r.id \in DOMAIN server["apps"]
  /\ r.route \in server["apps"][r.id].routes
  /\ r.to # r.route => r.to \notin server["apps"][r.id].routes

Stage(h, stage) == h \in DOMAIN handlers /\ handlers[h].stage = stage

Serves(h, ops) ==
  /\ Stage(h, "asked") /\ handlers[h].request.op \in ops
  /\ handlers' = [handlers EXCEPT ![h].stage = "done"]
  /\ UNCHANGED <<lists, screen, drawer, got, bounds, history>>

ServeSave(h) ==
  /\ Serves(h, {"save"})
  /\ LET r == handlers[h].request IN
     CanSave(r) /\ server' = [server EXCEPT ![r.kind] = Saved(r)]

ServeDelete(h) ==
  /\ Serves(h, {"delete"})
  /\ LET r == handlers[h].request IN
     /\ r.id \in DOMAIN server[r.kind]
     /\ server' = [server EXCEPT ![r.kind] = Without(@, {r.id})]

ServeRoute(h) ==
  /\ Serves(h, {"saveRoute", "deleteRoute"})
  /\ LET r == handlers[h].request IN
     CanRoute(r) /\ server' = [server EXCEPT !["apps"] = WithRoutes(r)]

\* A reload or a switch finds what somebody has put into the folder.
ServeFolder(h) ==
  /\ Serves(h, {"reload", "switch"})
  /\ server' \in {folder \in Folders : DOMAIN folder = DOMAIN server}

\* Another client of the console API.
Elsewhere ==
  /\ server' \in {folder \in Folders : DOMAIN folder = DOMAIN server} \ {server}
  /\ unseen' = TRUE
  /\ UNCHANGED <<lists, screen, drawer, handlers, got, bounds, newest>>

\* One of the requests of loadAll.
ServeGet(h, k) ==
  /\ Stage(h, "loading") /\ k \in DOMAIN server \ DOMAIN got[h]
  /\ got' = [got EXCEPT ![h] = Put(@, k, Listed(server)[k])]
  /\ UNCHANGED <<server, lists, screen, drawer, handlers, bounds, history>>

-----------------------------------------------------------------------------
(* Handlers after an await *)

Ends(h) ==
  /\ handlers' = Without(handlers, {h})
  /\ got' = Without(got, {h})
  /\ UNCHANGED <<server, drawer, bounds>>

\* The handler is content with the answer and loads nothing.
AnsweredUnloaded(h) ==
  /\ Stage(h, "done")
  /\ UNCHANGED <<lists, screen, history>>
  /\ Ends(h)

\* A success closes what is done with; then everything is loaded.
Answered(h) ==
  /\ Stage(h, "done")
  /\ LET r == handlers[h].request IN
     /\ screen' = IF r.op = "switch" \/ (r.op = "delete" /\ r.kind = "apps")
                  THEN Closed(screen) ELSE screen
     /\ drawer' = IF r.op = "saveRoute" THEN NoDrawer ELSE drawer
  /\ handlers' = [handlers EXCEPT ![h].stage = "loading"]
  /\ newest' = h /\ unseen' = FALSE
  /\ UNCHANGED <<server, lists, got, bounds>>

\* The catalog keeps the rows it has.
Unrefreshed(s, all) == s

\* A catalog on the screen is rendered again.
Refreshed(s, all) ==
  IF s.crumb.kind \in SharedKinds /\ s.crumb.item = NoId
  THEN [s EXCEPT !.table = Table(all, s.crumb.kind)] ELSE s

\* What follows the load: the editor of what was saved, the catalog of what
\* was deleted.
Then(r, s, all) ==
  CASE r.op = "save"                            -> Opened(s, all, r.kind, r.name)
    [] r.op \in {"saveRoute", "deleteRoute"}    -> Opened(s, all, "apps", r.id)
    [] r.op = "delete" /\ r.kind # "apps"       -> Back(s, all, r.kind)
    [] r.op = "delete" /\ r.kind = "apps"       -> s
    [] r.op \in {"reload", "switch"}            -> s

Loaded(h) ==
  /\ Stage(h, "loading") /\ DOMAIN got[h] = DOMAIN server
  /\ lists' = got[h]
  /\ screen' = Then(handlers[h].request, Refreshed(screen, got[h]), got[h])
  /\ newest' = IF newest = h THEN "shown" ELSE IF newest = "shown" THEN "old" ELSE newest
  /\ UNCHANGED unseen
  /\ Ends(h)

\* An error is shown where the handler began, and that is all.
Refused(h) ==
  /\ Stage(h, "asked")
  /\ UNCHANGED <<lists, screen, history>>
  /\ Ends(h)

\* The answer to a write is lost, or that to one of the loads.
Lost(h) ==
  /\ Stage(h, "done") \/ Stage(h, "loading")
  /\ newest' = IF newest = h THEN "old" ELSE newest
  /\ unseen' = TRUE
  /\ UNCHANGED <<lists, screen>>
  /\ Ends(h)

-----------------------------------------------------------------------------

Navigates ==
  \/ \E k \in SharedKinds : ShowCatalog(k)
  \/ BackToCatalog \/ CloseDetail
  \/ \E id \in Ids \cup {NoId} :
       OpenIntegration(id) \/ OpenGateway(id) \/ OpenAuthProvider(id)
  \/ \E id \in Ids : OpenApp(id)
  \/ \E route \in RouteIds \cup {NoRoute} : OpenRoute(route)
  \/ PickIntegration \/ CloseDrawer

Fills ==
  \/ \E id \in Ids : TypeName(id)
  \/ \E type \in Types : ChangeType(type)
  \/ \E key \in RowKeys, param \in BOOLEAN : AddRow(key, param)
  \/ RemoveRow
  \/ \E key \in Keys : RenameKey(key)
  \/ \E value \in Values \cup {Blank} : TypeValue(value)
  \/ Toggle

Begins(h) ==
  \/ SaveIntegration(h) \/ SaveGateway(h) \/ SaveAuthProvider(h) \/ SaveApp(h)
  \/ DeleteIntegration(h) \/ DeleteGateway(h) \/ DeleteAuthProvider(h) \/ DeleteApp(h)
  \/ \E id \in Ids : NewApp(h, id)
  \/ Reload(h) \/ SwitchWorkspace(h)
  \/ \E to \in RouteIds : SaveRoute(h, to)
  \/ \E route \in RouteIds : DeleteRoute(h, route)

Serving(h) ==
  \/ ServeSave(h) \/ ServeDelete(h) \/ ServeRoute(h) \/ ServeFolder(h)
  \/ \E k \in Kinds : ServeGet(h, k)

GoesOn(h) == Answered(h) \/ Loaded(h) \/ Refused(h) \/ Lost(h)

Next ==
  \/ Navigates \/ Fills \/ Elsewhere
  \/ \E h \in Handlers : Begins(h) \/ Serving(h) \/ GoesOn(h)

Spec == Init /\ [][Next]_vars

-----------------------------------------------------------------------------
(* Properties *)

\* The panel, the breadcrumb, the id that Save and Delete will act on and the
\* form belong together whatever handler answered last, and a catalog on the
\* screen shows the tab's own list (console.js:484: "the catalog table has its
\* own copy of the list baked into its DOM").
ScreenAgrees ==
  /\ screen.detail = "empty" =>
       screen.crumb.kind = NoKind /\ \A k \in Kinds : screen.editing[k] = NoId
  /\ screen.detail = "catalog" =>
       /\ screen.crumb.kind \in SharedKinds /\ screen.crumb.item = NoId
       /\ screen.table = Table(lists, screen.crumb.kind)
  /\ screen.detail \in Kinds =>
       /\ screen.crumb = [kind |-> screen.detail, item |-> screen.editing[screen.detail]]
       /\ form.kind = screen.detail /\ form.of = screen.editing[screen.detail]

\* Every path that writes loads afterwards, also when several overlap: once
\* the load begun last is shown and no handler is left, the tab shows what the
\* server has, unless something failed or another client wrote meanwhile.
QuietShows ==
  DOMAIN handlers = {} /\ newest = "shown" /\ ~unseen => lists = Listed(server)

\* A save stores no mask.  It leaves a secret as it was if the field was left
\* blank under "(unchanged - leave blank to keep)", whatever other clients and
\* handlers did since the form was filled (secretRedaction.ts:91), unless what
\* is stored by then is a number or has another key; a field whose key was
\* edited, or that is shown from now on, is a new one.  And what a save keeps
\* that nobody typed stays hidden.
LeftBlank(r) == Hidden(r.kind, r.item.row) /\ r.item.row.value = Blank /\ r.item.row.key = r.hint

SameField(r, stored) ==
  stored.key = r.item.row.key /\ stored.param = r.item.row.param /\ IsText(r.kind, stored)

SecretKept(h) ==
  LET r == handlers[h].request
      before == server[r.kind][r.id].row
      after == server'[r.kind][r.name].row IN
  /\ after.value # Redacted
  /\ LeftBlank(r) /\ r.id \in DOMAIN server[r.kind] /\ SameField(r, before)
     => after.value = before.value
  /\ after.value # r.item.row.value => RedactedRow(r.kind, after).value = Redacted

SecretsSurvive == [][\A h \in Handlers : ServeSave(h) => SecretKept(h)]_vars
=============================================================================
