--------------------------- MODULE ConsoleProofs ---------------------------
(***************************************************************************)
(* The console for every number of items, values, handlers and folders.    *)
(* IInv adds three things to the properties: what is on the screen and     *)
(* what a handler asks for is of a kind that the server has; no form and   *)
(* no request holds a mask; and a load that nobody overtook has been       *)
(* answered only with what the server still has.                           *)
(***************************************************************************)
EXTENDS Console, TLAPS

\* A new Map holds nothing, of whatever type.
LEMMA EmptyMapType ==
  ASSUME NEW K, NEW V
  PROVE  IsMap(EmptyMap, K, V) /\ DOMAIN EmptyMap = {}
  BY DEF IsMap, EmptyMap

\* set keeps the type of a Map.
LEMMA PutType ==
  ASSUME NEW K, NEW V, NEW m, NEW k \in K, NEW v \in V, IsMap(m, K, V)
  PROVE  IsMap(Put(m, k, v), K, V)
  BY DEF IsMap, Put

\* delete keeps the type of a Map.
LEMMA WithoutType ==
  ASSUME NEW K, NEW V, NEW m, NEW S, IsMap(m, K, V)
  PROVE  IsMap(Without(m, S), K, V)
  BY DEF IsMap, Without, Restrict

\* What ScreenAgrees says of any screen and lists.
Agrees(s, all) ==
  /\ s.detail = "empty" =>
       s.crumb.kind = NoKind /\ \A k \in Kinds : s.editing[k] = NoId
  /\ s.detail = "catalog" =>
       /\ s.crumb.kind \in SharedKinds /\ s.crumb.item = NoId
       /\ s.table = Table(all, s.crumb.kind)
  /\ s.detail \in Kinds =>
       /\ s.crumb = [kind |-> s.detail, item |-> s.editing[s.detail]]
       /\ s.form.kind = s.detail /\ s.form.of = s.editing[s.detail]

GoodForm(f) == f \in Form /\ f.item.row.value # Redacted

GoodScreen(s, all) ==
  /\ s \in Screen /\ Agrees(s, all) /\ GoodForm(s.form)
  /\ s.detail \in Kinds => s.detail \in DOMAIN all
  /\ s.crumb.kind # NoKind => s.crumb.kind \in DOMAIN all

GoodRequest(r, all) ==
  /\ r \in Request /\ r.item.row.value # Redacted
  /\ r.op \in {"save", "delete", "saveRoute", "deleteRoute"} => r.kind \in DOMAIN all
  /\ r.op \in {"saveRoute", "deleteRoute"} => r.kind = "apps"
  /\ r.op = "save" => r.name \in Ids
  /\ r.op = "saveRoute" => r.to \in RouteIds

GoodHandlers ==
  /\ IsMap(handlers, Handlers, Handler)
  /\ \A h \in DOMAIN handlers : GoodRequest(handlers[h].request, server)

GoodDrawer ==
  /\ drawer \in Drawer
  /\ drawer.shown => "apps" \in DOMAIN server

GoodServer == IsAll(server) /\ NoMask(server)

GoodLists == IsAll(lists) /\ DOMAIN lists = DOMAIN server

IsFunction(f) == f = [x \in DOMAIN f |-> f[x]]

GoodLoads ==
  /\ DOMAIN got = DOMAIN handlers
  /\ \A h \in DOMAIN got :
       /\ IsAll(got[h]) /\ DOMAIN got[h] \subseteq DOMAIN server /\ IsFunction(got[h])
       /\ handlers[h].stage # "loading" => DOMAIN got[h] = {}

\* A load that is shown, or the one begun last as far as it has come, is what
\* the server has, once no handler has written without loading.
Fresh ==
  /\ newest \in Handlers \cup {"shown", "old"} /\ unseen \in BOOLEAN
  /\ newest \in Handlers => newest \in DOMAIN handlers /\ handlers[newest].stage = "loading"
  /\ ~unseen /\ (\A h \in DOMAIN handlers : handlers[h].stage # "done") =>
       /\ newest = "shown" => lists = Listed(server)
       /\ newest \in Handlers =>
            \A k \in DOMAIN got[newest] : got[newest][k] = Listed(server)[k]

Bounded == begun \in 0..MaxBegun /\ edits \in Nat

IInv ==
  /\ GoodServer /\ GoodLists /\ GoodScreen(screen, lists) /\ GoodDrawer
  /\ GoodHandlers /\ GoodLoads /\ Fresh /\ Bounded

-----------------------------------------------------------------------------
(* Screens *)

LEMMA IsAllAt ==
  ASSUME NEW all, IsAll(all), NEW k \in DOMAIN all
  PROVE  /\ k \in Kinds /\ IsMap(all[k], Ids, Item)
         /\ DOMAIN all[k] \subseteq Ids
         /\ \A id \in DOMAIN all[k] : all[k][id] \in Item
  BY DEF IsAll, IsMap

LEMMA NoItemGood == NoItem \in Item /\ NoItem.row.value # Redacted
  BY ConsoleAssumption DEF NoItem, Item, NoRow, Row, Types

\* The form of whatever is opened shows no mask.
LEMMA FormGood ==
  ASSUME NEW all, IsAll(all), NEW k \in DOMAIN all, NEW id \in Ids \cup {NoId}
  PROVE  /\ GoodForm(FormOf(all, k, id))
         /\ FormOf(all, k, id).kind = k /\ FormOf(all, k, id).of = id
<1>1. k \in Kinds /\ \A i \in DOMAIN all[k] : all[k][i] \in Item
  BY IsAllAt
<1>2. CASE id \in DOMAIN all[k]
  <2> DEFINE item == all[k][id]
             row == ShownRow(item.row)
             shown == [item EXCEPT !.row = ShownRow(@)]
             hint == IF item.row.value = Redacted THEN item.row.key ELSE NoKey
  <2>1. item \in Item /\ item.row \in Row
    BY <1>1, <1>2 DEF Item
  <2>2. row \in Row /\ row.value # Redacted
    BY <2>1, ConsoleAssumption DEF ShownRow, Row
  <2>3. hint \in RowKeys \cup {NoKey}
    BY <2>1 DEF Row
  <2>4. shown \in Item /\ shown.row = row
    BY <2>1, <2>2 DEF Item
  <2>5. FormOf(all, k, id) =
          [kind |-> k, of |-> id, found |-> TRUE, name |-> id,
           item |-> shown, hint |-> hint]
    BY <1>2 DEF FormOf
  <2>6. id \in Ids \cup {NoId} /\ k \in Kinds \cup {NoKind}
    BY <1>1
  <2> HIDE DEF item, row, shown, hint
  <2> QED BY <2>2, <2>3, <2>4, <2>5, <2>6 DEF GoodForm, Form
<1>3. CASE id \notin DOMAIN all[k]
  <2> DEFINE item == [NoItem EXCEPT !.type = FirstType(k)]
             name == IF k \in {"gateways", "authProviders"} THEN id ELSE NoId
  <2>1. FirstType(k) \in Types
    BY <1>1 DEF FirstType, Types, Kinds, SharedKinds
  <2>2. item \in Item /\ item.row = NoItem.row
    BY <2>1, NoItemGood DEF Item
  <2>3. FormOf(all, k, id) =
          [kind |-> k, of |-> id, found |-> FALSE, name |-> name, item |-> item,
           hint |-> NoKey]
    BY <1>3 DEF FormOf
  <2>4. name \in Ids \cup {NoId}
    OBVIOUS
  <2> HIDE DEF item, name
  <2> QED BY <1>1, <2>2, <2>3, <2>4, NoItemGood DEF GoodForm, Form
<1> QED BY <1>2, <1>3

LEMMA NoFormGood == GoodForm(NoForm)
  BY NoItemGood DEF GoodForm, NoForm, Form

LEMMA KindNames ==
  /\ SharedKinds \subseteq Kinds /\ NoKind \notin Kinds
  /\ "empty" \notin Kinds /\ "catalog" \notin Kinds
  BY DEF Kinds, SharedKinds, NoKind

LEMMA ClosedGood ==
  ASSUME NEW all, NEW s PROVE GoodScreen(Closed(s), all)
<1> DEFINE c == Closed(s)
<1>1. /\ c.detail = "empty" /\ c.crumb.kind = NoKind /\ c.form = NoForm
      /\ \A k \in Kinds : c.editing[k] = NoId
      /\ c \in Screen
  BY NoFormGood DEF Closed, Screen, GoodForm, NoTable
<1> HIDE DEF c
<1>2. GoodScreen(c, all)
  BY <1>1, NoFormGood, KindNames DEF GoodScreen, Agrees, GoodForm
<1> QED BY <1>2 DEF c

LEMMA TableGood ==
  ASSUME NEW all, IsAll(all), NEW k \in DOMAIN all \cap SharedKinds
  PROVE  Table(all, k) \in [kind: SharedKinds \cup {NoKind}, ids: SUBSET Ids]
  BY IsAllAt DEF Table

LEMMA CatalogGood ==
  ASSUME NEW all, IsAll(all), NEW s \in Screen, NEW k \in DOMAIN all \cap SharedKinds
  PROVE  GoodScreen(Catalog(s, all, k), all)
<1> DEFINE c == Catalog(s, all, k)
<1>1. /\ c.detail = "catalog" /\ c.crumb = [kind |-> k, item |-> NoId]
      /\ c.form = NoForm /\ c.table = Table(all, k) /\ c.editing = s.editing
      /\ c \in Screen
  BY TableGood, NoFormGood, KindNames DEF Catalog, Screen, GoodForm
<1> HIDE DEF c
<1>2. GoodScreen(c, all)
  BY <1>1, NoFormGood, KindNames DEF GoodScreen, Agrees, GoodForm, Table
<1> QED BY <1>2 DEF c

LEMMA BackGood ==
  ASSUME NEW all, IsAll(all), NEW s \in Screen, NEW k \in DOMAIN all \cap SharedKinds
  PROVE  GoodScreen(Back(s, all, k), all)
<1> DEFINE e == [s EXCEPT !.editing = [x \in Kinds |-> IF x = "apps" THEN @[x] ELSE NoId]]
<1>1. e \in Screen
  BY DEF Screen
<1> HIDE DEF e
<1>2. Back(s, all, k) = Catalog(e, all, k)
  BY DEF Back, e
<1> QED BY <1>1, <1>2, CatalogGood

LEMMA OpenedGood ==
  ASSUME NEW all, IsAll(all), NEW s \in Screen, NEW k \in DOMAIN all, NEW id \in Ids \cup {NoId}
  PROVE  GoodScreen(Opened(s, all, k, id), all)
<1> DEFINE o == Opened(s, all, k, id)
           f == FormOf(all, k, id)
<1>1. k \in Kinds
  BY IsAllAt
<1>2. GoodForm(f) /\ f.kind = k /\ f.of = id
  BY FormGood
<1> HIDE DEF f
<1>3. /\ o.detail = k /\ o.crumb = [kind |-> k, item |-> id]
      /\ o.editing = [s.editing EXCEPT ![k] = id] /\ o.form = f /\ o.table = NoTable
      /\ o \in Screen
  BY <1>1, <1>2 DEF Opened, Screen, GoodForm, NoTable, f
<1>4. s.editing \in [Kinds -> Ids \cup {NoId}]
  BY DEF Screen
<1>5. o.editing[k] = id
  BY <1>1, <1>3, <1>4
<1> HIDE DEF o
<1>6. GoodScreen(o, all)
  BY <1>1, <1>2, <1>3, <1>5, KindNames DEF GoodScreen, Agrees, GoodForm
<1> QED BY <1>6 DEF o

\* After a load the screen is good for the new lists.
LEMMA RefreshedGood ==
  ASSUME NEW all, IsAll(all), NEW before, DOMAIN before = DOMAIN all,
         NEW s, GoodScreen(s, before)
  PROVE  GoodScreen(Refreshed(s, all), all)
<1> DEFINE r == Refreshed(s, all)
<1>0. s \in Screen /\ s.crumb.kind \in Kinds \cup {NoKind}
  BY DEF GoodScreen, Screen
<1>1. CASE s.crumb.kind \in SharedKinds /\ s.crumb.item = NoId
  <2>1. s.crumb.kind \in DOMAIN all
    BY <1>1, KindNames DEF GoodScreen
  <2>2. Table(all, s.crumb.kind) \in [kind: SharedKinds \cup {NoKind}, ids: SUBSET Ids]
    BY <1>1, <2>1, TableGood
  <2>3. /\ r.detail = s.detail /\ r.crumb = s.crumb /\ r.editing = s.editing
        /\ r.form = s.form /\ r.table = Table(all, s.crumb.kind) /\ r \in Screen
    BY <1>0, <1>1, <2>2 DEF Refreshed, Screen, Table
  <2> HIDE DEF r
  <2>4. GoodScreen(r, all)
    BY <1>0, <1>1, <2>3 DEF GoodScreen, Agrees, GoodForm, Table
  <2> QED BY <2>4 DEF r
<1>2. CASE ~(s.crumb.kind \in SharedKinds /\ s.crumb.item = NoId)
  <2>1. r = s
    BY <1>2 DEF Refreshed
  <2> HIDE DEF r
  <2>2. GoodScreen(r, all)
    BY <1>0, <1>2, <2>1 DEF GoodScreen, Agrees, GoodForm
  <2> QED BY <2>2 DEF r
<1> QED BY <1>1, <1>2

LEMMA ThenGood ==
  ASSUME NEW all, IsAll(all), NEW s, GoodScreen(s, all), NEW r, GoodRequest(r, all)
  PROVE  GoodScreen(Then(r, s, all), all)
<1>1. s \in Screen /\ r \in Request
  BY DEF GoodScreen, GoodRequest
<1>2. CASE r.op = "save"
  <2>1. Then(r, s, all) = Opened(s, all, r.kind, r.name) /\ r.kind \in DOMAIN all /\ r.name \in Ids
    BY <1>2 DEF Then, GoodRequest
  <2> QED BY <1>1, <2>1, OpenedGood
<1>3. CASE r.op \in {"saveRoute", "deleteRoute"}
  <2>1. Then(r, s, all) = Opened(s, all, "apps", r.id) /\ "apps" \in DOMAIN all
    BY <1>3 DEF Then, GoodRequest
  <2>2. r.id \in Ids \cup {NoId}
    BY <1>1 DEF Request
  <2> QED BY <1>1, <2>1, <2>2, OpenedGood
<1>4. CASE r.op = "delete" /\ r.kind # "apps"
  <2>1. Then(r, s, all) = Back(s, all, r.kind) /\ r.kind \in DOMAIN all
    BY <1>4 DEF Then, GoodRequest
  <2>2. r.kind \in SharedKinds
    BY <1>1, <1>4 DEF Request, Kinds
  <2> QED BY <1>1, <2>1, <2>2, BackGood
<1>5. CASE r.op = "delete" /\ r.kind = "apps"
  BY <1>5 DEF Then
<1>6. CASE r.op \in {"reload", "switch"}
  BY <1>6 DEF Then
<1> QED BY <1>1, <1>2, <1>3, <1>4, <1>5, <1>6 DEF Request

-----------------------------------------------------------------------------
(* The user *)

\* Steps that change the screen only, or a field of it.
LEMMA ScreenStep ==
  ASSUME IInv, GoodScreen(screen', lists), edits' \in Nat,
         UNCHANGED <<server, lists, drawer, handlers, got, begun, history>>
  PROVE  IInv'
<1>1. GoodServer' /\ GoodLists' /\ GoodDrawer' /\ GoodHandlers' /\ GoodLoads'
  BY DEF IInv, GoodServer, GoodLists, GoodDrawer, GoodHandlers, GoodLoads, history
<1>2. Fresh'
  BY DEF IInv, Fresh, history
<1>3. Bounded'
  BY DEF IInv, Bounded
<1>4. GoodScreen(screen, lists)'
  BY DEF IInv
<1> QED BY <1>1, <1>2, <1>3, <1>4 DEF IInv

LEMMA ShowsKeeps ==
  ASSUME IInv, NEW s, GoodScreen(s, lists), Shows(s) PROVE IInv'
<1>1. screen' = s /\ edits' \in Nat
  BY DEF Shows, IInv, Bounded, bounds
<1>2. UNCHANGED <<server, lists, drawer, handlers, got, begun, history>>
  BY DEF Shows, bounds
<1>3. GoodScreen(screen', lists)
  BY <1>1
<1> QED BY <1>1, <1>2, <1>3, ScreenStep

LEMMA Known == IInv => IsAll(lists) /\ screen \in Screen /\ form \in Form /\ form.item.row.value # Redacted
  BY DEF IInv, GoodLists, GoodScreen, GoodForm, form

LEMMA ShowCatalogKeeps == ASSUME IInv, NEW k \in SharedKinds, ShowCatalog(k) PROVE IInv'
<1>1. k \in DOMAIN lists \cap SharedKinds /\ Shows(Catalog(screen, lists, k))
  BY DEF ShowCatalog
<1> QED BY <1>1, Known, CatalogGood, ShowsKeeps

LEMMA BackKeeps == ASSUME IInv, BackToCatalog PROVE IInv'
<1>1. screen.detail \in SharedKinds /\ Shows(Back(screen, lists, screen.detail))
  BY DEF BackToCatalog
<1>2. screen.detail \in DOMAIN lists
  BY <1>1, KindNames DEF IInv, GoodScreen
<1> QED BY <1>1, <1>2, Known, BackGood, ShowsKeeps

LEMMA CloseKeeps == ASSUME IInv, CloseDetail PROVE IInv'
<1>1. Shows(Closed(screen))
  BY DEF CloseDetail
<1> QED BY <1>1, ClosedGood, ShowsKeeps

LEMMA OpenItemKeeps == ASSUME IInv, NEW k \in Kinds, NEW id, OpenItem(k, id) PROVE IInv'
<1>1. /\ screen.detail = "catalog" /\ screen.crumb.kind = k
      /\ id \in screen.table.ids \cup {NoId} /\ Shows(Opened(screen, lists, k, id))
  BY DEF OpenItem
<1>2. k \in DOMAIN lists
  BY <1>1, KindNames DEF IInv, GoodScreen
<1>3. screen.table.ids \subseteq Ids
  BY Known DEF Screen
<1>4. id \in Ids \cup {NoId}
  BY <1>1, <1>3
<1> QED BY <1>1, <1>2, <1>4, Known, OpenedGood, ShowsKeeps

LEMMA OpenAppKeeps == ASSUME IInv, NEW id \in Ids, OpenApp(id) PROVE IInv'
<1>1. "apps" \in DOMAIN lists /\ Shows(Opened(screen, lists, "apps", id))
  BY DEF OpenApp
<1> QED BY <1>1, Known, OpenedGood, ShowsKeeps

LEMMA DrawnKeeps ==
  ASSUME IInv, NEW d, d \in Drawer, d.shown => "apps" \in DOMAIN server, Drawn(d) PROVE IInv'
<1>1. /\ drawer' = d
      /\ UNCHANGED <<server, lists, screen, handlers, got, begun, edits, newest, unseen>>
  BY DEF Drawn, bounds, history
<1>2. GoodServer' /\ GoodLists' /\ GoodHandlers' /\ GoodLoads'
  BY <1>1 DEF IInv, GoodServer, GoodLists, GoodHandlers, GoodLoads
<1>3. Fresh' /\ Bounded'
  BY <1>1 DEF IInv, Fresh, Bounded
<1>4. GoodScreen(screen, lists)'
  BY <1>1 DEF IInv
<1>5. GoodDrawer'
  BY <1>1 DEF GoodDrawer
<1> QED BY <1>2, <1>3, <1>4, <1>5 DEF IInv

\* Routes are shown with an app.
LEMMA RoutesOfApp ==
  IInv /\ ShowsRoutes => "apps" \in DOMAIN server /\ screen.editing["apps"] \in Ids \cup {NoId}
  BY Known DEF IInv, ShowsRoutes, GoodScreen, GoodLists, Kinds, Screen

LEMMA OpenRouteKeeps ==
  ASSUME IInv, NEW route \in RouteIds \cup {NoRoute}, OpenRoute(route) PROVE IInv'
<1> DEFINE d == [shown |-> TRUE, app |-> screen.editing["apps"], route |-> route,
                 picked |-> route # NoRoute]
<1>1. ShowsRoutes /\ Drawn(d)
  BY DEF OpenRoute
<1>2. d \in Drawer
  BY <1>1, RoutesOfApp DEF Drawer
<1>3. d.shown => "apps" \in DOMAIN server
  BY <1>1, RoutesOfApp
<1> HIDE DEF d
<1> QED BY <1>1, <1>2, <1>3, DrawnKeeps

LEMMA PickKeeps == ASSUME IInv, PickIntegration PROVE IInv'
<1> DEFINE d == [drawer EXCEPT !.picked = TRUE]
<1>1. drawer.shown /\ Drawn(d)
  BY DEF PickIntegration
<1>2. d \in Drawer
  BY DEF IInv, GoodDrawer, Drawer
<1>3. d.shown => "apps" \in DOMAIN server
  BY <1>1 DEF IInv, GoodDrawer
<1> HIDE DEF d
<1> QED BY <1>1, <1>2, <1>3, DrawnKeeps

LEMMA NoDrawerGood == NoDrawer \in Drawer /\ ~NoDrawer.shown
  BY DEF NoDrawer, Drawer

LEMMA CloseDrawerKeeps == ASSUME IInv, CloseDrawer PROVE IInv'
<1>1. Drawn(NoDrawer)
  BY DEF CloseDrawer
<1> QED BY <1>1, NoDrawerGood, DrawnKeeps

LEMMA NavigatesKeeps == ASSUME IInv, Navigates PROVE IInv'
<1>1. CASE \E k \in SharedKinds : ShowCatalog(k)
  BY <1>1, ShowCatalogKeeps
<1>2. CASE BackToCatalog \/ CloseDetail
  BY <1>2, BackKeeps, CloseKeeps
<1>3. CASE \E id \in Ids \cup {NoId} : OpenIntegration(id) \/ OpenGateway(id) \/ OpenAuthProvider(id)
  BY <1>3, OpenItemKeeps DEF OpenIntegration, OpenGateway, OpenAuthProvider, Kinds, SharedKinds
<1>4. CASE \E id \in Ids : OpenApp(id)
  BY <1>4, OpenAppKeeps
<1>5. CASE \E route \in RouteIds \cup {NoRoute} : OpenRoute(route)
  BY <1>5, OpenRouteKeeps
<1>6. CASE PickIntegration \/ CloseDrawer
  BY <1>6, PickKeeps, CloseDrawerKeeps
<1> QED BY <1>1, <1>2, <1>3, <1>4, <1>5, <1>6 DEF Navigates

\* An edit keeps the item that the form is about.
LEMMA EditsKeeps ==
  ASSUME IInv, NEW f, GoodForm(f), f.kind = form.kind, f.of = form.of, Edits(f) PROVE IInv'
<1> DEFINE s == [screen EXCEPT !.form = f]
<1>1. screen' = s /\ screen.detail \in Kinds /\ edits' = edits + 1
  BY DEF Edits
<1>2. UNCHANGED <<server, lists, drawer, handlers, got, begun, history>>
  BY DEF Edits
<1>3. /\ s.detail = screen.detail /\ s.crumb = screen.crumb /\ s.editing = screen.editing
      /\ s.form = f /\ s \in Screen
  BY Known DEF Screen, GoodForm
<1> HIDE DEF s
<1>4. GoodScreen(s, lists)
  BY <1>1, <1>3, KindNames DEF IInv, GoodScreen, Agrees, GoodForm, form
<1>5. edits' \in Nat
  BY <1>1 DEF IInv, Bounded
<1> QED BY <1>1, <1>2, <1>4, <1>5, ScreenStep

\* A form stays good when one of its fields is.
LEMMA FieldsGood ==
  ASSUME IInv
  PROVE  /\ \A id \in Ids : GoodForm([form EXCEPT !.name = id])
         /\ \A type \in Types, row \in Row, hint \in RowKeys \cup {NoKey} :
              row.value # Redacted =>
                GoodForm([form EXCEPT !.item.type = type, !.item.row = row, !.hint = hint])
<1> DEFINE f0 == form
<1>1. f0 \in Form /\ f0.item.row.value # Redacted
  BY Known
<1>2. f0.item \in Item
  BY <1>1 DEF Form
<1> HIDE DEF f0
<1>3. \A id \in Ids : GoodForm([f0 EXCEPT !.name = id])
  BY <1>1 DEF GoodForm, Form
<1>4. ASSUME NEW type \in Types, NEW row \in Row, NEW hint \in RowKeys \cup {NoKey},
             row.value # Redacted
      PROVE  GoodForm([f0 EXCEPT !.item.type = type, !.item.row = row, !.hint = hint])
  <2> DEFINE item == [f0.item EXCEPT !.type = type, !.row = row]
             f == [f0 EXCEPT !.item = item, !.hint = hint]
  <2>1. item \in Item /\ item.row = row
    BY <1>2 DEF Item
  <2>2. f = [f0 EXCEPT !.item.type = type, !.item.row = row, !.hint = hint]
    BY <1>1, <1>2 DEF Form, Item
  <2> HIDE DEF item
  <2>3. f \in Form /\ f.item = item
    BY <1>1, <2>1 DEF Form
  <2> HIDE DEF f
  <2>4. GoodForm(f)
    BY <1>4, <2>1, <2>3 DEF GoodForm
  <2> QED BY <2>2, <2>4
<1> QED BY <1>3, <1>4 DEF f0

\* The parts of the form on the screen.
LEMMA FormParts ==
  IInv => /\ form \in Form /\ form.item \in Item /\ form.item.row \in Row
          /\ form.item.type \in Types /\ form.hint \in RowKeys \cup {NoKey}
          /\ form.item.row.value # Redacted
  BY Known DEF Form, Item

LEMMA NoRowGood == NoRow \in Row /\ NoRow.value # Redacted
  BY ConsoleAssumption DEF NoRow, Row

\* Every edit of the item of a form sets a type, a row and a hint.
LEMMA ItemStep ==
  ASSUME IInv, NEW type \in Types, NEW row \in Row, NEW hint \in RowKeys \cup {NoKey},
         row.value # Redacted, NEW f, Edits(f),
         f = [form EXCEPT !.item.type = type, !.item.row = row, !.hint = hint]
  PROVE  IInv'
<1>1. GoodForm(f)
  BY FieldsGood
<1>2. f.kind = form.kind /\ f.of = form.of
  BY FormParts DEF Form
<1> QED BY <1>1, <1>2, EditsKeeps

LEMMA TypeNameKeeps == ASSUME IInv, NEW id \in Ids, TypeName(id) PROVE IInv'
<1> DEFINE f == [form EXCEPT !.name = id]
<1>1. Edits(f)
  BY DEF TypeName
<1>2. GoodForm(f)
  BY FieldsGood
<1>3. f.kind = form.kind /\ f.of = form.of
  BY FormParts DEF Form
<1> HIDE DEF f
<1> QED BY <1>1, <1>2, <1>3, EditsKeeps

LEMMA ChangeTypeKeeps == ASSUME IInv, NEW type \in Types, ChangeType(type) PROVE IInv'
<1> DEFINE typed == [form EXCEPT !.item.type = type]
           blank == [form EXCEPT !.item.type = type, !.item.row = NoRow, !.hint = NoKey]
<1>1. CASE form.item.row.param
  <2>1. Edits(typed)
    BY <1>1 DEF ChangeType
  <2>2. typed = [form EXCEPT !.item.type = type, !.item.row = form.item.row, !.hint = form.hint]
    BY FormParts DEF Form, Item
  <2> HIDE DEF typed
  <2> QED BY <2>1, <2>2, FormParts, ItemStep
<1>2. CASE ~form.item.row.param
  <2>1. Edits(blank)
    BY <1>2 DEF ChangeType
  <2> HIDE DEF blank
  <2>2. blank = [form EXCEPT !.item.type = type, !.item.row = NoRow, !.hint = NoKey]
    BY DEF blank
  <2> QED BY <2>1, <2>2, NoRowGood, ItemStep
<1> QED BY <1>1, <1>2

LEMMA AddRowKeeps ==
  ASSUME IInv, NEW key \in RowKeys, NEW param \in BOOLEAN, AddRow(key, param) PROVE IInv'
<1> DEFINE row == [NoRow EXCEPT !.key = key, !.param = param]
           f == [form EXCEPT !.item.row = row]
<1>1. Edits(f)
  BY DEF AddRow
<1>2. row \in Row /\ row.value # Redacted
  BY NoRowGood DEF Row
<1> HIDE DEF row
<1>3. f = [form EXCEPT !.item.type = form.item.type, !.item.row = row, !.hint = form.hint]
  BY FormParts DEF Form, Item
<1> HIDE DEF f
<1> QED BY <1>1, <1>2, <1>3, FormParts, ItemStep

LEMMA RemoveRowKeeps == ASSUME IInv, RemoveRow PROVE IInv'
<1> DEFINE f == [form EXCEPT !.item.row = NoRow, !.hint = NoKey]
<1>1. Edits(f)
  BY DEF RemoveRow
<1>2. f = [form EXCEPT !.item.type = form.item.type, !.item.row = NoRow, !.hint = NoKey]
  BY FormParts DEF Form, Item
<1> HIDE DEF f
<1> QED BY <1>1, <1>2, FormParts, NoRowGood, ItemStep

LEMMA RenameKeyKeeps == ASSUME IInv, NEW key \in Keys, RenameKey(key) PROVE IInv'
<1> DEFINE row == [form.item.row EXCEPT !.key = key]
           f == [form EXCEPT !.item.row.key = key]
<1>1. Edits(f)
  BY DEF RenameKey
<1>2. row \in Row /\ row.value # Redacted
  BY FormParts DEF Row, RowKeys
<1>3. f = [form EXCEPT !.item.type = form.item.type, !.item.row = row, !.hint = form.hint]
  BY FormParts DEF Form, Item
<1> HIDE DEF f, row
<1> QED BY <1>1, <1>2, <1>3, FormParts, ItemStep

LEMMA TypeValueKeeps ==
  ASSUME IInv, NEW value \in Values \cup {Blank}, TypeValue(value) PROVE IInv'
<1> DEFINE row == [form.item.row EXCEPT !.value = value]
           f == [form EXCEPT !.item.row.value = value]
<1>1. Edits(f)
  BY DEF TypeValue
<1>2. row \in Row /\ row.value # Redacted
  BY FormParts, ConsoleAssumption DEF Row
<1>3. f = [form EXCEPT !.item.type = form.item.type, !.item.row = row, !.hint = form.hint]
  BY FormParts DEF Form, Item
<1> HIDE DEF f, row
<1> QED BY <1>1, <1>2, <1>3, FormParts, ItemStep

LEMMA ToggleKeeps == ASSUME IInv, Toggle PROVE IInv'
<1> DEFINE row == [form.item.row EXCEPT !.masked = ~@]
           f == [form EXCEPT !.item.row.masked = ~@]
<1>1. Edits(f)
  BY DEF Toggle
<1>2. row \in Row /\ row.value # Redacted
  BY FormParts DEF Row
<1>3. f = [form EXCEPT !.item.type = form.item.type, !.item.row = row, !.hint = form.hint]
  BY FormParts DEF Form, Item
<1> HIDE DEF f, row
<1> QED BY <1>1, <1>2, <1>3, FormParts, ItemStep

LEMMA FillsKeeps == ASSUME IInv, Fills PROVE IInv'
<1>1. CASE (\E id \in Ids : TypeName(id)) \/ (\E type \in Types : ChangeType(type))
  BY <1>1, TypeNameKeeps, ChangeTypeKeeps
<1>2. CASE (\E key \in RowKeys, param \in BOOLEAN : AddRow(key, param)) \/ RemoveRow
  BY <1>2, AddRowKeeps, RemoveRowKeeps
<1>3. CASE \E key \in Keys : RenameKey(key)
  BY <1>3, RenameKeyKeeps
<1>4. CASE (\E value \in Values \cup {Blank} : TypeValue(value)) \/ Toggle
  BY <1>4, TypeValueKeeps, ToggleKeeps
<1> QED BY <1>1, <1>2, <1>3, <1>4 DEF Fills

-----------------------------------------------------------------------------
(* Handlers up to their first await *)

\* A handler starts with a request for what is there, and has loaded nothing.
LEMMA BeginKeeps ==
  ASSUME IInv, NEW h \in Handlers, NEW r, GoodRequest(r, server), Begin(h, r)
  PROVE  IInv'
<1> DEFINE asked == [request |-> r, stage |-> "asked"]
<1>1. /\ h \notin DOMAIN handlers /\ begun < MaxBegun /\ begun' = begun + 1
      /\ handlers' = Put(handlers, h, asked) /\ got' = Put(got, h, EmptyMap)
      /\ UNCHANGED <<server, lists, screen, drawer, edits, newest, unseen>>
  BY DEF Begin, history
<1>2. asked \in Handler /\ asked.request = r /\ asked.stage = "asked"
  BY DEF GoodRequest, Handler
<1> HIDE DEF asked
<1>3. /\ DOMAIN handlers' = DOMAIN handlers \cup {h} /\ handlers'[h] = asked
      /\ \A o \in DOMAIN handlers : handlers'[o] = handlers[o]
  BY <1>1 DEF Put
<1>4. /\ DOMAIN got' = DOMAIN handlers' /\ got'[h] = EmptyMap
      /\ \A o \in DOMAIN handlers : got'[o] = got[o]
  BY <1>1, <1>3 DEF Put, IInv, GoodLoads
<1>5. GoodServer' /\ GoodLists' /\ GoodDrawer'
  BY <1>1 DEF IInv, GoodServer, GoodLists, GoodDrawer
<1>6. GoodScreen(screen, lists)'
  BY <1>1 DEF IInv
<1>7. GoodHandlers'
  <2>1. IsMap(handlers', Handlers, Handler)
    BY <1>1, <1>2, PutType DEF IInv, GoodHandlers
  <2>2. \A o \in DOMAIN handlers' : GoodRequest(handlers'[o].request, server)
    BY <1>2, <1>3 DEF IInv, GoodHandlers
  <2> QED BY <1>1, <2>1, <2>2 DEF GoodHandlers, GoodRequest
<1>8. GoodLoads'
  <2>1. IsAll(EmptyMap) /\ DOMAIN EmptyMap = {} /\ IsFunction(EmptyMap)
    BY DEF IsAll, EmptyMap, IsFunction
  <2>2. ASSUME NEW o \in DOMAIN handlers'
        PROVE  /\ IsAll(got'[o]) /\ DOMAIN got'[o] \subseteq DOMAIN server'
               /\ IsFunction(got'[o])
               /\ handlers'[o].stage # "loading" => DOMAIN got'[o] = {}
    <3>1. CASE o = h
      BY <1>4, <2>1, <3>1
    <3>2. CASE o # h
      <4>1. o \in DOMAIN handlers /\ got'[o] = got[o] /\ handlers'[o] = handlers[o]
        BY <1>3, <1>4, <3>2
      <4>2. IsAll(got[o]) /\ DOMAIN got[o] \subseteq DOMAIN server /\ IsFunction(got[o])
        BY <4>1 DEF IInv, GoodLoads
      <4>3. handlers[o].stage # "loading" => DOMAIN got[o] = {}
        BY <4>1 DEF IInv, GoodLoads
      <4> QED BY <1>1, <4>1, <4>2, <4>3
    <3> QED BY <3>1, <3>2
  <2> QED BY <1>4, <2>2 DEF GoodLoads
<1>9. Fresh'
  BY <1>1, <1>2, <1>3, <1>4 DEF IInv, Fresh
<1>10. Bounded'
  BY <1>1, ConsoleAssumption DEF IInv, Bounded
<1> QED BY <1>5, <1>6, <1>7, <1>8, <1>9, <1>10 DEF IInv

\* A kind that is on the screen is one that the server has.
LEMMA OnScreen ==
  ASSUME IInv, NEW k \in Kinds, screen.detail = k
  PROVE  k \in DOMAIN server /\ screen.editing[k] \in Ids \cup {NoId}
  BY KindNames DEF IInv, GoodScreen, GoodLists, Screen

LEMMA AskGood ==
  ASSUME NEW op \in {"save", "delete", "saveRoute", "deleteRoute", "reload", "switch"},
         NEW k \in Kinds, NEW id \in Ids \cup {NoId}
  PROVE  Ask(op, k, id) \in Request /\ Ask(op, k, id).item.row.value # Redacted
  BY NoItemGood DEF Ask, Request

LEMMA SaveKeeps ==
  ASSUME IInv, NEW h \in Handlers, NEW k \in Kinds, Save(h, k) PROVE IInv'
<1> DEFINE ask == Ask("save", k, screen.editing[k])
           r == [ask EXCEPT !.name = form.name, !.item = form.item, !.hint = form.hint]
<1>1. screen.detail = k /\ form.name # NoId /\ Begin(h, r)
  BY DEF Save
<1>2. k \in DOMAIN server /\ screen.editing[k] \in Ids \cup {NoId}
  BY <1>1, OnScreen
<1>3. ask \in Request /\ ask.op = "save" /\ ask.kind = k
  BY <1>2, AskGood DEF Ask
<1>4. form.name \in Ids
  BY <1>1, FormParts DEF Form
<1> HIDE DEF ask
<1>5. /\ r \in Request /\ r.op = "save" /\ r.kind = k /\ r.name = form.name
      /\ r.item = form.item
  BY <1>3, <1>4, FormParts DEF Request
<1> HIDE DEF r
<1>6. GoodRequest(r, server)
  BY <1>2, <1>4, <1>5, FormParts DEF GoodRequest
<1> QED BY <1>1, <1>6, BeginKeeps

LEMMA DeleteKeeps ==
  ASSUME IInv, NEW h \in Handlers, NEW k \in Kinds, Delete(h, k) PROVE IInv'
<1> DEFINE r == Ask("delete", k, screen.editing[k])
<1>1. screen.detail = k /\ Begin(h, r)
  BY DEF Delete
<1>2. k \in DOMAIN server /\ screen.editing[k] \in Ids \cup {NoId}
  BY <1>1, OnScreen
<1>3. r \in Request /\ r.item.row.value # Redacted /\ r.op = "delete" /\ r.kind = k
  BY <1>2, AskGood DEF Ask
<1> HIDE DEF r
<1>4. GoodRequest(r, server)
  BY <1>2, <1>3 DEF GoodRequest
<1> QED BY <1>1, <1>4, BeginKeeps

LEMMA NewAppKeeps ==
  ASSUME IInv, NEW h \in Handlers, NEW id \in Ids, NewApp(h, id) PROVE IInv'
<1> DEFINE ask == Ask("save", "apps", NoId)
           r == [ask EXCEPT !.name = id]
<1>1. "apps" \in DOMAIN server /\ Begin(h, r)
  BY DEF NewApp, IInv, GoodLists
<1>2. ask \in Request /\ ask.item.row.value # Redacted /\ ask.op = "save" /\ ask.kind = "apps"
  BY AskGood DEF Ask, Kinds
<1> HIDE DEF ask
<1>3. /\ r \in Request /\ r.item = ask.item /\ r.op = "save" /\ r.kind = "apps" /\ r.name = id
  BY <1>2 DEF Request
<1> HIDE DEF r
<1>4. GoodRequest(r, server)
  BY <1>1, <1>2, <1>3 DEF GoodRequest
<1> QED BY <1>1, <1>4, BeginKeeps

LEMMA FolderKeeps ==
  ASSUME IInv, NEW h \in Handlers, NEW op \in {"reload", "switch"},
         Begin(h, Ask(op, "apps", NoId))
  PROVE  IInv'
<1> DEFINE r == Ask(op, "apps", NoId)
<1>1. r \in Request /\ r.item.row.value # Redacted /\ r.op = op
  BY AskGood DEF Ask, Kinds
<1> HIDE DEF r
<1>2. GoodRequest(r, server)
  BY <1>1 DEF GoodRequest
<1>3. Begin(h, r)
  BY DEF r
<1> QED BY <1>2, <1>3, BeginKeeps

LEMMA SaveRouteKeeps ==
  ASSUME IInv, NEW h \in Handlers, NEW to \in RouteIds, SaveRoute(h, to) PROVE IInv'
<1> DEFINE ask == Ask("saveRoute", "apps", drawer.app)
           r == [ask EXCEPT !.route = drawer.route, !.to = to]
<1>1. drawer.shown /\ Begin(h, r)
  BY DEF SaveRoute
<1>2. /\ "apps" \in DOMAIN server /\ drawer.app \in Ids \cup {NoId}
      /\ drawer.route \in RouteIds \cup {NoRoute}
  BY <1>1 DEF IInv, GoodDrawer, Drawer
<1>3. /\ ask \in Request /\ ask.item.row.value # Redacted /\ ask.op = "saveRoute"
      /\ ask.kind = "apps"
  BY <1>2, AskGood DEF Ask, Kinds
<1> HIDE DEF ask
<1>4. /\ r \in Request /\ r.item = ask.item /\ r.op = "saveRoute" /\ r.kind = "apps"
      /\ r.to = to
  BY <1>2, <1>3 DEF Request
<1> HIDE DEF r
<1>5. GoodRequest(r, server)
  BY <1>2, <1>3, <1>4 DEF GoodRequest
<1> QED BY <1>1, <1>5, BeginKeeps

LEMMA DeleteRouteKeeps ==
  ASSUME IInv, NEW h \in Handlers, NEW route \in RouteIds, DeleteRoute(h, route) PROVE IInv'
<1> DEFINE ask == Ask("deleteRoute", "apps", screen.editing["apps"])
           r == [ask EXCEPT !.route = route]
<1>1. ShowsRoutes /\ Begin(h, r)
  BY DEF DeleteRoute
<1>2. "apps" \in DOMAIN server /\ screen.editing["apps"] \in Ids \cup {NoId}
  BY <1>1, RoutesOfApp
<1>3. /\ ask \in Request /\ ask.item.row.value # Redacted /\ ask.op = "deleteRoute"
      /\ ask.kind = "apps"
  BY <1>2, AskGood DEF Ask, Kinds
<1> HIDE DEF ask
<1>4. r \in Request /\ r.item = ask.item /\ r.op = "deleteRoute" /\ r.kind = "apps"
  BY <1>3 DEF Request
<1> HIDE DEF r
<1>5. GoodRequest(r, server)
  BY <1>2, <1>3, <1>4 DEF GoodRequest
<1> QED BY <1>1, <1>5, BeginKeeps

LEMMA BeginsKeeps == ASSUME IInv, NEW h \in Handlers, Begins(h) PROVE IInv'
<1>1. CASE SaveIntegration(h) \/ SaveGateway(h) \/ SaveAuthProvider(h) \/ SaveApp(h)
  BY <1>1, SaveKeeps
     DEF SaveIntegration, SaveGateway, SaveAuthProvider, SaveApp, Kinds, SharedKinds
<1>2. CASE DeleteIntegration(h) \/ DeleteGateway(h) \/ DeleteAuthProvider(h) \/ DeleteApp(h)
  BY <1>2, DeleteKeeps
     DEF DeleteIntegration, DeleteGateway, DeleteAuthProvider, DeleteApp, Kinds, SharedKinds
<1>3. CASE \E id \in Ids : NewApp(h, id)
  BY <1>3, NewAppKeeps
<1>4. CASE Reload(h) \/ SwitchWorkspace(h)
  BY <1>4, FolderKeeps DEF Reload, SwitchWorkspace
<1>5. CASE \E to \in RouteIds : SaveRoute(h, to)
  BY <1>5, SaveRouteKeeps
<1>6. CASE \E route \in RouteIds : DeleteRoute(h, route)
  BY <1>6, DeleteRouteKeeps
<1> QED BY <1>1, <1>2, <1>3, <1>4, <1>5, <1>6 DEF Begins

-----------------------------------------------------------------------------
(* The server *)

\* What is stored for one kind.
GoodItems(items) ==
  IsMap(items, Ids, Item) /\ \A id \in DOMAIN items : items[id].row.value # Redacted

LEMMA ServerAt ==
  ASSUME GoodServer, NEW k \in DOMAIN server PROVE k \in Kinds /\ GoodItems(server[k])
  BY DEF GoodServer, IsAll, NoMask, GoodItems

LEMMA ServerWith ==
  ASSUME IInv, NEW k \in DOMAIN server, NEW items, GoodItems(items),
         server' = [server EXCEPT ![k] = items]
  PROVE  GoodServer' /\ DOMAIN server' = DOMAIN server
<1>1. /\ DOMAIN server' = DOMAIN server /\ server'[k] = items
      /\ \A o \in DOMAIN server : o # k => server'[o] = server[o]
  OBVIOUS
<1>2. IsAll(server')
  BY <1>1 DEF IInv, GoodServer, IsAll, GoodItems
<1>3. NoMask(server')
  BY <1>1 DEF IInv, GoodServer, NoMask, GoodItems
<1> QED BY <1>1, <1>2, <1>3 DEF GoodServer

LEMMA FolderServer ==
  ASSUME NEW folder \in {f \in Folders : DOMAIN f = DOMAIN server}, server' = folder
  PROVE  GoodServer' /\ DOMAIN server' = DOMAIN server
<1>1. IsAll(folder) /\ NoMask(folder) /\ DOMAIN folder = DOMAIN server
  BY ConsoleAssumption
<1>2. IsAll(server') /\ NoMask(server') /\ DOMAIN server' = DOMAIN server
  BY <1>1
<1> QED BY <1>2 DEF GoodServer

LEMMA ItemsWithout ==
  ASSUME NEW items, GoodItems(items), NEW S PROVE GoodItems(Without(items, S))
<1>1. IsMap(Without(items, S), Ids, Item)
  BY WithoutType DEF GoodItems
<1>2. \A id \in DOMAIN Without(items, S) : id \in DOMAIN items /\ Without(items, S)[id] = items[id]
  BY DEF Without, Restrict
<1> QED BY <1>1, <1>2 DEF GoodItems

LEMMA ItemsPut ==
  ASSUME NEW items, GoodItems(items), NEW id \in Ids, NEW item \in Item,
         item.row.value # Redacted
  PROVE  GoodItems(Put(items, id, item))
<1>1. IsMap(Put(items, id, item), Ids, Item)
  BY PutType DEF GoodItems
<1>2. \A i \in DOMAIN Put(items, id, item) :
        \/ i = id /\ Put(items, id, item)[i] = item
        \/ i \in DOMAIN items /\ Put(items, id, item)[i] = items[i]
  BY DEF Put
<1> QED BY <1>1, <1>2 DEF GoodItems

\* A write leaves a server that is good and every handler where it was.
LEMMA ServeStep ==
  ASSUME IInv, NEW h \in Handlers, NEW ops, Serves(h, ops),
         GoodServer', DOMAIN server' = DOMAIN server
  PROVE  IInv'
<1>1. /\ h \in DOMAIN handlers /\ handlers[h].stage = "asked"
      /\ handlers' = [handlers EXCEPT ![h].stage = "done"]
      /\ UNCHANGED <<lists, screen, drawer, got, begun, edits, newest, unseen>>
  BY DEF Serves, Stage, bounds, history
<1>2. handlers[h] \in Handler
  BY <1>1 DEF IInv, GoodHandlers, IsMap
<1>3. /\ DOMAIN handlers' = DOMAIN handlers
      /\ handlers'[h].request = handlers[h].request /\ handlers'[h].stage = "done"
      /\ handlers'[h] \in Handler
      /\ \A o \in DOMAIN handlers : o # h => handlers'[o] = handlers[o]
  BY <1>1, <1>2 DEF Handler
<1>4. GoodLists'
  BY <1>1 DEF IInv, GoodLists
<1>5. GoodScreen(screen, lists)'
  BY <1>1 DEF IInv
<1>6. GoodDrawer'
  BY <1>1 DEF IInv, GoodDrawer
<1>7. GoodHandlers'
  <2>1. IsMap(handlers', Handlers, Handler)
    BY <1>1, <1>3 DEF IInv, GoodHandlers, IsMap
  <2>2. \A o \in DOMAIN handlers' : GoodRequest(handlers'[o].request, server)
    BY <1>3 DEF IInv, GoodHandlers
  <2> QED BY <2>1, <2>2 DEF GoodHandlers, GoodRequest
<1>8. GoodLoads'
  BY <1>1, <1>3 DEF IInv, GoodLoads
<1>9. Fresh'
  BY <1>1, <1>3 DEF IInv, Fresh
<1>10. Bounded'
  BY <1>1 DEF IInv, Bounded
<1> QED BY <1>4, <1>5, <1>6, <1>7, <1>8, <1>9, <1>10 DEF IInv

\* What a handler asks for.
LEMMA Requested ==
  ASSUME IInv, NEW h \in DOMAIN handlers
  PROVE  GoodRequest(handlers[h].request, server)
  BY DEF IInv, GoodHandlers

\* A secret that was stored stays so, and a row that was sent has no mask.
LEMMA MergedGood ==
  ASSUME NEW k, NEW row \in Row, row.value # Redacted,
         NEW prev \in Row, prev.value # Redacted
  PROVE  Merged(k, row, prev) \in Row /\ Merged(k, row, prev).value # Redacted
  BY DEF Merged, Row

LEMMA SavedGood ==
  ASSUME IInv, NEW r, GoodRequest(r, server), r.op = "save"
  PROVE  GoodItems(Saved(r)) /\ r.name \in Ids
<1> DEFINE items == server[r.kind]
           row == IF r.id \in DOMAIN items THEN Merged(r.kind, r.item.row, items[r.id].row)
                  ELSE r.item.row
           item == [r.item EXCEPT !.row = row]
<1>1. /\ r.kind \in DOMAIN server /\ r.name \in Ids /\ r.item \in Item /\ r.item.row \in Row
      /\ r.item.row.value # Redacted
  BY DEF GoodRequest, Request, Item
<1>2. GoodItems(items)
  BY <1>1, ServerAt DEF IInv
<1>3. row \in Row /\ row.value # Redacted
  <2>1. CASE r.id \in DOMAIN items
    <3>1. items[r.id].row \in Row /\ items[r.id].row.value # Redacted
      BY <1>2, <2>1 DEF GoodItems, IsMap, Item
    <3> QED BY <1>1, <2>1, <3>1, MergedGood
  <2> QED BY <1>1, <2>1
<1>4. Saved(r) = Put(Without(items, {r.id}), r.name, item)
  BY DEF Saved
<1> HIDE DEF items, row
<1>5. item \in Item /\ item.row.value # Redacted
  BY <1>1, <1>3 DEF Item
<1> HIDE DEF item
<1> QED BY <1>1, <1>2, <1>4, <1>5, ItemsWithout, ItemsPut

LEMMA ServeSaveKeeps == ASSUME IInv, NEW h \in Handlers, ServeSave(h) PROVE IInv'
<1> DEFINE r == handlers[h].request
<1>1. /\ Serves(h, {"save"}) /\ h \in DOMAIN handlers /\ r.op = "save"
      /\ server' = [server EXCEPT ![r.kind] = Saved(r)]
  BY DEF ServeSave, Serves, Stage
<1>2. GoodRequest(r, server)
  BY <1>1, Requested
<1> HIDE DEF r
<1>3. GoodItems(Saved(r)) /\ r.kind \in DOMAIN server
  BY <1>1, <1>2, SavedGood DEF GoodRequest
<1>4. GoodServer' /\ DOMAIN server' = DOMAIN server
  BY <1>1, <1>3, ServerWith
<1> QED BY <1>1, <1>4, ServeStep

LEMMA ServeDeleteKeeps == ASSUME IInv, NEW h \in Handlers, ServeDelete(h) PROVE IInv'
<1> DEFINE r == handlers[h].request
           items == Without(server[r.kind], {r.id})
<1>1. /\ Serves(h, {"delete"}) /\ h \in DOMAIN handlers /\ r.op = "delete"
      /\ server' = [server EXCEPT ![r.kind] = items]
  BY DEF ServeDelete, Serves, Stage
<1>2. r.kind \in DOMAIN server
  BY <1>1, Requested DEF GoodRequest
<1>3. GoodItems(items)
  BY <1>2, ServerAt, ItemsWithout DEF IInv
<1> HIDE DEF r, items
<1>4. GoodServer' /\ DOMAIN server' = DOMAIN server
  BY <1>1, <1>2, <1>3, ServerWith
<1> QED BY <1>1, <1>4, ServeStep

LEMMA WithRoutesGood ==
  ASSUME IInv, NEW r, GoodRequest(r, server), CanRoute(r), r.op \in {"saveRoute", "deleteRoute"}
  PROVE  "apps" \in DOMAIN server /\ GoodItems(WithRoutes(r))
<1> DEFINE app == server["apps"][r.id]
           new == IF r.op = "saveRoute" THEN {r.to} ELSE {}
           item == [app EXCEPT !.routes = (@ \ {r.route}) \cup new]
<1>1. "apps" \in DOMAIN server
  BY DEF GoodRequest
<1>2. GoodItems(server["apps"])
  BY <1>1, ServerAt DEF IInv
<1>3. r.id \in Ids /\ app \in Item /\ app.row.value # Redacted
  BY <1>2 DEF CanRoute, GoodItems, IsMap
<1>4. new \subseteq RouteIds
  BY DEF GoodRequest
<1>5. WithRoutes(r) = Put(server["apps"], r.id, item)
  BY DEF WithRoutes
<1> HIDE DEF app, new
<1>6. item \in Item /\ item.row.value # Redacted
  BY <1>3, <1>4 DEF Item
<1> HIDE DEF item
<1> QED BY <1>1, <1>2, <1>3, <1>5, <1>6, ItemsPut

LEMMA ServeRouteKeeps == ASSUME IInv, NEW h \in Handlers, ServeRoute(h) PROVE IInv'
<1> DEFINE r == handlers[h].request
<1>1. /\ Serves(h, {"saveRoute", "deleteRoute"}) /\ h \in DOMAIN handlers
      /\ r.op \in {"saveRoute", "deleteRoute"}
      /\ CanRoute(r) /\ server' = [server EXCEPT !["apps"] = WithRoutes(r)]
  BY DEF ServeRoute, Serves, Stage
<1>2. GoodRequest(r, server)
  BY <1>1, Requested
<1> HIDE DEF r
<1>3. "apps" \in DOMAIN server /\ GoodItems(WithRoutes(r))
  BY <1>1, <1>2, WithRoutesGood
<1>4. GoodServer' /\ DOMAIN server' = DOMAIN server
  BY <1>1, <1>3, ServerWith
<1> QED BY <1>1, <1>4, ServeStep

LEMMA ServeFolderKeeps == ASSUME IInv, NEW h \in Handlers, ServeFolder(h) PROVE IInv'
<1>1. Serves(h, {"reload", "switch"})
  BY DEF ServeFolder
<1>2. GoodServer' /\ DOMAIN server' = DOMAIN server
  BY FolderServer DEF ServeFolder
<1> QED BY <1>1, <1>2, ServeStep

\* Another client: whatever the tab has loaded need not be what is there.
LEMMA ElsewhereKeeps == ASSUME IInv, Elsewhere PROVE IInv'
<1>1. /\ unseen' = TRUE
      /\ UNCHANGED <<lists, screen, drawer, handlers, got, begun, edits, newest>>
  BY DEF Elsewhere, bounds
<1>2. GoodServer' /\ DOMAIN server' = DOMAIN server
  BY FolderServer DEF Elsewhere
<1>3. GoodLists' /\ GoodDrawer'
  BY <1>1, <1>2 DEF IInv, GoodLists, GoodDrawer
<1>4. GoodScreen(screen, lists)'
  BY <1>1 DEF IInv
<1>5. GoodHandlers'
  BY <1>1, <1>2 DEF IInv, GoodHandlers, GoodRequest
<1>6. GoodLoads'
  BY <1>1, <1>2 DEF IInv, GoodLoads
<1>7. Fresh' /\ Bounded'
  BY <1>1 DEF IInv, Fresh, Bounded
<1> QED BY <1>2, <1>3, <1>4, <1>5, <1>6, <1>7 DEF IInv

\* What GET answers about one kind.
LEMMA ListedAt ==
  ASSUME GoodServer, NEW k \in DOMAIN server
  PROVE  k \in Kinds /\ IsMap(Listed(server)[k], Ids, Item)
<1>1. k \in Kinds /\ IsMap(server[k], Ids, Item)
  BY ServerAt DEF GoodItems
<1>2. ASSUME NEW id \in DOMAIN server[k]
      PROVE  [server[k][id] EXCEPT !.row = RedactedRow(k, @)] \in Item
  <2>1. server[k][id] \in Item
    BY <1>1, <1>2 DEF IsMap
  <2>2. RedactedRow(k, server[k][id].row) \in Row
    BY <2>1 DEF RedactedRow, Item, Row
  <2> QED BY <2>1, <2>2 DEF Item
<1> DEFINE items == [id \in DOMAIN server[k] |->
                       [server[k][id] EXCEPT !.row = RedactedRow(k, @)]]
<1>3. Listed(server)[k] = items
  BY DEF Listed
<1>4. DOMAIN items \subseteq Ids /\ items \in [DOMAIN items -> Item]
  BY <1>1, <1>2 DEF IsMap
<1> HIDE DEF items
<1> QED BY <1>1, <1>3, <1>4 DEF IsMap

LEMMA ServeGetKeeps == ASSUME IInv, NEW h \in Handlers, NEW k \in Kinds, ServeGet(h, k) PROVE IInv'
<1> DEFINE part == Listed(server)[k]
           load == Put(got[h], k, part)
<1>1. /\ h \in DOMAIN handlers /\ handlers[h].stage = "loading"
      /\ k \in DOMAIN server \ DOMAIN got[h]
      /\ got' = [got EXCEPT ![h] = load]
      /\ UNCHANGED <<server, lists, screen, drawer, handlers, begun, edits, newest, unseen>>
  BY DEF ServeGet, Stage, bounds, history
<1>2. IsMap(part, Ids, Item)
  BY <1>1, ListedAt DEF IInv
<1>3. /\ DOMAIN load = DOMAIN got[h] \cup {k} /\ load[k] = part /\ IsFunction(load)
      /\ \A o \in DOMAIN got[h] : load[o] = got[h][o]
  BY <1>1 DEF Put, IsFunction
<1>4. /\ DOMAIN got' = DOMAIN handlers /\ got'[h] = load
      /\ \A o \in DOMAIN handlers : o # h => got'[o] = got[o]
  BY <1>1 DEF IInv, GoodLoads
<1>5. part = Listed(server)[k]
  OBVIOUS
<1> HIDE DEF load, part
<1>6. IsAll(load) /\ DOMAIN load \subseteq DOMAIN server
  <2>1. IsAll(got[h]) /\ DOMAIN got[h] \subseteq DOMAIN server
    BY <1>1 DEF IInv, GoodLoads
  <2> QED BY <1>1, <1>2, <1>3, <2>1 DEF IsAll
<1>7. GoodServer' /\ GoodLists' /\ GoodDrawer' /\ GoodHandlers'
  BY <1>1 DEF IInv, GoodServer, GoodLists, GoodDrawer, GoodHandlers
<1>8. GoodScreen(screen, lists)'
  BY <1>1 DEF IInv
<1>9. GoodLoads'
  <2>1. ASSUME NEW o \in DOMAIN handlers
        PROVE  /\ IsAll(got'[o]) /\ DOMAIN got'[o] \subseteq DOMAIN server
               /\ IsFunction(got'[o])
               /\ handlers[o].stage # "loading" => DOMAIN got'[o] = {}
    <3>1. CASE o = h
      BY <1>1, <1>3, <1>4, <1>6, <3>1
    <3>2. CASE o # h
      <4>1. got'[o] = got[o]
        BY <1>4, <3>2
      <4>2. /\ IsAll(got[o]) /\ DOMAIN got[o] \subseteq DOMAIN server /\ IsFunction(got[o])
            /\ handlers[o].stage # "loading" => DOMAIN got[o] = {}
        BY DEF IInv, GoodLoads
      <4> QED BY <4>1, <4>2
    <3> QED BY <3>1, <3>2
  <2> QED BY <1>1, <1>4, <2>1 DEF GoodLoads
<1>10. Fresh'
  <2>1. ASSUME ~unseen, \A o \in DOMAIN handlers : handlers[o].stage # "done",
               newest \in Handlers, NEW n \in DOMAIN got'[newest]
        PROVE  got'[newest][n] = Listed(server)[n]
    <3>1. \A o \in DOMAIN got[newest] : got[newest][o] = Listed(server)[o]
      BY <2>1 DEF IInv, Fresh
    <3>2. CASE newest = h
      BY <1>3, <1>4, <1>5, <2>1, <3>1, <3>2
    <3>3. CASE newest # h
      <4>1. newest \in DOMAIN handlers
        BY <2>1 DEF IInv, Fresh
      <4>2. got'[newest] = got[newest]
        BY <1>4, <3>3, <4>1
      <4> QED BY <2>1, <3>1, <4>2
    <3> QED BY <3>2, <3>3
  <2> QED BY <1>1, <2>1 DEF IInv, Fresh
<1>11. Bounded'
  BY <1>1 DEF IInv, Bounded
<1> QED BY <1>7, <1>8, <1>9, <1>10, <1>11 DEF IInv

LEMMA ServingKeeps == ASSUME IInv, NEW h \in Handlers, Serving(h) PROVE IInv'
<1>1. CASE ServeSave(h) \/ ServeDelete(h)
  BY <1>1, ServeSaveKeeps, ServeDeleteKeeps
<1>2. CASE ServeRoute(h) \/ ServeFolder(h)
  BY <1>2, ServeRouteKeeps, ServeFolderKeeps
<1>3. CASE \E k \in Kinds : ServeGet(h, k)
  BY <1>3, ServeGetKeeps
<1> QED BY <1>1, <1>2, <1>3 DEF Serving

-----------------------------------------------------------------------------
(* Handlers after an await *)

\* An answer starts a load that begins after whatever it has written.
LEMMA AnsweredKeeps == ASSUME IInv, NEW h \in Handlers, Answered(h) PROVE IInv'
<1>1. /\ h \in DOMAIN handlers /\ handlers[h].stage = "done"
      /\ handlers' = [handlers EXCEPT ![h].stage = "loading"]
      /\ newest' = h /\ unseen' = FALSE
      /\ UNCHANGED <<server, lists, got, begun, edits>>
  BY DEF Answered, Stage, bounds
<1>2. screen' = Closed(screen) \/ screen' = screen
  BY DEF Answered
<1>3. drawer' = NoDrawer \/ drawer' = drawer
  BY DEF Answered
<1>4. handlers[h] \in Handler
  BY <1>1 DEF IInv, GoodHandlers, IsMap
<1>5. /\ DOMAIN handlers' = DOMAIN handlers
      /\ handlers'[h].request = handlers[h].request /\ handlers'[h].stage = "loading"
      /\ handlers'[h] \in Handler
      /\ \A o \in DOMAIN handlers : o # h => handlers'[o] = handlers[o]
  BY <1>1, <1>4 DEF Handler
<1>6. GoodServer' /\ GoodLists'
  BY <1>1 DEF IInv, GoodServer, GoodLists
<1>7. GoodScreen(screen, lists)'
  <2>1. GoodScreen(Closed(screen), lists) /\ GoodScreen(screen, lists)
    BY ClosedGood DEF IInv
  <2>2. GoodScreen(screen', lists)
    BY <1>2, <2>1
  <2> QED BY <1>1, <2>2
<1>8. GoodDrawer'
  BY <1>1, <1>3, NoDrawerGood DEF IInv, GoodDrawer
<1>9. GoodHandlers'
  <2>1. IsMap(handlers', Handlers, Handler)
    BY <1>1, <1>5 DEF IInv, GoodHandlers, IsMap
  <2>2. \A o \in DOMAIN handlers' : GoodRequest(handlers'[o].request, server)
    BY <1>5 DEF IInv, GoodHandlers
  <2> QED BY <1>1, <2>1, <2>2 DEF GoodHandlers, GoodRequest
<1>10. GoodLoads'
  BY <1>1, <1>5 DEF IInv, GoodLoads
<1>11. Fresh'
  <2>1. DOMAIN got[h] = {} /\ h # "shown"
    BY <1>1, ConsoleAssumption DEF IInv, GoodLoads
  <2> QED BY <1>1, <1>5, <2>1 DEF Fresh
<1>12. Bounded'
  BY <1>1 DEF IInv, Bounded
<1> QED BY <1>6, <1>7, <1>8, <1>9, <1>10, <1>11, <1>12 DEF IInv

\* A handler that ends leaves the others as they are.
LEMMA EndsFrame ==
  ASSUME IInv, NEW h \in DOMAIN handlers, Ends(h)
  PROVE  /\ UNCHANGED <<server, drawer, begun, edits>>
         /\ DOMAIN handlers' = DOMAIN handlers \ {h}
         /\ \A o \in DOMAIN handlers' : handlers'[o] = handlers[o] /\ got'[o] = got[o]
         /\ GoodServer' /\ GoodDrawer' /\ GoodHandlers' /\ GoodLoads' /\ Bounded'
<1>1. /\ handlers' = Without(handlers, {h}) /\ got' = Without(got, {h})
      /\ UNCHANGED <<server, drawer, begun, edits>>
  BY DEF Ends, bounds
<1>2. /\ DOMAIN handlers' = DOMAIN handlers \ {h}
      /\ \A o \in DOMAIN handlers' : handlers'[o] = handlers[o]
  BY <1>1 DEF Without, Restrict
<1>3. DOMAIN got = DOMAIN handlers
  BY DEF IInv, GoodLoads
<1>4. /\ DOMAIN got' = DOMAIN handlers'
      /\ \A o \in DOMAIN handlers' : got'[o] = got[o]
  BY <1>1, <1>2, <1>3 DEF Without, Restrict
<1>5. GoodServer' /\ GoodDrawer' /\ Bounded'
  BY <1>1 DEF IInv, GoodServer, GoodDrawer, Bounded
<1>6. GoodHandlers'
  <2>1. IsMap(handlers', Handlers, Handler)
    BY <1>1, WithoutType DEF IInv, GoodHandlers
  <2>2. \A o \in DOMAIN handlers' : GoodRequest(handlers'[o].request, server)
    BY <1>2 DEF IInv, GoodHandlers
  <2> QED BY <1>1, <2>1, <2>2 DEF GoodHandlers, GoodRequest
<1>7. GoodLoads'
  <2>1. ASSUME NEW o \in DOMAIN handlers'
        PROVE  /\ IsAll(got'[o]) /\ DOMAIN got'[o] \subseteq DOMAIN server
               /\ IsFunction(got'[o])
               /\ handlers'[o].stage # "loading" => DOMAIN got'[o] = {}
    <3>1. o \in DOMAIN handlers /\ got'[o] = got[o] /\ handlers'[o] = handlers[o]
      BY <1>2, <1>4
    <3>2. /\ IsAll(got[o]) /\ DOMAIN got[o] \subseteq DOMAIN server /\ IsFunction(got[o])
          /\ handlers[o].stage # "loading" => DOMAIN got[o] = {}
      BY <3>1 DEF IInv, GoodLoads
    <3> QED BY <3>1, <3>2
  <2> QED BY <1>1, <1>4, <2>1 DEF GoodLoads
<1> QED BY <1>1, <1>2, <1>4, <1>5, <1>6, <1>7

\* The load begun last has every kind, and each as it still is.
LEMMA LoadedKeeps == ASSUME IInv, NEW h \in Handlers, Loaded(h) PROVE IInv'
<1> DEFINE r == handlers[h].request
           refreshed == Refreshed(screen, got[h])
<1>1. /\ h \in DOMAIN handlers /\ handlers[h].stage = "loading"
      /\ DOMAIN got[h] = DOMAIN server
      /\ lists' = got[h] /\ screen' = Then(r, refreshed, got[h])
      /\ newest' = IF newest = h THEN "shown" ELSE IF newest = "shown" THEN "old" ELSE newest
      /\ unseen' = unseen /\ Ends(h)
  BY DEF Loaded, Stage
<1>2. IsAll(got[h]) /\ IsFunction(got[h])
  BY <1>1 DEF IInv, GoodLoads
<1>3. GoodLists'
  BY <1>1, <1>2, EndsFrame DEF GoodLists
<1>4. GoodScreen(screen, lists)'
  <2>1. GoodScreen(refreshed, got[h])
    BY <1>1, <1>2, RefreshedGood DEF IInv, GoodLists
  <2>2. GoodRequest(r, server)
    BY <1>1, Requested
  <2> HIDE DEF r, refreshed
  <2>3. GoodRequest(r, got[h])
    BY <1>1, <2>2 DEF GoodRequest
  <2>4. GoodScreen(Then(r, refreshed, got[h]), got[h])
    BY <1>2, <2>1, <2>3, ThenGood
  <2> QED BY <1>1, <2>4
<1> HIDE DEF r, refreshed
<1>5. Fresh'
  <2>1. ASSUME ~unseen, \A o \in DOMAIN handlers' : handlers'[o].stage # "done"
        PROVE  /\ newest = h => lists' = Listed(server)
               /\ newest \in Handlers =>
                    \A k \in DOMAIN got[newest] : got[newest][k] = Listed(server)[k]
    <3>1. \A o \in DOMAIN handlers : handlers[o].stage # "done"
      BY <1>1, <2>1, EndsFrame
    <3>2. newest \in Handlers =>
            \A k \in DOMAIN got[newest] : got[newest][k] = Listed(server)[k]
      BY <2>1, <3>1 DEF IInv, Fresh
    <3>3. CASE newest = h
      <4>1. \A k \in DOMAIN server : got[h][k] = Listed(server)[k]
        BY <1>1, <3>2, <3>3
      <4>2. got[h] = [k \in DOMAIN server |-> got[h][k]]
        BY <1>1, <1>2 DEF IsFunction
      <4>3. Listed(server) = [k \in DOMAIN server |-> Listed(server)[k]]
        BY DEF Listed
      <4>4. got[h] = Listed(server)
        BY <4>1, <4>2, <4>3
      <4> QED BY <1>1, <3>2, <4>4
    <3> QED BY <3>2, <3>3
  <2>2. newest' \in Handlers => newest' = newest /\ newest # h
    BY <1>1, ConsoleAssumption
  <2>3. newest' = "shown" => newest = h
    BY <1>1
  <2>4. newest' \in Handlers \cup {"shown", "old"} /\ unseen' \in BOOLEAN
    BY <1>1 DEF IInv, Fresh
  <2>5. newest' \in Handlers =>
          /\ newest' \in DOMAIN handlers' /\ handlers'[newest'].stage = "loading"
          /\ got'[newest'] = got[newest]
    BY <1>1, <2>2, EndsFrame DEF IInv, Fresh
  <2>6. server' = server
    BY <1>1, EndsFrame
  <2> QED BY <1>1, <2>1, <2>2, <2>3, <2>4, <2>5, <2>6 DEF Fresh
<1> QED BY <1>1, <1>3, <1>4, <1>5, EndsFrame DEF IInv

LEMMA ListsStay ==
  ASSUME IInv, NEW h \in DOMAIN handlers, Ends(h), UNCHANGED <<lists, screen>>
  PROVE  GoodLists' /\ GoodScreen(screen, lists)'
<1>1. GoodLists'
  BY EndsFrame DEF IInv, GoodLists
<1>2. GoodScreen(screen, lists)'
  BY DEF IInv
<1> QED BY <1>1, <1>2

LEMMA RefusedKeeps == ASSUME IInv, NEW h \in Handlers, Refused(h) PROVE IInv'
<1>1. /\ h \in DOMAIN handlers /\ handlers[h].stage = "asked" /\ Ends(h)
      /\ UNCHANGED <<lists, screen, newest, unseen>>
  BY DEF Refused, Stage, history
<1>2. Fresh'
  <2>1. newest # h
    BY <1>1 DEF IInv, Fresh
  <2>2. server' = server /\ DOMAIN handlers' = DOMAIN handlers \ {h}
    BY <1>1, EndsFrame
  <2>3. \A o \in DOMAIN handlers' : handlers'[o] = handlers[o] /\ got'[o] = got[o]
    BY <1>1, EndsFrame
  <2> QED BY <1>1, <2>1, <2>2, <2>3 DEF IInv, Fresh
<1> QED BY <1>1, <1>2, EndsFrame, ListsStay DEF IInv

LEMMA LostKeeps == ASSUME IInv, NEW h \in Handlers, Lost(h) PROVE IInv'
<1>1. /\ h \in DOMAIN handlers /\ Ends(h) /\ unseen' = TRUE
      /\ newest' = IF newest = h THEN "old" ELSE newest
      /\ UNCHANGED <<lists, screen>>
  BY DEF Lost, Stage
<1>2. Fresh'
  <2>1. newest' \in Handlers => newest' = newest /\ newest # h
    BY <1>1, ConsoleAssumption
  <2>2. DOMAIN handlers' = DOMAIN handlers \ {h}
    BY <1>1, EndsFrame
  <2>3. \A o \in DOMAIN handlers' : handlers'[o] = handlers[o]
    BY <1>1, EndsFrame
  <2> QED BY <1>1, <2>1, <2>2, <2>3 DEF IInv, Fresh
<1> QED BY <1>1, <1>2, EndsFrame, ListsStay DEF IInv

-----------------------------------------------------------------------------
(* The invariant and what it shows *)

LEMMA InitHolds == Init => IInv
<1> SUFFICES ASSUME Init PROVE IInv
  OBVIOUS
<1>1. GoodServer
  BY ConsoleAssumption DEF Init, GoodServer
<1>2. GoodLists
  <2>1. lists = Listed(server) /\ DOMAIN lists = DOMAIN server
    BY DEF Init, Listed
  <2>2. \A k \in DOMAIN lists : k \in Kinds /\ IsMap(lists[k], Ids, Item)
    BY <1>1, <2>1, ListedAt
  <2> QED BY <2>1, <2>2 DEF GoodLists, IsAll
<1>3. GoodScreen(screen, lists)
  <2>1. screen = Closed(screen)
    BY DEF Init, BlankScreen, Closed
  <2>2. GoodScreen(Closed(screen), lists)
    BY ClosedGood
  <2> QED BY <2>1, <2>2
<1>4. GoodDrawer
  BY NoDrawerGood DEF Init, GoodDrawer
<1>5. GoodHandlers /\ GoodLoads
  BY EmptyMapType DEF Init, GoodHandlers, GoodLoads
<1>6. Fresh
  BY ConsoleAssumption DEF Init, Fresh
<1>7. Bounded
  BY ConsoleAssumption DEF Init, Bounded
<1> QED BY <1>1, <1>2, <1>3, <1>4, <1>5, <1>6, <1>7 DEF IInv

LEMMA StutterKeeps == ASSUME IInv, UNCHANGED vars PROVE IInv'
<1>1. UNCHANGED <<server, lists, screen, drawer, handlers, got, begun, edits, newest, unseen>>
  BY DEF vars, bounds, history
<1>2. GoodServer' /\ GoodLists' /\ GoodDrawer' /\ GoodHandlers' /\ GoodLoads'
  BY <1>1 DEF IInv, GoodServer, GoodLists, GoodDrawer, GoodHandlers, GoodLoads
<1>3. Fresh' /\ Bounded'
  BY <1>1 DEF IInv, Fresh, Bounded
<1>4. GoodScreen(screen, lists)'
  BY <1>1 DEF IInv
<1> QED BY <1>2, <1>3, <1>4 DEF IInv

LEMMA NextKeeps == IInv /\ [Next]_vars => IInv'
<1> SUFFICES ASSUME IInv, [Next]_vars PROVE IInv'
  OBVIOUS
<1>1. CASE Navigates \/ Fills \/ Elsewhere
  BY <1>1, NavigatesKeeps, FillsKeeps, ElsewhereKeeps
<1>2. CASE \E h \in Handlers : Begins(h) \/ Serving(h)
  BY <1>2, BeginsKeeps, ServingKeeps
<1>3. CASE \E h \in Handlers : GoesOn(h)
  BY <1>3, AnsweredKeeps, LoadedKeeps, RefusedKeeps, LostKeeps DEF GoesOn
<1>4. CASE UNCHANGED vars
  BY <1>4, StutterKeeps
<1> QED BY <1>1, <1>2, <1>3, <1>4 DEF Next

\* What the handlers of the console keep true, for any number of items, of
\* handlers and of other clients (console.js:463).
THEOREM Inductive == Spec => []IInv
  BY InitHolds, NextKeeps, PTL DEF Spec

\* The copies, the panel, the drawer and the handlers keep their types.
THEOREM TypeCorrect == Spec => []TypeOK
<1>1. IInv => TypeOK
  BY DEF IInv, TypeOK, GoodServer, GoodLists, GoodScreen, GoodDrawer, GoodHandlers,
         GoodLoads, Fresh, Bounded
<1> QED BY <1>1, Inductive, PTL

\* Panel, breadcrumb, edited id and form agree, and a catalog on the screen
\* shows the tab's list, whatever handlers are under way (console.js:484).
THEOREM PanelAgrees == Spec => []ScreenAgrees
<1>1. IInv => ScreenAgrees
  BY DEF IInv, GoodScreen, Agrees, ScreenAgrees, form
<1> QED BY <1>1, Inductive, PTL

\* Once the load begun last is shown and nothing is under way, the tab shows
\* what the server has, however many loads overlapped (console.js:463).
THEOREM QuietTab == Spec => []QuietShows
<1>1. IInv => QuietShows
  BY DEF IInv, Fresh, QuietShows
<1> QED BY <1>1, Inductive, PTL

\* A blank keeps the text that is stored in the same field, and what is kept
\* stays hidden.
LEMMA MergedKept ==
  ASSUME NEW k, NEW row \in Row, NEW prev \in Row
  PROVE  /\ /\ Hidden(k, row) /\ row.value = Blank
            /\ prev.key = row.key /\ prev.param = row.param /\ IsText(k, prev)
            => Merged(k, row, prev).value = prev.value
         /\ Merged(k, row, prev).value # row.value
            => RedactedRow(k, Merged(k, row, prev)).value = Redacted
<1> DEFINE kept == [row EXCEPT !.value = prev.value]
<1>1. kept \in Row /\ kept.value = prev.value
  BY DEF Row
<1>2. kept.key = row.key /\ kept.param = row.param /\ kept.masked = row.masked
  BY DEF Row
<1>3. CASE /\ Hidden(k, row) /\ row.value = Blank
           /\ prev.key = row.key /\ prev.param = row.param /\ IsText(k, prev)
  <2>1. Merged(k, row, prev) = kept
    BY <1>3 DEF Merged
  <2> HIDE DEF kept
  <2>2. Hidden(k, kept) /\ IsText(k, kept)
    BY <1>1, <1>2, <1>3 DEF Hidden, IsText
  <2>3. RedactedRow(k, kept).value = Redacted
    BY <1>1, <2>2 DEF RedactedRow, Row
  <2> QED BY <1>1, <2>1, <2>3
<1>4. CASE ~(/\ Hidden(k, row) /\ row.value = Blank
             /\ prev.key = row.key /\ prev.param = row.param /\ IsText(k, prev))
  BY <1>4 DEF Merged
<1> QED BY <1>3, <1>4

\* A row that is left blank keeps the secret that is stored in its field.
LEMMA SavedKept ==
  ASSUME IInv, NEW h \in Handlers, ServeSave(h) PROVE SecretKept(h)
<1> DEFINE r == handlers[h].request
           items == server[r.kind]
           before == items[r.id].row
           row == IF r.id \in DOMAIN items THEN Merged(r.kind, r.item.row, before) ELSE r.item.row
           item == [r.item EXCEPT !.row = row]
           after == server'[r.kind][r.name].row
<1>1. /\ h \in DOMAIN handlers /\ r.op = "save"
      /\ server' = [server EXCEPT ![r.kind] = Saved(r)]
  BY DEF ServeSave, Serves, Stage
<1>2. GoodRequest(r, server)
  BY <1>1, Requested
<1>3. /\ r.kind \in DOMAIN server /\ r.item \in Item /\ GoodItems(Saved(r))
      /\ r.name \in Ids
  BY <1>1, <1>2, SavedGood DEF GoodRequest, Request
<1>4. Saved(r) = Put(Without(items, {r.id}), r.name, item)
  BY DEF Saved
<1>5. r.name \in DOMAIN Saved(r) /\ Saved(r)[r.name] = item /\ item.row = row
  BY <1>3, <1>4 DEF Put, Item
<1>6. after = row
  BY <1>1, <1>3, <1>5
<1>7. after.value # Redacted
  BY <1>3, <1>5, <1>6 DEF GoodItems
<1>8. CASE r.id \in DOMAIN items
  <2>1. before \in Row /\ r.item.row \in Row
    BY <1>3, <1>8, IsAllAt DEF IInv, GoodServer, Item
  <2>2. row = Merged(r.kind, r.item.row, before)
    BY <1>8
  <2> HIDE DEF before, row
  <2>3. /\ /\ Hidden(r.kind, r.item.row) /\ r.item.row.value = Blank
           /\ before.key = r.item.row.key /\ before.param = r.item.row.param
           /\ IsText(r.kind, before)
           => row.value = before.value
        /\ row.value # r.item.row.value => RedactedRow(r.kind, row).value = Redacted
    BY <2>1, <2>2, MergedKept
  <2>4. LeftBlank(r) /\ SameField(r, before) => row.value = before.value
    BY <2>3 DEF LeftBlank, SameField
  <2> USE DEF before
  <2> QED BY <1>6, <1>7, <2>3, <2>4 DEF SecretKept
<1>9. CASE r.id \notin DOMAIN items
  BY <1>6, <1>7, <1>9 DEF SecretKept
<1> QED BY <1>8, <1>9

\* No save stores a mask, a secret text left blank stays what it was, whatever
\* other clients did since the form was filled, and what a save keeps stays
\* hidden (secretRedaction.ts:91).
THEOREM SecretsKept == Spec => SecretsSurvive
<1>1. IInv /\ [Next]_vars => [\A h \in Handlers : ServeSave(h) => SecretKept(h)]_vars
  BY SavedKept
<1> QED BY <1>1, Inductive, PTL DEF Spec, SecretsSurvive
=============================================================================
