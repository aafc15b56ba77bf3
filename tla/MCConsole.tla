----------------------------- MODULE MCConsole -----------------------------
(***************************************************************************)
(* Console with two handlers that overlap.  The server holds an auth       *)
(* provider with a client secret, that another client may delete or put    *)
(* back, or a gateway with a common parameter that is hidden or with a     *)
(* secret connection field, that another client may exchange for each      *)
(* other, or a generated integration beside an app with a route.  One key  *)
(* is sensitive by its name and one is not, so that renaming a row hides   *)
(* it or shows it; one value reads as a number; integrations can be        *)
(* renamed.                                                                *)
(***************************************************************************)
EXTENDS Console, TLC

CONSTANTS x, y, r1, r2, pwd, plain, v, w, h1, h2

Secret == [key |-> "clientSecret", value |-> v, param |-> FALSE, masked |-> FALSE]

Param == [key |-> pwd, value |-> v, param |-> TRUE, masked |-> TRUE]

Field == [key |-> pwd, value |-> v, param |-> FALSE, masked |-> FALSE]

Items(type, row, routes) == [type |-> type, row |-> row, routes |-> routes]

One(id, item) == [i \in {id} |-> item]

Only(k, items) == [only \in {k} |-> items]

Both(ints, apps) ==
  [k \in {"integrations", "apps"} |-> IF k = "integrations" THEN ints ELSE apps]

Backend(type) == One(x, Items(type, NoRow, {}))

Routes(routes) == One(x, Items("app", NoRow, routes))

SmallNames == [k \in Kinds |-> IF k = "integrations" THEN {x, y} ELSE {x}]

SmallEdits == [k \in Kinds |-> IF k \in {"gateways", "authProviders"} THEN 2 ELSE 1]

SmallFolders ==
  { Only("authProviders", One(x, Items("oauth2", Secret, {}))),
    Only("authProviders", EmptyMap),
    Only("gateways", One(x, Items("fields", Param, {}))),
    Only("gateways", One(x, Items("fields", Field, {}))),
    Both(Backend("generated"), Routes({r1})) }

Interchangeable == Permutations(Handlers)
=============================================================================
