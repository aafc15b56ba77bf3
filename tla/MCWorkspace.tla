---------------------------- MODULE MCWorkspace ----------------------------
(***************************************************************************)
(* Workspace on a small instance: one function, two integrations and an    *)
(* app to save, a generated endpoint whose file is that of the second      *)
(* integration, and four folders that bring out what loading must decide.  *)
(***************************************************************************)
EXTENDS Workspace

CONSTANTS fn, good, broken, i1, i2, gen, a1, a2, p1, p2

Config1(fns, text) == [functions |-> fns, text |-> text]

Uses  == Config1({fn}, "plain")
Plain == Config1({}, "plain")
Refer == Config1({}, "reference")

Route1 == [id |-> i1, path |-> p1, integration |-> i1]
Route2 == [id |-> i2, path |-> p2, integration |-> i2]
Moved  == [id |-> i2, path |-> p1, integration |-> i2]
RouteG == [id |-> gen, path |-> p2, integration |-> gen]

FileNumbers == [x \in Ids |-> CASE x \in {i1, a1} -> 1 [] x \in {i2, a2, gen} -> 2]

SmallInputs ==
  [k \in Kinds |-> IF k = "integrations"
                     THEN {<<i1, Uses>>, <<i1, Refer>>, <<i2, Plain>>}
                     ELSE {<<a1, {Route1}>>}]

\* The second cannot be added beside the first, nor replace another there.
SmallBodies == {Route1, Moved}

SmallGenerated == {RouteG}

Folder(fns, ints, apps) ==
  [transforms |-> fns,
   disk |-> [k \in Kinds |-> IF k = "integrations" THEN ints ELSE apps]]

File(id, config) == [id |-> id, config |-> config]

SmallFolders ==
  { Folder(EmptyMap, EmptyMap, EmptyMap),
    \* All is well, and one file has a name of its own.
    Folder([n \in {fn} |-> good],
           [f \in {1, 3} |-> IF f = 1 THEN File(i1, Uses) ELSE File(i2, Plain)],
           [f \in {1} |-> File(a1, {Route1, Route2})]),
    \* The same id twice, the first time with a function that does not load.
    Folder([n \in {fn} |-> broken],
           [f \in {1, 3} |-> IF f = 1 THEN File(i1, Uses) ELSE File(i1, Refer)],
           [f \in {1} |-> File(a1, {Route1})]),
    \* A file that does not parse, under the name of the first integration.
    Folder([n \in {fn} |-> good],
           [f \in {1, 2} |-> IF f = 1 THEN Malformed ELSE File(i1, Uses)],
           [f \in {1} |-> File(a2, {Route1})]) }
=============================================================================
