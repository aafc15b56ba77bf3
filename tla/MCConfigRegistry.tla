-------------------------- MODULE MCConfigRegistry --------------------------
(***************************************************************************)
(* ConfigRegistry on a small instance: two folders, one environment        *)
(* variable, two providers, so that a save of one carries the other along, *)
(* and a gateway that either stands alone or requires the provider that    *)
(* refers to the variable, and does so itself.                             *)
(***************************************************************************)
EXTENDS ConfigRegistry, TLC

CONSTANTS n1, n2, f1, f2, v

Literal == [env |-> NoVar, requiresAuth |-> NoProvider]
FromEnv == [env |-> v, requiresAuth |-> NoProvider]
Guarded == [env |-> v, requiresAuth |-> n1]

SmallInputs ==
  [k \in Kinds |-> IF k = "gateways"
                     THEN {<<n1, Literal>>, <<n1, Guarded>>}
                     ELSE {<<n1, FromEnv>>, <<n2, Literal>>}]

\* Nothing tells the two folders apart.
FoldersAlike == Permutations(Folders)
=============================================================================
