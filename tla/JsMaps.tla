------------------------------- MODULE JsMaps -------------------------------
(***************************************************************************)
(* The JavaScript Map as the program uses it: a finite function from the   *)
(* keys it holds to their values.  Every store, registry, cache and pool   *)
(* of the program is one of these.  Iteration order is not modelled here;  *)
(* the modules that depend on it keep a sequence of keys of their own.     *)
(***************************************************************************)
EXTENDS Functions

EmptyMap == [x \in {} |-> x]

\* map.set(key, value)
Put(map, key, value) ==
  [x \in DOMAIN map \cup {key} |-> IF x = key THEN value ELSE map[x]]

\* map.delete(key) for every key of the set keys
Without(map, keys) == Restrict(map, DOMAIN map \ keys)

\* map is a Map whose keys are in keys and whose values are in values.
IsMap(map, keys, values) ==
  /\ DOMAIN map \subseteq keys
  /\ map \in [DOMAIN map -> values]
=============================================================================
