------------------------- MODULE MCTableOperations -------------------------
(***************************************************************************)
(* TableOperations on a table with a primary key of two columns, so that a *)
(* key can be incomplete, two callers, and bodies of at most two entries   *)
(* that meet, repeat themselves, move a row to another key or hold what    *)
(* the code must refuse.  One column has a name that a list's query has    *)
(* another use for.                                                        *)
(***************************************************************************)
EXTENDS TableOperations, TLC

CONSTANTS k, l, unknown, c1, c2

Key(a, b) == [c \in {k, l} |-> IF c = k THEN a ELSE b]

Fields(col, value) == [c \in {col} |-> value]

Pair(key, fields) == [key |-> key, fields |-> fields]

SmallBodies ==
  [op \in Operations |->
     CASE op = "create" ->
            { <<Pair(Bad, Key(0, 1)), Pair(Bad, Fields(k, 1))>>,
              <<Pair(Bad, Key(0, 1)), Pair(Bad, Bad)>> }
       [] op = "update" ->
            { <<Pair(Key(0, 0), Fields(l, 1)), Pair(Key(0, 1), Fields(k, 1))>>,
              <<Pair(Key(0, 0), Fields(l, 1)), Pair(Fields(l, 1), Fields(l, 1))>>,
              <<Pair(Key(0, 0), Fields(k, 1)), Pair(Key(0, 1), Bad)>>,
              <<Pair(Key(0, 1), Fields(unknown, 1))>> }
       [] op = "delete" ->
            { <<Pair(Key(0, 1), Bad), Pair(Key(0, 0), Bad)>>,
              <<Pair(Key(0, 0), Bad), Pair(Fields(unknown, 0), Bad)>>,
              <<Pair(Key(0, 0), Bad), Pair(Bad, Bad)>> }
       [] op = "procedure" -> {<<>>}]

SmallNumbers == {NaN, Infinity, -1, 0, 3}

SmallFilters == {Fields(k, 0), [c \in {l, unknown} |-> 0]}

Interchangeable == Permutations(Callers)
=============================================================================
