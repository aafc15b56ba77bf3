-------------------------- MODULE TableOperations --------------------------
(***************************************************************************)
(* The operations that are generated for a table of an SQL gateway         *)
(* (src/connectors/sql.ts): a list with paging, a bulk insert in one       *)
(* statement, and bulk updates and deletes that go through the entries of  *)
(* the request one by one inside a transaction, checking each entry when   *)
(* it is its turn.                                                         *)
(*                                                                         *)
(* The database is external.  A statement waits for rows that another      *)
(* transaction has written, and a transaction can fail at any time: at a   *)
(* constraint, in a deadlock, when the connection or the process is lost.  *)
(***************************************************************************)
EXTENDS Integers, Sequences, FiniteSetsExt, JsMaps

CONSTANTS
  Columns,       \* columns of the table
  PrimaryKey,    \* those of its primary key
  Values,        \* values of a column
  FieldNames,    \* names that a body can give to columns
  Callers,       \* each makes one call
  Bodies,        \* operation -> lists of entries that callers send
  Bad,           \* what is no object
  NaN, Infinity,
  Numbers,       \* what Number() makes of a parameter
  Filters,       \* columns and values that a list can ask for
  Reserved,      \* names that a list's query has another use for: limit, ids, ...
  DefaultLimit,  \* DEFAULT_LIST_LIMIT
  MaxLimit,      \* MAX_LIST_LIMIT
  NoProcedures   \* the client is one of sqlite's

Operations == {"create", "update", "delete", "procedure"}

Row == [Columns -> Values]

\* An object from the body: some columns, known or not, and their values.
Object == UNION {[N -> Values] : N \in SUBSET FieldNames}

IsObject(object) == object # Bad

\* A create has no key, a delete no fields.
Entry == [key: Object \cup {Bad}, fields: Object \cup {Bad}]

ASSUME TableAssumption ==
  /\ IsFiniteSet(Columns) /\ IsFiniteSet(Values)
  /\ PrimaryKey \subseteq Columns /\ PrimaryKey # {}
  /\ DOMAIN Bodies = Operations
  /\ \A op \in Operations : Bodies[op] \subseteq Seq(Entry)
  /\ NaN \notin Int /\ Infinity \notin Int /\ NaN # Infinity
  /\ Numbers \subseteq Int \cup {NaN, Infinity}
  /\ MaxLimit \in Nat /\ DefaultLimit \in 1..MaxLimit
  /\ NoProcedures \in BOOLEAN

VARIABLES
  table,    \* the rows
  calls,    \* caller -> its bulk operation
  applied,  \* history: <<caller, entry, row>> written and not rolled back
  page      \* the last list: its limit, and how many rows it returned

vars == <<table, calls, applied, page>>

KeyOf(row) == Restrict(row, PrimaryKey)

\* results has the number of rows that each entry matched.  The transaction
\* remembers the keys it has locked and the rows they had before.
Call ==
  [op: Operations, body: {<<>>} \cup UNION {Bodies[op] : op \in Operations},
   results: Seq(Nat), locked: SUBSET [PrimaryKey -> Values], saved: SUBSET Row,
   stage: {"open", "ok", "refused", "failed"}]

Unique(rows) == \A r, s \in rows : KeyOf(r) = KeyOf(s) => r = s

TypeOK ==
  /\ table \subseteq Row /\ Unique(table)
  /\ IsMap(calls, Callers, Call)
  /\ applied \subseteq Callers \X Nat \X Row
  /\ page \in [limit: Int, count: Nat]

Init ==
  /\ table \in {rows \in SUBSET Row : Unique(rows)}
  /\ calls = EmptyMap /\ applied = {}
  /\ page = [limit |-> DefaultLimit, count |-> 0]

-----------------------------------------------------------------------------
(* The database *)

Open(c) == c \in DOMAIN calls /\ calls[c].stage = "open"

Locked == UNION {calls[c].locked : c \in {d \in Callers : Open(d)}}

\* What other connections see.
Committed ==
  {r \in table : KeyOf(r) \notin Locked}
    \cup UNION {calls[c].saved : c \in {d \in Callers : Open(d)}}

Matches(row, object) == \A col \in DOMAIN object : row[col] = object[col]

\* Only the database looks at the names of fields.
Known(object) == DOMAIN object \subseteq Columns

\* Missing columns get any value: a default, or an error.
Completed(object) == {r \in Row : Matches(r, object)}

Changed(row, object) ==
  [col \in Columns |-> IF col \in DOMAIN object THEN object[col] ELSE row[col]]

\* No other transaction has written the rows.
Free(c, rows) ==
  \A d \in Callers \ {c} : Open(d) =>
    \A r \in rows : KeyOf(r) \notin calls[d].locked

\* Somebody else writes a row that no transaction has locked.
Foreign ==
  \E r \in Row :
    /\ KeyOf(r) \notin Locked
    /\ \E others \in {{s \in table : KeyOf(s) # KeyOf(r)}} :
         table' \in {others, others \cup {r}}
    /\ UNCHANGED <<calls, applied, page>>

-----------------------------------------------------------------------------
(* Calls *)

Begin(op, body, stage) ==
  [op |-> op, body |-> body, results |-> <<>>, locked |-> {}, saved |-> {}, stage |-> stage]

\* The body must be a list with at least one entry.
NoEntries(c, op) ==
  /\ c \notin DOMAIN calls /\ op \in {"create", "update", "delete"}
  /\ calls' = Put(calls, c, Begin(op, <<>>, "refused"))
  /\ UNCHANGED <<table, applied, page>>

\* bulkCreate looks at every row before the one statement.
AllObjects(body) == \A i \in DOMAIN body : IsObject(body[i].fields)

Create(c, body) ==
  /\ c \notin DOMAIN calls /\ body # <<>>
  /\ UNCHANGED page
  /\ IF ~AllObjects(body)
     THEN /\ calls' = Put(calls, c, Begin("create", body, "refused"))
          /\ UNCHANGED <<table, applied>>
     ELSE \E rows \in [DOMAIN body -> Row], stage \in {"ok", "failed"} :
       /\ \A i \in DOMAIN body : Known(body[i].fields) /\ rows[i] \in Completed(body[i].fields)
       /\ Free(c, {rows[i] : i \in DOMAIN body})
       /\ \A i, j \in DOMAIN body : i # j => KeyOf(rows[i]) # KeyOf(rows[j])
       /\ \A i \in DOMAIN body : KeyOf(rows[i]) \notin {KeyOf(r) : r \in table}
       /\ table' = table \cup {rows[i] : i \in DOMAIN body}
       /\ applied' = applied \cup {<<c, i, rows[i]>> : i \in DOMAIN body}
       /\ calls' = Put(calls, c, [Begin("create", body, stage) EXCEPT !.results = [i \in DOMAIN body |-> 1]])

\* A constraint, or a lost connection.
CreateFails(c, body) ==
  /\ c \notin DOMAIN calls /\ body # <<>> /\ AllObjects(body)
  /\ calls' = Put(calls, c, Begin("create", body, "failed"))
  /\ UNCHANGED <<table, applied, page>>

\* bulkUpdate and bulkDelete
BeginTransaction(c, op, body) ==
  /\ c \notin DOMAIN calls /\ op \in {"update", "delete"} /\ body # <<>>
  /\ calls' = Put(calls, c, Begin(op, body, "open"))
  /\ UNCHANGED <<table, applied, page>>

Current(call) == call.body[Len(call.results) + 1]

HasCurrent(c) == Open(c) /\ Len(calls[c].results) < Len(calls[c].body)

\* Names of columns are looked at, all of the primary key and no others.
ValidKey(key) == IsObject(key) /\ DOMAIN key = PrimaryKey

ValidEntry(call) ==
  ValidKey(Current(call).key) /\ (call.op = "update" => IsObject(Current(call).fields))

\* The statement goes to the pool, on a connection of its own.
NotLogged(call, rows) == call

\* The statement is part of the transaction.
Logged(call, rows) ==
  LET keys == {KeyOf(r) : r \in rows} IN
  [call EXCEPT
     !.saved = @ \cup {r \in table : KeyOf(r) \in keys \ call.locked},
     !.locked = @ \cup keys]

\* One entry, by its key.
Statement(c) ==
  /\ HasCurrent(c) /\ ValidEntry(calls[c])
  /\ calls[c].op = "update" => Known(Current(calls[c]).fields)
  /\ LET call  == calls[c]
         found == {r \in table : Matches(r, Current(call).key)}
         new   == IF call.op = "update" THEN {Changed(r, Current(call).fields) : r \in found} ELSE {} IN
     /\ Free(c, found \cup new)
     /\ \A d \in Callers \ {c} : Open(d) =>
          \A r \in calls[d].saved : ~Matches(r, Current(call).key)
     /\ Unique((table \ found) \cup new) /\ (table \ found) \cap new = {}
     /\ Cardinality(new) \in {0, Cardinality(found)}
     /\ table' = (table \ found) \cup new
     /\ applied' = applied \cup {<<c, Len(call.results) + 1, r>> : r \in found}
     /\ calls' = [calls EXCEPT ![c] =
          [Logged(call, found \cup new) EXCEPT !.results = Append(@, Cardinality(found))]]
     /\ UNCHANGED page

\* The error leaves the callback of the transaction, which is rolled back.
RollsBack(c, stage) ==
  /\ table' = {r \in table : KeyOf(r) \notin calls[c].locked} \cup calls[c].saved
  /\ applied' = {a \in applied : a[1] # c \/ KeyOf(a[3]) \notin calls[c].locked}
  /\ calls' = [calls EXCEPT ![c].stage = stage, ![c].locked = {}, ![c].saved = {}]
  /\ UNCHANGED page

RefuseEntry(c) == HasCurrent(c) /\ ~ValidEntry(calls[c]) /\ RollsBack(c, "refused")

Abort(c) == Open(c) /\ RollsBack(c, "failed")

\* The answer to the commit can be lost.
Commit(c) ==
  /\ Open(c) /\ ~HasCurrent(c)
  /\ \E stage \in {"ok", "failed"} :
       calls' = [calls EXCEPT ![c].stage = stage, ![c].locked = {}, ![c].saved = {}]
  /\ UNCHANGED <<table, applied, page>>

\* What a procedure does is not known here.
Procedure(c) ==
  /\ c \notin DOMAIN calls
  /\ \E stage \in IF NoProcedures THEN {"failed"} ELSE {"ok", "failed"} :
       calls' = Put(calls, c, Begin("procedure", <<>>, stage))
  /\ UNCHANGED <<table, applied, page>>

-----------------------------------------------------------------------------
(* Lists.  Of a page we keep how many rows it has, not which nor in what    *)
(* order; a list of ids only narrows the rows further and is left out.      *)

\* What is no number is passed on.
WithoutDefault(n) == n

\* Number(query.limit) || DEFAULT_LIST_LIMIT
OrDefault(n) == IF n \in {NaN, 0} THEN DefaultLimit ELSE n

\* Math.max and Math.min
AtLeast(low, n) == IF n \in {NaN, Infinity} THEN n ELSE Max({n, low})

AtMost(high, n) ==
  CASE n = NaN      -> NaN
    [] n = Infinity -> high
    [] OTHER        -> Min({n, high})

\* Only the upper end is kept.
OnlyCapped(n) == AtMost(MaxLimit, OrDefault(n))

Limit(n) == AtMost(MaxLimit, AtLeast(1, OrDefault(n)))

Offset(n) == AtLeast(0, IF n = NaN THEN 0 ELSE n)

\* Filters by columns that the table does not have, or whose name is reserved,
\* are ignored.
Where(filter) ==
  LET asked == (DOMAIN filter \cap Columns) \ Reserved IN
  {r \in Committed : Matches(r, Restrict(filter, asked))}

\* The query builder leaves out what is no number, and a negative limit is none
\* to the database.
Returned(rows, limit, offset) ==
  LET skipped == IF offset = Infinity THEN 0 ELSE offset
      left    == Max({0, Cardinality(rows) - skipped}) IN
  IF limit = NaN \/ limit < 0 THEN left ELSE Min({left, limit})

List(limit, offset, filter) ==
  /\ page' = [limit |-> Limit(limit),
              count |-> Returned(Where(filter), Limit(limit), Offset(offset))]
  /\ UNCHANGED <<table, calls, applied>>

-----------------------------------------------------------------------------

Next ==
  \/ \E c \in Callers :
       \/ \E op \in Operations : NoEntries(c, op)
       \/ \E body \in Bodies["create"] : Create(c, body) \/ CreateFails(c, body)
       \/ \E op \in {"update", "delete"} : \E body \in Bodies[op] : BeginTransaction(c, op, body)
       \/ Statement(c) \/ RefuseEntry(c) \/ Abort(c) \/ Commit(c)
       \/ Procedure(c)
  \/ \E limit, offset \in Numbers, filter \in Filters : List(limit, offset, filter)
  \/ Foreign

Spec == Init /\ [][Next]_vars

-----------------------------------------------------------------------------
(* Properties *)

Ended(c) == calls[c].stage # "open"

RowsOf(c, i) == {a \in applied : a[1] = c /\ a[2] = i}

\* For every entry the rows that the call counts in its results.
Whole(c) ==
  /\ Len(calls[c].results) = Len(calls[c].body)
  /\ \A i \in DOMAIN calls[c].body : Cardinality(RowsOf(c, i)) = calls[c].results[i]

Nothing(c) == \A i \in DOMAIN calls[c].body : RowsOf(c, i) = {}

\* Whatever other connections, errors in later entries and lost connections
\* do: a call that has ended has written for every entry just the row that it
\* counts in its results, at most one, or nothing at all; one that succeeded
\* has written everything, one that was refused nothing (sql.ts:231, 261).
AllOrNothing ==
  \A c \in DOMAIN calls :
    /\ \A i \in DOMAIN calls[c].results : calls[c].results[i] <= 1
    /\ calls[c].stage = "ok" => Whole(c)
    /\ calls[c].stage = "refused" => Nothing(c)
    /\ calls[c].stage = "failed" => Whole(c) \/ Nothing(c)

\* The call of c ends in this step.
Ends(c) == ~(c \in DOMAIN calls /\ Ended(c)) /\ (c \in DOMAIN calls /\ Ended(c))'

\* Nobody sees a part of a bulk call: what other connections see changes only
\* when another writer changes it, or when a call ends that has done all it
\* counts; never at an entry, a refusal or a roll back (sql.ts:231, 261).
SeenWhole ==
  [][Committed' # Committed => Foreign \/ \E c \in Callers : Ends(c) /\ Whole(c)']_vars

\* However a caller asks for it, a list returns a bounded page
\* (sql.ts:159, DEFAULT_LIST_LIMIT and MAX_LIST_LIMIT).
PageBounds == page.count <= MaxLimit /\ page.limit \in 1..MaxLimit
=============================================================================
