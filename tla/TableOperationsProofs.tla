----------------------- MODULE TableOperationsProofs -----------------------
(***************************************************************************)
(* The generated table operations for every table, primary key, number of  *)
(* callers and bodies, and every limit.  IInv says of a transaction that   *)
(* is under way what has to hold for its next step to end it soundly:      *)
(* everything it has written is behind its locks, its results count what   *)
(* it wrote, and no row is behind the locks of two.                        *)
(***************************************************************************)
EXTENDS TableOperations, FiniteSetTheorems, TLAPS

\* set keeps the type of a Map.
LEMMA PutType ==
  ASSUME NEW K, NEW V, NEW m, NEW k \in K, NEW v \in V, IsMap(m, K, V)
  PROVE  IsMap(Put(m, k, v), K, V)
  BY DEF IsMap, Put

\* A transaction that has not ended.
OpenSound(c) ==
  LET call == calls[c] IN
  /\ Len(call.results) <= Len(call.body)
  /\ \A i \in DOMAIN call.results : Cardinality(RowsOf(c, i)) = call.results[i]
  /\ \A a \in applied : a[1] = c =>
       a[2] \in DOMAIN call.results /\ KeyOf(a[3]) \in call.locked
  /\ \A r \in call.saved : KeyOf(r) \in call.locked
  /\ Unique(call.saved)

NothingBefore == \A a \in applied : a[1] \in DOMAIN calls

LocksDisjoint ==
  \A c, d \in Callers :
    c # d /\ Open(c) /\ Open(d) => calls[c].locked \cap calls[d].locked = {}

\* What AllOrNothing says of a call, and what is true before it has ended.
Sound(c) ==
  /\ \A i \in DOMAIN calls[c].results : calls[c].results[i] <= 1
  /\ calls[c].stage = "ok" => Whole(c)
  /\ calls[c].stage = "refused" => Nothing(c)
  /\ calls[c].stage = "failed" => Whole(c) \/ Nothing(c)
  /\ calls[c].stage = "open" => OpenSound(c)

CallsSound == \A c \in DOMAIN calls : Sound(c)

IInv == TypeOK /\ PageBounds /\ NothingBefore /\ LocksDisjoint /\ CallsSound

-----------------------------------------------------------------------------
(* Numbers of a list *)

LEMMA MaxOfTwo ==
  ASSUME NEW a \in Int, NEW b \in Int
  PROVE  Max({a, b}) = IF a >= b THEN a ELSE b
<1> DEFINE m == IF a >= b THEN a ELSE b
<1>1. m \in {a, b} /\ \A y \in {a, b} : m >= y
  OBVIOUS
<1>2. \A x \in {a, b} : (\A y \in {a, b} : x >= y) => x = m
  OBVIOUS
<1> QED
  BY <1>1, <1>2 DEF Max

LEMMA MinOfTwo ==
  ASSUME NEW a \in Int, NEW b \in Int
  PROVE  Min({a, b}) = IF a <= b THEN a ELSE b
<1> DEFINE m == IF a <= b THEN a ELSE b
<1>1. m \in {a, b} /\ \A y \in {a, b} : m <= y
  OBVIOUS
<1>2. \A x \in {a, b} : (\A y \in {a, b} : x <= y) => x = m
  OBVIOUS
<1> QED
  BY <1>1, <1>2 DEF Min

\* Whatever Number() makes of the parameter, the limit is a positive number
\* up to the maximum (sql.ts:159).
LEMMA LimitInRange ==
  ASSUME NEW n \in Numbers PROVE Limit(n) \in 1..MaxLimit
<1> DEFINE d == OrDefault(n)
           e == AtLeast(1, d)
<1>1. d \in Int \cup {Infinity}
  BY TableAssumption DEF OrDefault
<1> HIDE DEF d
<1>2. e = Infinity \/ (e \in Int /\ e >= 1)
  <2>1. CASE d = Infinity
    BY <2>1 DEF AtLeast
  <2>2. CASE d # Infinity
    <3>1. d \in Int /\ d # NaN
      BY <1>1, <2>2, TableAssumption
    <3>2. e = Max({d, 1})
      BY <3>1, <2>2 DEF AtLeast
    <3> HIDE DEF e
    <3> QED
      BY <3>1, <3>2, MaxOfTwo
  <2> QED
    BY <2>1, <2>2
<1>3. Limit(n) = AtMost(MaxLimit, e)
  BY DEF Limit, d
<1> HIDE DEF e
<1>4. CASE e = Infinity
  BY <1>3, <1>4, TableAssumption DEF AtMost
<1>5. CASE e # Infinity
  <2>1. e \in Int /\ e >= 1 /\ e # NaN
    BY <1>2, <1>5, TableAssumption
  <2>2. Limit(n) = Min({e, MaxLimit})
    BY <1>3, <1>5, <2>1 DEF AtMost
  <2> QED
    BY <2>1, <2>2, MinOfTwo, TableAssumption
<1> QED
  BY <1>4, <1>5

\* The offset is never negative (sql.ts:160).
LEMMA OffsetInRange ==
  ASSUME NEW n \in Numbers PROVE Offset(n) \in Nat \cup {Infinity}
<1> DEFINE d == IF n = NaN THEN 0 ELSE n
<1>1. d \in Int \cup {Infinity}
  BY TableAssumption
<1>2. Offset(n) = AtLeast(0, d)
  BY DEF Offset
<1> HIDE DEF d
<1>3. CASE d = Infinity
  BY <1>2, <1>3 DEF AtLeast
<1>4. CASE d # Infinity
  <2>1. d \in Int /\ d # NaN
    BY <1>1, <1>4, TableAssumption
  <2>2. Offset(n) = Max({d, 0})
    BY <1>2, <1>4, <2>1 DEF AtLeast
  <2> QED
    BY <2>1, <2>2, MaxOfTwo
<1> QED
  BY <1>3, <1>4

\* A page has no more rows than its limit.
LEMMA PageInLimit ==
  ASSUME NEW rows, IsFiniteSet(rows),
         NEW limit \in 1..MaxLimit, NEW offset \in Nat \cup {Infinity}
  PROVE  Returned(rows, limit, offset) \in 0..limit
<1> DEFINE skipped == IF offset = Infinity THEN 0 ELSE offset
           left    == Max({0, Cardinality(rows) - skipped})
<1>1. skipped \in Nat
  OBVIOUS
<1>2. Cardinality(rows) \in Nat
  BY FS_CardinalityType
<1>3. left \in Nat
  <2> HIDE DEF skipped
  <2>1. Cardinality(rows) - skipped \in Int
    BY <1>1, <1>2
  <2> QED
    BY <2>1, MaxOfTwo
<1>4. limit \in Int /\ limit >= 1 /\ limit # NaN
  BY TableAssumption
<1>5. Returned(rows, limit, offset) = Min({left, limit})
  BY <1>4 DEF Returned
<1> HIDE DEF left
<1> QED
  BY <1>3, <1>4, <1>5, MinOfTwo

-----------------------------------------------------------------------------
(* Rows and keys *)

LEMMA KeyType ==
  ASSUME NEW r \in Row
  PROVE  KeyOf(r) \in [PrimaryKey -> Values]
  BY TableAssumption DEF KeyOf, Restrict, Row

\* There are finitely many rows, and a list finds finitely many.
LEMMA RowsFinite == IsFiniteSet(Row)
<1> DEFINE pairs(r) == {<<col, r[col]>> : col \in Columns}
           graph    == [r \in Row |-> pairs(r)]
           S        == SUBSET (Columns \X Values)
<1>1. IsFiniteSet(S)
  BY TableAssumption, FS_Product, FS_SUBSET
<1>2. graph \in [Row -> S]
  BY DEF Row
<1>3. ASSUME NEW r \in Row, NEW s \in Row, pairs(r) = pairs(s)
      PROVE  r = s
  <2>1. ASSUME NEW col \in Columns PROVE r[col] = s[col]
    <3>1. <<col, r[col]>> \in pairs(s)
      BY <1>3
    <3> QED
      BY <3>1
  <2> QED
    BY <2>1 DEF Row
<1>4. graph \in Injection(Row, S)
  BY <1>2, <1>3 DEF Injection, IsInjective
<1> HIDE DEF graph, S
<1> QED
  BY <1>1, <1>4, FS_Injection

LEMMA SomeRowsFinite ==
  ASSUME NEW rows, rows \subseteq Row PROVE IsFiniteSet(rows)
  BY RowsFinite, FS_Subset

\* A key that names every column of the primary key and no other finds at
\* most one row (sql.ts:200-217).
LEMMA KeyFindsOne ==
  ASSUME NEW rows, Unique(rows), NEW key, DOMAIN key = PrimaryKey
  PROVE  LET found == {r \in rows : Matches(r, key)} IN
         found = {} \/ \E r \in rows : found = {r}
<1> DEFINE found == {r \in rows : Matches(r, key)}
<1>1. ASSUME NEW r \in found, NEW s \in found PROVE r = s
  <2>1. \A col \in PrimaryKey : r[col] = s[col]
    BY <1>1 DEF Matches
  <2>2. KeyOf(r) = KeyOf(s)
    BY <2>1 DEF KeyOf, Restrict
  <2> QED
    BY <2>2 DEF Unique
<1> QED
  BY <1>1

LEMMA ChangedType ==
  ASSUME NEW r \in Row, NEW object \in Object
  PROVE  Changed(r, object) \in Row
<1>1. \A col \in DOMAIN object : object[col] \in Values
  BY DEF Object
<1> QED
  BY <1>1 DEF Changed, Row

-----------------------------------------------------------------------------
(* What a statement does *)

\* The rows that the entry of a caller whose turn it is finds, what it makes of
\* them, and the call after it.
Found(c) == {r \in table : Matches(r, Current(calls[c]).key)}

Made(c) ==
  IF calls[c].op = "update"
  THEN {Changed(r, Current(calls[c]).fields) : r \in Found(c)} ELSE {}

After(c) ==
  [Logged(calls[c], Found(c) \cup Made(c)) EXCEPT !.results = Append(@, Cardinality(Found(c)))]

KeysOf(rows) == {KeyOf(r) : r \in rows}

LEMMA StatementIs ==
  ASSUME NEW c, Statement(c)
  PROVE  /\ HasCurrent(c) /\ ValidEntry(calls[c])
         /\ Free(c, Found(c) \cup Made(c))
         /\ Unique((table \ Found(c)) \cup Made(c))
         /\ (table \ Found(c)) \cap Made(c) = {}
         /\ table' = (table \ Found(c)) \cup Made(c)
         /\ applied' = applied \cup {<<c, Len(calls[c].results) + 1, r>> : r \in Found(c)}
         /\ calls' = [calls EXCEPT ![c] = After(c)]
         /\ UNCHANGED page
  BY DEF Statement, Found, Made, After

LEMMA CallFacts ==
  ASSUME TypeOK, NEW c \in DOMAIN calls
  PROVE  /\ c \in Callers
         /\ calls[c] \in Call
         /\ calls[c].body \in Seq(Entry)
         /\ calls[c].results \in Seq(Nat)
         /\ calls[c].locked \subseteq [PrimaryKey -> Values]
         /\ calls[c].saved \subseteq Row
<1>1. c \in Callers /\ calls[c] \in Call
  BY DEF TypeOK, IsMap
<1>2. calls[c].body \in {<<>>} \cup UNION {Bodies[op] : op \in Operations}
  BY <1>1 DEF Call
<1>3. calls[c].body \in Seq(Entry)
  <2>1. ASSUME NEW op \in Operations, calls[c].body \in Bodies[op]
        PROVE  calls[c].body \in Seq(Entry)
    <3>1. Bodies[op] \subseteq Seq(Entry)
      BY TableAssumption
    <3> QED
      BY <2>1, <3>1
  <2>2. ASSUME calls[c].body = <<>> PROVE calls[c].body \in Seq(Entry)
    BY <2>2
  <2> QED
    BY <1>2, <2>1, <2>2
<1> QED
  BY <1>1, <1>3 DEF Call

LEMMA CurrentFacts ==
  ASSUME TypeOK, NEW c, HasCurrent(c), ValidEntry(calls[c])
  PROVE  /\ Current(calls[c]).key \in Object
         /\ DOMAIN Current(calls[c]).key = PrimaryKey
         /\ calls[c].op = "update" => Current(calls[c]).fields \in Object
<1> DEFINE e == Current(calls[c])
<1>1. c \in DOMAIN calls /\ Len(calls[c].results) < Len(calls[c].body)
  BY DEF HasCurrent, Open
<1>2. Len(calls[c].results) + 1 \in 1..Len(calls[c].body)
  BY <1>1, CallFacts
<1>3. e \in Entry
  BY <1>1, <1>2, CallFacts DEF Current
<1> HIDE DEF e
<1>4. e.key \in Object \cup {Bad} /\ e.fields \in Object \cup {Bad}
  BY <1>3 DEF Entry
<1>5. /\ e.key # Bad /\ DOMAIN e.key = PrimaryKey
      /\ calls[c].op = "update" => e.fields # Bad
  BY DEF ValidEntry, ValidKey, IsObject, e
<1>6. /\ e.key \in Object
      /\ DOMAIN e.key = PrimaryKey
      /\ calls[c].op = "update" => e.fields \in Object
  BY <1>4, <1>5
<1> QED
  BY <1>6 DEF e

\* A statement finds at most one row.
LEMMA FoundFacts ==
  ASSUME TypeOK, NEW c, HasCurrent(c), ValidEntry(calls[c])
  PROVE  /\ Found(c) \subseteq table
         /\ Found(c) = {} \/ \E r \in table : Found(c) = {r}
         /\ Cardinality(Found(c)) \in {0, 1}
         /\ Made(c) \subseteq Row
<1>1. Found(c) \subseteq table
  BY DEF Found
<1>2. Found(c) = {} \/ \E r \in table : Found(c) = {r}
  <2>1. Unique(table) /\ DOMAIN Current(calls[c]).key = PrimaryKey
    BY CurrentFacts DEF TypeOK
  <2> QED
    BY <2>1, KeyFindsOne DEF Found
<1>3. Cardinality(Found(c)) \in {0, 1}
  BY <1>2, FS_EmptySet, FS_Singleton
<1>4. Made(c) \subseteq Row
  <2>1. table \subseteq Row
    BY DEF TypeOK
  <2>2. CASE calls[c].op = "update"
    <3>1. Current(calls[c]).fields \in Object
      BY <2>2, CurrentFacts
    <3>2. \A r \in Found(c) : Changed(r, Current(calls[c]).fields) \in Row
      BY <1>1, <2>1, <3>1, ChangedType
    <3> QED
      BY <2>2, <3>2 DEF Made
  <2>3. CASE calls[c].op # "update"
    BY <2>3 DEF Made
  <2> QED
    BY <2>2, <2>3
<1> QED
  BY <1>1, <1>2, <1>3, <1>4

LEMMA AfterFacts ==
  ASSUME TypeOK, NEW c, HasCurrent(c), ValidEntry(calls[c])
  PROVE  /\ After(c) \in Call
         /\ After(c).body = calls[c].body /\ After(c).stage = "open"
         /\ After(c).results = Append(calls[c].results, Cardinality(Found(c)))
         /\ After(c).locked = calls[c].locked \cup KeysOf(Found(c) \cup Made(c))
         /\ After(c).saved = calls[c].saved \cup
              {r \in table : KeyOf(r) \in KeysOf(Found(c) \cup Made(c)) \ calls[c].locked}
<1> DEFINE rows == Found(c) \cup Made(c)
           n    == Cardinality(Found(c))
           logs == {r \in table : KeyOf(r) \in KeysOf(rows) \ calls[c].locked}
<1>1. c \in DOMAIN calls /\ calls[c].stage = "open"
  BY DEF HasCurrent, Open
<1>2. rows \subseteq Row /\ table \subseteq Row /\ n \in Nat
  BY FoundFacts DEF TypeOK
<1>3. calls[c] \in Call
  BY <1>1, CallFacts
<1>4. KeysOf(rows) \subseteq [PrimaryKey -> Values]
  BY <1>2, KeyType DEF KeysOf
<1>5. After(c) = [calls[c] EXCEPT !.saved = @ \cup logs, !.locked = @ \cup KeysOf(rows),
                                  !.results = Append(@, n)]
  BY <1>3 DEF After, Logged, KeysOf, Call
<1>6. Append(calls[c].results, n) \in Seq(Nat)
  BY <1>1, <1>2, CallFacts
<1> HIDE DEF rows, n
<1>7. logs \subseteq Row
  BY <1>2
<1> HIDE DEF logs
<1> DEFINE results == Append(calls[c].results, n)
           locked  == calls[c].locked \cup KeysOf(rows)
           saved   == calls[c].saved \cup logs
<1>8. /\ results \in Seq(Nat)
      /\ locked \subseteq [PrimaryKey -> Values]
      /\ saved \subseteq Row
  BY <1>1, <1>4, <1>6, <1>7, CallFacts
<1>9. After(c) = [calls[c] EXCEPT !.saved = saved, !.locked = locked, !.results = results]
  BY <1>3, <1>5 DEF Call
<1> HIDE DEF results, locked, saved
<1>10. /\ After(c) \in Call
       /\ After(c).body = calls[c].body /\ After(c).stage = "open"
       /\ After(c).results = results
       /\ After(c).locked = locked
       /\ After(c).saved = saved
  BY <1>1, <1>3, <1>8, <1>9 DEF Call
<1> QED
  BY <1>10 DEF results, locked, saved, rows, n, logs

-----------------------------------------------------------------------------
(* A call of which nothing changes *)

Mine(c) == {a \in applied : a[1] = c}

LEMMA SoundSame ==
  ASSUME NEW d, Sound(d), calls'[d] = calls[d], Mine(d)' = Mine(d)
  PROVE  Sound(d)'
<1>1. \A a : a[1] = d => (a \in applied' <=> a \in applied)
  BY DEF Mine
<1>2. \A i : {a \in applied' : a[1] = d /\ a[2] = i} = {a \in applied : a[1] = d /\ a[2] = i}
  BY <1>1
<1>3. Whole(d)' <=> Whole(d)
  BY <1>2 DEF Whole, RowsOf
<1>4. Nothing(d)' <=> Nothing(d)
  BY <1>2 DEF Nothing, RowsOf
<1>5. OpenSound(d)' <=> OpenSound(d)
  <2>1. \A i : (Cardinality(RowsOf(d, i)) = calls[d].results[i])'
                 <=> Cardinality(RowsOf(d, i)) = calls[d].results[i]
    BY <1>2 DEF RowsOf
  <2> QED
    BY <1>1, <2>1 DEF OpenSound, Unique
<1> QED
  BY <1>3, <1>4, <1>5 DEF Sound

-----------------------------------------------------------------------------
(* Calls that begin *)

LEMMA BodyOf ==
  ASSUME NEW op \in Operations, NEW body \in Bodies[op]
  PROVE  /\ body \in Seq(Entry)
         /\ body \in {<<>>} \cup UNION {Bodies[o] : o \in Operations}
<1>1. Bodies[op] \subseteq Seq(Entry)
  BY TableAssumption
<1> QED
  BY <1>1

\* A caller that has begun nothing has written nothing.
LEMMA NothingMine ==
  ASSUME IInv, NEW c, c \notin DOMAIN calls
  PROVE  Mine(c) = {} /\ \A i : RowsOf(c, i) = {}
  BY DEF IInv, NothingBefore, Mine, RowsOf

LEMMA StartKeeps ==
  ASSUME IInv, NEW c \in Callers, c \notin DOMAIN calls,
         NEW op \in Operations, NEW body \in Seq(Entry),
         body \in {<<>>} \cup UNION {Bodies[o] : o \in Operations},
         NEW stage \in {"open", "ok", "refused", "failed"},
         stage = "ok" => body = <<>>,
         calls' = Put(calls, c, Begin(op, body, stage)),
         UNCHANGED <<table, applied, page>>
  PROVE  IInv'
<1> DEFINE b == Begin(op, body, stage)
<1>1. /\ DOMAIN calls' = DOMAIN calls \cup {c}
      /\ calls'[c] = b
      /\ \A d \in DOMAIN calls : calls'[d] = calls[d]
  BY DEF Put
<1>2. /\ b.op = op /\ b.body = body /\ b.stage = stage /\ b.results = <<>>
      /\ b.locked = {} /\ b.saved = {}
      /\ b \in Call
  BY DEF Begin, Call
<1> HIDE DEF b
<1>3. TypeOK'
  <2>1. IsMap(calls', Callers, Call)
    BY <1>2, PutType DEF IInv, TypeOK, b
  <2> QED
    BY <2>1 DEF IInv, TypeOK, Unique
<1>4. PageBounds'
  BY DEF IInv, PageBounds
<1>5. NothingBefore'
  BY <1>1 DEF IInv, NothingBefore
<1>6. LocksDisjoint'
  BY <1>1, <1>2 DEF IInv, LocksDisjoint, Open
<1>7. CallsSound'
  <2>1. ASSUME NEW d \in DOMAIN calls PROVE Sound(d)'
    BY <1>1, SoundSame DEF IInv, CallsSound, Mine
  <2>2. Sound(c)'
    <3>1. \A i : RowsOf(c, i)' = {}
      BY NothingMine DEF RowsOf
    <3>2. Nothing(c)'
      BY <3>1 DEF Nothing
    <3>3. stage = "ok" => Whole(c)'
      BY <1>1, <1>2 DEF Whole
    <3>4. OpenSound(c)'
      <4>1. \A a \in applied' : a[1] # c
        BY DEF IInv, NothingBefore
      <4> QED
        BY <1>1, <1>2, <4>1 DEF OpenSound, Unique
    <3> QED
      BY <1>1, <1>2, <3>2, <3>3, <3>4 DEF Sound
  <2> QED
    BY <1>1, <2>1, <2>2 DEF CallsSound
<1> QED
  BY <1>3, <1>4, <1>5, <1>6, <1>7 DEF IInv

LEMMA NoEntriesKeeps ==
  ASSUME IInv, NEW c \in Callers, NEW op \in Operations, NoEntries(c, op) PROVE IInv'
<1>1. <<>> \in Seq(Entry)
  OBVIOUS
<1> QED
  BY <1>1, StartKeeps DEF NoEntries

LEMMA ProcedureKeeps ==
  ASSUME IInv, NEW c \in Callers, Procedure(c) PROVE IInv'
<1>1. PICK stage \in {"ok", "failed"} : calls' = Put(calls, c, Begin("procedure", <<>>, stage))
  BY DEF Procedure
<1>2. <<>> \in Seq(Entry) /\ "procedure" \in Operations
  BY DEF Operations
<1> QED
  BY <1>1, <1>2, StartKeeps DEF Procedure

LEMMA BeginTransactionKeeps ==
  ASSUME IInv, NEW c \in Callers, NEW op \in {"update", "delete"}, NEW body \in Bodies[op],
         BeginTransaction(c, op, body)
  PROVE  IInv'
<1>1. op \in Operations
  BY DEF Operations
<1> QED
  BY <1>1, BodyOf, StartKeeps DEF BeginTransaction

LEMMA CreateFailsKeeps ==
  ASSUME IInv, NEW c \in Callers, NEW body \in Bodies["create"], CreateFails(c, body)
  PROVE  IInv'
<1>1. "create" \in Operations
  BY DEF Operations
<1> QED
  BY <1>1, BodyOf, StartKeeps DEF CreateFails

\* One statement writes one row for every entry.
LEMMA InsertKeeps ==
  ASSUME IInv, NEW c \in Callers, c \notin DOMAIN calls,
         NEW body \in Bodies["create"],
         NEW rows \in [DOMAIN body -> Row], NEW stage \in {"ok", "failed"},
         \A i, j \in DOMAIN body : i # j => KeyOf(rows[i]) # KeyOf(rows[j]),
         \A i \in DOMAIN body : KeyOf(rows[i]) \notin {KeyOf(r) : r \in table},
         table' = table \cup {rows[i] : i \in DOMAIN body},
         applied' = applied \cup {<<c, i, rows[i]>> : i \in DOMAIN body},
         calls' = Put(calls, c,
                    [Begin("create", body, stage) EXCEPT !.results = [i \in DOMAIN body |-> 1]]),
         UNCHANGED page
  PROVE  IInv' /\ Whole(c)'
<1> DEFINE ones == [i \in DOMAIN body |-> 1]
           b == [Begin("create", body, stage) EXCEPT !.results = ones]
<1>1. /\ DOMAIN calls' = DOMAIN calls \cup {c}
      /\ calls'[c] = b
      /\ \A d \in DOMAIN calls : calls'[d] = calls[d]
  BY DEF Put
<1>2. /\ body \in Seq(Entry) /\ "create" \in Operations
      /\ body \in {<<>>} \cup UNION {Bodies[o] : o \in Operations}
  BY BodyOf DEF Operations
<1>3. DOMAIN body = 1..Len(body) /\ Len(body) \in Nat
  BY <1>2
<1>4. /\ ones \in Seq(Nat) /\ Len(ones) = Len(body) /\ DOMAIN ones = DOMAIN body
      /\ \A i \in DOMAIN body : ones[i] = 1
  BY <1>3
<1> HIDE DEF ones
<1>5. /\ b.body = body /\ b.stage = stage /\ b.results = ones
      /\ b.locked = {} /\ b.saved = {}
      /\ b \in Call
  BY <1>2, <1>4 DEF Begin, Call
<1>6. IsMap(calls', Callers, Call)
  BY <1>5, PutType DEF IInv, TypeOK, ones
<1> HIDE DEF b
<1>7. TypeOK'
  <2>1. table' \subseteq Row
    BY DEF IInv, TypeOK
  <2>2. Unique(table')
    BY DEF IInv, TypeOK, Unique
  <2>3. \A i \in DOMAIN body : <<c, i, rows[i]>> \in Callers \X Nat \X Row
    BY <1>3
  <2>4. applied' \subseteq Callers \X Nat \X Row
    BY <2>3 DEF IInv, TypeOK
  <2> QED
    BY <1>6, <2>1, <2>2, <2>4 DEF IInv, TypeOK
<1>8. PageBounds'
  BY DEF IInv, PageBounds
<1>9. NothingBefore'
  BY <1>1 DEF IInv, NothingBefore
<1>10. LocksDisjoint'
  BY <1>1, <1>5 DEF IInv, LocksDisjoint, Open
<1>11. ASSUME NEW i \in DOMAIN body PROVE RowsOf(c, i)' = {<<c, i, rows[i]>>}
  <2>1. \A a \in applied : a[1] # c
    BY DEF IInv, NothingBefore
  <2> QED
    BY <1>3, <2>1 DEF RowsOf
<1>12. Whole(c)'
  <2>1. \A i \in DOMAIN body : Cardinality(RowsOf(c, i))' = 1
    BY <1>11, FS_Singleton
  <2> QED
    BY <1>1, <1>4, <1>5, <2>1 DEF Whole
<1>13. CallsSound'
  <2>1. ASSUME NEW d \in DOMAIN calls PROVE Sound(d)'
    <3>1. Mine(d)' = Mine(d)
      BY DEF Mine
    <3> QED
      BY <1>1, <3>1, SoundSame DEF IInv, CallsSound
  <2>2. Sound(c)'
    <3>1. \A i \in DOMAIN calls'[c].results : calls'[c].results[i] <= 1
      <4>1. calls'[c].results = ones
        BY <1>1, <1>5
      <4>2. \A i \in DOMAIN ones : ones[i] <= 1
        BY <1>4
      <4> QED
        BY <4>1, <4>2
    <3>2. calls'[c].stage \in {"ok", "failed"}
      BY <1>1, <1>5
    <3> QED
      BY <1>12, <3>1, <3>2 DEF Sound
  <2> QED
    BY <1>1, <2>1, <2>2 DEF CallsSound
<1> QED
  BY <1>7, <1>8, <1>9, <1>10, <1>12, <1>13 DEF IInv

LEMMA CreateKeeps ==
  ASSUME IInv, NEW c \in Callers, NEW body \in Bodies["create"], Create(c, body)
  PROVE  IInv'
<1>1. CASE ~AllObjects(body)
  <2>1. "create" \in Operations
    BY DEF Operations
  <2>2. /\ c \notin DOMAIN calls
        /\ calls' = Put(calls, c, Begin("create", body, "refused"))
        /\ UNCHANGED <<table, applied, page>>
    BY <1>1 DEF Create
  <2> QED
    BY <2>1, <2>2, BodyOf, StartKeeps
<1>2. CASE AllObjects(body)
  BY <1>2, InsertKeeps DEF Create
<1> QED
  BY <1>1, <1>2

-----------------------------------------------------------------------------
(* Transactions *)

\* What a transaction has of its own is sound.
LEMMA Opened ==
  ASSUME IInv, NEW c, Open(c)
  PROVE  /\ c \in DOMAIN calls /\ c \in Callers
         /\ calls[c].stage = "open"
         /\ Sound(c) /\ OpenSound(c)
<1>1. c \in DOMAIN calls /\ calls[c].stage = "open"
  BY DEF Open
<1>2. Sound(c)
  BY <1>1 DEF IInv, CallsSound
<1> QED
  BY <1>1, <1>2, CallFacts DEF Sound, IInv

LEMMA StatementKeeps ==
  ASSUME IInv, NEW c \in Callers, Statement(c) PROVE IInv'
<1> DEFINE found == Found(c)
           rows == Found(c) \cup Made(c)
           results == calls[c].results
           n == Len(results) + 1
<1>1. /\ Free(c, rows)
      /\ Unique((table \ found) \cup Made(c))
      /\ table' = (table \ found) \cup Made(c)
      /\ applied' = applied \cup {<<c, n, r>> : r \in found}
      /\ calls' = [calls EXCEPT ![c] = After(c)]
      /\ page' = page
  BY StatementIs
<1>2. /\ HasCurrent(c) /\ ValidEntry(calls[c]) /\ Open(c)
      /\ TypeOK
  BY StatementIs DEF IInv, HasCurrent
<1>3. /\ c \in DOMAIN calls
      /\ calls[c].stage = "open"
      /\ Sound(c) /\ OpenSound(c)
      /\ results \in Seq(Nat) /\ calls[c].body \in Seq(Entry)
      /\ Len(results) < Len(calls[c].body)
  BY <1>2, Opened, CallFacts DEF HasCurrent
<1>4. found \subseteq table /\ Made(c) \subseteq Row /\ Cardinality(found) \in {0, 1}
  BY <1>2, FoundFacts
<1>5. /\ DOMAIN calls' = DOMAIN calls
      /\ calls'[c] = After(c)
      /\ \A d \in DOMAIN calls : d # c => calls'[d] = calls[d]
  BY <1>3, <1>1 DEF IInv, TypeOK, IsMap
<1>6. TypeOK'
  <2>1. table' \subseteq Row /\ Unique(table')
    BY <1>1, <1>2, <1>4 DEF TypeOK
  <2>2. IsMap(calls', Callers, Call)
    BY <1>2, <1>3, <1>5, AfterFacts, <1>1 DEF TypeOK, IsMap
  <2>3. applied' \subseteq Callers \X Nat \X Row
    <3>1. \A r \in found : <<c, n, r>> \in Callers \X Nat \X Row
      BY <1>2, <1>3, <1>4 DEF TypeOK
    <3> QED
      BY <1>2, <3>1, <1>1 DEF TypeOK
  <2> QED
    BY <1>2, <2>1, <2>2, <2>3, <1>1 DEF TypeOK
<1>7. PageBounds'
  BY <1>1 DEF IInv, PageBounds
<1>8. \A a \in applied' : a \in applied \/ \E r \in found : a = <<c, n, r>>
  BY <1>1
<1>9. NothingBefore'
  BY <1>3, <1>5, <1>8 DEF IInv, NothingBefore
<1>10. LocksDisjoint'
  <2>1. \A d \in Callers \ {c} : Open(d) =>
          calls[d].locked \cap (calls[c].locked \cup KeysOf(rows)) = {}
    BY <1>2, <1>1 DEF IInv, LocksDisjoint, Free, KeysOf
  <2>2. calls'[c].locked = calls[c].locked \cup KeysOf(rows)
    BY <1>2, <1>5, AfterFacts
  <2>3. \A d \in Callers \ {c} : Open(d)' => Open(d) /\ calls'[d] = calls[d]
    BY <1>5 DEF Open
  <2> HIDE DEF rows
  <2> QED
    BY <2>1, <2>2, <2>3 DEF IInv, LocksDisjoint
<1>11. ASSUME NEW d \in DOMAIN calls, d # c PROVE Sound(d)'
  <2>1. Mine(d)' = Mine(d)
    BY <1>8, <1>11, <1>1 DEF Mine
  <2> QED
    BY <1>5, <1>11, <2>1, SoundSame DEF IInv, CallsSound
<1>12. /\ calls'[c].body = calls[c].body /\ calls'[c].stage = "open"
       /\ calls'[c].results = Append(results, Cardinality(found))
       /\ calls'[c].locked = calls[c].locked \cup KeysOf(rows)
       /\ calls'[c].saved = calls[c].saved \cup
            {r \in table : KeyOf(r) \in KeysOf(rows) \ calls[c].locked}
  BY <1>2, <1>5, AfterFacts
<1>13. Cardinality(found) \in {0, 1}
  BY <1>4
<1>14. ASSUME NEW i \in 1..n
       PROVE  /\ Append(results, Cardinality(found))[i] <= 1
              /\ Cardinality(RowsOf(c, i))' = Append(results, Cardinality(found))[i]
  <2>1. CASE i = n
    <3>1. Append(results, Cardinality(found))[i] = Cardinality(found)
      BY <1>3, <1>13, <2>1
    <3>2. RowsOf(c, i)' = {<<c, n, r>> : r \in found}
      <4>1. \A a \in applied : a[1] = c => a[2] # n
        BY <1>3 DEF OpenSound
      <4> QED
        BY <2>1, <4>1, <1>1 DEF RowsOf
    <3>3. Cardinality(RowsOf(c, i))' = Cardinality(found)
      <4>1. CASE found = {}
        BY <3>2, <4>1
      <4>2. CASE found # {}
        <5>1. PICK r \in table : found = {r}
          BY <1>2, <4>2, FoundFacts
        <5>2. RowsOf(c, i)' = {<<c, n, r>>}
          BY <3>2, <5>1
        <5> QED
          BY <5>1, <5>2, FS_Singleton
      <4> QED
        BY <4>1, <4>2
    <3> HIDE DEF found
    <3> QED
      BY <1>13, <3>1, <3>3
  <2>2. CASE i # n
    <3>1. i \in DOMAIN results /\ Append(results, Cardinality(found))[i] = results[i]
      BY <1>3, <1>13, <2>2
    <3>2. RowsOf(c, i)' = RowsOf(c, i)
      BY <2>2, <1>1 DEF RowsOf
    <3> QED
      BY <1>3, <3>1, <3>2 DEF OpenSound, Sound
  <2> QED
    BY <2>1, <2>2
<1>15. OpenSound(c)'
  <2>1. /\ Len(calls'[c].results) <= Len(calls'[c].body)
        /\ DOMAIN calls'[c].results = 1..n
    BY <1>3, <1>12, <1>13
  <2>2. \A i \in DOMAIN calls'[c].results :
          Cardinality(RowsOf(c, i))' = calls'[c].results[i]
    BY <1>12, <1>14, <2>1
  <2>3. ASSUME NEW a \in applied', a[1] = c
        PROVE  a[2] \in DOMAIN calls'[c].results /\ KeyOf(a[3]) \in calls'[c].locked
    <3>1. CASE a \in applied
      BY <1>3, <1>12, <2>1, <2>3, <3>1 DEF OpenSound
    <3>2. CASE \E r \in found : a = <<c, n, r>>
      BY <1>3, <1>12, <2>1, <3>2 DEF KeysOf
    <3> QED
      BY <1>8, <3>1, <3>2
  <2>4. \A r \in calls'[c].saved : KeyOf(r) \in calls'[c].locked
    BY <1>3, <1>12 DEF OpenSound
  <2>5. Unique(calls'[c].saved)
    <3>1. Unique(calls[c].saved) /\ \A r \in calls[c].saved : KeyOf(r) \in calls[c].locked
      BY <1>3 DEF OpenSound
    <3>2. Unique(table)
      BY <1>2 DEF TypeOK
    <3> QED
      BY <1>12, <3>1, <3>2 DEF Unique
  <2> QED
    BY <2>1, <2>2, <2>3, <2>4, <2>5 DEF OpenSound, Unique
<1>16. Sound(c)'
  <2>1. \A i \in DOMAIN calls'[c].results : calls'[c].results[i] <= 1
    BY <1>3, <1>12, <1>13, <1>14
  <2> QED
    BY <1>12, <1>15, <2>1 DEF Sound
<1>17. CallsSound'
  BY <1>5, <1>11, <1>16 DEF CallsSound
<1> QED
  BY <1>6, <1>7, <1>9, <1>10, <1>17 DEF IInv

\* A transaction that ends lets go of its locks, committed or not.
LEMMA EndFacts ==
  ASSUME IInv, NEW c, Open(c), NEW stage \in {"ok", "refused", "failed"},
         calls' = [calls EXCEPT ![c].stage = stage, ![c].locked = {}, ![c].saved = {}]
  PROVE  /\ DOMAIN calls' = DOMAIN calls
         /\ \A d \in DOMAIN calls : d # c => calls'[d] = calls[d]
         /\ calls'[c].stage = stage
         /\ calls'[c].body = calls[c].body /\ calls'[c].results = calls[c].results
         /\ IsMap(calls', Callers, Call)
         /\ LocksDisjoint'
<1>1. c \in DOMAIN calls /\ calls[c] \in Call /\ IsMap(calls, Callers, Call)
  BY Opened, CallFacts DEF IInv, TypeOK
<1> DEFINE u == [calls[c] EXCEPT !.stage = stage, !.locked = {}, !.saved = {}]
<1>2. /\ u \in Call /\ u.stage = stage /\ u.locked = {}
      /\ u.body = calls[c].body /\ u.results = calls[c].results
  BY <1>1 DEF Call
<1>3. calls' = [calls EXCEPT ![c] = u]
  BY <1>1 DEF IsMap, Call
<1> HIDE DEF u
<1>4. /\ DOMAIN calls' = DOMAIN calls /\ calls'[c] = u
      /\ \A d \in DOMAIN calls : d # c => calls'[d] = calls[d]
  BY <1>1, <1>3 DEF IsMap
<1>5. IsMap(calls', Callers, Call)
  BY <1>1, <1>2, <1>3 DEF IsMap
<1>6. LocksDisjoint'
  BY <1>2, <1>4 DEF IInv, LocksDisjoint, Open
<1> QED
  BY <1>2, <1>4, <1>5, <1>6

LEMMA RollsBackKeeps ==
  ASSUME IInv, NEW c, Open(c), NEW stage \in {"refused", "failed"}, RollsBack(c, stage)
  PROVE  IInv'
<1>1. /\ table' = {r \in table : KeyOf(r) \notin calls[c].locked} \cup calls[c].saved
      /\ applied' = {a \in applied : a[1] # c \/ KeyOf(a[3]) \notin calls[c].locked}
      /\ calls' = [calls EXCEPT ![c].stage = stage, ![c].locked = {}, ![c].saved = {}]
      /\ page' = page
  BY DEF RollsBack
<1>2. /\ c \in DOMAIN calls /\ OpenSound(c) /\ Sound(c)
      /\ calls[c].saved \subseteq Row
  BY Opened, CallFacts DEF IInv
<1>3. /\ DOMAIN calls' = DOMAIN calls
      /\ \A d \in DOMAIN calls : d # c => calls'[d] = calls[d]
      /\ calls'[c].stage = stage
      /\ calls'[c].body = calls[c].body /\ calls'[c].results = calls[c].results
      /\ IsMap(calls', Callers, Call) /\ LocksDisjoint'
  BY <1>1, EndFacts
<1>4. TypeOK'
  <2>1. table' \subseteq Row
    BY <1>1, <1>2 DEF IInv, TypeOK
  <2>2. Unique(table')
    <3>1. Unique(table)
      BY DEF IInv, TypeOK
    <3>2. Unique(calls[c].saved) /\ \A r \in calls[c].saved : KeyOf(r) \in calls[c].locked
      BY <1>2 DEF OpenSound
    <3> QED
      BY <1>1, <3>1, <3>2 DEF Unique
  <2> QED
    BY <1>1, <1>3, <2>1, <2>2 DEF IInv, TypeOK
<1>5. PageBounds'
  BY <1>1 DEF IInv, PageBounds
<1>6. NothingBefore'
  BY <1>1, <1>3 DEF IInv, NothingBefore
<1>7. \A a \in applied' : a[1] # c
  BY <1>1, <1>2 DEF OpenSound
<1>8. Sound(c)'
  <2>1. Nothing(c)'
    BY <1>7 DEF Nothing, RowsOf
  <2>2. \A i \in DOMAIN calls'[c].results : calls'[c].results[i] <= 1
    BY <1>2, <1>3 DEF Sound
  <2> QED
    BY <1>3, <2>1, <2>2 DEF Sound
<1>9. ASSUME NEW d \in DOMAIN calls, d # c PROVE Sound(d)'
  <2>1. Mine(d)' = Mine(d)
    BY <1>1, <1>9 DEF Mine
  <2> QED
    BY <1>3, <1>9, <2>1, SoundSame DEF IInv, CallsSound
<1>10. CallsSound'
  BY <1>3, <1>8, <1>9 DEF CallsSound
<1> QED
  BY <1>3, <1>4, <1>5, <1>6, <1>10 DEF IInv

\* A transaction that has gone through its entries has done what it counts.
LEMMA DoneIsWhole ==
  ASSUME IInv, NEW c, Open(c), ~HasCurrent(c)
  PROVE  Whole(c)
<1>1. OpenSound(c) /\ c \in DOMAIN calls
  BY Opened
<1>2. calls[c].results \in Seq(Nat) /\ calls[c].body \in Seq(Entry)
  BY <1>1, CallFacts DEF IInv
<1>3. Len(calls[c].results) = Len(calls[c].body)
  BY <1>1, <1>2 DEF HasCurrent, OpenSound
<1>4. DOMAIN calls[c].results = DOMAIN calls[c].body
  BY <1>2, <1>3
<1> QED
  BY <1>1, <1>3, <1>4 DEF Whole, OpenSound

LEMMA CommitKeeps ==
  ASSUME IInv, NEW c, Commit(c) PROVE IInv' /\ Whole(c)'
<1>1. PICK stage \in {"ok", "failed"} :
        calls' = [calls EXCEPT ![c].stage = stage, ![c].locked = {}, ![c].saved = {}]
  BY DEF Commit
<1>2. Open(c) /\ ~HasCurrent(c) /\ UNCHANGED <<table, applied, page>>
  BY DEF Commit
<1>3. /\ DOMAIN calls' = DOMAIN calls
      /\ \A d \in DOMAIN calls : d # c => calls'[d] = calls[d]
      /\ calls'[c].stage = stage
      /\ calls'[c].body = calls[c].body /\ calls'[c].results = calls[c].results
      /\ IsMap(calls', Callers, Call) /\ LocksDisjoint'
  BY <1>1, <1>2, EndFacts
<1>4. c \in DOMAIN calls /\ Sound(c) /\ Whole(c)
  BY <1>2, Opened, DoneIsWhole
<1>5. TypeOK' /\ PageBounds' /\ NothingBefore'
  BY <1>2, <1>3 DEF IInv, TypeOK, PageBounds, NothingBefore, Unique
<1>6. Whole(c)'
  BY <1>2, <1>3, <1>4 DEF Whole, RowsOf
<1>7. Sound(c)'
  <2>1. \A i \in DOMAIN calls'[c].results : calls'[c].results[i] <= 1
    BY <1>3, <1>4 DEF Sound
  <2> QED
    BY <1>3, <1>6, <2>1 DEF Sound
<1>8. ASSUME NEW d \in DOMAIN calls, d # c PROVE Sound(d)'
  <2>1. Mine(d)' = Mine(d)
    BY <1>2 DEF Mine
  <2> QED
    BY <1>3, <1>8, <2>1, SoundSame DEF IInv, CallsSound
<1>9. CallsSound'
  BY <1>3, <1>7, <1>8 DEF CallsSound
<1> QED
  BY <1>3, <1>5, <1>6, <1>9 DEF IInv

-----------------------------------------------------------------------------
(* The other steps *)

\* A step that leaves the calls alone.
LEMMA CallsSame ==
  ASSUME IInv, UNCHANGED <<calls, applied>>
  PROVE  NothingBefore' /\ LocksDisjoint' /\ CallsSound'
<1>1. ASSUME NEW d \in DOMAIN calls PROVE Sound(d)'
  <2>1. Mine(d)' = Mine(d)
    BY DEF Mine
  <2> QED
    BY <2>1, SoundSame DEF IInv, CallsSound
<1> QED
  BY <1>1 DEF IInv, NothingBefore, LocksDisjoint, Open, CallsSound

LEMMA CommittedType ==
  ASSUME TypeOK PROVE Committed \subseteq Row
<1>1. \A c \in Callers : Open(c) => calls[c].saved \subseteq Row
  BY CallFacts DEF Open
<1> QED
  BY <1>1 DEF Committed, TypeOK

LEMMA ListKeeps ==
  ASSUME IInv, NEW limit \in Numbers, NEW offset \in Numbers, NEW filter \in Filters,
         List(limit, offset, filter)
  PROVE  IInv'
<1> DEFINE count == Returned(Where(filter), Limit(limit), Offset(offset))
<1>1. IsFiniteSet(Where(filter))
  BY CommittedType, SomeRowsFinite DEF Where, IInv
<1>2. Limit(limit) \in 1..MaxLimit /\ Offset(offset) \in Nat \cup {Infinity}
  BY LimitInRange, OffsetInRange
<1>3. count \in 0..Limit(limit)
  BY <1>1, <1>2, PageInLimit
<1>4. page' = [limit |-> Limit(limit), count |-> count] /\ UNCHANGED <<table, calls, applied>>
  BY DEF List
<1> HIDE DEF count
<1>5. count \in Nat /\ count <= MaxLimit /\ Limit(limit) \in Int
  BY <1>2, <1>3, TableAssumption
<1>6. TypeOK' /\ PageBounds'
  BY <1>2, <1>4, <1>5 DEF IInv, TypeOK, PageBounds, Unique
<1> QED
  BY <1>4, <1>6, CallsSame DEF IInv

LEMMA ForeignKeeps ==
  ASSUME IInv, Foreign PROVE IInv'
<1>1. PICK r \in Row : /\ table' \subseteq {s \in table : KeyOf(s) # KeyOf(r)} \cup {r}
                        /\ UNCHANGED <<calls, applied, page>>
  BY DEF Foreign
<1>2. TypeOK' /\ PageBounds'
  BY <1>1 DEF IInv, TypeOK, PageBounds, Unique
<1> QED
  BY <1>1, <1>2, CallsSame DEF IInv

LEMMA StutterKeeps ==
  ASSUME IInv, UNCHANGED vars PROVE IInv'
<1>1. TypeOK' /\ PageBounds'
  BY DEF IInv, TypeOK, PageBounds, Unique, vars
<1> QED
  BY <1>1, CallsSame DEF IInv, vars

-----------------------------------------------------------------------------
(* Theorems *)

LEMMA InitIInv == Init => IInv
<1> SUFFICES ASSUME Init PROVE IInv
  OBVIOUS
<1>1. page.limit = DefaultLimit /\ page.count = 0 /\ page \in [limit: Int, count: Nat]
  BY TableAssumption DEF Init
<1>2. PageBounds
  BY <1>1, TableAssumption DEF PageBounds
<1>3. DOMAIN calls = {} /\ IsMap(calls, Callers, Call) /\ applied = {}
  BY DEF Init, EmptyMap, IsMap
<1>4. TypeOK
  BY <1>1, <1>3 DEF Init, TypeOK
<1> QED
  BY <1>2, <1>3, <1>4 DEF IInv, NothingBefore, LocksDisjoint, Open, CallsSound

LEMMA StepKeeps ==
  ASSUME IInv, [Next]_vars PROVE IInv'
<1>1. ASSUME NEW c \in Callers,
             \/ \E op \in Operations : NoEntries(c, op)
             \/ \E body \in Bodies["create"] : Create(c, body) \/ CreateFails(c, body)
             \/ \E op \in {"update", "delete"} : \E body \in Bodies[op] :
                  BeginTransaction(c, op, body)
             \/ Procedure(c)
      PROVE  IInv'
  BY <1>1, NoEntriesKeeps, CreateKeeps, CreateFailsKeeps, BeginTransactionKeeps, ProcedureKeeps
<1>2. ASSUME NEW c \in Callers, Statement(c) \/ RefuseEntry(c) \/ Abort(c) \/ Commit(c)
      PROVE  IInv'
  <2>1. CASE Statement(c)
    BY <2>1, StatementKeeps
  <2>2. CASE RefuseEntry(c)
    BY <2>2, RollsBackKeeps DEF RefuseEntry, HasCurrent
  <2>3. CASE Abort(c)
    BY <2>3, RollsBackKeeps DEF Abort
  <2>4. CASE Commit(c)
    BY <2>4, CommitKeeps
  <2> QED
    BY <1>2, <2>1, <2>2, <2>3, <2>4
<1>3. CASE \E limit, offset \in Numbers, filter \in Filters : List(limit, offset, filter)
  BY <1>3, ListKeeps
<1>4. CASE Foreign
  BY <1>4, ForeignKeeps
<1>5. CASE UNCHANGED vars
  BY <1>5, StutterKeeps
<1> QED
  BY <1>1, <1>2, <1>3, <1>4, <1>5 DEF Next

LEMMA Inductive == Spec => []IInv
  BY InitIInv, StepKeeps, PTL DEF Spec

\* TypeOK: rows keep their keys apart, whatever is rolled back over what
\* others wrote, and a transaction remembers rows and keys of the table.
THEOREM TypeCorrect == Spec => []TypeOK
  BY Inductive, PTL DEF IInv

LEMMA SoundIsAllOrNothing == CallsSound => AllOrNothing
  BY DEF CallsSound, Sound, AllOrNothing

\* AllOrNothing: a bulk call that has ended has done all it counts, at most one
\* row for each entry, or nothing (sql.ts:231, 261).
THEOREM BulkAtomic == Spec => []AllOrNothing
<1>1. IInv => AllOrNothing
  BY SoundIsAllOrNothing DEF IInv
<1> QED
  BY <1>1, Inductive, PTL

\* PageBounds: no list has more rows than its limit, and no limit is larger
\* than the maximum or less than one (sql.ts:159).
THEOREM PagesBounded == Spec => []PageBounds
  BY Inductive, PTL DEF IInv

-----------------------------------------------------------------------------
(* What other connections see *)

LEMMA LockedIs ==
  /\ \A k : k \in Locked <=> \E d \in Callers : Open(d) /\ k \in calls[d].locked
  /\ \A r : r \in Committed <=>
       \/ r \in table /\ KeyOf(r) \notin Locked
       \/ \E d \in Callers : Open(d) /\ r \in calls[d].saved
  BY DEF Locked, Committed

\* A call that begins holds nothing back.
LEMMA StartShowsNothing ==
  ASSUME IInv, NEW c \in Callers, c \notin DOMAIN calls,
         NEW op, NEW body, NEW stage, calls' = Put(calls, c, Begin(op, body, stage)),
         UNCHANGED table
  PROVE  Committed' = Committed
<1>1. /\ DOMAIN calls' = DOMAIN calls \cup {c}
      /\ calls'[c].locked = {} /\ calls'[c].saved = {}
      /\ \A d \in DOMAIN calls : calls'[d] = calls[d]
  BY DEF Put, Begin
<1>2. \A d \in Callers : (Open(d) => Open(d)') /\ (Open(d)' => d = c \/ Open(d))
  BY <1>1 DEF Open
<1>3. \A d \in Callers : Open(d) => calls'[d] = calls[d]
  BY <1>1 DEF Open
<1>4. Locked' = Locked
  BY <1>1, <1>2, <1>3 DEF Locked
<1>5. UNION {calls'[d].saved : d \in {e \in Callers : Open(e)'}}
        = UNION {calls[d].saved : d \in {e \in Callers : Open(e)}}
  BY <1>1, <1>2, <1>3
<1> QED
  BY <1>4, <1>5 DEF Committed

LEMMA StatementShowsNothing ==
  ASSUME IInv, NEW c \in Callers, Statement(c) PROVE Committed' = Committed
<1> DEFINE found == Found(c)
           made == Made(c)
           keys == KeysOf(found \cup made)
           logs == {r \in table : KeyOf(r) \in keys \ calls[c].locked}
<1>1. /\ HasCurrent(c) /\ ValidEntry(calls[c]) /\ Open(c) /\ TypeOK
      /\ Free(c, found \cup made)
      /\ Unique((table \ found) \cup made) /\ (table \ found) \cap made = {}
      /\ table' = (table \ found) \cup made
      /\ calls' = [calls EXCEPT ![c] = After(c)]
  BY StatementIs DEF HasCurrent, IInv
<1>2. c \in DOMAIN calls /\ found \subseteq table /\ Unique(table)
  BY <1>1, FoundFacts DEF Open, TypeOK
<1>3. /\ After(c).stage = "open"
      /\ After(c).locked = calls[c].locked \cup keys
      /\ After(c).saved = calls[c].saved \cup logs
  BY <1>1, AfterFacts
<1>4. /\ DOMAIN calls' = DOMAIN calls /\ calls'[c] = After(c)
      /\ \A d \in DOMAIN calls : d # c => calls'[d] = calls[d]
  BY <1>1, <1>2 DEF TypeOK, IsMap
<1>5. \A d \in Callers : Open(d)' <=> Open(d)
  BY <1>1, <1>3, <1>4 DEF Open
<1>6. \A d \in Callers \ {c} : Open(d) =>
        calls'[d] = calls[d] /\ keys \cap calls[d].locked = {}
  BY <1>1, <1>4 DEF Open, Free, KeysOf
<1>7. \A r \in found \cup made : KeyOf(r) \in keys
  BY DEF KeysOf
<1>8. \A r \in table : KeyOf(r) \in keys => r \in found \/ r \notin table'
  <2>1. ASSUME NEW r \in table, NEW s \in found \cup made, KeyOf(r) = KeyOf(s), r \notin found
        PROVE  r \notin table'
    <3>1. s \notin found
      BY <1>2, <2>1 DEF Unique
    <3>2. s \in made /\ s # r
      BY <1>1, <2>1, <3>1
    <3> QED
      BY <1>1, <2>1, <3>2 DEF Unique
  <2> QED
    BY <2>1 DEF KeysOf
<1> HIDE DEF found, made, keys
<1>9. \A k : k \in Locked' <=> k \in Locked \/ k \in keys
  <2>1. \A k : k \in Locked' <=> \E d \in Callers : Open(d)' /\ k \in calls'[d].locked
    BY DEF Locked
  <2> QED
    BY <1>1, <1>3, <1>4, <1>5, <1>6, <2>1, LockedIs
<1>10. \A r : (\E d \in Callers : Open(d)' /\ r \in calls'[d].saved)
               <=> r \in logs \/ \E d \in Callers : Open(d) /\ r \in calls[d].saved
  <2> HIDE DEF logs
  <2> QED
    BY <1>1, <1>3, <1>4, <1>5, <1>6
<1>11. \A r : r \in Committed' <=>
         \/ r \in table' /\ KeyOf(r) \notin Locked'
         \/ \E d \in Callers : Open(d)' /\ r \in calls'[d].saved
  BY DEF Committed
<1>12. \A r \in logs : r \in table /\ KeyOf(r) \notin Locked
  BY <1>1, <1>6, LockedIs
<1>13. \A r : r \in table' /\ KeyOf(r) \notin Locked' => r \in table /\ KeyOf(r) \notin Locked
  BY <1>1, <1>7, <1>9
<1>14. \A r \in table : KeyOf(r) \notin Locked /\ KeyOf(r) \in keys => r \in logs
  BY <1>1, LockedIs
<1>15. \A r \in table : KeyOf(r) \notin Locked /\ KeyOf(r) \notin keys =>
         r \in table' /\ KeyOf(r) \notin Locked'
  BY <1>1, <1>7, <1>9
<1> HIDE DEF logs
<1>16. \A r : r \in Committed' <=> r \in Committed
  BY <1>10, <1>11, <1>12, <1>13, <1>14, <1>15, LockedIs
<1> QED
  BY <1>16

LEMMA RollBackShowsNothing ==
  ASSUME IInv, NEW c, Open(c), NEW stage \in {"refused", "failed"}, RollsBack(c, stage)
  PROVE  Committed' = Committed
<1>1. /\ table' = {r \in table : KeyOf(r) \notin calls[c].locked} \cup calls[c].saved
      /\ calls' = [calls EXCEPT ![c].stage = stage, ![c].locked = {}, ![c].saved = {}]
  BY DEF RollsBack
<1>2. /\ c \in Callers /\ c \in DOMAIN calls
      /\ \A r \in calls[c].saved : KeyOf(r) \in calls[c].locked
  BY Opened DEF OpenSound
<1>3. /\ DOMAIN calls' = DOMAIN calls
      /\ \A d \in DOMAIN calls : d # c => calls'[d] = calls[d]
      /\ calls'[c].stage = stage
  BY <1>1, EndFacts
<1>4. \A d \in Callers : Open(d)' <=> Open(d) /\ d # c
  BY <1>3 DEF Open
<1>5. \A d \in Callers \ {c} : Open(d) =>
        calls'[d] = calls[d] /\ calls[c].locked \cap calls[d].locked = {}
  BY <1>2, <1>3 DEF Open, IInv, LocksDisjoint
<1>6. \A k : k \in Locked' <=> k \in Locked /\ k \notin calls[c].locked
  <2>1. \A k : k \in Locked' <=> \E d \in Callers : Open(d)' /\ k \in calls'[d].locked
    BY DEF Locked
  <2> QED
    BY <1>2, <1>4, <1>5, <2>1, LockedIs
<1>7. \A r : (\E d \in Callers : Open(d) /\ r \in calls[d].saved)
              <=> r \in calls[c].saved \/ \E d \in Callers : Open(d)' /\ r \in calls'[d].saved
  BY <1>2, <1>4, <1>5
<1>8. \A r : r \in Committed' <=>
         \/ r \in table' /\ KeyOf(r) \notin Locked'
         \/ \E d \in Callers : Open(d)' /\ r \in calls'[d].saved
  BY DEF Committed
<1>9. \A k \in calls[c].locked : k \in Locked
  BY <1>2, LockedIs
<1>10. \A r : r \in Committed' <=> r \in Committed
  BY <1>1, <1>2, <1>6, <1>7, <1>8, <1>9, LockedIs
<1> QED
  BY <1>10

\* A step that leaves the table and the calls alone.
LEMMA SameShown ==
  ASSUME UNCHANGED <<table, calls>> PROVE Committed' = Committed
  BY DEF Committed, Locked, Open

LEMMA SeenStep ==
  ASSUME IInv, [Next]_vars, Committed' # Committed
  PROVE  Foreign \/ \E c \in Callers : Ends(c) /\ Whole(c)'
<1>1. ASSUME NEW c \in Callers,
             \/ \E op \in Operations : NoEntries(c, op)
             \/ \E body \in Bodies["create"] : CreateFails(c, body)
             \/ \E op \in {"update", "delete"} : \E body \in Bodies[op] :
                  BeginTransaction(c, op, body)
             \/ Procedure(c)
      PROVE  FALSE
  BY <1>1, StartShowsNothing DEF NoEntries, CreateFails, BeginTransaction, Procedure
<1>2. ASSUME NEW c \in Callers, Statement(c) \/ RefuseEntry(c) \/ Abort(c)
      PROVE  FALSE
  BY <1>2, StatementShowsNothing, RollBackShowsNothing DEF RefuseEntry, Abort, HasCurrent
<1>3. ASSUME NEW c \in Callers, NEW body \in Bodies["create"], Create(c, body)
      PROVE  Ends(c) /\ Whole(c)'
  <2>1. CASE ~AllObjects(body)
    BY <1>3, <2>1, StartShowsNothing DEF Create
  <2>2. CASE AllObjects(body)
    <3>1. Whole(c)'
      BY <1>3, <2>2, InsertKeeps DEF Create
    <3>2. Ends(c)
      BY <1>3, <2>2 DEF Create, Ends, Ended, Put, Begin
    <3> QED
      BY <3>1, <3>2
  <2> QED
    BY <2>1, <2>2
<1>4. ASSUME NEW c \in Callers, Commit(c) PROVE Ends(c) /\ Whole(c)'
  <2>1. PICK stage \in {"ok", "failed"} :
          calls' = [calls EXCEPT ![c].stage = stage, ![c].locked = {}, ![c].saved = {}]
    BY <1>4 DEF Commit
  <2>2. Open(c)
    BY <1>4 DEF Commit
  <2>3. DOMAIN calls' = DOMAIN calls /\ calls'[c].stage = stage
    BY <2>1, <2>2, EndFacts
  <2>4. Ends(c)
    BY <2>2, <2>3 DEF Ends, Ended, Open
  <2> QED
    BY <1>4, <2>4, CommitKeeps
<1>5. CASE \E limit, offset \in Numbers, filter \in Filters : List(limit, offset, filter)
  BY <1>5, SameShown DEF List
<1>6. CASE UNCHANGED vars
  BY <1>6, SameShown DEF vars
<1> QED
  BY <1>1, <1>2, <1>3, <1>4, <1>5, <1>6 DEF Next

\* SeenWhole: nobody sees a part of a bulk call.
THEOREM CallsSeenWhole == Spec => SeenWhole
<1>1. IInv /\ [Next]_vars =>
        [Committed' # Committed => Foreign \/ \E c \in Callers : Ends(c) /\ Whole(c)']_vars
  BY SeenStep
<1> QED
  BY <1>1, Inductive, PTL DEF Spec, SeenWhole

=============================================================================
