--------------------------- MODULE RowCallsProofs ---------------------------
(***************************************************************************)
(* What the calls of RowCalls do to the tables, for all calls, messages    *)
(* and contents of the database.                                           *)
(***************************************************************************)
EXTENDS RowCalls, TLAPS

-----------------------------------------------------------------------------
(* Requests                                                                 *)

\* The fields that a message's request has.
LEMMA RequestFields ==
  ASSUME NEW m, NEW f \in Payload(m.method)
  PROVE  f \in DOMAIN Request(m) /\ Request(m)[f] = Arguments(m)[f]
BY DEF Request

LEMMA NamedTable ==
  ASSUME NEW m, m.method \in {"GET_SINGLE", "ADD_SINGLE", "UPDATE_SINGLE", "DELETE_ROW",
                              "TABLE_EXISTS", "RUN_AGGREGATION"},
         Named(Request(m))
  PROVE  FullTableName(Request(m)) = Table(m) /\ Request(m).companyId = Table(m)[1]
<1>1. "companyId" \in Payload(m.method) /\ "tableName" \in Payload(m.method)
  BY DEF Payload, GetSingleReq, AddSingleReq, UpdateSingleReq, DeleteRowReq, TableExistsReq, RunAggregationReq
<1>2. Request(m).companyId = Arguments(m).companyId /\ Request(m).tableName = Arguments(m).tableName
  BY <1>1, RequestFields
<1>3. Arguments(m).companyId = IF m.companyId = Absent THEN Tenant ELSE m.companyId
  BY DEF Arguments
<1>4. Arguments(m).tableName = IF m.table = Absent THEN "" ELSE m.table
  BY DEF Arguments
<1>. QED
  BY <1>2, <1>3, <1>4 DEF Named, FullTableName, Table

\* What the statements of rows read of the message.
Column(m) == IF m.pk = Absent THEN "id" ELSE m.pk

LEMMA KeyedRequest ==
  ASSUME NEW m, m.method \in {"GET_SINGLE", "UPDATE_SINGLE", "DELETE_ROW"}
  PROVE  Request(m).primaryKeyColumn = Column(m) /\ Request(m).primaryId = Key(m)
<1>1. "primaryKeyColumn" \in Payload(m.method) /\ "primaryId" \in Payload(m.method)
  BY DEF Payload, GetSingleReq, UpdateSingleReq, DeleteRowReq
<1>2. Arguments(m).primaryKeyColumn = Column(m) /\ Arguments(m).primaryId = Key(m)
  BY DEF Arguments, Column, Key
<1>. QED
  BY <1>1, <1>2, RequestFields

LEMMA BodyRequest ==
  ASSUME NEW m, m.body # Absent
  PROVE  /\ m.method = "ADD_SINGLE" => Request(m).rowJson = m.body
         /\ m.method = "UPDATE_SINGLE" => Request(m).updatesJson = m.body
<1>1. Arguments(m).rowJson = m.body /\ Arguments(m).updatesJson = m.body
  BY DEF Arguments
<1>2. /\ m.method = "ADD_SINGLE" => "rowJson" \in Payload(m.method)
      /\ m.method = "UPDATE_SINGLE" => "updatesJson" \in Payload(m.method)
  BY DEF Payload, AddSingleReq, UpdateSingleReq
<1>. QED
  BY <1>1, <1>2, RequestFields

\* An update without a body has an empty patch, and is refused.
LEMMA EmptyUpdateRefused ==
  ASSUME NEW m, m.method = "UPDATE_SINGLE", m.body = Absent, NEW rows
  PROVE  UpdateSingle(Request(m), rows) = {}
<1>1. Arguments(m).updatesJson.fields = Empty
  BY DEF Arguments
<1>2. "updatesJson" \in Payload(m.method)
  BY DEF Payload, UpdateSingleReq
<1>3. Request(m).updatesJson.fields = Empty
  BY <1>1, <1>2, RequestFields
<1>. QED
  BY <1>3 DEF UpdateSingle
-----------------------------------------------------------------------------
(* Statements                                                               *)

Patched(r, row) == [f \in Columns |-> IF f \in DOMAIN r.updatesJson.fields THEN r.updatesJson.fields[f] ELSE row[f]]
Hits(r, rows) == Matching(rows, r.primaryKeyColumn, r.primaryId)
Updated(r, rows) == {Patched(r, row) : row \in Hits(r, rows)}

LEMMA HitsAre ==
  ASSUME NEW r, NEW rows
  PROVE  \A row : row \in Hits(r, rows) <=> row \in rows /\ row[r.primaryKeyColumn] = r.primaryId
BY DEF Hits, Matching

\* What an update that is accepted does.
LEMMA UpdateGives ==
  ASSUME NEW r, NEW rows, NEW o \in UpdateSingle(r, rows)
  PROVE  /\ o.rows = (rows \ Hits(r, rows)) \cup Updated(r, rows)
         /\ "id" \in DOMAIN r.updatesJson.fields =>
              /\ \A a, b \in Hits(r, rows) : a = b
              /\ Hits(r, rows) # {} => r.updatesJson.fields.id \notin Ids(rows \ Hits(r, rows))
BY DEF UpdateSingle, Hits, Updated, Patched

\* The row that an addition makes of the fields it is given.
FullRow(fields, id) ==
  [f \in Columns |-> IF f = "id" THEN id ELSE IF f \in DOMAIN fields THEN fields[f] ELSE Null]

LEMMA FullRowIs ==
  ASSUME NEW fields, NEW id
  PROVE  FullRow(fields, id) = [f \in Columns |-> FullRow(fields, id)[f]] /\ FullRow(fields, id).id = id
BY DEF FullRow, Columns

\* What an addition does: its id was free.
LEMMA AddGives ==
  ASSUME NEW r, NEW rows, NEW o \in AddSingle(r, rows)
  PROVE  \E id : /\ id \notin Ids(rows)
                 /\ "id" \in DOMAIN r.rowJson.fields => id = r.rowJson.fields.id
                 /\ o.rows = rows \cup {FullRow(r.rowJson.fields, id)}
<1> DEFINE given == r.rowJson.fields
           ids == IF "id" \in DOMAIN given THEN {given.id} ELSE FreshIds
           free == IF r.rowJson.text THEN {} ELSE ids \ Ids(rows)
<1>1. AddSingle(r, rows) = {[data |-> RowsJson({FullRow(given, id)}), rows |-> rows \cup {FullRow(given, id)}] : id \in free}
  BY DEF AddSingle, FullRow
<1>2. free \subseteq ids \ Ids(rows)
  OBVIOUS
<1>3. \A id \in ids : "id" \in DOMAIN given => id = given.id
  OBVIOUS
<1> HIDE DEF given, ids, free
<1>4. PICK id \in free : o = [data |-> RowsJson({FullRow(given, id)}), rows |-> rows \cup {FullRow(given, id)}]
  BY <1>1
<1>. QED
  BY <1>2, <1>3, <1>4 DEF given

LEMMA AddKeepsTable ==
  ASSUME NEW r, NEW rows, IsTable(rows), NEW o \in AddSingle(r, rows)
  PROVE  IsTable(o.rows) /\ rows \subseteq o.rows
<1>1. PICK id : id \notin Ids(rows) /\ o.rows = rows \cup {FullRow(r.rowJson.fields, id)}
  BY AddGives
<1>2. \A row \in rows : row.id # id
  BY <1>1 DEF Ids
<1>. QED
  BY <1>1, <1>2, FullRowIs DEF IsTable

LEMMA PatchedIs ==
  ASSUME NEW r, NEW row
  PROVE  /\ Patched(r, row) = [f \in Columns |-> Patched(r, row)[f]]
         /\ Patched(r, row).id = IF "id" \in DOMAIN r.updatesJson.fields THEN r.updatesJson.fields.id ELSE row.id
         /\ Patched(r, Patched(r, row)) = Patched(r, row)
BY DEF Patched, Columns

LEMMA UpdateKeepsTable ==
  ASSUME NEW r, NEW rows, IsTable(rows), NEW o \in UpdateSingle(r, rows)
  PROVE  IsTable(o.rows)
<1> DEFINE hits == Hits(r, rows)
           named == "id" \in DOMAIN r.updatesJson.fields
<1>1. o.rows = (rows \ hits) \cup Updated(r, rows)
  BY UpdateGives
<1>2. \A u \in Updated(r, rows) : \E row \in hits : u = Patched(r, row)
  BY DEF Updated
<1>3. hits \subseteq rows
  BY HitsAre
<1>4. named => /\ \A a, b \in hits : a = b
               /\ hits # {} => \A row \in rows \ hits : row.id # r.updatesJson.fields.id
  BY UpdateGives DEF Ids
<1> HIDE DEF hits, named
<1>5. \A u \in Updated(r, rows) : u = [f \in Columns |-> u[f]]
  BY <1>2, PatchedIs
<1>6. \A row \in rows \ hits : \A u \in Updated(r, rows) : row.id # u.id
  <2> SUFFICES ASSUME NEW row \in rows \ hits, NEW old \in hits PROVE row.id # Patched(r, old).id
    BY <1>2
  <2>1. CASE named
    BY <2>1, <1>4, PatchedIs DEF named
  <2>2. CASE ~named
    BY <2>2, <1>3, PatchedIs DEF named, IsTable
  <2>. QED
    BY <2>1, <2>2
<1>7. \A u, v \in Updated(r, rows) : u.id = v.id => u = v
  <2> SUFFICES ASSUME NEW a \in hits, NEW b \in hits, Patched(r, a).id = Patched(r, b).id
               PROVE  Patched(r, a) = Patched(r, b)
    BY <1>2
  <2>1. CASE named
    BY <2>1, <1>4
  <2>2. CASE ~named
    BY <2>2, <1>3, PatchedIs DEF named, IsTable
  <2>. QED
    BY <2>1, <2>2
<1>. QED
  BY <1>1, <1>5, <1>6, <1>7 DEF IsTable

\* The statements that only read, and what each writer's is.
LEMMA StatementIs ==
  ASSUME NEW method, NEW r, NEW rows, NEW o \in Statement(method, r, rows)
  PROVE  /\ method \in {"GET_SINGLE", "ADD_SINGLE", "UPDATE_SINGLE", "DELETE_ROW", "TABLE_EXISTS", "RUN_AGGREGATION"}
         /\ method = "GET_SINGLE" => o \in GetSingle(r, rows)
         /\ method = "ADD_SINGLE" => o \in AddSingle(r, rows)
         /\ method = "UPDATE_SINGLE" => o \in UpdateSingle(r, rows)
         /\ method = "DELETE_ROW" => o \in DeleteRow(r, rows)
         /\ method \notin {"ADD_SINGLE", "UPDATE_SINGLE", "DELETE_ROW"} => o.rows = rows
<1>1. \A p \in GetSingle(r, rows) : p.rows = rows
  BY DEF GetSingle
<1>2. \A p \in RunAggregation(rows) : p.rows = rows
  BY DEF RunAggregation
<1>3. \A p \in {[data |-> BoolRes(TRUE), rows |-> rows]} : p.rows = rows
  OBVIOUS
<1>4. method = "GET_SINGLE" => Statement(method, r, rows) = GetSingle(r, rows)
  BY DEF Statement
<1>5. method = "ADD_SINGLE" => Statement(method, r, rows) = AddSingle(r, rows)
  BY DEF Statement
<1>6. method = "UPDATE_SINGLE" => Statement(method, r, rows) = UpdateSingle(r, rows)
  BY DEF Statement
<1>7. method = "DELETE_ROW" => Statement(method, r, rows) = DeleteRow(r, rows)
  BY DEF Statement
<1>8. method = "RUN_AGGREGATION" => Statement(method, r, rows) = RunAggregation(rows)
  BY DEF Statement
<1>9. method = "TABLE_EXISTS" => Statement(method, r, rows) = {[data |-> BoolRes(TRUE), rows |-> rows]}
  BY DEF Statement
<1>10. method \in {"GET_SINGLE", "ADD_SINGLE", "UPDATE_SINGLE", "DELETE_ROW", "TABLE_EXISTS", "RUN_AGGREGATION"}
  BY DEF Statement
<1>. QED
  BY <1>1, <1>2, <1>3, <1>4, <1>5, <1>6, <1>7, <1>8, <1>9, <1>10

LEMMA DeleteGives ==
  ASSUME NEW r, NEW rows, NEW o \in DeleteRow(r, rows)
  PROVE  o.data = BoolRes(Deleted(r, rows) # {}) /\ o.rows = rows \ Deleted(r, rows)
BY DEF DeleteRow

LEMMA DeletedAre ==
  ASSUME NEW r, NEW rows
  PROVE  \A row : row \in Deleted(r, rows) <=>
           row \in rows /\ row[r.primaryKeyColumn] = r.primaryId /\ row["companyId"] = r.companyId
BY DEF Deleted, Matching

LEMMA StatementKeepsTable ==
  ASSUME NEW method, NEW r, NEW rows, IsTable(rows), NEW o \in Statement(method, r, rows)
  PROVE  IsTable(o.rows)
<1>1. CASE method = "ADD_SINGLE"
  BY <1>1, StatementIs, AddKeepsTable
<1>2. CASE method = "UPDATE_SINGLE"
  BY <1>2, StatementIs, UpdateKeepsTable
<1>3. CASE method = "DELETE_ROW"
  BY <1>3, StatementIs, DeleteGives DEF IsTable
<1>. QED
  BY <1>1, <1>2, <1>3, StatementIs

\* A statement that was run changes nothing when it is run again at once.
LEMMA UpdateIdempotent ==
  ASSUME NEW r, NEW rows, NEW o \in UpdateSingle(r, rows), NEW p \in UpdateSingle(r, o.rows)
  PROVE  p.rows = o.rows
<1>1. o.rows = (rows \ Hits(r, rows)) \cup Updated(r, rows)
  BY UpdateGives
<1>2. p.rows = (o.rows \ Hits(r, o.rows)) \cup Updated(r, o.rows)
  BY UpdateGives
<1>3. Hits(r, o.rows) \subseteq Updated(r, rows) /\ Hits(r, o.rows) \subseteq o.rows
  BY <1>1, HitsAre
<1>4. \A row \in Hits(r, o.rows) : Patched(r, row) = row
  <2> SUFFICES ASSUME NEW row \in Hits(r, o.rows) PROVE Patched(r, row) = row
    OBVIOUS
  <2>1. PICK old : row = Patched(r, old)
    BY <1>3 DEF Updated
  <2>. QED
    BY <2>1, PatchedIs
<1>5. Updated(r, o.rows) = Hits(r, o.rows)
  BY <1>4 DEF Updated
<1>. QED
  BY <1>2, <1>3, <1>5

LEMMA AddNotRepeated ==
  ASSUME NEW r, NEW rows, "id" \in DOMAIN r.rowJson.fields, NEW row \in rows, row.id = r.rowJson.fields.id
  PROVE  AddSingle(r, rows) = {}
BY AddGives DEF Ids

LEMMA StatementIdempotent ==
  ASSUME NEW method, NEW r, NEW rows, method = "ADD_SINGLE" => "id" \in DOMAIN r.rowJson.fields,
         NEW o \in Statement(method, r, rows), NEW p \in Statement(method, r, o.rows)
  PROVE  p.rows = o.rows
<1>1. CASE method = "ADD_SINGLE"
  <2>1. o \in AddSingle(r, rows) /\ p \in AddSingle(r, o.rows)
    BY <1>1, StatementIs
  <2>2. FullRow(r.rowJson.fields, r.rowJson.fields.id) \in o.rows
    BY <1>1, <2>1, AddGives
  <2>. QED
    BY <1>1, <2>1, <2>2, FullRowIs, AddNotRepeated
<1>2. CASE method = "UPDATE_SINGLE"
  BY <1>2, StatementIs, UpdateIdempotent
<1>3. CASE method = "DELETE_ROW"
  <2>1. o.rows = rows \ Deleted(r, rows) /\ p.rows = o.rows \ Deleted(r, o.rows)
    BY <1>3, StatementIs, DeleteGives
  <2>. QED
    BY <2>1, DeletedAre
<1>. QED
  BY <1>1, <1>2, <1>3, StatementIs
-----------------------------------------------------------------------------
(* Steps                                                                    *)

\* The containers that TypeOK leaves out.
Shapes == replies = [c \in Calls |-> replies[c]] /\ answer = [c \in Calls |-> answer[c]]

\* The steps that run no request, and those of a request of c that is run.
Quiet == message' = message /\ runs' = runs /\ replies' = replies /\ database' = database

Runs(c, told) ==
  /\ message' = message /\ stage' = stage /\ after' = after /\ answer' = answer
  /\ stage[c] # "idle" /\ runs[c] \in {0, 1}
  /\ runs' = [runs EXCEPT ![c] = @ + 1] /\ replies' = [replies EXCEPT ![c] = @ \cup {told}]

RunsStatement(c, o, told) ==
  /\ Runs(c, told) /\ Table(message[c]) \in DOMAIN database
  /\ o \in Statement(message[c].method, Request(message[c]), database[Table(message[c])])
  /\ told = Error \/ told = [ok |-> TRUE, data |-> o.data]
  /\ Request(message[c]).companyId = Table(message[c])[1]
  /\ database' = [database EXCEPT ![Table(message[c])] = o.rows]

RunsNothing(c, told) ==
  /\ Runs(c, told) /\ database' = database
  /\ \/ told = Error
     \/ message[c].method = "TABLE_EXISTS" /\ told = [ok |-> TRUE, data |-> BoolRes(FALSE)]

LEMMA RunIs ==
  ASSUME NEW c \in Calls, Run(c)
  PROVE  \E o, told : RunsStatement(c, o, told)
<1> DEFINE m == message[c]
           r == Request(m)
<1>1. Named(r) /\ FullTableName(r) \in DOMAIN database
  BY DEF Run
<1>2. PICK o \in Statement(m.method, r, database[FullTableName(r)]) :
        \E told \in {[ok |-> TRUE, data |-> o.data], Error} :
          Done(c, told, [database EXCEPT ![FullTableName(r)] = o.rows])
  BY DEF Run
<1>3. PICK told \in {[ok |-> TRUE, data |-> o.data], Error} :
        Done(c, told, [database EXCEPT ![FullTableName(r)] = o.rows])
  BY <1>2
<1>4. FullTableName(r) = Table(m) /\ r.companyId = Table(m)[1]
  BY <1>1, <1>2, StatementIs, NamedTable
<1>5. Runs(c, told) /\ database' = [database EXCEPT ![FullTableName(r)] = o.rows]
  BY <1>3 DEF Done, Runs
<1>. QED
  BY <1>1, <1>2, <1>3, <1>4, <1>5 DEF RunsStatement

LEMMA RunNothingIs ==
  ASSUME NEW c \in Calls, RunNoTable(c) \/ RunFails(c)
  PROVE  \E told : RunsNothing(c, told)
<1>1. CASE RunNoTable(c)
  BY <1>1 DEF RunNoTable, Done, Runs, RunsNothing
<1>2. CASE RunFails(c)
  BY <1>2 DEF RunFails, Done, Runs, RunsNothing
<1>. QED
  BY <1>1, <1>2

LEMMA StepIs ==
  ASSUME [Next]_vars
  PROVE  \/ Quiet
         \/ \E c \in Calls : \E o, told : RunsStatement(c, o, told)
         \/ \E c \in Calls : \E told : RunsNothing(c, told)
<1>1. CASE UNCHANGED vars
  BY <1>1 DEF vars, Quiet
<1>2. ASSUME NEW c \in Calls, Ask(c) \/ Answer(c) \/ Fail(c) PROVE Quiet
  BY <1>2 DEF Ask, Answer, Fail, Quiet
<1>. QED
  BY <1>1, <1>2, RunIs, RunNothingIs DEF Next

\* What a run does to each call, and each table.
LEMMA RunsOne ==
  ASSUME TypeOK, Shapes, NEW c \in Calls, NEW told, Runs(c, told)
  PROVE  /\ runs'[c] = runs[c] + 1 /\ \A d \in Calls \ {c} : runs'[d] = runs[d]
         /\ replies'[c] = replies[c] \cup {told} /\ \A d \in Calls \ {c} : replies'[d] = replies[d]
         /\ runs' \in [Calls -> 0..2]
         /\ replies' = [d \in Calls |-> replies'[d]]
<1>1. replies' = [d \in Calls |-> IF d = c THEN replies[c] \cup {told} ELSE replies[d]]
  BY DEF Runs, Shapes
<1>2. runs' = [d \in Calls |-> IF d = c THEN runs[c] + 1 ELSE runs[d]]
  BY DEF Runs, TypeOK
<1>3. runs[c] + 1 \in 0..2
  BY DEF Runs
<1>. QED
  BY <1>1, <1>2, <1>3 DEF TypeOK

LEMMA WritesOne ==
  ASSUME TypeOK, NEW c \in Calls, NEW o, NEW told, RunsStatement(c, o, told)
  PROVE  /\ DOMAIN database' = DOMAIN database
         /\ database'[Table(message[c])] = o.rows
         /\ \A t \in DOMAIN database : t # Table(message[c]) => database'[t] = database[t]
         /\ IsDatabase(database')
<1> DEFINE target == Table(message[c])
<1>1. target \in DOMAIN database /\ database' = [database EXCEPT ![target] = o.rows]
  BY DEF RunsStatement
<1>2. IsTable(o.rows)
  BY <1>1, StatementKeepsTable DEF RunsStatement, TypeOK, IsDatabase
<1> HIDE DEF target
<1>3. /\ DOMAIN database' = DOMAIN database /\ database'[target] = o.rows
      /\ \A t \in DOMAIN database : t # target => database'[t] = database[t]
      /\ database' = [t \in DOMAIN database' |-> database'[t]]
  BY <1>1
<1>4. \A t \in DOMAIN database' : IsTable(database'[t])
  BY <1>2, <1>3 DEF TypeOK, IsDatabase
<1>. QED
  BY <1>3, <1>4 DEF IsDatabase, target

\* A table changes only by a run of a writer of it.
LEMMA OnlyWritersWrite ==
  ASSUME TypeOK, NEW c \in Calls, NEW o, NEW told, RunsStatement(c, o, told),
         NEW t \in DOMAIN database, database'[t] # database[t]
  PROVE  Table(message[c]) = t /\ Writes(message[c]) /\ stage[c] # "idle"
<1>1. Table(message[c]) = t
  BY WritesOne
<1>2. Writes(message[c])
  BY <1>1, WritesOne, StatementIs DEF RunsStatement, Writes
<1>. QED
  BY <1>1, <1>2 DEF RunsStatement, Runs
-----------------------------------------------------------------------------
(* Types                                                                    *)

TypeInv == TypeOK /\ Shapes

LEMMA TypeInit == Init => TypeInv
<1> SUFFICES ASSUME Init PROVE TypeInv
  OBVIOUS
<1>1. IsDatabase(database)
  BY DatabasesAssumption DEF Init
<1>. QED
  BY <1>1 DEF Init, TypeInv, TypeOK, Shapes

LEMMA TypeNext == TypeInv /\ [Next]_vars => TypeInv'
<1> SUFFICES ASSUME TypeOK, Shapes, [Next]_vars PROVE TypeInv'
  BY DEF TypeInv
<1>1. ASSUME NEW c \in Calls, Ask(c) PROVE TypeInv'
  BY <1>1 DEF Ask, TypeInv, TypeOK, Shapes
<1>2. ASSUME NEW c \in Calls, Answer(c) PROVE TypeInv'
  <2>1. PICK o \in replies[c] :
          /\ stage' = [stage EXCEPT ![c] = IF o.ok THEN "answered" ELSE "failed"]
          /\ answer' = [answer EXCEPT ![c] = IF o.ok THEN Data(o.data) ELSE Absent]
    BY <1>2 DEF Answer
  <2>. QED
    BY <1>2, <2>1 DEF Answer, TypeInv, TypeOK, Shapes
<1>3. ASSUME NEW c \in Calls, Fail(c) PROVE TypeInv'
  BY <1>3 DEF Fail, TypeInv, TypeOK, Shapes
<1>4. ASSUME NEW c \in Calls, NEW told, Runs(c, told), IsDatabase(database') PROVE TypeInv'
  <2>1. \A d \in Calls : stage'[d] = "idle" => runs'[d] = 0 /\ replies'[d] = {}
    BY <1>4, RunsOne DEF Runs, TypeOK
  <2>. QED
    BY <1>4, <2>1, RunsOne DEF Runs, TypeInv, TypeOK, Shapes
<1>5. ASSUME NEW c \in Calls, NEW o, NEW told, RunsStatement(c, o, told) PROVE TypeInv'
  BY <1>4, <1>5, WritesOne DEF RunsStatement
<1>6. ASSUME NEW c \in Calls, NEW told, RunsNothing(c, told) PROVE TypeInv'
  BY <1>4, <1>6 DEF RunsNothing, TypeOK
<1>7. CASE UNCHANGED vars
  BY <1>7 DEF vars, TypeInv, TypeOK, Shapes
<1>. QED
  BY <1>1, <1>2, <1>3, <1>5, <1>6, <1>7, RunIs, RunNothingIs DEF Next

(* Every variable keeps its type, and in every table ids stay unique        *)
(* whatever the statements insert and patch (query_builder.ts 100-130).     *)
THEOREM Types == Spec => []TypeOK
<1>1. Spec => []TypeInv
  BY TypeInit, TypeNext, PTL DEF Spec
<1>2. TypeInv => TypeOK
  BY DEF TypeInv
<1>. QED
  BY <1>1, <1>2, PTL
-----------------------------------------------------------------------------
(* Deletions                                                                *)

\* Why an id is gone after a statement.
LEMMA GoneByStatement ==
  ASSUME NEW m, NEW rows, NEW o \in Statement(m.method, Request(m), rows),
         IsTable(rows), NEW row \in rows, row.id \notin Ids(o.rows)
  PROVE  /\ Names(m, row)
         /\ \/ m.method = "DELETE_ROW" /\ row.companyId = Request(m).companyId
            \/ m.method = "UPDATE_SINGLE" /\ "id" \in DOMAIN m.body.fields /\ m.body.fields.id \in Ids(o.rows)
<1> DEFINE r == Request(m)
<1>1. row \notin o.rows
  BY DEF Ids
<1>2. m.method \in {"UPDATE_SINGLE", "DELETE_ROW"}
  BY <1>1, StatementIs, AddKeepsTable
<1>3. row[r.primaryKeyColumn] = r.primaryId => Names(m, row)
  BY <1>2, KeyedRequest DEF Names, Column
<1>4. CASE m.method = "DELETE_ROW"
  BY <1>1, <1>3, <1>4, StatementIs, DeleteGives, DeletedAre
<1>5. CASE m.method = "UPDATE_SINGLE"
  <2>1. o \in UpdateSingle(r, rows)
    BY <1>5, StatementIs
  <2>2. r.updatesJson = m.body
    BY <1>5, <2>1, EmptyUpdateRefused, BodyRequest
  <2>3. o.rows = (rows \ Hits(r, rows)) \cup Updated(r, rows)
    BY <2>1, UpdateGives
  <2>4. row \in Hits(r, rows)
    BY <1>1, <2>3
  <2>5. Patched(r, row) \in o.rows
    BY <2>3, <2>4 DEF Updated
  <2>6. Patched(r, row).id \in Ids(o.rows)
    BY <2>5 DEF Ids
  <2>7. "id" \in DOMAIN m.body.fields /\ m.body.fields.id \in Ids(o.rows)
    BY <2>2, <2>6, PatchedIs
  <2>. QED
    BY <1>3, <1>5, <2>4, <2>7, HitsAre
<1>. QED
  BY <1>2, <1>4, <1>5

LEMMA DeletesStep ==
  ASSUME TypeInv, [Next]_vars, NEW t \in DOMAIN database, NEW row \in database[t], row.id \notin Ids(database'[t])
  PROVE  \E c \in Calls :
           LET m == message[c]
           IN  /\ runs'[c] > runs[c] /\ Table(m) = t /\ Names(m, row)
               /\ \/ m.method = "DELETE_ROW" /\ row.companyId = t[1]
                  \/ m.method = "UPDATE_SINGLE" /\ "id" \in DOMAIN m.body.fields
                     /\ m.body.fields.id \in Ids(database'[t])
<1>1. database'[t] # database[t]
  BY DEF Ids
<1>2. PICK c \in Calls : \E o, told : RunsStatement(c, o, told)
  BY <1>1, StepIs DEF Quiet, RunsNothing
<1>3. PICK o, told : RunsStatement(c, o, told)
  BY <1>2
<1>4. Table(message[c]) = t /\ database'[t] = o.rows
  BY <1>1, <1>3, OnlyWritersWrite, WritesOne DEF TypeInv
<1>5. /\ o \in Statement(message[c].method, Request(message[c]), database[t])
      /\ Request(message[c]).companyId = t[1]
  BY <1>3, <1>4 DEF RunsStatement
<1>6. runs'[c] > runs[c]
  <2>1. Runs(c, told)
    BY <1>3 DEF RunsStatement
  <2>2. runs'[c] = runs[c] + 1 /\ runs[c] \in 0..2
    BY <2>1, RunsOne DEF TypeInv, TypeOK
  <2>. QED
    BY <2>2
<1>7. IsTable(database[t])
  BY DEF TypeInv, TypeOK, IsDatabase
<1>. QED
  BY <1>4, <1>5, <1>6, <1>7, GoneByStatement

(* Rows go only by a DELETE_ROW that names them and of their own company,   *)
(* or move to another id by an update (requests.ts 345-368).                *)
THEOREM DeletesOwn == Spec => DeletesOwnRows
<1>1. Spec => []TypeInv
  BY TypeInit, TypeNext, PTL DEF Spec
<1>2. TypeInv /\ [Next]_vars =>
        [\A t \in DOMAIN database : \A row \in database[t] :
           row.id \notin Ids(database'[t]) =>
             \E c \in Calls :
               LET m == message[c]
               IN  /\ runs'[c] > runs[c] /\ Table(m) = t /\ Names(m, row)
                   /\ \/ m.method = "DELETE_ROW" /\ row.companyId = t[1]
                      \/ m.method = "UPDATE_SINGLE" /\ "id" \in DOMAIN m.body.fields
                         /\ m.body.fields.id \in Ids(database'[t])]_vars
  BY DeletesStep
<1>. QED
  BY <1>1, <1>2, PTL DEF Spec, DeletesOwnRows
-----------------------------------------------------------------------------
(* Repeated requests                                                        *)

LEMMA MessagesStay == [Next]_vars => message' = message
BY DEF Next, Ask, Answer, Fail, Run, RunNoTable, RunFails, Done, vars

\* Nobody but the calls C can have written to t: true of fewer and fewer C and t.
LEMMA OnlyWritersBefore ==
  ASSUME TypeInv, [Next]_vars, NEW C, NEW t, OnlyWriters(C, t)'
  PROVE  OnlyWriters(C, t)
<1>1. message' = message
  BY MessagesStay
<1>2. \A c \in Calls : stage'[c] = "idle" => stage[c] = "idle"
  BY DEF Next, Ask, Answer, Fail, Run, RunNoTable, RunFails, Done, vars, TypeInv, TypeOK
<1>. QED
  BY <1>1, <1>2 DEF OnlyWriters, Writes, Table

LEMMA OthersKeepTable ==
  ASSUME TypeInv, NEW C, NEW t \in DOMAIN database, OnlyWriters(C, t),
         NEW c \in Calls \ C, NEW o, NEW told, RunsStatement(c, o, told)
  PROVE  database'[t] = database[t]
BY OnlyWritersWrite DEF TypeInv, OnlyWriters

\* An addition that names the id of its row.
NamesId(m) == m.body # Absent /\ "id" \in DOMAIN m.body.fields

\* Running c's request now would change nothing.
Settled(c) ==
  LET t == Table(message[c])
  IN  t \in DOMAIN database =>
        \A o \in Statement(message[c].method, Request(message[c]), database[t]) : o.rows = database[t]

LoneDone ==
  \A c \in Calls :
    /\ TRUE \in {o.ok : o \in replies[c]}
    /\ OnlyWriters({c}, Table(message[c]))
    /\ message[c].method = "ADD_SINGLE" => NamesId(message[c])
    => Settled(c)

LEMMA SettledByRun ==
  ASSUME TypeInv, NEW c \in Calls, message[c].method = "ADD_SINGLE" => NamesId(message[c]),
         NEW o, NEW told, RunsStatement(c, o, told)
  PROVE  Settled(c)'
<1> DEFINE m == message[c]
           t == Table(m)
<1>1. database'[t] = o.rows /\ t \in DOMAIN database /\ message' = message
  BY WritesOne DEF TypeInv, RunsStatement, Runs
<1>2. m.method = "ADD_SINGLE" => "id" \in DOMAIN Request(m).rowJson.fields
  BY BodyRequest DEF NamesId
<1>3. \A p \in Statement(m.method, Request(m), o.rows) : p.rows = o.rows
  BY <1>2, StatementIdempotent DEF RunsStatement
<1>4. Table(message[c])' = t /\ (Request(message[c])' = Request(m)) /\ (message[c].method)' = m.method
  BY <1>1 DEF Table, Request, Arguments, Payload
<1>. QED
  BY <1>1, <1>3, <1>4 DEF Settled

LEMMA SettledKept ==
  ASSUME NEW c \in Calls, message' = message, DOMAIN database' = DOMAIN database,
         Table(message[c]) \in DOMAIN database => database'[Table(message[c])] = database[Table(message[c])],
         Settled(c)
  PROVE  Settled(c)'
<1>1. /\ Table(message[c])' = Table(message[c]) /\ Request(message[c])' = Request(message[c])
      /\ (message[c].method)' = message[c].method
  BY DEF Table, Request, Arguments, Payload
<1>. QED
  BY <1>1 DEF Settled

LEMMA ReadersSettled ==
  ASSUME NEW c \in Calls, ~Writes(message[c])
  PROVE  Settled(c)
BY StatementIs DEF Settled, Writes

LEMMA LoneDoneInit == Init => LoneDone
BY DEF Init, LoneDone

LEMMA LoneDoneNext == TypeInv /\ LoneDone /\ [Next]_vars => LoneDone'
<1> SUFFICES ASSUME TypeInv, LoneDone, [Next]_vars, NEW c \in Calls,
                    TRUE \in {o.ok : o \in replies'[c]},
                    OnlyWriters({c}, Table(message[c]))',
                    message'[c].method = "ADD_SINGLE" => NamesId(message'[c])
             PROVE  Settled(c)'
  BY DEF LoneDone
<1>1. message' = message
  BY MessagesStay
<1>2. OnlyWriters({c}, Table(message[c]))
  <2>1. OnlyWriters({c}, Table(message'[c]))
    BY OnlyWritersBefore
  <2>. QED
    BY <1>1, <2>1
<1>3. TRUE \in {o.ok : o \in replies[c]} => Settled(c)
  BY <1>1, <1>2 DEF LoneDone
<1>4. CASE Quiet
  BY <1>1, <1>3, <1>4, SettledKept DEF Quiet
<1>5. ASSUME NEW d \in Calls, NEW o, NEW told, RunsStatement(d, o, told) PROVE Settled(c)'
  <2>1. CASE d = c
    BY <1>1, <1>5, <2>1, SettledByRun
  <2>2. CASE d # c
    <3>1. replies'[c] = replies[c] /\ DOMAIN database' = DOMAIN database
      BY <1>5, <2>2, RunsOne, WritesOne DEF TypeInv, RunsStatement
    <3>2. Table(message[c]) \in DOMAIN database => database'[Table(message[c])] = database[Table(message[c])]
      BY <1>2, <1>5, <2>2, OthersKeepTable
    <3>. QED
      BY <1>1, <1>3, <3>1, <3>2, SettledKept
  <2>. QED
    BY <2>1, <2>2
<1>6. ASSUME NEW d \in Calls, NEW told, RunsNothing(d, told) PROVE Settled(c)'
  <2>1. Runs(d, told) /\ database' = database
    BY <1>6 DEF RunsNothing
  <2>2. Settled(c) => Settled(c)'
    BY <1>1, <2>1, SettledKept
  <2>3. CASE d # c
    BY <1>3, <2>1, <2>2, <2>3, RunsOne DEF TypeInv
  <2>4. CASE d = c /\ told = Error
    <3>1. replies'[c] = replies[c] \cup {Error} /\ Error.ok = FALSE
      BY <2>1, <2>4, RunsOne DEF TypeInv, Error
    <3>. QED
      BY <1>3, <2>2, <3>1
  <2>5. CASE d = c /\ message[c].method = "TABLE_EXISTS"
    BY <2>2, <2>5, ReadersSettled DEF Writes
  <2>. QED
    BY <1>6, <2>3, <2>4, <2>5 DEF RunsNothing
<1>. QED
  BY <1>4, <1>5, <1>6, StepIs

LEMMA RepeatsStep ==
  ASSUME TypeInv, LoneDone, [Next]_vars, NEW c \in Calls, runs'[c] > runs[c],
         TRUE \in {o.ok : o \in replies[c]}, OnlyWriters({c}, Table(message[c])),
         message[c].method = "ADD_SINGLE" => NamesId(message[c])
  PROVE  database' = database
<1>1. Settled(c)
  BY DEF LoneDone
<1>2. ASSUME NEW d \in Calls, NEW o, NEW told, RunsStatement(d, o, told) PROVE database' = database
  <2>1. d = c
    BY <1>2, RunsOne DEF RunsStatement, TypeInv, TypeOK
  <2>2. o.rows = database[Table(message[c])]
    BY <1>1, <1>2, <2>1 DEF Settled, RunsStatement
  <2>3. database' = [database EXCEPT ![Table(message[c])] = database[Table(message[c])]]
    BY <1>2, <2>1, <2>2 DEF RunsStatement
  <2>4. database = [t \in DOMAIN database |-> database[t]]
    BY DEF TypeInv, TypeOK, IsDatabase
  <2>. QED
    BY <2>3, <2>4
<1>. QED
  BY <1>2, StepIs DEF Quiet, RunsNothing

(* What a crash makes the worker repeat is harmless to a client whose       *)
(* table nobody else writes to, if an added row names its id                *)
(* (kafka.ts 46-57, query_builder.ts 100-119).                              *)
THEOREM RepeatsHarmless == Spec => RepeatsChangeNothing
<1>1. Spec => [](TypeInv /\ LoneDone)
  <2>1. TypeInv /\ LoneDone /\ [Next]_vars => (TypeInv /\ LoneDone)'
    BY TypeNext, LoneDoneNext
  <2>. QED
    BY <2>1, TypeInit, LoneDoneInit, PTL DEF Spec
<1>2. TypeInv /\ LoneDone /\ [Next]_vars =>
        [\A c \in Calls :
           LET m == message[c]
           IN  /\ runs'[c] > runs[c] /\ TRUE \in {o.ok : o \in replies[c]}
               /\ OnlyWriters({c}, Table(m))
               /\ m.method = "ADD_SINGLE" => m.body # Absent /\ "id" \in DOMAIN m.body.fields
               => database' = database]_vars
  BY RepeatsStep DEF NamesId
<1>. QED
  BY <1>1, <1>2, PTL DEF Spec, RepeatsChangeNothing
-----------------------------------------------------------------------------
(* Answers                                                                  *)

\* Replies come of runs, answers of replies, and after holds answered calls.
CallInv ==
  \A c \in Calls :
    /\ \A o \in replies[c] : o.ok \in BOOLEAN
    /\ replies[c] # {} => runs[c] >= 1
    /\ stage[c] = "answered" => \E o \in replies[c] : o.ok /\ answer[c] = Data(o.data)
    /\ \A d \in after[c] : stage[d] = "answered"
    /\ stage[c] = "idle" => after[c] = {}

LEMMA CallInit == Init => CallInv
BY DEF Init, CallInv

LEMMA CallNext == TypeInv /\ CallInv /\ [Next]_vars => CallInv'
<1> SUFFICES ASSUME TypeInv, TypeOK, Shapes, CallInv, [Next]_vars PROVE CallInv'
  BY DEF TypeInv
<1>1. ASSUME NEW c \in Calls, Ask(c) PROVE CallInv'
  BY <1>1 DEF Ask, CallInv, TypeOK
<1>2. ASSUME NEW c \in Calls, Answer(c) PROVE CallInv'
  <2>1. PICK o \in replies[c] :
          /\ stage' = [stage EXCEPT ![c] = IF o.ok THEN "answered" ELSE "failed"]
          /\ answer' = [answer EXCEPT ![c] = IF o.ok THEN Data(o.data) ELSE Absent]
    BY <1>2 DEF Answer
  <2>2. o.ok \in BOOLEAN /\ stage[c] = "waiting" /\ replies' = replies /\ runs' = runs /\ after' = after
    BY <1>2 DEF Answer, CallInv
  <2>3. \A d \in Calls \ {c} : stage'[d] = stage[d] /\ answer'[d] = answer[d]
    BY <2>1 DEF TypeOK, Shapes
  <2>4. /\ stage'[c] = "answered" => o.ok /\ answer'[c] = Data(o.data)
        /\ stage'[c] # "idle"
    BY <2>1, <2>2 DEF TypeOK, Shapes
  <2>5. \A d \in Calls : \A e \in after[d] : e # c /\ e \in Calls
    BY <2>2 DEF CallInv, TypeOK
  <2>. QED
    BY <2>2, <2>3, <2>4, <2>5 DEF CallInv
<1>3. ASSUME NEW c \in Calls, Fail(c) PROVE CallInv'
  BY <1>3 DEF Fail, CallInv, TypeOK
<1>4. ASSUME NEW c \in Calls, NEW told, Runs(c, told), told.ok \in BOOLEAN PROVE CallInv'
  <2>1. runs'[c] = runs[c] + 1 /\ runs[c] \in Nat
    BY <1>4, RunsOne DEF TypeOK
  <2>2. stage' = stage /\ after' = after /\ answer' = answer
    BY <1>4 DEF Runs
  <2>3. ASSUME NEW d \in Calls
        PROVE  /\ \A o \in replies'[d] : o.ok \in BOOLEAN
               /\ replies'[d] # {} => runs'[d] >= 1
               /\ replies[d] \subseteq replies'[d]
    <3>1. CASE d = c
      BY <1>4, <2>1, <3>1, RunsOne DEF CallInv
    <3>2. CASE d # c
      BY <1>4, <3>2, RunsOne DEF CallInv
    <3>. QED
      BY <3>1, <3>2
  <2>. QED
    BY <2>2, <2>3 DEF CallInv
<1>5. ASSUME NEW c \in Calls, NEW o, NEW told, RunsStatement(c, o, told) PROVE CallInv'
  BY <1>4, <1>5 DEF RunsStatement, Error
<1>6. ASSUME NEW c \in Calls, NEW told, RunsNothing(c, told) PROVE CallInv'
  BY <1>4, <1>6 DEF RunsNothing, Error
<1>7. CASE UNCHANGED vars
  BY <1>7 DEF vars, CallInv
<1>. QED
  BY <1>1, <1>2, <1>3, <1>5, <1>6, <1>7, RunIs, RunNothingIs DEF Next
-----------------------------------------------------------------------------
(* Reading one's writes                                                     *)

\* The row that an addition with a named id makes.
RowOf(m) == FullRow(m.body.fields, m.body.fields.id)

LEMMA RowOfIs ==
  ASSUME NEW m, NamesId(m)
  PROVE  RowOf(m) = [f \in Columns |-> IF f \in DOMAIN m.body.fields THEN m.body.fields[f] ELSE Null]
BY DEF RowOf, FullRow, NamesId

\* The added row is there as long as nobody else writes.
AddedStays ==
  \A a \in Calls :
    LET m == message[a]
    IN  /\ m.method = "ADD_SINGLE" /\ NamesId(m)
        /\ OnlyWriters({a}, Table(m)) /\ TRUE \in {o.ok : o \in replies[a]}
        => Table(m) \in DOMAIN database /\ RowOf(m) \in database[Table(m)]

LEMMA AddedByRun ==
  ASSUME TypeInv, NEW a \in Calls, NEW o, NEW told, RunsStatement(a, o, told),
         message[a].method = "ADD_SINGLE", NamesId(message[a])
  PROVE  /\ Table(message[a]) \in DOMAIN database'
         /\ RowOf(message[a]) \in database'[Table(message[a])]
<1> DEFINE m == message[a]
<1>1. o \in AddSingle(Request(m), database[Table(m)])
  BY StatementIs DEF RunsStatement
<1>2. Request(m).rowJson = m.body
  BY BodyRequest DEF NamesId
<1>3. RowOf(m) \in o.rows
  BY <1>1, <1>2, AddGives DEF RowOf, NamesId
<1>. QED
  BY <1>3, WritesOne DEF TypeInv, RunsStatement

LEMMA AddedInit == Init => AddedStays
BY DEF Init, AddedStays

LEMMA AddedNext == TypeInv /\ AddedStays /\ [Next]_vars => AddedStays'
<1> SUFFICES ASSUME TypeInv, AddedStays, [Next]_vars, NEW a \in Calls,
                    message[a].method = "ADD_SINGLE", NamesId(message[a]),
                    OnlyWriters({a}, Table(message[a]))',
                    TRUE \in {o.ok : o \in replies'[a]}
             PROVE  /\ Table(message[a]) \in DOMAIN database'
                    /\ RowOf(message[a]) \in database'[Table(message[a])]
  BY MessagesStay DEF AddedStays
<1> DEFINE t == Table(message[a])
<1>1. OnlyWriters({a}, t)
  <2>1. OnlyWriters({a}, Table(message'[a]))
    BY OnlyWritersBefore
  <2>. QED
    BY <2>1, MessagesStay
<1>2. TRUE \in {o.ok : o \in replies[a]} => t \in DOMAIN database /\ RowOf(message[a]) \in database[t]
  BY <1>1 DEF AddedStays
<1>3. CASE Quiet
  BY <1>2, <1>3 DEF Quiet
<1>4. ASSUME NEW c \in Calls, NEW o, NEW told, RunsStatement(c, o, told)
      PROVE  t \in DOMAIN database' /\ RowOf(message[a]) \in database'[t]
  <2>1. CASE c = a
    BY <1>4, <2>1, AddedByRun
  <2>2. CASE c # a
    <3>1. replies'[a] = replies[a] /\ DOMAIN database' = DOMAIN database
      BY <1>4, <2>2, RunsOne, WritesOne DEF TypeInv, RunsStatement
    <3>2. t \in DOMAIN database => database'[t] = database[t]
      BY <1>1, <1>4, <2>2, OthersKeepTable
    <3>. QED
      BY <1>2, <3>1, <3>2
  <2>. QED
    BY <2>1, <2>2
<1>5. ASSUME NEW c \in Calls, NEW told, RunsNothing(c, told)
      PROVE  t \in DOMAIN database' /\ RowOf(message[a]) \in database'[t]
  <2>1. Runs(c, told) /\ database' = database
    BY <1>5 DEF RunsNothing
  <2>2. CASE c # a
    BY <1>2, <2>1, <2>2, RunsOne DEF TypeInv
  <2>3. CASE c = a
    <3>1. told = Error /\ Error.ok = FALSE
      BY <1>5, <2>3 DEF RunsNothing, Error
    <3>2. replies'[a] = replies[a] \cup {Error}
      BY <2>1, <2>3, <3>1, RunsOne DEF TypeInv
    <3>. QED
      BY <1>2, <2>1, <3>1, <3>2
  <2>. QED
    BY <2>2, <2>3
<1>. QED
  BY <1>3, <1>4, <1>5, StepIs

\* What GET_SINGLE finds under an id.
LEMMA GetById ==
  ASSUME NEW m, m.method = "GET_SINGLE", ById(m, Key(m)), NEW rows, IsTable(rows),
         NEW p \in Statement(m.method, Request(m), rows)
  PROVE  /\ \A row \in rows : row.id = Key(m) => p.data = RowJson(row)
         /\ (\A row \in rows : row.id # Key(m)) => p.data = RowJson(Empty)
<1> DEFINE hits == Matching(rows, "id", Key(m))
<1>1. Request(m).primaryKeyColumn = "id" /\ Request(m).primaryId = Key(m)
  BY KeyedRequest DEF Column, ById
<1>2. PICK d \in IF hits = {} THEN {Empty} ELSE hits : p.data = RowJson(d)
  <2>1. p \in GetSingle(Request(m), rows)
    BY StatementIs
  <2>. QED
    BY <1>1, <2>1 DEF GetSingle
<1>3. \A row : row \in hits <=> row \in rows /\ row.id = Key(m)
  BY DEF Matching
<1> HIDE DEF hits
<1>. QED
  BY <1>2, <1>3 DEF IsTable

LEMMA AfterFixed ==
  ASSUME TypeInv, [Next]_vars, NEW g \in Calls, replies'[g] # {}
  PROVE  after'[g] = after[g]
<1>1. ASSUME NEW c \in Calls, Ask(c) PROVE after'[g] = after[g]
  BY <1>1 DEF Ask, TypeInv, TypeOK
<1>2. (\E c \in Calls : Ask(c)) \/ after' = after
  BY DEF Next, Answer, Fail, Run, RunNoTable, RunFails, Done, vars
<1>. QED
  BY <1>1, <1>2

\* A result of GET_SINGLE is an old one, or what the table holds.
LEMMA GetResults ==
  ASSUME TypeInv, [Next]_vars, NEW g \in Calls, message[g].method = "GET_SINGLE",
         NEW o \in replies'[g], o.ok
  PROVE  /\ after'[g] = after[g]
         /\ \/ o \in replies[g]
            \/ /\ Table(message[g]) \in DOMAIN database
               /\ \E p \in Statement(message[g].method, Request(message[g]), database[Table(message[g])]) :
                    o.data = p.data
<1>1. after'[g] = after[g]
  <2>1. replies'[g] # {}
    OBVIOUS
  <2>. QED
    BY <2>1, AfterFixed
<1>2. CASE Quiet
  BY <1>1, <1>2 DEF Quiet
<1>3. ASSUME NEW c \in Calls, NEW told, Runs(c, told)
      PROVE  o \in replies[g] \/ (c = g /\ o = told)
  <2>1. CASE c = g
    <3>1. replies'[g] = replies[g] \cup {told}
      BY <1>3, <2>1, RunsOne DEF TypeInv
    <3>. QED
      BY <2>1, <3>1
  <2>2. CASE c # g
    <3>1. replies'[g] = replies[g]
      BY <1>3, <2>2, RunsOne DEF TypeInv
    <3>. QED
      BY <3>1
  <2>. QED
    BY <2>1, <2>2
<1>4. ASSUME NEW c \in Calls, NEW p, NEW told, RunsStatement(c, p, told), o \notin replies[g]
      PROVE  /\ Table(message[g]) \in DOMAIN database
             /\ \E q \in Statement(message[g].method, Request(message[g]), database[Table(message[g])]) :
                  o.data = q.data
  <2>1. c = g /\ o = told /\ Runs(c, told)
    BY <1>3, <1>4 DEF RunsStatement
  <2>2. told = [ok |-> TRUE, data |-> p.data]
    BY <1>4, <2>1 DEF RunsStatement, Error
  <2>3. o.data = p.data /\ p \in Statement(message[g].method, Request(message[g]), database[Table(message[g])])
    BY <1>4, <2>1, <2>2 DEF RunsStatement
  <2>4. Table(message[g]) \in DOMAIN database
    BY <1>4, <2>1 DEF RunsStatement
  <2>. QED
    BY <2>3, <2>4
<1>5. ASSUME NEW c \in Calls, NEW told, RunsNothing(c, told) PROVE o \in replies[g]
  <2>1. Runs(c, told) /\ (c = g => told = Error)
    BY <1>5 DEF RunsNothing
  <2>. QED
    BY <1>3, <2>1 DEF Error
<1>. QED
  BY <1>1, <1>2, <1>4, <1>5, StepIs

\* Who asks for the row after its addition was answered is sent that row.
ReadsAdded ==
  \A a, g \in Calls :
    LET m == message[g]
        n == message[a]
    IN  /\ a \in after[g] /\ m.method = "GET_SINGLE" /\ ById(m, Key(m))
        /\ AddsRow(n, Key(m)) /\ Table(n) = Table(m) /\ OnlyWriters({a}, Table(n))
        => \A o \in replies[g] : o.ok => o.data = RowJson(RowOf(n))

LEMMA ReadsAddedInit == Init => ReadsAdded
BY DEF Init, ReadsAdded

LEMMA ReadsAddedNext == TypeInv /\ CallInv /\ AddedStays /\ ReadsAdded /\ [Next]_vars => ReadsAdded'
<1> SUFFICES ASSUME TypeInv, CallInv, AddedStays, ReadsAdded, [Next]_vars, NEW a \in Calls, NEW g \in Calls,
                    a \in after'[g], message[g].method = "GET_SINGLE", ById(message[g], Key(message[g])),
                    AddsRow(message[a], Key(message[g])), Table(message[a]) = Table(message[g]),
                    OnlyWriters({a}, Table(message[a]))', NEW o \in replies'[g], o.ok
             PROVE  o.data = RowJson(RowOf(message[a]))
  BY MessagesStay DEF ReadsAdded
<1> DEFINE t == Table(message[a])
<1>1. OnlyWriters({a}, t)
  <2>1. OnlyWriters({a}, Table(message'[a]))
    BY OnlyWritersBefore
  <2>. QED
    BY <2>1, MessagesStay
<1>2. a \in after[g]
  BY GetResults
<1>3. CASE o \in replies[g]
  BY <1>1, <1>2, <1>3 DEF ReadsAdded
<1>4. CASE o \notin replies[g]
  <2>1. message[a].method = "ADD_SINGLE" /\ NamesId(message[a]) /\ RowOf(message[a]).id = Key(message[g])
    BY FullRowIs DEF AddsRow, NamesId, RowOf
  <2>2. TRUE \in {p.ok : p \in replies[a]}
    BY <1>2 DEF CallInv
  <2>3. t \in DOMAIN database /\ RowOf(message[a]) \in database[t]
    BY <1>1, <2>1, <2>2 DEF AddedStays
  <2>4. IsTable(database[t])
    BY <2>3 DEF TypeInv, TypeOK, IsDatabase
  <2>5. PICK p \in Statement(message[g].method, Request(message[g]), database[t]) : o.data = p.data
    BY <1>4, GetResults
  <2>. QED
    BY <2>1, <2>3, <2>4, <2>5, GetById
<1>. QED
  BY <1>3, <1>4

(* Who was told that a row was added, and asks for it then, gets that row,  *)
(* whatever was lost or repeated, unless others have written to the table   *)
(* (worker.ts 523-556, sql-rpc.ts 129-177).                                 *)
THEOREM WritesAreRead == Spec => []ReadYourWrites
<1>1. Spec => [](TypeInv /\ CallInv /\ AddedStays /\ ReadsAdded)
  <2>1. TypeInv /\ CallInv /\ AddedStays /\ ReadsAdded /\ [Next]_vars
        => (TypeInv /\ CallInv /\ AddedStays /\ ReadsAdded)'
    BY TypeNext, CallNext, AddedNext, ReadsAddedNext
  <2>. QED
    BY <2>1, TypeInit, CallInit, AddedInit, ReadsAddedInit, PTL DEF Spec
<1>2. CallInv /\ ReadsAdded => ReadYourWrites
  <2> SUFFICES ASSUME CallInv, ReadsAdded, NEW a \in Calls, NEW g \in Calls,
                      stage[g] = "answered", a \in after[g], message[g].method = "GET_SINGLE",
                      ById(message[g], Key(message[g])), AddsRow(message[a], Key(message[g])),
                      Table(message[a]) = Table(message[g]), OnlyWriters({a}, Table(message[a]))
               PROVE  answer[g].object = RowOf(message[a])
    BY RowOfIs DEF ReadYourWrites, AddsRow, NamesId
  <2>1. PICK o \in replies[g] : o.ok /\ answer[g] = Data(o.data)
    BY DEF CallInv
  <2>2. o.data = RowJson(RowOf(message[a]))
    BY <2>1 DEF ReadsAdded
  <2>. QED
    BY <2>1, <2>2 DEF Data, RowJson
<1>. QED
  BY <1>1, <1>2, PTL
-----------------------------------------------------------------------------
(* Confirmed deletions                                                      *)

RunOnce == \A c \in Calls : runs[c] <= 1

\* While no request is repeated: a call that is run was not run before, and
\* what has been run has its replies.
LEMMA RunOnceBefore ==
  ASSUME TypeInv, [Next]_vars, RunOnce'
  PROVE  /\ RunOnce
         /\ \A c \in Calls : runs[c] >= 1 => replies'[c] = replies[c]
         /\ \A c \in Calls : \A told : Runs(c, told) => runs[c] = 0
<1>1. ASSUME NEW c \in Calls, NEW told, Runs(c, told) PROVE runs[c] = 0
  <2>1. runs'[c] = runs[c] + 1 /\ runs[c] \in Nat
    BY <1>1, RunsOne DEF TypeInv, TypeOK
  <2>2. runs'[c] <= 1
    BY DEF RunOnce
  <2>. QED
    BY <2>1, <2>2
<1>2. ASSUME NEW c \in Calls, NEW told, Runs(c, told), NEW d \in Calls
      PROVE  runs[d] <= 1 /\ (runs[d] >= 1 => replies'[d] = replies[d])
  <2>1. CASE d = c
    BY <1>1, <1>2, <2>1
  <2>2. CASE d # c
    <3>1. runs'[d] = runs[d] /\ replies'[d] = replies[d]
      BY <1>2, <2>2, RunsOne DEF TypeInv
    <3>2. runs'[d] <= 1
      BY DEF RunOnce
    <3>. QED
      BY <3>1, <3>2
  <2>. QED
    BY <2>1, <2>2
<1>3. CASE Quiet
  BY <1>1, <1>3 DEF Quiet, RunOnce
<1>. QED
  BY <1>1, <1>2, <1>3, StepIs DEF RunsStatement, RunsNothing, RunOnce

Deletes(m) == m.method = "DELETE_ROW" /\ ById(m, Key(m))
Confirmed(d) == \E o \in replies[d] : o.ok /\ o.data = BoolRes(TRUE)

\* The other writers have all been answered, and will not run again.
GoneStays ==
  RunOnce =>
    \A d \in Calls :
      LET m == message[d]
      IN  Deletes(m) /\ Confirmed(d) /\ OnlyWriters(after[d] \cup {d}, Table(m))
          => Table(m) \in DOMAIN database /\ \A row \in database[Table(m)] : row.id # Key(m)

LEMMA GoneByRun ==
  ASSUME TypeInv, NEW d \in Calls, NEW o, NEW told, RunsStatement(d, o, told),
         Deletes(message[d]), told.ok, told.data = BoolRes(TRUE)
  PROVE  /\ Table(message[d]) \in DOMAIN database'
         /\ \A row \in database'[Table(message[d])] : row.id # Key(message[d])
<1> DEFINE m == message[d]
           t == Table(m)
           r == Request(m)
           rows == database[t]
<1>1. o.data = BoolRes(Deleted(r, rows) # {}) /\ o.rows = rows \ Deleted(r, rows)
  <2>1. o \in DeleteRow(r, rows)
    BY StatementIs DEF RunsStatement, Deletes
  <2>. QED
    BY <2>1, DeleteGives
<1>2. o.data = BoolRes(TRUE)
  <2>1. told = Error \/ told = [ok |-> TRUE, data |-> o.data]
    BY DEF RunsStatement
  <2>2. Error.ok = FALSE
    BY DEF Error
  <2>3. told # Error
    BY <2>2
  <2>4. told = [ok |-> TRUE, data |-> o.data]
    BY <2>1, <2>3
  <2>5. told.data = o.data
    BY <2>4
  <2>. QED
    BY <2>5
<1>3. Deleted(r, rows) # {}
  <2>1. CASE Deleted(r, rows) = {}
    <3>1. (Deleted(r, rows) # {}) = FALSE
      BY <2>1
    <3>2. BoolRes(FALSE) = BoolRes(TRUE)
      BY <1>1, <1>2, <3>1
    <3>3. BoolRes(FALSE).value = FALSE /\ BoolRes(TRUE).value = TRUE
      BY DEF BoolRes
    <3>. QED
      BY <3>2, <3>3
  <2>. QED
    BY <2>1
<1>4. r.primaryKeyColumn = "id" /\ r.primaryId = Key(m)
  BY KeyedRequest DEF Column, ById, Deletes
<1>5. \A row \in rows : row.id = Key(m) => row \in Deleted(r, rows)
  <2>1. IsTable(rows)
    BY DEF TypeInv, TypeOK, IsDatabase, RunsStatement
  <2>2. PICK row \in rows : row \in Deleted(r, rows) /\ row.id = Key(m)
    BY <1>3, <1>4, DeletedAre
  <2>. QED
    BY <2>1, <2>2 DEF IsTable
<1>6. database'[t] = o.rows /\ t \in DOMAIN database'
  BY WritesOne DEF TypeInv, RunsStatement
<1>. QED
  BY <1>1, <1>5, <1>6

LEMMA GoneInit == Init => GoneStays
BY DEF Init, GoneStays, Confirmed

LEMMA GoneNext == TypeInv /\ CallInv /\ GoneStays /\ [Next]_vars => GoneStays'
<1> SUFFICES ASSUME TypeInv, CallInv, GoneStays, [Next]_vars, RunOnce', NEW d \in Calls,
                    Deletes(message[d]), Confirmed(d)',
                    OnlyWriters(after[d] \cup {d}, Table(message[d]))'
             PROVE  /\ Table(message[d]) \in DOMAIN database'
                    /\ \A row \in database'[Table(message[d])] : row.id # Key(message[d])
  BY MessagesStay DEF GoneStays
<1> DEFINE t == Table(message[d])
           gone == t \in DOMAIN database /\ \A row \in database[t] : row.id # Key(message[d])
<1>1. RunOnce
  BY RunOnceBefore
<1>2. OnlyWriters(after[d] \cup {d}, t)
  <2>1. replies'[d] # {}
    BY DEF Confirmed
  <2>2. after'[d] = after[d] /\ message' = message
    BY <2>1, AfterFixed, MessagesStay
  <2>3. OnlyWriters(after'[d] \cup {d}, Table(message'[d]))
    BY OnlyWritersBefore
  <2>. QED
    BY <2>2, <2>3
<1>3. Confirmed(d) => gone
  BY <1>1, <1>2 DEF GoneStays
<1>4. CASE Quiet
  BY <1>3, <1>4 DEF Quiet, Confirmed
<1>5. ASSUME NEW c \in Calls, NEW o, NEW told, RunsStatement(c, o, told)
      PROVE  t \in DOMAIN database' /\ \A row \in database'[t] : row.id # Key(message[d])
  <2>0. Runs(c, told)
    BY <1>5 DEF RunsStatement
  <2>1. CASE c = d
    <3>1. replies'[d] = {told}
      <4>1. runs[d] = 0
        BY <2>0, <2>1, RunOnceBefore
      <4>2. replies[d] = {}
        BY <4>1 DEF CallInv
      <4>. QED
        BY <2>0, <2>1, <4>2, RunsOne DEF TypeInv
    <3>2. told.ok /\ told.data = BoolRes(TRUE)
      BY <3>1 DEF Confirmed
    <3>. QED
      BY <1>5, <2>1, <3>2, GoneByRun
  <2>2. CASE c # d
    <3>1. replies'[d] = replies[d] /\ DOMAIN database' = DOMAIN database
      BY <1>5, <2>0, <2>2, RunsOne, WritesOne DEF TypeInv
    <3>2. Confirmed(d)
      BY <3>1 DEF Confirmed
    <3>3. c \notin after[d]
      <4>1. runs[c] = 0
        BY <2>0, RunOnceBefore
      <4>. QED
        BY <4>1 DEF CallInv
    <3>4. database'[t] = database[t]
      BY <1>2, <1>3, <1>5, <2>2, <3>2, <3>3, OthersKeepTable
    <3>. QED
      BY <1>3, <3>1, <3>2, <3>4
  <2>. QED
    BY <2>1, <2>2
<1>6. ASSUME NEW c \in Calls, NEW told, RunsNothing(c, told)
      PROVE  t \in DOMAIN database' /\ \A row \in database'[t] : row.id # Key(message[d])
  <2>1. Runs(c, told) /\ database' = database
    BY <1>6 DEF RunsNothing
  <2>2. c = d => told = Error
    BY <1>6 DEF RunsNothing, Deletes
  <2>3. replies'[d] = replies[d] \/ replies'[d] = replies[d] \cup {Error}
    BY <2>1, <2>2, RunsOne DEF TypeInv
  <2>4. Confirmed(d)
    <3>1. PICK o \in replies'[d] : o.ok /\ o.data = BoolRes(TRUE)
      BY DEF Confirmed
    <3>2. Error.ok = FALSE
      BY DEF Error
    <3>. QED
      BY <2>3, <3>1, <3>2 DEF Confirmed
  <2>. QED
    BY <1>3, <2>1, <2>4
<1>. QED
  BY <1>4, <1>5, <1>6, StepIs

\* Who asks for the row after its deletion was confirmed is sent none.
ReadsGone ==
  RunOnce =>
    \A d, g \in Calls :
      LET m == message[g]
          n == message[d]
      IN  /\ d \in after[g] /\ m.method = "GET_SINGLE" /\ ById(m, Key(m))
          /\ Deletes(n) /\ Key(n) = Key(m) /\ Table(n) = Table(m) /\ Confirmed(d)
          /\ OnlyWriters(after[d] \cup {d}, Table(n))
          => \A o \in replies[g] : o.ok => o.data = RowJson(Empty)

LEMMA ReadsGoneInit == Init => ReadsGone
BY DEF Init, ReadsGone

LEMMA ReadsGoneNext == TypeInv /\ CallInv /\ GoneStays /\ ReadsGone /\ [Next]_vars => ReadsGone'
<1> SUFFICES ASSUME TypeInv, CallInv, GoneStays, ReadsGone, [Next]_vars, RunOnce', NEW d \in Calls, NEW g \in Calls,
                    d \in after'[g], message[g].method = "GET_SINGLE", ById(message[g], Key(message[g])),
                    Deletes(message[d]), Key(message[d]) = Key(message[g]),
                    Table(message[d]) = Table(message[g]), Confirmed(d)',
                    OnlyWriters(after[d] \cup {d}, Table(message[d]))', NEW o \in replies'[g], o.ok
             PROVE  o.data = RowJson(Empty)
  BY MessagesStay DEF ReadsGone
<1> DEFINE t == Table(message[d])
<1>1. RunOnce
  BY RunOnceBefore
<1>2. d \in after[g]
  BY GetResults
<1>3. runs[d] >= 1
  BY <1>2 DEF CallInv
<1>4. Confirmed(d)
  BY <1>3, RunOnceBefore DEF Confirmed
<1>5. OnlyWriters(after[d] \cup {d}, t)
  <2>1. replies'[d] # {}
    BY DEF Confirmed
  <2>2. after'[d] = after[d] /\ message' = message
    BY <2>1, AfterFixed, MessagesStay
  <2>3. OnlyWriters(after'[d] \cup {d}, Table(message'[d]))
    BY OnlyWritersBefore
  <2>. QED
    BY <2>2, <2>3
<1>6. CASE o \in replies[g]
  BY <1>1, <1>2, <1>4, <1>5, <1>6 DEF ReadsGone
<1>7. CASE o \notin replies[g]
  <2>1. t \in DOMAIN database /\ \A row \in database[t] : row.id # Key(message[d])
    BY <1>1, <1>4, <1>5 DEF GoneStays
  <2>2. IsTable(database[t])
    BY <2>1 DEF TypeInv, TypeOK, IsDatabase
  <2>3. PICK p \in Statement(message[g].method, Request(message[g]), database[t]) : o.data = p.data
    BY <1>7, GetResults
  <2>. QED
    BY <2>1, <2>2, <2>3, GetById
<1>. QED
  BY <1>6, <1>7

\* A deletion is answered by whether there was a row.
Confirms ==
  \A d \in Calls : message[d].method = "DELETE_ROW" =>
    \A o \in replies[d] : o.ok => o.data = BoolRes(TRUE) \/ o.data = BoolRes(FALSE)

LEMMA ConfirmsInit == Init => Confirms
BY DEF Init, Confirms

LEMMA ConfirmsNext == TypeInv /\ Confirms /\ [Next]_vars => Confirms'
<1> SUFFICES ASSUME TypeInv, Confirms, [Next]_vars, NEW d \in Calls, message[d].method = "DELETE_ROW",
                    NEW o \in replies'[d], o.ok
             PROVE  o.data = BoolRes(TRUE) \/ o.data = BoolRes(FALSE)
  BY MessagesStay DEF Confirms
<1>1. CASE o \in replies[d]
  BY <1>1 DEF Confirms
<1>2. ASSUME NEW c \in Calls, NEW told, Runs(c, told) PROVE o \in replies[d] \/ (c = d /\ o = told)
  <2>1. replies'[d] = replies[d] \/ (c = d /\ replies'[d] = replies[d] \cup {told})
    BY <1>2, RunsOne DEF TypeInv
  <2>. QED
    BY <2>1
<1>3. ASSUME NEW c \in Calls, NEW p, NEW told, RunsStatement(c, p, told), o \notin replies[d]
      PROVE  o.data = BoolRes(TRUE) \/ o.data = BoolRes(FALSE)
  <2>1. c = d /\ o = told
    BY <1>2, <1>3 DEF RunsStatement
  <2>2. o = Error \/ o = [ok |-> TRUE, data |-> p.data]
    BY <1>3, <2>1 DEF RunsStatement
  <2>3. Error.ok = FALSE
    BY DEF Error
  <2>4. PICK rows : p \in Statement("DELETE_ROW", Request(message[d]), rows)
    BY <1>3, <2>1 DEF RunsStatement
  <2>5. p.data = BoolRes(Deleted(Request(message[d]), rows) # {})
    BY <2>4, StatementIs, DeleteGives
  <2>6. p.data = BoolRes(TRUE) \/ p.data = BoolRes(FALSE)
    <3>1. CASE Deleted(Request(message[d]), rows) = {}
      <4>1. (Deleted(Request(message[d]), rows) # {}) = FALSE
        BY <3>1
      <4>. QED
        BY <2>5, <4>1
    <3>2. CASE Deleted(Request(message[d]), rows) # {}
      <4>1. (Deleted(Request(message[d]), rows) # {}) = TRUE
        BY <3>2
      <4>. QED
        BY <2>5, <4>1
    <3>. QED
      BY <3>1, <3>2
  <2>7. o # Error
    BY <2>3
  <2>8. o.data = p.data
    BY <2>2, <2>7
  <2>. QED
    BY <2>6, <2>8
<1>4. ASSUME NEW c \in Calls, NEW told, RunsNothing(c, told) PROVE o \in replies[d]
  <2>1. Runs(c, told) /\ (c = d => told = Error)
    BY <1>4 DEF RunsNothing
  <2>2. Error.ok = FALSE
    BY DEF Error
  <2>. QED
    BY <1>2, <2>1, <2>2
<1>. QED
  BY <1>1, <1>3, <1>4, StepIs DEF Quiet

(* A row whose deletion was confirmed does not come back by an addition     *)
(* that was answered before, if each request is run once                    *)
(* (worker.ts 579-594).                                                     *)
THEOREM DeletedStays == Spec => []DeletedStaysGone
<1> DEFINE Inv == TypeInv /\ CallInv /\ GoneStays /\ ReadsGone /\ Confirms
<1>1. Spec => []Inv
  <2>1. Inv /\ [Next]_vars => Inv'
    BY TypeNext, CallNext, GoneNext, ReadsGoneNext, ConfirmsNext
  <2>2. Init => Inv
    BY TypeInit, CallInit, GoneInit, ReadsGoneInit, ConfirmsInit
  <2>. QED
    BY <2>1, <2>2, PTL DEF Spec
<1>2. Inv => DeletedStaysGone
  <2> SUFFICES ASSUME Inv, NEW d \in Calls, NEW g \in Calls,
                      stage[d] = "answered", stage[g] = "answered", d \in after[g],
                      Deletes(message[d]), Key(message[d]) = Key(message[g]),
                      Table(message[d]) = Table(message[g]), answer[d].boolean,
                      message[g].method = "GET_SINGLE", ById(message[g], Key(message[g])),
                      OnlyWriters(after[d] \cup {d}, Table(message[g])), RunOnce
               PROVE  answer[g].object = Empty
    BY DEF DeletedStaysGone, Deletes, RunOnce, ById
  <2>1. Confirmed(d)
    <3>1. PICK o \in replies[d] : o.ok /\ answer[d] = Data(o.data)
      BY DEF CallInv
    <3>2. CASE o.data = BoolRes(FALSE)
      <4>1. Data(o.data) = [boolean |-> FALSE]
        BY <3>2 DEF Data, BoolRes
      <4>. QED
        BY <3>1, <4>1
    <3>. QED
      BY <3>1, <3>2 DEF Confirmed, Confirms, Deletes
  <2>2. PICK o \in replies[g] : o.ok /\ answer[g] = Data(o.data)
    BY DEF CallInv
  <2>3. o.data = RowJson(Empty)
    BY <2>1, <2>2 DEF ReadsGone
  <2>. QED
    BY <2>2, <2>3 DEF Data, RowJson
<1>. QED
  BY <1>1, <1>2, PTL
=============================================================================
