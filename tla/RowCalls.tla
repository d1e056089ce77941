------------------------------ MODULE RowCalls ------------------------------
(***************************************************************************)
(* What the calls of the SQL RPC other than GET_DATA say and do: a message *)
(* of a client becomes the arguments of a typed method, a FlatBuffers      *)
(* table, a request of the Postgres manager and one SQL statement; the     *)
(* outcome comes back as a tagged payload.                                 *)
(*                                                                         *)
(* How calls travel is the subject of SqlRpc.  Here a request is run at    *)
(* any time after the call, perhaps again after a crash, and every answer  *)
(* may be late or lost.                                                    *)
(*                                                                         *)
(* A row is a function of its columns, id is unique, and a list of rows is *)
(* a set.  The form of text values is left out, and so are the fields and  *)
(* results of aggregations, which are not sent back.                       *)
(***************************************************************************)
EXTENDS Naturals, FiniteSets

CONSTANTS Calls,     \* correlation ids
          Traffic,   \* what they may ask: [Calls -> messages], where a message
                     \* is [method, companyId, table, pk, id, body]
          Databases, \* initial contents: <<company, table>> -> rows
          Tenant,    \* the company of the sessions
          FreshIds,  \* ids that a column's default can yield
          Null, Absent,
          MaxRepeats \* bound: requests that are run twice

ASSUME RepeatsAssumption == MaxRepeats \in Nat

VARIABLES
  message,  \* message[c]
  stage,    \* "idle", "waiting", "answered" or "failed"
  after,    \* after[c]: the calls that were answered when c was made
  runs,     \* runs[c]: how often its request was run
  replies,  \* replies[c]: the payloads produced for it
  answer,   \* answer[c]: the data of its rpcResult
  database

vars == <<message, stage, after, runs, replies, answer, database>>

Columns == {"id", "companyId", "x"}

\* Rows of a table: id is unique.
IsTable(rows) ==
  \A a, b \in rows : DOMAIN a = Columns /\ a = [f \in DOMAIN a |-> a[f]] /\ (a.id = b.id => a = b)
IsDatabase(d) == d = [t \in DOMAIN d |-> d[t]] /\ \A t \in DOMAIN d : IsTable(d[t])

ASSUME DatabasesAssumption == \A d \in Databases : IsDatabase(d)

Empty == [f \in {} |-> Null]   \* the JSON object {}

\* Payloads of replies, as the worker fills them in.
RowsJson(rows) == [type |-> "RowsJson", rows |-> rows]
RowJson(row) == [type |-> "RowJson", row |-> row]
BoolRes(b) == [type |-> "BoolRes", value |-> b]
AggRes == [type |-> "AggRes"]

\* What parseResponseBuffer and onData make of them.
Data(p) ==
  CASE p.type = "RowsJson" -> [array |-> p.rows]
    [] p.type = "RowJson" -> [object |-> p.row]
    [] p.type = "BoolRes" -> [boolean |-> p.value]
    [] p.type = "AggRes" -> [object |-> Empty]
-----------------------------------------------------------------------------
(* From the message to the request                                          *)

(* handleRpc: text is a row or a patch in row_json or updates_json, which   *)
(* is taken as it is; the branches that would parse it are never reached.   *)
Arguments(m) ==
  LET Or(v, default) == IF v = Absent THEN default ELSE v
      body == Or(m.body, [text |-> FALSE, fields |-> Empty])
  IN  [companyId |-> Or(m.companyId, Tenant), tableName |-> Or(m.table, ""),
       primaryKeyColumn |-> Or(m.pk, "id"), primaryId |-> Or(m.id, ""),
       rowJson |-> body, updatesJson |-> body]

\* The fields of the tables of the protocol, as far as their handlers read them.
GetSingleReq == {"companyId", "tableName", "primaryKeyColumn", "primaryId"}
AddSingleReq == {"companyId", "tableName", "primaryKeyColumn", "rowJson"}
UpdateSingleReq == {"companyId", "tableName", "primaryKeyColumn", "primaryId", "updatesJson"}
DeleteRowReq == {"companyId", "tableName", "primaryKeyColumn", "primaryId"}
TableExistsReq == {"companyId", "tableName"}
CreateTableReq == {"companyId"}
RunAggregationReq == {"companyId", "tableName"}

(* encodePayload                                                            *)
Payload(method) ==
  CASE method = "GET_SINGLE" -> GetSingleReq
    [] method = "ADD_SINGLE" -> AddSingleReq
    [] method = "UPDATE_SINGLE" -> UpdateSingleReq
    [] method = "DELETE_ROW" -> DeleteRowReq
    [] method = "TABLE_EXISTS" -> TableExistsReq
    [] method = "CREATE_TABLE" -> CreateTableReq
    [] method = "RUN_AGGREGATION" -> RunAggregationReq

(* The typed methods of SqlRpcClient.                                       *)
Request(m) == [f \in Payload(m.method) |-> Arguments(m)[f]]

\* The constructor of DbRequest does not throw.
Named(r) == r.companyId # "" /\ r.tableName # ""

FullTableName(r) == <<r.companyId, r.tableName>>
-----------------------------------------------------------------------------
(* Statements: each gives the pairs [data, rows] it may have as outcome;    *)
(* none means that it fails, and changes nothing.                           *)

Matching(rows, column, v) == {row \in rows : row[column] = v}

(* The first row that matches, or {}.                                       *)
GetSingle(r, rows) ==
  LET hits == Matching(rows, r.primaryKeyColumn, r.primaryId)
  IN  {[data |-> RowJson(d), rows |-> rows] : d \in IF hits = {} THEN {Empty} ELSE hits}

Ids(rows) == {row.id : row \in rows}

\* Mutant: the key is taken to be the column's default.
AddSingleWithoutKey(r, rows) ==
  LET Full(id) == [f \in Columns |-> IF f = "id" THEN id
                                     ELSE IF f \in DOMAIN r.rowJson.fields THEN r.rowJson.fields[f] ELSE Null]
  IN  {[data |-> RowsJson({Full(id)}), rows |-> rows \cup {Full(id)}] : id \in FreshIds \ Ids(rows)}

(* A text has no such columns; a row without an id gets the default.        *)
AddSingle(r, rows) ==
  LET given == r.rowJson.fields
      ids == IF "id" \in DOMAIN given THEN {given.id} ELSE FreshIds
      Full(id) == [f \in Columns |-> IF f = "id" THEN id ELSE IF f \in DOMAIN given THEN given[f] ELSE Null]
  IN  {[data |-> RowsJson({Full(id)}), rows |-> rows \cup {Full(id)}] :
         id \in IF r.rowJson.text THEN {} ELSE ids \ Ids(rows)}

\* Mutant: the patch replaces the row.
UpdateSingleReplacing(r, rows) ==
  LET patch == r.updatesJson.fields
      hits == Matching(rows, r.primaryKeyColumn, r.primaryId)
      updated == {[f \in DOMAIN patch \cup {"id"} |-> IF f \in DOMAIN patch THEN patch[f] ELSE row[f]] : row \in hits}
  IN  IF r.updatesJson.text \/ patch = Empty THEN {} ELSE {[data |-> RowsJson(updated), rows |-> (rows \ hits) \cup updated]}

(* A patch that is empty, or a text, is refused.                            *)
UpdateSingle(r, rows) ==
  LET patch == r.updatesJson.fields
      hits == Matching(rows, r.primaryKeyColumn, r.primaryId)
      Patched(row) == [f \in Columns |-> IF f \in DOMAIN patch THEN patch[f] ELSE row[f]]
      updated == {Patched(row) : row \in hits}
      unique == "id" \in DOMAIN patch =>
                  /\ \A a, b \in hits : a = b
                  /\ hits # {} => patch.id \notin Ids(rows \ hits)
  IN  IF r.updatesJson.text \/ patch = Empty \/ ~unique THEN {}
      ELSE {[data |-> RowsJson(updated), rows |-> (rows \ hits) \cup updated]}

\* Mutant: the filter on companyId is left out.
DeletedByKey(r, rows) == Matching(rows, r.primaryKeyColumn, r.primaryId)

(* getFilters of DeleteRowDbRequest                                         *)
Deleted(r, rows) == Matching(Matching(rows, r.primaryKeyColumn, r.primaryId), "companyId", r.companyId)

DeleteRow(r, rows) == {[data |-> BoolRes(Deleted(r, rows) # {}), rows |-> rows \ Deleted(r, rows)]}

(* The result of an aggregation is left behind for a placeholder.           *)
RunAggregation(rows) == {[data |-> AggRes, rows |-> rows]}

(* The handlers of the worker, for a request that names an existing table.  *)
Statement(method, r, rows) ==
  CASE method = "GET_SINGLE" -> GetSingle(r, rows)
    [] method = "ADD_SINGLE" -> AddSingle(r, rows)
    [] method = "UPDATE_SINGLE" -> UpdateSingle(r, rows)
    [] method = "DELETE_ROW" -> DeleteRow(r, rows)
    [] method = "RUN_AGGREGATION" -> RunAggregation(rows)
    [] method = "TABLE_EXISTS" -> {[data |-> BoolRes(TRUE), rows |-> rows]}
    [] OTHER -> {}

Error == [ok |-> FALSE, data |-> Absent]
-----------------------------------------------------------------------------
Init ==
  /\ message \in Traffic
  /\ stage = [c \in Calls |-> "idle"]
  /\ after = [c \in Calls |-> {}]
  /\ runs = [c \in Calls |-> 0]
  /\ replies = [c \in Calls |-> {}]
  /\ answer = [c \in Calls |-> Absent]
  /\ database \in Databases

Ask(c) ==
  /\ stage[c] = "idle"
  /\ stage' = [stage EXCEPT ![c] = "waiting"]
  /\ after' = [after EXCEPT ![c] = {d \in Calls : stage[d] = "answered"}]
  /\ UNCHANGED <<message, runs, replies, answer, database>>

\* One execution of the worker's handler with outcome o.
Done(c, o, db) ==
  /\ stage[c] # "idle"
  /\ runs[c] = 0 \/ (runs[c] = 1 /\ Cardinality({d \in Calls : runs[d] = 2}) < MaxRepeats)
  /\ runs' = [runs EXCEPT ![c] = @ + 1]
  /\ replies' = [replies EXCEPT ![c] = @ \cup {o}]
  /\ database' = db
  /\ UNCHANGED <<message, stage, after, answer>>

\* Mutant: the reply is sent and the statement is not waited for.
RunUnawaited(c) ==
  LET r == Request(message[c])
      t == FullTableName(r)
  IN  /\ message[c].method # "CREATE_TABLE" /\ Named(r) /\ t \in DOMAIN database
      /\ \E o \in Statement(message[c].method, r, database[t]), late \in BOOLEAN :
           Done(c, [ok |-> TRUE, data |-> o.data],
                IF late THEN database ELSE [database EXCEPT ![t] = o.rows])

(* The statement is run and its outcome sent, or an error if the connection *)
(* breaks after it.                                                         *)
Run(c) ==
  LET r == Request(message[c])
      t == FullTableName(r)
  IN  /\ message[c].method # "CREATE_TABLE" /\ Named(r) /\ t \in DOMAIN database
      /\ \E o \in Statement(message[c].method, r, database[t]) :
           \E told \in {[ok |-> TRUE, data |-> o.data], Error} :
             Done(c, told, [database EXCEPT ![t] = o.rows])

(* TABLE_EXISTS of a table that there is not.                               *)
RunNoTable(c) ==
  LET r == Request(message[c])
  IN  /\ message[c].method = "TABLE_EXISTS" /\ Named(r) /\ FullTableName(r) \notin DOMAIN database
      /\ Done(c, [ok |-> TRUE, data |-> BoolRes(FALSE)], database)

(* The request, the statement or the connection fails: an error is sent.    *)
RunFails(c) == Done(c, Error, database)

(* onData: the first reply to arrive settles the call.                      *)
Answer(c) ==
  /\ stage[c] = "waiting"
  /\ \E o \in replies[c] :
       /\ stage' = [stage EXCEPT ![c] = IF o.ok THEN "answered" ELSE "failed"]
       /\ answer' = [answer EXCEPT ![c] = IF o.ok THEN Data(o.data) ELSE Absent]
  /\ UNCHANGED <<message, after, runs, replies, database>>

(* A timeout, a producer that fails, a stop.                                *)
Fail(c) ==
  /\ stage[c] = "waiting"
  /\ stage' = [stage EXCEPT ![c] = "failed"]
  /\ UNCHANGED <<message, after, runs, replies, answer, database>>

Next == \E c \in Calls :
  \/ Ask(c) \/ Answer(c) \/ Fail(c)
  \/ Run(c) \/ RunNoTable(c) \/ RunFails(c)

Spec == Init /\ [][Next]_vars
-----------------------------------------------------------------------------
TypeOK ==
  /\ stage \in [Calls -> {"idle", "waiting", "answered", "failed"}]
  /\ runs \in [Calls -> 0..2]
  /\ after \in [Calls -> SUBSET Calls]
  /\ \A c \in Calls : stage[c] = "idle" => runs[c] = 0 /\ replies[c] = {}
  /\ IsDatabase(database)

\* What message m is about, in the client's terms.
Table(m) == <<IF m.companyId = Absent THEN Tenant ELSE m.companyId, m.table>>
Key(m) == IF m.id = Absent THEN "" ELSE m.id
Names(m, row) == row[IF m.pk = Absent THEN "id" ELSE m.pk] = Key(m)
ById(m, id) == m.pk \in {Absent, "id"} /\ Key(m) = id
Writes(m) == m.method \in {"ADD_SINGLE", "UPDATE_SINGLE", "DELETE_ROW"}
AddsRow(m, id) == m.method = "ADD_SINGLE" /\ m.body # Absent /\ "id" \in DOMAIN m.body.fields /\ m.body.fields.id = id

\* No request but those of the calls C could have changed table t.
OnlyWriters(C, t) == \A c \in Calls \ C : Writes(message[c]) /\ Table(message[c]) = t => stage[c] = "idle"

(* Who was told that a row was added, and asks for it then, gets that row,  *)
(* however often requests were run and whatever was lost, unless others     *)
(* have written to the table (worker.ts 523-556, sql-rpc.ts 129-177).       *)
ReadYourWrites ==
  \A a, g \in Calls :
    LET id == Key(message[g])
    IN  /\ stage[a] = "answered" /\ stage[g] = "answered" /\ a \in after[g]
        /\ message[g].method = "GET_SINGLE" /\ ById(message[g], id)
        /\ AddsRow(message[a], id) /\ Table(message[a]) = Table(message[g])
        /\ OnlyWriters({a}, Table(message[a]))
        => answer[g].object = [f \in Columns |-> IF f \in DOMAIN message[a].body.fields
                                                THEN message[a].body.fields[f] ELSE Null]

(* A row whose deletion was confirmed does not come back: an addition that  *)
(* was answered before is not run afterwards, if each request is run once   *)
(* (worker.ts 579-594; SqlRpc's RepeatsExplained says when they are not).   *)
DeletedStaysGone ==
  \A d, g \in Calls :
    LET id == Key(message[g])
        t == Table(message[g])
    IN  /\ stage[d] = "answered" /\ stage[g] = "answered" /\ d \in after[g]
        /\ message[d].method = "DELETE_ROW" /\ ById(message[d], id) /\ Table(message[d]) = t
        /\ answer[d].boolean
        /\ message[g].method = "GET_SINGLE" /\ ById(message[g], id)
        /\ OnlyWriters(after[d] \cup {d}, t) /\ \A c \in Calls : runs[c] <= 1
        => answer[g].object = Empty

(* A request that is run again has no further effect when nobody else has   *)
(* written to the table, if an added row names its id: what a crash makes   *)
(* the worker repeat is harmless to a lone client (kafka.ts 46-57,          *)
(* query_builder.ts 100-119).                                               *)
RepeatsChangeNothing ==
  [][\A c \in Calls :
       LET m == message[c]
       IN  /\ runs'[c] > runs[c] /\ TRUE \in {o.ok : o \in replies[c]}
           /\ OnlyWriters({c}, Table(m))
           /\ m.method = "ADD_SINGLE" => m.body # Absent /\ "id" \in DOMAIN m.body.fields
           => database' = database]_vars

(* Rows go only by a DELETE_ROW that names them, in a table of its company, *)
(* and only rows that are that company's; a row that moves to another id    *)
(* is no deletion (requests.ts 345-368, query_builder.ts 113-119).          *)
DeletesOwnRows ==
  [][\A t \in DOMAIN database : \A row \in database[t] :
       row.id \notin Ids(database'[t]) =>
         \E c \in Calls :
           LET m == message[c]
           IN  /\ runs'[c] > runs[c] /\ Table(m) = t /\ Names(m, row)
               /\ \/ m.method = "DELETE_ROW" /\ row.companyId = t[1]
                  \/ m.method = "UPDATE_SINGLE" /\ "id" \in DOMAIN m.body.fields
                     /\ m.body.fields.id \in Ids(database'[t])]_vars
=============================================================================
