---------------------------- MODULE MCRowCalls -----------------------------
(* Messages and tables for TLC.                                             *)
EXTENDS RowCalls, TLC

Row(id, company, x) == [id |-> id, companyId |-> company, x |-> x]
Orders == <<"acme", "orders">>
MCDatabases == {(Orders :> {Row("1", "acme", "a"), Row("2", "globex", "a")}) @@ (<<"globex", "orders">> :> {})}

Message(method, pk, id, body) ==
  [method |-> method, companyId |-> Absent, table |-> "orders", pk |-> pk, id |-> id, body |-> body]
Object(fields) == [text |-> FALSE, fields |-> fields]

Get(id) == Message("GET_SINGLE", Absent, id, Absent)
Add(fields) == Message("ADD_SINGLE", Absent, Absent, Object(fields))
Delete(pk, id) == Message("DELETE_ROW", pk, id, Absent)
Update(pk, id, fields) == Message("UPDATE_SINGLE", pk, id, Object(fields))

Add3 == Add([id |-> "3", companyId |-> "acme", x |-> "b"])
Common == {Get("1"), Get("3"), Delete(Absent, "1"), Delete("id", "3"), Add3, Update(Absent, "1", [x |-> "b"])}
Others ==
  {Update(Absent, "1", [id |-> "3"]), Update("x", "a", [x |-> "b"]), [Update("id", "1", Empty) EXCEPT !.body = Absent],
   Delete("x", "a"), [Delete(Absent, "2") EXCEPT !.companyId = "globex"],
   Add([x |-> "b"]), [Add([id |-> "4"]) EXCEPT !.body.text = TRUE],
   [Add([id |-> "3", x |-> "c"]) EXCEPT !.companyId = "globex"],
   Message("RUN_AGGREGATION", Absent, Absent, Absent), Message("CREATE_TABLE", Absent, Absent, Absent),
   [Message("TABLE_EXISTS", Absent, Absent, Absent) EXCEPT !.table = "prices"],
   [Message("TABLE_EXISTS", Absent, Absent, Absent) EXCEPT !.companyId = "globex"],
   [Get("1") EXCEPT !.table = Absent]}

(* Any common messages, or one of the others with two of the common.        *)
MCTraffic ==
  [Calls -> Common] \cup
  {f \in [Calls -> Others \cup {Add3, Delete(Absent, "1"), Get("3")}] :
     Cardinality({c \in Calls : f[c] \in Others}) = 1}

Symmetry == Permutations(Calls)
=============================================================================
