----------------------------- MODULE QueryTree -----------------------------
(***************************************************************************)
(* What becomes of a query on its way from a client's JSON to SQL: the     *)
(* gateway turns it into plain values, the codec into FlatBuffers, the     *)
(* worker back into plain values, and the Postgres manager into WHERE,     *)
(* ORDER BY and LIMIT.  The same JSON is also published to Streams.        *)
(*                                                                         *)
(* A filter tree maps the names of its nodes to the nodes: leaves, which   *)
(* are [field, op, value], and wrappers, which are [type, filters], where  *)
(* filters lists the names of the children.  It has this shape in every    *)
(* one of these forms; only ops and values change their form.  A row is a  *)
(* function of its columns.  Text matching (LIKE and ~) is a relation.     *)
(***************************************************************************)
EXTENDS Integers, Sequences

CONSTANTS Null,        \* SQL's NULL and JavaScript's null
          Absent,      \* stands for a field the JSON, or the buffer, does not have
          Matches,     \* the <<op, text, pattern>> that match
          TextColumns, \* their values are texts
          DateColumns, \* the driver makes a Date of their values
          NullText     \* the text "null"

Root == <<>>  \* the name of the outermost wrapper

IsWrapper(n) == "filters" \in DOMAIN n

LeavesOf(t) == {t[i] : i \in {i \in DOMAIN t : ~IsWrapper(t[i])}}

MapLeaves(t, Op(_)) == [i \in DOMAIN t |-> IF IsWrapper(t[i]) THEN t[i] ELSE Op(t[i])]
-----------------------------------------------------------------------------
(* Values: tagged in JSON and in FlatBuffers, [js, v] in between            *)

Scalars == [NumberValue |-> "number", Int64Value |-> "number", TimestampValue |-> "number",
            StringValue |-> "string", BoolValue |-> "bool"]
Lists == [StringList |-> "string", Int64List |-> "number", Float64List |-> "number", BoolList |-> "bool"]

(* taggedToPlain.                                                           *)
Plain(t) ==
  CASE t.tag \in DOMAIN Scalars -> [js |-> Scalars[t.tag], v |-> t.v]
    [] t.tag \in DOMAIN Lists ->
         [js |-> "array", of |-> IF t.v = <<>> THEN "nothing" ELSE Lists[t.tag], v |-> t.v]
    [] OTHER -> [js |-> "null", v |-> Null]

(* encodeFilterValue: numbers travel as doubles, an empty list as strings.  *)
FbValue(x) ==
  CASE x.js = "null" -> [tag |-> "NullValue"]
    [] x.js = "array" ->
         [tag |-> IF x.v = <<>> \/ x.of = "string" THEN "StringList"
                  ELSE IF x.of = "bool" THEN "BoolList" ELSE "Float64List",
          v |-> x.v]
    [] x.js = "string" -> [tag |-> "StringValue", v |-> x.v]
    [] x.js = "bool" -> [tag |-> "BoolValue", v |-> x.v]
    [] OTHER -> [tag |-> "NumberValue", v |-> x.v]

(* readFilterFromUnion of the worker, decodeFilterValue of the codec.       *)
ReadValue(t) == Plain(t)

(* String(value) of a value of column f, in the cursor of a reply.  NULL is  *)
(* the text "null", which is a value like others of a text column only.     *)
TextOf(f, v) == [js |-> "string", v |-> IF v = Null /\ f \in TextColumns THEN NullText ELSE v]

\* Postgres reads the text as a value of column f: not String(date), nor "null" for a number.
Readable(f, text) == f \notin DateColumns /\ text.v # Null
-----------------------------------------------------------------------------
(* Operators                                                                *)

SharedOps ==
  {"equals", "notEquals", "lessThan", "lessThanOrEquals", "greaterThan", "greaterThanOrEquals",
   "isNull", "isNotNull", "regex", "notRegex", "startsWith", "endsWith", "contains", "notContains",
   "arrayContains", "arrayContainedBy", "arrayOverlaps", "arrayEquals", "arrayNotEquals",
   "arrayEmpty", "arrayNotEmpty", "arrayLength", "jsonContains", "jsonContainedBy", "jsonHasKey",
   "jsonHasAnyKey", "jsonHasAllKeys", "jsonGetField", "jsonGetFieldAsText", "between",
   "notBetween", "rangeContains", "rangeContainedBy"}
CodecOps == SharedOps \cup {"in", "notIn"}
FbOps == SharedOps \cup {"inList", "notInList"}

\* mapFilterType of the codec, which throws outside CodecOps, and of the worker.
FbOp(op) == IF op = "in" THEN "inList" ELSE IF op = "notIn" THEN "notInList" ELSE op
ReadOp(op) == IF op = "inList" THEN "in" ELSE IF op = "notInList" THEN "notIn" ELSE op
-----------------------------------------------------------------------------
(* Trees                                                                    *)

(* wrapperToCodec                                                           *)
CodecLeaf(l) == [l EXCEPT !.value = Plain(@)]
ToCodec(t) == MapLeaves(t, CodecLeaf)

Encodable(t) == \A l \in LeavesOf(t) : l.op \in CodecOps

(* encodeWrapper, encodeSingleFilter                                        *)
WireLeaf(l) == [l EXCEPT !.op = FbOp(@), !.value = FbValue(@)]
ToWire(t) == MapLeaves(t, WireLeaf)

(* readFilterWrapper                                                        *)
ReadLeaf(l) == [l EXCEPT !.op = ReadOp(@), !.value = ReadValue(@)]

\* Mutant: the type of the outer group is not read.
FromWireAnd(t) == [MapLeaves(t, ReadLeaf) EXCEPT ![Root].type = "and"]

FromWire(t) == MapLeaves(t, ReadLeaf)

(* buildFilterValue, for Streams, throws for a NullValue.                   *)
Buildable(v) == v.tag \in DOMAIN Scalars \cup DOMAIN Lists

(* buildWrapper and buildBasic: an unknown op means equals.                 *)
StreamsEncodable(t) == \A l \in LeavesOf(t) : Buildable(l.value)
StreamsLeaf(l) == [l EXCEPT !.op = IF @ \in FbOps THEN @ ELSE "equals"]
ToStreams(t) == MapLeaves(t, StreamsLeaf)
-----------------------------------------------------------------------------
(* WHERE                                                                    *)

SqlOps == {"equals", "notEquals", "isNull", "isNotNull", "startsWith", "endsWith", "contains",
           "in", "notIn", "regex", "notRegex", "between", "notBetween"}

(* applySingleFilter throws for other ops, and for ranges without two ends. *)
Compiles(t) ==
  \A l \in LeavesOf(t) :
    /\ l.op \in SqlOps
    /\ l.op \in {"between", "notBetween"} => l.value.js = "array" /\ Len(l.value.v) = 2

Elements(x) == IF x.js = "array" THEN {x.v[i] : i \in DOMAIN x.v} ELSE {}

(* The condition is true, neither false nor unknown.  knex writes = NULL    *)
(* as IS NULL; an empty list is 1 = 0 or 1 = 1; a pattern that is null is   *)
(* the text "null" for LIKE, and NULL for ~.                                *)
LeafHolds(l, row) ==
  LET x == row[l.field]
      v == l.value
  IN  CASE l.op \in {"equals", "notEquals"} /\ v.js = "null" -> (x = Null) = (l.op = "equals")
        [] l.op = "equals" -> x # Null /\ x = v.v
        [] l.op = "notEquals" -> x # Null /\ x # v.v
        [] l.op = "isNull" -> x = Null
        [] l.op = "isNotNull" -> x # Null
        [] l.op = "in" -> x # Null /\ x \in Elements(v)
        [] l.op = "notIn" -> Elements(v) = {} \/ (x # Null /\ x \notin Elements(v))
        [] l.op = "between" /\ Len(v.v) = 2 -> x # Null /\ x \in v.v[1]..v.v[2]
        [] l.op = "notBetween" /\ Len(v.v) = 2 -> x # Null /\ x \notin v.v[1]..v.v[2]
        [] l.op \in {"startsWith", "endsWith", "contains"} -> x # Null /\ <<l.op, x, v.v>> \in Matches
        [] l.op \in {"regex", "notRegex"} ->
             x # Null /\ v.js # "null" /\ (<<"regex", x, v.v>> \in Matches) = (l.op = "regex")
        [] OTHER -> FALSE  \* not compiled

(* knex leaves out a group that has no condition.                           *)
Empty(t) ==
  LET empty[i \in DOMAIN t] ==
        IsWrapper(t[i]) /\ \A k \in DOMAIN t[i].filters : empty[t[i].filters[k]]
  IN  empty

\* The places of the children of wrapper i that have a condition.
Conds(t, i) == {k \in DOMAIN t[i].filters : ~Empty(t)[t[i].filters[k]]}

IsOr(n) == IsWrapper(n) /\ n.type = "or"

(* processFilters: the conditions are joined left to right, a wrapper by    *)
(* its own type and a leaf by AND, so that each OR group starts a new       *)
(* alternative to what precedes it.  The children of a group are joined in  *)
(* the same way, whatever the type of the group.                            *)
Where(t, row) ==
  LET holds[i \in DOMAIN t] ==
        IF ~IsWrapper(t[i]) THEN LeafHolds(t[i], row)
        ELSE LET conds == Conds(t, i)
                 child(k) == t[i].filters[k]
                 Starts(k) == IsOr(t[child(k)]) \/ \A j \in conds : k <= j
                 \* the conditions of the alternative that starts at k
                 Run(k) == {j \in conds : k <= j /\ \A m \in conds : k < m /\ m <= j => ~Starts(m)}
             IN  conds = {} \/ \E k \in conds : Starts(k) /\ \A j \in Run(k) : holds[child(j)]
  IN  holds[Root]

(* What the tree says: AND and OR of its parts, the empty ones left out.    *)
Meant(t, row) ==
  LET meant[i \in DOMAIN t] ==
        IF ~IsWrapper(t[i]) THEN LeafHolds(CodecLeaf(t[i]), row)
        ELSE LET conds == Conds(t, i)
             IN  IF t[i].type = "or"
                 THEN conds = {} \/ \E k \in conds : meant[t[i].filters[k]]
                 ELSE \A k \in conds : meant[t[i].filters[k]]
  IN  meant[Root]

(* OR groups do what they say where they are not preceded in an AND group   *)
(* and where they have no leaves next to one another.                       *)
Supported(t) ==
  \A i \in DOMAIN t : IsWrapper(t[i]) =>
    \A k \in Conds(t, i) :
      (\E j \in Conds(t, i) : j < k) => (t[i].type = "or") = IsOr(t[t[i].filters[k]])
-----------------------------------------------------------------------------
(* ORDER BY and the keyset cursor                                           *)

Sorts == {"ASC_DEFAULT", "ASC_NULLS_FIRST", "ASC_NULLS_LAST",
          "DESC_DEFAULT", "DESC_NULLS_FIRST", "DESC_NULLS_LAST"}

\* mapOrderSort of the codec: what it does not know is undefined, and written as 0.
CodecSort(sort) == IF sort \in Sorts THEN sort ELSE "ASC_DEFAULT"

\* orderSortFromWire, for Streams
StreamsSort(sort) == IF sort \in Sorts THEN sort ELSE "DESC_DEFAULT"

MapSorts(order, Op(_)) == [i \in DOMAIN order |-> [order[i] EXCEPT !.sort = Op(@)]]

\* parseOrder, with Postgres' default for NULLs
Descending(sort) == sort \in {"DESC_DEFAULT", "DESC_NULLS_FIRST", "DESC_NULLS_LAST"}
NullsFirst(sort) == sort \in {"DESC_DEFAULT", "DESC_NULLS_FIRST", "ASC_NULLS_FIRST"}

\* x sorts before y under key k
Precedes(k, x, y) ==
  IF x = Null \/ y = Null
  THEN x # y /\ (x = Null) = NullsFirst(k.sort)
  ELSE IF Descending(k.sort) THEN y < x ELSE x < y

\* r sorts before q in the lexicographic order of the keys
Before(order, r, q) ==
  \E i \in DOMAIN order :
    /\ Precedes(order[i], r[order[i].field], q[order[i].field])
    /\ \A j \in 1..(i - 1) : r[order[j].field] = q[order[j].field]

Sorted(order, s) == \A i, j \in DOMAIN s : i < j => ~Before(order, s[j], s[i])

\* Mutant: the direction of the key is ignored.
ComparesUp(k, x, y, strict) == (~strict /\ x = y) \/ x > y

\* cmpOp on values that are not NULL
Compares(k, x, y, strict) == (~strict /\ x = y) \/ (IF Descending(k.sort) THEN x < y ELSE x > y)

(* Mutant: the comparisons of all keys are joined by AND.                   *)
AfterCursorAll(order, cursor, strict, row) ==
  \A i \in {i \in DOMAIN order : order[i].field \in DOMAIN cursor} :
    LET x == row[order[i].field]
        c == cursor[order[i].field].v
    IN  x # Null /\ c # Null /\ Compares(order[i], x, c, strict)

(* applyKeysetCursor.                                                       *)
AfterCursor(order, cursor, strict, row) ==
  LET keys == {i \in DOMAIN order : order[i].field \in DOMAIN cursor}
      x(i) == row[order[i].field]
      c(i) == cursor[order[i].field].v
  IN  keys = {} \/ \E i \in keys :
        /\ \A j \in keys : j < i => x(j) # Null /\ x(j) = c(j)
        /\ x(i) # Null /\ c(i) # Null /\ Compares(order[i], x(i), c(i), strict)
=============================================================================
