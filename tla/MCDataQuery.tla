---------------------------- MODULE MCDataQuery ----------------------------
(***************************************************************************)
(* Queries, tables and commits for TLC.  A query is                        *)
(*   [json, wrapper, order, limit, cursor, offset]                         *)
(* where json says whether there is a JSON query at all; the offset counts *)
(* when there is none.  Trees are written with their children inside and   *)
(* then named by paths from the root.                                      *)
(***************************************************************************)
EXTENDS DataQuery

\* A number, a text, and a date.
Row(id, a) == [id |-> id, a |-> a, name |-> a, at |-> id]
MCTables == {{Row(1, 1), Row(2, 2), Row(3, 1)}, {Row(1, 1), Row(2, Null), Row(3, 2)}}

MCChanges ==
  {[out |-> {}, in |-> {Row(4, 1)}], [out |-> {Row(1, 1)}, in |-> {}],
   [out |-> {Row(2, 2)}, in |-> {Row(2, 1)}]}

RECURSIVE Paths(_)
Paths(n) ==
  {Root} \cup IF IsWrapper(n)
              THEN UNION {{<<i>> \o p : p \in Paths(n.filters[i])} : i \in DOMAIN n.filters}
              ELSE {}
RECURSIVE At(_, _)
At(n, path) == IF path = Root THEN n ELSE At(n.filters[Head(path)], Tail(path))

Tree(n) ==
  [p \in Paths(n) |->
     IF IsWrapper(At(n, p)) THEN [At(n, p) EXCEPT !.filters = [i \in DOMAIN @ |-> Append(p, i)]]
     ELSE At(n, p)]

Leaf(op, value) == [field |-> "a", op |-> op, value |-> value]
Number(n) == [tag |-> "NumberValue", v |-> n]
Int64s(s) == [tag |-> "Int64List", v |-> s]
NullValue == [tag |-> "NullValue"]

A == Leaf("equals", Number(1))
B == Leaf("isNull", Number(0))
C == [field |-> "id", op |-> "notEquals", value |-> [tag |-> "Int64Value", v |-> 1]]
Leaves ==
  {A, B, C, Leaf("equals", NullValue), Leaf("notEquals", NullValue), Leaf("isNotNull", Number(0)),
   Leaf("in", Int64s(<<1, 2>>)), Leaf("notIn", Int64s(<<1>>)), Leaf("in", Int64s(<<>>)),
   Leaf("notIn", Int64s(<<>>)), Leaf("between", Int64s(<<2, 3>>)), Leaf("notBetween", Int64s(<<2, 3>>)),
   Leaf("between", Int64s(<<2>>)), Leaf("lessThan", Number(2)), Leaf("inList", Int64s(<<1>>)),
   Leaf("startsWith", Number(1)), Leaf("contains", NullValue), Leaf("regex", Number(1)),
   Leaf("notRegex", Number(1)), Leaf("notRegex", NullValue)}

\* A text is the number before it, or starts with it.
MCMatches ==
  {<<op, x, x>> : op \in {"startsWith", "endsWith", "contains", "regex"}, x \in 1..3}
    \cup {<<op, x + 1, x>> : op \in {"startsWith", "contains", "regex"}, x \in 1..2}

Group(type, filters) == [type |-> type, filters |-> filters]
Groups(parts) == {Group(t, f) : t \in {"and", "or"}, f \in {<<x, y>> : x, y \in parts}}
Single(parts) == {Group(t, <<x>>) : t \in {"and", "or"}, x \in parts}
Inner == {A, B, Group("and", <<>>)} \cup Single({A}) \cup {Group(t, <<A, C>>) : t \in {"and", "or"}}
Trees == {Tree(n) : n \in Single(Leaves) \cup Groups(Inner)}

Key(field, sort) == [field |-> field, sort |-> sort]
Orders ==
  {<<Key("id", "ASC_DEFAULT")>>, <<Key("a", "DESC_DEFAULT"), Key("id", "ASC_DEFAULT")>>,
   <<Key("a", "ASC_NULLS_FIRST"), Key("id", "DESC_DEFAULT")>>, <<Key("a", "ASC_DEFAULT")>>,
   <<Key("name", "DESC_DEFAULT"), Key("id", "DESC_DEFAULT")>>,
   <<Key("name", "ASC_DEFAULT"), Key("id", "ASC_DEFAULT")>>,
   <<Key("at", "ASC_DEFAULT")>>, <<Key("id", "descending")>>}

Query(wrapper, order, limit, cursor) ==
  [json |-> TRUE, wrapper |-> wrapper, order |-> order, limit |-> limit, cursor |-> cursor, offset |-> 0]

MCQueries ==
  {Query(<<t>>, <<>>, 3, NoCursor) : t \in Trees}
    \cup {Query(t, o, n, NoCursor) : t \in {<<>>, <<Tree(Group("and", <<C>>))>>}, o \in Orders, n \in {1, 2}}
    \cup {Query(<<>>, <<Key("id", "DESC_DEFAULT")>>, Absent, NoCursor)}
    \cup {[Query(<<>>, <<>>, Absent, NoCursor) EXCEPT !.json = FALSE, !.offset = n] : n \in 0..1}
=============================================================================
