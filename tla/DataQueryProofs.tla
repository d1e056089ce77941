-------------------------- MODULE DataQueryProofs --------------------------
(***************************************************************************)
(* The pages that a client reads of a table others change, for all tables, *)
(* trees, orders and commits: what the client's JSON asks for survives the *)
(* conversions (TreeBack), means in SQL what it says (WhereIsMeant), and   *)
(* its pages are exact, go forward and leave nothing out.                  *)
(***************************************************************************)
EXTENDS DataQuery, SequenceTheorems, FiniteSetTheorems, NaturalsInduction, WellFoundedInduction, TLAPS

-----------------------------------------------------------------------------
(* The conversions of a tree                                                *)

\* What the worker reads is the value that the gateway made of the JSON's.
LEMMA ReadBack == ASSUME NEW t PROVE ReadValue(FbValue(Plain(t))) = Plain(t)
<1> DEFINE x == Plain(t)
           w == FbValue(x)
<1>1. CASE t.tag \in DOMAIN Scalars
  <2>1. t.tag \in {"NumberValue", "Int64Value", "TimestampValue", "StringValue", "BoolValue"}
    BY <1>1 DEF Scalars
  <2>2. x = [js |-> Scalars[t.tag], v |-> t.v]
    BY <1>1, <2>1 DEF Plain, Lists
  <2>3. /\ w.tag \in {"NumberValue", "StringValue", "BoolValue"}
        /\ Scalars[w.tag] = Scalars[t.tag] /\ w.v = t.v
    BY <2>1, <2>2 DEF FbValue, Scalars
  <2> HIDE DEF w
  <2>4. Plain(w) = [js |-> Scalars[w.tag], v |-> w.v]
    BY <2>3 DEF Plain, Scalars, Lists
  <2>. QED BY <2>2, <2>3, <2>4 DEF ReadValue, w
<1>2. CASE t.tag \in DOMAIN Lists
  <2>1. t.tag \in {"StringList", "Int64List", "Float64List", "BoolList"}
    BY <1>2 DEF Lists
  <2>2. x = [js |-> "array", of |-> IF t.v = <<>> THEN "nothing" ELSE Lists[t.tag], v |-> t.v]
    BY <1>2, <2>1 DEF Plain, Scalars
  <2>3. /\ w.tag \in {"StringList", "Float64List", "BoolList"}
        /\ t.v # <<>> => Lists[w.tag] = Lists[t.tag]
        /\ w.v = t.v
    BY <2>1, <2>2 DEF FbValue, Lists
  <2> HIDE DEF w
  <2>4. Plain(w) = [js |-> "array", of |-> IF w.v = <<>> THEN "nothing" ELSE Lists[w.tag], v |-> w.v]
    BY <2>3 DEF Plain, Scalars, Lists
  <2>. QED BY <2>2, <2>3, <2>4 DEF ReadValue, w
<1>3. CASE t.tag \notin DOMAIN Scalars /\ t.tag \notin DOMAIN Lists
  <2>1. x = [js |-> "null", v |-> Null]
    BY <1>3 DEF Plain
  <2>2. w.tag = "NullValue"
    BY <2>1 DEF FbValue
  <2> HIDE DEF w
  <2>3. Plain(w) = [js |-> "null", v |-> Null]
    BY <2>2 DEF Plain, Scalars, Lists
  <2>. QED BY <2>1, <2>3 DEF ReadValue, w
<1>. QED BY <1>1, <1>2, <1>3

\* The ops of the codec survive the ops of FlatBuffers.
LEMMA OpBack == ASSUME NEW op \in CodecOps PROVE ReadOp(FbOp(op)) = op
  BY DEF CodecOps, SharedOps, FbOp, ReadOp

\* A leaf that the codec can encode is read as it was.
LEMMA LeafBack ==
  ASSUME NEW l, DOMAIN l = {"field", "op", "value"}, l.op \in CodecOps
  PROVE  ReadLeaf(WireLeaf(CodecLeaf(l))) = CodecLeaf(l)
<1>1. /\ DOMAIN CodecLeaf(l) = DOMAIN l /\ CodecLeaf(l).value = Plain(l.value)
      /\ CodecLeaf(l).field = l.field /\ CodecLeaf(l).op = l.op
      /\ CodecLeaf(l) = [x \in DOMAIN l |-> CodecLeaf(l)[x]]
  BY DEF CodecLeaf
<1> DEFINE m == CodecLeaf(l)
           w == ReadLeaf(WireLeaf(m))
<1>2. /\ DOMAIN w = DOMAIN m /\ w.value = ReadValue(FbValue(m.value))
      /\ w.op = ReadOp(FbOp(m.op)) /\ w.field = m.field
      /\ w = [x \in DOMAIN m |-> w[x]]
  <2> HIDE DEF m
  <2>1. DOMAIN m = {"field", "op", "value"}
    BY <1>1 DEF m
  <2>2. /\ DOMAIN WireLeaf(m) = DOMAIN m /\ WireLeaf(m).value = FbValue(m.value)
        /\ WireLeaf(m).op = FbOp(m.op) /\ WireLeaf(m).field = m.field
    BY <2>1 DEF WireLeaf
  <2>. QED BY <2>1, <2>2 DEF ReadLeaf
<1> HIDE DEF w, m
<1>3. w.value = m.value /\ w.op = m.op
  BY <1>1, <1>2, ReadBack, OpBack DEF m
<1>4. \A x \in DOMAIN m : w[x] = m[x]
  BY <1>1, <1>2, <1>3 DEF m
<1>5. m = [x \in DOMAIN m |-> m[x]] /\ w = [x \in DOMAIN m |-> m[x]]
  BY <1>1, <1>2, <1>4 DEF m
<1>. QED BY <1>5 DEF m, w

\* The tree that readFilterWrapper of the worker reads is the one that the gateway's wrapperToCodec
\* made of the JSON, whenever the codec can encode it: two tags of a number, or an empty list, may
\* become another, and the plain values stay (sql-rpc.ts 525-587, helpers/filters.ts 20-70 and
\* helpers/values.ts 4-91 of sql-codec, worker.ts 224-416).
THEOREM TreeBack ==
  ASSUME NEW t, IsTree(t), Encodable(ToCodec(t))
  PROVE  FromWire(ToWire(ToCodec(t))) = ToCodec(t)
<1> DEFINE c == ToCodec(t)
           w == ToWire(c)
           b == FromWire(w)
<1>1. c = [i \in DOMAIN t |-> IF IsWrapper(t[i]) THEN t[i] ELSE CodecLeaf(t[i])]
  BY DEF ToCodec, MapLeaves
<1>2. w = [i \in DOMAIN c |-> IF IsWrapper(c[i]) THEN c[i] ELSE WireLeaf(c[i])]
  BY DEF ToWire, MapLeaves
<1>3. b = [i \in DOMAIN w |-> IF IsWrapper(w[i]) THEN w[i] ELSE ReadLeaf(w[i])]
  BY DEF FromWire, MapLeaves
<1>4. ASSUME NEW i \in DOMAIN t
      PROVE  b[i] = c[i]
  <2> HIDE DEF c, w, b
  <2>1. CASE IsWrapper(t[i])
    BY <1>1, <1>2, <1>3, <2>1
  <2>2. CASE ~IsWrapper(t[i])
    <3>1. DOMAIN t[i] = {"field", "op", "value"}
      BY <2>2 DEF IsTree, IsWrapper
    <3>2. c[i] = CodecLeaf(t[i]) /\ ~IsWrapper(c[i])
      BY <1>1, <2>2, <3>1 DEF CodecLeaf, IsWrapper
    <3>3. w[i] = WireLeaf(c[i]) /\ ~IsWrapper(w[i])
      BY <1>1, <1>2, <3>1, <3>2 DEF CodecLeaf, WireLeaf, IsWrapper
    <3>4. b[i] = ReadLeaf(w[i])
      BY <1>1, <1>2, <1>3, <3>3
    <3>5. t[i].op \in CodecOps
      <4>1. c[i] \in LeavesOf(c)
        BY <1>1, <3>2 DEF LeavesOf
      <4>2. c[i].op = t[i].op
        BY <3>1, <3>2 DEF CodecLeaf
      <4>. QED BY <4>1, <4>2 DEF Encodable, c
    <3>. QED BY <3>1, <3>2, <3>3, <3>4, <3>5, LeafBack
  <2>. QED BY <2>1, <2>2
<1> HIDE DEF c, w, b
<1>5. DOMAIN b = DOMAIN t /\ DOMAIN c = DOMAIN t
  BY <1>1, <1>2, <1>3
<1>6. b = [i \in DOMAIN t |-> b[i]] /\ c = [i \in DOMAIN t |-> c[i]]
  BY <1>1, <1>2, <1>3, <1>5
<1>7. b = c
  BY <1>4, <1>6
<1>. QED BY <1>7 DEF b, c, w

-----------------------------------------------------------------------------
(* Conditions, joined left to right                                         *)

\* Plain values keep the wrappers and the names of a tree.
LEMMA CodecNodes ==
  ASSUME NEW t, IsTree(t)
  PROVE  /\ DOMAIN ToCodec(t) = DOMAIN t
         /\ \A i \in DOMAIN t : /\ IsWrapper(ToCodec(t)[i]) = IsWrapper(t[i])
                                /\ ToCodec(t)[i] = IF IsWrapper(t[i]) THEN t[i] ELSE CodecLeaf(t[i])
  BY DEF ToCodec, MapLeaves, IsTree, IsWrapper, CodecLeaf

\* Least elements: the natural numbers are well ordered.
LEMMA Least ==
  ASSUME NEW S, S \subseteq Nat, S # {}
  PROVE  \E m \in S : \A k \in S : m <= k
<1>1. IsWellFoundedOn(OpToRel(<, Nat), Nat)
  BY NatLessThanWellFounded
<1>2. PICK m \in S : \A k \in S : ~(<<k, m>> \in OpToRel(<, Nat))
  BY <1>1, WFMin
<1>3. ASSUME NEW k \in S PROVE m <= k
  <2>1. k \in Nat /\ m \in Nat
    BY <1>2
  <2>2. <<k, m>> \in Nat \X Nat /\ <<k, m>>[1] = k /\ <<k, m>>[2] = m
    BY <2>1
  <2>3. ~(k < m)
    BY <1>2, <2>2, Zenon DEF OpToRel
  <2>. QED BY <2>1, <2>3
<1>. QED BY <1>2, <1>3

\* Plain values make no group empty; both functions have the same definition.
LEMMA EmptyKept == ASSUME NEW t, IsTree(t) PROVE Empty(ToCodec(t)) = Empty(t)
<1> DEFINE c == ToCodec(t)
           E(f) == [i \in DOMAIN t |-> IsWrapper(t[i]) /\ \A k \in DOMAIN t[i].filters : f[t[i].filters[k]]]
           F(f) == [i \in DOMAIN c |-> IsWrapper(c[i]) /\ \A k \in DOMAIN c[i].filters : f[c[i].filters[k]]]
<1>1. ASSUME NEW f PROVE E(f) = F(f)
  <2>1. \A i \in DOMAIN t : IsWrapper(t[i]) => c[i] = t[i]
    BY CodecNodes
  <2>2. DOMAIN c = DOMAIN t /\ \A i \in DOMAIN t : IsWrapper(c[i]) = IsWrapper(t[i])
    BY CodecNodes
  <2> HIDE DEF c
  <2>3. \A i \in DOMAIN t : (IsWrapper(t[i]) /\ \A k \in DOMAIN t[i].filters : f[t[i].filters[k]])
                            = (IsWrapper(c[i]) /\ \A k \in DOMAIN c[i].filters : f[c[i].filters[k]])
    BY <2>1, <2>2
  <2>. QED BY <2>2, <2>3
<1> HIDE DEF E, F
<1>2. (CHOOSE f : f = E(f)) = (CHOOSE f : f = F(f))
  BY <1>1, Zenon
<1>3. Empty(t) = CHOOSE f : f = E(f)
  BY DEF Empty, E
<1>4. Empty(c) = CHOOSE f : f = F(f)
  BY DEF Empty, F
<1>. QED BY <1>2, <1>3, <1>4

\* The places of the conditions stay.
LEMMA CondsKept ==
  ASSUME NEW t, IsTree(t), NEW i \in DOMAIN t, IsWrapper(t[i])
  PROVE  /\ Conds(ToCodec(t), i) = Conds(t, i)
         /\ Conds(t, i) \subseteq Nat /\ \A k \in Conds(t, i) : t[i].filters[k] \in DOMAIN t
<1>1. ToCodec(t)[i] = t[i]
  BY CodecNodes
<1>2. t[i].filters \in Seq(DOMAIN t)
  BY DEF IsTree, IsWrapper
<1>. QED BY <1>1, <1>2, EmptyKept DEF Conds

\* Joining left to right: K are the conditions, G says which are OR groups.
Begins(K, G, k) == G[k] \/ \A j \in K : k <= j
RunFrom(K, G, k) == {j \in K : k <= j /\ \A m \in K : k < m /\ m <= j => ~Begins(K, G, m)}
Joined(K, G, h) == K = {} \/ \E k \in K : Begins(K, G, k) /\ \A j \in RunFrom(K, G, k) : h[j]

\* Joining the conditions of a supported group is OR, or AND, of them.
LEMMA RunsJoin ==
  ASSUME NEW K, K \subseteq Nat, NEW or \in BOOLEAN, NEW G, NEW h,
         \A k \in K : (\E j \in K : j < k) => (or <=> G[k])
  PROVE  /\ or => (Joined(K, G, h) <=> K = {} \/ \E k \in K : h[k])
         /\ ~or => (Joined(K, G, h) <=> \A k \in K : h[k])
<1>1. ASSUME or PROVE Joined(K, G, h) <=> K = {} \/ \E k \in K : h[k]
  <2>1. \A k \in K : Begins(K, G, k)
    BY <1>1 DEF Begins
  <2>2. ASSUME NEW k \in K PROVE RunFrom(K, G, k) = {k}
    <3>1. ASSUME NEW j \in K, j \in RunFrom(K, G, k) PROVE j = k
      <4>1. k \in Nat /\ j \in Nat /\ k <= j /\ ~(k < j /\ j <= j)
        BY <2>1, <3>1 DEF RunFrom
      <4>. QED BY <4>1
    <3>2. k \in RunFrom(K, G, k)
      BY DEF RunFrom
    <3>3. RunFrom(K, G, k) \subseteq K
      BY DEF RunFrom
    <3>. QED BY <3>1, <3>2, <3>3
  <2>. QED BY <2>1, <2>2 DEF Joined
<1>2. ASSUME ~or, K # {} PROVE Joined(K, G, h) <=> \A k \in K : h[k]
  <2>1. PICK m \in K : \A k \in K : m <= k
    BY <1>2, Least
  <2>2. \A k \in K : Begins(K, G, k) <=> k = m
    BY <1>2, <2>1 DEF Begins
  <2>3. ASSUME NEW j \in K PROVE j \in RunFrom(K, G, m)
    <3>1. \A n \in K : m < n /\ n <= j => ~Begins(K, G, n)
      BY <2>1, <2>2
    <3>. QED BY <2>1, <3>1 DEF RunFrom
  <2>4. RunFrom(K, G, m) = K
    BY <2>3 DEF RunFrom
  <2>. QED BY <1>2, <2>1, <2>2, <2>4 DEF Joined
<1>3. K = {} => Joined(K, G, h)
  BY DEF Joined
<1>. QED BY <1>1, <1>2, <1>3

\* Where its OR groups are supported, the WHERE that processFilters joins left to right is true of the
\* rows that the client's tree, read as AND and OR of its parts, is true of (filter_processor.ts 24-130).
THEOREM WhereIsMeant ==
  ASSUME NEW t, IsTree(t), Supported(t), NEW row
  PROVE  Where(ToCodec(t), row) = Meant(t, row)
<1> DEFINE c == ToCodec(t)
           child(k, i) == t[i].filters[k]
           W(f) == [i \in DOMAIN c |->
             IF ~IsWrapper(c[i]) THEN LeafHolds(c[i], row)
             ELSE LET conds == Conds(c, i)
                      chil(k) == c[i].filters[k]
                      Starts(k) == IsOr(c[chil(k)]) \/ \A j \in conds : k <= j
                      Run(k) == {j \in conds : k <= j /\ \A m \in conds : k < m /\ m <= j => ~Starts(m)}
                  IN  conds = {} \/ \E k \in conds : Starts(k) /\ \A j \in Run(k) : f[chil(j)]]
           M(f) == [i \in DOMAIN t |->
             IF ~IsWrapper(t[i]) THEN LeafHolds(CodecLeaf(t[i]), row)
             ELSE LET conds == Conds(t, i)
                  IN  IF t[i].type = "or"
                      THEN conds = {} \/ \E k \in conds : f[t[i].filters[k]]
                      ELSE \A k \in conds : f[t[i].filters[k]]]
<1>1. DOMAIN c = DOMAIN t /\ Root \in DOMAIN t
  BY CodecNodes DEF IsTree
<1>2. ASSUME NEW f, NEW i \in DOMAIN t PROVE W(f)[i] = M(f)[i]
  <2>1. CASE ~IsWrapper(t[i])
    BY <1>1, <2>1, CodecNodes
  <2>2. CASE IsWrapper(t[i])
    <3> DEFINE K == Conds(t, i)
               or == t[i].type = "or"
               G == [k \in K |-> IsOr(t[t[i].filters[k]])]
               h == [k \in K |-> f[t[i].filters[k]]]
               Start(k) == IsOr(c[c[i].filters[k]]) \/ \A j \in K : k <= j
               Run(k) == {j \in K : k <= j /\ \A m \in K : k < m /\ m <= j => ~Start(m)}
    <3>1. /\ K \subseteq Nat /\ Conds(c, i) = K /\ c[i] = t[i] /\ IsWrapper(c[i])
          /\ \A k \in K : t[i].filters[k] \in DOMAIN t
      BY <2>2, CondsKept, CodecNodes
    <3>2. \A k \in K : IsOr(c[c[i].filters[k]]) = G[k]
      BY <3>1, CodecNodes DEF IsOr
    <3>3. \A k \in K : (\E j \in K : j < k) => (or <=> G[k])
      BY <2>2 DEF Supported
    <3>4. W(f)[i] = (K = {} \/ \E k \in K : Start(k) /\ \A j \in Run(k) : f[c[i].filters[j]])
      <4> HIDE DEF K
      <4>. QED BY <1>1, <3>1, Zenon DEF K
    <3>5. /\ or => M(f)[i] = (K = {} \/ \E k \in K : f[t[i].filters[k]])
          /\ ~or => M(f)[i] = \A k \in K : f[t[i].filters[k]]
      BY <2>2
    <3>6. \A k \in K : Start(k) = Begins(K, G, k)
      BY <3>2 DEF Begins
    <3>7. \A k \in K : Run(k) = RunFrom(K, G, k)
      <4> HIDE DEF Start, K, G
      <4>. QED BY <3>6 DEF RunFrom
    <3>8. \A k \in K : Run(k) \subseteq K
      OBVIOUS
    <3>9. \A k \in K : f[c[i].filters[k]] = h[k] /\ f[t[i].filters[k]] = h[k]
      BY <3>1
    <3>10. or \in BOOLEAN
      OBVIOUS
    <3> HIDE DEF W, M, K, G, h, or, Start, Run
    <3>11. W(f)[i] = Joined(K, G, h) /\ Joined(K, G, h) \in BOOLEAN
      <4>1. (\E k \in K : Start(k) /\ \A j \in Run(k) : f[c[i].filters[j]])
              <=> \E k \in K : Begins(K, G, k) /\ \A j \in RunFrom(K, G, k) : h[j]
        BY <3>6, <3>7, <3>8, <3>9
      <4>. QED BY <3>4, <4>1 DEF Joined
    <3>12. CASE or
      <4>1. Joined(K, G, h) <=> K = {} \/ \E k \in K : h[k]
        BY <3>1, <3>3, <3>10, <3>12, RunsJoin
      <4>2. M(f)[i] = (K = {} \/ \E k \in K : h[k])
        BY <3>5, <3>9, <3>12
      <4>. QED BY <3>11, <4>1, <4>2
    <3>13. CASE ~or
      <4>1. Joined(K, G, h) <=> \A k \in K : h[k]
        BY <3>1, <3>3, <3>10, <3>13, RunsJoin
      <4>2. M(f)[i] = \A k \in K : h[k]
        BY <3>5, <3>9, <3>13
      <4>. QED BY <3>11, <4>1, <4>2
    <3>. QED BY <3>12, <3>13
  <2>. QED BY <2>1, <2>2
<1>3. ASSUME NEW f PROVE W(f) = M(f)
  <2>1. DOMAIN W(f) = DOMAIN t /\ DOMAIN M(f) = DOMAIN t
        /\ W(f) = [i \in DOMAIN t |-> W(f)[i]] /\ M(f) = [i \in DOMAIN t |-> M(f)[i]]
    BY <1>1
  <2> HIDE DEF W, M
  <2>. QED BY <1>2, <2>1
<1> HIDE DEF W, M
<1>4. (CHOOSE f : f = W(f)) = (CHOOSE f : f = M(f))
  BY <1>3, Zenon
<1>5. Where(c, row) = (CHOOSE f : f = W(f))[Root]
  BY DEF Where, W
<1>6. Meant(t, row) = (CHOOSE f : f = M(f))[Root]
  BY DEF Meant, M
<1>. QED BY <1>4, <1>5, <1>6

-----------------------------------------------------------------------------
(* The order of rows                                                        *)

Values == Int \cup {Null}

\* The columns an order sorts by have values in r.
Keyed(order, r) == \A i \in DOMAIN order : r[order[i].field] \in Values

\* Under each key the values, NULL included, are totally ordered.
LEMMA PrecedesOrder ==
  ASSUME NEW k, NEW x \in Values, NEW y \in Values, NEW z \in Values
  PROVE  /\ ~Precedes(k, x, x)
         /\ Precedes(k, x, y) => ~Precedes(k, y, x)
         /\ Precedes(k, x, z) => Precedes(k, x, y) \/ Precedes(k, y, z)
         /\ x # y => Precedes(k, x, y) \/ Precedes(k, y, x)
<1> DEFINE down == Descending(k.sort)
           first == NullsFirst(k.sort)
<1>1. down \in BOOLEAN /\ first \in BOOLEAN
  BY DEF Descending, NullsFirst
<1> HIDE DEF down, first
<1>2. Null \notin Int
  BY ValuesAssumption
<1>3. \A a, b : Precedes(k, a, b) <=> IF a = Null \/ b = Null
                                     THEN a # b /\ (a = Null) = first
                                     ELSE IF down THEN b < a ELSE a < b
  BY DEF Precedes, down, first
<1>4. CASE Null \notin {x, y, z}
  <2>1. x \in Int /\ y \in Int /\ z \in Int
    BY <1>4 DEF Values
  <2>. QED BY <1>1, <1>3, <1>4, <2>1
<1>5. CASE Null \in {x, y, z}
  BY <1>1, <1>2, <1>3, <1>5 DEF Values
<1>. QED BY <1>4, <1>5

LEMMA OrderKeys ==
  ASSUME NEW order, IsOrder(order)
  PROVE  /\ DOMAIN order \subseteq Nat /\ DOMAIN order = 1..Len(order) /\ Len(order) \in Nat
         /\ \A i \in DOMAIN order : order[i].field \in Columns
<1> DEFINE Keys == [field : Columns, sort : STRING \cup Sorts]
<1>1. order \in Seq(Keys)
  BY DEF IsOrder
<1>2. \A k \in Keys : k.field \in Columns
  OBVIOUS
<1> HIDE DEF Keys
<1>3. /\ DOMAIN order = 1..Len(order) /\ Len(order) \in Nat
      /\ \A i \in DOMAIN order : order[i] \in Keys
  BY <1>1
<1>. QED BY <1>2, <1>3

LEMMA SomeKey == ASSUME NEW order, IsOrder(order) PROVE order # <<>> <=> DOMAIN order # {}
<1> DEFINE Keys == [field : Columns, sort : STRING \cup Sorts]
<1>1. order \in Seq(Keys)
  BY DEF IsOrder
<1> HIDE DEF Keys
<1>2. CASE order = <<>>
  BY <1>2
<1>3. CASE order # <<>>
  <2>1. Len(order) \in Nat \ {0} /\ DOMAIN order = 1..Len(order)
    BY <1>1, <1>3, EmptySeq, LenProperties
  <2>2. 1 \in DOMAIN order
    BY <2>1
  <2>. QED BY <1>3, <2>2
<1>. QED BY <1>2, <1>3

\* The first of the keys in which two rows differ.
LEMMA FirstDiffering ==
  ASSUME NEW order, IsOrder(order), NEW D, D \subseteq DOMAIN order, D # {}
  PROVE  \E m \in D : \A j \in 1..(m - 1) : j \in DOMAIN order /\ j \notin D
<1>1. PICK m \in D : \A k \in D : m <= k
  BY OrderKeys, Least
<1>2. ASSUME NEW j \in 1..(m - 1) PROVE j \in DOMAIN order /\ j \notin D
  BY <1>1, OrderKeys
<1>. QED BY <1>2

\* Before is a strict order,
LEMMA BeforeAsym ==
  ASSUME NEW order, IsOrder(order), NEW r, NEW q, Keyed(order, r), Keyed(order, q),
         Before(order, r, q)
  PROVE  ~Before(order, q, r)
<1> SUFFICES ASSUME Before(order, q, r) PROVE FALSE
  OBVIOUS
<1> DEFINE R(i) == r[order[i].field]
           Q(i) == q[order[i].field]
<1>1. PICK i \in DOMAIN order : Precedes(order[i], R(i), Q(i)) /\ \A j \in 1..(i - 1) : R(j) = Q(j)
  BY DEF Before
<1>2. PICK k \in DOMAIN order : Precedes(order[k], Q(k), R(k)) /\ \A j \in 1..(k - 1) : Q(j) = R(j)
  BY DEF Before
<1>3. \A j \in DOMAIN order : R(j) \in Values /\ Q(j) \in Values
  BY DEF Keyed
<1> HIDE DEF R, Q
<1>4. i \in Nat /\ k \in Nat /\ i >= 1 /\ k >= 1
  BY OrderKeys
<1>5. R(i) # Q(i) /\ R(k) # Q(k)
  BY <1>1, <1>2, <1>3, PrecedesOrder
<1>6. i = k
  BY <1>1, <1>2, <1>4, <1>5
<1>. QED BY <1>1, <1>2, <1>3, <1>6, PrecedesOrder

\* ... in which each row is on one side of any other,
LEMMA BeforeSplits ==
  ASSUME NEW order, IsOrder(order), NEW r, NEW q, NEW z,
         Keyed(order, r), Keyed(order, q), Keyed(order, z), Before(order, r, z)
  PROVE  Before(order, r, q) \/ Before(order, q, z)
<1> DEFINE R(i) == r[order[i].field]
           Q(i) == q[order[i].field]
           Z(i) == z[order[i].field]
           D == {i \in DOMAIN order : R(i) # Q(i) \/ Q(i) # Z(i)}
<1>1. PICK i \in DOMAIN order : Precedes(order[i], R(i), Z(i)) /\ \A j \in 1..(i - 1) : R(j) = Z(j)
  BY DEF Before
<1>2. \A j \in DOMAIN order : R(j) \in Values /\ Q(j) \in Values /\ Z(j) \in Values
  BY DEF Keyed
<1>3. /\ Before(order, r, q) <=>
           \E m \in DOMAIN order : /\ Precedes(order[m], R(m), Q(m))
                                   /\ \A j \in 1..(m - 1) : R(j) = Q(j)
      /\ Before(order, q, z) <=>
           \E m \in DOMAIN order : /\ Precedes(order[m], Q(m), Z(m))
                                   /\ \A j \in 1..(m - 1) : Q(j) = Z(j)
  BY DEF Before
<1> HIDE DEF R, Q, Z
<1>4. i \in D
  BY <1>1, <1>2, PrecedesOrder
<1>5. PICK m \in D : \A j \in 1..(m - 1) : j \in DOMAIN order /\ j \notin D
  BY <1>4, FirstDiffering
<1>6. \A j \in 1..(m - 1) : R(j) = Q(j) /\ Q(j) = Z(j)
  BY <1>5
<1>7. m \in Nat /\ i \in Nat /\ i >= 1 /\ m >= 1 /\ m \in DOMAIN order
  BY OrderKeys
<1>8. CASE m = i
  BY <1>1, <1>2, <1>3, <1>6, <1>8, PrecedesOrder
<1>9. CASE m < i
  <2>1. R(m) = Z(m) /\ R(m) # Q(m)
    <3>1. m \in 1..(i - 1)
      BY <1>7, <1>9
    <3>. QED BY <1>1, <1>5, <3>1
  <2>2. Precedes(order[m], R(m), Q(m)) \/ Precedes(order[m], Q(m), R(m))
    BY <1>2, <1>7, <2>1, PrecedesOrder
  <2>. QED BY <1>3, <1>6, <1>7, <2>1, <2>2
<1>10. CASE i < m
  <2>1. i \in 1..(m - 1)
    BY <1>7, <1>10
  <2>2. R(i) = Z(i)
    BY <1>6, <2>1
  <2>. QED BY <1>1, <1>2, <2>2, PrecedesOrder
<1>. QED BY <1>7, <1>8, <1>9, <1>10

\* ... and total on rows with different ids, if the id is a key.
LEMMA BeforeTotal ==
  ASSUME NEW order, IsOrder(order), Total(order), NEW r, NEW q,
         Keyed(order, r), Keyed(order, q), r.id # q.id
  PROVE  Before(order, r, q) \/ Before(order, q, r)
<1> DEFINE R(i) == r[order[i].field]
           Q(i) == q[order[i].field]
           D == {i \in DOMAIN order : R(i) # Q(i)}
<1>1. PICK i \in DOMAIN order : order[i].field = "id"
  BY DEF Total
<1>2. \A j \in DOMAIN order : R(j) \in Values /\ Q(j) \in Values
  BY DEF Keyed
<1>3. /\ Before(order, r, q) <=>
           \E m \in DOMAIN order : /\ Precedes(order[m], R(m), Q(m))
                                   /\ \A j \in 1..(m - 1) : R(j) = Q(j)
      /\ Before(order, q, r) <=>
           \E m \in DOMAIN order : /\ Precedes(order[m], Q(m), R(m))
                                   /\ \A j \in 1..(m - 1) : Q(j) = R(j)
  BY DEF Before
<1>4. i \in D
  BY <1>1
<1> HIDE DEF R, Q
<1>5. PICK m \in D : \A j \in 1..(m - 1) : j \in DOMAIN order /\ j \notin D
  BY <1>4, FirstDiffering
<1>6. \A j \in 1..(m - 1) : R(j) = Q(j)
  BY <1>5
<1>7. Precedes(order[m], R(m), Q(m)) \/ Precedes(order[m], Q(m), R(m))
  BY <1>2, PrecedesOrder
<1>. QED BY <1>3, <1>6, <1>7

-----------------------------------------------------------------------------
(* The cursor                                                               *)

Fields(order) == {order[i].field : i \in DOMAIN order}
ValuesOf(c) == [f \in DOMAIN c |-> c[f].v]

\* The LSN and, unless pages start over, the text of a value for each field of the order.
IsCursor(order, c) ==
  /\ c = [f \in DOMAIN c |-> c[f]] /\ DOMAIN c \subseteq Fields(order) \cup {"lsn"}
  /\ GoesOn(order, c) => Fields(order) \subseteq DOMAIN c
  /\ \A f \in DOMAIN c : c[f] = [tag |-> "StringValue", v |-> c[f].v] /\ c[f].v \in Int \cup {Null}

\* The order that Postgres is asked for.
Asked(order) == MapSorts(order, CodecSort)

\* It has the same fields, and the same sorts if they are known.
LEMMA AskedKeys ==
  ASSUME NEW order, IsOrder(order)
  PROVE  /\ IsOrder(Asked(order)) /\ DOMAIN Asked(order) = DOMAIN order
         /\ \A i \in DOMAIN order : Asked(order)[i].field = order[i].field
         /\ Fields(Asked(order)) = Fields(order)
         /\ \A c : GoesOn(Asked(order), c) <=> GoesOn(order, c)
         /\ Total(order) <=> Total(Asked(order))
         /\ KnownSorts(order) => Asked(order) = order
<1> DEFINE Keys == [field : Columns, sort : STRING \cup Sorts]
           a == Asked(order)
<1>1. /\ order \in Seq(Keys) /\ DOMAIN order = 1..Len(order) /\ Len(order) \in Nat
      /\ \A i \in DOMAIN order : order[i] \in Keys
  <2>1. order \in Seq(Keys)
    BY DEF IsOrder
  <2> HIDE DEF Keys
  <2>. QED BY <2>1
<1>2. a = [i \in DOMAIN order |-> [order[i] EXCEPT !.sort = CodecSort(order[i].sort)]]
  BY DEF Asked, MapSorts
<1>3. ASSUME NEW i \in DOMAIN order
      PROVE  /\ a[i] \in Keys /\ a[i].field = order[i].field
             /\ order[i].sort \in Sorts => a[i] = order[i]
  <2>1. PICK k \in Keys : order[i] = k
    BY <1>1
  <2>2. a[i] = [k EXCEPT !.sort = CodecSort(k.sort)]
    BY <1>2, <2>1
  <2>3. k = [field |-> k.field, sort |-> k.sort] /\ k.field \in Columns
    OBVIOUS
  <2>4. CodecSort(k.sort) \in Sorts /\ (k.sort \in Sorts => CodecSort(k.sort) = k.sort)
    <3> DEFINE s == k.sort
    <3> HIDE DEF s
    <3>1. CodecSort(s) \in Sorts
      BY DEF CodecSort, Sorts
    <3>2. s \in Sorts => CodecSort(s) = s
      BY DEF CodecSort
    <3>. QED BY <3>1, <3>2 DEF s
  <2>5. a[i] = [field |-> k.field, sort |-> CodecSort(k.sort)]
    BY <2>2, <2>3
  <2>. QED BY <2>1, <2>3, <2>4, <2>5
<1>4. DOMAIN a = DOMAIN order /\ a = [i \in DOMAIN order |-> a[i]]
  BY <1>2
<1> HIDE DEF a
<1>5. IsOrder(a)
  <2>1. a \in [1..Len(order) -> Keys]
    BY <1>1, <1>3, <1>4
  <2>. QED BY <1>1, <2>1 DEF IsOrder
<1>6. Fields(a) = Fields(order) /\ \A c : GoesOn(a, c) <=> GoesOn(order, c)
  BY <1>3, <1>4 DEF Fields, GoesOn
<1>7. Total(order) <=> Total(a)
  BY <1>3, <1>4 DEF Total
<1>8. KnownSorts(order) => a = order
  <2> SUFFICES ASSUME KnownSorts(order) PROVE a = order
    OBVIOUS
  <2>1. \A i \in DOMAIN order : a[i] = order[i]
    BY <1>3 DEF KnownSorts
  <2>2. order = [i \in DOMAIN order |-> order[i]]
    BY <1>1
  <2>. QED BY <1>4, <2>1, <2>2
<1>. QED BY <1>3, <1>4, <1>5, <1>6, <1>7, <1>8 DEF a

\* Rows that applyKeysetCursor lets through come after the cursor's row,
LEMMA AfterIsBefore ==
  ASSUME NEW order, IsOrder(order), order # <<>>, NEW cursor, Fields(order) \subseteq DOMAIN cursor, NEW r,
         AfterCursor(order, cursor, TRUE, r)
  PROVE  Before(order, ValuesOf(cursor), r)
<1> DEFINE keys == {i \in DOMAIN order : order[i].field \in DOMAIN cursor}
           x(i) == r[order[i].field]
           c(i) == cursor[order[i].field].v
           v == ValuesOf(cursor)
<1>1. keys = DOMAIN order /\ keys # {}
  <2>1. keys = DOMAIN order
    BY DEF Fields
  <2>2. Len(order) # 0
    BY EmptySeq DEF IsOrder
  <2>. QED BY <2>1, <2>2, OrderKeys
<1>2. \A i \in DOMAIN order : v[order[i].field] = c(i)
  BY DEF ValuesOf, Fields
<1>3. PICK i \in keys : /\ \A j \in keys : j < i => x(j) # Null /\ x(j) = c(j)
                        /\ x(i) # Null /\ c(i) # Null /\ Compares(order[i], x(i), c(i), TRUE)
  BY <1>1 DEF AfterCursor
<1>4. Before(order, v, r) <=>
        \E m \in DOMAIN order : /\ Precedes(order[m], v[order[m].field], x(m))
                                /\ \A j \in 1..(m - 1) : v[order[j].field] = x(j)
  BY DEF Before
<1> HIDE DEF x, c, v, keys
<1>5. Precedes(order[i], c(i), x(i))
  BY <1>3 DEF Compares, Precedes
<1>6. \A j \in 1..(i - 1) : j \in keys /\ j < i
  BY <1>1, <1>3, OrderKeys
<1>. QED BY <1>1, <1>2, <1>3, <1>4, <1>5, <1>6 DEF v

\* ... and all rows that do, if no key is NULL.
LEMMA BeforeIsAfter ==
  ASSUME NEW order, IsOrder(order), NEW cursor, Fields(order) \subseteq DOMAIN cursor, NEW r,
         \A f \in Fields(order) : cursor[f].v # Null /\ r[f] # Null,
         Before(order, ValuesOf(cursor), r)
  PROVE  AfterCursor(order, cursor, TRUE, r)
<1> DEFINE keys == {i \in DOMAIN order : order[i].field \in DOMAIN cursor}
           x(i) == r[order[i].field]
           c(i) == cursor[order[i].field].v
           v == ValuesOf(cursor)
<1>1. keys = DOMAIN order
  BY DEF Fields
<1>2. \A i \in DOMAIN order : v[order[i].field] = c(i) /\ c(i) # Null /\ x(i) # Null
  BY DEF ValuesOf, Fields
<1>3. PICK i \in DOMAIN order : /\ Precedes(order[i], v[order[i].field], x(i))
                                /\ \A j \in 1..(i - 1) : v[order[j].field] = x(j)
  BY DEF Before
<1>4. AfterCursor(order, cursor, TRUE, r) <=>
        (keys = {} \/ \E m \in keys : /\ \A j \in keys : j < m => x(j) # Null /\ x(j) = c(j)
                                      /\ x(m) # Null /\ c(m) # Null /\ Compares(order[m], x(m), c(m), TRUE))
  BY DEF AfterCursor
<1> HIDE DEF x, c, v, keys
<1>5. Compares(order[i], x(i), c(i), TRUE)
  BY <1>2, <1>3 DEF Compares, Precedes
<1>6. \A j \in keys : j < i => j \in 1..(i - 1)
  BY <1>1, OrderKeys
<1>. QED BY <1>1, <1>2, <1>3, <1>4, <1>5, <1>6

\* Without a key of the order every row is let through.
LEMMA NoKeyAll ==
  ASSUME NEW order, NEW cursor, ~GoesOn(order, cursor), NEW strict, NEW r
  PROVE  AfterCursor(order, cursor, strict, r)
  BY DEF AfterCursor, GoesOn

-----------------------------------------------------------------------------
(* Rows and requests                                                        *)

\* A listing of a finite set has each element at one place.
LEMMA ListsAll ==
  ASSUME NEW H, IsFiniteSet(H), NEW s \in SetToSeqs(H)
  PROVE  /\ Cardinality(H) \in Nat /\ s \in [1..Cardinality(H) -> H]
         /\ s \in Seq(H) /\ Len(s) = Cardinality(H)
         /\ \A i, j \in 1..Cardinality(H) : s[i] = s[j] => i = j
         /\ \A x \in H : \E i \in 1..Cardinality(H) : s[i] = x
<1> DEFINE n == Cardinality(H)
<1>1. n \in Nat
  BY FS_CardinalityType
<1>2. s \in [1..n -> H] /\ \A i, j \in 1..n : i # j => s[i] # s[j]
  BY DEF SetToSeqs
<1>3. IsFiniteSet(1..n) /\ Cardinality(1..n) = n
  BY <1>1, FS_Interval
<1>4. s \in Injection(1..n, H)
  BY <1>2 DEF Injection, IsInjective
<1>5. s \in Surjection(1..n, H)
  BY <1>3, <1>4, FS_Injection
<1>6. \A x \in H : \E i \in 1..n : s[i] = x
  BY <1>5 DEF Surjection
<1>7. s \in Seq(H) /\ Len(s) = n
  BY <1>1, <1>2
<1>. QED BY <1>1, <1>2, <1>6, <1>7

\* The page that a SELECT returns; without an offset, it is the first rows of all it could return.
LEMMA SelectedRows ==
  ASSUME NEW r, r.limit \in Nat, r.offset \in Nat, NEW rows, IsFiniteSet(rows),
         NEW page \in Selected(r, rows)
  PROVE  LET H == Hits(r, rows)
             n == Cardinality(H)
         IN  /\ page \in Seq(H) /\ ToSet(page) \subseteq H /\ H \subseteq rows /\ n \in Nat
             /\ Len(page) <= r.limit
             /\ IsInjective(page) /\ Sorted(r.order, page)
             /\ r.offset = 0 =>
                  /\ Len(page) = IF r.limit < n THEN r.limit ELSE n
                  /\ \A x \in H \ ToSet(page), i \in DOMAIN page : ~Before(r.order, x, page[i])
                  /\ Len(page) < r.limit => H \subseteq ToSet(page)
<1> DEFINE H == Hits(r, rows)
           n == Cardinality(H)
           o == r.offset
           l == r.limit
<1>1. H \subseteq rows /\ IsFiniteSet(H)
  <2>1. H \subseteq rows
    BY DEF Hits
  <2>. QED BY <2>1, FS_Subset
<1>2. PICK s \in SetToSeqs(H) :
        Sorted(r.order, s) /\ page = SubSeq(s, o + 1, IF o + l < Len(s) THEN o + l ELSE Len(s))
  BY DEF Selected
<1> HIDE DEF H
<1>3. /\ n \in Nat /\ s \in [1..n -> H] /\ s \in Seq(H) /\ Len(s) = n
      /\ \A i, j \in 1..n : s[i] = s[j] => i = j
      /\ \A x \in H : \E i \in 1..n : s[i] = x
  BY <1>1, ListsAll
<1> DEFINE e == IF o + l < n THEN o + l ELSE n
<1> HIDE DEF n, o, l
<1>4. o \in Nat /\ l \in Nat
  BY DEF o, l
<1>5. /\ page \in Seq(H)
      /\ Len(page) = IF o + 1 <= e THEN e - o ELSE 0
      /\ DOMAIN page = 1..Len(page) /\ Len(page) \in Nat
      /\ \A i \in DOMAIN page : i + o \in 1..n /\ page[i] = s[i + o]
  <2>1. page = SubSeq(s, o + 1, e) /\ e \in Nat /\ e <= n
    BY <1>2, <1>3, <1>4
  <2> HIDE DEF e
  <2>2. \A i \in (o + 1)..e : i \in 1..Len(s)
    BY <1>3, <1>4, <2>1
  <2>3. /\ page \in Seq(H)
        /\ Len(page) = IF o + 1 <= e THEN e - (o + 1) + 1 ELSE 0
        /\ \A i \in 1..(e - (o + 1) + 1) : page[i] = s[(o + 1) + i - 1]
    BY <1>3, <1>4, <2>1, <2>2, SubSeqProperties
  <2>4. DOMAIN page = 1..Len(page) /\ Len(page) \in Nat
    BY <2>3, LenProperties
  <2>5. ASSUME NEW i \in DOMAIN page PROVE i + o \in 1..n /\ page[i] = s[i + o]
    <3>1. i \in Nat /\ i >= 1 /\ i <= e - o
      BY <1>4, <2>1, <2>3, <2>4
    <3>2. (o + 1) + i - 1 = i + o /\ i \in 1..(e - (o + 1) + 1)
      BY <1>4, <2>1, <3>1
    <3>. QED BY <1>3, <1>4, <2>1, <2>3, <3>1, <3>2
  <2>. QED BY <1>4, <2>1, <2>3, <2>4, <2>5
<1>6. Len(page) <= l
  BY <1>3, <1>4, <1>5
<1>7. ToSet(page) \subseteq H
  BY <1>3, <1>5 DEF ToSet
<1>8. IsInjective(page)
  <2> SUFFICES ASSUME NEW i \in DOMAIN page, NEW j \in DOMAIN page, page[i] = page[j] PROVE i = j
    BY DEF IsInjective
  <2>1. i + o = j + o
    BY <1>3, <1>5
  <2>. QED BY <1>4, <1>5, <2>1
<1>9. Sorted(r.order, page)
  <2> SUFFICES ASSUME NEW i \in DOMAIN page, NEW j \in DOMAIN page, i < j
               PROVE  ~Before(r.order, page[j], page[i])
    BY DEF Sorted
  <2>1. i + o < j + o /\ i + o \in DOMAIN s /\ j + o \in DOMAIN s
    BY <1>3, <1>4, <1>5
  <2>. QED BY <1>2, <1>5, <2>1 DEF Sorted
<1>10. ASSUME o = 0
       PROVE  /\ Len(page) = IF l < n THEN l ELSE n
              /\ \A x \in H \ ToSet(page), i \in DOMAIN page : ~Before(r.order, x, page[i])
              /\ Len(page) < l => H \subseteq ToSet(page)
  <2>1. Len(page) = IF l < n THEN l ELSE n
    BY <1>3, <1>4, <1>5, <1>10
  <2>2. \A i \in DOMAIN page : page[i] = s[i]
    BY <1>5, <1>10
  <2>3. ASSUME NEW x \in H \ ToSet(page), NEW i \in DOMAIN page PROVE ~Before(r.order, x, page[i])
    <3>1. PICK k \in 1..n : s[k] = x
      BY <1>3
    <3>2. k \notin DOMAIN page
      BY <2>2, <2>3, <3>1 DEF ToSet
    <3>3. i < k /\ i \in DOMAIN s /\ k \in DOMAIN s
      BY <1>3, <1>5, <1>10, <3>2
    <3>. QED BY <1>2, <2>2, <3>1, <3>3 DEF Sorted
  <2>4. ASSUME Len(page) < l, NEW x \in H PROVE x \in ToSet(page)
    <3>1. PICK k \in 1..n : s[k] = x
      BY <1>3
    <3>2. k \in DOMAIN page
      BY <1>3, <1>4, <1>5, <2>1, <2>4
    <3>. QED BY <2>2, <3>1, <3>2 DEF ToSet
  <2>. QED BY <2>1, <2>3, <2>4
<1>. QED BY <1>1, <1>3, <1>5, <1>6, <1>7, <1>8, <1>9, <1>10 DEF H, n, o, l

\* What the worker reads of a request without a query, and of one with.
LEMMA PlainFields ==
  ASSUME NEW n \in Nat
  PROVE  LET r == ReadRequest(PlainRequest(n))
         IN  /\ r.wrapper = <<>> /\ r.order = <<>> /\ r.cursor = NoCursor /\ r.strictAfter = TRUE
             /\ r.limit = 500 /\ r.offset = n
<1> DEFINE p == PlainRequest(n)
           r == ReadRequest(p)
<1>1. /\ p.wrapper = <<>> /\ p.order = <<>> /\ p.cursor = NoCursor /\ p.strictAfter = TRUE
      /\ p.limit = 500 /\ p.offset = n
      /\ DOMAIN p = {"wrapper", "limit", "offset", "order", "cursor", "strictAfter"}
  BY DEF PlainRequest, GetDataReq, Defaults
<1> HIDE DEF p
<1>2. /\ r.wrapper = [i \in DOMAIN p.wrapper |-> FromWire(p.wrapper[i])]
      /\ r.cursor = [f \in DOMAIN p.cursor |-> ReadValue(p.cursor[f])]
      /\ r.limit = p.limit /\ r.offset = p.offset /\ r.order = p.order /\ r.strictAfter = p.strictAfter
  BY <1>1 DEF ReadRequest, Wrapped
<1> HIDE DEF r
<1>3. r.wrapper = <<>>
  BY <1>1, <1>2
<1>4. r.cursor = NoCursor
  BY <1>1, <1>2 DEF NoCursor
<1>. QED BY <1>1, <1>2, <1>3, <1>4 DEF p, r

LEMMA QueryFields ==
  ASSUME NEW q, IsQuery(q), \A t \in ToSet(q.wrapper) : Encodable(ToCodec(t)),
         IsCursor(q.order, q.cursor)
  PROVE  LET r == ReadRequest(QueryRequest(q))
         IN  /\ r.order = Asked(q.order) /\ r.strictAfter = TRUE /\ r.offset = 0
             /\ r.limit = IF q.limit = Absent THEN 0 ELSE q.limit
             /\ q.wrapper = <<>> => r.wrapper = <<>>
             /\ q.wrapper # <<>> => r.wrapper = <<ToCodec(q.wrapper[1])>>
             /\ r.cursor = [f \in DOMAIN q.cursor |-> Plain(q.cursor[f])]
             /\ \A f \in DOMAIN q.cursor : r.cursor[f] = [js |-> "string", v |-> q.cursor[f].v]
<1> DEFINE p == QueryRequest(q)
           r == ReadRequest(p)
<1>1. /\ p.wrapper = [i \in DOMAIN q.wrapper |-> ToWire(ToCodec(q.wrapper[i]))]
      /\ p.order = Asked(q.order) /\ p.strictAfter = TRUE /\ p.offset = 0
      /\ p.limit = IF q.limit = Absent THEN 0 ELSE q.limit
      /\ p.cursor = [f \in DOMAIN q.cursor |-> FbValue(Plain(q.cursor[f]))]
      /\ DOMAIN p = {"wrapper", "limit", "offset", "order", "cursor", "strictAfter"}
  BY DEF QueryRequest, EncodeGetData, GetDataReq, Defaults, Wrapped, Asked
<1> HIDE DEF p
<1>2. /\ r.wrapper = [i \in DOMAIN p.wrapper |-> FromWire(p.wrapper[i])]
      /\ r.cursor = [f \in DOMAIN p.cursor |-> ReadValue(p.cursor[f])]
      /\ r.limit = p.limit /\ r.offset = p.offset /\ r.order = p.order /\ r.strictAfter = p.strictAfter
  BY <1>1 DEF ReadRequest, Wrapped
<1> HIDE DEF r
<1>3. /\ r.order = Asked(q.order) /\ r.strictAfter = TRUE /\ r.offset = 0
      /\ r.limit = IF q.limit = Absent THEN 0 ELSE q.limit
  BY <1>1, <1>2
<1>4. q.wrapper = <<>> => r.wrapper = <<>>
  BY <1>1, <1>2
<1>5. ASSUME q.wrapper # <<>> PROVE r.wrapper = <<ToCodec(q.wrapper[1])>>
  <2> DEFINE t == q.wrapper[1]
  <2>1. q.wrapper = <<t>> /\ IsTree(t)
    BY <1>5 DEF IsQuery
  <2> HIDE DEF t
  <2>2. Encodable(ToCodec(t))
    BY <2>1 DEF ToSet
  <2>3. DOMAIN q.wrapper = {1} /\ q.wrapper[1] = t
    BY <2>1
  <2>4. p.wrapper = [i \in {1} |-> ToWire(ToCodec(t))]
    BY <1>1, <2>3
  <2>5. r.wrapper = [i \in {1} |-> FromWire(ToWire(ToCodec(t)))]
    BY <1>2, <2>4
  <2>6. r.wrapper = [i \in {1} |-> ToCodec(t)]
    BY <2>1, <2>2, <2>5, TreeBack
  <2>7. <<ToCodec(t)>> = [i \in {1} |-> ToCodec(t)]
    OBVIOUS
  <2>. QED BY <2>6, <2>7 DEF t
<1>6. r.cursor = [f \in DOMAIN q.cursor |-> Plain(q.cursor[f])]
  <2>1. /\ DOMAIN p.cursor = DOMAIN q.cursor
        /\ \A f \in DOMAIN q.cursor : p.cursor[f] = FbValue(Plain(q.cursor[f]))
    BY <1>1
  <2>2. \A f \in DOMAIN q.cursor : ReadValue(p.cursor[f]) = Plain(q.cursor[f])
    BY <2>1, ReadBack
  <2>. QED BY <1>2, <2>1, <2>2
<1>7. ASSUME NEW f \in DOMAIN q.cursor PROVE r.cursor[f] = [js |-> "string", v |-> q.cursor[f].v]
  <2> DEFINE c == q.cursor[f]
  <2>1. c = [tag |-> "StringValue", v |-> c.v]
    BY <1>7 DEF IsCursor
  <2>2. c.tag = "StringValue"
    BY <2>1
  <2> HIDE DEF c
  <2>3. c.tag \in DOMAIN Scalars /\ Scalars[c.tag] = "string"
    BY <2>2 DEF Scalars
  <2>4. Plain(c) = [js |-> "string", v |-> c.v]
    BY <2>2, <2>3 DEF Plain, Lists
  <2>. QED BY <1>6, <2>4 DEF c
<1>. QED BY <1>3, <1>4, <1>5, <1>6, <1>7 DEF p, r

\* What the worker's query lets through is what the client's asks for.
LEMMA Wanted ==
  ASSUME NEW q, IsQuery(q), \A t \in ToSet(q.wrapper) : Encodable(ToCodec(t)),
         IsCursor(q.order, q.cursor),
         NEW x
  PROVE  LET r == ReadRequest(QueryRequest(q))
         IN  /\ AfterCursor(r.order, r.cursor, r.strictAfter, x) => Follows(r.order, q.cursor, x)
             /\ Follows(r.order, q.cursor, x) /\ Runs(r) /\ NoNullKeys(q.order, {x})
                  => AfterCursor(r.order, r.cursor, r.strictAfter, x)
             /\ (\A t \in ToSet(q.wrapper) : Supported(t))
                  => ((\A t \in ToSet(r.wrapper) : Where(t, x)) <=> Meets(q, x))
<1> DEFINE r == ReadRequest(QueryRequest(q))
<1>1. /\ r.order = Asked(q.order) /\ r.strictAfter = TRUE
      /\ q.wrapper = <<>> => r.wrapper = <<>>
      /\ q.wrapper # <<>> => r.wrapper = <<ToCodec(q.wrapper[1])>>
      /\ DOMAIN r.cursor = DOMAIN q.cursor
      /\ \A f \in DOMAIN q.cursor : r.cursor[f].v = q.cursor[f].v
  <2> HIDE DEF r
  <2>1. /\ r.order = Asked(q.order) /\ r.strictAfter = TRUE
        /\ q.wrapper = <<>> => r.wrapper = <<>>
        /\ q.wrapper # <<>> => r.wrapper = <<ToCodec(q.wrapper[1])>>
        /\ r.cursor = [f \in DOMAIN q.cursor |-> Plain(q.cursor[f])]
        /\ \A f \in DOMAIN q.cursor : r.cursor[f] = [js |-> "string", v |-> q.cursor[f].v]
    BY QueryFields DEF r
  <2>2. DOMAIN r.cursor = DOMAIN q.cursor
    BY <2>1
  <2>3. ASSUME NEW f \in DOMAIN q.cursor PROVE r.cursor[f].v = q.cursor[f].v
    <3> DEFINE v == q.cursor[f].v
    <3>1. r.cursor[f] = [js |-> "string", v |-> v]
      BY <2>1
    <3> HIDE DEF v
    <3>2. r.cursor[f].v = v
      BY <3>1
    <3>. QED BY <3>2 DEF v
  <2>. QED BY <2>1, <2>2, <2>3
<1>2. /\ IsOrder(q.order) /\ IsOrder(r.order) /\ DOMAIN r.order = DOMAIN q.order
      /\ \A i \in DOMAIN q.order : r.order[i].field = q.order[i].field
      /\ Fields(r.order) = Fields(q.order)
      /\ GoesOn(r.order, q.cursor) <=> GoesOn(q.order, q.cursor)
      /\ GoesOn(r.order, r.cursor) <=> GoesOn(q.order, q.cursor)
  <2>1. IsOrder(q.order)
    BY DEF IsQuery
  <2>2. GoesOn(r.order, r.cursor) <=> GoesOn(r.order, q.cursor)
    BY <1>1 DEF GoesOn
  <2>. QED BY <1>1, <2>1, <2>2, AskedKeys
<1> HIDE DEF r
<1> DEFINE Same ==
             /\ AfterCursor(r.order, r.cursor, r.strictAfter, x) => Follows(r.order, q.cursor, x)
             /\ Follows(r.order, q.cursor, x) /\ Runs(r) /\ NoNullKeys(q.order, {x})
                  => AfterCursor(r.order, r.cursor, r.strictAfter, x)
<1>3. ASSUME ~GoesOn(q.order, q.cursor) PROVE Same
  <2>1. AfterCursor(r.order, r.cursor, r.strictAfter, x)
    BY <1>2, <1>3, NoKeyAll
  <2>2. Follows(r.order, q.cursor, x)
    BY <1>2, <1>3 DEF Follows
  <2>. QED BY <2>1, <2>2
<1>4. ASSUME GoesOn(q.order, q.cursor) PROVE Same
  <2>1. Fields(r.order) \subseteq DOMAIN r.cursor /\ r.order # <<>>
    <3>1. Fields(q.order) \subseteq DOMAIN q.cursor
      BY <1>4 DEF IsCursor
    <3>2. DOMAIN r.order # {}
      BY <1>2, <1>4 DEF GoesOn
    <3>. QED BY <1>1, <1>2, <3>1, <3>2
  <2>2. ValuesOf(r.cursor) = ValuesOf(q.cursor)
    BY <1>1 DEF ValuesOf
  <2>3. Follows(r.order, q.cursor, x) <=> Before(r.order, ValuesOf(r.cursor), x)
    BY <1>2, <1>4, <2>2 DEF Follows, ValuesOf
  <2>4. AfterCursor(r.order, r.cursor, r.strictAfter, x) => Follows(r.order, q.cursor, x)
    BY <1>1, <1>2, <2>1, <2>3, AfterIsBefore
  <2>5. ASSUME Follows(r.order, q.cursor, x), Runs(r), NoNullKeys(q.order, {x})
        PROVE  AfterCursor(r.order, r.cursor, r.strictAfter, x)
    <3>1. ASSUME NEW f \in Fields(r.order) PROVE r.cursor[f].v # Null /\ x[f] # Null
      <4>1. PICK i \in DOMAIN q.order : q.order[i].field = f
        BY <1>2, <3>1 DEF Fields
      <4>2. r.order[i] \in ToSet(r.order) /\ r.order[i].field = f
        BY <1>2, <4>1 DEF ToSet
      <4>3. Readable(f, r.cursor[f])
        BY <2>1, <2>5, <3>1, <4>2 DEF Runs
      <4>4. x[f] # Null
        BY <2>5, <4>1 DEF NoNullKeys
      <4>. QED BY <4>3, <4>4 DEF Readable
    <3>. QED BY <1>1, <1>2, <2>1, <2>3, <2>5, <3>1, BeforeIsAfter
  <2>. QED BY <2>4, <2>5
<1>5. ASSUME \A t \in ToSet(q.wrapper) : Supported(t)
      PROVE  (\A t \in ToSet(r.wrapper) : Where(t, x)) <=> Meets(q, x)
  <2>1. CASE q.wrapper = <<>>
    BY <1>1, <2>1 DEF ToSet, Meets
  <2>2. CASE q.wrapper # <<>>
    <3> DEFINE t == q.wrapper[1]
    <3>1. q.wrapper = <<t>> /\ IsTree(t)
      BY <2>2 DEF IsQuery
    <3>2. r.wrapper = <<ToCodec(t)>>
      BY <1>1, <2>2
    <3> HIDE DEF t
    <3>3. ToSet(q.wrapper) = {t} /\ ToSet(r.wrapper) = {ToCodec(t)}
      BY <3>1, <3>2 DEF ToSet
    <3>4. Where(ToCodec(t), x) = Meant(t, x)
      BY <1>5, <3>1, <3>3, WhereIsMeant
    <3>. QED BY <3>3, <3>4 DEF Meets
  <2>. QED BY <2>1, <2>2
<1>. QED BY <1>3, <1>4, <1>5 DEF r

\* The cursor of a result has the LSN and, for the order of rows that are not none, their last keys.
LEMMA CursorMade ==
  ASSUME NEW order, IsOrder(order), NEW rows \in Seq(Rows)
  PROVE  LET c == CursorOf(order, rows)
             last == rows[Len(rows)]
         IN  /\ rows = <<>> => DOMAIN c = {"lsn"}
             /\ rows # <<>> => DOMAIN c = Fields(order) \cup {"lsn"}
             /\ \A f \in DOMAIN c : c[f].v \in Int \cup {Null}
             /\ rows # <<>> => \A f \in Fields(order) :
                  c[f].v = IF last[f] = Null /\ f \in TextColumns THEN NullText ELSE last[f]
             /\ GoesOn(order, c) <=> rows # <<>> /\ order # <<>>
<1> DEFINE c == CursorOf(order, rows)
           last == rows[Len(rows)]
           keys == IF rows = <<>> THEN {} ELSE Fields(order)
<1>1. c = [f \in keys \cup {"lsn"} |-> IF f = "lsn" THEN LsnText ELSE TextOf(f, last[f])]
  BY DEF CursorOf, Fields
<1> HIDE DEF c
<1>2. "lsn" \notin Fields(order) /\ Fields(order) \subseteq Columns
  BY OrderKeys, ValuesAssumption DEF Fields
<1>3. LsnText.v = 0
  BY DEF LsnText
<1>4. ASSUME NEW f \in keys
      PROVE  c[f].v = IF last[f] = Null /\ f \in TextColumns THEN NullText ELSE last[f]
  <2> DEFINE v == IF last[f] = Null /\ f \in TextColumns THEN NullText ELSE last[f]
  <2>1. f # "lsn" /\ f \in keys \cup {"lsn"}
    BY <1>2, <1>4
  <2>2. c[f] = TextOf(f, last[f])
    BY <1>1, <2>1
  <2>3. c[f] = [js |-> "string", v |-> v]
    BY <2>2 DEF TextOf
  <2> HIDE DEF v
  <2>4. c[f].v = v
    BY <2>3
  <2>. QED BY <2>4 DEF v
<1>5. ASSUME NEW f \in keys PROVE last[f] \in Int \cup {Null}
  <2>1. rows # <<>> /\ f \in Columns
    BY <1>2, <1>5
  <2>2. last \in Rows
    BY <2>1, EmptySeq, LenProperties
  <2>. QED BY <2>1, <2>2 DEF Rows
<1>6. ASSUME NEW f \in DOMAIN c PROVE c[f].v \in Int \cup {Null}
  <2>1. CASE f = "lsn"
    BY <1>1, <1>3, <2>1
  <2>2. CASE f # "lsn"
    <3>1. f \in keys
      BY <1>1, <2>2
    <3>. QED BY <1>4, <1>5, <3>1, ValuesAssumption
  <2>. QED BY <2>1, <2>2
<1>7. GoesOn(order, c) <=> rows # <<>> /\ order # <<>>
  <2>1. GoesOn(order, c) <=> \E i \in DOMAIN order : order[i].field \in keys
    BY <1>1, <1>2 DEF GoesOn, Fields
  <2>2. order # <<>> <=> DOMAIN order # {}
    BY SomeKey
  <2>. QED BY <2>1, <2>2 DEF Fields
<1>8. rows = <<>> => DOMAIN c = {"lsn"}
  BY <1>1
<1>9. rows # <<>> => DOMAIN c = Fields(order) \cup {"lsn"} /\ keys = Fields(order)
  BY <1>1
<1>. QED BY <1>4, <1>6, <1>7, <1>8, <1>9 DEF c

-----------------------------------------------------------------------------
(* The inductive invariant                                                  *)

Called == {"sent", "begun", "fenced", "replied", "answered"}
Told == {"replied", "answered"}

\* Commits that are logged and not visible yet.
Pending == DOMAIN log \ visible

\* Pending commits do not add rows with ids that the table, without the rows
\* they remove, or other pending commits have.
DbInv ==
  /\ IsTable(table) /\ steady \subseteq table
  /\ log \in Seq(Changes) /\ Len(log) <= MaxCommits /\ visible \subseteq DOMAIN log
  /\ \A i \in Pending : \A r \in log[i].in, q \in table \ log[i].out : r.id # q.id
  /\ \A i, j \in Pending : \A r \in log[i].in, q \in log[j].in : i # j => r.id # q.id

\* The worker has the client's own query on the first attempt, and else a plain request.
CallInv ==
  /\ caller \in {"rpc", "subscriber"} /\ attempt \in 1..2
  /\ stage \in {"idle", "failed"} \cup Called
  /\ pages \in 0..MaxPages /\ (stage = "idle" => pages < MaxPages)
  /\ IsQuery(query) /\ IsCursor(query.order, query.cursor)
  /\ request.limit \in Nat /\ request.offset \in Nat
  /\ stage = "idle" \/ caller = "rpc" => attempt = 1
  /\ stage # "idle" /\ caller = "subscriber" /\ query.json => published = StreamsQuery(query)
  /\ stage \in Called =>
       IF query.json /\ attempt = 1
       THEN /\ request = ReadRequest(QueryRequest(query))
            /\ \A t \in ToSet(query.wrapper) : Encodable(ToCodec(t))
       ELSE \E n \in Nat : request = ReadRequest(PlainRequest(n))

\* A snapshot has the rows that have been there all the time, and commits up to the LSN.
SnapInv ==
  /\ IsTable(snap.rows)
  /\ snap.lsns \subseteq visible /\ lsn \in 0..Len(log)
  /\ stage \in {"begun", "fenced"} \cup Told => steady \subseteq snap.rows
  /\ stage \in {"fenced"} \cup Told => \A i \in snap.lsns : i <= lsn

\* A reply is what a SELECT on the snapshot returns, and the answer is made of it.
ReplyInv ==
  IF stage \in Told
  THEN /\ Runs(request) /\ result.rows \in Selected(request, snap.rows)
       /\ result.cursor = CursorOf(request.order, result.rows)
       /\ stage = "answered" =>
            answer = [unpacked |-> caller = "subscriber" /\ query.json /\ attempt = 1,
                      rows |-> result.rows,
                      cursor |-> IF caller = "rpc" \/ (query.json /\ attempt = 1) THEN result.cursor
                                 ELSE CursorOf(<<>>, <<>>)]
  ELSE result = NoResult

\* The cursor is not before a row that the client has,
GotInv ==
  \A q \in got :
    /\ q \in Rows /\ GoesOn(query.order, query.cursor)
    /\ NoNullTexts(query.order, got) => ~Before(Asked(query.order), ValuesOf(query.cursor), q)

\* ... and before every steady row that it has not and that matches.
SeenInv ==
  Understood /\ Total(query.order) /\ NoNullTexts(query.order, got) =>
    \A r \in steady : Meets(query, r) /\ NoNullKeys(query.order, {r})
      => r \in got \/ Follows(Asked(query.order), query.cursor, r)

Inv == DbInv /\ CallInv /\ SnapInv /\ ReplyInv /\ GotInv /\ SeenInv

-----------------------------------------------------------------------------
(* What it says of replies                                                  *)

\* A reply to the client's own query.
LEMMA OwnPage ==
  ASSUME Inv, Own
  PROVE  LET page == result.rows
             H == Hits(request, snap.rows)
             n == Cardinality(H)
             limit == IF query.limit = Absent THEN 0 ELSE query.limit
         IN  /\ IsOrder(query.order) /\ IsOrder(request.order) /\ request.order = Asked(query.order)
             /\ IsTable(snap.rows) /\ page \in Seq(snap.rows)
             /\ ToSet(page) \subseteq H /\ H \subseteq snap.rows
             /\ n \in Nat /\ limit \in Nat /\ Len(page) = IF limit < n THEN limit ELSE n
             /\ IsInjective(page) /\ Sorted(request.order, page)
             /\ \A x \in H \ ToSet(page), i \in DOMAIN page : ~Before(request.order, x, page[i])
             /\ Len(page) < limit => H \subseteq ToSet(page)
             /\ \A x \in H : Follows(request.order, query.cursor, x)
             /\ Understood =>
                  /\ \A x \in H : Meets(query, x)
                  /\ \A x \in snap.rows :
                       Meets(query, x) /\ Follows(request.order, query.cursor, x) /\ NoNullKeys(query.order, {x})
                       => x \in H
<1> DEFINE page == result.rows
           H == Hits(request, snap.rows)
           n == Cardinality(H)
           limit == IF query.limit = Absent THEN 0 ELSE query.limit
           q == query
           r == request
<1>1. /\ stage \in Told /\ stage \in Called /\ query.json /\ attempt = 1
  BY DEF Own, Told, Called
<1>2. /\ IsQuery(q) /\ IsOrder(q.order)
      /\ \A t \in ToSet(q.wrapper) : Encodable(ToCodec(t))
      /\ IsCursor(q.order, q.cursor)
      /\ r = ReadRequest(QueryRequest(q)) /\ r.limit \in Nat
  BY <1>1 DEF Inv, CallInv, IsQuery
<1>3. r.order = Asked(q.order) /\ IsOrder(r.order) /\ r.offset = 0 /\ r.limit = limit
  BY <1>2, QueryFields, AskedKeys
<1>4. IsTable(snap.rows) /\ IsFiniteSet(snap.rows)
  BY DEF Inv, SnapInv, IsTable
<1>5. Runs(r) /\ page \in Selected(r, snap.rows)
  BY <1>1 DEF Inv, ReplyInv
<1>6. /\ page \in Seq(H) /\ ToSet(page) \subseteq H /\ H \subseteq snap.rows /\ n \in Nat
      /\ IsInjective(page) /\ Sorted(r.order, page)
      /\ Len(page) = IF r.limit < n THEN r.limit ELSE n
      /\ \A x \in H \ ToSet(page), i \in DOMAIN page : ~Before(r.order, x, page[i])
      /\ Len(page) < r.limit => H \subseteq ToSet(page)
  BY <1>2, <1>3, <1>4, <1>5, SelectedRows
<1>7. page \in Seq(snap.rows)
  BY <1>6
<1>8. \A x : x \in H <=> /\ x \in snap.rows
                         /\ \A t \in ToSet(r.wrapper) : Where(t, x)
                         /\ AfterCursor(r.order, r.cursor, r.strictAfter, x)
  BY DEF Hits
<1>9. \A x : /\ AfterCursor(r.order, r.cursor, r.strictAfter, x) => Follows(r.order, q.cursor, x)
             /\ Follows(r.order, q.cursor, x) /\ Runs(r) /\ NoNullKeys(q.order, {x})
                  => AfterCursor(r.order, r.cursor, r.strictAfter, x)
             /\ (\A t \in ToSet(q.wrapper) : Supported(t))
                  => ((\A t \in ToSet(r.wrapper) : Where(t, x)) <=> Meets(q, x))
  BY <1>2, Wanted
<1> HIDE DEF H, n, page, limit, q, r
<1>10. \A x \in H : Follows(r.order, q.cursor, x)
  BY <1>8, <1>9
<1>11. ASSUME \A t \in ToSet(q.wrapper) : Supported(t)
       PROVE  /\ \A x \in H : Meets(q, x)
              /\ \A x \in snap.rows :
                   Meets(q, x) /\ Follows(r.order, q.cursor, x) /\ NoNullKeys(q.order, {x}) => x \in H
  BY <1>5, <1>8, <1>9, <1>11
<1>. QED BY <1>2, <1>3, <1>4, <1>6, <1>7, <1>10, <1>11 DEF H, n, page, limit, q, r, Understood

LEMMA ExactPage == Inv => PageExact
<1> SUFFICES ASSUME Inv, Own, Understood, KnownSorts(query.order), NoNullKeys(query.order, snap.rows)
             PROVE  LET page == result.rows
                        wanted == {r \in snap.rows : Meets(query, r) /\ Follows(query.order, query.cursor, r)}
                        limit == IF query.limit = Absent THEN 0 ELSE query.limit
                        n == Cardinality(wanted)
                    IN  /\ ToSet(page) \subseteq wanted /\ IsInjective(page)
                        /\ Len(page) = (IF limit < n THEN limit ELSE n)
                        /\ Sorted(query.order, page)
                        /\ \A r \in wanted \ ToSet(page), i \in DOMAIN page : ~Before(query.order, r, page[i])
  BY DEF PageExact
<1> DEFINE wanted == {r \in snap.rows : Meets(query, r) /\ Follows(query.order, query.cursor, r)}
           H == Hits(request, snap.rows)
<1>0. request.order = query.order
  BY OwnPage, AskedKeys
<1>1. \A x \in snap.rows : NoNullKeys(query.order, {x})
  BY DEF NoNullKeys
<1>2. H = wanted
  <2>1. \A x \in H : x \in snap.rows /\ Meets(query, x) /\ Follows(query.order, query.cursor, x)
    BY <1>0, OwnPage
  <2>2. \A x \in snap.rows : Meets(query, x) /\ Follows(query.order, query.cursor, x) => x \in H
    BY <1>0, <1>1, OwnPage
  <2> HIDE DEF H
  <2>. QED BY <2>1, <2>2
<1> DEFINE limit == IF query.limit = Absent THEN 0 ELSE query.limit
           page == result.rows
           Exact(w) == /\ ToSet(page) \subseteq w /\ IsInjective(page)
                       /\ Len(page) = (IF limit < Cardinality(w) THEN limit ELSE Cardinality(w))
                       /\ Sorted(query.order, page)
                       /\ \A r \in w \ ToSet(page), i \in DOMAIN page : ~Before(query.order, r, page[i])
<1>3. Exact(H)
  BY <1>0, OwnPage
<1> HIDE DEF wanted, H
<1>4. Exact(wanted)
  BY <1>2, <1>3
<1>. QED BY <1>4 DEF wanted

\* Rows and cursors have values to sort by.
LEMMA KeyedRows ==
  ASSUME NEW order, IsOrder(order), NEW r \in Rows
  PROVE  Keyed(order, r)
<1>1. ASSUME NEW f \in Columns PROVE r[f] \in Values
  BY DEF Rows, Values
<1>. QED BY <1>1, OrderKeys DEF Keyed

LEMMA KeyedCursor ==
  ASSUME NEW order, NEW c, IsCursor(order, c), GoesOn(order, c)
  PROVE  Keyed(order, ValuesOf(c))
<1>1. Fields(order) \subseteq DOMAIN c /\ \A f \in Fields(order) : c[f].v \in Values
  BY DEF IsCursor, Values
<1>2. \A i \in DOMAIN order : order[i].field \in Fields(order)
  BY DEF Fields
<1>. QED BY <1>1, <1>2 DEF Keyed, ValuesOf

\* The order that is asked for has the same columns to sort by.
LEMMA KeyedAsked ==
  ASSUME NEW order, IsOrder(order), NEW r
  PROVE  Keyed(Asked(order), r) <=> Keyed(order, r)
  BY AskedKeys DEF Keyed

LEMMA Forward == Inv => PagesAdvance
<1> SUFFICES ASSUME Inv, Own, NoNullTexts(query.order, got), NEW r \in ToSet(result.rows), NEW q \in got
             PROVE  Before(request.order, q, r)
  BY DEF PagesAdvance
<1> DEFINE c == ValuesOf(query.cursor)
           order == request.order
<1>1. /\ IsOrder(query.order) /\ IsOrder(order) /\ order = Asked(query.order)
      /\ r \in Rows /\ Follows(order, query.cursor, r)
  BY OwnPage DEF IsTable
<1>2. q \in Rows /\ GoesOn(query.order, query.cursor) /\ ~Before(order, c, q)
  BY <1>1 DEF Inv, GotInv
<1>3. Before(order, c, r)
  BY <1>1, <1>2, AskedKeys DEF Follows, ValuesOf
<1>4. Keyed(order, c)
  <2>1. IsCursor(query.order, query.cursor)
    BY DEF Inv, CallInv
  <2>. QED BY <1>1, <1>2, <2>1, KeyedCursor, KeyedAsked
<1> HIDE DEF c, order
<1>. QED BY <1>1, <1>2, <1>3, <1>4, KeyedRows, BeforeSplits DEF order

LEMMA NoneLost == Inv => NothingSkipped
<1> SUFFICES ASSUME Inv, Own, Understood, Total(query.order), query.limit # Absent,
                    Len(result.rows) < query.limit, NoNullTexts(query.order, got),
                    NEW r \in steady, Meets(query, r), NoNullKeys(query.order, {r})
             PROVE  r \in got \cup ToSet(result.rows)
  BY DEF NothingSkipped
<1>1. r \in got \/ Follows(request.order, query.cursor, r)
  BY OwnPage DEF Inv, SeenInv
<1>2. r \in snap.rows
  BY DEF Inv, SnapInv, Own, Told
<1>. QED BY <1>1, <1>2, OwnPage

LEMMA Covered == Inv => VisibleCovered
  BY DEF Inv, SnapInv, VisibleCovered, Told

LEMMA Filtered == Inv => ArrayMeansFiltered
<1> SUFFICES ASSUME Inv, caller = "subscriber", stage = "answered", answer.unpacked, Understood,
                    NEW r \in ToSet(answer.rows)
             PROVE  Meets(query, r)
  BY DEF ArrayMeansFiltered
<1> DEFINE own == query.json /\ attempt = 1
<1>1. answer = [unpacked |-> caller = "subscriber" /\ own, rows |-> result.rows,
                cursor |-> IF caller = "rpc" \/ own THEN result.cursor ELSE CursorOf(<<>>, <<>>)]
  BY DEF Inv, ReplyInv, Told
<1> HIDE DEF own
<1>2. answer.unpacked = (caller = "subscriber" /\ own) /\ answer.rows = result.rows
  BY <1>1
<1>3. own
  BY <1>2
<1>. QED BY <1>2, <1>3, OwnPage DEF Own, own

\* The tree that Streams is given has the plain values and the ops of the JSON's.
LEMMA StreamsTree ==
  ASSUME NEW t, IsTree(t), \A l \in LeavesOf(t) : l.op \in SharedOps
  PROVE  ToCodec(ToStreams(t)) = ToCodec(t)
<1> DEFINE u == ToStreams(t)
<1>1. /\ DOMAIN u = DOMAIN t
      /\ \A i \in DOMAIN t : u[i] = IF IsWrapper(t[i]) THEN t[i] ELSE StreamsLeaf(t[i])
  BY DEF ToStreams, MapLeaves
<1> HIDE DEF u
<1>2. ASSUME NEW i \in DOMAIN t, ~IsWrapper(t[i])
      PROVE  ~IsWrapper(u[i]) /\ CodecLeaf(u[i]) = CodecLeaf(t[i])
  <2> DEFINE l == t[i]
             m == u[i]
  <2>1. l.op \in FbOps
    BY <1>2 DEF LeavesOf, FbOps
  <2>2. DOMAIN l = {"field", "op", "value"}
    BY <1>2 DEF IsTree, IsWrapper
  <2>3. m = [l EXCEPT !.op = l.op]
    BY <1>1, <1>2, <2>1 DEF StreamsLeaf
  <2> HIDE DEF l, m
  <2>4. DOMAIN m = DOMAIN l /\ \A x \in DOMAIN l : m[x] = l[x]
    BY <2>3
  <2>5. /\ CodecLeaf(m) = [x \in DOMAIN l |-> IF x = "value" THEN Plain(m["value"]) ELSE m[x]]
        /\ CodecLeaf(l) = [x \in DOMAIN l |-> IF x = "value" THEN Plain(l["value"]) ELSE l[x]]
    BY <2>2, <2>4 DEF CodecLeaf
  <2>6. CodecLeaf(m) = CodecLeaf(l)
    BY <2>2, <2>4, <2>5
  <2>. QED BY <1>2, <2>2, <2>4, <2>6 DEF IsWrapper, l, m
<1>3. \A i \in DOMAIN t : (IF IsWrapper(u[i]) THEN u[i] ELSE CodecLeaf(u[i]))
                          = IF IsWrapper(t[i]) THEN t[i] ELSE CodecLeaf(t[i])
  BY <1>1, <1>2
<1>. QED BY <1>1, <1>3 DEF ToCodec, MapLeaves, u

LEMMA Streamed == Inv => SameForStreams
<1> SUFFICES ASSUME Inv, caller = "subscriber", Own, published # <<>>, KnownSorts(query.order),
                    \A t \in ToSet(query.wrapper) : \A l \in LeavesOf(t) : l.op \in SharedOps
             PROVE  LET p == published[1]
                    IN  /\ Wrapped(p.wrapper, ToCodec) = request.wrapper
                        /\ p.order = request.order
                        /\ [f \in DOMAIN p.cursor |-> Plain(p.cursor[f])] = request.cursor
                        /\ query.limit # Absent => p.limit = request.limit
  BY DEF SameForStreams
<1> DEFINE p == published[1]
           q == query
<1>1. stage # "idle" /\ stage \in Called /\ q.json /\ attempt = 1
  BY DEF Own, Called
<1>2. published = StreamsQuery(q)
  BY <1>1 DEF Inv, CallInv
<1>3. /\ p.wrapper = [i \in DOMAIN q.wrapper |-> ToStreams(q.wrapper[i])]
      /\ p.order = MapSorts(q.order, StreamsSort) /\ p.cursor = q.cursor
      /\ p.limit = IF q.limit = Absent THEN 50 ELSE q.limit
  <2> HIDE DEF q
  <2>1. published = <<[wrapper |-> Wrapped(q.wrapper, ToStreams), order |-> MapSorts(q.order, StreamsSort),
                       cursor |-> q.cursor, limit |-> IF q.limit = Absent THEN 50 ELSE q.limit]>>
    BY <1>2 DEF StreamsQuery
  <2>. QED BY <2>1 DEF Wrapped
<1>4. /\ IsQuery(q) /\ \A t \in ToSet(q.wrapper) : Encodable(ToCodec(t))
      /\ IsCursor(q.order, q.cursor)
      /\ request = ReadRequest(QueryRequest(q))
  BY <1>1 DEF Inv, CallInv
<1>5. /\ request.order = Asked(q.order)
      /\ request.limit = IF q.limit = Absent THEN 0 ELSE q.limit
      /\ q.wrapper = <<>> => request.wrapper = <<>>
      /\ q.wrapper # <<>> => request.wrapper = <<ToCodec(q.wrapper[1])>>
      /\ request.cursor = [f \in DOMAIN q.cursor |-> Plain(q.cursor[f])]
  BY <1>4, QueryFields
<1> HIDE DEF p
<1>6. Wrapped(p.wrapper, ToCodec) = request.wrapper
  <2>1. Wrapped(p.wrapper, ToCodec) = [i \in DOMAIN q.wrapper |-> ToCodec(ToStreams(q.wrapper[i]))]
    BY <1>3 DEF Wrapped
  <2>2. CASE q.wrapper = <<>>
    BY <1>5, <2>1, <2>2
  <2>3. CASE q.wrapper # <<>>
    <3> DEFINE t == q.wrapper[1]
    <3>1. q.wrapper = <<t>> /\ IsTree(t)
      BY <1>4, <2>3 DEF IsQuery
    <3>2. request.wrapper = <<ToCodec(t)>>
      BY <1>5, <2>3
    <3> HIDE DEF t, q
    <3>3. DOMAIN q.wrapper = {1} /\ q.wrapper[1] = t /\ t \in ToSet(q.wrapper)
      BY <3>1 DEF ToSet
    <3>4. \A l \in LeavesOf(t) : l.op \in SharedOps
      BY <3>3 DEF q
    <3>5. Wrapped(p.wrapper, ToCodec) = [i \in {1} |-> ToCodec(t)]
      BY <2>1, <3>1, <3>3, <3>4, StreamsTree
    <3>6. <<ToCodec(t)>> = [i \in {1} |-> ToCodec(t)]
      OBVIOUS
    <3>. QED BY <3>2, <3>5, <3>6
  <2>. QED BY <2>2, <2>3
<1>7. p.order = request.order
  <2>1. \A i \in DOMAIN q.order : StreamsSort(q.order[i].sort) = CodecSort(q.order[i].sort)
    BY DEF KnownSorts, StreamsSort, CodecSort
  <2> HIDE DEF q
  <2>2. MapSorts(q.order, StreamsSort) = MapSorts(q.order, CodecSort)
    BY <2>1 DEF MapSorts
  <2>. QED BY <1>3, <1>5, <2>2 DEF Asked
<1>8. [f \in DOMAIN p.cursor |-> Plain(p.cursor[f])] = request.cursor
  BY <1>3, <1>5
<1>. QED BY <1>3, <1>5, <1>6, <1>7, <1>8 DEF p

-----------------------------------------------------------------------------
(* Its steps                                                                *)

LEMMA Typed == Inv => TypeOK
<1> SUFFICES ASSUME Inv PROVE TypeOK
  OBVIOUS
<1>1. /\ ToSet(result.rows) \subseteq snap.rows /\ Len(result.rows) <= request.limit
      /\ stage = "answered" => answer.rows = result.rows
  <2>1. CASE stage \in Told
    <3>1. request.limit \in Nat /\ request.offset \in Nat /\ IsFiniteSet(snap.rows)
      BY DEF Inv, CallInv, SnapInv, IsTable
    <3>2. result.rows \in Selected(request, snap.rows) /\ (stage = "answered" => answer.rows = result.rows)
      BY <2>1 DEF Inv, ReplyInv
    <3>. QED BY <3>1, <3>2, SelectedRows
  <2>2. CASE stage \notin Told
    <3>1. result.rows = <<>> /\ request.limit \in Nat
      BY <2>2 DEF Inv, ReplyInv, NoResult, CallInv
    <3>. QED BY <2>2, <3>1 DEF ToSet, Told
  <2>. QED BY <2>1, <2>2
<1>2. /\ visible \subseteq DOMAIN log /\ Len(log) <= MaxCommits /\ steady \subseteq table
      /\ \A r, q \in table : r.id = q.id => r = q
  BY DEF Inv, DbInv, IsTable
<1>3. /\ caller \in {"rpc", "subscriber"} /\ attempt \in 1..2 /\ pages \in 0..MaxPages
      /\ stage \in {"idle", "sent", "begun", "fenced", "replied", "answered", "failed"}
      /\ lsn \in 0..Len(log) /\ snap.lsns \subseteq visible
  BY DEF Inv, CallInv, SnapInv, Called
<1>. QED BY <1>1, <1>2, <1>3 DEF TypeOK

\* What keeps the parts of the invariant.
LEMMA DbKept == DbInv /\ UNCHANGED dbVars => DbInv'
  BY DEF DbInv, dbVars, Pending

LEMMA GotKept == GotInv /\ UNCHANGED <<query, got>> => GotInv'
  BY DEF GotInv

LEMMA SeenKept == SeenInv /\ UNCHANGED <<query, got>> /\ steady' \subseteq steady => SeenInv'
  BY DEF SeenInv, Understood

LEMMA ReplyKept ==
  ReplyInv /\ UNCHANGED <<caller, query, stage, attempt, request, snap, result, answer>> => ReplyInv'
  BY DEF ReplyInv

LEMMA NoReply == stage' \notin Told /\ result' = NoResult => ReplyInv'
  BY DEF ReplyInv

LEMMA CallKept ==
  /\ CallInv /\ UNCHANGED <<caller, query, published, attempt, request, pages>>
  /\ stage' = stage \/ (stage \in Called /\ stage' \in Called)
  => CallInv'
<1> SUFFICES ASSUME CallInv, UNCHANGED <<caller, query, published, attempt, request, pages>>,
                    stage' = stage \/ (stage \in Called /\ stage' \in Called)
             PROVE  CallInv'
  OBVIOUS
<1>1. /\ stage' = "idle" => stage = "idle"
      /\ stage' \in Called => stage \in Called
      /\ stage' # "idle" => stage # "idle"
      /\ stage' \in {"idle", "failed"} \cup Called
  BY DEF Called, CallInv
<1>. QED BY <1>1 DEF CallInv

\* A call that fails: the retry has a plain request.
LEMMA FailsCall ==
  ASSUME CallInv, Fails, UNCHANGED <<caller, query>>, pages' \in 0..MaxPages,
         caller = "subscriber" /\ query.json => published' = StreamsQuery(query)
  PROVE  CallInv'
<1>1. CASE caller = "subscriber" /\ attempt = 1
  <2>1. stage' = "sent" /\ attempt' = 2 /\ request' = ReadRequest(PlainRequest(0))
    BY <1>1 DEF Fails
  <2>2. request'.limit = 500 /\ request'.offset = 0
    BY <2>1, PlainFields
  <2>3. stage' \in Called /\ stage' # "idle" /\ attempt' # 1
    BY <2>1 DEF Called
  <2>4. \E n \in Nat : request' = ReadRequest(PlainRequest(n))
    BY <2>1
  <2>. QED BY <1>1, <2>1, <2>2, <2>3, <2>4 DEF CallInv
<1>2. CASE ~(caller = "subscriber" /\ attempt = 1)
  <2>1. stage' = "failed" /\ UNCHANGED <<attempt, request>>
    BY <1>2 DEF Fails
  <2>2. stage' \notin Called /\ stage' # "idle"
    BY <2>1 DEF Called
  <2>. QED BY <2>1, <2>2 DEF CallInv
<1>. QED BY <1>1, <1>2

LEMMA InitInv == Init => Inv
<1> SUFFICES ASSUME Init PROVE Inv
  OBVIOUS
<1>1. IsTable(table) /\ steady = table /\ visible = {} /\ log = <<>>
  BY TablesAssumption DEF Init
<1>2. DbInv
  BY <1>1, PagesAssumption DEF DbInv, Pending
<1>3. IsQuery(query) /\ query.cursor = NoCursor
  BY QueriesAssumption DEF Init
<1>4. request.limit \in Nat /\ request.offset \in Nat
  <2>1. request = ReadRequest(PlainRequest(0))
    BY DEF Init, Idle
  <2>2. request.limit = 500 /\ request.offset = 0
    BY <2>1, PlainFields
  <2>. QED BY <2>2
<1>5. stage = "idle" /\ stage \notin Called /\ stage \notin Told
  BY DEF Init, Called, Told
<1>6. CallInv
  <2>1. IsCursor(query.order, query.cursor)
    BY <1>3 DEF IsCursor, NoCursor, GoesOn
  <2>. QED BY <1>3, <1>4, <1>5, <2>1, PagesAssumption DEF Init, CallInv
<1>7. SnapInv
  <2>1. snap.rows = {} /\ snap.lsns = {} /\ lsn = 0
    BY DEF Init, NoSnap
  <2>2. IsTable({})
    BY FS_EmptySet DEF IsTable
  <2>. QED BY <1>1, <1>5, <2>1, <2>2 DEF SnapInv
<1>8. ReplyInv
  BY <1>5 DEF Init, ReplyInv
<1>9. GotInv
  BY DEF Init, GotInv
<1>10. SeenInv
  <2>1. ~GoesOn(Asked(query.order), query.cursor)
    BY <1>3 DEF GoesOn, NoCursor
  <2>. QED BY <2>1 DEF SeenInv, Follows
<1>. QED BY <1>2, <1>6, <1>7, <1>8, <1>9, <1>10 DEF Inv

LEMMA LogStep == ASSUME Inv, NEW ch \in Changes, LogCommit(ch) PROVE Inv'
<1>1. /\ log \in Seq(Changes) /\ log' = Append(log, ch) /\ Len(log) < MaxCommits
      /\ UNCHANGED <<table, visible, steady>> /\ UNCHANGED callVars /\ UNCHANGED <<answer, got, pages>>
  BY DEF Inv, DbInv, LogCommit
<1>2. /\ log' \in Seq(Changes) /\ Len(log') = Len(log) + 1 /\ DOMAIN log' = DOMAIN log \cup {Len(log) + 1}
      /\ \A i \in DOMAIN log : log'[i] = log[i]
      /\ log'[Len(log) + 1] = ch /\ Len(log) \in Nat /\ DOMAIN log = 1..Len(log)
  BY <1>1
<1> DEFINE n == Len(log) + 1
<1>3. n \notin DOMAIN log
  BY <1>2
<1>4. DbInv'
  <2>1. \A i \in Pending' : i # n => i \in Pending
    BY <1>1, <1>2 DEF Pending
  <2>2. \A r \in ch.in, q \in table \ ch.out : r.id # q.id
    BY DEF LogCommit
  <2>3. \A i \in Pending : \A r \in ch.in, q \in log[i].in : r.id # q.id
    BY DEF LogCommit, Pending
  <2>4. ASSUME NEW i \in Pending', NEW r \in log'[i].in, NEW q \in table' \ log'[i].out PROVE r.id # q.id
    <3>1. CASE i = n
      BY <1>1, <1>2, <2>2, <2>4, <3>1
    <3>2. CASE i # n
      <4>1. i \in Pending /\ log'[i] = log[i]
        BY <1>2, <2>1, <3>2 DEF Pending
      <4>. QED BY <1>1, <2>4, <4>1 DEF Inv, DbInv
    <3>. QED BY <3>1, <3>2
  <2>5. ASSUME NEW i \in Pending', NEW j \in Pending', NEW r \in log'[i].in, NEW q \in log'[j].in, i # j
        PROVE  r.id # q.id
    <3>1. \A k \in Pending' : k # n => k \in Pending /\ log'[k] = log[k]
      BY <1>2, <2>1 DEF Pending
    <3>2. CASE i = n
      BY <1>2, <2>3, <2>5, <3>1, <3>2
    <3>3. CASE j = n
      BY <1>2, <2>3, <2>5, <3>1, <3>3
    <3>4. CASE i # n /\ j # n
      BY <2>5, <3>1, <3>4 DEF Inv, DbInv
    <3>. QED BY <3>2, <3>3, <3>4
  <2>6. /\ IsTable(table') /\ steady' \subseteq table'
        /\ log' \in Seq(Changes) /\ Len(log') <= MaxCommits /\ visible' \subseteq DOMAIN log'
    BY <1>1, <1>2, PagesAssumption DEF Inv, DbInv
  <2>. QED BY <2>4, <2>5, <2>6 DEF DbInv
<1>5. CallInv'
  BY <1>1, CallKept DEF Inv, callVars
<1>6. SnapInv'
  BY <1>1, <1>2 DEF Inv, SnapInv, callVars
<1>7. ReplyInv'
  BY <1>1, ReplyKept DEF Inv, callVars
<1>8. GotInv' /\ SeenInv'
  BY <1>1, GotKept, SeenKept DEF Inv, callVars
<1>. QED BY <1>4, <1>5, <1>6, <1>7, <1>8 DEF Inv

LEMMA ShowStep == ASSUME Inv, NEW k \in 1..MaxCommits, Show(k) PROVE Inv'
<1>1. /\ k \in Pending /\ visible' = visible \cup {k}
      /\ table' = (table \ log[k].out) \cup log[k].in
      /\ steady' = steady \ log[k].out
      /\ UNCHANGED log /\ UNCHANGED callVars /\ UNCHANGED <<answer, got, pages>>
  BY DEF Show, Pending
<1>2. IsTable(log[k].in)
  <2>1. log[k] \in Changes
    BY <1>1 DEF Inv, DbInv, Pending
  <2>. QED BY <2>1, TablesAssumption
<1>3. DbInv'
  <2>1. IsTable(table')
    <3>1. IsTable(table) /\ \A r \in log[k].in, q \in table \ log[k].out : r.id # q.id
      BY <1>1 DEF Inv, DbInv
    <3>2. IsFiniteSet(table')
      <4>1. IsFiniteSet(table \ log[k].out)
        BY <3>1, FS_Subset DEF IsTable
      <4>. QED BY <1>1, <1>2, <4>1, FS_Union DEF IsTable
    <3>3. table' \subseteq Rows
      BY <1>1, <1>2, <3>1 DEF IsTable
    <3>4. ASSUME NEW r \in table', NEW q \in table', r.id = q.id PROVE r = q
      BY <1>1, <1>2, <3>1, <3>4 DEF IsTable
    <3>. QED BY <3>2, <3>3, <3>4 DEF IsTable
  <2>2. \A i \in Pending' : i \in Pending /\ i # k
    BY <1>1 DEF Pending
  <2>3. ASSUME NEW i \in Pending', NEW r \in log'[i].in, NEW q \in table' \ log'[i].out PROVE r.id # q.id
    <3>1. CASE q \in table
      BY <1>1, <2>2, <2>3, <3>1 DEF Inv, DbInv
    <3>2. CASE q \in log[k].in
      BY <1>1, <2>2, <2>3, <3>2 DEF Inv, DbInv
    <3>. QED BY <1>1, <3>1, <3>2
  <2>4. ASSUME NEW i \in Pending', NEW j \in Pending', NEW r \in log'[i].in, NEW q \in log'[j].in, i # j
        PROVE  r.id # q.id
    <3>1. i \in Pending /\ j \in Pending /\ r \in log[i].in /\ q \in log[j].in
      BY <1>1, <2>2, <2>4
    <3>. QED BY <2>4, <3>1 DEF Inv, DbInv
  <2>5. /\ steady' \subseteq table' /\ log' \in Seq(Changes) /\ Len(log') <= MaxCommits
        /\ visible' \subseteq DOMAIN log'
    BY <1>1 DEF Inv, DbInv, Pending
  <2>. QED BY <2>1, <2>3, <2>4, <2>5 DEF DbInv
<1>4. CallInv'
  BY <1>1, CallKept DEF Inv, callVars
<1>5. SnapInv'
  BY <1>1 DEF Inv, SnapInv, callVars
<1>6. ReplyInv'
  BY <1>1, ReplyKept DEF Inv, callVars
<1>7. GotInv' /\ SeenInv'
  BY <1>1, GotKept, SeenKept DEF Inv, callVars
<1>. QED BY <1>3, <1>4, <1>5, <1>6, <1>7 DEF Inv

\* The transaction is over.
LEMMA NoSnapInv ==
  ASSUME SnapInv, snap' = NoSnap, lsn' = 0, UNCHANGED dbVars,
         stage' \notin {"begun", "fenced"} \cup Told, Len(log) \in Nat
  PROVE  SnapInv'
<1>1. IsTable({})
  BY FS_EmptySet DEF IsTable
<1>. QED BY <1>1 DEF SnapInv, NoSnap, dbVars

LEMMA LogLen == Inv => Len(log) \in Nat /\ DOMAIN log = 1..Len(log)
  BY DEF Inv, DbInv

LEMMA AskStep == ASSUME Inv, Ask PROVE Inv'
<1>1. /\ stage = "idle" /\ pages' = pages + 1 /\ attempt = 1
      /\ UNCHANGED dbVars /\ UNCHANGED <<caller, query, snap, lsn, result, answer, got>>
      /\ caller = "subscriber" /\ query.json => published' = StreamsQuery(query)
  BY DEF Ask, Inv, CallInv
<1>2. pages' \in 0..MaxPages
  BY <1>1, PagesAssumption DEF Inv, CallInv
<1>3. CASE query.json /\ \E i \in DOMAIN query.wrapper : ~Encodable(ToCodec(query.wrapper[i]))
  <2>1. Fails
    BY <1>3 DEF Ask
  <2>2. CallInv'
    BY <1>1, <1>2, <2>1, FailsCall DEF Inv
  <2>3. stage' \in {"sent", "failed"}
    BY <2>1 DEF Fails
  <2>4. SnapInv'
    BY <1>1, <2>3 DEF Inv, SnapInv, dbVars, Told
  <2>5. ReplyInv'
    BY <1>1, <2>3, NoReply DEF Inv, ReplyInv, Told
  <2>. QED BY <1>1, <2>2, <2>4, <2>5, DbKept, GotKept, SeenKept DEF Inv, dbVars
<1>4. CASE ~(query.json /\ \E i \in DOMAIN query.wrapper : ~Encodable(ToCodec(query.wrapper[i])))
  <2> DEFINE offset == IF caller = "rpc" THEN query.offset ELSE 0
  <2>1. /\ stage' = "sent" /\ UNCHANGED attempt
        /\ request' = ReadRequest(IF query.json THEN QueryRequest(query) ELSE PlainRequest(offset))
    BY <1>4 DEF Ask
  <2>2. IsQuery(query) /\ offset \in Nat /\ IsCursor(query.order, query.cursor)
    BY DEF Inv, CallInv, IsQuery
  <2> HIDE DEF offset
  <2>3. stage' \in Called /\ stage' \notin Told /\ stage' # "idle"
    BY <2>1 DEF Called, Told
  <2>4. CallInv'
    <3>1. CASE query.json
      <4>1. request' = ReadRequest(QueryRequest(query))
        BY <2>1, <3>1
      <4>2. \A t \in ToSet(query.wrapper) : Encodable(ToCodec(t))
        BY <1>4, <3>1 DEF ToSet
      <4>3. request'.limit \in Nat /\ request'.offset \in Nat
        <5>1. request'.limit = (IF query.limit = Absent THEN 0 ELSE query.limit) /\ request'.offset = 0
          BY <2>2, <4>1, <4>2, QueryFields
        <5>. QED BY <2>2, <5>1 DEF IsQuery
      <4>. QED BY <1>1, <1>2, <2>1, <2>3, <3>1, <4>1, <4>2, <4>3 DEF Inv, CallInv
    <3>2. CASE ~query.json
      <4>1. request' = ReadRequest(PlainRequest(offset))
        BY <2>1, <3>2
      <4>2. request'.limit = 500 /\ request'.offset = offset
        BY <2>2, <4>1, PlainFields
      <4>. QED BY <1>1, <1>2, <2>1, <2>2, <2>3, <3>2, <4>1, <4>2 DEF Inv, CallInv
    <3>. QED BY <3>1, <3>2
  <2>5. SnapInv'
    BY <1>1, <2>1 DEF Inv, SnapInv, dbVars, Told
  <2>6. ReplyInv'
    BY <1>1, <2>3, NoReply DEF Inv, ReplyInv, Told
  <2>. QED BY <1>1, <2>4, <2>5, <2>6, DbKept, GotKept, SeenKept DEF Inv, dbVars
<1>. QED BY <1>3, <1>4

LEMMA LoseStep == ASSUME Inv, Lose PROVE Inv'
<1>1. /\ stage \in Called /\ stage # "idle" /\ Fails
      /\ snap' = NoSnap /\ lsn' = 0 /\ result' = NoResult
      /\ UNCHANGED dbVars /\ UNCHANGED <<caller, query, published, answer, got, pages>>
  BY DEF Lose, Called
<1>2. CallInv'
  <2>1. caller = "subscriber" /\ query.json => published' = StreamsQuery(query)
    BY <1>1 DEF Inv, CallInv
  <2>2. pages' \in 0..MaxPages
    BY <1>1 DEF Inv, CallInv
  <2>. QED BY <1>1, <2>1, <2>2, FailsCall DEF Inv
<1>3. stage' \notin {"begun", "fenced"} \cup Told
  BY <1>1 DEF Fails, Told
<1>4. SnapInv' /\ ReplyInv'
  BY <1>1, <1>3, LogLen, NoSnapInv, NoReply DEF Inv
<1>. QED BY <1>1, <1>2, <1>4, DbKept, GotKept, SeenKept DEF Inv, dbVars

LEMMA SelectFailsStep == ASSUME Inv, SelectFails PROVE Inv'
<1>1. /\ stage \in Called /\ stage \notin Told /\ stage # "idle" /\ Fails
      /\ snap' = NoSnap /\ lsn' = 0
      /\ UNCHANGED dbVars /\ UNCHANGED <<caller, query, published, result, answer, got, pages>>
  BY DEF SelectFails, Called, Told
<1>2. CallInv'
  <2>1. caller = "subscriber" /\ query.json => published' = StreamsQuery(query)
    BY <1>1 DEF Inv, CallInv
  <2>2. pages' \in 0..MaxPages
    BY <1>1 DEF Inv, CallInv
  <2>. QED BY <1>1, <2>1, <2>2, FailsCall DEF Inv
<1>3. stage' \notin {"begun", "fenced"} \cup Told
  BY <1>1 DEF Fails, Told
<1>4. SnapInv'
  BY <1>1, <1>3, LogLen, NoSnapInv DEF Inv
<1>5. ReplyInv'
  BY <1>1, <1>3, NoReply DEF Inv, ReplyInv
<1>. QED BY <1>1, <1>2, <1>4, <1>5, DbKept, GotKept, SeenKept DEF Inv, dbVars

LEMMA BeginStep == ASSUME Inv, Begin PROVE Inv'
<1>1. /\ stage = "sent" /\ stage' = "begun" /\ snap' = [rows |-> table, lsns |-> visible]
      /\ UNCHANGED dbVars
      /\ UNCHANGED <<caller, query, published, attempt, request, lsn, result, answer, got, pages>>
  BY DEF Begin
<1>2. CallInv'
  <2>1. stage \in Called /\ stage' \in Called
    BY <1>1 DEF Called
  <2>. QED BY <1>1, <2>1, CallKept DEF Inv
<1>3. SnapInv'
  BY <1>1 DEF Inv, SnapInv, DbInv, dbVars, Told
<1>4. ReplyInv'
  BY <1>1, NoReply DEF Inv, ReplyInv, Told
<1>. QED BY <1>1, <1>2, <1>3, <1>4, DbKept, GotKept, SeenKept DEF Inv, dbVars

LEMMA ReadLsnStep == ASSUME Inv, ReadLsn PROVE Inv'
<1>1. /\ stage = "begun" /\ stage' = "fenced" /\ lsn' = Len(log)
      /\ UNCHANGED dbVars
      /\ UNCHANGED <<caller, query, published, attempt, request, snap, result, answer, got, pages>>
  BY DEF ReadLsn
<1>2. CallInv'
  <2>1. stage \in Called /\ stage' \in Called
    BY <1>1 DEF Called
  <2>. QED BY <1>1, <2>1, CallKept DEF Inv
<1>3. SnapInv'
  <2>1. \A i \in snap.lsns : i <= Len(log)
    BY LogLen DEF Inv, SnapInv, DbInv
  <2>2. lsn' = Len(log') /\ Len(log') \in Nat /\ snap' = snap /\ steady' = steady /\ visible' = visible
    BY <1>1, LogLen DEF dbVars
  <2>3. IsTable(snap.rows) /\ snap.lsns \subseteq visible /\ steady \subseteq snap.rows
    BY <1>1 DEF Inv, SnapInv
  <2>4. \A i \in snap'.lsns : i <= lsn'
    BY <1>1, <2>1, <2>2
  <2>5. lsn' \in 0..Len(log')
    BY <2>2
  <2>. QED BY <2>2, <2>3, <2>4, <2>5 DEF SnapInv
<1>4. ReplyInv'
  BY <1>1, NoReply DEF Inv, ReplyInv, Told
<1>. QED BY <1>1, <1>2, <1>3, <1>4, DbKept, GotKept, SeenKept DEF Inv, dbVars

LEMMA SelectStep == ASSUME Inv, Select PROVE Inv'
<1>1. /\ stage = "fenced" /\ Runs(request) /\ stage' = "replied"
      /\ UNCHANGED dbVars
      /\ UNCHANGED <<caller, query, published, attempt, request, snap, lsn, answer, got, pages>>
  BY DEF Select
<1>2. CallInv'
  <2>1. stage \in Called /\ stage' \in Called
    BY <1>1 DEF Called
  <2>. QED BY <1>1, <2>1, CallKept DEF Inv
<1>3. SnapInv'
  BY <1>1 DEF Inv, SnapInv, dbVars, Told
<1>4. ReplyInv'
  <2>1. PICK rows \in Selected(request, snap.rows) :
          result' = [rows |-> rows, cursor |-> CursorOf(request.order, rows)]
    BY DEF Select
  <2>2. result'.rows = rows /\ result'.cursor = CursorOf(request.order, rows)
    BY <2>1
  <2>. QED BY <1>1, <2>1, <2>2 DEF ReplyInv, Told
<1>. QED BY <1>1, <1>2, <1>3, <1>4, DbKept, GotKept, SeenKept DEF Inv, dbVars

LEMMA DeliverStep == ASSUME Inv, Deliver PROVE Inv'
<1>1. /\ stage = "replied" /\ stage' = "answered"
      /\ UNCHANGED dbVars
      /\ UNCHANGED <<caller, query, published, attempt, request, snap, lsn, result, got, pages>>
  BY DEF Deliver
<1>2. CallInv'
  <2>1. stage \in Called /\ stage' \in Called
    BY <1>1 DEF Called
  <2>. QED BY <1>1, <2>1, CallKept DEF Inv
<1>3. SnapInv'
  BY <1>1 DEF Inv, SnapInv, dbVars, Told
<1>4. ReplyInv'
  <2>1. answer' = [unpacked |-> caller = "subscriber" /\ query.json /\ attempt = 1,
                   rows |-> result.rows,
                   cursor |-> IF caller = "rpc" \/ (query.json /\ attempt = 1) THEN result.cursor
                              ELSE CursorOf(<<>>, <<>>)]
    BY DEF Deliver
  <2>. QED BY <1>1, <2>1 DEF Inv, ReplyInv, Told
<1>. QED BY <1>1, <1>2, <1>3, <1>4, DbKept, GotKept, SeenKept DEF Inv, dbVars

\* Rows that are equal in the keys come before the same rows.
LEMMA SameKeys ==
  ASSUME NEW order, IsOrder(order), NEW a, NEW b,
         \A i \in DOMAIN order : a[order[i].field] = b[order[i].field], NEW x
  PROVE  Before(order, a, x) <=> Before(order, b, x)
<1>1. \A i \in DOMAIN order : \A j \in 1..(i - 1) : j \in DOMAIN order
  BY OrderKeys
<1>. QED BY <1>1 DEF Before

\* The cursor a client is given is that of its own query's page, or has nothing but the LSN.
LEMMA Given ==
  ASSUME Inv, stage = "answered", query.json
  PROVE  /\ answer.rows = result.rows /\ result.rows \in Seq(Rows)
         /\ \E order \in {<<>>, Asked(query.order)} : answer.cursor = CursorOf(order, result.rows)
         /\ GoesOn(query.order, answer.cursor) =>
              /\ Own /\ result.rows # <<>>
              /\ answer.cursor = CursorOf(Asked(query.order), result.rows)
<1> DEFINE own == query.json /\ attempt = 1
           rows == result.rows
<1>1. answer = [unpacked |-> caller = "subscriber" /\ own, rows |-> rows,
                cursor |-> IF caller = "rpc" \/ own THEN result.cursor ELSE CursorOf(<<>>, <<>>)]
  BY DEF Inv, ReplyInv, Told
<1> HIDE DEF own
<1>2. /\ answer.rows = rows
      /\ answer.cursor = IF caller = "rpc" \/ own THEN result.cursor ELSE CursorOf(<<>>, <<>>)
  BY <1>1
<1>3. rows \in Seq(Rows)
  <2>1. request.limit \in Nat /\ request.offset \in Nat /\ IsTable(snap.rows)
    BY DEF Inv, CallInv, SnapInv
  <2>2. rows \in Selected(request, snap.rows)
    BY DEF Inv, ReplyInv, Told
  <2>3. rows \in Seq(Hits(request, snap.rows)) /\ Hits(request, snap.rows) \subseteq snap.rows
    BY <2>1, <2>2, SelectedRows DEF IsTable
  <2>4. Hits(request, snap.rows) \subseteq Rows
    BY <2>1, <2>3 DEF IsTable
  <2>. QED BY <2>3, <2>4
<1>4. CASE caller = "rpc" \/ own
  <2>1. own
    BY <1>4 DEF Inv, CallInv, own
  <2>2. Own
    BY <2>1 DEF Own, own
  <2>3. request.order = Asked(query.order) /\ IsOrder(query.order) /\ IsOrder(request.order)
    BY <2>2, OwnPage
  <2>4. answer.cursor = CursorOf(Asked(query.order), rows)
    BY <1>2, <1>4, <2>3 DEF Inv, ReplyInv, Told
  <2>5. GoesOn(Asked(query.order), answer.cursor) => rows # <<>>
    <3> DEFINE o == Asked(query.order)
    <3>1. IsOrder(o)
      BY <2>3
    <3> HIDE DEF o
    <3>2. GoesOn(o, CursorOf(o, rows)) => rows # <<>>
      BY <1>3, <3>1, CursorMade
    <3>. QED BY <2>4, <3>2 DEF o
  <2>6. GoesOn(query.order, answer.cursor) => rows # <<>>
    BY <2>3, <2>5, AskedKeys
  <2>. QED BY <1>2, <1>3, <2>2, <2>4, <2>6
<1>5. CASE ~(caller = "rpc" \/ own)
  <2>1. answer.cursor = CursorOf(<<>>, <<>>)
    BY <1>2, <1>5
  <2>2. CursorOf(<<>>, rows) = CursorOf(<<>>, <<>>) /\ DOMAIN CursorOf(<<>>, <<>>) = {"lsn"}
    BY DEF CursorOf
  <2>3. ~GoesOn(query.order, answer.cursor)
    <3>1. \A i \in DOMAIN query.order : query.order[i].field # "lsn"
      BY OrderKeys, ValuesAssumption DEF Inv, CallInv, IsQuery
    <3>. QED BY <2>1, <2>2, <3>1 DEF GoesOn
  <2>. QED BY <1>2, <1>3, <2>1, <2>2, <2>3
<1>. QED BY <1>4, <1>5

LEMMA NextPageStep == ASSUME Inv, NextPage PROVE Inv'
<1> DEFINE page == result.rows
           last == page[Len(page)]
           order == query.order
           asked == Asked(order)
           on == GoesOn(order, answer.cursor)
           c == query'.cursor
<1>1. /\ stage = "answered" /\ pages < MaxPages /\ query.json
      /\ query' = [query EXCEPT !.cursor =
                     [f \in DOMAIN answer.cursor |-> [tag |-> "StringValue", v |-> answer.cursor[f].v]]]
      /\ got' = IF on THEN got \cup ToSet(answer.rows) ELSE {}
      /\ stage' = "idle" /\ attempt' = 1 /\ snap' = NoSnap /\ lsn' = 0 /\ result' = NoResult
      /\ UNCHANGED dbVars /\ UNCHANGED <<caller, published, request, pages>>
  BY DEF NextPage
<1>2. /\ answer.rows = page /\ page \in Seq(Rows)
      /\ \E o \in {<<>>, asked} : answer.cursor = CursorOf(o, page)
      /\ on => Own /\ page # <<>> /\ answer.cursor = CursorOf(asked, page)
  BY <1>1, Given
<1>3. IsQuery(query) /\ IsOrder(order) /\ IsOrder(asked)
  BY AskedKeys DEF Inv, CallInv, IsQuery
<1>4. /\ query'.json = query.json /\ query'.wrapper = query.wrapper /\ query'.order = order
      /\ query'.limit = query.limit /\ query'.offset = query.offset /\ DOMAIN query' = DOMAIN query
      /\ c = [f \in DOMAIN answer.cursor |-> [tag |-> "StringValue", v |-> answer.cursor[f].v]]
  <2>1. DOMAIN query = {"json", "wrapper", "order", "limit", "cursor", "offset"}
    BY <1>3 DEF IsQuery
  <2>. QED BY <1>1, <2>1
<1>5. IsQuery(query')
  BY <1>3, <1>4 DEF IsQuery
<1> HIDE DEF c, last, page, order, asked, on
<1>6. IsCursor(order, c) /\ (GoesOn(order, c) <=> on)
  <2>1. PICK o \in {<<>>, asked} : answer.cursor = CursorOf(o, page)
    BY <1>2
  <2>2. IsOrder(o) /\ Fields(o) \subseteq Fields(order)
    <3>1. IsOrder(<<>>) /\ Fields(<<>>) = {}
      BY DEF IsOrder, Fields
    <3>2. IsOrder(asked) /\ Fields(asked) = Fields(order)
      BY <1>3, AskedKeys DEF asked
    <3>. QED BY <2>1, <3>1, <3>2
  <2>3. /\ DOMAIN c \subseteq Fields(o) \cup {"lsn"} /\ "lsn" \in DOMAIN c
        /\ \A f \in DOMAIN c : c[f] = [tag |-> "StringValue", v |-> c[f].v] /\ c[f].v \in Int \cup {Null}
    <3>1. /\ DOMAIN answer.cursor \subseteq Fields(o) \cup {"lsn"} /\ "lsn" \in DOMAIN answer.cursor
          /\ \A f \in DOMAIN answer.cursor : answer.cursor[f].v \in Int \cup {Null}
      <4> DEFINE made == CursorOf(o, page)
      <4>1. page \in Seq(Rows)
        BY <1>2
      <4>2. /\ page = <<>> => DOMAIN made = {"lsn"}
            /\ page # <<>> => DOMAIN made = Fields(o) \cup {"lsn"}
            /\ \A f \in DOMAIN made : made[f].v \in Int \cup {Null}
        BY <2>2, <4>1, CursorMade
      <4> HIDE DEF made
      <4>3. answer.cursor = made
        BY <2>1 DEF made
      <4>. QED BY <4>2, <4>3
    <3>. QED BY <1>4, <3>1
  <2>4. GoesOn(order, c) <=> on
    BY <1>4 DEF GoesOn, on
  <2>5. on => Fields(order) \subseteq DOMAIN c
    <3>1. on => DOMAIN answer.cursor = Fields(asked) \cup {"lsn"}
      BY <1>2, <1>3, CursorMade
    <3>2. Fields(asked) = Fields(order)
      BY <1>3, AskedKeys DEF asked
    <3>. QED BY <1>4, <3>1, <3>2
  <2>6. c = [f \in DOMAIN c |-> c[f]]
    BY <1>4
  <2>7. DOMAIN c \subseteq Fields(order) \cup {"lsn"}
    BY <2>2, <2>3
  <2>. QED BY <2>3, <2>4, <2>5, <2>6, <2>7 DEF IsCursor
<1>7. DbInv'
  BY <1>1, DbKept DEF Inv
<1>8. CallInv'
  <2>1. stage' \notin Called
    BY <1>1 DEF Called
  <2>. QED BY <1>1, <1>4, <1>5, <1>6, <2>1 DEF Inv, CallInv, c
<1>9. SnapInv' /\ ReplyInv'
  <2>1. stage' \notin {"begun", "fenced"} \cup Told
    BY <1>1 DEF Told
  <2>. QED BY <1>1, <2>1, LogLen, NoSnapInv, NoReply DEF Inv
<1>10. CASE ~on
  <2>1. got' = {}
    BY <1>1, <1>10
  <2>2. GotInv'
    BY <2>1 DEF GotInv
  <2>3. ~GoesOn(asked, c)
    BY <1>3, <1>6, <1>10, AskedKeys DEF asked
  <2>4. SeenInv'
    BY <1>4, <2>3 DEF SeenInv, Follows, asked, c
  <2>. QED BY <1>7, <1>8, <1>9, <2>2, <2>4 DEF Inv
<1>11. CASE on
  <2>1. /\ Own /\ page # <<>> /\ answer.cursor = CursorOf(asked, page)
        /\ got' = got \cup ToSet(page) /\ GoesOn(order, c) /\ request.order = asked
    BY <1>1, <1>2, <1>6, <1>11, OwnPage DEF asked, order
  <2>2. /\ page \in Seq(snap.rows) /\ Len(page) \in DOMAIN page /\ DOMAIN page = 1..Len(page)
        /\ Len(page) \in Nat
    <3>1. page \in Seq(snap.rows)
      BY <2>1, OwnPage DEF page
    <3>. QED BY <2>1, <3>1, EmptySeq, LenProperties
  <2>3. last \in ToSet(page) /\ last \in snap.rows /\ last \in Rows
    <3>1. IsTable(snap.rows)
      BY DEF Inv, SnapInv
    <3>. QED BY <2>2, <3>1 DEF ToSet, IsTable, last
  <2>4. ASSUME NoNullTexts(order, got')
        PROVE  /\ NoNullTexts(order, got)
               /\ \A x : Before(asked, ValuesOf(c), x) <=> Before(asked, last, x)
    <3>1. ASSUME NEW f \in Fields(order) PROVE ValuesOf(c)[f] = last[f]
      <4>1. f \in Fields(asked)
        BY <1>3, <3>1, AskedKeys DEF asked
      <4>3. page \in Seq(Rows) /\ page # <<>> /\ IsOrder(asked)
        BY <1>2, <1>3, <2>1
      <4>4. CursorOf(asked, page)[f].v =
              IF page[Len(page)][f] = Null /\ f \in TextColumns THEN NullText ELSE page[Len(page)][f]
        BY <4>1, <4>3, CursorMade
      <4>5. answer.cursor[f].v = IF last[f] = Null /\ f \in TextColumns THEN NullText ELSE last[f]
        BY <2>1, <4>4 DEF last
      <4>6. DOMAIN answer.cursor = Fields(asked) \cup {"lsn"}
        BY <2>1, <4>3, CursorMade
      <4>2. f \in TextColumns => last[f] # Null
        BY <2>1, <2>3, <2>4, <3>1 DEF NoNullTexts, Fields
      <4>. QED BY <1>4, <4>1, <4>2, <4>5, <4>6 DEF ValuesOf
    <3>2. \A i \in DOMAIN asked : ValuesOf(c)[asked[i].field] = last[asked[i].field]
      BY <1>3, <3>1, AskedKeys DEF Fields, asked
    <3>3. \A x : Before(asked, ValuesOf(c), x) <=> Before(asked, last, x)
      BY <1>3, <3>2, SameKeys
    <3>4. NoNullTexts(order, got)
      BY <2>1, <2>4 DEF NoNullTexts
    <3>. QED BY <3>3, <3>4
  <2>5. GotInv'
    <3> SUFFICES ASSUME NEW q \in got'
                 PROVE  q \in Rows /\ (NoNullTexts(order, got') => ~Before(asked, last, q))
      <4>1. NoNullTexts(order, got)' <=> NoNullTexts(order, got')
        BY <1>4 DEF NoNullTexts, order
      <4>. QED BY <1>4, <2>1, <2>4, <4>1 DEF GotInv, c, asked
    <3>1. CASE q \in got
      <4>1. q \in Rows
        BY <3>1 DEF Inv, GotInv
      <4>2. ASSUME NoNullTexts(order, got') PROVE Before(asked, q, last)
        BY <2>1, <2>3, <2>4, <3>1, <4>2, Forward DEF PagesAdvance, page, order
      <4>. QED BY <1>3, <2>3, <4>1, <4>2, KeyedRows, BeforeAsym
    <3>2. CASE q \in ToSet(page)
      <4>1. PICK i \in DOMAIN page : page[i] = q
        BY <3>2 DEF ToSet
      <4>2. q \in Rows
        BY <1>2, <4>1
      <4>3. CASE i = Len(page)
        <5>1. q = last
          BY <4>1, <4>3 DEF last
        <5>. QED BY <1>3, <2>3, <4>2, <5>1, KeyedRows, BeforeAsym
      <4>4. CASE i # Len(page)
        <5>1. i < Len(page) /\ last = page[Len(page)]
          BY <2>2, <4>4 DEF last
        <5>2. Sorted(asked, page)
          BY <2>1, OwnPage DEF page
        <5>. QED BY <2>2, <4>1, <4>2, <5>1, <5>2 DEF Sorted
      <4>. QED BY <4>3, <4>4
    <3>. QED BY <2>1, <3>1, <3>2
  <2>6. SeenInv'
    <3> SUFFICES ASSUME Understood, Total(order), NoNullTexts(order, got'),
                        NEW r \in steady, Meets(query, r), NoNullKeys(order, {r}),
                        r \notin got, r \notin ToSet(page)
                 PROVE  Before(asked, last, r)
      <4>1. /\ Understood' <=> Understood
            /\ \A r : Meets(query, r)' <=> Meets(query, r)
        BY <1>4 DEF Understood, Meets
      <4>2. NoNullTexts(order, got') => \A r : Before(asked, last, r) => Follows(asked, c, r)
        BY <2>4 DEF Follows, ValuesOf
      <4>3. NoNullTexts(order, got)' <=> NoNullTexts(order, got')
        BY <1>4 DEF NoNullTexts, order
      <4>. QED BY <1>1, <1>4, <2>1, <4>1, <4>2, <4>3 DEF SeenInv, dbVars, c, asked
    <3>1. Follows(asked, query.cursor, r)
      BY <2>4 DEF Inv, SeenInv, order, asked
    <3>2. r \in snap.rows
      BY <1>1 DEF Inv, SnapInv, Told
    <3>3. ~Before(asked, r, last)
      <4>1. r \in Hits(request, snap.rows) \ ToSet(page)
        BY <2>1, <3>1, <3>2, OwnPage DEF order, page
      <4>. QED BY <2>1, <2>2, <4>1, OwnPage DEF page, last
    <3>4. r \in Rows /\ r.id # last.id
      <4>1. r # last /\ IsTable(snap.rows)
        BY <2>3 DEF Inv, SnapInv
      <4>. QED BY <2>3, <3>2, <4>1 DEF IsTable
    <3>5. Total(asked)
      BY <1>3, AskedKeys DEF asked
    <3>. QED BY <1>3, <2>3, <3>3, <3>4, <3>5, KeyedRows, BeforeTotal
  <2>. QED BY <1>7, <1>8, <1>9, <2>5, <2>6 DEF Inv
<1>. QED BY <1>10, <1>11

LEMMA StutterStep == ASSUME Inv, UNCHANGED vars PROVE Inv'
<1>1. /\ UNCHANGED dbVars
      /\ UNCHANGED <<caller, query, published, stage, attempt, request, snap, lsn, result, answer, got, pages>>
  BY DEF vars, callVars
<1>2. CallInv'
  BY <1>1, CallKept DEF Inv
<1>3. SnapInv'
  BY <1>1 DEF Inv, SnapInv, dbVars
<1>. QED BY <1>1, <1>2, <1>3, DbKept, ReplyKept, GotKept, SeenKept DEF Inv, dbVars

\* The inductive invariant: it holds at first and every action keeps it.
THEOREM Invariance == Spec => []Inv
<1>1. Inv /\ [Next]_vars => Inv'
  BY LogStep, ShowStep, AskStep, LoseStep, DeliverStep, NextPageStep, BeginStep, ReadLsnStep,
     SelectStep, SelectFailsStep, StutterStep DEF Next
<1>. QED BY InitInv, <1>1, PTL DEF Spec

\* TypeOK, with the unique ids of the table and the limit of every reply.
THEOREM Types == Spec => []TypeOK
  BY Invariance, Typed, PTL

\* A page of the client's own query is exactly the first rows it asks for, through all conversions.
THEOREM PagesExact == Spec => []PageExact
  BY Invariance, ExactPage, PTL

\* Each row of a page comes after every row of the pages before it, whatever commits in between.
THEOREM PagesForward == Spec => []PagesAdvance
  BY Invariance, Forward, PTL

\* When a page is short, no matching row that was there all the time is missing from the pages.
THEOREM NoneSkipped == Spec => []NothingSkipped
  BY Invariance, NoneLost, PTL

\* The LSN of a reply covers every commit its rows show.
THEOREM LsnCovers == Spec => []VisibleCovered
  BY Invariance, Covered, PTL

\* Streams is given the query that the snapshot answers.
THEOREM StreamsSame == Spec => []SameForStreams
  BY Invariance, Streamed, PTL

\* A subscriber's array of rows has only rows that its filters let through.
THEOREM ArrayFiltered == Spec => []ArrayMeansFiltered
  BY Invariance, Filtered, PTL
=============================================================================
