----------------------------- MODULE DataQuery -----------------------------
(***************************************************************************)
(* One client reads pages of a table that others change: GET_DATA from the *)
(* client's JSON, through the gateway, the codec and the worker, to a      *)
(* repeatable-read transaction of Postgres, and back.  The client is an    *)
(* RPC caller or a subscriber, whose snapshot getSnapshot fetches with one *)
(* retry.  How a call times out or gets lost is module SqlRpc's subject:   *)
(* here a call may fail at any moment.                                     *)
(*                                                                         *)
(* A commit gets its LSN when it is logged and becomes visible to new      *)
(* snapshots later, not always in that order.  LSNs are positions of log.  *)
(***************************************************************************)
EXTENDS QueryTree, FiniteSets, SequencesExt

CONSTANTS Columns,
          Tables,     \* initial contents, sets of rows
          Queries,    \* what the client asks for first
          Changes,    \* [out, in]: rows a commit removes and adds
          MaxCommits, \* bound
          MaxPages    \* bound

NoCursor == [f \in {} |-> Null]
Rows == [Columns -> Int \cup {Null}]

\* Rows with a primary key.
IsTable(rows) == rows \subseteq Rows /\ IsFiniteSet(rows) /\ \A r, q \in rows : r.id = q.id => r = q

IsTree(t) ==
  /\ Root \in DOMAIN t /\ IsWrapper(t[Root])
  /\ \A i \in DOMAIN t :
       \/ DOMAIN t[i] = {"type", "filters"} /\ t[i].filters \in Seq(DOMAIN t)
       \/ DOMAIN t[i] = {"field", "op", "value"}

IsOrder(order) == order \in Seq([field : Columns, sort : STRING \cup Sorts])

IsQuery(q) ==
  /\ DOMAIN q = {"json", "wrapper", "order", "limit", "cursor", "offset"}
  /\ q.json \in BOOLEAN /\ q.limit \in Nat \cup {Absent} /\ q.offset \in Nat
  /\ q.wrapper = <<>> \/ (q.wrapper = <<q.wrapper[1]>> /\ IsTree(q.wrapper[1]))
  /\ IsOrder(q.order)

ASSUME PagesAssumption == MaxCommits \in Nat /\ MaxPages \in Nat \ {0}
ASSUME ValuesAssumption ==
  /\ Null \notin Int /\ Absent \notin Int /\ NullText \in Int
  /\ "id" \in Columns /\ "lsn" \notin Columns
ASSUME TablesAssumption ==
  /\ \A rows \in Tables : IsTable(rows)
  /\ \A ch \in Changes : IsTable(ch.in)
ASSUME QueriesAssumption == \A q \in Queries : IsQuery(q) /\ q.cursor = NoCursor

VARIABLES
  table, visible, \* rows and LSNs of the commits that snapshots see
  log,            \* changes that are logged
  caller,         \* "rpc" or "subscriber"
  query,          \* the client's JSON, see MCDataQuery
  published,      \* the query as Streams was given it
  stage,          \* of the call: "idle", "sent", "begun", "fenced", "replied", ...
  attempt,        \* 2 for getSnapshot's retry
  request,        \* as the worker reads it
  snap,           \* what the transaction sees: [rows, lsns]
  lsn,            \* pg_current_wal_lsn() as the transaction read it
  result,         \* reply: [rows, cursor]
  answer,         \* what the client gets: [unpacked, rows, cursor]
  got,            \* rows of the pages before, since they last started over
  steady,         \* rows that have been there all the time
  pages           \* counted for the bound

dbVars == <<table, visible, log, steady>>
callVars == <<caller, query, published, stage, attempt, request, snap, lsn, result>>
vars == <<dbVars, callVars, answer, got, pages>>

NoSnap == [rows |-> {}, lsns |-> {}]
NoResult == [rows |-> <<>>, cursor |-> NoCursor]
NoAnswer == [unpacked |-> FALSE, rows |-> <<>>, cursor |-> NoCursor]
-----------------------------------------------------------------------------
(* The request                                                              *)

\* A list of at most one tree.
Wrapped(trees, Op(_)) == [i \in DOMAIN trees |-> Op(trees[i])]

Defaults == [wrapper |-> <<>>, limit |-> 0, offset |-> 0, order |-> <<>>,
             cursor |-> NoCursor, strictAfter |-> TRUE]

(* A FlatBuffers table as it is read: fields not added have defaults.       *)
GetDataReq(added) == [f \in DOMAIN Defaults |-> IF f \in DOMAIN added THEN added[f] ELSE Defaults[f]]

(* getDataSnapshot: no filter, order or cursor.                             *)
PlainRequest(offset) == GetDataReq([limit |-> 500, offset |-> offset])

(* encodeGetData: a limit that is undefined is not added.                   *)
EncodeGetData(limit, fields) ==
  LET r == GetDataReq(fields)
  IN  IF limit = Absent THEN r ELSE [r EXCEPT !.limit = limit]

(* getDataSnapshotWithQueryJson; the worker reads sorts as they are written. *)
QueryRequest(q) ==
  LET Encoded(t) == ToWire(ToCodec(t))
  IN  EncodeGetData(q.limit,
        [wrapper |-> Wrapped(q.wrapper, Encoded),
         order |-> MapSorts(q.order, CodecSort),
         cursor |-> [f \in DOMAIN q.cursor |-> FbValue(Plain(q.cursor[f]))],
         strictAfter |-> TRUE])

(* Mutant: rows equal to the cursor are taken again.                        *)
ReadRequestFrom(r) ==
  [r EXCEPT !.wrapper = Wrapped(@, FromWire),
            !.cursor = [f \in DOMAIN @ |-> ReadValue(@[f])], !.strictAfter = FALSE]

(* handleGetData of the worker.                                             *)
ReadRequest(r) ==
  [r EXCEPT !.wrapper = Wrapped(@, FromWire), !.cursor = [f \in DOMAIN @ |-> ReadValue(@[f])]]

Idle == ReadRequest(PlainRequest(0))

(* encodeStreamingFilterJson: one query, or none.                           *)
StreamsQuery(q) ==
  IF /\ \A t \in ToSet(q.wrapper) : StreamsEncodable(t)
     /\ \A f \in DOMAIN q.cursor : Buildable(q.cursor[f])
  THEN <<[wrapper |-> Wrapped(q.wrapper, ToStreams),
          order |-> MapSorts(q.order, StreamsSort),
          cursor |-> q.cursor,
          limit |-> IF q.limit = Absent THEN 50 ELSE q.limit]>>
  ELSE <<>>

(* The cursor of a result: the last row's keys, each value as text, and the *)
(* LSN, which nothing of it is compared with again.                         *)
LsnText == [js |-> "string", v |-> 0]
CursorOf(order, rows) ==
  LET keys == IF rows = <<>> THEN {} ELSE {order[i].field : i \in DOMAIN order}
  IN  [f \in keys \cup {"lsn"} |-> IF f = "lsn" THEN LsnText ELSE TextOf(f, rows[Len(rows)][f])]

\* Without a key of the order, applyKeysetCursor leaves the query as it is: pages start over.
GoesOn(order, cursor) == \E i \in DOMAIN order : order[i].field \in DOMAIN cursor
-----------------------------------------------------------------------------
Init ==
  /\ table \in Tables /\ visible = {} /\ log = <<>> /\ steady = table
  /\ caller \in {"rpc", "subscriber"} /\ query \in Queries
  /\ published = <<>> /\ stage = "idle" /\ attempt = 1 /\ request = Idle
  /\ snap = NoSnap /\ lsn = 0 /\ result = NoResult
  /\ answer = NoAnswer /\ got = {} /\ pages = 0

(* A commit is logged.  Its rows are locked by other pending commits.       *)
LogCommit(ch) ==
  /\ Len(log) < MaxCommits
  /\ ch.out \subseteq table /\ ch.in \cap table = {}
  /\ \A i \in DOMAIN log \ visible :
       {r.id : r \in log[i].out \cup log[i].in} \cap {r.id : r \in ch.out \cup ch.in} = {}
  /\ \A r \in ch.in, q \in table \ ch.out : r.id # q.id
  /\ log' = Append(log, ch)
  /\ UNCHANGED <<table, visible, steady, callVars, answer, got, pages>>

Show(i) ==
  /\ i \in DOMAIN log \ visible
  /\ visible' = visible \cup {i}
  /\ table' = (table \ log[i].out) \cup log[i].in
  /\ steady' = steady \ log[i].out
  /\ UNCHANGED <<log, callVars, answer, got, pages>>
-----------------------------------------------------------------------------
(* The gateway                                                              *)

(* The call is rejected: a first attempt of getSnapshot is followed by a    *)
(* plain request, any other failure reaches the client.                     *)
Fails ==
  IF caller = "subscriber" /\ attempt = 1
  THEN stage' = "sent" /\ attempt' = 2 /\ request' = ReadRequest(PlainRequest(0))
  ELSE stage' = "failed" /\ UNCHANGED <<attempt, request>>

(* handleSubscribe publishes the query and calls getSnapshot; handleRpc     *)
(* calls the client at once.  Encoding may throw.                           *)
Ask ==
  /\ stage = "idle"
  /\ published' = IF caller = "subscriber" /\ query.json THEN StreamsQuery(query) ELSE <<>>
  /\ IF query.json /\ \E i \in DOMAIN query.wrapper : ~Encodable(ToCodec(query.wrapper[i]))
     THEN Fails
     ELSE /\ stage' = "sent" /\ UNCHANGED attempt
          /\ request' = ReadRequest(IF query.json THEN QueryRequest(query)
                                    ELSE PlainRequest(IF caller = "rpc" THEN query.offset ELSE 0))
  /\ pages' = pages + 1
  /\ UNCHANGED <<dbVars, caller, query, snap, lsn, result, answer, got>>

(* A timeout, a lost message, a lost connection.                            *)
Lose ==
  /\ stage \in {"sent", "begun", "fenced", "replied"}
  /\ Fails
  /\ snap' = NoSnap /\ lsn' = 0 /\ result' = NoResult
  /\ UNCHANGED <<dbVars, caller, query, published, answer, got, pages>>

(* Mutant: whatever rows came are unpacked.                                 *)
DeliverAnyRows ==
  /\ stage = "replied" /\ stage' = "answered"
  /\ answer' = [unpacked |-> caller = "subscriber", rows |-> result.rows, cursor |-> result.cursor]
  /\ UNCHANGED <<dbVars, caller, query, published, attempt, request, snap, lsn, result, got, pages>>

(* The rest of getSnapshot, or of handleRpc.  Only the reply to the query   *)
(* itself is unpacked; otherwise the whole reply becomes the rows.          *)
Deliver ==
  /\ stage = "replied" /\ stage' = "answered"
  /\ answer' =
       LET own == query.json /\ attempt = 1
       IN  [unpacked |-> caller = "subscriber" /\ own,
            rows |-> result.rows,
            cursor |-> IF caller = "rpc" \/ own THEN result.cursor ELSE CursorOf(<<>>, <<>>)]
  /\ UNCHANGED <<dbVars, caller, query, published, attempt, request, snap, lsn, result, got, pages>>

(* The client asks for the page after the cursor it was given, as text.     *)
NextPage ==
  /\ stage = "answered" /\ pages < MaxPages
  /\ query.json
  /\ query' = [query EXCEPT !.cursor =
                 [f \in DOMAIN answer.cursor |-> [tag |-> "StringValue", v |-> answer.cursor[f].v]]]
  /\ got' = IF GoesOn(query.order, answer.cursor) THEN got \cup ToSet(answer.rows) ELSE {}
  /\ stage' = "idle" /\ attempt' = 1 /\ snap' = NoSnap /\ lsn' = 0 /\ result' = NoResult /\ answer' = NoAnswer
  /\ UNCHANGED <<dbVars, caller, published, request, pages>>
-----------------------------------------------------------------------------
(* The worker and the database                                              *)

(* BEGIN; the first statement takes the snapshot of the transaction ...     *)
Begin ==
  /\ stage = "sent" /\ stage' = "begun"
  /\ snap' = [rows |-> table, lsns |-> visible]
  /\ UNCHANGED <<dbVars, caller, query, published, attempt, request, lsn, result, answer, got, pages>>

(* ... and then evaluates pg_current_wal_lsn().                             *)
ReadLsn ==
  /\ stage = "begun" /\ stage' = "fenced"
  /\ lsn' = Len(log)
  /\ UNCHANGED <<dbVars, caller, query, published, attempt, request, snap, result, answer, got, pages>>

(* buildQuery compiles, and Postgres can read the cursor's texts.           *)
Runs(r) ==
  /\ \A t \in ToSet(r.wrapper) : Compiles(t)
  /\ \A k \in ToSet(r.order) :
       k.field \in DOMAIN r.cursor => Readable(k.field, r.cursor[k.field])

Hits(r, rows) ==
  {x \in rows : /\ \A t \in ToSet(r.wrapper) : Where(t, x)
                /\ AfterCursor(r.order, r.cursor, r.strictAfter, x)}

(* Mutant: one row more, to know whether there is a next page.              *)
SelectedOneMore(r, rows) ==
  {SubSeq(s, r.offset + 1, IF r.offset + r.limit < Len(s) THEN r.offset + r.limit + 1 ELSE Len(s)) :
     s \in {s \in SetToSeqs(Hits(r, rows)) : Sorted(r.order, s)}}

(* The rows a SELECT may return, in the order it may return them.           *)
Selected(r, rows) ==
  {SubSeq(s, r.offset + 1, IF r.offset + r.limit < Len(s) THEN r.offset + r.limit ELSE Len(s)) :
     s \in {s \in SetToSeqs(Hits(r, rows)) : Sorted(r.order, s)}}

(* Mutant: the isolation level is READ COMMITTED.                           *)
SelectCommitted ==
  /\ stage = "fenced" /\ Runs(request) /\ stage' = "replied"
  /\ snap' = [rows |-> table, lsns |-> visible]
  /\ \E rows \in Selected(request, table) :
       result' = [rows |-> rows, cursor |-> CursorOf(request.order, rows)]
  /\ UNCHANGED <<dbVars, caller, query, published, attempt, request, lsn, answer, got, pages>>

Select ==
  /\ stage = "fenced" /\ Runs(request) /\ stage' = "replied"
  /\ \E rows \in Selected(request, snap.rows) :
       result' = [rows |-> rows, cursor |-> CursorOf(request.order, rows)]
  /\ UNCHANGED <<dbVars, caller, query, published, attempt, request, snap, lsn, answer, got, pages>>

(* The statement throws or is refused, and the handler answers an error.    *)
SelectFails ==
  /\ stage = "fenced" /\ ~Runs(request)
  /\ Fails
  /\ snap' = NoSnap /\ lsn' = 0
  /\ UNCHANGED <<dbVars, caller, query, published, result, answer, got, pages>>
-----------------------------------------------------------------------------
Next ==
  \/ \E ch \in Changes : LogCommit(ch)
  \/ \E i \in 1..MaxCommits : Show(i)
  \/ Ask \/ Lose \/ Deliver \/ NextPage
  \/ Begin \/ ReadLsn \/ Select \/ SelectFails

Spec == Init /\ [][Next]_vars
-----------------------------------------------------------------------------
TypeOK ==
  /\ visible \subseteq DOMAIN log /\ Len(log) <= MaxCommits
  /\ steady \subseteq table
  /\ \A r, q \in table : r.id = q.id => r = q
  /\ caller \in {"rpc", "subscriber"} /\ attempt \in 1..2 /\ pages \in 0..MaxPages
  /\ stage \in {"idle", "sent", "begun", "fenced", "replied", "answered", "failed"}
  /\ lsn \in 0..Len(log) /\ snap.lsns \subseteq visible
  /\ ToSet(result.rows) \subseteq snap.rows
  /\ Len(result.rows) <= request.limit
  /\ stage = "answered" => answer.rows = result.rows

\* r comes after the row that the cursor describes, if it describes one.
Follows(order, cursor, r) ==
  GoesOn(order, cursor) => Before(order, [f \in DOMAIN cursor |-> cursor[f].v], r)

Meets(q, r) == \A t \in ToSet(q.wrapper) : Meant(t, r)

NoNullKeys(order, rows) == \A r \in rows, i \in DOMAIN order : r[order[i].field] # Null

\* No row has NULL, which a cursor takes for "null", in a text key.
NoNullTexts(order, rows) ==
  \A r \in rows, i \in DOMAIN order : order[i].field \in TextColumns => r[order[i].field] # Null

KnownSorts(order) == \A i \in DOMAIN order : order[i].sort \in Sorts

\* The reply in the making, or made, is to the client's own query.
Own == query.json /\ attempt = 1 /\ stage \in {"replied", "answered"}

Understood == \A t \in ToSet(query.wrapper) : Supported(t)

(* A page is what the client's JSON asks for, through every conversion: the *)
(* first rows, in order, of those the snapshot has after the cursor, or of  *)
(* all if the cursor has no key, as that of an empty page.  This is for     *)
(* trees whose OR groups processFilters supports, known sorts, keys without *)
(* NULL, and with a limit, as no limit means no rows (sql-rpc.ts 250-281,   *)
(* worker.ts 456-519, query_builder.ts 46-84).                              *)
PageExact ==
  Own /\ Understood /\ KnownSorts(query.order) /\ NoNullKeys(query.order, snap.rows) =>
    LET page == result.rows
        wanted == {r \in snap.rows : Meets(query, r) /\ Follows(query.order, query.cursor, r)}
        limit == IF query.limit = Absent THEN 0 ELSE query.limit
        n == Cardinality(wanted)
    IN  /\ ToSet(page) \subseteq wanted /\ IsInjective(page)
        /\ Len(page) = (IF limit < n THEN limit ELSE n)
        /\ Sorted(query.order, page)
        /\ \A r \in wanted \ ToSet(page), i \in DOMAIN page : ~Before(query.order, r, page[i])

(* Pages go forward until they start over: whatever commits in between,     *)
(* each row of a page comes, in the order Postgres was asked for, after     *)
(* each row of the pages before it, so that none is shown twice.  A NULL in *)
(* a text column would go on from the text "null" instead                   *)
(* (keyset_cursor.ts 22-52, postgress_manager.ts 70-83).                    *)
PagesAdvance ==
  Own /\ NoNullTexts(query.order, got) =>
    \A r \in ToSet(result.rows), q \in got : Before(request.order, q, r)

\* No two rows are equal in all keys.
Total(order) == \E i \in DOMAIN order : order[i].field = "id"

(* Pages leave nothing out: when a page is short, or empty, each row that   *)
(* matches and that was there all the time has been on one of them since    *)
(* they started, if the order is total, its keys are not NULL, and no page  *)
(* had a NULL text for a key.                                               *)
NothingSkipped ==
  Own /\ Understood /\ Total(query.order) /\ query.limit # Absent /\ Len(result.rows) < query.limit
    /\ NoNullTexts(query.order, got)
    => \A r \in steady : Meets(query, r) /\ NoNullKeys(query.order, {r})
         => r \in got \cup ToSet(result.rows)

(* The LSN of a reply is not older than its rows: a client that skips the   *)
(* commits up to it, and applies the others, never goes back in time        *)
(* (postgress_manager.ts 50-83).                                            *)
VisibleCovered == stage \in {"fenced", "replied", "answered"} => \A i \in snap.lsns : i <= lsn

(* The query Streams was given for the diffs of a subscription and the one  *)
(* its snapshot answers are the same, tree, order, cursor and limit, with   *)
(* the ops and sorts that both encoders know and with a limit               *)
(* (json-to-fb.ts 10-62, builders.ts 9-146, sql-rpc.ts 250-281 and 512-588).*)
SameForStreams ==
  caller = "subscriber" /\ Own /\ published # <<>> /\ KnownSorts(query.order)
    /\ (\A t \in ToSet(query.wrapper) : \A l \in LeavesOf(t) : l.op \in SharedOps)
  => LET p == published[1]
     IN  /\ Wrapped(p.wrapper, ToCodec) = request.wrapper
         /\ p.order = request.order
         /\ [f \in DOMAIN p.cursor |-> Plain(p.cursor[f])] = request.cursor
         /\ query.limit # Absent => p.limit = request.limit

(* A subscriber that is given an array of rows can take them for rows that  *)
(* its filters let through: the rows of the retry, which filters nothing,   *)
(* never come as an array (main.ts 58-94).                                  *)
ArrayMeansFiltered ==
  caller = "subscriber" /\ stage = "answered" /\ answer.unpacked /\ Understood =>
    \A r \in ToSet(answer.rows) : Meets(query, r)
=============================================================================
