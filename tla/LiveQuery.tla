---------------------------- MODULE LiveQuery ----------------------------
(***************************************************************************)
(* One gateway process: its WebSocket sessions, their subscriptions to     *)
(* live queries, the CDC messages fanned out to them, and the send queues  *)
(* of sockets that refuse frames.  The process may be the first one or     *)
(* come after a restart: it knows nothing, but the database, the topics,   *)
(* the consumer group's offsets and KeyDB hold what earlier ones left.     *)
(*                                                                         *)
(* JavaScript runs a handler without interruption up to its next await, so *)
(* every action below is one such segment.  handleSubscribe has four:      *)
(*   Subscribe -> SnapshotArrives | SnapshotFails -> RangeArrives ->       *)
(*   ReplayArrives                                                         *)
(* and any other event of the process may come between two of them.        *)
(***************************************************************************)
EXTENDS Integers, Sequences, FiniteSets, Functions

CONSTANTS
  Sessions,    \* connections, each opened at most once (its id is a fresh UUID)
  Keys,        \* routing keys, tenant_table|hashId, of one tenant
  Attempts,    \* executions of handleSubscribe
  WithQuery,   \* the attempts whose message carries a usable query
  MaxLsn,      \* bound: transactions the database commits
  MaxQueue,    \* MAX_QUEUE: frames a session may have queued
  MaxDiffs,    \* HOTCACHE_MAX_DIFFS: diffs kept per key in KeyDB
  MaxEarlier,  \* bound: transactions committed before the process starts
  MaxRewinds,  \* bound: times the consumer goes back to a committed offset
  Refusals,    \* TRUE: a socket may refuse a frame
  Headerless   \* TRUE: a CDC message may come without its lsn header

ASSUME ConstantsAssumption ==
  /\ MaxLsn \in Nat /\ MaxQueue \in Nat \ {0} /\ MaxDiffs \in Nat \ {0}
  /\ MaxEarlier \in Nat /\ MaxRewinds \in Nat
  /\ Refusals \in BOOLEAN /\ Headerless \in BOOLEAN
  /\ IsFiniteSet(Sessions) /\ WithQuery \subseteq Attempts

VARIABLES
  conn,          \* conn[s]: "new", "open" (s is in the sessions map) or "closed"
  subs,          \* subs[s]: Session.subs
  subToSessions, \* the reverse index, a Map: only indexed keys are in its domain
  subStates,     \* subStates[s]: a Map from routing key to SubState
  sendQueue,     \* sendQueue[s]: frames the socket refused
  slow,          \* sessions whose _slow flag is set
  slowSockets,   \* SLOW_SOCKETS
  lastSeen,      \* LAST_SEEN_LSN
  task,          \* task[t]: the execution t of handleSubscribe
  qmeta,         \* keys whose last qmeta message of this process carries a query
  hot,           \* hot[k]: KeyDB's diff list, as LSNs
  wal,           \* LSN of the last commit of the database
  topic,         \* topic[k]: LSNs of the page diffs and row events of k
  diffPos,       \* diffPos[k]: page diffs of k consumed
  rowPos,        \* rowPos[k]: row events of k consumed
  rewinds,       \* rewinds so far
  start,         \* start[k]: the committed offsets the process started from
  found,         \* history: found[k], the LSNs KeyDB held of k at that time
  wire,          \* history: wire[s], the data frames the socket of s accepted
  overflowed     \* history: sessions whose queue was discarded

clientVars == <<conn, subs, subToSessions, subStates>>
sendVars   == <<sendQueue, slow, slowSockets, wire, overflowed>>
cdcVars    == <<wal, topic, diffPos, rowPos, rewinds>>
pastVars   == <<start, found>>
vars == <<clientVars, sendVars, cdcVars, pastVars, lastSeen, task, qmeta, hot>>
-----------------------------------------------------------------------------
(* Types.  A SubState's buffer is sorted before use and its repetitions are *)
(* skipped, so it is kept as a set of LSNs.                                 *)

SubState == [cursorLsn : Nat, buffering : BOOLEAN, buffer : SUBSET Nat]

(* handleSubscribe's locals, and what the properties need to remember:      *)
(* sent is what the wire of s held when the execution began, asked is wal   *)
(* when the snapshot was requested, snap the LSN the snapshot reflects,     *)
(* since and floor diffPos[k] and the cursor on going live.                 *)
Stages == {"snapshot", "range", "replay", "done", "failed"}
Idle == [stage |-> "idle"]
Task == [stage : Stages, s : Sessions, k : Keys, fence : Nat, sent : Nat,
         asked : Nat, snap : Nat, since : Nat, floor : Nat]

Frame == [op : {"ack", "snapshot", "rangeIndex", "rowEvent", "diff"},
          key : Keys, lsn : Nat]
           \cup [op : {"overflow", "snapshot_failed"}]

FrameOf(op, k, l) == [op |-> op, key |-> k, lsn |-> l]
Notice(op) == [op |-> op]

Larger(a, b) == IF a > b THEN a ELSE b

(* new Map(), Map.set and Map.delete. *)
NoEntries == [y \in {} |-> 0]
Put(f, x, v) == [y \in DOMAIN f \cup {x} |-> IF y = x THEN v ELSE f[y]]
Drop(f, x) == Restrict(f, DOMAIN f \ {x})

(* The enumeration of a finite set of numbers in ascending order. *)
Ascending(S) ==
  {q \in [1..Cardinality(S) -> S] : \A i, j \in DOMAIN q : i < j => q[i] < q[j]}

Open == {s \in Sessions : conn[s] = "open"}
Has(s, k) == k \in DOMAIN subStates[s]
-----------------------------------------------------------------------------
(* Sending.  out[s] is the run of frames one segment sends to s.  A socket  *)
(* that refuses a frame refuses the rest of the segment; took[s] frames are *)
(* accepted.  Frames that do not fit start the queue afresh, and the notice *)
(* of that goes to the socket with its result ignored: told are the         *)
(* sessions that get it.                                                    *)

(* Acks, page ranges and row events are not recorded on the wire; the runs  *)
(* of frames of one segment are of one kind.                                *)
DataOps == {"snapshot", "diff", "overflow", "snapshot_failed"}
IsData(frames) == \A i \in DOMAIN frames : frames[i].op \in DataOps

Silence == [s \in Sessions |-> <<>>]
To(s, frames) ==
  [r \in Sessions |-> IF r = s /\ r \in Open THEN frames ELSE <<>>]

Acceptances(out) ==
  IF Refusals
  THEN {a \in [Sessions -> UNION {0..Len(out[s]) : s \in Sessions}] :
          \A s \in Sessions : a[s] <= Len(out[s])}
  ELSE {[s \in Sessions |-> Len(out[s])]}

Refused(out, took, s) == SubSeq(out[s], took[s] + 1, Len(out[s]))

(* Mutant: the queue is emptied one frame too late.                         *)
EnqueuePastCap(queue, frames) ==
  LET all  == queue \o frames
      kept == Len(all) % (MaxQueue + 2)
  IN  SubSeq(all, Len(all) - kept + 1, Len(all))

(* Pushing frames one by one, the queue being emptied each time it exceeds  *)
(* MaxQueue.                                                                *)
Enqueue(queue, frames) ==
  LET all  == queue \o frames
      kept == Len(all) % (MaxQueue + 1)
  IN  SubSeq(all, Len(all) - kept + 1, Len(all))

(* Mutant: a session counts each time its socket refuses.                   *)
Refusing(blocked) == blocked

(* The sessions to be marked slow and counted: those not marked yet.        *)
NewlySlow(blocked) == blocked \ slow

Emit(out, took) ==
  LET blocked  == {s \in Sessions : took[s] < Len(out[s])}
      overflow == {s \in blocked :
                     Len(sendQueue[s]) + Len(Refused(out, took, s)) > MaxQueue}
  IN  /\ sendQueue' = [s \in Sessions |-> Enqueue(sendQueue[s], Refused(out, took, s))]
      /\ slow' = slow \cup blocked
      /\ slowSockets' = slowSockets + Cardinality(NewlySlow(blocked))
      /\ overflowed' = overflowed \cup overflow
      /\ \E told \in SUBSET overflow :
           wire' = [s \in Sessions |->
                      wire[s] \o (IF IsData(out[s]) THEN SubSeq(out[s], 1, took[s]) ELSE <<>>)
                        \o (IF s \in told THEN <<Notice("overflow")>> ELSE <<>>)]

SafeSend(s, frames) ==
  \E took \in Acceptances(To(s, frames)) : Emit(To(s, frames), took)
-----------------------------------------------------------------------------
(* The registry of state.ts. *)

AddSub(s, k) ==
  /\ subs' = [subs EXCEPT ![s] = @ \cup {k}]
  /\ subToSessions' =
       IF k \in subs[s] THEN subToSessions
       ELSE Put(subToSessions, k,
                (IF k \in DOMAIN subToSessions THEN subToSessions[k] ELSE {}) \cup {s})

RemoveSubs(s, ks) ==
  LET gone == ks \cap subs[s]
      kept == {k \in DOMAIN subToSessions : k \in gone => subToSessions[k] # {s}}
  IN  /\ subs' = [subs EXCEPT ![s] = @ \ ks]
      /\ subToSessions' =
           [k \in kept |-> IF k \in gone THEN subToSessions[k] \ {s} ELSE subToSessions[k]]
-----------------------------------------------------------------------------
(* The database, and the Streams application that turns its commits into   *)
(* CDC messages: outside the repository.  A commit changes the results of   *)
(* the queries ks; each gets a page diff and a row event, which the         *)
(* gateway consumes at any later time, each topic in its own order.         *)

Commit(ks) ==
  /\ wal < MaxLsn
  /\ wal' = wal + 1
  /\ topic' = [k \in Keys |-> IF k \in ks THEN Append(topic[k], wal + 1) ELSE topic[k]]
  /\ UNCHANGED <<clientVars, sendVars, diffPos, rowPos, rewinds, lastSeen, task, qmeta, hot, pastVars>>

(* After a rebalance consumption restarts from committed offsets, none of   *)
(* which is before those the process started from.                          *)
Rewind(k) ==
  /\ rewinds < MaxRewinds
  /\ \E p \in start[k].diff..diffPos[k], r \in start[k].row..rowPos[k] :
       /\ diffPos' = [diffPos EXCEPT ![k] = p]
       /\ rowPos' = [rowPos EXCEPT ![k] = r]
  /\ rewinds' = rewinds + 1
  /\ UNCHANGED <<clientVars, sendVars, wal, topic, lastSeen, task, qmeta, hot, pastVars>>

HeaderLsn(l) == IF Headerless THEN {0, l} ELSE {l}
-----------------------------------------------------------------------------
(* Connections. *)

OpenSession(s) ==
  /\ conn[s] = "new"
  /\ conn' = [conn EXCEPT ![s] = "open"]
  /\ UNCHANGED <<subs, subToSessions, subStates, sendVars, cdcVars, lastSeen, task, qmeta, hot, pastVars>>

(* Mutant: the refused frame is not put back.                               *)
DrainDropping(s) ==
  /\ s \in Open
  /\ slow' = slow \ {s}
  /\ slowSockets' = IF s \in slow /\ slowSockets > 0 THEN slowSockets - 1 ELSE slowSockets
  /\ \E n \in 0..Len(sendQueue[s]) :
       /\ \E q \in Ascending({i \in 1..n : sendQueue[s][i].op \in DataOps}) :
            wire' = [wire EXCEPT ![s] = @ \o [i \in DOMAIN q |-> sendQueue[s][q[i]]]]
       /\ sendQueue' = [sendQueue EXCEPT ![s] = SubSeq(@, n + 2, Len(@))]
  /\ UNCHANGED <<clientVars, overflowed, cdcVars, lastSeen, task, qmeta, hot, pastVars>>

(* The socket became writable: the flag is dropped, then frames are sent    *)
(* until one is refused, which stays at the head of the queue.              *)
Drain(s) ==
  /\ s \in Open
  /\ slow' = slow \ {s}
  /\ slowSockets' = IF s \in slow /\ slowSockets > 0 THEN slowSockets - 1 ELSE slowSockets
  /\ \E n \in 0..Len(sendQueue[s]) :
       /\ Refusals \/ n = Len(sendQueue[s])
       /\ \E q \in Ascending({i \in 1..n : sendQueue[s][i].op \in DataOps}) :
            wire' = [wire EXCEPT ![s] = @ \o [i \in DOMAIN q |-> sendQueue[s][q[i]]]]
       /\ sendQueue' = [sendQueue EXCEPT ![s] = SubSeq(@, n + 1, Len(@))]
  /\ UNCHANGED <<clientVars, overflowed, cdcVars, lastSeen, task, qmeta, hot, pastVars>>

(* The slow flag of a closing session is dropped, the count is not.         *)
Close(s) ==
  /\ s \in Open
  /\ conn' = [conn EXCEPT ![s] = "closed"]
  /\ RemoveSubs(s, subs[s])
  /\ subStates' = [subStates EXCEPT ![s] = NoEntries]
  /\ slow' = slow \ {s}
  /\ sendQueue' = [sendQueue EXCEPT ![s] = <<>>]
  /\ UNCHANGED <<slowSockets, wire, overflowed, cdcVars, lastSeen, task, qmeta, hot, pastVars>>
-----------------------------------------------------------------------------
(* CDC consumption. *)

Trim(q) == IF Len(q) > MaxDiffs THEN SubSeq(q, Len(q) - MaxDiffs + 1, Len(q)) ELSE q

(* Mutant: the cursor is not tested.                                        *)
DeliverUntested(k, l) ==
  LET targets == {s \in Open : k \in subs[s] /\ Has(s, k)}
      held == {s \in targets : subStates[s][k].buffering}
      out  == [s \in Sessions |->
                 IF s \in targets \ held THEN <<FrameOf("diff", k, l)>> ELSE <<>>]
  IN  /\ hot' = [hot EXCEPT ![k] = Trim(Append(@, l))]
      /\ \E took \in Acceptances(out) : Emit(out, took)
      /\ subStates' = [s \in Sessions |->
           IF s \in held THEN [subStates[s] EXCEPT ![k].buffer = @ \cup {l}]
           ELSE IF s \in targets THEN [subStates[s] EXCEPT ![k].cursorLsn = l]
           ELSE subStates[s]]

(* deliverBinaryLSN: store for replay, then hold back, skip or send.        *)
Deliver(k, l) ==
  LET targets == {s \in Open : k \in subs[s] /\ Has(s, k)}
      held == {s \in targets : subStates[s][k].buffering}
      live == {s \in targets \ held : l > subStates[s][k].cursorLsn}
      out  == [s \in Sessions |-> IF s \in live THEN <<FrameOf("diff", k, l)>> ELSE <<>>]
  IN  /\ hot' = [hot EXCEPT ![k] = Trim(Append(@, l))]
      /\ \E took \in Acceptances(out) :
           /\ Emit(out, took)
           /\ subStates' = [s \in Sessions |->
                IF s \in held
                THEN [subStates[s] EXCEPT ![k].buffer = @ \cup {l}]
                ELSE IF s \in live /\ took[s] = 1
                THEN [subStates[s] EXCEPT ![k].cursorLsn = l]
                ELSE subStates[s]]

(* Mutant: LAST_SEEN_LSN follows the message even backwards.                *)
ConsumeDiffRegressing(k) ==
  /\ diffPos[k] < Len(topic[k])
  /\ diffPos' = [diffPos EXCEPT ![k] = @ + 1]
  /\ \E l \in HeaderLsn(topic[k][diffPos[k] + 1]) : lastSeen' = l /\ Deliver(k, l)
  /\ UNCHANGED <<conn, subs, subToSessions, wal, topic, rowPos, rewinds, task, qmeta, pastVars>>

ConsumeDiff(k) ==
  /\ diffPos[k] < Len(topic[k])
  /\ diffPos' = [diffPos EXCEPT ![k] = @ + 1]
  /\ \E l \in HeaderLsn(topic[k][diffPos[k] + 1]) :
       /\ lastSeen' = Larger(l, lastSeen)
       /\ Deliver(k, l)
  /\ UNCHANGED <<conn, subs, subToSessions, wal, topic, rowPos, rewinds, task, qmeta, pastVars>>

(* A row event goes to every subscriber at once, whatever its SubState.     *)
ConsumeRow(k) ==
  /\ rowPos[k] < Len(topic[k])
  /\ rowPos' = [rowPos EXCEPT ![k] = @ + 1]
  /\ \E l \in HeaderLsn(topic[k][rowPos[k] + 1]) :
       LET out == [s \in Sessions |->
             IF s \in Open /\ k \in subs[s] THEN <<FrameOf("rowEvent", k, l)>> ELSE <<>>]
       IN  /\ lastSeen' = Larger(l, lastSeen)
           /\ \E took \in Acceptances(out) : Emit(out, took)
  /\ UNCHANGED <<clientVars, wal, topic, diffPos, rewinds, task, qmeta, hot, pastVars>>
-----------------------------------------------------------------------------
(* What Subscribe does once its fence is chosen. *)
Register(t, s, k, fence, buffering) ==
  /\ subStates' = [subStates EXCEPT ![s] =
       Put(@, k, [cursorLsn |-> fence, buffering |-> buffering, buffer |-> {}])]
  /\ task' = [task EXCEPT ![t] =
       [stage |-> "snapshot", s |-> s, k |-> k, fence |-> fence, sent |-> Len(wire[s]),
        asked |-> wal, snap |-> 0, since |-> 0, floor |-> 0]]

(* Mutants: the subscription is live at once; the client's position wins    *)
(* even when it is the lower one.                                           *)
RegisterLive(t, s, k, resume) == Register(t, s, k, Larger(resume, lastSeen), FALSE)
RegisterLower(t, s, k, resume) ==
  Register(t, s, k, IF resume > 0 THEN resume ELSE lastSeen, TRUE)

(* The fence, and the SubState that holds diffs back from now on.           *)
Fence(t, s, k, resume) == Register(t, s, k, Larger(resume, lastSeen), TRUE)

(* handleSubscribe, first segment: up to the snapshot request.  resume is   *)
(* the client's resumeFromVersion, a position it has been told of, or 0.    *)

Subscribe(t, s, k) ==
  /\ task[t] = Idle
  /\ s \in Open
  /\ AddSub(s, k)
  /\ SafeSend(s, <<FrameOf("ack", k, 0)>>)
  /\ qmeta' = IF t \in WithQuery THEN qmeta \cup {k} ELSE qmeta
  /\ \E resume \in 0..wal : Fence(t, s, k, resume)
  /\ UNCHANGED <<conn, cdcVars, lastSeen, hot, pastVars>>

(* Mutant: a cached snapshot of any age is used. *)
SnapshotCached(t) ==
  /\ task[t].stage = "snapshot"
  /\ \E at \in 0..wal :
       /\ SafeSend(task[t].s, <<FrameOf("snapshot", task[t].k, at)>>)
       /\ task' = [task EXCEPT ![t].stage = "range", ![t].snap = at]
  /\ UNCHANGED <<clientVars, cdcVars, lastSeen, qmeta, hot, pastVars>>

(* The snapshot, read by the SQL service at some moment since the request,  *)
(* goes out whatever became of the subscription.                            *)
SnapshotArrives(t) ==
  /\ task[t].stage = "snapshot"
  /\ \E at \in task[t].asked..wal :
       /\ SafeSend(task[t].s, <<FrameOf("snapshot", task[t].k, at)>>)
       /\ task' = [task EXCEPT ![t].stage = "range", ![t].snap = at]
  /\ UNCHANGED <<clientVars, cdcVars, lastSeen, qmeta, hot, pastVars>>

(* Both snapshot requests failed, or the seed could not be published.       *)
SnapshotFails(t) ==
  /\ task[t].stage = "snapshot"
  /\ SafeSend(task[t].s, <<Notice("snapshot_failed")>>)
  /\ task' = [task EXCEPT ![t].stage = "failed"]
  /\ UNCHANGED <<clientVars, cdcVars, lastSeen, qmeta, hot, pastVars>>

(* The buffered diffs the flush passes, each LSN once and in order, and the *)
(* SubState it leaves.                                                      *)
Flushes(sub) == Ascending({l \in sub.buffer : l > sub.cursorLsn})
CursorAfter(sub, q) == IF q = <<>> THEN sub.cursorLsn ELSE q[Len(q)]

(* Mutant: buffering is cleared inside the loop over the buffer.            *)
ClearedInLoop(sub, q) ==
  [cursorLsn |-> CursorAfter(sub, q), buffering |-> sub.buffering /\ q = <<>>, buffer |-> {}]

AfterFlush(sub, q) ==
  [cursorLsn |-> CursorAfter(sub, q), buffering |-> FALSE, buffer |-> {}]

(* The page range is in: send it if there is one, then flush the buffer.    *)
(* deliverBinaryLSN is called while buffering is still set, so it stores    *)
(* each diff in KeyDB once more and puts it back into the buffer, which is  *)
(* then dropped.                                                            *)
RangeArrives(t) ==
  LET s == task[t].s
      k == task[t].k
  IN  /\ task[t].stage = "range"
      /\ \E range \in {<<>>, <<FrameOf("rangeIndex", k, 0)>>} : SafeSend(s, range)
      /\ \/ /\ Has(s, k)
            /\ \E q \in Flushes(subStates[s][k]) :
                 /\ hot' = [hot EXCEPT ![k] = Trim(@ \o q)]
                 /\ subStates' = [subStates EXCEPT ![s][k] = AfterFlush(@, q)]
                 /\ task' = [task EXCEPT ![t].stage = "replay", ![t].since = diffPos[k],
                                         ![t].floor = CursorAfter(subStates[s][k], q)]
         \/ /\ ~Has(s, k)
            /\ task' = [task EXCEPT ![t].stage = "replay"]
            /\ UNCHANGED <<subStates, hot>>
      /\ UNCHANGED <<conn, subs, subToSessions, cdcVars, lastSeen, qmeta, pastVars>>

(* The diffs KeyDB returns, by their places in the list: those after the    *)
(* fence.  Writes still under way, lost or expired are missing, so any part *)
(* of the list may have been seen.                                          *)
DiffsAfter(t, seen) == {i \in seen : hot[task[t].k][i] > task[t].fence}

(* Mutant: replay ignores the cursor. *)
ReplayedPastCursor(t, seen) ==
  LET list == hot[task[t].k]
      after == DiffsAfter(t, seen)
  IN  IF Has(task[t].s, task[t].k)
      THEN {i \in after : \A j \in after : j < i => list[j] < list[i]}
      ELSE after

(* Those sent: with a SubState each must exceed the ones before it; without *)
(* one all go out.                                                          *)
Replayed(t, seen) ==
  LET s == task[t].s
      k == task[t].k
      after == DiffsAfter(t, seen)
  IN  IF Has(s, k)
      THEN {i \in after : /\ hot[k][i] > subStates[s][k].cursorLsn
                          /\ \A j \in after : j < i => hot[k][j] < hot[k][i]}
      ELSE after

ReplayArrives(t) ==
  LET s == task[t].s
      k == task[t].k
  IN  /\ task[t].stage = "replay"
      /\ \E seen \in SUBSET DOMAIN hot[k] : \E q \in Ascending(Replayed(t, seen)) :
           /\ SafeSend(s, [i \in DOMAIN q |-> FrameOf("diff", k, hot[k][q[i]])])
           /\ subStates' = IF Has(s, k) /\ q # <<>>
                           THEN [subStates EXCEPT ![s][k].cursorLsn = hot[k][q[Len(q)]]]
                           ELSE subStates
      /\ task' = [task EXCEPT ![t].stage = "done"]
      /\ UNCHANGED <<conn, subs, subToSessions, cdcVars, lastSeen, qmeta, hot, pastVars>>

(* Mutant: the SubState is left behind. *)
UnsubscribeLeaving(s, k) ==
  /\ s \in Open
  /\ RemoveSubs(s, {k})
  /\ qmeta' = qmeta \ {k}
  /\ UNCHANGED <<conn, subStates, sendVars, cdcVars, lastSeen, task, hot, pastVars>>

(* handleUnsubscribe: the qmeta of the key is cleared for every session.    *)
Unsubscribe(s, k) ==
  /\ s \in Open
  /\ RemoveSubs(s, {k})
  /\ subStates' = [subStates EXCEPT ![s] = Drop(@, k)]
  /\ qmeta' = qmeta \ {k}
  /\ UNCHANGED <<conn, sendVars, cdcVars, lastSeen, task, hot, pastVars>>
-----------------------------------------------------------------------------
(* What a process finds when it starts: commits, of which each key has the  *)
(* diffs and row events of some; offsets committed anywhere in the topics;  *)
(* and the diffs KeyDB has not expired, consumed once or more by earlier    *)
(* processes (keydb.ts 60-61 and 165-174), which nothing clears.            *)
Lists(S, n) == UNION {[1..m -> S] : m \in 0..n}
HeaderLsns(k) == UNION {HeaderLsn(topic[k][i]) : i \in DOMAIN topic[k]}

Leftovers ==
  /\ wal \in 0..MaxEarlier
  /\ topic \in [Keys -> UNION {Ascending(S) : S \in SUBSET (1..wal)}]
  /\ diffPos \in [Keys -> 0..wal] /\ rowPos \in [Keys -> 0..wal]
  /\ \A k \in Keys : diffPos[k] <= Len(topic[k]) /\ rowPos[k] <= Len(topic[k])
  /\ start = [k \in Keys |-> [diff |-> diffPos[k], row |-> rowPos[k]]]
  /\ hot \in [Keys -> Lists(0..wal, MaxDiffs)]
  /\ \A k \in Keys : Range(hot[k]) \subseteq HeaderLsns(k)
  /\ found = [k \in Keys |-> Range(hot[k])]

Init ==
  /\ conn = [s \in Sessions |-> "new"]
  /\ subs = [s \in Sessions |-> {}]
  /\ subToSessions = NoEntries
  /\ subStates = [s \in Sessions |-> NoEntries]
  /\ sendQueue = Silence
  /\ slow = {} /\ slowSockets = 0
  /\ lastSeen = 0
  /\ task = [t \in Attempts |-> Idle]
  /\ Leftovers
  /\ qmeta = {}
  /\ rewinds = 0
  /\ wire = Silence
  /\ overflowed = {}

Settle(t) == SnapshotArrives(t) \/ SnapshotFails(t) \/ RangeArrives(t) \/ ReplayArrives(t)

Next ==
  \/ \E ks \in (SUBSET Keys) \ {{}} : Commit(ks)
  \/ \E k \in Keys : Rewind(k) \/ ConsumeDiff(k) \/ ConsumeRow(k)
  \/ \E s \in Sessions : OpenSession(s) \/ Drain(s) \/ Close(s)
  \/ \E t \in Attempts, s \in Sessions, k \in Keys : Subscribe(t, s, k)
  \/ \E t \in Attempts : Settle(t)
  \/ \E s \in Sessions, k \in Keys : Unsubscribe(s, k)

Spec == Init /\ [][Next]_vars

(* Every awaited call answers: the SQL client rejects after its timeout,    *)
(* and KeyDB commands return or fail.                                       *)
FairSpec == Spec /\ \A t \in Attempts : WF_vars(Settle(t))
-----------------------------------------------------------------------------
IsMap(f, D, R) == DOMAIN f \subseteq D /\ f \in [DOMAIN f -> R]

ClientTypeOK ==
  /\ conn \in [Sessions -> {"new", "open", "closed"}]
  /\ subs \in [Sessions -> SUBSET Keys]
  /\ IsMap(subToSessions, Keys, SUBSET Sessions)
  /\ DOMAIN subStates = Sessions
  /\ \A s \in Sessions : IsMap(subStates[s], Keys, SubState)
  /\ qmeta \in SUBSET Keys
  /\ task \in [Attempts -> Task \cup {Idle}]

SendTypeOK ==
  /\ sendQueue \in [Sessions -> Seq(Frame)]
  /\ \A s \in Sessions : Len(sendQueue[s]) <= MaxQueue
  /\ slow \in SUBSET Sessions /\ slowSockets \in Nat
  /\ wire \in [Sessions -> Seq(Frame)]
  /\ overflowed \in SUBSET Sessions

CdcTypeOK ==
  /\ wal \in Nat /\ lastSeen \in Nat
  /\ topic \in [Keys -> Seq(Nat)] /\ hot \in [Keys -> Seq(Nat)]
  /\ diffPos \in [Keys -> Nat] /\ rowPos \in [Keys -> Nat] /\ rewinds \in Nat
  /\ start \in [Keys -> [diff : Nat, row : Nat]] /\ found \in [Keys -> SUBSET Nat]

(* Every variable of the process keeps its shape (state.ts, lsn.ts,         *)
(* delivery.ts), and no queue grows beyond MAX_QUEUE.                       *)
TypeOK == ClientTypeOK /\ SendTypeOK /\ CdcTypeOK

(* The registry never lies (state.ts addSub and removeSub, handlers.ts      *)
(* close): the reverse index is exactly the inverse of the sessions' subs,  *)
(* holds no empty entry, names only open sessions, and a session has a      *)
(* SubState for exactly the keys it subscribes, whatever coroutines of      *)
(* earlier subscriptions are still running.                                 *)
RegistryConsistent ==
  /\ \A k \in DOMAIN subToSessions : subToSessions[k] # {}
  /\ \A s \in Sessions, k \in Keys :
       k \in subs[s] <=> k \in DOMAIN subToSessions /\ s \in subToSessions[k]
  /\ \A s \in Sessions : DOMAIN subStates[s] = subs[s]
  /\ \A s \in Sessions \ Open : subs[s] = {}

HasSnapshot(t) == task[t].stage \in {"range", "replay", "done"}

(* The fence taken from LAST_SEEN_LSN or the client (subscribe.ts 56-60)    *)
(* never exceeds what the snapshot fetched later reflects: a diff skipped   *)
(* for being at or below the fence is in the snapshot, although LSNs of     *)
(* different topics arrive out of order and the row event of a commit may   *)
(* overtake its page diff.                                                  *)
SnapshotCoversFence == \A t \in Attempts : HasSnapshot(t) => task[t].fence <= task[t].snap

(* No position of the gateway is ahead of the database (main.ts 112, the    *)
(* cursors of delivery.ts and subscribe.ts), and no diff on a wire or in    *)
(* KeyDB is ahead of LAST_SEEN_LSN but those KeyDB kept from an earlier     *)
(* process (lsn.ts 11 starts again from 0): with those excepted, a new      *)
(* fence is above everything sent.                                          *)
NothingFromTheFuture ==
  /\ lastSeen <= wal
  /\ \A s \in Sessions : \A k \in DOMAIN subStates[s] : subStates[s][k].cursorLsn <= wal
  /\ \A k \in Keys : \A i \in DOMAIN hot[k] : hot[k][i] <= lastSeen \/ hot[k][i] \in found[k]
  /\ \A s \in Sessions : \A i \in DOMAIN wire[s] : wire[s][i].op = "diff" =>
       wire[s][i].lsn <= lastSeen \/ wire[s][i].lsn \in found[wire[s][i].key]

IsDiff(f, k) == f.op = "diff" /\ f.key = k
IsSnapshot(f, k) == f.op = "snapshot" /\ f.key = k

(* A client that has been sent a diff of a query has been sent a snapshot   *)
(* of it before (delivery.ts 31-32), while no socket refuses frames.        *)
SnapshotFirst ==
  \A s \in Sessions, k \in Keys : \A j \in DOMAIN wire[s] :
    IsDiff(wire[s][j], k) => \E i \in 1..(j - 1) : IsSnapshot(wire[s][i], k)

(* The diff i on the wire of s is one KeyDB kept from an earlier process,   *)
(* and s has since asked for k again with a fence below it.                 *)
AskedAgain(s, k, i) ==
  \E t \in Attempts : /\ task[t] # Idle /\ task[t].s = s /\ task[t].k = k
                       /\ i <= task[t].sent
                       /\ task[t].fence < wire[s][i].lsn /\ wire[s][i].lsn \in found[k]

(* At-least-once consumption, replay from KeyDB and re-subscription never   *)
(* send a subscriber a diff at or below one it was sent before (lsn.ts 6-8, *)
(* the cursor tests of delivery.ts 73 and subscribe.ts 117), while no       *)
(* socket refuses frames.  The exception is a diff of an earlier process:   *)
(* as LAST_SEEN_LSN knows nothing of it, asking again may bring it again.   *)
DiffsAdvance ==
  [][\A s \in Sessions, k \in Keys : Has(s, k) =>
       \A j \in DOMAIN wire'[s] \ DOMAIN wire[s] : IsDiff(wire'[s][j], k) =>
         \A i \in 1..(j - 1) : IsDiff(wire'[s][i], k) =>
           wire'[s][i].lsn < wire'[s][j].lsn \/ AskedAgain(s, k, i)]_vars

Handed(s, k) == {l \in 1..wal : \E i \in DOMAIN wire[s] : wire[s][i] = FrameOf("diff", k, l)}
                \cup {l \in 1..wal : \E i \in DOMAIN sendQueue[s] : sendQueue[s][i] = FrameOf("diff", k, l)}

Later(k, l) == \A x \in found[k] : x < l

OnlyAttempt(t) == \A u \in Attempts \ {t} :
  task[u] # Idle => <<task[u].s, task[u].k>> # <<task[t].s, task[t].k>>

(* Once a subscription is live no diff is lost: each one consumed since and *)
(* above the cursor it started from has been sent or is queued, unless the  *)
(* queue overflowed (delivery.ts 72-88, handlers.ts 128-132, io.ts 24-31).  *)
(* A diff KeyDB kept from an earlier process moves the cursor past those    *)
(* before it, which are skipped: they were committed before the process     *)
(* started, and every snapshot it fetched shows them.                       *)
LiveDiffsReach ==
  \A t \in Attempts : task[t].stage \in {"replay", "done"} /\ OnlyAttempt(t) =>
    LET s == task[t].s
        k == task[t].k
    IN  Has(s, k) /\ s \notin overflowed =>
          \A i \in (task[t].since + 1)..diffPos[k] :
            topic[k][i] > task[t].floor /\ Later(k, topic[k][i]) => topic[k][i] \in Handed(s, k)

Buffering(s, k) == Has(s, k) /\ subStates[s][k].buffering
SnapshotFailed(s, k) ==
  \E t \in Attempts : task[t].stage = "failed" /\ task[t].s = s /\ task[t].k = k

(* A subscription stops holding diffs back unless a snapshot request for it *)
(* fails, although executions of handleSubscribe for one key overlap        *)
(* (subscribe.ts 97-109).                                                   *)
SyncEnds ==
  \A s \in Sessions, k \in Keys : Buffering(s, k) ~> (~Buffering(s, k) \/ SnapshotFailed(s, k))

(* The slow sockets of both send paths, of draining and of closing are      *)
(* accounted for as SlowSockets says (delivery.ts 17-19 and 83, io.ts 27,   *)
(* handlers.ts 123-126 and 146-148), on which FlowControl builds.           *)
Account == INSTANCE SlowSockets
ImplementsSlowSockets == Account!Accounting

(* Each subscription keeps the promise of LiveFeed.                         *)
Feed == INSTANCE LiveFeed WITH
  Feeds <- Sessions \X Keys,
  phase <- [f \in Sessions \X Keys |->
              IF ~Has(f[1], f[2]) THEN "off"
              ELSE IF subStates[f[1]][f[2]].buffering THEN "syncing" ELSE "live"],
  floor <- [f \in Sessions \X Keys |->
              IF Has(f[1], f[2]) THEN subStates[f[1]][f[2]].cursorLsn ELSE 0],
  watermark <- lastSeen,
  kept <- [f \in Sessions \X Keys |-> found[f[2]]]

(* The specification of LiveFeed: a subscription starts at or above         *)
(* LAST_SEEN_LSN, its cursor never goes back and passes LAST_SEEN_LSN only  *)
(* by a diff KeyDB kept from an earlier process, and only the end of its    *)
(* synchronisation makes it live.                                           *)
ImplementsLiveFeed == Feed!Spec
=============================================================================
