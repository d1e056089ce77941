------------------------------ MODULE SqlRpc -------------------------------
(***************************************************************************)
(* SQL over Kafka: sessions of the gateway call SqlRpcClient, whose        *)
(* requests go through a topic to the worker; the worker runs them against *)
(* Postgres, several at a time, and answers on the reply topic of the      *)
(* gateway process.                                                        *)
(*                                                                         *)
(* A call is identified by its correlationId, a fresh UUID.  The settling  *)
(* of a promise and the rpcResult frame its coroutine sends are one step:  *)
(* only microtasks lie between them.  The database is a version number     *)
(* that each change raises, so an answer is dated by what it has seen.     *)
(***************************************************************************)
EXTENDS Integers, Sequences, FiniteSets

CONSTANTS Calls,         \* correlation ids
          Sessions,      \* WebSocket connections
          Methods,       \* method names that clients send
          MaxAttempts,   \* attempts of produceSafe after the first
          MaxDeliveries, \* bound: requests handed to the worker
          MaxRewinds,    \* bound: crashes of the worker and rebalances
          MaxResends     \* bound: times one request is written once more

Reads == {"GET_DATA", "GET_SINGLE", "TABLE_EXISTS", "RUN_AGGREGATION"}
Writes == {"ADD_SINGLE", "UPDATE_SINGLE", "DELETE_ROW"}
Known == Reads \cup Writes \cup {"CREATE_TABLE"}

ASSUME BoundsAssumption ==
  MaxAttempts \in Nat /\ MaxDeliveries \in Nat /\ MaxRewinds \in Nat /\ MaxResends \in Nat

VARIABLES
  open,      \* sessions that are connected
  stage, asked, seen, changed, \* see RpcCall
  method,    \* method[c]
  owner,     \* owner[c]: the session whose message made the call
  results,   \* results[c]: rpcResult frames sent for it
  pending,   \* SqlRpcClient.pending
  timers,    \* calls whose timeout is armed
  requests,  \* the request topic
  position,  \* requests handed to the worker's handler
  committed, \* offset of the group, or NoOffset
  jobs,      \* executions of the worker's handler
  deliveries, rewinds, \* counted for the bounds
  replies,   \* every reply produced, which is read late, twice or never
  effects, db

callVars == <<stage, asked, seen, changed, method, owner, results, pending, timers>>
workerVars == <<position, committed, jobs, deliveries, rewinds>>
dbVars == <<effects, db>>
vars == <<open, callVars, requests, workerVars, replies, dbVars>>

NoOffset == -1

Job == [n: 1..MaxDeliveries, c: Calls, stage: {"running", "replying", "backoff"},
        ok: BOOLEAN, changed: BOOLEAN, seen: Nat, attempt: Nat]
Reply == [c: Calls, ok: BOOLEAN, changed: BOOLEAN, seen: Nat]

Init ==
  /\ open = Sessions
  /\ stage = [c \in Calls |-> "idle"]
  /\ asked = [c \in Calls |-> 0] /\ seen = [c \in Calls |-> 0]
  /\ changed = [c \in Calls |-> FALSE]
  /\ method \in [Calls -> Methods]
  /\ owner \in [Calls -> Sessions]
  /\ results = [c \in Calls |-> 0]
  /\ pending = {} /\ timers = {}
  /\ requests = <<>> /\ position = 0 /\ committed = NoOffset
  /\ jobs = {} /\ deliveries = 0 /\ rewinds = 0
  /\ replies = {}
  /\ effects = [c \in Calls |-> 0] /\ db = 0
-----------------------------------------------------------------------------
(* handleRpc and the client                                                 *)

(* The promises of C end: entries and timers go, and safeSend sends a       *)
(* result to each owner that is still registered.                           *)
Settle(C, how) ==
  /\ stage' = [c \in Calls |-> IF c \in C THEN how ELSE stage[c]]
  /\ results' = [c \in Calls |-> IF c \in C /\ owner[c] \in open THEN results[c] + 1 ELSE results[c]]
  /\ pending' = pending \ C
  /\ timers' = timers \ C

(* The typed method reaches sendViaCodec: the timer is armed, the entry     *)
(* made and the request handed to the producer.                             *)
Call(c) ==
  /\ stage[c] = "idle" /\ owner[c] \in open /\ method[c] \in Known
  /\ stage' = [stage EXCEPT ![c] = "waiting"]
  /\ asked' = [asked EXCEPT ![c] = db]
  /\ pending' = pending \cup {c}
  /\ timers' = timers \cup {c}
  /\ UNCHANGED <<open, seen, changed, method, owner, results, requests, workerVars, replies, dbVars>>

Sent == {"waiting", "answered", "failed"}
Copies(c) == {i \in DOMAIN requests : requests[i] = c}

(* The producer writes the request in the background and reports nothing    *)
(* back: at any later time, also after its call is settled, or never.  It   *)
(* is not idempotent, so a send tried again may leave one more copy.        *)
Arrive(c) ==
  /\ stage[c] \in Sent
  /\ Cardinality(Copies(c)) <= MaxResends
  /\ requests' = Append(requests, c)
  /\ UNCHANGED <<open, callVars, workerVars, replies, dbVars>>

(* An unknown method, or an encoder or producer that throws.                *)
Refuse(c) ==
  /\ stage[c] = "idle" /\ owner[c] \in open
  /\ Settle({c}, "refused")
  /\ UNCHANGED <<open, asked, seen, changed, method, owner, requests, workerVars, replies, dbVars>>

Timeout(c) ==
  /\ c \in timers
  /\ Settle({c}, "failed")
  /\ UNCHANGED <<open, asked, seen, changed, method, owner, requests, workerVars, replies, dbVars>>

Told(r) ==
  /\ seen' = IF r.ok THEN [seen EXCEPT ![r.c] = r.seen] ELSE seen
  /\ changed' = IF r.ok THEN [changed EXCEPT ![r.c] = r.changed] ELSE changed
  /\ UNCHANGED <<open, asked, method, owner, requests, workerVars, replies, dbVars>>

(* Mutants: the timer of an answered call is left running; an error reply   *)
(* is cleaned up after and not rejected; replies are matched by order.      *)
OnDataTimerLeft(r) ==
  /\ r.c \in pending
  /\ stage' = [stage EXCEPT ![r.c] = IF r.ok THEN "answered" ELSE "failed"]
  /\ results' = [results EXCEPT ![r.c] = IF owner[r.c] \in open THEN @ + 1 ELSE @]
  /\ pending' = pending \ {r.c} /\ UNCHANGED timers /\ Told(r)
OnDataUnrejected(r) ==
  /\ r.c \in pending
  /\ IF r.ok THEN Settle({r.c}, "answered")
     ELSE /\ pending' = pending \ {r.c} /\ timers' = timers \ {r.c}
          /\ UNCHANGED <<stage, results>>
  /\ Told(r)
OnDataUnmatched(r) ==
  \E c \in pending :
    /\ Settle({c}, IF r.ok THEN "answered" ELSE "failed")
    /\ Told([r EXCEPT !.c = c])

(* onData: a reply without an entry is dropped, an error reply rejects.     *)
OnData(r) ==
  /\ r.c \in pending
  /\ Settle({r.c}, IF r.ok THEN "answered" ELSE "failed") /\ Told(r)

Stop ==
  /\ pending # {}
  /\ Settle(pending, "failed")
  /\ UNCHANGED <<open, asked, seen, changed, method, owner, requests, workerVars, replies, dbVars>>

Close(s) ==
  /\ s \in open
  /\ open' = open \ {s}
  /\ UNCHANGED <<callVars, requests, workerVars, replies, dbVars>>
-----------------------------------------------------------------------------
(* The worker                                                               *)

Started(c) ==
  /\ deliveries < MaxDeliveries
  /\ deliveries' = deliveries + 1
  /\ jobs' = jobs \cup {[n |-> deliveries + 1, c |-> c, stage |-> "running",
                         ok |-> FALSE, changed |-> FALSE, seen |-> 0, attempt |-> 0]}
  /\ UNCHANGED <<open, callVars, requests, committed, rewinds, replies, dbVars>>

(* Mutant: the position is left to move with the committed offset.          *)
ReceiveAgain ==
  /\ position < Len(requests)
  /\ Started(requests[position + 1])
  /\ position' = IF committed > position THEN committed ELSE position

(* A message is handed to the handler, which is not awaited.                *)
Receive ==
  /\ position < Len(requests)
  /\ Started(requests[position + 1])
  /\ position' = position + 1

(* Whether a run of method m succeeds, and whether it changes a row.  A     *)
(* change may be followed by an error: the connection breaks after it.      *)
Outcomes(m) ==
  {o \in BOOLEAN \X BOOLEAN :
     /\ m \in Reads => ~o[2]
     /\ m = "ADD_SINGLE" /\ o[1] => o[2]
     /\ m \notin Reads \cup Writes => ~o[1] /\ ~o[2]}

Execute(j) ==
  /\ j \in jobs /\ j.stage = "running"
  /\ \E o \in Outcomes(method[j.c]) :
       /\ db' = IF o[2] THEN db + 1 ELSE db
       /\ effects' = IF o[2] THEN [effects EXCEPT ![j.c] = @ + 1] ELSE effects
       /\ jobs' = (jobs \ {j}) \cup
                  {[j EXCEPT !.stage = "replying", !.ok = o[1], !.changed = o[2], !.seen = db']}
  /\ UNCHANGED <<open, callVars, requests, position, committed, deliveries, rewinds, replies>>

ReplyOf(j) == [c |-> j.c, ok |-> j.ok, changed |-> j.changed, seen |-> j.seen]

Produce(j) ==
  /\ j \in jobs /\ j.stage = "replying"
  /\ replies' = replies \cup {ReplyOf(j)}
  /\ jobs' = jobs \ {j}
  /\ UNCHANGED <<open, callVars, requests, position, committed, deliveries, rewinds, dbVars>>

(* Mutant: the retry forgets how often it has tried.                        *)
ProduceFailsForgetful(j) ==
  /\ j \in jobs /\ j.stage = "replying"
  /\ jobs' = (jobs \ {j}) \cup {[j EXCEPT !.stage = "backoff"]}
  /\ UNCHANGED <<open, callVars, requests, position, committed, deliveries, rewinds, replies, dbVars>>

(* produceSafe: a full queue is tried again from a timer MaxAttempts times, *)
(* then, as after any other error, the reply is dropped.                    *)
ProduceFails(j) ==
  /\ j \in jobs /\ j.stage = "replying"
  /\ \E queueFull \in BOOLEAN :
       jobs' = IF queueFull /\ j.attempt < MaxAttempts
               THEN (jobs \ {j}) \cup {[j EXCEPT !.stage = "backoff", !.attempt = @ + 1]}
               ELSE jobs \ {j}
  /\ UNCHANGED <<open, callVars, requests, position, committed, deliveries, rewinds, replies, dbVars>>

Retry(j) ==
  /\ j \in jobs /\ j.stage = "backoff"
  /\ jobs' = (jobs \ {j}) \cup {[j EXCEPT !.stage = "replying"]}
  /\ UNCHANGED <<open, callVars, requests, position, committed, deliveries, rewinds, replies, dbVars>>

(* enable.auto.commit: a timer, whatever became of the messages.            *)
AutoCommit ==
  /\ committed # position
  /\ committed' = position
  /\ UNCHANGED <<open, callVars, requests, position, jobs, deliveries, rewinds, replies, dbVars>>

(* Mutant: a group without an offset.                                       *)
RewindUnset(crash) ==
  /\ rewinds < MaxRewinds
  /\ rewinds' = rewinds + 1
  /\ position' = committed
  /\ jobs' = IF crash THEN {} ELSE jobs
  /\ UNCHANGED <<open, callVars, requests, committed, deliveries, replies, dbVars>>

(* The partition is taken up again at the group's offset, or at its end     *)
(* when there is none: after a rebalance, or with all executions lost.      *)
Rewind(crash) ==
  /\ rewinds < MaxRewinds
  /\ rewinds' = rewinds + 1
  /\ position' = IF committed = NoOffset THEN Len(requests) ELSE committed
  /\ jobs' = IF crash THEN {} ELSE jobs
  /\ UNCHANGED <<open, callVars, requests, committed, deliveries, replies, dbVars>>
-----------------------------------------------------------------------------
Next ==
  \/ \E c \in Calls : Call(c) \/ Arrive(c) \/ Refuse(c) \/ Timeout(c)
  \/ \E r \in replies : OnData(r)
  \/ Stop
  \/ \E s \in Sessions : Close(s)
  \/ Receive \/ AutoCommit
  \/ \E j \in jobs : Execute(j) \/ Produce(j) \/ ProduceFails(j) \/ Retry(j)
  \/ \E crash \in BOOLEAN : Rewind(crash)

Spec == Init /\ [][Next]_vars

(* Timers fire, and an execution that has its answer goes on to produce it. *)
FairSpec ==
  /\ Spec
  /\ \A c \in Calls : WF_vars(Timeout(c))
  /\ WF_vars(\E j \in jobs : Produce(j) \/ ProduceFails(j) \/ Retry(j))
-----------------------------------------------------------------------------
TypeOK ==
  /\ open \subseteq Sessions
  /\ stage \in [Calls -> {"idle", "waiting", "answered", "failed", "refused"}]
  /\ asked \in [Calls -> Nat] /\ seen \in [Calls -> Nat]
  /\ changed \in [Calls -> BOOLEAN]
  /\ method \in [Calls -> Methods] /\ owner \in [Calls -> Sessions]
  /\ results \in [Calls -> Nat]
  /\ pending \subseteq Calls /\ timers \subseteq Calls
  /\ requests \in Seq(Calls)
  /\ position \in 0..Len(requests) /\ committed \in NoOffset..Len(requests)
  /\ jobs \subseteq Job /\ \A j \in jobs : j.attempt <= MaxAttempts
  /\ deliveries \in 0..MaxDeliveries /\ rewinds \in 0..MaxRewinds
  /\ replies \subseteq Reply
  /\ effects \in [Calls -> Nat] /\ db \in Nat

(* The table, the timers and the unsettled promises are the same calls, and *)
(* a settled call has told its session once, or found it gone               *)
(* (sql-rpc.ts 124-217, ws/rpc.ts 170-190).                                 *)
PendingArmed ==
  \A c \in Calls :
    /\ (c \in pending) = (stage[c] = "waiting")
    /\ (c \in timers) = (stage[c] = "waiting")
    /\ results[c] <= (IF stage[c] \in {"idle", "waiting"} THEN 0 ELSE 1)
    /\ stage[c] \notin {"idle", "waiting"} /\ owner[c] \in open => results[c] = 1

(* A copy of a request in the topic runs again only after a crash or a      *)
(* rebalance of the worker; without one, and without a second copy, an      *)
(* answer tells exactly whether its call changed a row, whatever overtook   *)
(* what (sql-rpc.ts 57-62, kafka.ts 46-56 and 82-84, worker.ts 648-800).    *)
RepeatsExplained ==
  \A c \in Calls :
    /\ effects[c] <= Cardinality(Copies(c)) * (1 + rewinds)
    /\ rewinds = 0 /\ Cardinality(Copies(c)) <= 1 /\ stage[c] = "answered"
         => effects[c] = (IF changed[c] THEN 1 ELSE 0)

(* Every call is settled, although requests and replies get lost and nobody *)
(* asks again (sql-rpc.ts 183-191).                                         *)
CallsSettle == \A c \in Calls : []<>(stage[c] # "waiting")

(* No reply is retried for ever: produceSafe gives up (kafka.ts 117-137).   *)
RepliesEnd ==
  \A n \in 1..MaxDeliveries : []<>(\A j \in jobs : j.n = n => j.stage = "running")

(* The promise to the caller: see RpcCall.                                  *)
Promise == INSTANCE RpcCall
ImplementsRpcCall == Promise!Spec
=============================================================================
