---------------------------- MODULE SqlRpcProofs ----------------------------
(***************************************************************************)
(* The types of SqlRpc, its pending table, and that it keeps the promise   *)
(* of RpcCall, for every number of calls, sessions and attempts and for    *)
(* every bound.                                                            *)
(***************************************************************************)
EXTENDS SqlRpc, TLAPS, FiniteSetTheorems

USE BoundsAssumption
-----------------------------------------------------------------------------
(* Types                                                                    *)

LEMMA OutcomesTyped ==
  ASSUME NEW m, NEW o \in Outcomes(m)
  PROVE  o[1] \in BOOLEAN /\ o[2] \in BOOLEAN
BY DEF Outcomes

LEMMA SettleTyped ==
  ASSUME TypeOK, NEW C \in SUBSET Calls, NEW how \in {"answered", "failed", "refused"}, Settle(C, how)
  PROVE  /\ stage' \in [Calls -> {"idle", "waiting", "answered", "failed", "refused"}]
         /\ results' \in [Calls -> Nat]
         /\ pending' \subseteq Calls /\ timers' \subseteq Calls
BY DEF TypeOK, Settle

\* Of the worker's steps, on a request taken from the topic.
LEMMA StartedTyped ==
  ASSUME TypeOK, NEW c \in Calls, Started(c)
  PROVE  /\ jobs' \subseteq Job /\ \A j \in jobs' : j.attempt <= MaxAttempts
         /\ deliveries' \in 0..MaxDeliveries
<1> DEFINE new == [n |-> deliveries + 1, c |-> c, stage |-> "running",
                   ok |-> FALSE, changed |-> FALSE, seen |-> 0, attempt |-> 0]
<1>1. deliveries \in Nat /\ deliveries < MaxDeliveries
  BY DEF TypeOK, Started
<1>2. new \in Job
  BY <1>1 DEF Job
<1>3. jobs' = jobs \cup {new} /\ deliveries' = deliveries + 1
  BY DEF Started
<1>4. new.attempt <= MaxAttempts
  OBVIOUS
<1> HIDE DEF new
<1>. QED
  BY <1>1, <1>2, <1>3, <1>4 DEF TypeOK

LEMMA ReplaceTyped ==
  ASSUME TypeOK, NEW j \in jobs, NEW k \in Job, k.attempt <= MaxAttempts,
         jobs' = (jobs \ {j}) \cup {k} \/ jobs' = jobs \ {j}
  PROVE  jobs' \subseteq Job /\ \A i \in jobs' : i.attempt <= MaxAttempts
BY DEF TypeOK

LEMMA TypeInit == Init => TypeOK
BY DEF Init, TypeOK, NoOffset

LEMMA TypeNext == TypeOK /\ [Next]_vars => TypeOK'
<1> SUFFICES ASSUME TypeOK, [Next]_vars PROVE TypeOK'
  OBVIOUS
<1>1. ASSUME NEW c \in Calls, Call(c) PROVE TypeOK'
  BY <1>1 DEF TypeOK, Call, workerVars, dbVars
<1>0. ASSUME NEW c \in Calls, Arrive(c) PROVE TypeOK'
  <2>1. /\ requests' \in Seq(Calls) /\ Len(requests') = Len(requests) + 1 /\ Len(requests) \in Nat
    BY <1>0 DEF TypeOK, Arrive
  <2>2. position' \in 0..Len(requests') /\ committed' \in NoOffset..Len(requests')
    BY <1>0, <2>1 DEF TypeOK, Arrive, workerVars, NoOffset
  <2>. QED BY <1>0, <2>1, <2>2 DEF TypeOK, Arrive, callVars, workerVars, dbVars
<1>2. ASSUME NEW c \in Calls, Refuse(c) PROVE TypeOK'
  <2>1. Settle({c}, "refused") /\ {c} \in SUBSET Calls
    BY <1>2 DEF Refuse
  <2>. QED BY <1>2, <2>1, SettleTyped DEF TypeOK, Refuse, workerVars, dbVars
<1>3. ASSUME NEW c \in Calls, Timeout(c) PROVE TypeOK'
  <2>1. Settle({c}, "failed") /\ {c} \in SUBSET Calls
    BY <1>3 DEF Timeout
  <2>. QED BY <1>3, <2>1, SettleTyped DEF TypeOK, Timeout, workerVars, dbVars
<1>4. ASSUME NEW r \in replies, OnData(r) PROVE TypeOK'
  <2>1. r \in Reply
    BY DEF TypeOK
  <2>2. /\ {r.c} \in SUBSET Calls
        /\ (IF r.ok THEN "answered" ELSE "failed") \in {"answered", "failed", "refused"}
        /\ Settle({r.c}, IF r.ok THEN "answered" ELSE "failed")
    BY <1>4, <2>1 DEF OnData, Reply
  <2>3. seen' \in [Calls -> Nat] /\ changed' \in [Calls -> BOOLEAN]
    BY <1>4, <2>1 DEF OnData, Told, Reply, TypeOK
  <2>. QED BY <1>4, <2>2, <2>3, SettleTyped DEF TypeOK, OnData, Told, workerVars, dbVars
<1>5. ASSUME Stop PROVE TypeOK'
  <2>1. Settle(pending, "failed") /\ pending \in SUBSET Calls
    BY <1>5 DEF Stop, TypeOK
  <2>. QED BY <1>5, <2>1, SettleTyped DEF TypeOK, Stop, workerVars, dbVars
<1>6. ASSUME NEW s \in Sessions, Close(s) PROVE TypeOK'
  BY <1>6 DEF TypeOK, Close, callVars, workerVars, dbVars
<1>7. ASSUME Receive PROVE TypeOK'
  <2>1. position \in Nat /\ Len(requests) \in Nat /\ position + 1 \in 1..Len(requests)
    BY <1>7 DEF Receive, TypeOK
  <2>2. requests[position + 1] \in Calls /\ Started(requests[position + 1])
    BY <1>7, <2>1 DEF Receive, TypeOK
  <2>3. position' \in 0..Len(requests')
    BY <1>7, <2>1 DEF Receive, Started
  <2>. QED BY <2>2, <2>3, StartedTyped DEF TypeOK, Started, callVars, dbVars
<1>8. ASSUME AutoCommit PROVE TypeOK'
  BY <1>8 DEF TypeOK, AutoCommit, callVars, dbVars, NoOffset
<1>9. ASSUME NEW j \in jobs, Execute(j) PROVE TypeOK'
  <2>1. PICK o \in Outcomes(method[j.c]) :
          /\ db' = IF o[2] THEN db + 1 ELSE db
          /\ effects' = IF o[2] THEN [effects EXCEPT ![j.c] = @ + 1] ELSE effects
          /\ jobs' = (jobs \ {j}) \cup
                     {[j EXCEPT !.stage = "replying", !.ok = o[1], !.changed = o[2], !.seen = db']}
    BY <1>9 DEF Execute
  <2>3. j \in Job /\ j.attempt <= MaxAttempts /\ o[1] \in BOOLEAN /\ o[2] \in BOOLEAN
    BY OutcomesTyped DEF TypeOK
  <2>2. db' \in Nat /\ effects' \in [Calls -> Nat]
    <3>1. j.c \in Calls
      BY <2>3 DEF Job
    <3>2. CASE o[2]
      <4>1. db' = db + 1 /\ effects' = [effects EXCEPT ![j.c] = @ + 1]
        BY <2>1, <3>2
      <4>2. db \in Nat /\ effects \in [Calls -> Nat]
        BY DEF TypeOK
      <4>. QED BY <3>1, <4>1, <4>2
    <3>3. CASE ~o[2]
      <4>1. db' = db /\ effects' = effects
        BY <2>1, <3>3
      <4>. QED BY <4>1 DEF TypeOK
    <3>. QED BY <3>2, <3>3
  <2> DEFINE k == [j EXCEPT !.stage = "replying", !.ok = o[1], !.changed = o[2], !.seen = db']
  <2>4. k \in Job /\ k.attempt <= MaxAttempts
    BY <2>2, <2>3 DEF Job
  <2>5. jobs' = (jobs \ {j}) \cup {k}
    BY <2>1
  <2> HIDE DEF k
  <2>6. jobs' \subseteq Job /\ \A i \in jobs' : i.attempt <= MaxAttempts
    BY <2>4, <2>5, ReplaceTyped
  <2>. QED BY <1>9, <2>2, <2>6 DEF TypeOK, Execute, callVars
<1>10. ASSUME NEW j \in jobs, Produce(j) PROVE TypeOK'
  <2>1. ReplyOf(j) \in Reply
    BY DEF TypeOK, ReplyOf, Reply, Job
  <2>. QED BY <1>10, <2>1 DEF TypeOK, Produce, callVars, dbVars
<1>11. ASSUME NEW j \in jobs, ProduceFails(j) PROVE TypeOK'
  <2> DEFINE a == j.attempt + 1
             k == [j EXCEPT !.stage = "backoff", !.attempt = a]
  <2>1. j \in Job /\ j.attempt \in Nat /\ a \in Nat
    BY DEF TypeOK, Job
  <2>2. jobs' = jobs \ {j} \/ (a <= MaxAttempts /\ jobs' = (jobs \ {j}) \cup {k})
    BY <1>11, <2>1 DEF ProduceFails
  <2> HIDE DEF a
  <2>3. k \in Job /\ k.attempt = a
    BY <2>1 DEF Job
  <2> HIDE DEF k
  <2>4. jobs' \subseteq Job /\ \A i \in jobs' : i.attempt <= MaxAttempts
    BY <2>2, <2>3, ReplaceTyped DEF TypeOK
  <2>. QED BY <1>11, <2>4 DEF TypeOK, ProduceFails, callVars, dbVars
<1>12. ASSUME NEW j \in jobs, Retry(j) PROVE TypeOK'
  <2> DEFINE k == [j EXCEPT !.stage = "replying"]
  <2>1. k \in Job /\ k.attempt <= MaxAttempts
    BY DEF TypeOK, Job
  <2>2. jobs' = (jobs \ {j}) \cup {k}
    BY <1>12 DEF Retry
  <2> HIDE DEF k
  <2>3. jobs' \subseteq Job /\ \A i \in jobs' : i.attempt <= MaxAttempts
    BY <2>1, <2>2, ReplaceTyped
  <2>. QED BY <1>12, <2>3 DEF TypeOK, Retry, callVars, dbVars
<1>13. ASSUME NEW crash \in BOOLEAN, Rewind(crash) PROVE TypeOK'
  <2>1. Len(requests) \in Nat
    BY DEF TypeOK
  <2>2. position' \in 0..Len(requests')
    BY <1>13, <2>1 DEF TypeOK, Rewind, NoOffset
  <2>3. jobs' \subseteq jobs /\ rewinds' \in 0..MaxRewinds
    BY <1>13 DEF TypeOK, Rewind
  <2>. QED BY <1>13, <2>2, <2>3 DEF TypeOK, Rewind, callVars, dbVars
<1>14. CASE UNCHANGED vars
  BY <1>14 DEF TypeOK, vars, callVars, workerVars, dbVars
<1>. QED
  BY <1>0, <1>1, <1>2, <1>3, <1>4, <1>5, <1>6, <1>7, <1>8, <1>9, <1>10, <1>11, <1>12, <1>13, <1>14 DEF Next

(* Every variable keeps its type; no attempt exceeds MaxAttempts and no     *)
(* offset the topic (kafka.ts 46-137).                                      *)
THEOREM Types == Spec => []TypeOK
BY TypeInit, TypeNext, PTL DEF Spec
-----------------------------------------------------------------------------
(* The pending table                                                        *)

Unsettled == {"idle", "waiting"}

LEMMA SettlePending ==
  ASSUME TypeOK, PendingArmed, NEW C \in SUBSET Calls, \A c \in C : stage[c] \in Unsettled,
         NEW how \in {"answered", "failed", "refused"}, Settle(C, how), UNCHANGED <<open, owner>>
  PROVE  PendingArmed'
<1> SUFFICES ASSUME NEW c \in Calls
             PROVE  /\ (c \in pending') = (stage'[c] = "waiting")
                    /\ (c \in timers') = (stage'[c] = "waiting")
                    /\ results'[c] <= (IF stage'[c] \in {"idle", "waiting"} THEN 0 ELSE 1)
                    /\ stage'[c] \notin {"idle", "waiting"} /\ owner'[c] \in open' => results'[c] = 1
  BY DEF PendingArmed
<1>1. CASE c \in C
  <2>1. stage'[c] = how /\ c \notin pending' /\ c \notin timers'
    BY <1>1 DEF Settle, TypeOK
  <2>2. results[c] = 0 /\ results'[c] = (IF owner[c] \in open THEN 1 ELSE 0)
    BY <1>1 DEF Settle, TypeOK, PendingArmed, Unsettled
  <2>. QED BY <2>1, <2>2
<1>2. CASE c \notin C
  BY <1>2 DEF Settle, TypeOK, PendingArmed
<1>. QED BY <1>1, <1>2

LEMMA PendingInit == Init => PendingArmed
BY DEF Init, PendingArmed

LEMMA PendingNext == TypeOK /\ PendingArmed /\ [Next]_vars => PendingArmed'
<1> SUFFICES ASSUME TypeOK, PendingArmed, [Next]_vars PROVE PendingArmed'
  OBVIOUS
<1>1. ASSUME NEW c \in Calls, Call(c) PROVE PendingArmed'
  BY <1>1 DEF TypeOK, PendingArmed, Call
<1>2. ASSUME NEW c \in Calls, Refuse(c) PROVE PendingArmed'
  BY <1>2, SettlePending DEF Refuse, Unsettled
<1>3. ASSUME NEW c \in Calls, Timeout(c) PROVE PendingArmed'
  <2>1. stage[c] \in Unsettled
    BY <1>3 DEF Timeout, PendingArmed, Unsettled
  <2>. QED BY <1>3, <2>1, SettlePending DEF Timeout
<1>4. ASSUME NEW r \in replies, OnData(r) PROVE PendingArmed'
  <2>1. r.c \in Calls /\ stage[r.c] \in Unsettled
    BY <1>4 DEF OnData, PendingArmed, Unsettled, TypeOK
  <2>2. (IF r.ok THEN "answered" ELSE "failed") \in {"answered", "failed", "refused"}
    OBVIOUS
  <2>3. Settle({r.c}, IF r.ok THEN "answered" ELSE "failed") /\ UNCHANGED <<open, owner>>
    BY <1>4 DEF OnData, Told
  <2>. QED BY <2>1, <2>2, <2>3, SettlePending
<1>5. ASSUME Stop PROVE PendingArmed'
  <2>1. pending \in SUBSET Calls /\ \A c \in pending : stage[c] \in Unsettled
    BY DEF TypeOK, PendingArmed, Unsettled
  <2>. QED BY <1>5, <2>1, SettlePending DEF Stop
<1>6. ASSUME NEW s \in Sessions, Close(s) PROVE PendingArmed'
  BY <1>6 DEF PendingArmed, Close, callVars
<1>7. CASE UNCHANGED <<open, callVars>>
  BY <1>7 DEF PendingArmed, callVars
<1>8. ASSUME NEW j \in jobs, Execute(j) \/ Produce(j) \/ ProduceFails(j) \/ Retry(j) PROVE PendingArmed'
  BY <1>7, <1>8 DEF Execute, Produce, ProduceFails, Retry
<1>9. ASSUME (\E c \in Calls : Arrive(c)) \/ Receive \/ AutoCommit \/ \E crash \in BOOLEAN : Rewind(crash)
      PROVE  PendingArmed'
  BY <1>7, <1>9 DEF Arrive, Receive, Started, AutoCommit, Rewind
<1>10. CASE UNCHANGED vars
  BY <1>7, <1>10 DEF vars
<1>. QED BY <1>1, <1>2, <1>3, <1>4, <1>5, <1>6, <1>8, <1>9, <1>10 DEF Next

(* The pending table, the timers and the unsettled promises are the same    *)
(* calls, and a settled call has told its session once, or found it gone    *)
(* (sql-rpc.ts 124-217, ws/rpc.ts 170-190).                                 *)
THEOREM PendingHolds == Spec => []PendingArmed
BY TypeInit, TypeNext, PendingInit, PendingNext, PTL DEF Spec
-----------------------------------------------------------------------------
(* The promise to the caller.  What links the parts: a request, a job or a  *)
(* reply is that of a call that was made, and a finished job or a reply is  *)
(* dated between the call and the present.                                  *)

Dated(x) ==
  /\ asked[x.c] <= x.seen /\ x.seen <= db
  /\ x.changed => effects[x.c] > 0 /\ x.seen > asked[x.c]

Linked ==
  /\ \A i \in 1..Len(requests) : stage[requests[i]] \in Sent
  /\ \A j \in jobs : stage[j.c] \in Sent /\ (j.stage # "running" => Dated(j))
  /\ \A r \in replies : stage[r.c] \in Sent /\ Dated(r)
  /\ \A c \in Calls : asked[c] <= db

IInv == TypeOK /\ PendingArmed /\ Linked

\* What every step does to the facts Linked speaks of.
Ages ==
  /\ \A c \in Calls : stage[c] \in Sent => stage'[c] \in Sent /\ asked'[c] = asked[c]
  /\ db <= db'
  /\ \A c \in Calls : effects[c] <= effects'[c]

\* Dated(x)'
DatedThen(x) ==
  /\ asked'[x.c] <= x.seen /\ x.seen <= db'
  /\ x.changed => effects'[x.c] > 0 /\ x.seen > asked'[x.c]

LEMMA DatedKept ==
  ASSUME TypeOK, TypeOK', Ages, NEW x, x.c \in Calls, x.seen \in Nat, stage[x.c] \in Sent, Dated(x)
  PROVE  DatedThen(x)
<1>1. asked'[x.c] = asked[x.c] /\ effects[x.c] <= effects'[x.c] /\ db <= db'
  BY DEF Ages
<1>2. effects[x.c] \in Nat /\ effects'[x.c] \in Nat /\ db \in Nat /\ db' \in Nat /\ asked[x.c] \in Nat
  BY DEF TypeOK
<1>. QED BY <1>1, <1>2 DEF Dated, DatedThen

\* What a step adds to the jobs and the replies is linked.
AddsLinked ==
  /\ \A j \in jobs' : j \in jobs \/ (stage[j.c] \in Sent /\ (j.stage # "running" => DatedThen(j)))
  /\ \A r \in replies' : r \in replies \/ (stage[r.c] \in Sent /\ DatedThen(r))

\* A step that makes no request and no call, and adds linked jobs and replies.
LEMMA LinkedKept ==
  ASSUME TypeOK, TypeOK', Linked, Ages, AddsLinked, requests' = requests /\ asked' = asked
  PROVE  Linked'
<1>1. \A i \in 1..Len(requests') : stage'[requests'[i]] \in Sent
  <2>1. \A i \in 1..Len(requests) : requests[i] \in Calls
    BY DEF TypeOK
  <2>. QED BY <2>1 DEF Linked, Ages
<1>2. ASSUME NEW j \in jobs' PROVE stage'[j.c] \in Sent /\ (j.stage # "running" => DatedThen(j))
  <2>1. j.c \in Calls /\ j.seen \in Nat
    BY <1>2 DEF TypeOK, Job
  <2>2. CASE j \in jobs
    BY <2>1, <2>2, DatedKept DEF Linked, Ages
  <2>3. CASE j \notin jobs
    BY <1>2, <2>1, <2>3 DEF Ages, AddsLinked
  <2>. QED BY <2>2, <2>3
<1>3. ASSUME NEW r \in replies' PROVE stage'[r.c] \in Sent /\ DatedThen(r)
  <2>1. r.c \in Calls /\ r.seen \in Nat
    BY <1>3 DEF TypeOK, Reply
  <2>2. CASE r \in replies
    BY <2>1, <2>2, DatedKept DEF Linked, Ages
  <2>3. CASE r \notin replies
    BY <1>3, <2>1, <2>3 DEF Ages, AddsLinked
  <2>. QED BY <2>2, <2>3
<1>4. ASSUME NEW c \in Calls PROVE asked'[c] <= db'
  <2>1. asked[c] \in Nat /\ db \in Nat /\ db' \in Nat
    BY DEF TypeOK
  <2>. QED BY <2>1 DEF Linked, Ages
<1>. QED BY <1>1, <1>2, <1>3, <1>4 DEF Linked, Dated, DatedThen

\* A step of the client that ends promises.
LEMMA LinkedSettle ==
  ASSUME TypeOK, TypeOK', Linked, NEW C, NEW how \in {"answered", "failed", "refused"}, Settle(C, how),
         \A c \in C : how = "refused" => stage[c] \notin Sent,
         asked' = asked /\ requests' = requests /\ jobs' = jobs /\ replies' = replies /\ db' = db /\ effects' = effects
  PROVE  Linked'
<1>1. Ages
  BY DEF Ages, Settle, TypeOK, Sent, dbVars
<1>2. AddsLinked
  BY DEF AddsLinked
<1>. QED BY <1>1, <1>2, LinkedKept

LEMMA LinkedInit == Init => Linked
BY DEF Init, Linked

LEMMA LinkedNext == IInv /\ TypeOK' /\ [Next]_vars => Linked'
<1> SUFFICES ASSUME TypeOK, PendingArmed, Linked, TypeOK', [Next]_vars PROVE Linked'
  BY DEF IInv
<1>0. ASSUME NEW c \in Calls, Arrive(c) PROVE Linked'
  <2>1. /\ Ages /\ jobs' = jobs /\ replies' = replies /\ stage' = stage /\ asked' = asked /\ db' = db
        /\ stage[c] \in Sent /\ requests' = Append(requests, c) /\ requests \in Seq(Calls)
    BY <1>0 DEF Arrive, Ages, TypeOK, callVars, dbVars, workerVars
  <2>2. ASSUME NEW i \in 1..Len(requests') PROVE stage'[requests'[i]] \in Sent
    <3>1. CASE i \in 1..Len(requests)
      BY <2>1, <3>1 DEF Linked
    <3>2. CASE i \notin 1..Len(requests)
      BY <2>1, <3>2
    <3>. QED BY <3>1, <3>2
  <2>3. ASSUME NEW j \in jobs' PROVE stage'[j.c] \in Sent /\ (j.stage # "running" => DatedThen(j))
    <3>1. j \in jobs /\ j.c \in Calls /\ j.seen \in Nat
      BY <2>1 DEF TypeOK, Job
    <3>. QED BY <2>1, <3>1, DatedKept DEF Linked, Ages
  <2>4. ASSUME NEW r \in replies' PROVE stage'[r.c] \in Sent /\ DatedThen(r)
    <3>1. r \in replies /\ r.c \in Calls /\ r.seen \in Nat
      BY <2>1 DEF TypeOK, Reply
    <3>. QED BY <2>1, <3>1, DatedKept DEF Linked, Ages
  <2>5. \A d \in Calls : asked'[d] <= db'
    BY <2>1 DEF Linked
  <2>. QED BY <2>2, <2>3, <2>4, <2>5 DEF Linked, Dated, DatedThen
<1>1. ASSUME NEW c \in Calls, Call(c) PROVE Linked'
  <2>1. Ages /\ jobs' = jobs /\ replies' = replies /\ db' = db /\ requests' = requests
    BY <1>1 DEF Call, Ages, TypeOK, Sent, dbVars, workerVars
  <2>2. ASSUME NEW i \in 1..Len(requests') PROVE stage'[requests'[i]] \in Sent
    <3>1. requests[i] \in Calls
      BY <2>1 DEF TypeOK
    <3>. QED BY <2>1, <3>1 DEF Linked, Ages
  <2>3. ASSUME NEW j \in jobs' PROVE stage'[j.c] \in Sent /\ (j.stage # "running" => DatedThen(j))
    <3>1. j \in jobs /\ j.c \in Calls /\ j.seen \in Nat
      BY <2>1 DEF TypeOK, Job
    <3>. QED BY <2>1, <3>1, DatedKept DEF Linked, Ages
  <2>4. ASSUME NEW r \in replies' PROVE stage'[r.c] \in Sent /\ DatedThen(r)
    <3>1. r \in replies /\ r.c \in Calls /\ r.seen \in Nat
      BY <2>1 DEF TypeOK, Reply
    <3>. QED BY <2>1, <3>1, DatedKept DEF Linked, Ages
  <2>5. \A d \in Calls : asked'[d] <= db'
    BY <1>1, <2>1 DEF Call, Linked, TypeOK
  <2>. QED BY <2>2, <2>3, <2>4, <2>5 DEF Linked, Dated, DatedThen
<1>2. ASSUME NEW c \in Calls, Refuse(c) PROVE Linked'
  <2>1. stage[c] \notin Sent
    BY <1>2 DEF Refuse, Sent
  <2>. QED BY <1>2, <2>1, LinkedSettle DEF Refuse, workerVars, dbVars
<1>3. ASSUME NEW c \in Calls, Timeout(c) PROVE Linked'
  BY <1>3, LinkedSettle DEF Timeout, workerVars, dbVars
<1>4. ASSUME NEW r \in replies, OnData(r) PROVE Linked'
  <2> DEFINE how == IF r.ok THEN "answered" ELSE "failed"
  <2>1. how \in {"answered", "failed", "refused"} /\ how # "refused"
    OBVIOUS
  <2>2. Settle({r.c}, how) /\ asked' = asked /\ requests' = requests /\ jobs' = jobs /\ replies' = replies /\ db' = db /\ effects' = effects
    BY <1>4 DEF OnData, Told, workerVars, dbVars
  <2> HIDE DEF how
  <2>. QED BY <2>1, <2>2, LinkedSettle
<1>5. ASSUME Stop PROVE Linked'
  BY <1>5, LinkedSettle DEF Stop, workerVars, dbVars
<1>6. ASSUME NEW s \in Sessions, Close(s) PROVE Linked'
  <2>1. Ages /\ requests' = requests /\ asked' = asked /\ jobs' = jobs /\ replies' = replies
    BY <1>6 DEF Close, Ages, TypeOK, callVars, workerVars, dbVars
  <2>2. AddsLinked
    BY <2>1 DEF AddsLinked
  <2>. QED BY <2>1, <2>2, LinkedKept
<1>7. ASSUME Receive PROVE Linked'
  <2> DEFINE c == requests[position + 1]
             new == [n |-> deliveries + 1, c |-> c, stage |-> "running",
                     ok |-> FALSE, changed |-> FALSE, seen |-> 0, attempt |-> 0]
  <2>1. Ages /\ requests' = requests /\ asked' = asked /\ replies' = replies
    BY <1>7 DEF Receive, Started, Ages, TypeOK, callVars, dbVars
  <2>2. position + 1 \in 1..Len(requests)
    BY <1>7 DEF Receive, TypeOK
  <2>3. stage[c] \in Sent
    BY <2>2 DEF Linked
  <2>4. new.c = c /\ new.stage = "running"
    OBVIOUS
  <2>5. jobs' = jobs \cup {new}
    BY <1>7 DEF Receive, Started
  <2> HIDE DEF c, new
  <2>6. AddsLinked
    BY <2>1, <2>3, <2>4, <2>5 DEF AddsLinked
  <2>. QED BY <2>1, <2>6, LinkedKept
<1>8. ASSUME AutoCommit \/ \E crash \in BOOLEAN : Rewind(crash) PROVE Linked'
  <2>1. Ages /\ requests' = requests /\ asked' = asked /\ replies' = replies /\ jobs' \subseteq jobs
    BY <1>8 DEF AutoCommit, Rewind, Ages, TypeOK, callVars, dbVars
  <2>2. AddsLinked
    BY <2>1 DEF AddsLinked
  <2>. QED BY <2>1, <2>2, LinkedKept
<1>9. ASSUME NEW j \in jobs, Execute(j) PROVE Linked'
  <2>1. PICK o \in Outcomes(method[j.c]) :
          /\ db' = IF o[2] THEN db + 1 ELSE db
          /\ effects' = IF o[2] THEN [effects EXCEPT ![j.c] = @ + 1] ELSE effects
          /\ jobs' = (jobs \ {j}) \cup
                     {[j EXCEPT !.stage = "replying", !.ok = o[1], !.changed = o[2], !.seen = db']}
    BY <1>9 DEF Execute
  <2> DEFINE k == [j EXCEPT !.stage = "replying", !.ok = o[1], !.changed = o[2], !.seen = db']
  <2>2. j \in Job /\ j.c \in Calls /\ o[2] \in BOOLEAN
    BY OutcomesTyped DEF TypeOK, Job
  <2>3. k.c = j.c /\ k.changed = o[2] /\ k.seen = db' /\ jobs' = (jobs \ {j}) \cup {k}
    BY <2>1, <2>2 DEF Job
  <2> HIDE DEF k
  <2>4. requests' = requests /\ asked' = asked /\ replies' = replies /\ stage' = stage
    BY <1>9 DEF Execute, callVars
  <2>5. Ages
    <3>1. db \in Nat /\ db <= db'
      BY <2>1 DEF TypeOK
    <3>2. ASSUME NEW c \in Calls PROVE effects[c] <= effects'[c]
      <4>1. effects \in [Calls -> Nat] /\ effects[c] \in Nat
        BY DEF TypeOK
      <4>. QED BY <2>1, <4>1
    <3>. QED BY <2>4, <3>1, <3>2 DEF Ages
  <2>6. stage[k.c] \in Sent
    BY <2>3 DEF Linked
  <2>7. asked[j.c] \in Nat /\ asked[j.c] <= db /\ db \in Nat /\ effects[j.c] \in Nat /\ asked' = asked
    BY <2>2, <2>4 DEF Linked, TypeOK
  <2>8. DatedThen(k)
    <3>1. CASE o[2]
      <4>1. effects \in [Calls -> Nat]
        BY DEF TypeOK
      <4>2. effects'[j.c] = effects[j.c] + 1 /\ db' = db + 1
        BY <2>1, <2>2, <3>1, <4>1
      <4>. QED BY <2>3, <2>7, <4>2 DEF DatedThen
    <3>2. CASE ~o[2]
      <4>1. ~k.changed
        BY <2>2, <2>3, <3>2
      <4>2. db' = db
        BY <2>1, <3>2
      <4>. QED BY <2>3, <2>7, <4>1, <4>2 DEF DatedThen
    <3>. QED BY <2>2, <3>1, <3>2
  <2>9. AddsLinked
    BY <2>3, <2>4, <2>6, <2>8 DEF AddsLinked
  <2>. QED BY <2>4, <2>5, <2>9, LinkedKept
<1>10. ASSUME NEW j \in jobs, Produce(j) PROVE Linked'
  <2>1. Ages /\ requests' = requests /\ asked' = asked /\ stage' = stage /\ db' = db /\ effects' = effects
        /\ replies' = replies \cup {ReplyOf(j)} /\ jobs' = jobs \ {j}
    BY <1>10 DEF Produce, Ages, TypeOK, callVars, dbVars
  <2>2. stage[j.c] \in Sent /\ Dated(j)
    BY <1>10 DEF Produce, Linked
  <2>3. ReplyOf(j).c = j.c /\ ReplyOf(j).seen = j.seen /\ ReplyOf(j).changed = j.changed
    BY DEF ReplyOf
  <2>4. stage[ReplyOf(j).c] \in Sent /\ DatedThen(ReplyOf(j))
    BY <2>1, <2>2, <2>3 DEF Dated, DatedThen, dbVars
  <2>5. AddsLinked
    BY <2>1, <2>4 DEF AddsLinked
  <2>. QED BY <2>1, <2>5, LinkedKept
<1>11. ASSUME NEW j \in jobs, ProduceFails(j) \/ Retry(j) PROVE Linked'
  <2> DEFINE a == j.attempt + 1
  <2>1. Ages /\ requests' = requests /\ asked' = asked /\ replies' = replies /\ stage' = stage /\ db' = db /\ effects' = effects
    BY <1>11 DEF ProduceFails, Retry, Ages, TypeOK, callVars, dbVars
  <2>2. PICK k : /\ jobs' \subseteq jobs \cup {k} /\ k.c = j.c
                 /\ k.seen = j.seen /\ k.changed = j.changed
    <3>1. j \in Job
      BY DEF TypeOK
    <3>2. CASE ProduceFails(j)
      <4>1. jobs' \subseteq jobs \cup {[j EXCEPT !.stage = "backoff", !.attempt = a]}
        BY <3>2 DEF ProduceFails
      <4> HIDE DEF a
      <4>. QED BY <3>1, <4>1 DEF Job
    <3>3. CASE Retry(j)
      <4>1. jobs' \subseteq jobs \cup {[j EXCEPT !.stage = "replying"]}
        BY <3>3 DEF Retry
      <4>. QED BY <3>1, <4>1 DEF Job
    <3>. QED BY <1>11, <3>2, <3>3
  <2>3. stage[j.c] \in Sent /\ Dated(j)
    BY <1>11 DEF ProduceFails, Retry, Linked
  <2>4. stage[k.c] \in Sent /\ DatedThen(k)
    BY <2>1, <2>2, <2>3 DEF Dated, DatedThen, dbVars
  <2>5. AddsLinked
    BY <2>1, <2>2, <2>4 DEF AddsLinked
  <2>. QED BY <2>1, <2>5, LinkedKept
<1>12. CASE UNCHANGED vars
  <2>1. Ages /\ requests' = requests /\ asked' = asked /\ jobs' = jobs /\ replies' = replies
    BY <1>12 DEF vars, Ages, TypeOK, callVars, workerVars, dbVars
  <2>2. AddsLinked
    BY <2>1 DEF AddsLinked
  <2>. QED BY <2>1, <2>2, LinkedKept
<1>. QED
  BY <1>0, <1>1, <1>2, <1>3, <1>4, <1>5, <1>6, <1>7, <1>8, <1>9, <1>10, <1>11, <1>12 DEF Next

LEMMA IInvHolds == Spec => []IInv
<1>1. Init => IInv
  BY TypeInit, PendingInit, LinkedInit DEF IInv
<1>2. IInv /\ [Next]_vars => IInv'
  BY TypeNext, PendingNext, LinkedNext DEF IInv
<1>. QED BY <1>1, <1>2, PTL DEF Spec

LEMMA RefinesInit == Init => Promise!Init
BY DEF Init, Promise!Init

LEMMA RefinesFail ==
  ASSUME TypeOK, PendingArmed, NEW C \in SUBSET Calls, \A c \in C : stage[c] = "waiting", Settle(C, "failed"),
         UNCHANGED <<asked, seen, changed, effects, db>>
  PROVE  Promise!Next
<1>1. Promise!Fail(C)
  BY DEF Promise!Fail, Settle
<1>. QED BY <1>1 DEF Promise!Next

LEMMA RefinesNext == IInv /\ [Next]_vars => [Promise!Next]_Promise!vars
<1> SUFFICES ASSUME TypeOK, PendingArmed, Linked, [Next]_vars
             PROVE  Promise!Next \/ UNCHANGED Promise!vars
  BY DEF IInv
<1> USE DEF Promise!vars
<1>1. ASSUME NEW c \in Calls, Call(c) PROVE Promise!Next
  <2>1. Promise!Ask(c)
    BY <1>1 DEF Call, Promise!Ask, dbVars
  <2>. QED BY <2>1 DEF Promise!Next
<1>2. ASSUME NEW c \in Calls, Refuse(c) PROVE Promise!Next
  <2>1. Promise!Refuse(c)
    BY <1>2 DEF Refuse, Settle, Promise!Refuse, dbVars, TypeOK
  <2>. QED BY <2>1 DEF Promise!Next
<1>3. ASSUME NEW c \in Calls, Timeout(c) PROVE Promise!Next
  BY <1>3, RefinesFail DEF Timeout, PendingArmed, dbVars
<1>4. ASSUME NEW r \in replies, OnData(r) PROVE Promise!Next
  <2>1. r \in Reply /\ r.c \in Calls /\ stage[r.c] = "waiting" /\ Dated(r)
    BY <1>4 DEF OnData, PendingArmed, TypeOK, Reply, Linked
  <2>2. CASE r.ok
    <3>1. Settle({r.c}, "answered") /\ Told(r)
      BY <1>4, <2>2 DEF OnData
    <3>2. stage' = [stage EXCEPT ![r.c] = "answered"]
      BY <3>1 DEF Settle, TypeOK
    <3>3. r.seen \in asked[r.c]..db /\ r.changed \in BOOLEAN
      BY <2>1 DEF Dated, Reply, TypeOK
    <3>4. Promise!Answer(r.c)
      BY <2>1, <2>2, <3>1, <3>2, <3>3 DEF Told, Dated, dbVars, Promise!Answer
    <3>. QED BY <2>1, <3>4 DEF Promise!Next
  <2>3. CASE ~r.ok
    BY <1>4, <2>1, <2>3, RefinesFail DEF OnData, Told, dbVars
  <2>. QED BY <2>2, <2>3
<1>5. ASSUME Stop PROVE Promise!Next
  <2>1. pending \in SUBSET Calls /\ \A c \in pending : stage[c] = "waiting"
    BY DEF TypeOK, PendingArmed
  <2>. QED BY <1>5, <2>1, RefinesFail DEF Stop, dbVars
<1>6. ASSUME NEW s \in Sessions, Close(s) PROVE UNCHANGED Promise!vars
  BY <1>6 DEF Close, callVars, dbVars
<1>7. ASSUME (\E c \in Calls : Arrive(c)) \/ Receive \/ AutoCommit \/ \E crash \in BOOLEAN : Rewind(crash)
      PROVE  UNCHANGED Promise!vars
  BY <1>7 DEF Arrive, Receive, Started, AutoCommit, Rewind, callVars, dbVars
<1>8. ASSUME NEW j \in jobs, Execute(j) PROVE Promise!Next \/ UNCHANGED Promise!vars
  <2>1. PICK o \in Outcomes(method[j.c]) :
          /\ db' = IF o[2] THEN db + 1 ELSE db
          /\ effects' = IF o[2] THEN [effects EXCEPT ![j.c] = @ + 1] ELSE effects
    BY <1>8 DEF Execute
  <2>2. j.c \in Calls /\ stage[j.c] \in Sent /\ UNCHANGED <<stage, asked, seen, changed>>
    BY <1>8 DEF TypeOK, Job, Linked, Execute, callVars
  <2>3. CASE o[2]
    <3>1. Promise!Perform(j.c)
      BY <2>1, <2>2, <2>3 DEF Promise!Perform, Sent
    <3>. QED BY <2>2, <3>1 DEF Promise!Next
  <2>4. CASE ~o[2]
    BY <2>1, <2>2, <2>4
  <2>. QED BY <2>3, <2>4
<1>9. ASSUME NEW j \in jobs, Produce(j) \/ ProduceFails(j) \/ Retry(j) PROVE UNCHANGED Promise!vars
  BY <1>9 DEF Produce, ProduceFails, Retry, callVars, dbVars
<1>10. CASE UNCHANGED vars
  BY <1>10 DEF vars, callVars, dbVars
<1>. QED BY <1>1, <1>2, <1>3, <1>4, <1>5, <1>6, <1>7, <1>8, <1>9, <1>10 DEF Next

(* Client, topics and worker keep the promise of RpcCall: a call is settled *)
(* once, its answer describes the database at a moment after the call, and  *)
(* what it tells of was done (sql-rpc.ts 124-217, kafka.ts 46-137).         *)
THEOREM KeepsPromise == Spec => ImplementsRpcCall
<1>1. Spec => []IInv
  BY IInvHolds
<1>2. Init => Promise!Init
  BY RefinesInit
<1>3. IInv /\ [Next]_vars => [Promise!Next]_Promise!vars
  BY RefinesNext
<1>. QED BY <1>1, <1>2, <1>3, PTL DEF Spec, ImplementsRpcCall, Promise!Spec
-----------------------------------------------------------------------------
(***************************************************************************)
(* How often a request changes the database.  Two arguments, both on the   *)
(* invariant above: a count of what may still be done for a call, which a  *)
(* copy in the topic raises by one and a rewind by one for each copy; and, *)
(* while there was no rewind, an account of who knows what a call with one *)
(* copy has done.                                                          *)
(***************************************************************************)
(* The count                                                                *)

Running(c) == {j \in jobs : j.stage = "running" /\ j.c = c}
Ahead(c) == {i \in Copies(c) : i > position}
One(b) == IF b THEN 1 ELSE 0

Budget ==
  /\ IsFiniteSet(jobs)
  /\ \A c \in Calls :
       effects[c] + Cardinality(Running(c)) + Cardinality(Ahead(c)) <= Cardinality(Copies(c)) * (1 + rewinds)

\* What is counted is finite.
LEMMA Counted ==
  ASSUME TypeOK, IsFiniteSet(jobs), NEW c \in Calls
  PROVE  /\ IsFiniteSet(Running(c)) /\ IsFiniteSet(Ahead(c)) /\ IsFiniteSet(Copies(c))
         /\ Cardinality(Running(c)) \in Nat /\ Cardinality(Ahead(c)) \in Nat /\ Cardinality(Copies(c)) \in Nat
         /\ effects[c] \in Nat /\ rewinds \in Nat /\ position \in Nat /\ Len(requests) \in Nat
         /\ position <= Len(requests) /\ DOMAIN requests = 1..Len(requests)
<1>1. Len(requests) \in Nat /\ DOMAIN requests = 1..Len(requests) /\ effects[c] \in Nat /\ rewinds \in Nat
  BY DEF TypeOK
<1>2. position \in Nat /\ position <= Len(requests)
  BY <1>1 DEF TypeOK
<1>3. IsFiniteSet(1..Len(requests))
  BY <1>1, FS_Interval
<1>4. IsFiniteSet(Copies(c))
  BY <1>1, <1>3, FS_Subset DEF Copies
<1>5. IsFiniteSet(Ahead(c)) /\ IsFiniteSet(Running(c))
  BY <1>4, FS_Subset DEF Ahead, Running
<1>. QED BY <1>1, <1>2, <1>4, <1>5, FS_CardinalityType

\* Steps that leave requests, effects and the running executions alone.
LEMMA BudgetStutter ==
  ASSUME Budget, requests' = requests, effects' = effects, rewinds' = rewinds, position' = position,
         IsFiniteSet(jobs'), \A c \in Calls : Running(c)' = Running(c)
  PROVE  Budget'
<1>1. \A c \in Calls : Copies(c)' = Copies(c) /\ Ahead(c)' = Ahead(c)
  BY DEF Copies, Ahead
<1>. QED BY <1>1 DEF Budget

LEMMA BudgetInit == Init => Budget
<1> SUFFICES ASSUME Init PROVE Budget
  OBVIOUS
<1>1. jobs = {} /\ requests = <<>> /\ rewinds = 0 /\ \A c \in Calls : effects[c] = 0
  BY DEF Init
<1>2. \A c \in Calls : Running(c) = {} /\ Copies(c) = {} /\ Ahead(c) = {}
  BY <1>1 DEF Running, Copies, Ahead
<1>3. Cardinality({}) = 0 /\ IsFiniteSet({})
  BY FS_EmptySet
<1>4. ASSUME NEW c \in Calls
      PROVE  effects[c] + Cardinality(Running(c)) + Cardinality(Ahead(c)) <= Cardinality(Copies(c)) * (1 + rewinds)
  <2>1. /\ effects[c] = 0 /\ rewinds = 0 /\ Cardinality(Running(c)) = 0
        /\ Cardinality(Ahead(c)) = 0 /\ Cardinality(Copies(c)) = 0
    BY <1>1, <1>2, <1>3
  <2>. QED BY <2>1
<1>. QED BY <1>1, <1>3, <1>4 DEF Budget

\* A job that is not running takes the place of another, or none does.
LEMMA RunningKept ==
  ASSUME NEW j \in jobs, j.stage # "running", NEW k, k.stage # "running",
         jobs' = (jobs \ {j}) \cup {k} \/ jobs' = jobs \ {j}, NEW c
  PROVE  Running(c)' = Running(c)
BY DEF Running

\* One more copy in the topic.
LEMMA BudgetArrives ==
  ASSUME TypeOK, Budget, NEW c \in Calls, Arrive(c)
  PROVE  Budget'
<1>1. /\ requests' = Append(requests, c) /\ requests \in Seq(Calls)
      /\ jobs' = jobs /\ effects' = effects /\ rewinds' = rewinds /\ position' = position
  BY DEF Arrive, TypeOK, callVars, workerVars, dbVars
<1> DEFINE n == Len(requests) + 1
<1>2. /\ n \in Nat /\ DOMAIN requests = 1..Len(requests) /\ DOMAIN requests' = 1..n /\ requests'[n] = c
      /\ \A i \in 1..Len(requests) : requests'[i] = requests[i]
      /\ n \notin DOMAIN requests /\ DOMAIN requests' = DOMAIN requests \cup {n}
  BY <1>1
<1>3. position < n
  BY <1>2 DEF TypeOK
<1> HIDE DEF n
<1>4. ASSUME NEW d \in Calls
      PROVE  effects'[d] + Cardinality(Running(d)') + Cardinality(Ahead(d)')
               <= Cardinality(Copies(d)') * (1 + rewinds')
  <2>1. /\ effects[d] \in Nat /\ rewinds \in Nat /\ Cardinality(Running(d)) \in Nat
        /\ Cardinality(Ahead(d)) \in Nat /\ Cardinality(Copies(d)) \in Nat
        /\ IsFiniteSet(Ahead(d)) /\ IsFiniteSet(Copies(d))
        /\ effects[d] + Cardinality(Running(d)) + Cardinality(Ahead(d)) <= Cardinality(Copies(d)) * (1 + rewinds)
    BY Counted DEF Budget
  <2>2. Running(d)' = Running(d)
    BY <1>1 DEF Running
  <2>3. CASE d # c
    <3>1. Copies(d)' = Copies(d)
      BY <1>2, <2>3 DEF Copies
    <3>2. Ahead(d)' = Ahead(d)
      BY <1>1, <3>1 DEF Ahead
    <3>. QED BY <1>1, <2>1, <2>2, <3>1, <3>2
  <2>4. CASE d = c
    <3>1. Copies(d)' = Copies(d) \cup {n} /\ n \notin Copies(d)
      BY <1>2, <2>4 DEF Copies
    <3>2. Ahead(d)' = Ahead(d) \cup {n} /\ n \notin Ahead(d)
      BY <1>1, <1>3, <3>1 DEF Ahead
    <3>3. Cardinality(Copies(d)') = Cardinality(Copies(d)) + 1
      BY <2>1, <3>1, FS_AddElement
    <3>4. Cardinality(Ahead(d)') = Cardinality(Ahead(d)) + 1
      BY <2>1, <3>2, FS_AddElement
    <3>5. \A k, r \in Nat : (k + 1) * (1 + r) >= k * (1 + r) + 1
      <4>1. \A k, r \in Nat : (k + 1) * (1 + r) = k * (1 + r) + (1 + r)
        OBVIOUS
      <4>2. \A k, r \in Nat : k * (1 + r) \in Nat
        OBVIOUS
      <4>. QED BY <4>1, <4>2
    <3>6. Cardinality(Copies(d)') * (1 + rewinds) >= Cardinality(Copies(d)) * (1 + rewinds) + 1
      BY <2>1, <3>3, <3>5
    <3>7. \A e, m, a, p, q \in Nat : e + m + a <= p /\ q >= p + 1 => e + m + (a + 1) <= q
      OBVIOUS
    <3>8. Cardinality(Copies(d)) * (1 + rewinds) \in Nat /\ Cardinality(Copies(d)') * (1 + rewinds) \in Nat
      <4>1. \A k, r \in Nat : k * (1 + r) \in Nat
        OBVIOUS
      <4>. QED BY <2>1, <3>3, <4>1
    <3>. QED BY <1>1, <2>1, <2>2, <3>4, <3>6, <3>7, <3>8
  <2>. QED BY <2>3, <2>4
<1>. QED BY <1>1, <1>4 DEF Budget

\* A rewind may bring every copy again.
LEMMA BudgetRewinds ==
  ASSUME TypeOK, Budget, NEW crash \in BOOLEAN, Rewind(crash)
  PROVE  Budget'
<1>1. /\ requests' = requests /\ effects' = effects /\ rewinds' = rewinds + 1
      /\ jobs' = (IF crash THEN {} ELSE jobs)
  BY DEF Rewind, callVars, dbVars
<1>2. IsFiniteSet(jobs')
  BY <1>1, FS_EmptySet DEF Budget
<1>3. ASSUME NEW d \in Calls
      PROVE  effects'[d] + Cardinality(Running(d)') + Cardinality(Ahead(d)')
               <= Cardinality(Copies(d)') * (1 + rewinds')
  <2>1. /\ effects[d] \in Nat /\ rewinds \in Nat /\ Cardinality(Running(d)) \in Nat
        /\ Cardinality(Ahead(d)) \in Nat /\ Cardinality(Copies(d)) \in Nat
        /\ IsFiniteSet(Running(d)) /\ IsFiniteSet(Copies(d))
        /\ effects[d] + Cardinality(Running(d)) + Cardinality(Ahead(d)) <= Cardinality(Copies(d)) * (1 + rewinds)
    BY Counted DEF Budget
  <2>2. Copies(d)' = Copies(d)
    BY <1>1 DEF Copies
  <2>3. Cardinality(Running(d)') <= Cardinality(Running(d)) /\ Cardinality(Running(d)') \in Nat
    <3>1. Running(d)' \subseteq Running(d)
      BY <1>1 DEF Running
    <3>. QED BY <2>1, <3>1, FS_Subset, FS_CardinalityType
  <2>4. Cardinality(Ahead(d)') <= Cardinality(Copies(d)) /\ Cardinality(Ahead(d)') \in Nat
    <3>1. Ahead(d)' \subseteq Copies(d)
      BY <2>2 DEF Ahead
    <3>. QED BY <2>1, <3>1, FS_Subset, FS_CardinalityType
  <2>5. Cardinality(Copies(d)) * (1 + (rewinds + 1)) = Cardinality(Copies(d)) * (1 + rewinds) + Cardinality(Copies(d))
    <3>1. \A k, r \in Nat : k * (1 + (r + 1)) = k * (1 + r) + k
      OBVIOUS
    <3>. QED BY <2>1, <3>1
  <2>6. Cardinality(Copies(d)) * (1 + rewinds) \in Nat
    <3>1. \A k, r \in Nat : k * (1 + r) \in Nat
      OBVIOUS
    <3>. QED BY <2>1, <3>1
  <2>7. \A e, m, a, m1, a1, k, p \in Nat : e + m + a <= p /\ m1 <= m /\ a1 <= k => e + m1 + a1 <= p + k
    OBVIOUS
  <2>. QED BY <1>1, <2>1, <2>2, <2>3, <2>4, <2>5, <2>6, <2>7
<1>. QED BY <1>2, <1>3 DEF Budget

\* A copy becomes an execution.
LEMMA BudgetReceives ==
  ASSUME TypeOK, Budget, Receive
  PROVE  Budget'
<1> DEFINE c == requests[position + 1]
           new == [n |-> deliveries + 1, c |-> c, stage |-> "running",
                   ok |-> FALSE, changed |-> FALSE, seen |-> 0, attempt |-> 0]
<1>1. /\ requests' = requests /\ effects' = effects /\ rewinds' = rewinds
      /\ position' = position + 1 /\ jobs' = jobs \cup {new}
  BY DEF Receive, Started, callVars, dbVars
<1>2. /\ position \in Nat /\ Len(requests) \in Nat /\ position + 1 \in 1..Len(requests)
      /\ DOMAIN requests = 1..Len(requests)
  BY DEF Receive, TypeOK
<1>3. new.c = c /\ new.stage = "running"
  OBVIOUS
<1> HIDE DEF new
<1>4. IsFiniteSet(jobs')
  BY <1>1, FS_AddElement DEF Budget
<1>5. ASSUME NEW d \in Calls
      PROVE  effects'[d] + Cardinality(Running(d)') + Cardinality(Ahead(d)')
               <= Cardinality(Copies(d)') * (1 + rewinds')
  <2>1. /\ effects[d] \in Nat /\ rewinds \in Nat /\ Cardinality(Running(d)) \in Nat
        /\ Cardinality(Ahead(d)) \in Nat
        /\ IsFiniteSet(Running(d)) /\ IsFiniteSet(Ahead(d))
        /\ effects[d] + Cardinality(Running(d)) + Cardinality(Ahead(d)) <= Cardinality(Copies(d)) * (1 + rewinds)
    BY Counted DEF Budget
  <2>2. Copies(d)' = Copies(d)
    BY <1>1 DEF Copies
  <2>3. CASE d = c
    <3>1. Ahead(d)' = Ahead(d) \ {position + 1} /\ position + 1 \in Ahead(d)
      <4>1. position + 1 \in Copies(d) /\ Copies(d) \subseteq Nat
        BY <1>2, <2>3 DEF Copies
      <4>2. \A i \in Nat : i > position + 1 <=> i > position /\ i # position + 1
        BY <1>2
      <4>. QED BY <1>1, <1>2, <2>2, <4>1, <4>2 DEF Ahead
    <3>2. Cardinality(Ahead(d)') = Cardinality(Ahead(d)) - 1
      BY <2>1, <3>1, FS_RemoveElement
    <3>3. Running(d)' = Running(d) \cup {new}
      BY <1>1, <1>3, <2>3 DEF Running
    <3>4. Cardinality(Running(d)') <= Cardinality(Running(d)) + 1 /\ Cardinality(Running(d)') \in Nat
      <4>1. /\ IsFiniteSet(Running(d) \cup {new})
            /\ Cardinality(Running(d) \cup {new})
                 = IF new \in Running(d) THEN Cardinality(Running(d)) ELSE Cardinality(Running(d)) + 1
        BY <2>1, FS_AddElement
      <4>. QED BY <2>1, <3>3, <4>1
    <3>5. Cardinality(Copies(d)) * (1 + rewinds) \in Int
      <4>1. \A k, r \in Nat : k * (1 + r) \in Int
        OBVIOUS
      <4>. QED BY <2>1, <4>1, Counted DEF Budget
    <3>6. \A e, m, a, m1 \in Nat : \A p \in Int : e + m + a <= p /\ m1 <= m + 1 => e + m1 + (a - 1) <= p
      OBVIOUS
    <3>. QED BY <1>1, <2>1, <2>2, <3>2, <3>4, <3>5, <3>6
  <2>4. CASE d # c
    <3>1. Running(d)' = Running(d)
      BY <1>1, <1>3, <2>4 DEF Running
    <3>2. Ahead(d)' = Ahead(d)
      <4>1. position + 1 \notin Copies(d) /\ Copies(d) \subseteq Nat
        BY <1>2, <2>4 DEF Copies
      <4>2. \A i \in Nat : i # position + 1 => (i > position + 1 <=> i > position)
        BY <1>2
      <4>. QED BY <1>1, <2>2, <4>1, <4>2 DEF Ahead
    <3>. QED BY <1>1, <2>1, <2>2, <3>1, <3>2
  <2>. QED BY <2>3, <2>4
<1>. QED BY <1>4, <1>5 DEF Budget

\* A running execution becomes an effect, or none.
LEMMA BudgetExecutes ==
  ASSUME TypeOK, Budget, NEW j \in jobs, Execute(j)
  PROVE  Budget'
<1>1. PICK o \in Outcomes(method[j.c]) :
        /\ effects' = IF o[2] THEN [effects EXCEPT ![j.c] = @ + 1] ELSE effects
        /\ jobs' = (jobs \ {j}) \cup
                   {[j EXCEPT !.stage = "replying", !.ok = o[1], !.changed = o[2], !.seen = db']}
  BY DEF Execute
<1> DEFINE k == [j EXCEPT !.stage = "replying", !.ok = o[1], !.changed = o[2], !.seen = db']
<1>2. j \in Job /\ j.c \in Calls /\ j.stage = "running" /\ effects \in [Calls -> Nat]
  BY DEF TypeOK, Job, Execute
<1>3. k.stage = "replying" /\ jobs' = (jobs \ {j}) \cup {k}
  BY <1>1, <1>2 DEF Job
<1> HIDE DEF k
<1>4. requests' = requests /\ rewinds' = rewinds /\ position' = position
  BY DEF Execute, callVars
<1>5. IsFiniteSet(jobs')
  <2>1. IsFiniteSet(jobs \ {j})
    BY FS_RemoveElement DEF Budget
  <2>2. IsFiniteSet((jobs \ {j}) \cup {k})
    BY <2>1, FS_AddElement
  <2>. QED BY <1>3, <2>2
<1>6. ASSUME NEW d \in Calls
      PROVE  effects'[d] + Cardinality(Running(d)') + Cardinality(Ahead(d)')
               <= Cardinality(Copies(d)') * (1 + rewinds')
  <2>1. /\ effects[d] \in Nat /\ rewinds \in Nat /\ Cardinality(Running(d)) \in Nat
        /\ Cardinality(Ahead(d)) \in Nat /\ IsFiniteSet(Running(d)) /\ Cardinality(Copies(d)) \in Nat
        /\ effects[d] + Cardinality(Running(d)) + Cardinality(Ahead(d)) <= Cardinality(Copies(d)) * (1 + rewinds)
    BY Counted DEF Budget
  <2>2. Copies(d)' = Copies(d) /\ Ahead(d)' = Ahead(d)
    BY <1>4 DEF Copies, Ahead
  <2>3. CASE d = j.c
    <3>1. Running(d)' = Running(d) \ {j} /\ j \in Running(d)
      BY <1>2, <1>3, <2>3 DEF Running
    <3>2. Cardinality(Running(d)') = Cardinality(Running(d)) - 1
      BY <2>1, <3>1, FS_RemoveElement
    <3>3. effects'[d] <= effects[d] + 1 /\ effects'[d] \in Nat
      BY <1>1, <1>2, <2>1, <2>3
    <3>4. Cardinality(Copies(d)) * (1 + rewinds) \in Int
      <4>1. \A a, r \in Nat : a * (1 + r) \in Int
        OBVIOUS
      <4>. QED BY <2>1, <4>1
    <3>5. \A e, m, a, e1 \in Nat : \A p \in Int : e + m + a <= p /\ e1 <= e + 1 => e1 + (m - 1) + a <= p
      OBVIOUS
    <3>. QED BY <1>4, <2>1, <2>2, <3>2, <3>3, <3>4, <3>5
  <2>4. CASE d # j.c
    <3>1. Running(d)' = Running(d)
      BY <1>2, <1>3, <2>4 DEF Running
    <3>2. effects'[d] = effects[d]
      BY <1>1, <1>2, <2>4
    <3>. QED BY <1>4, <2>1, <2>2, <3>1, <3>2
  <2>. QED BY <2>3, <2>4
<1>. QED BY <1>5, <1>6 DEF Budget

LEMMA BudgetNext == TypeOK /\ Budget /\ [Next]_vars => Budget'
<1> SUFFICES ASSUME TypeOK, Budget, [Next]_vars PROVE Budget'
  OBVIOUS
<1>1. ASSUME requests' = requests, effects' = effects, rewinds' = rewinds, position' = position, jobs' = jobs
      PROVE  Budget'
  <2>1. \A c \in Calls : Running(c)' = Running(c)
    BY <1>1 DEF Running
  <2>. QED BY <1>1, <2>1, BudgetStutter DEF Budget
<1>2. ASSUME NEW c \in Calls, Call(c) \/ Refuse(c) \/ Timeout(c) PROVE Budget'
  BY <1>1, <1>2 DEF Call, Refuse, Timeout, workerVars, dbVars
<1>3. ASSUME NEW r \in replies, OnData(r) PROVE Budget'
  BY <1>1, <1>3 DEF OnData, Told, workerVars, dbVars
<1>4. ASSUME Stop \/ (\E s \in Sessions : Close(s)) \/ AutoCommit \/ UNCHANGED vars PROVE Budget'
  BY <1>1, <1>4 DEF Stop, Close, AutoCommit, vars, callVars, workerVars, dbVars
<1>5. ASSUME NEW j \in jobs, Produce(j) \/ ProduceFails(j) \/ Retry(j) PROVE Budget'
  <2>1. requests' = requests /\ effects' = effects /\ rewinds' = rewinds /\ position' = position
    BY <1>5 DEF Produce, ProduceFails, Retry, callVars, dbVars
  <2>2. j \in Job /\ j.stage # "running"
    BY <1>5 DEF TypeOK, Produce, ProduceFails, Retry
  <2>3. PICK k : k.stage # "running" /\ (jobs' = (jobs \ {j}) \cup {k} \/ jobs' = jobs \ {j})
    <3>1. [j EXCEPT !.stage = "replying"].stage # "running"
      BY <2>2 DEF Job
    <3>2. CASE Produce(j)
      BY <2>2, <3>2 DEF Produce
    <3>3. CASE Retry(j)
      BY <3>1, <3>3 DEF Retry
    <3>4. CASE ProduceFails(j)
      <4> DEFINE k == [j EXCEPT !.stage = "backoff", !.attempt = @ + 1]
      <4>1. k.stage # "running"
        BY <2>2 DEF Job
      <4>2. jobs' = (jobs \ {j}) \cup {k} \/ jobs' = jobs \ {j}
        BY <3>4 DEF ProduceFails
      <4> HIDE DEF k
      <4>. QED BY <4>1, <4>2
    <3>. QED BY <1>5, <3>2, <3>3, <3>4
  <2>4. \A c \in Calls : Running(c)' = Running(c)
    BY <2>2, <2>3, RunningKept
  <2>5. IsFiniteSet(jobs')
    <3>1. IsFiniteSet(jobs \ {j})
      BY FS_RemoveElement DEF Budget
    <3>2. IsFiniteSet((jobs \ {j}) \cup {k})
      BY <3>1, FS_AddElement
    <3>. QED BY <2>3, <3>1, <3>2
  <2>. QED BY <2>1, <2>4, <2>5, BudgetStutter
<1>. QED
  BY <1>2, <1>3, <1>4, <1>5, BudgetArrives, BudgetReceives, BudgetExecutes, BudgetRewinds DEF Next
-----------------------------------------------------------------------------
(* The account.  Without a rewind: a call whose request has not been handed *)
(* over is untouched; if the topic holds no second copy of it, an execution *)
(* that is running is all there is of its call, and finished ones, replies  *)
(* and answers tell what was done.                                          *)

Single(c) == \A a, b \in Copies(c) : a = b

Untouched(c) ==
  /\ effects[c] = 0 /\ stage[c] # "answered"
  /\ \A j \in jobs : j.c # c
  /\ \A r \in replies : r.c # c

Alone(j) ==
  /\ effects[j.c] = 0 /\ stage[j.c] # "answered"
  /\ \A k \in jobs : k.c = j.c => k = j
  /\ \A r \in replies : r.c # j.c

Account ==
  /\ \A c \in Calls : (\A i \in 1..position : requests[i] # c) => Untouched(c)
  /\ \A j \in jobs : Single(j.c) => IF j.stage = "running" THEN Alone(j) ELSE effects[j.c] = One(j.changed)
  /\ \A r \in replies : Single(r.c) => effects[r.c] = One(r.changed)
  /\ \A c \in Calls : Single(c) /\ stage[c] = "answered" => effects[c] = One(changed[c])

\* More copies make no call single.
LEMMA SingleBefore ==
  ASSUME NEW c, DOMAIN requests \subseteq DOMAIN requests',
         \A i \in DOMAIN requests : requests'[i] = requests[i], Single(c)'
  PROVE  Single(c)
BY DEF Single, Copies

\* Account in the next state, for the same copies.
LEMMA AccountAgain ==
  ASSUME \A c : Single(c)' = Single(c),
         \A c \in Calls : (\A i \in 1..position' : requests'[i] # c) => Untouched(c)',
         \A j \in jobs' : Single(j.c) => IF j.stage = "running" THEN Alone(j)' ELSE effects'[j.c] = One(j.changed),
         \A r \in replies' : Single(r.c) => effects'[r.c] = One(r.changed),
         \A c \in Calls : Single(c) /\ stage'[c] = "answered" => effects'[c] = One(changed'[c])
  PROVE  Account'
<1>1. \A j \in jobs' : Single(j.c)' => IF j.stage = "running" THEN Alone(j)' ELSE effects'[j.c] = One(j.changed)
  OBVIOUS
<1>2. \A r \in replies' : Single(r.c)' => effects'[r.c] = One(r.changed)
  OBVIOUS
<1>3. \A c \in Calls : Single(c)' /\ stage'[c] = "answered" => effects'[c] = One(changed'[c])
  OBVIOUS
<1>. QED BY <1>1, <1>2, <1>3 DEF Account, One

\* Steps after which no call is answered that was not.
LEMMA AccountKept ==
  ASSUME Account, jobs' = jobs, replies' = replies, effects' = effects, changed' = changed, position' = position,
         \A c \in Calls : stage'[c] = "answered" => stage[c] = "answered",
         \A i \in 1..position : requests'[i] = requests[i], jobs \subseteq Job, replies \subseteq Reply,
         \A c \in Calls : Single(c)' => Single(c)
  PROVE  Account'
<1>1. ASSUME NEW c \in Calls, \A i \in 1..position' : requests'[i] # c PROVE Untouched(c)'
  <2>1. Untouched(c)
    BY <1>1 DEF Account
  <2>. QED BY <2>1 DEF Untouched
<1>2. ASSUME NEW j \in jobs', Single(j.c)'
      PROVE  IF j.stage = "running" THEN Alone(j)' ELSE effects'[j.c] = One(j.changed)
  <2>1. j \in jobs /\ j.c \in Calls
    BY DEF Job
  <2>0. Single(j.c)
    <3>1. \A c : c = j.c => (Single(c)' => Single(c))
      BY <2>1
    <3>. QED BY <1>2, <3>1 DEF Single, Copies
  <2>2. IF j.stage = "running" THEN Alone(j) ELSE effects[j.c] = One(j.changed)
    BY <2>0, <2>1 DEF Account
  <2>3. Alone(j) => Alone(j)'
    BY <2>1 DEF Alone
  <2>. QED BY <2>2, <2>3
<1>3. ASSUME NEW r \in replies', Single(r.c)' PROVE effects'[r.c] = One(r.changed)
  <2>1. r \in replies /\ r.c \in Calls
    BY DEF Reply
  <2>2. Single(r.c)
    <3>1. \A c : c = r.c => (Single(c)' => Single(c))
      BY <2>1
    <3>. QED BY <1>3, <3>1 DEF Single, Copies
  <2>. QED BY <2>1, <2>2 DEF Account
<1>4. \A c \in Calls : Single(c)' /\ stage'[c] = "answered" => effects'[c] = One(changed'[c])
  BY DEF Account
<1>. QED BY <1>1, <1>2, <1>3, <1>4 DEF Account, One

\* A finished job goes, or one with the same outcome takes its place, and a
\* reply may tell of it.
LEMMA AccountMoved ==
  ASSUME TypeOK, Account, NEW j \in jobs, j.stage # "running", NEW k, k.stage # "running",
         k.c = j.c, k.changed = j.changed, jobs' = (jobs \ {j}) \cup {k} \/ jobs' = jobs \ {j},
         NEW s, s.c = j.c, s.changed = j.changed, replies' \subseteq replies \cup {s},
         effects' = effects, changed' = changed, position' = position, stage' = stage, requests' = requests
  PROVE  Account'
<1>0. /\ j.c \in Calls /\ (Single(j.c) => effects[j.c] = One(j.changed))
      /\ \A c \in Calls : Untouched(c) => c # j.c
  BY DEF Account, Untouched, TypeOK, Job
<1>5. \A c : Single(c)' = Single(c)
  BY DEF Single, Copies
<1>1. ASSUME NEW c \in Calls, \A i \in 1..position' : requests'[i] # c PROVE Untouched(c)'
  <2>1. Untouched(c)
    BY <1>1 DEF Account
  <2>. QED BY <1>0, <2>1 DEF Untouched
<1>2. ASSUME NEW i \in jobs', Single(i.c)
      PROVE  IF i.stage = "running" THEN Alone(i)' ELSE effects'[i.c] = One(i.changed)
  <2>1. CASE i.stage = "running"
    <3>1. i \in jobs /\ Alone(i)
      BY <1>2, <2>1 DEF Account
    <3>2. i.c # j.c
      BY <2>1, <3>1 DEF Alone
    <3>3. Alone(i)'
      BY <3>1, <3>2 DEF Alone
    <3>. QED BY <2>1, <3>3
  <2>2. CASE i.stage # "running"
    BY <1>0, <1>2, <2>2 DEF Account
  <2>. QED BY <2>1, <2>2
<1>3. \A r \in replies' : Single(r.c) => effects'[r.c] = One(r.changed)
  BY <1>0 DEF Account
<1>4. \A c \in Calls : Single(c) /\ stage'[c] = "answered" => effects'[c] = One(changed'[c])
  BY DEF Account
<1>. QED BY <1>1, <1>2, <1>3, <1>4, <1>5, AccountAgain

LEMMA AccountInit == Init => Account
BY DEF Init, Account, Untouched

LEMMA AccountNext ==
  ASSUME IInv, TypeOK', Account, [Next]_vars, rewinds' = 0
  PROVE  Account'
<1>0. /\ Len(requests) \in Nat /\ position \in Nat /\ position <= Len(requests) /\ rewinds \in Nat
      /\ jobs \subseteq Job /\ replies \subseteq Reply /\ TypeOK
  <2>1. TypeOK
    BY DEF IInv
  <2>2. Len(requests) \in Nat
    BY <2>1 DEF TypeOK
  <2>. QED BY <2>1, <2>2 DEF TypeOK
<1>1. ASSUME NEW c \in Calls, Arrive(c) PROVE Account'
  <2>1. /\ jobs' = jobs /\ replies' = replies /\ effects' = effects /\ changed' = changed /\ position' = position
        /\ requests' = Append(requests, c) /\ requests \in Seq(Calls) /\ stage' = stage
    BY <1>0, <1>1 DEF Arrive, callVars, workerVars, dbVars, TypeOK
  <2>2. /\ DOMAIN requests \subseteq DOMAIN requests'
        /\ \A i \in DOMAIN requests : requests'[i] = requests[i]
        /\ \A i \in 1..position : requests'[i] = requests[i]
    BY <1>0, <2>1
  <2>3. \A d \in Calls : Single(d)' => Single(d)
    BY <2>2, SingleBefore
  <2>. QED BY <1>0, <2>1, <2>2, <2>3, AccountKept
<1>11. ASSUME requests' = requests, NEW c PROVE Single(c)' = Single(c)
  BY <1>11 DEF Single, Copies
<1>2. ASSUME \A c \in Calls : stage'[c] = "answered" => stage[c] = "answered",
             jobs' = jobs, replies' = replies, effects' = effects, changed' = changed, position' = position,
             requests' = requests
      PROVE  Account'
  BY <1>0, <1>2, <1>11, AccountKept
<1>3. ASSUME NEW c \in Calls, Call(c) \/ Refuse(c) \/ Timeout(c) PROVE Account'
  <2>1. \A d \in Calls : stage'[d] = "answered" => stage[d] = "answered"
    BY <1>0, <1>3 DEF Call, Refuse, Timeout, Settle, TypeOK
  <2>2. /\ jobs' = jobs /\ replies' = replies /\ effects' = effects /\ changed' = changed /\ position' = position
        /\ requests' = requests
    BY <1>3 DEF Call, Refuse, Timeout, workerVars, dbVars
  <2>. QED BY <1>2, <2>1, <2>2
<1>4. ASSUME NEW r \in replies, OnData(r) PROVE Account'
  <2>1. CASE ~r.ok
    <3>1. \A d \in Calls : stage'[d] = "answered" => stage[d] = "answered"
      BY <1>4, <2>1 DEF OnData, Settle
    <3>. QED BY <1>2, <1>4, <2>1, <3>1 DEF OnData, Told, workerVars, dbVars
  <2>2. CASE r.ok
    <3>1. /\ jobs' = jobs /\ replies' = replies /\ effects' = effects /\ position' = position /\ requests' = requests
          /\ changed' = [changed EXCEPT ![r.c] = r.changed] /\ Settle({r.c}, "answered")
      BY <1>4, <2>2 DEF OnData, Told, workerVars, dbVars
    <3>2. r.c \in Calls /\ (Single(r.c) => effects[r.c] = One(r.changed)) /\ changed \in [Calls -> BOOLEAN]
      BY <1>0 DEF TypeOK, Reply, Account
    <3>0. \A c : Single(c)' = Single(c)
      BY <1>11, <3>1
    <3>3. \A c \in Calls : c # r.c => stage'[c] = stage[c] /\ changed'[c] = changed[c]
      BY <3>1, <3>2 DEF Settle
    <3>4. ASSUME NEW c \in Calls, \A i \in 1..position' : requests'[i] # c PROVE Untouched(c)'
      <4>1. Untouched(c)
        BY <3>1, <3>4 DEF Account
      <4>. QED BY <3>1, <3>3, <4>1 DEF Untouched
    <3>5. ASSUME NEW j \in jobs', Single(j.c)
          PROVE  IF j.stage = "running" THEN Alone(j)' ELSE effects'[j.c] = One(j.changed)
      <4>1. CASE j.stage = "running"
        <5>1. j.c \in Calls /\ Alone(j)
          BY <1>0, <3>1, <3>5, <4>1 DEF Account, Job
        <5>2. Alone(j)'
          BY <3>1, <3>3, <5>1 DEF Alone
        <5>. QED BY <4>1, <5>2
      <4>2. CASE j.stage # "running"
        BY <3>1, <3>5, <4>2 DEF Account
      <4>. QED BY <4>1, <4>2
    <3>6. \A s \in replies' : Single(s.c) => effects'[s.c] = One(s.changed)
      BY <3>1 DEF Account
    <3>7. ASSUME NEW c \in Calls, Single(c), stage'[c] = "answered" PROVE effects'[c] = One(changed'[c])
      <4>1. CASE c = r.c
        BY <3>1, <3>2, <3>7, <4>1
      <4>2. CASE c # r.c
        BY <3>1, <3>3, <3>7, <4>2 DEF Account
      <4>. QED BY <4>1, <4>2
    <3>. QED BY <3>0, <3>4, <3>5, <3>6, <3>7, AccountAgain
  <2>. QED BY <2>1, <2>2
<1>5. ASSUME Stop PROVE Account'
  <2>1. \A d \in Calls : stage'[d] = "answered" => stage[d] = "answered"
    BY <1>5 DEF Stop, Settle
  <2>. QED BY <1>2, <1>5, <2>1 DEF Stop, workerVars, dbVars
<1>6. ASSUME (\E s \in Sessions : Close(s)) \/ AutoCommit \/ UNCHANGED vars PROVE Account'
  <2>1. /\ jobs' = jobs /\ replies' = replies /\ effects' = effects /\ changed' = changed /\ position' = position
        /\ stage' = stage /\ requests' = requests
    BY <1>6 DEF Close, AutoCommit, vars, callVars, workerVars, dbVars
  <2>. QED BY <1>2, <2>1
<1>7. ASSUME Receive PROVE Account'
  <2> DEFINE c == requests[position + 1]
             new == [n |-> deliveries + 1, c |-> c, stage |-> "running",
                     ok |-> FALSE, changed |-> FALSE, seen |-> 0, attempt |-> 0]
  <2>1. /\ stage' = stage /\ requests' = requests /\ effects' = effects /\ changed' = changed
        /\ position' = position + 1 /\ jobs' = jobs \cup {new} /\ replies' = replies
    BY <1>7 DEF Receive, Started, callVars, dbVars
  <2>2. position + 1 \in 1..Len(requests)
    BY <1>0, <1>7 DEF Receive
  <2>3. new.c = c /\ new.stage = "running"
    OBVIOUS
  <2> HIDE DEF new
  <2>0. \A d : Single(d)' = Single(d)
    BY <1>11, <2>1
  <2>4. c \in Calls /\ (Single(c) => \A i \in 1..position : requests[i] # c)
    <3>0. requests \in Seq(Calls) /\ DOMAIN requests = 1..Len(requests)
      BY <1>0 DEF TypeOK
    <3>1. c \in Calls
      BY <2>2, <3>0
    <3>2. ASSUME Single(c), NEW i \in 1..position PROVE requests[i] # c
      <4>1. i \in 1..Len(requests) /\ i # position + 1
        BY <1>0
      <4>2. position + 1 \in Copies(c)
        BY <2>2, <3>0 DEF Copies
      <4>. QED BY <3>0, <3>2, <4>1, <4>2 DEF Single, Copies
    <3>. QED BY <3>1, <3>2
  <2>5. Single(c) => Untouched(c)
    BY <2>4 DEF Account
  <2> HIDE DEF c
  <2>6. ASSUME NEW d \in Calls, \A i \in 1..position' : requests'[i] # d PROVE Untouched(d)'
    <3>1. d # c
      <4>1. position + 1 \in 1..position'
        BY <1>0, <2>1
      <4>. QED BY <2>1, <2>6, <4>1 DEF c
    <3>2. Untouched(d)
      <4>1. 1..position \subseteq 1..position'
        BY <1>0, <2>1
      <4>. QED BY <2>1, <2>6, <4>1 DEF Account
    <3>. QED BY <2>1, <2>3, <3>1, <3>2 DEF Untouched
  <2>7. ASSUME NEW j \in jobs', Single(j.c)
        PROVE  IF j.stage = "running" THEN Alone(j)' ELSE effects'[j.c] = One(j.changed)
    <3>1. CASE j = new
      <4>0. Untouched(c)
        BY <2>3, <2>5, <2>7, <3>1
      <4>1. effects'[j.c] = 0 /\ stage'[j.c] # "answered" /\ \A r \in replies' : r.c # j.c
        BY <2>1, <2>3, <3>1, <4>0 DEF Untouched
      <4>2. \A i \in jobs' : i.c = j.c => i = j
        BY <2>1, <2>3, <3>1, <4>0 DEF Untouched
      <4>. QED BY <2>3, <3>1, <4>1, <4>2 DEF Alone
    <3>2. CASE j # new /\ j.stage = "running"
      <4>1. j \in jobs /\ Alone(j) /\ j.c # c
        BY <2>1, <2>5, <2>7, <3>2 DEF Account, Untouched
      <4>2. Alone(j)'
        BY <2>1, <2>3, <4>1 DEF Alone
      <4>. QED BY <3>2, <4>2
    <3>3. CASE j # new /\ j.stage # "running"
      BY <2>1, <2>7, <3>3 DEF Account
    <3>. QED BY <3>1, <3>2, <3>3
  <2>8. \A r \in replies' : Single(r.c) => effects'[r.c] = One(r.changed)
    BY <2>1 DEF Account
  <2>9. \A d \in Calls : Single(d) /\ stage'[d] = "answered" => effects'[d] = One(changed'[d])
    BY <2>1 DEF Account
  <2>. QED BY <2>0, <2>6, <2>7, <2>8, <2>9, AccountAgain
<1>8. ASSUME NEW j \in jobs, Execute(j) PROVE Account'
  <2>1. PICK o \in Outcomes(method[j.c]) :
          /\ db' = IF o[2] THEN db + 1 ELSE db
          /\ effects' = IF o[2] THEN [effects EXCEPT ![j.c] = @ + 1] ELSE effects
          /\ jobs' = (jobs \ {j}) \cup
                     {[j EXCEPT !.stage = "replying", !.ok = o[1], !.changed = o[2], !.seen = db']}
    BY <1>8 DEF Execute
  <2> DEFINE k == [j EXCEPT !.stage = "replying", !.ok = o[1], !.changed = o[2], !.seen = db']
  <2>2. j \in Job /\ j.c \in Calls /\ j.stage = "running" /\ effects \in [Calls -> Nat] /\ o[2] \in BOOLEAN
    BY <1>0, <1>8, OutcomesTyped DEF TypeOK, Job, Execute
  <2>3. k.stage = "replying" /\ k.c = j.c /\ k.changed = o[2] /\ jobs' = (jobs \ {j}) \cup {k}
    BY <2>1, <2>2 DEF Job
  <2> HIDE DEF k
  <2>4. stage' = stage /\ requests' = requests /\ position' = position /\ replies' = replies /\ changed' = changed
    BY <1>8 DEF Execute, callVars
  <2>0. \A c : Single(c)' = Single(c)
    BY <1>11, <2>4
  <2>5. Single(j.c) => Alone(j)
    BY <2>2 DEF Account
  <2>6. ASSUME Single(j.c) PROVE effects'[j.c] = One(o[2])
    <3>1. effects[j.c] = 0
      BY <2>5, <2>6 DEF Alone
    <3>2. CASE o[2]
      BY <2>1, <2>2, <3>1, <3>2 DEF One
    <3>3. CASE ~o[2]
      BY <2>1, <3>1, <3>3 DEF One
    <3>. QED BY <3>2, <3>3
  <2>7. \A c \in Calls : c # j.c => effects'[c] = effects[c]
    BY <2>1, <2>2
  <2>8. ASSUME NEW c \in Calls, \A i \in 1..position' : requests'[i] # c PROVE Untouched(c)'
    <3>1. Untouched(c)
      BY <2>4, <2>8 DEF Account
    <3>2. c # j.c
      BY <3>1 DEF Untouched
    <3>. QED BY <2>3, <2>4, <2>7, <3>1, <3>2 DEF Untouched
  <2>9. ASSUME NEW i \in jobs', Single(i.c)
        PROVE  IF i.stage = "running" THEN Alone(i)' ELSE effects'[i.c] = One(i.changed)
    <3>1. CASE i = k
      BY <2>3, <2>6, <2>9, <3>1
    <3>2. CASE i # k
      <4>1. i \in jobs /\ i # j /\ i.c \in Calls /\ i.c # j.c
        BY <1>0, <2>3, <2>5, <2>9, <3>2 DEF Alone, Job
      <4>2. CASE i.stage = "running"
        <5>1. Alone(i)
          BY <2>9, <4>1, <4>2 DEF Account
        <5>2. Alone(i)'
          BY <2>3, <2>4, <2>7, <4>1, <5>1 DEF Alone
        <5>. QED BY <4>2, <5>2
      <4>3. CASE i.stage # "running"
        BY <2>7, <2>9, <4>1, <4>3 DEF Account
      <4>. QED BY <4>2, <4>3
    <3>. QED BY <3>1, <3>2
  <2>10. ASSUME NEW r \in replies', Single(r.c) PROVE effects'[r.c] = One(r.changed)
    <3>1. r \in replies /\ r.c \in Calls /\ r.c # j.c
      BY <1>0, <2>4, <2>5, <2>10 DEF Alone, TypeOK, Reply
    <3>. QED BY <2>7, <2>10, <3>1 DEF Account
  <2>11. ASSUME NEW c \in Calls, Single(c), stage'[c] = "answered" PROVE effects'[c] = One(changed'[c])
    <3>1. c # j.c
      BY <2>4, <2>5, <2>11 DEF Alone
    <3>. QED BY <2>4, <2>7, <2>11, <3>1 DEF Account
  <2>. QED BY <2>0, <2>8, <2>9, <2>10, <2>11, AccountAgain
<1>9. ASSUME NEW j \in jobs, Produce(j) \/ ProduceFails(j) \/ Retry(j) PROVE Account'
  <2>1. /\ stage' = stage /\ requests' = requests /\ effects' = effects /\ changed' = changed
        /\ position' = position
    BY <1>9 DEF Produce, ProduceFails, Retry, callVars, dbVars
  <2>2. j \in Job /\ j.stage # "running"
    BY <1>0, <1>9 DEF Produce, ProduceFails, Retry
  <2>3. ReplyOf(j).c = j.c /\ ReplyOf(j).changed = j.changed /\ replies' \subseteq replies \cup {ReplyOf(j)}
    BY <1>9 DEF Produce, ProduceFails, Retry, ReplyOf
  <2>4. PICK k : /\ k.stage # "running" /\ k.c = j.c /\ k.changed = j.changed
                 /\ jobs' = (jobs \ {j}) \cup {k} \/ jobs' = jobs \ {j}
    <3>1. CASE Produce(j)
      BY <2>2, <3>1 DEF Produce
    <3>2. CASE Retry(j)
      <4> DEFINE k == [j EXCEPT !.stage = "replying"]
      <4>1. k.stage # "running" /\ k.c = j.c /\ k.changed = j.changed
        BY <2>2 DEF Job
      <4>2. jobs' = (jobs \ {j}) \cup {k}
        BY <3>2 DEF Retry
      <4> HIDE DEF k
      <4>. QED BY <4>1, <4>2
    <3>3. CASE ProduceFails(j)
      <4> DEFINE a == j.attempt + 1
                 k == [j EXCEPT !.stage = "backoff", !.attempt = a]
      <4>1. jobs' = (jobs \ {j}) \cup {k} \/ jobs' = jobs \ {j}
        BY <3>3 DEF ProduceFails
      <4> HIDE DEF a
      <4>2. k.stage # "running" /\ k.c = j.c /\ k.changed = j.changed
        BY <2>2 DEF Job
      <4> HIDE DEF k
      <4>. QED BY <4>1, <4>2
    <3>. QED BY <1>9, <3>1, <3>2, <3>3
  <2>. QED BY <1>0, <2>1, <2>2, <2>3, <2>4, AccountMoved
<1>10. ASSUME NEW crash \in BOOLEAN, Rewind(crash) PROVE Account'
  BY <1>0, <1>10 DEF Rewind
<1>. QED
  BY <1>1, <1>3, <1>4, <1>5, <1>6, <1>7, <1>8, <1>9, <1>10 DEF Next

LEMMA RewindsGrow == TypeOK /\ [Next]_vars => rewinds' >= rewinds
<1> SUFFICES ASSUME TypeOK, [Next]_vars, rewinds' # rewinds PROVE rewinds' >= rewinds
  BY DEF TypeOK
<1>1. \E crash \in BOOLEAN : Rewind(crash)
  BY DEF Next, Call, Arrive, Refuse, Timeout, OnData, Told, Stop, Close, Receive, Started, AutoCommit, Execute, Produce,
         ProduceFails, Retry, vars, callVars, workerVars, dbVars
<1>. QED BY <1>1 DEF Rewind, TypeOK

(* A copy of a request in the topic runs again only after a crash or a      *)
(* rebalance of the worker; without one, and without a second copy, an      *)
(* answer tells exactly whether its call changed a row, whatever overtook   *)
(* what (sql-rpc.ts 57-62, kafka.ts 46-56 and 82-84, worker.ts 648-800).    *)
THEOREM RepeatsBounded == Spec => []RepeatsExplained
<1> DEFINE Inv == IInv /\ Budget /\ (rewinds = 0 => Account)
<1>1. Init => Inv
  BY TypeInit, PendingInit, LinkedInit, BudgetInit, AccountInit DEF IInv
<1>2. Inv /\ [Next]_vars => Inv'
  <2> SUFFICES ASSUME Inv, [Next]_vars PROVE Inv'
    OBVIOUS
  <2>1. IInv' /\ TypeOK /\ TypeOK'
    BY TypeNext, PendingNext, LinkedNext DEF IInv
  <2>2. Budget'
    BY <2>1, BudgetNext
  <2>3. ASSUME rewinds' = 0 PROVE Account'
    <3>1. rewinds = 0
      <4>1. rewinds' >= rewinds
        BY <2>1, RewindsGrow
      <4>2. rewinds \in Nat
        BY <2>1 DEF TypeOK
      <4>. QED BY <2>3, <4>1, <4>2
    <3>. QED BY <2>1, <2>3, <3>1, AccountNext
  <2>. QED BY <2>1, <2>2, <2>3
<1>3. Inv => RepeatsExplained
  <2> SUFFICES ASSUME Inv, NEW c \in Calls
               PROVE  /\ effects[c] <= Cardinality(Copies(c)) * (1 + rewinds)
                      /\ rewinds = 0 /\ Cardinality(Copies(c)) <= 1 /\ stage[c] = "answered"
                           => effects[c] = (IF changed[c] THEN 1 ELSE 0)
    BY DEF RepeatsExplained
  <2>1. TypeOK /\ IsFiniteSet(jobs)
    BY DEF IInv, Budget
  <2>2. effects[c] <= Cardinality(Copies(c)) * (1 + rewinds)
    <3>1. /\ Cardinality(Running(c)) \in Nat /\ Cardinality(Ahead(c)) \in Nat /\ Cardinality(Copies(c)) \in Nat
          /\ effects[c] \in Nat /\ rewinds \in Nat
      BY <2>1, Counted
    <3>2. effects[c] + Cardinality(Running(c)) + Cardinality(Ahead(c)) <= Cardinality(Copies(c)) * (1 + rewinds)
      BY DEF Budget
    <3>3. \A k, r \in Nat : k * (1 + r) \in Nat
      OBVIOUS
    <3>4. \A e, m, a, p \in Nat : e + m + a <= p => e <= p
      OBVIOUS
    <3>. QED BY <3>1, <3>2, <3>3, <3>4
  <2>3. ASSUME rewinds = 0, Cardinality(Copies(c)) <= 1, stage[c] = "answered"
        PROVE  effects[c] = (IF changed[c] THEN 1 ELSE 0)
    <3>1. Single(c)
      <4>1. IsFiniteSet(Copies(c)) /\ Cardinality(Copies(c)) \in Nat
        BY <2>1, Counted
      <4>2. ASSUME NEW a \in Copies(c), NEW b \in Copies(c), a # b PROVE FALSE
        <5>1. {a, b} \subseteq Copies(c) /\ Cardinality({a, b}) = 2
          <6>1. IsFiniteSet({a}) /\ Cardinality({a}) = 1
            BY FS_Singleton
          <6>2. {a, b} = {a} \cup {b} /\ b \notin {a}
            BY <4>2
          <6>. QED BY <6>1, <6>2, FS_AddElement
        <5>2. Cardinality({a, b}) <= Cardinality(Copies(c))
          BY <4>1, <5>1, FS_Subset
        <5>. QED BY <2>3, <4>1, <5>1, <5>2
      <4>. QED BY <4>2 DEF Single
    <3>. QED BY <2>3, <3>1 DEF Account, One
  <2>. QED BY <2>2, <2>3
<1> HIDE DEF Inv
<1>. QED BY <1>1, <1>2, <1>3, PTL DEF Spec
=============================================================================
