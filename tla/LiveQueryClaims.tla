------------------------- MODULE LiveQueryClaims -------------------------
(***************************************************************************)
(* What comments of the gateway say of LiveQuery and the code does not do. *)
(* Each definition is refuted by a run of its own.                         *)
(***************************************************************************)
EXTENDS MCLiveQuery

(* lsn.ts 6-8: "diffs delivered after the subscription are strictly-after   *)
(* the snapshot's LSN".  The fence is taken before the snapshot is read, so *)
(* the snapshot may be newer and the diffs it contains are sent once more.  *)
DiffsFollowSnapshot ==
  \A s \in Sessions, k \in Keys : \A i, j \in DOMAIN wire[s] :
    i < j /\ IsSnapshot(wire[s][i], k) /\ IsDiff(wire[s][j], k) =>
      wire[s][i].lsn < wire[s][j].lsn

(* subscribe.ts 21: "Send snapshot, flush buffered diffs strictly-after     *)
(* fence".  A diff newer than the snapshot that was consumed by the time    *)
(* handleSubscribe ends has been sent or is queued.                         *)
BufferedDiffsReach ==
  \A t \in Attempts : task[t].stage = "done" /\ OnlyAttempt(t) =>
    LET s == task[t].s
        k == task[t].k
    IN  Has(s, k) => \A i \in 1..diffPos[k] :
                       topic[k][i] > task[t].snap => topic[k][i] \in Handed(s, k)

(* delivery.ts 31-32: while the session waits for a snapshot "the diff is   *)
(* temporarily buffered in memory until the snapshot completes".  No diff   *)
(* is sent to a subscriber one of whose snapshots is still on the way.      *)
HeldUntilSnapshot ==
  [][\A t \in Attempts : task[t].stage = "snapshot" =>
       LET s == task[t].s
           k == task[t].k
       IN  Has(s, k) => \A j \in DOMAIN wire'[s] \ DOMAIN wire[s] : ~IsDiff(wire'[s][j], k)]_vars

(* delivery.ts 31-32: buffering is temporary.                               *)
BufferingIsTemporary ==
  \A s \in Sessions, k \in Keys : Buffering(s, k) ~> ~Buffering(s, k)

(* delivery.ts 11: SLOW_SOCKETS is the "global count of sessions currently  *)
(* marked as slow (backpressured)".                                         *)
SlowCountExact == slowSockets = Cardinality(slow)

(* io.ts 11-12: "We queue messages per-session and mark the session as      *)
(* slow".  A session with queued frames is marked.                          *)
QueuedMeansSlow == \A s \in Open : sendQueue[s] # <<>> => s \in slow

(* lsn.ts 7-8: the fence "enforces ordering and avoids duplicates".  The    *)
(* diffs of a query reach its subscriber in LSN order, each once; diffs     *)
(* sent directly overtake queued ones, and KeyDB replays queued ones.       *)
DiffsInOrder ==
  \A s \in Sessions, k \in Keys : Has(s, k) => \A i, j \in DOMAIN wire[s] :
    i < j /\ IsDiff(wire[s][i], k) /\ IsDiff(wire[s][j], k) => wire[s][i].lsn < wire[s][j].lsn

(* lsn.ts 7-8: fencing "enforces ordering and avoids duplicates".  No diff  *)
(* is sent again to a session that subscribes its query; after a restart    *)
(* the fence is below the diffs KeyDB kept, which each subscribe replays.    *)
FenceAvoidsDuplicates ==
  [][\A s \in Sessions, k \in Keys : Has(s, k) =>
       \A j \in DOMAIN wire'[s] \ DOMAIN wire[s] : IsDiff(wire'[s][j], k) =>
         \A i \in 1..(j - 1) : wire'[s][i] # wire'[s][j]]_vars

(* delivery.ts 35: "Too many queued frames triggers a reset-to-snapshot     *)
(* error".  A client whose queue was discarded is told so.                  *)
OverflowAnnounced ==
  \A s \in overflowed : \E i \in DOMAIN wire[s] : wire[s][i] = Notice("overflow")

(* query-control-producer.ts 8-10: qmeta is "per-query metadata" that lets  *)
(* servers be ready "before diffs arrive".  A query that a subscriber has   *)
(* published and still subscribes is known to them.                         *)
QueryKept ==
  \A t \in WithQuery : task[t] # Idle /\ OnlyAttempt(t) /\ Has(task[t].s, task[t].k) =>
    task[t].k \in qmeta
=============================================================================
