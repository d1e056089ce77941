------------------------ MODULE LiveQueryOrderProofs ------------------------
(***************************************************************************)
(* In which order a subscriber is sent snapshots and diffs while no socket *)
(* refuses frames, for every number of sessions, keys and attempts.        *)
(***************************************************************************)
EXTENDS LiveQueryRefinement
-----------------------------------------------------------------------------
(* Sending without refusals                                                 *)

QueuesEmpty == \A s \in Sessions : sendQueue[s] = <<>>

\* The frames of a segment that are recorded on the wire.
Recorded(out) == [s \in Sessions |-> IF IsData(out[s]) THEN out[s] ELSE <<>>]

Adds(add) ==
  /\ add \in [Sessions -> Seq(Frame)]
  /\ wire' = [s \in Sessions |-> wire[s] \o add[s]]

\* What is sent and queued are frames, whatever their bounds.
LEMMA FrameTypes == IInv => SendState(Frame)
<1> SUFFICES ASSUME IInv PROVE SendState(Frame)
  OBVIOUS
<1>1. PastFrames(lastSeen, found) \subseteq Frame
  BY DEF PastFrames
<1>. QED
  BY <1>1, SeqWiden DEF IInv, SendState

\* Nothing added to an empty queue leaves it empty.
LEMMA EmptyEnqueue == Enqueue(<<>>, <<>>) = <<>>
<1>1. <<>> \o <<>> = <<>>
  OBVIOUS
<1>2. MaxQueue + 1 \in Nat \ {0}
  BY ConstantsAssumption
<1>3. 0 % (MaxQueue + 1) = 0
  BY <1>2
<1>4. SubSeq(<<>>, 1, 0) = <<>>
  OBVIOUS
<1>. QED
  BY <1>1, <1>3, <1>4 DEF Enqueue

\* Without refusals every frame of a segment goes to its socket.
LEMMA EmitAll ==
  ASSUME Refusals = FALSE, IInv, QueuesEmpty,
         NEW out \in [Sessions -> Seq(Frame)], NEW took \in Acceptances(out), Emit(out, took)
  PROVE  Adds(Recorded(out)) /\ QueuesEmpty' /\ \A s \in Sessions : took[s] = Len(out[s])
<1>1. \A s \in Sessions : Len(out[s]) \in Nat /\ took[s] = Len(out[s])
  BY LenProperties DEF Acceptances
<1>2. {s \in Sessions : took[s] < Len(out[s])} = {}
  BY <1>1
<1>3. PICK told \in SUBSET {s \in {r \in Sessions : took[r] < Len(out[r])} :
                              Len(sendQueue[s]) + Len(Refused(out, took, s)) > MaxQueue} :
        wire' = [s \in Sessions |->
                   wire[s] \o (IF IsData(out[s]) THEN SubSeq(out[s], 1, took[s]) ELSE <<>>)
                     \o (IF s \in told THEN <<Notice("overflow")>> ELSE <<>>)]
  BY DEF Emit
<1>4. told = {}
  BY <1>2
<1>5. ASSUME NEW s \in Sessions
      PROVE  wire[s] \o (IF IsData(out[s]) THEN SubSeq(out[s], 1, took[s]) ELSE <<>>)
               \o (IF s \in told THEN <<Notice("overflow")>> ELSE <<>>) = wire[s] \o Recorded(out)[s]
  <2>1. wire[s] \in Seq(Frame) /\ out[s] \in Seq(Frame) /\ Recorded(out)[s] \in Seq(Frame)
    BY FrameTypes DEF SendState, Recorded
  <2>2. SubSeq(out[s], 1, took[s]) = out[s]
    BY <1>1, <2>1
  <2>3. (IF IsData(out[s]) THEN SubSeq(out[s], 1, took[s]) ELSE <<>>) = Recorded(out)[s]
    BY <2>2 DEF Recorded
  <2>4. wire[s] \o Recorded(out)[s] \in Seq(Frame)
    BY <2>1, ConcatProperties
  <2>5. (wire[s] \o Recorded(out)[s]) \o <<>> = wire[s] \o Recorded(out)[s]
    BY <2>4
  <2>. QED
    BY <1>4, <2>3, <2>5
<1>6. wire' = [s \in Sessions |-> wire[s] \o Recorded(out)[s]]
  BY <1>3, <1>5
<1>7. Recorded(out) \in [Sessions -> Seq(Frame)]
  BY DEF Recorded
<1>8. QueuesEmpty'
  <2>1. sendQueue' = [s \in Sessions |-> Enqueue(sendQueue[s], Refused(out, took, s))]
    BY DEF Emit
  <2>2. ASSUME NEW s \in Sessions PROVE Refused(out, took, s) = <<>>
    <3>1. out[s] \in Seq(Frame)
      OBVIOUS
    <3>. QED
      BY <1>1, <3>1 DEF Refused
  <2>. QED
    BY <2>1, <2>2, EmptyEnqueue DEF QueuesEmpty
<1>. QED
  BY <1>1, <1>6, <1>7, <1>8 DEF Adds

\* The same for a segment that writes to one session.
LEMMA SafeSendAll ==
  ASSUME Refusals = FALSE, IInv, QueuesEmpty, NEW s \in Sessions, NEW frames \in Seq(Frame), SafeSend(s, frames)
  PROVE  Adds(Recorded(To(s, frames))) /\ QueuesEmpty' /\ To(s, frames) \in [Sessions -> Seq(Frame)]
<1>1. To(s, frames) \in [Sessions -> Seq(Frame)]
  BY EmptySeq DEF To
<1>. QED
  BY <1>1, EmitAll DEF SafeSend

\* Nothing is sent.
LEMMA NothingSent ==
  ASSUME IInv, wire' = wire
  PROVE  Adds(Silence)
<1>1. wire \in [Sessions -> Seq(Frame)]
  BY FrameTypes DEF SendState
<1>2. \A s \in Sessions : wire[s] \o <<>> = wire[s]
  BY <1>1
<1>. QED
  BY <1>1, <1>2 DEF Adds, Silence

\* Draining an empty queue sends nothing.
LEMMA DrainAll ==
  ASSUME Refusals = FALSE, IInv, QueuesEmpty, NEW s \in Sessions, Drain(s)
  PROVE  wire' = wire /\ QueuesEmpty'
<1>1. sendQueue[s] = <<>> /\ Len(sendQueue[s]) = 0
  BY DEF QueuesEmpty
<1>2. /\ \E q \in Ascending({i \in 1..0 : sendQueue[s][i].op \in DataOps}) :
           wire' = [wire EXCEPT ![s] = @ \o [i \in DOMAIN q |-> sendQueue[s][q[i]]]]
      /\ sendQueue' = [sendQueue EXCEPT ![s] = SubSeq(@, 1, Len(@))]
  <2>1. PICK n \in 0..Len(sendQueue[s]) :
          /\ \E q \in Ascending({i \in 1..n : sendQueue[s][i].op \in DataOps}) :
               wire' = [wire EXCEPT ![s] = @ \o [i \in DOMAIN q |-> sendQueue[s][q[i]]]]
          /\ sendQueue' = [sendQueue EXCEPT ![s] = SubSeq(@, n + 1, Len(@))]
    BY DEF Drain, pastVars
  <2>2. n = 0 /\ n + 1 = 1
    BY <1>1, <2>1
  <2>. QED
    BY <2>1, <2>2
<1>3. PICK q \in Ascending({}) :
        wire' = [wire EXCEPT ![s] = @ \o [i \in DOMAIN q |-> sendQueue[s][q[i]]]]
  <2>1. {i \in 1..0 : sendQueue[s][i].op \in DataOps} = {}
    OBVIOUS
  <2>. QED
    BY <1>2, <2>1
<1>4. DOMAIN q = 1..0
  <2>1. Cardinality({}) = 0
    BY FS_EmptySet
  <2>. QED
    BY <1>3, <2>1 DEF Ascending
<1>5. [i \in DOMAIN q |-> sendQueue[s][q[i]]] = <<>>
  BY <1>4
<1>6. wire \in [Sessions -> Seq(Frame)] /\ sendQueue \in [Sessions -> Seq(Frame)]
  BY FrameTypes DEF SendState
<1>7. wire' = [wire EXCEPT ![s] = @ \o <<>>]
  BY <1>3, <1>5
<1>8. wire[s] \o <<>> = wire[s]
  BY <1>6
<1>9. wire' = wire
  BY <1>6, <1>7, <1>8
<1>10. SubSeq(<<>>, 1, Len(<<>>)) = <<>>
  OBVIOUS
<1>11. \A r \in Sessions : sendQueue'[r] = <<>>
  BY <1>1, <1>2, <1>6, <1>10 DEF QueuesEmpty
<1>. QED
  BY <1>9, <1>11 DEF QueuesEmpty
-----------------------------------------------------------------------------
(* The invariant                                                            *)

\* A snapshot of k is on the wire of s.
Snapped(s, k) == \E i \in DOMAIN wire[s] : IsSnapshot(wire[s][i], k)

\* Whoever may send diffs of a query has sent a snapshot of it.
Sources ==
  /\ \A t \in Attempts : task[t] # Idle => conn[task[t].s] # "new"
  /\ \A t \in Attempts : HasSnapshot(t) =>
       conn[task[t].s] = "closed" \/ Snapped(task[t].s, task[t].k)
  /\ \A s \in Sessions, k \in Keys : Has(s, k) /\ ~Sub(s, k).buffering => Snapped(s, k)

\* The cursor passed every diff sent, but those of an earlier process that
\* were asked for again.
Passed ==
  \A s \in Sessions, k \in Keys : Has(s, k) =>
    \A i \in DOMAIN wire[s] : IsDiff(wire[s][i], k) =>
      wire[s][i].lsn <= Sub(s, k).cursorLsn \/ AskedAgain(s, k, i)

OrderInv == QueuesEmpty /\ Sources /\ Passed /\ SnapshotFirst

\* The diffs that a step sends follow a snapshot and what was passed.
DiffsFollow(add) ==
  \A s \in Sessions, k \in Keys : \A i \in DOMAIN add[s] : IsDiff(add[s][i], k) =>
    /\ Snapped(s, k)
    /\ Has(s, k) => /\ Has(s, k)' /\ Sub(s, k).cursorLsn < add[s][i].lsn
                    /\ add[s][i].lsn <= Sub(s, k)'.cursorLsn
                    /\ \A j \in DOMAIN add[s] : j < i /\ IsDiff(add[s][j], k) => add[s][j].lsn < add[s][i].lsn
    /\ ~Has(s, k) => ~Has(s, k)'

SendsInOrder == QueuesEmpty' /\ \E add : Adds(add) /\ DiffsFollow(add)

\* Frames other than diffs are in order trivially.
LEMMA NoDiffsFollow ==
  ASSUME NEW add, \A s \in Sessions : \A i \in DOMAIN add[s] : add[s][i].op # "diff"
  PROVE  DiffsFollow(add)
BY DEF DiffsFollow, IsDiff

\* The frames the gateway builds are frames.
LEMMA FramesSent ==
  ASSUME NEW k \in Keys
  PROVE  /\ FrameOf("ack", k, 0) \in Frame /\ FrameOf("rangeIndex", k, 0) \in Frame
         /\ \A n \in Nat : FrameOf("snapshot", k, n) \in Frame /\ FrameOf("rowEvent", k, n) \in Frame
                           /\ FrameOf("diff", k, n) \in Frame
         /\ Notice("snapshot_failed") \in Frame
BY DEF Frame, FrameOf, Notice

\* A segment that sends one frame other than a diff, or nothing.
LEMMA OtherSent ==
  ASSUME Refusals = FALSE, IInv, QueuesEmpty, NEW s \in Sessions, NEW f \in Frame, f.op # "diff",
         NEW frames \in {<<>>, <<f>>}, SafeSend(s, frames)
  PROVE  SendsInOrder
<1>1. frames \in Seq(Frame)
  <2>1. <<>> \in Seq(Frame) /\ <<f>> \in Seq(Frame)
    OBVIOUS
  <2>. QED
    BY <2>1
<1>2. Adds(Recorded(To(s, frames))) /\ QueuesEmpty' /\ To(s, frames) \in [Sessions -> Seq(Frame)]
  BY <1>1, SafeSendAll
<1>3. \A r \in Sessions : \A i \in DOMAIN Recorded(To(s, frames))[r] : Recorded(To(s, frames))[r][i].op # "diff"
  <2>1. \A r \in Sessions : Recorded(To(s, frames))[r] \in {<<>>, <<f>>}
    BY DEF Recorded, To
  <2>. QED
    BY <2>1
<1> DEFINE add == Recorded(To(s, frames))
<1> HIDE DEF add
<1>4. Adds(add) /\ \A r \in Sessions : \A i \in DOMAIN add[r] : add[r][i].op # "diff"
  BY <1>2, <1>3 DEF add
<1>5. DiffsFollow(add)
  BY <1>4, NoDiffsFollow
<1>. QED
  BY <1>2, <1>4, <1>5 DEF SendsInOrder

\* A diff that is delivered at once is above the cursor, which becomes it.
LEMMA DeliverFollows ==
  ASSUME Refusals = FALSE, IInv, OrderInv, NEW k \in Keys, NEW l \in Nat, Deliver(k, l)
  PROVE  SendsInOrder
<1> DEFINE targets == {s \in Open : k \in subs[s] /\ Has(s, k)}
           held == {s \in targets : subStates[s][k].buffering}
           live == {s \in targets \ held : l > subStates[s][k].cursorLsn}
           f == FrameOf("diff", k, l)
           out == [s \in Sessions |-> IF s \in live THEN <<f>> ELSE <<>>]
<1>1. PICK took \in Acceptances(out) :
        /\ Emit(out, took)
        /\ subStates' = [s \in Sessions |->
             IF s \in held
             THEN [subStates[s] EXCEPT ![k].buffer = @ \cup {l}]
             ELSE IF s \in live /\ took[s] = 1
             THEN [subStates[s] EXCEPT ![k].cursorLsn = l]
             ELSE subStates[s]]
  BY DEF Deliver
<1>2. \A s \in live : /\ s \in Sessions /\ s \notin held /\ Has(s, k)
                      /\ ~Sub(s, k).buffering /\ Sub(s, k).cursorLsn < l
  <2>1. \A s \in live : Sub(s, k) \in SubState
    BY DEF IInv, ClientTypeOK, IsMap, Has, Open, Sub
  <2>. QED
    BY <2>1 DEF Open, Sub, SubState
<1> HIDE DEF held, live, targets
<1>3. f \in Frame /\ f.op = "diff" /\ f.key = k /\ f.lsn = l
  BY FramesSent DEF FrameOf
<1> HIDE DEF f
<1>4. out \in [Sessions -> Seq(Frame)]
  <2>1. <<f>> \in Seq(Frame) /\ <<>> \in Seq(Frame)
    BY <1>3
  <2>. QED
    BY <2>1
<1>5. Adds(Recorded(out)) /\ QueuesEmpty' /\ \A s \in Sessions : took[s] = Len(out[s])
  BY <1>1, <1>4, EmitAll DEF OrderInv
<1>6. \A s \in live : took[s] = 1
  BY <1>2, <1>5
<1>7. \A s \in Sessions : Recorded(out)[s] = IF s \in live THEN <<f>> ELSE <<>>
  <2>1. IsData(<<f>>)
    BY <1>3 DEF IsData, DataOps
  <2>. QED
    BY <2>1 DEF Recorded
<1> DEFINE add == Recorded(out)
<1>8. Adds(add) /\ \A s \in Sessions : add[s] = IF s \in live THEN <<f>> ELSE <<>>
  BY <1>5, <1>7
<1> HIDE DEF out, add
<1>9. ASSUME NEW s \in live
      PROVE  Has(s, k)' /\ Sub(s, k)'.cursorLsn = l
  <2>1. subStates'[s] = [subStates[s] EXCEPT ![k].cursorLsn = l]
    BY <1>1, <1>2, <1>6
  <2>2. Sub(s, k) \in SubState /\ k \in DOMAIN subStates[s]
    BY <1>2 DEF IInv, ClientTypeOK, IsMap, Has, Sub
  <2>. QED
    BY <2>1, <2>2 DEF Has, Sub, SubState
<1>10. DiffsFollow(add)
  <2> SUFFICES ASSUME NEW s \in Sessions, NEW x \in Keys, NEW i \in DOMAIN add[s], IsDiff(add[s][i], x)
               PROVE  /\ Snapped(s, x)
                      /\ Has(s, x) /\ Has(s, x)' /\ Sub(s, x).cursorLsn < add[s][i].lsn
                      /\ add[s][i].lsn <= Sub(s, x)'.cursorLsn
                      /\ \A j \in DOMAIN add[s] : ~(j < i)
    BY DEF DiffsFollow
  <2>1. s \in live /\ add[s] = <<f>>
    BY <1>8
  <2>2. i = 1 /\ DOMAIN add[s] = {1} /\ add[s][i] = f
    BY <2>1
  <2>3. x = k
    BY <1>3, <2>2 DEF IsDiff
  <2>4. Snapped(s, k)
    BY <1>2, <2>1 DEF OrderInv, Sources
  <2>. QED
    BY <1>2, <1>3, <1>9, <2>1, <2>2, <2>3, <2>4
<1>. QED
  BY <1>5, <1>8, <1>10 DEF SendsInOrder

\* The diffs that are replayed exceed the cursor and each other, and the
\* cursor becomes the last.
LEMMA ReplayFollows ==
  ASSUME Refusals = FALSE, IInv, OrderInv, NEW t \in Attempts, ReplayArrives(t)
  PROVE  SendsInOrder
<1>0. task[t].s \in Sessions /\ task[t].k \in Keys
  BY DEF ReplayArrives, IInv, ClientTypeOK, Task, Idle, pastVars
<1>. SUFFICES ASSUME NEW s \in Sessions, s = task[t].s, NEW k \in Keys, k = task[t].k
              PROVE  SendsInOrder
  BY <1>0
<1>1. task[t].stage = "replay" /\ s \in Sessions /\ k \in Keys
  BY DEF ReplayArrives, pastVars
<1>2. PICK seen \in SUBSET DOMAIN hot[k] : \E q \in Ascending(Replayed(t, seen)) :
        /\ SafeSend(s, [i \in DOMAIN q |-> FrameOf("diff", k, hot[k][q[i]])])
        /\ subStates' = IF Has(s, k) /\ q # <<>>
                        THEN [subStates EXCEPT ![s][k].cursorLsn = hot[k][q[Len(q)]]]
                        ELSE subStates
  BY DEF ReplayArrives, pastVars
<1>3. PICK q \in Ascending(Replayed(t, seen)) :
        /\ SafeSend(s, [i \in DOMAIN q |-> FrameOf("diff", k, hot[k][q[i]])])
        /\ subStates' = IF Has(s, k) /\ q # <<>>
                        THEN [subStates EXCEPT ![s][k].cursorLsn = hot[k][q[Len(q)]]]
                        ELSE subStates
  BY <1>2
<1> DEFINE places == Replayed(t, seen)
           lsn(i) == hot[k][q[i]]
           frames == [i \in DOMAIN q |-> FrameOf("diff", k, lsn(i))]
<1>4. hot[k] \in Seq(Nat) /\ Len(hot[k]) \in Nat /\ DOMAIN hot[k] = 1..Len(hot[k])
  BY <1>1, LenProperties DEF IInv, CdcTypeOK
<1>5. places \subseteq 1..Len(hot[k])
  BY <1>4 DEF Replayed, DiffsAfter
<1>6. q \in Seq(places) /\ DOMAIN q = 1..Len(q) /\ Len(q) \in Nat
  <2>1. IsFiniteSet(places)
    BY <1>4, <1>5, FS_Interval, FS_Subset, 1 \in Int, Len(hot[k]) \in Int
  <2>. QED
    BY <1>3, <2>1, AscendingType
<1>7. \A i \in 1..Len(q) : q[i] \in places /\ lsn(i) \in Nat
  <2>1. \A i \in 1..Len(q) : q[i] \in places
    BY <1>6, ElementOfSeq
  <2>. QED
    BY <1>4, <1>5, <2>1, ElementOfSeq
<1>8. \A i, j \in 1..Len(q) : i < j => q[i] < q[j]
  BY <1>3, <1>6 DEF Ascending
<1>9. Has(s, k) => \A p \in places : /\ hot[k][p] > Sub(s, k).cursorLsn
                                     /\ \A o \in places : o < p => hot[k][o] < hot[k][p]
  <2> SUFFICES ASSUME Has(s, k) PROVE \A p \in places : /\ hot[k][p] > Sub(s, k).cursorLsn
                              /\ \A o \in places : o < p => hot[k][o] < hot[k][p]
    OBVIOUS
  <2>1. places = {i \in DiffsAfter(t, seen) :
                    /\ hot[k][i] > Sub(s, k).cursorLsn
                    /\ \A j \in DiffsAfter(t, seen) : j < i => hot[k][j] < hot[k][i]}
    BY DEF Replayed, Sub
  <2>. QED
    BY <2>1
<1>10. ~Has(s, k) => ~Has(s, k)'
  BY <1>3 DEF Has
<1>11. Has(s, k) /\ q # <<>> => subStates' = [subStates EXCEPT ![s][k].cursorLsn = lsn(Len(q))]
  BY <1>3
<1>12. SafeSend(s, frames)
  BY <1>3
<1> HIDE DEF places
<1>13. ASSUME Has(s, k), NEW i \in 1..Len(q)
       PROVE  /\ lsn(i) > Sub(s, k).cursorLsn
              /\ \A j \in 1..Len(q) : j < i => lsn(j) < lsn(i)
  <2>1. q[i] \in places
    BY <1>7
  <2>2. hot[k][q[i]] > Sub(s, k).cursorLsn
    BY <1>9, <1>13, <2>1
  <2>3. ASSUME NEW j \in 1..Len(q), j < i PROVE hot[k][q[j]] < hot[k][q[i]]
    <3>1. q[j] \in places /\ q[j] < q[i]
      BY <1>7, <1>8, <2>3
    <3>. QED
      BY <1>9, <1>13, <2>1, <3>1
  <2>. QED
    BY <2>2, <2>3
<1> HIDE DEF lsn
<1>14. ASSUME Has(s, k), NEW i \in 1..Len(q)
       PROVE  Has(s, k)' /\ lsn(i) <= Sub(s, k)'.cursorLsn
  <2>1. q # <<>> /\ Len(q) \in 1..Len(q)
    BY <1>6, EmptySeq
  <2>2. subStates' = [subStates EXCEPT ![s][k].cursorLsn = lsn(Len(q))]
    BY <1>11, <1>14, <2>1
  <2>3. Sub(s, k) \in SubState /\ k \in DOMAIN subStates[s] /\ DOMAIN subStates = Sessions
    BY <1>1, <1>14 DEF IInv, ClientTypeOK, IsMap, Has, Sub
  <2>4. Has(s, k)' /\ Sub(s, k)'.cursorLsn = lsn(Len(q))
    BY <1>1, <2>2, <2>3 DEF Has, Sub, SubState
  <2>5. lsn(i) \in Nat /\ lsn(Len(q)) \in Nat
    BY <1>7, <2>1
  <2>6. i = Len(q) \/ i < Len(q)
    <3>1. \A n \in Nat : \A m \in 1..n : m = n \/ m < n
      OBVIOUS
    <3>. QED
      BY <1>6, <3>1
  <2>7. i < Len(q) => lsn(i) < lsn(Len(q))
    <3>1. \A m \in 1..Len(q) : m < Len(q) => lsn(m) < lsn(Len(q))
      BY <1>13, <1>14, <2>1
    <3>. QED
      BY <3>1
  <2>. QED
    BY <2>4, <2>5, <2>6, <2>7
<1>15. /\ DOMAIN frames = 1..Len(q) /\ frames \in Seq(Frame)
       /\ \A i \in 1..Len(q) : frames[i].op = "diff" /\ frames[i].key = k /\ frames[i].lsn = lsn(i)
  <2>1. \A i \in 1..Len(q) : FrameOf("diff", k, lsn(i)) \in Frame
    BY <1>1, <1>7, FramesSent
  <2>2. frames \in [1..Len(q) -> Frame]
    BY <1>6, <2>1
  <2>3. frames \in Seq(Frame)
    BY <1>6, <2>2, SeqDef
  <2>. QED
    BY <1>6, <2>3 DEF FrameOf
<1> HIDE DEF frames
<1> DEFINE add == Recorded(To(s, frames))
<1>16. Adds(add) /\ QueuesEmpty'
  BY <1>1, <1>15, <1>12, SafeSendAll DEF OrderInv
<1>17. IsData(frames)
  BY <1>15 DEF IsData, DataOps
<1>18. \A r \in Sessions : add[r] = IF r = s /\ s \in Open THEN frames ELSE <<>>
  BY <1>17 DEF Recorded, To
<1> HIDE DEF add
<1>19. DiffsFollow(add)
  <2> SUFFICES ASSUME NEW r \in Sessions, NEW x \in Keys, NEW i \in DOMAIN add[r], IsDiff(add[r][i], x)
               PROVE  /\ Snapped(r, x)
                      /\ Has(r, x) => /\ Has(r, x)' /\ Sub(r, x).cursorLsn < add[r][i].lsn
                                      /\ add[r][i].lsn <= Sub(r, x)'.cursorLsn
                                      /\ \A j \in DOMAIN add[r] : j < i => add[r][j].lsn < add[r][i].lsn
                      /\ ~Has(r, x) => ~Has(r, x)'
    BY DEF DiffsFollow
  <2>1. r = s /\ s \in Open /\ add[r] = frames
    BY <1>18
  <2>2. i \in 1..Len(q) /\ DOMAIN add[r] = 1..Len(q) /\ x = k
    BY <1>15, <2>1 DEF IsDiff
  <2>3. Snapped(s, k)
    BY <1>1, <2>1 DEF OrderInv, Sources, HasSnapshot, Open
  <2>4. Has(s, k) => /\ Has(s, k)' /\ Sub(s, k).cursorLsn < lsn(i)
                     /\ lsn(i) <= Sub(s, k)'.cursorLsn
                     /\ \A j \in 1..Len(q) : j < i => lsn(j) < lsn(i)
    <3>1. ASSUME Has(s, k) PROVE Sub(s, k).cursorLsn \in Nat
      BY <1>1, <3>1 DEF IInv, ClientTypeOK, IsMap, Has, Sub, SubState
    <3>. QED
      BY <1>7, <1>13, <1>14, <2>2, <3>1
  <2>5. add[r][i].lsn = lsn(i) /\ \A j \in DOMAIN add[r] : add[r][j].lsn = lsn(j)
    BY <1>15, <2>1, <2>2
  <2>. QED
    BY <1>10, <2>1, <2>2, <2>3, <2>4, <2>5
<1>. QED
  BY <1>16, <1>19 DEF SendsInOrder

\* Nothing is sent, and no frame is queued.
LEMMA QuietInOrder ==
  ASSUME IInv, wire' = wire, QueuesEmpty'
  PROVE  SendsInOrder
<1>1. Adds(Silence)
  BY NothingSent
<1>2. \A s \in Sessions : \A i \in DOMAIN Silence[s] : Silence[s][i].op # "diff"
  BY DEF Silence
<1>3. DiffsFollow(Silence)
  BY <1>2, NoDiffsFollow
<1>. QED
  BY <1>1, <1>3 DEF SendsInOrder

\* Row events do not count as diffs.
LEMMA RowInOrder ==
  ASSUME Refusals = FALSE, IInv, QueuesEmpty, NEW k \in Keys, ConsumeRow(k)
  PROVE  SendsInOrder
<1>1. PICK l \in HeaderLsn(topic[k][rowPos[k] + 1]) :
        LET out == [s \in Sessions |->
              IF s \in Open /\ k \in subs[s] THEN <<FrameOf("rowEvent", k, l)>> ELSE <<>>]
        IN  \E took \in Acceptances(out) : Emit(out, took)
  BY DEF ConsumeRow, pastVars
<1> DEFINE f == FrameOf("rowEvent", k, l)
           out == [s \in Sessions |-> IF s \in Open /\ k \in subs[s] THEN <<f>> ELSE <<>>]
<1>2. \E took \in Acceptances(out) : Emit(out, took)
  BY <1>1
<1>3. l \in Nat
  <2>1. rowPos[k] \in Nat /\ rowPos[k] < Len(topic[k])
    BY DEF IInv, CdcTypeOK, ConsumeRow, pastVars
  <2>. QED
    BY <1>1, <2>1, HeaderBounds
<1>4. f \in Frame /\ f.op = "rowEvent"
  BY <1>3, FramesSent DEF FrameOf
<1> HIDE DEF f
<1>5. out \in [Sessions -> Seq(Frame)]
  <2>1. <<f>> \in Seq(Frame) /\ <<>> \in Seq(Frame)
    BY <1>4
  <2>. QED
    BY <2>1
<1>6. Adds(Recorded(out)) /\ QueuesEmpty'
  BY <1>2, <1>5, EmitAll
<1> DEFINE add == Recorded(out)
<1>7. \A s \in Sessions : add[s] \in {<<>>, <<f>>}
  BY DEF Recorded
<1> HIDE DEF out, add
<1>8. \A s \in Sessions : \A i \in DOMAIN add[s] : add[s][i].op # "diff"
  BY <1>4, <1>7
<1>9. DiffsFollow(add)
  BY <1>8, NoDiffsFollow
<1>10. Adds(add)
  BY <1>6 DEF add
<1>. QED
  BY <1>6, <1>9, <1>10 DEF SendsInOrder

\* The segments of handleSubscribe.
LEMMA SubscribeInOrder ==
  ASSUME Refusals = FALSE, IInv, QueuesEmpty, NEW t \in Attempts, NEW s \in Sessions,
         NEW k \in Keys, Subscribe(t, s, k)
  PROVE  SendsInOrder
<1> DEFINE f == FrameOf("ack", k, 0)
<1>1. SafeSend(s, <<f>>)
  BY DEF Subscribe, pastVars
<1>2. f \in Frame /\ f.op # "diff"
  BY FramesSent DEF FrameOf
<1> HIDE DEF f
<1>. QED
  BY <1>1, <1>2, OtherSent

\* The segments of handleSubscribe after its awaits.
LEMMA SettleInOrder ==
  ASSUME Refusals = FALSE, IInv, OrderInv, NEW t \in Attempts, Settle(t)
  PROVE  SendsInOrder
<1>1. QueuesEmpty
  BY DEF OrderInv
<1>2. task[t].s \in Sessions /\ task[t].k \in Keys /\ task[t].asked \in Nat /\ wal \in Nat
  <2>1. task[t].stage \in {"snapshot", "range", "replay"}
    BY DEF Settle, SnapshotArrives, SnapshotFails, RangeArrives, ReplayArrives, pastVars
  <2>. QED
    BY <2>1 DEF IInv, ClientTypeOK, CdcTypeOK, Task, Idle
<1>3. CASE SnapshotArrives(t)
  <2>1. PICK at \in task[t].asked..wal : SafeSend(task[t].s, <<FrameOf("snapshot", task[t].k, at)>>)
    BY <1>3 DEF SnapshotArrives, pastVars
  <2> DEFINE f == FrameOf("snapshot", task[t].k, at)
  <2>2. at \in Nat
    BY <1>2
  <2>3. f \in Frame /\ f.op # "diff"
    BY <1>2, <2>2, FramesSent DEF FrameOf
  <2>4. SafeSend(task[t].s, <<f>>)
    BY <2>1
  <2> HIDE DEF f
  <2>. QED
    BY <1>1, <1>2, <2>3, <2>4, OtherSent
<1>4. CASE SnapshotFails(t)
  <2> DEFINE f == Notice("snapshot_failed")
  <2>1. SafeSend(task[t].s, <<f>>)
    BY <1>4 DEF SnapshotFails, pastVars
  <2>2. f \in Frame /\ f.op # "diff"
    BY <1>2, FramesSent DEF Notice
  <2> HIDE DEF f
  <2>. QED
    BY <1>1, <1>2, <2>1, <2>2, OtherSent
<1>5. CASE RangeArrives(t)
  <2> DEFINE f == FrameOf("rangeIndex", task[t].k, 0)
  <2>1. PICK range \in {<<>>, <<f>>} : SafeSend(task[t].s, range)
    BY <1>5 DEF RangeArrives, pastVars
  <2>2. f \in Frame /\ f.op # "diff"
    BY <1>2, FramesSent DEF FrameOf
  <2> HIDE DEF f
  <2>. QED
    BY <1>1, <1>2, <2>1, <2>2, OtherSent
<1>6. CASE ReplayArrives(t)
  BY <1>6, ReplayFollows
<1>. QED
  BY <1>3, <1>4, <1>5, <1>6 DEF Settle

\* Whatever the gateway does next.
LEMMA NextInOrder ==
  ASSUME Refusals = FALSE, IInv, OrderInv, [Next]_vars
  PROVE  SendsInOrder
<1>1. QueuesEmpty
  BY DEF OrderInv
<1>2. ASSUME UNCHANGED <<wire, sendQueue>> PROVE SendsInOrder
  BY <1>1, <1>2, QuietInOrder DEF QueuesEmpty
<1>3. ASSUME NEW ks \in (SUBSET Keys) \ {{}}, Commit(ks) PROVE SendsInOrder
  BY <1>2, <1>3 DEF Commit, sendVars, pastVars
<1>4. ASSUME NEW k \in Keys, Rewind(k) PROVE SendsInOrder
  BY <1>2, <1>4 DEF Rewind, sendVars, pastVars
<1>5. ASSUME NEW k \in Keys, ConsumeDiff(k) PROVE SendsInOrder
  <2>1. PICK l \in HeaderLsn(topic[k][diffPos[k] + 1]) : Deliver(k, l)
    BY <1>5 DEF ConsumeDiff, pastVars
  <2>2. diffPos[k] \in Nat /\ diffPos[k] < Len(topic[k])
    BY <1>5 DEF IInv, CdcTypeOK, ConsumeDiff, pastVars
  <2>3. l \in Nat
    BY <2>1, <2>2, HeaderBounds
  <2>. QED
    BY <2>1, <2>3, DeliverFollows
<1>6. ASSUME NEW k \in Keys, ConsumeRow(k) PROVE SendsInOrder
  BY <1>1, <1>6, RowInOrder
<1>7. ASSUME NEW s \in Sessions, OpenSession(s) PROVE SendsInOrder
  BY <1>2, <1>7 DEF OpenSession, sendVars, pastVars
<1>8. ASSUME NEW s \in Sessions, Drain(s) PROVE SendsInOrder
  BY <1>1, <1>8, DrainAll, QuietInOrder
<1>9. ASSUME NEW s \in Sessions, Close(s) PROVE SendsInOrder
  <2>1. sendQueue \in [Sessions -> Seq(Frame)] /\ sendQueue' = [sendQueue EXCEPT ![s] = <<>>]
    BY <1>9, FrameTypes DEF Close, SendState, pastVars
  <2>2. QueuesEmpty'
    BY <1>1, <2>1 DEF QueuesEmpty
  <2>. QED
    BY <1>9, <2>2, QuietInOrder DEF Close, pastVars
<1>10. ASSUME NEW t \in Attempts, NEW s \in Sessions, NEW k \in Keys, Subscribe(t, s, k)
       PROVE  SendsInOrder
  BY <1>1, <1>10, SubscribeInOrder
<1>11. ASSUME NEW t \in Attempts, Settle(t) PROVE SendsInOrder
  BY <1>11, SettleInOrder
<1>12. ASSUME NEW s \in Sessions, NEW k \in Keys, Unsubscribe(s, k) PROVE SendsInOrder
  BY <1>2, <1>12 DEF Unsubscribe, sendVars, pastVars
<1>13. CASE UNCHANGED vars
  BY <1>2, <1>13 DEF vars, sendVars, pastVars
<1>14. CASE Next
  BY <1>3, <1>4, <1>5, <1>6, <1>7, <1>8, <1>9, <1>10, <1>11, <1>12, <1>14 DEF Next
<1>. QED
  BY <1>13, <1>14
-----------------------------------------------------------------------------
(* What a step does to the subscriptions and to the running subscribes      *)

\* Each subscription does one of the four things LiveFeed knows.
LEMMA NextMoves ==
  ASSUME IInv, [Next]_vars
  PROVE  \A s \in Sessions, k \in Keys : FeedMoves(s, k)
<1>1. ASSUME UNCHANGED subStates PROVE \A s \in Sessions, k \in Keys : FeedMoves(s, k)
  BY <1>1, AllResting
<1>2. ASSUME NEW x \in Keys, ConsumeDiff(x) PROVE \A s \in Sessions, k \in Keys : FeedMoves(s, k)
  <2>1. PICK l \in HeaderLsn(topic[x][diffPos[x] + 1]) :
          lastSeen' = Larger(l, lastSeen) /\ Deliver(x, l)
    BY <1>2 DEF ConsumeDiff, pastVars
  <2>2. diffPos[x] \in Nat /\ diffPos[x] < Len(topic[x])
    BY <1>2 DEF IInv, CdcTypeOK, ConsumeDiff, pastVars
  <2>. QED
    BY <2>1, <2>2, HeaderBounds, DeliverMoves
<1>3. ASSUME NEW t \in Attempts, Settle(t) PROVE \A s \in Sessions, k \in Keys : FeedMoves(s, k)
  <2>1. CASE SnapshotArrives(t) \/ SnapshotFails(t)
    BY <1>1, <2>1 DEF SnapshotArrives, SnapshotFails, clientVars, pastVars
  <2>2. CASE RangeArrives(t)
    BY <2>2, RangeArrivesMoves
  <2>3. CASE ReplayArrives(t)
    BY <2>3, ReplayArrivesMoves
  <2>. QED
    BY <1>3, <2>1, <2>2, <2>3 DEF Settle
<1>4. CASE \E ks \in (SUBSET Keys) \ {{}} : Commit(ks)
  BY <1>1, <1>4 DEF Commit, clientVars, pastVars
<1>5. CASE \E k \in Keys : Rewind(k) \/ ConsumeRow(k)
  BY <1>1, <1>5 DEF Rewind, ConsumeRow, clientVars, pastVars
<1>6. CASE \E s \in Sessions : OpenSession(s) \/ Drain(s)
  BY <1>1, <1>6 DEF OpenSession, Drain, clientVars, pastVars
<1>7. CASE UNCHANGED vars
  BY <1>1, <1>7 DEF vars, clientVars, pastVars
<1>8. CASE Next
  BY <1>2, <1>3, <1>4, <1>5, <1>6, <1>8, CloseMoves, SubscribeMoves, UnsubscribeMoves DEF Next
<1>. QED
  BY <1>7, <1>8

\* Only the arrival of the page range ends buffering.
LEMMA NextSyncs ==
  ASSUME IInv, [Next]_vars, NEW s \in Sessions, NEW k \in Keys, Has(s, k)', ~Sub(s, k)'.buffering
  PROVE  \/ Has(s, k) /\ ~Sub(s, k).buffering
         \/ \E t \in Attempts : task[t].stage = "range" /\ task[t].s = s /\ task[t].k = k /\ Has(s, k)
<1> SUFFICES ASSUME ~(Has(s, k) /\ ~Sub(s, k).buffering)
             PROVE  \E t \in Attempts : task[t].stage = "range" /\ task[t].s = s /\ task[t].k = k /\ Has(s, k)
  OBVIOUS
<1>0. DOMAIN subStates = Sessions /\ IsMap(subStates[s], Keys, SubState)
  BY DEF IInv, ClientTypeOK
<1>1. subStates'[s] # subStates[s]
  BY DEF Has, Sub
<1>2. ASSUME NEW x \in Keys, NEW l, Deliver(x, l) PROVE FALSE
  <2>1. \A r \in Sessions : \/ subStates'[r] = subStates[r]
                            \/ Has(r, x) /\ subStates'[r] = [subStates[r] EXCEPT ![x].buffer = @ \cup {l}]
                            \/ Has(r, x) /\ subStates'[r] = [subStates[r] EXCEPT ![x].cursorLsn = l]
    BY <1>2 DEF Deliver
  <2>2. Has(s, x) /\ (\/ subStates'[s] = [subStates[s] EXCEPT ![x].buffer = @ \cup {l}]
                      \/ subStates'[s] = [subStates[s] EXCEPT ![x].cursorLsn = l])
    BY <1>1, <2>1
  <2>3. Has(s, k) /\ Sub(s, k) \in SubState
    BY <1>0, <2>2 DEF Has, Sub, IsMap
  <2>4. Sub(s, k)'.buffering = Sub(s, k).buffering
    BY <2>2, <2>3 DEF Has, Sub, SubState
  <2>. QED
    BY <2>3, <2>4
<1>3. ASSUME NEW t \in Attempts, NEW r \in Sessions, NEW x \in Keys, Subscribe(t, r, x) PROVE FALSE
  <2>1. PICK new : subStates' = [subStates EXCEPT ![r] = Put(@, x, new)] /\ new.buffering = TRUE
    <3>1. PICK resume \in 0..wal : Fence(t, r, x, resume)
      BY <1>3 DEF Subscribe, pastVars
    <3> DEFINE sub == [cursorLsn |-> Larger(resume, lastSeen), buffering |-> TRUE, buffer |-> {}]
    <3>2. subStates' = [subStates EXCEPT ![r] = Put(@, x, sub)] /\ sub.buffering = TRUE
      BY <3>1 DEF Fence, Register
    <3>. QED
      BY <3>2
  <2>2. r = s
    BY <1>0, <1>1, <2>1
  <2>3. k # x
    BY <1>0, <2>1, <2>2 DEF Sub, Put
  <2>. QED
    BY <1>0, <2>1, <2>2, <2>3 DEF Has, Sub, Put
<1>4. ASSUME NEW r \in Sessions, Close(r) PROVE FALSE
  BY <1>0, <1>1, <1>4 DEF Close, Has, NoEntries, pastVars
<1>5. ASSUME NEW r \in Sessions, NEW x \in Keys, Unsubscribe(r, x) PROVE FALSE
  <2>1. r = s /\ subStates'[s] = Drop(subStates[s], x)
    BY <1>0, <1>1, <1>5 DEF Unsubscribe, pastVars
  <2>. QED
    BY <2>1 DEF Has, Sub, Drop, Restrict
<1>6. ASSUME NEW t \in Attempts, ReplayArrives(t) PROVE FALSE
  <2>1. PICK l, x : x \in DOMAIN subStates[s] /\ subStates'[s] = [subStates[s] EXCEPT ![x].cursorLsn = l]
    <3>1. PICK l : /\ Has(task[t].s, task[t].k)
                   /\ subStates' = [subStates EXCEPT ![task[t].s][task[t].k].cursorLsn = l]
      BY <1>1, <1>6 DEF ReplayArrives, pastVars
    <3>2. task[t].s = s
      BY <1>0, <1>1, <3>1
    <3>. QED
      BY <1>0, <3>1, <3>2 DEF Has
  <2>2. Has(s, k) /\ Sub(s, k) \in SubState
    BY <1>0, <2>1 DEF Has, Sub, IsMap
  <2>3. Sub(s, k)'.buffering = Sub(s, k).buffering
    BY <2>1, <2>2 DEF Has, Sub, SubState
  <2>. QED
    BY <2>2, <2>3
<1>7. ASSUME NEW t \in Attempts, RangeArrives(t)
      PROVE  task[t].stage = "range" /\ task[t].s = s /\ task[t].k = k /\ Has(s, k)
  <2>1. PICK sub : /\ Has(task[t].s, task[t].k)
                   /\ subStates' = [subStates EXCEPT ![task[t].s][task[t].k] = sub]
    BY <1>1, <1>7 DEF RangeArrives, pastVars
  <2>2. task[t].s = s /\ subStates'[s] = [subStates[s] EXCEPT ![task[t].k] = sub]
    BY <1>0, <1>1, <2>1
  <2>3. task[t].k = k
    BY <2>2 DEF Has, Sub
  <2>. QED
    BY <1>7, <2>1, <2>2, <2>3 DEF RangeArrives, pastVars
<1>8. ~(UNCHANGED subStates)
  BY <1>1
<1>9. CASE UNCHANGED vars
  BY <1>8, <1>9 DEF vars, clientVars, pastVars
<1>10. CASE Next
  <2>1. ~(\E ks \in (SUBSET Keys) \ {{}} : Commit(ks))
    BY <1>8 DEF Commit, clientVars, pastVars
  <2>2. ~(\E x \in Keys : Rewind(x) \/ ConsumeDiff(x) \/ ConsumeRow(x))
    BY <1>2, <1>8 DEF Rewind, ConsumeDiff, ConsumeRow, clientVars, pastVars
  <2>3. ~(\E r \in Sessions : OpenSession(r) \/ Drain(r) \/ Close(r))
    BY <1>4, <1>8 DEF OpenSession, Drain, clientVars, pastVars
  <2>4. \E t \in Attempts : Settle(t)
    BY <1>3, <1>5, <1>10, <2>1, <2>2, <2>3 DEF Next
  <2>5. \E t \in Attempts : RangeArrives(t)
    BY <1>6, <1>8, <2>4 DEF Settle, SnapshotArrives, SnapshotFails, clientVars, pastVars
  <2>. QED
    BY <1>7, <2>5
<1>. QED
  BY <1>9, <1>10

\* A session is opened once and stays closed.
LEMMA NextConn ==
  ASSUME IInv, [Next]_vars, NEW s \in Sessions
  PROVE  /\ conn[s] # "new" => conn'[s] # "new"
         /\ conn[s] = "closed" => conn'[s] = "closed"
<1>1. \/ UNCHANGED conn
      \/ \E r \in Sessions : conn[r] = "new" /\ conn' = [conn EXCEPT ![r] = "open"]
      \/ \E r \in Sessions : conn[r] = "open" /\ conn' = [conn EXCEPT ![r] = "closed"]
  <2>1. CASE UNCHANGED vars
    BY <2>1 DEF vars, clientVars, pastVars
  <2>2. CASE \E ks \in (SUBSET Keys) \ {{}} : Commit(ks)
    BY <2>2 DEF Commit, clientVars, pastVars
  <2>3. CASE \E k \in Keys : Rewind(k) \/ ConsumeDiff(k) \/ ConsumeRow(k)
    BY <2>3 DEF Rewind, ConsumeDiff, ConsumeRow, clientVars, pastVars
  <2>4. CASE \E r \in Sessions : OpenSession(r) \/ Drain(r) \/ Close(r)
    BY <2>4 DEF OpenSession, Drain, Close, clientVars, Open, pastVars
  <2>5. CASE \E t \in Attempts, r \in Sessions, k \in Keys : Subscribe(t, r, k)
    BY <2>5 DEF Subscribe, pastVars
  <2>6. CASE \E t \in Attempts : Settle(t)
    BY <2>6, Zenon DEF Settle, SnapshotArrives, SnapshotFails, RangeArrives, ReplayArrives, clientVars, pastVars
  <2>7. CASE \E r \in Sessions, k \in Keys : Unsubscribe(r, k)
    BY <2>7 DEF Unsubscribe, pastVars
  <2>. QED
    BY <2>1, <2>2, <2>3, <2>4, <2>5, <2>6, <2>7 DEF Next
<1>2. conn \in [Sessions -> {"new", "open", "closed"}]
  BY DEF IInv, ClientTypeOK
<1>. QED
  BY <1>1, <1>2

\* A task changes when it subscribes or settles.
LEMMA NextTasks ==
  ASSUME IInv, [Next]_vars, NEW t \in Attempts, task'[t] # task[t]
  PROVE  \/ \E s \in Sessions, k \in Keys : Subscribe(t, s, k)
         \/ Settle(t)
<1>0. task \in [Attempts -> Task \cup {Idle}]
  BY DEF IInv, ClientTypeOK
<1>1. ASSUME NEW u \in Attempts, NEW s \in Sessions, NEW k \in Keys, Subscribe(u, s, k) PROVE u = t
  BY <1>0, <1>1 DEF Subscribe, Fence, Register, pastVars
<1>2. ASSUME NEW u \in Attempts, Settle(u) PROVE u = t
  <2>1. SnapshotArrives(u) \/ SnapshotFails(u) \/ RangeArrives(u) \/ ReplayArrives(u)
    BY <1>2 DEF Settle
  <2>2. \E new : task' = [task EXCEPT ![u] = new]
    <3>1. CASE SnapshotArrives(u)
      BY <3>1 DEF SnapshotArrives, pastVars
    <3>2. CASE SnapshotFails(u)
      BY <3>2 DEF SnapshotFails, pastVars
    <3>3. CASE RangeArrives(u)
      BY <3>3 DEF RangeArrives, pastVars
    <3>4. CASE ReplayArrives(u)
      BY <3>4 DEF ReplayArrives, pastVars
    <3>. QED
      BY <2>1, <3>1, <3>2, <3>3, <3>4
  <2>. QED
    BY <1>0, <2>2
<1>3. ~(UNCHANGED task)
  OBVIOUS
<1>4. CASE UNCHANGED vars
  BY <1>3, <1>4 DEF vars, pastVars
<1>5. CASE Next
  <2>1. ~(\E ks \in (SUBSET Keys) \ {{}} : Commit(ks))
    BY <1>3 DEF Commit, pastVars
  <2>2. ~(\E x \in Keys : Rewind(x) \/ ConsumeDiff(x) \/ ConsumeRow(x))
    BY <1>3 DEF Rewind, ConsumeDiff, ConsumeRow, pastVars
  <2>3. ~(\E r \in Sessions : OpenSession(r) \/ Drain(r) \/ Close(r))
    BY <1>3 DEF OpenSession, Drain, Close, pastVars
  <2>4. ~(\E r \in Sessions, x \in Keys : Unsubscribe(r, x))
    BY <1>3 DEF Unsubscribe, pastVars
  <2>. QED
    BY <1>1, <1>2, <1>5, <2>1, <2>2, <2>3, <2>4 DEF Next
<1>. QED
  BY <1>4, <1>5

\* The places of two sequences in their concatenation.
LEMMA Appended ==
  ASSUME NEW S, NEW p \in Seq(S), NEW q \in Seq(S)
  PROVE  /\ Len(p) \in Nat /\ Len(q) \in Nat
         /\ DOMAIN p = 1..Len(p) /\ DOMAIN q = 1..Len(q)
         /\ DOMAIN (p \o q) = 1..(Len(p) + Len(q))
         /\ \A i \in 1..Len(p) : (p \o q)[i] = p[i]
         /\ \A i \in 1..Len(q) : (p \o q)[Len(p) + i] = q[i]
<1>1. Len(p) \in Nat /\ Len(q) \in Nat /\ DOMAIN p = 1..Len(p) /\ DOMAIN q = 1..Len(q)
  BY LenProperties
<1>2. p \o q \in Seq(S) /\ Len(p \o q) = Len(p) + Len(q)
  BY ConcatProperties
<1>3. DOMAIN (p \o q) = 1..(Len(p) + Len(q))
  BY <1>2, LenProperties
<1>4. ASSUME NEW i \in 1..(Len(p) + Len(q))
      PROVE  (p \o q)[i] = IF i <= Len(p) THEN p[i] ELSE q[i - Len(p)]
  BY ConcatProperties
<1>5. ASSUME NEW i \in 1..Len(p) PROVE (p \o q)[i] = p[i]
  <2>1. i \in 1..(Len(p) + Len(q)) /\ i <= Len(p)
    BY <1>1
  <2>. QED
    BY <1>4, <2>1
<1>6. ASSUME NEW i \in 1..Len(q) PROVE (p \o q)[Len(p) + i] = q[i]
  <2> DEFINE j == Len(p) + i
  <2>1. j \in 1..(Len(p) + Len(q)) /\ ~(j <= Len(p)) /\ j - Len(p) = i
    BY <1>1
  <2> HIDE DEF j
  <2>2. (p \o q)[j] = q[i]
    BY <1>4, <2>1
  <2>. QED
    BY <2>2 DEF j
<1>. QED
  BY <1>1, <1>3, <1>5, <1>6

\* The frames a step adds come after those already on the wire.
LEMMA AddedFrames ==
  ASSUME IInv, NEW add, Adds(add), NEW s \in Sessions
  PROVE  /\ Len(wire[s]) \in Nat /\ Len(add[s]) \in Nat
         /\ DOMAIN wire[s] = 1..Len(wire[s]) /\ DOMAIN add[s] = 1..Len(add[s])
         /\ DOMAIN wire'[s] = 1..(Len(wire[s]) + Len(add[s]))
         /\ \A i \in 1..Len(wire[s]) : wire'[s][i] = wire[s][i]
         /\ \A i \in 1..Len(add[s]) : wire'[s][Len(wire[s]) + i] = add[s][i]
<1>1. wire[s] \in Seq(Frame) /\ add[s] \in Seq(Frame) /\ wire'[s] = wire[s] \o add[s]
  BY FrameTypes DEF SendState, Adds
<1> DEFINE old == wire[s]
           new == add[s]
<1>2. old \in Seq(Frame) /\ new \in Seq(Frame) /\ wire'[s] = old \o new
  BY <1>1
<1> SUFFICES /\ Len(old) \in Nat /\ Len(new) \in Nat
             /\ DOMAIN old = 1..Len(old) /\ DOMAIN new = 1..Len(new)
             /\ DOMAIN (old \o new) = 1..(Len(old) + Len(new))
             /\ \A i \in 1..Len(old) : (old \o new)[i] = old[i]
             /\ \A i \in 1..Len(new) : (old \o new)[Len(old) + i] = new[i]
  BY <1>1
<1> HIDE DEF old, new
<1>. QED
  BY <1>2, Appended

\* A snapshot that was sent stays sent.
LEMMA SnappedKept ==
  ASSUME IInv, NEW add, Adds(add), NEW s \in Sessions, NEW k \in Keys, Snapped(s, k)
  PROVE  Snapped(s, k)'
<1>1. PICK i \in DOMAIN wire[s] : IsSnapshot(wire[s][i], k)
  BY DEF Snapped
<1>2. i \in DOMAIN wire'[s] /\ wire'[s][i] = wire[s][i]
  <2>1. i \in 1..Len(wire[s]) /\ i \in 1..(Len(wire[s]) + Len(add[s]))
    <3>1. /\ Len(wire[s]) \in Nat /\ Len(add[s]) \in Nat
          /\ i \in 1..Len(wire[s])
      BY <1>1, AddedFrames
    <3>2. \A m, n \in Nat : 1..m \subseteq 1..(m + n)
      OBVIOUS
    <3>. QED
      BY <3>1, <3>2
  <2>. QED
    BY <2>1, AddedFrames
<1>. QED
  BY <1>1, <1>2 DEF Snapped, IsSnapshot

\* A snapshot that arrives for an open session is sent.
LEMMA SnapshotSent ==
  ASSUME Refusals = FALSE, IInv, QueuesEmpty, NEW t \in Attempts, SnapshotArrives(t),
         NEW s \in Open, s = task[t].s, NEW k \in Keys, k = task[t].k
  PROVE  Snapped(s, k)'
<1>1. PICK at \in task[t].asked..wal : SafeSend(s, <<FrameOf("snapshot", k, at)>>)
  BY DEF SnapshotArrives, pastVars
<1> DEFINE f == FrameOf("snapshot", k, at)
<1>2. at \in Nat
  <2>1. task[t] \in Task
    BY DEF SnapshotArrives, IInv, ClientTypeOK, Idle, pastVars
  <2>. QED
    BY <2>1 DEF Task, IInv, CdcTypeOK
<1>3. f \in Frame /\ IsSnapshot(f, k) /\ f.op = "snapshot"
  BY <1>2, FramesSent DEF FrameOf, IsSnapshot
<1>4. SafeSend(s, <<f>>) /\ s \in Sessions
  BY <1>1 DEF Open
<1> HIDE DEF f
<1>5. <<f>> \in Seq(Frame)
  BY <1>3
<1>6. Recorded(To(s, <<f>>))[s] = <<f>>
  <2>1. IsData(<<f>>)
    BY <1>3 DEF IsData, DataOps
  <2>. QED
    BY <1>4, <2>1 DEF Recorded, To
<1>7. PICK add : Adds(add) /\ add[s] = <<f>>
  BY <1>4, <1>5, <1>6, SafeSendAll
<1>8. Len(add[s]) = 1 /\ add[s][1] = f
  BY <1>7
<1>9. Len(wire[s]) + 1 \in DOMAIN wire'[s] /\ wire'[s][Len(wire[s]) + 1] = f
  <2>1. /\ Len(wire[s]) \in Nat
        /\ DOMAIN wire'[s] = 1..(Len(wire[s]) + 1)
        /\ wire'[s][Len(wire[s]) + 1] = f
    <3>1. 1 \in 1..Len(add[s])
      BY <1>8
    <3>2. /\ Len(wire[s]) \in Nat
          /\ DOMAIN wire'[s] = 1..(Len(wire[s]) + Len(add[s]))
          /\ \A i \in 1..Len(add[s]) : wire'[s][Len(wire[s]) + i] = add[s][i]
      BY <1>4, <1>7, AddedFrames
    <3>3. wire'[s][Len(wire[s]) + 1] = f
      BY <1>8, <3>1, <3>2
    <3>. QED
      BY <1>8, <3>2, <3>3
  <2>. QED
    BY <2>1
<1>. QED
  BY <1>3, <1>9 DEF Snapped, IsSnapshot

\* What a step of an execution of handleSubscribe does to it.
LEMMA SettleTask ==
  ASSUME IInv, NEW t \in Attempts, Settle(t)
  PROVE  /\ task[t] # Idle /\ conn' = conn
         /\ task'[t].s = task[t].s /\ task'[t].k = task[t].k
         /\ task'[t].sent = task[t].sent /\ task'[t].fence = task[t].fence
         /\ HasSnapshot(t)' => HasSnapshot(t) \/ SnapshotArrives(t)
<1>1. task \in [Attempts -> Task \cup {Idle}]
  BY DEF IInv, ClientTypeOK
<1>2. CASE SnapshotArrives(t)
  <2>1. PICK at : task' = [task EXCEPT ![t].stage = "range", ![t].snap = at]
    BY <1>2 DEF SnapshotArrives, pastVars
  <2>2. task[t] \in Task
    BY <1>1, <1>2 DEF SnapshotArrives, Idle, pastVars
  <2>. QED
    BY <1>1, <1>2, <2>1, <2>2 DEF SnapshotArrives, Task, Idle, clientVars, pastVars
<1>3. CASE SnapshotFails(t)
  <2>1. task[t] \in Task
    BY <1>1, <1>3 DEF SnapshotFails, Idle, pastVars
  <2>. QED
    BY <1>1, <1>3, <2>1 DEF SnapshotFails, Task, Idle, clientVars, HasSnapshot, pastVars
<1>4. CASE RangeArrives(t)
  <2>1. task[t] \in Task /\ HasSnapshot(t) /\ conn' = conn
    BY <1>1, <1>4 DEF RangeArrives, Idle, HasSnapshot, pastVars
  <2>2. ASSUME NEW since, NEW floor,
               task' = [task EXCEPT ![t].stage = "replay", ![t].since = since, ![t].floor = floor]
        PROVE  /\ task'[t].s = task[t].s /\ task'[t].k = task[t].k
               /\ task'[t].sent = task[t].sent /\ task'[t].fence = task[t].fence
    BY <1>1, <2>1, <2>2 DEF Task
  <2>3. ASSUME task' = [task EXCEPT ![t].stage = "replay"]
        PROVE  /\ task'[t].s = task[t].s /\ task'[t].k = task[t].k
               /\ task'[t].sent = task[t].sent /\ task'[t].fence = task[t].fence
    BY <1>1, <2>1, <2>3 DEF Task
  <2>4. /\ task'[t].s = task[t].s /\ task'[t].k = task[t].k
        /\ task'[t].sent = task[t].sent /\ task'[t].fence = task[t].fence
    BY <1>4, <2>2, <2>3 DEF RangeArrives, pastVars
  <2>. QED
    BY <1>4, <2>1, <2>4 DEF RangeArrives, Idle, pastVars
<1>5. CASE ReplayArrives(t)
  <2>1. task' = [task EXCEPT ![t].stage = "done"] /\ conn' = conn
    BY <1>5 DEF ReplayArrives, pastVars
  <2>2. task[t] \in Task /\ HasSnapshot(t)
    BY <1>1, <1>5 DEF ReplayArrives, Idle, HasSnapshot, pastVars
  <2>. QED
    BY <1>1, <2>1, <2>2 DEF Task, Idle
<1>. QED
  BY <1>2, <1>3, <1>4, <1>5 DEF Settle

\* Sources is kept: snapshots are sent before tasks go on and subscriptions live.
LEMMA SourcesStep ==
  ASSUME Refusals = FALSE, IInv, OrderInv, RegistryConsistent, [Next]_vars
  PROVE  Sources'
<1>1. PICK add : Adds(add)
  BY NextInOrder DEF SendsInOrder
<1>2. Sources /\ QueuesEmpty
  BY DEF OrderInv
<1>3. task \in [Attempts -> Task \cup {Idle}] /\ conn \in [Sessions -> {"new", "open", "closed"}]
  BY DEF IInv, ClientTypeOK
<1>4. \A t \in Attempts : task[t] # Idle => task[t].s \in Sessions /\ task[t].k \in Keys
  BY <1>3 DEF Task
<1>5. ASSUME NEW t \in Attempts, task'[t] = task[t]
      PROVE  /\ task'[t] # Idle => conn'[task'[t].s] # "new"
             /\ HasSnapshot(t)' => conn'[task'[t].s] = "closed" \/ Snapped(task[t].s, task[t].k)'
  <2>1. CASE task[t] = Idle
    BY <1>5, <2>1 DEF HasSnapshot, Idle
  <2>2. CASE task[t] # Idle
    <3>1. PICK s \in Sessions, k \in Keys : s = task[t].s /\ k = task[t].k
      BY <1>4, <2>2
    <3>2. conn[s] # "new" /\ (HasSnapshot(t) => conn[s] = "closed" \/ Snapped(s, k))
      BY <1>2, <2>2, <3>1 DEF Sources
    <3>3. conn'[s] # "new" /\ (HasSnapshot(t) => conn'[s] = "closed" \/ Snapped(s, k)')
      BY <1>1, <3>2, NextConn, SnappedKept
    <3>4. HasSnapshot(t)' = HasSnapshot(t)
      BY <1>5 DEF HasSnapshot
    <3>. QED
      BY <1>5, <3>1, <3>3, <3>4 DEF Snapped
  <2>. QED
    BY <2>1, <2>2
<1>6. ASSUME NEW t \in Attempts, NEW s \in Sessions, NEW k \in Keys, Subscribe(t, s, k)
      PROVE  conn'[task'[t].s] # "new" /\ ~HasSnapshot(t)'
  <2>1. task'[t].s = s /\ task'[t].stage = "snapshot"
    BY <1>3, <1>6 DEF Subscribe, Fence, Register, pastVars
  <2>. QED
    BY <1>6, <2>1 DEF Subscribe, Open, HasSnapshot, pastVars
<1>7. ASSUME NEW t \in Attempts, Settle(t)
      PROVE  /\ conn'[task'[t].s] # "new"
             /\ HasSnapshot(t)' => conn'[task'[t].s] = "closed" \/ Snapped(task[t].s, task[t].k)'
  <2>1. PICK s \in Sessions, k \in Keys : s = task[t].s /\ k = task[t].k
    BY <1>4, <1>7, SettleTask
  <2>2. /\ task'[t].s = s /\ task'[t].k = k /\ conn' = conn /\ task[t] # Idle
        /\ HasSnapshot(t)' => HasSnapshot(t) \/ SnapshotArrives(t)
    BY <1>7, <2>1, SettleTask
  <2>3. conn[s] # "new" /\ (HasSnapshot(t) => conn[s] = "closed" \/ Snapped(s, k))
    BY <1>2, <2>1, <2>2 DEF Sources
  <2>4. HasSnapshot(t) => conn[s] = "closed" \/ Snapped(s, k)'
    BY <1>1, <2>3, SnappedKept
  <2>5. SnapshotArrives(t) => conn[s] = "closed" \/ Snapped(s, k)'
    <3>1. conn[s] = "closed" \/ s \in Open
      BY <1>3, <2>3 DEF Open
    <3>. QED
      BY <1>2, <2>1, <3>1, SnapshotSent
  <2>. QED
    BY <2>1, <2>2, <2>3, <2>4, <2>5 DEF Snapped
<1>8. ASSUME NEW s \in Sessions, NEW k \in Keys, Has(s, k)', ~Sub(s, k)'.buffering
      PROVE  Snapped(s, k)'
  <2>1. CASE Has(s, k) /\ ~Sub(s, k).buffering
    BY <1>1, <1>2, <2>1, SnappedKept DEF Sources
  <2>2. ASSUME NEW t \in Attempts, task[t].stage = "range", task[t].s = s, task[t].k = k, Has(s, k)
        PROVE  Snapped(s, k)'
    <3>1. conn[s] = "open"
      BY <2>2 DEF RegistryConsistent, Has, Open
    <3>2. Snapped(s, k)
      BY <1>2, <2>2, <3>1 DEF Sources, HasSnapshot
    <3>. QED
      BY <1>1, <3>2, SnappedKept
  <2>. QED
    BY <1>8, <2>1, <2>2, NextSyncs
<1>9. ASSUME NEW t \in Attempts
      PROVE  /\ task'[t] # Idle => conn'[task'[t].s] # "new"
             /\ HasSnapshot(t)' => conn'[task'[t].s] = "closed" \/ Snapped(task[t].s, task[t].k)'
  BY <1>5, <1>6, <1>7, NextTasks
<1>. QED
  BY <1>8, <1>9 DEF Sources
-----------------------------------------------------------------------------
(* Snapshots come first, and the cursors pass every diff sent               *)

\* A diff is added behind a snapshot.
LEMMA FirstStep ==
  ASSUME IInv, SnapshotFirst, SendsInOrder
  PROVE  SnapshotFirst'
<1>1. PICK add : Adds(add) /\ DiffsFollow(add)
  BY DEF SendsInOrder
<1> SUFFICES ASSUME NEW s \in Sessions, NEW k \in Keys, NEW j \in DOMAIN wire'[s], IsDiff(wire'[s][j], k)
             PROVE  \E i \in 1..(j - 1) : IsSnapshot(wire'[s][i], k)
  BY DEF SnapshotFirst, IsDiff, IsSnapshot
<1> DEFINE m == Len(wire[s])
           n == Len(add[s])
<1>2. /\ m \in Nat /\ n \in Nat
      /\ DOMAIN wire[s] = 1..m /\ DOMAIN add[s] = 1..n /\ DOMAIN wire'[s] = 1..(m + n)
      /\ \A i \in 1..m : wire'[s][i] = wire[s][i]
      /\ \A i \in 1..n : wire'[s][m + i] = add[s][i]
  BY <1>1, AddedFrames
<1> HIDE DEF m, n
<1>3. \E i \in 1..m : i <= j - 1 /\ IsSnapshot(wire[s][i], k)
  <2>1. CASE j <= m
    <3>1. j \in DOMAIN wire[s] /\ IsDiff(wire[s][j], k)
      BY <1>2, <2>1
    <3>2. PICK i \in 1..(j - 1) : IsSnapshot(wire[s][i], k)
      BY <3>1 DEF SnapshotFirst
    <3>. QED
      BY <1>2, <2>1, <3>2
  <2>2. CASE ~(j <= m)
    <3>1. j - m \in 1..n /\ m + (j - m) = j
      BY <1>2, <2>2
    <3>2. j - m \in DOMAIN add[s] /\ IsDiff(add[s][j - m], k)
      BY <1>2, <3>1
    <3>3. Snapped(s, k)
      BY <1>1, <3>2 DEF DiffsFollow
    <3>4. PICK i \in 1..m : IsSnapshot(wire[s][i], k)
      BY <1>2, <3>3 DEF Snapped
    <3>. QED
      BY <1>2, <2>2, <3>4
  <2>. QED
    BY <2>1, <2>2
<1>4. PICK i \in 1..m : i <= j - 1 /\ IsSnapshot(wire[s][i], k)
  BY <1>3
<1>5. i \in 1..(j - 1) /\ wire'[s][i] = wire[s][i]
  BY <1>2, <1>4
<1>. QED
  BY <1>4, <1>5

\* Every cursor is a number.
LEMMA CursorType ==
  ASSUME IInv, NEW s \in Sessions, NEW k \in Keys, Has(s, k)
  PROVE  Sub(s, k).cursorLsn \in Nat
BY DEF IInv, ClientTypeOK, IsMap, Has, Sub, SubState

\* Who asked again once has asked again for good.
LEMMA AskedKept ==
  ASSUME IInv, [Next]_vars, NEW s \in Sessions, NEW k \in Keys, NEW i,
         AskedAgain(s, k, i), wire'[s][i] = wire[s][i]
  PROVE  AskedAgain(s, k, i)'
<1>1. PICK t \in Attempts :
        /\ task[t] # Idle /\ task[t].s = s /\ task[t].k = k /\ i <= task[t].sent
        /\ task[t].fence < wire[s][i].lsn /\ wire[s][i].lsn \in found[k]
  BY DEF AskedAgain
<1>2. /\ task'[t].s = task[t].s /\ task'[t].k = task[t].k
      /\ task'[t].sent = task[t].sent /\ task'[t].fence = task[t].fence
  <2>1. CASE task'[t] = task[t]
    BY <2>1
  <2>2. CASE Settle(t)
    BY <2>2, SettleTask
  <2>3. ~(\E r \in Sessions, x \in Keys : Subscribe(t, r, x))
    BY <1>1 DEF Subscribe
  <2>. QED
    BY <2>1, <2>2, <2>3, NextTasks
<1>3. task'[t] # Idle
  <2>1. CASE task'[t] = task[t]
    BY <1>1, <2>1
  <2>2. CASE Settle(t)
    <3>1. task[t] # Idle /\ task \in [Attempts -> Task \cup {Idle}]
      BY <2>2, SettleTask DEF IInv, ClientTypeOK
    <3>. QED
      BY <2>2, <3>1 DEF Settle, SnapshotArrives, SnapshotFails, RangeArrives, ReplayArrives, Idle, Task
  <2>3. ~(\E r \in Sessions, x \in Keys : Subscribe(t, r, x))
    BY <1>1 DEF Subscribe
  <2>. QED
    BY <2>1, <2>2, <2>3, NextTasks
<1>4. found' = found
  BY PastFound
<1>. QED
  BY <1>1, <1>2, <1>3, <1>4 DEF AskedAgain

\* A diff sent before a subscription is below its fence, or one of an earlier
\* process that is now asked for again.
LEMMA FencePasses ==
  ASSUME IInv, [Next]_vars, NEW t \in Attempts, NEW s \in Sessions, NEW k \in Keys,
         Subscribe(t, s, k),
         NEW i \in DOMAIN wire[s], IsDiff(wire[s][i], k), wire'[s][i] = wire[s][i]
  PROVE  wire[s][i].lsn <= Sub(s, k)'.cursorLsn \/ AskedAgain(s, k, i)'
<1>1. PICK resume \in 0..wal : Fence(t, s, k, resume)
  BY DEF Subscribe
<1> DEFINE fence == Larger(resume, lastSeen)
<1>2. /\ task'[t] = [stage |-> "snapshot", s |-> s, k |-> k, fence |-> fence,
                     sent |-> Len(wire[s]), asked |-> wal, snap |-> 0, since |-> 0, floor |-> 0]
      /\ Sub(s, k)'.cursorLsn = fence
  BY <1>1 DEF Fence, Register, Put, Sub, IInv, ClientTypeOK
<1>3. fence \in Nat /\ fence >= lastSeen /\ lastSeen \in Nat
  BY DEF Larger, IInv, CdcTypeOK
<1> HIDE DEF fence
<1>4. /\ task'[t] # Idle /\ task'[t].s = s /\ task'[t].k = k
      /\ task'[t].sent = Len(wire[s]) /\ task'[t].fence = fence
  BY <1>2 DEF Idle
<1>5. i \in 1..Len(wire[s]) /\ wire[s][i] \in PastFrames(lastSeen, found) /\ Len(wire[s]) \in Nat
  <2>1. wire[s] \in Seq(PastFrames(lastSeen, found))
    BY DEF IInv, SendState
  <2>. QED
    BY <2>1, LenProperties, ElementOfSeq
<1>6. wire[s][i].lsn \in Nat /\ (wire[s][i].lsn <= lastSeen \/ wire[s][i].lsn \in found[k])
  BY <1>5 DEF PastFrames, Known, Frame, IsDiff
<1>7. found' = found
  BY PastFound
<1>8. CASE wire[s][i].lsn <= fence
  BY <1>2, <1>8
<1>9. CASE ~(wire[s][i].lsn <= fence)
  <2>1. wire[s][i].lsn \in found[k] /\ fence < wire[s][i].lsn /\ i <= Len(wire[s])
    BY <1>3, <1>5, <1>6, <1>9
  <2>. QED
    BY <1>4, <1>7, <2>1 DEF AskedAgain
<1>. QED
  BY <1>8, <1>9

\* A cursor moves past the diffs sent, and starts above those sent before.
LEMMA PassedStep ==
  ASSUME IInv, IInv', [Next]_vars, Passed, SendsInOrder,
         \A s \in Sessions, k \in Keys : FeedMoves(s, k)
  PROVE  Passed'
<1>1. PICK add : Adds(add) /\ DiffsFollow(add)
  BY DEF SendsInOrder
<1> SUFFICES ASSUME NEW s \in Sessions, NEW k \in Keys, Has(s, k)',
                    NEW i \in DOMAIN wire'[s], IsDiff(wire'[s][i], k)
             PROVE  wire'[s][i].lsn <= Sub(s, k)'.cursorLsn \/ AskedAgain(s, k, i)'
  BY DEF Passed, IsDiff
<1> DEFINE m == Len(wire[s])
           n == Len(add[s])
           cursor == Sub(s, k)'.cursorLsn
<1>2. /\ m \in Nat /\ n \in Nat
      /\ DOMAIN wire[s] = 1..m /\ DOMAIN add[s] = 1..n /\ DOMAIN wire'[s] = 1..(m + n)
      /\ \A o \in 1..m : wire'[s][o] = wire[s][o]
      /\ \A o \in 1..n : wire'[s][m + o] = add[s][o]
  BY <1>1, AddedFrames
<1>3. cursor \in Nat
  BY DEF IInv, ClientTypeOK, IsMap, Has, Sub, SubState
<1> HIDE DEF m, n, cursor
<1>4. CASE i <= m
  <2>1. i \in DOMAIN wire[s] /\ wire'[s][i] = wire[s][i] /\ IsDiff(wire[s][i], k)
    BY <1>2, <1>4
  <2>2. CASE Begun(s, k)
    BY <2>1, <2>2, FencePasses DEF Begun
  <2>3. CASE Synced(s, k) \/ Kept(s, k)
    <3>1. Has(s, k) /\ cursor >= Sub(s, k).cursorLsn
      <4>1. Has(s, k)
        BY <2>3 DEF Synced, Kept
      <4>2. Sub(s, k).cursorLsn \in Nat
        BY <4>1, CursorType
      <4>3. cursor = Sub(s, k).cursorLsn \/ cursor > Sub(s, k).cursorLsn \/ cursor >= Sub(s, k).cursorLsn
        BY <2>3, Zenon DEF Synced, Kept, cursor
      <4>. QED
        BY <1>3, <4>1, <4>2, <4>3
    <3>2. wire[s][i].lsn <= Sub(s, k).cursorLsn \/ AskedAgain(s, k, i)
      BY <2>1, <3>1 DEF Passed
    <3>3. CASE AskedAgain(s, k, i)
      BY <2>1, <3>3, AskedKept
    <3>4. wire[s][i].lsn \in Nat
      <4>1. wire[s] \in Seq(Frame)
        BY FrameTypes DEF SendState
      <4>2. wire[s][i] \in Frame
        BY <1>2, <2>1, <4>1, ElementOfSeq DEF m
      <4>. QED
        BY <2>1, <4>2 DEF Frame, IsDiff
    <3>5. CASE wire[s][i].lsn <= Sub(s, k).cursorLsn
      BY <1>3, <2>1, <3>1, <3>4, <3>5, CursorType DEF cursor
    <3>. QED
      BY <3>2, <3>3, <3>5
  <2>. QED
    BY <2>2, <2>3 DEF FeedMoves
<1>5. CASE ~(i <= m)
  <2>1. i - m \in 1..n /\ m + (i - m) = i
    BY <1>2, <1>5
  <2>2. i - m \in DOMAIN add[s] /\ add[s][i - m] = wire'[s][i]
    BY <1>2, <2>1
  <2>. QED
    BY <1>1, <2>2 DEF DiffsFollow
<1>. QED
  BY <1>4, <1>5

\* Nothing is sent and nobody subscribed at first.
LEMMA OrderInit ==
  ASSUME Init
  PROVE  OrderInv
BY EmptySeq DEF Init, OrderInv, QueuesEmpty, Sources, Passed, SnapshotFirst, Silence, NoEntries, Has,
     HasSnapshot, Idle

\* OrderInv is inductive relative to IInv and RegistryConsistent.
LEMMA OrderStep ==
  ASSUME Refusals = FALSE, IInv, IInv', RegistryConsistent, OrderInv, [Next]_vars
  PROVE  OrderInv'
<1>1. SendsInOrder
  BY NextInOrder
<1>2. QueuesEmpty'
  BY <1>1 DEF SendsInOrder
<1>3. Sources'
  BY SourcesStep
<1>4. Passed'
  BY <1>1, NextMoves, PassedStep DEF OrderInv
<1>5. SnapshotFirst'
  BY <1>1, FirstStep DEF OrderInv
<1>. QED
  BY <1>2, <1>3, <1>4, <1>5 DEF OrderInv

\* The diffs of a step come in order after those sent before.
LEMMA DiffsStep ==
  ASSUME IInv, Passed, SendsInOrder, NEW s \in Sessions, NEW k \in Keys, Has(s, k)
  PROVE  \A j \in DOMAIN wire'[s] \ DOMAIN wire[s] : IsDiff(wire'[s][j], k) =>
           \A i \in 1..(j - 1) : IsDiff(wire'[s][i], k) =>
             wire'[s][i].lsn < wire'[s][j].lsn \/ AskedAgain(s, k, i)
<1>1. PICK add : Adds(add) /\ DiffsFollow(add)
  BY DEF SendsInOrder
<1> DEFINE m == Len(wire[s])
           n == Len(add[s])
<1>2. /\ m \in Nat /\ n \in Nat
      /\ DOMAIN wire[s] = 1..m /\ DOMAIN add[s] = 1..n /\ DOMAIN wire'[s] = 1..(m + n)
      /\ \A o \in 1..m : wire'[s][o] = wire[s][o]
      /\ \A o \in 1..n : wire'[s][m + o] = add[s][o]
  BY <1>1, AddedFrames
<1> HIDE DEF m, n
<1> SUFFICES ASSUME NEW j \in DOMAIN wire'[s] \ DOMAIN wire[s], IsDiff(wire'[s][j], k),
                    NEW i \in 1..(j - 1), IsDiff(wire'[s][i], k)
             PROVE  wire'[s][i].lsn < wire'[s][j].lsn \/ AskedAgain(s, k, i)
  OBVIOUS
<1>3. j - m \in 1..n /\ m + (j - m) = j
  BY <1>2
<1>4. j - m \in DOMAIN add[s] /\ add[s][j - m] = wire'[s][j]
  BY <1>2, <1>3
<1>5. /\ Sub(s, k).cursorLsn < wire'[s][j].lsn
      /\ \A o \in DOMAIN add[s] : o < j - m /\ IsDiff(add[s][o], k) => add[s][o].lsn < wire'[s][j].lsn
  BY <1>1, <1>4 DEF DiffsFollow
<1>6. CASE i <= m
  <2>1. i \in DOMAIN wire[s] /\ wire'[s][i] = wire[s][i]
    BY <1>2, <1>6
  <2>2. wire'[s][i].lsn <= Sub(s, k).cursorLsn \/ AskedAgain(s, k, i)
    BY <2>1 DEF Passed
  <2>3. wire'[s][i].lsn \in Nat /\ wire'[s][j].lsn \in Nat
    <3>1. wire[s][i] \in Frame /\ add[s][j - m] \in Frame
      <4>1. wire[s] \in Seq(Frame) /\ add[s] \in Seq(Frame)
        BY <1>1, FrameTypes DEF SendState, Adds
      <4>. QED
        BY <1>2, <1>3, <2>1, <4>1, ElementOfSeq DEF m, n
    <3>. QED
      BY <1>4, <2>1, <3>1 DEF Frame, IsDiff
  <2>. QED
    BY <1>5, <2>2, <2>3, CursorType
<1>7. CASE ~(i <= m)
  <2>1. i - m \in 1..n /\ m + (i - m) = i /\ i - m < j - m
    BY <1>2, <1>3, <1>7
  <2>2. i - m \in DOMAIN add[s] /\ add[s][i - m] = wire'[s][i]
    BY <1>2, <2>1
  <2>. QED
    BY <1>5, <2>1, <2>2
<1>. QED
  BY <1>6, <1>7
-----------------------------------------------------------------------------
\* OrderInv holds while no socket refuses frames.
LEMMA OrderInvariant ==
  ASSUME Refusals = FALSE
  PROVE  Spec => []OrderInv
<1>1. Init => OrderInv
  BY OrderInit
<1>2. IInv /\ IInv' /\ RegistryConsistent /\ OrderInv /\ [Next]_vars => OrderInv'
  BY OrderStep
<1>. QED
  BY <1>1, <1>2, Invariant, RegistrySafe, PTL DEF Spec

(* While no socket refuses frames, a client that has been sent a diff of a  *)
(* query has been sent a snapshot of it before (delivery.ts 31-32), however *)
(* subscribes, closes and consumption interleave.                           *)
THEOREM SnapshotsFirst ==
  ASSUME Refusals = FALSE
  PROVE  Spec => []SnapshotFirst
<1>1. OrderInv => SnapshotFirst
  BY DEF OrderInv
<1>. QED
  BY <1>1, OrderInvariant, PTL

(* While no socket refuses frames, a diff that is sent to a subscriber is   *)
(* above each one sent to it before, by live delivery, replay from KeyDB    *)
(* and earlier subscriptions alike (lsn.ts 6-8), unless KeyDB kept that one *)
(* from an earlier process and the client has asked again with a fence      *)
(* below it.                                                                *)
THEOREM DiffsInOrder ==
  ASSUME Refusals = FALSE
  PROVE  Spec => DiffsAdvance
<1> DEFINE Advance ==
      \A s \in Sessions, k \in Keys : Has(s, k) =>
        \A j \in DOMAIN wire'[s] \ DOMAIN wire[s] : IsDiff(wire'[s][j], k) =>
          \A i \in 1..(j - 1) : IsDiff(wire'[s][i], k) =>
            wire'[s][i].lsn < wire'[s][j].lsn \/ AskedAgain(s, k, i)
<1>1. IInv /\ OrderInv /\ [Next]_vars => [Advance]_vars
  <2> SUFFICES ASSUME IInv, OrderInv, [Next]_vars PROVE Advance
    OBVIOUS
  <2>1. Passed /\ SendsInOrder
    BY NextInOrder DEF OrderInv
  <2>. QED
    BY <2>1, DiffsStep
<1>. QED
  BY <1>1, Invariant, OrderInvariant, PTL DEF Spec, DiffsAdvance
=============================================================================
