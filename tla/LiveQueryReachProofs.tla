------------------------ MODULE LiveQueryReachProofs ------------------------
(***************************************************************************)
(* No diff is lost on the way to a live subscriber, unless its queue       *)
(* overflowed: for sockets that refuse frames at any time, any number of   *)
(* sessions, keys and overlapping subscribes, any rewinds, and whatever    *)
(* KeyDB kept from earlier processes.  Every CDC message is taken to carry *)
(* its LSN.                                                                *)
(***************************************************************************)
EXTENDS LiveQueryOrderProofs
-----------------------------------------------------------------------------
(* Sequences                                                                *)

\* What enumerates a finite set of numbers misses none of them.
LEMMA AscendingOnto ==
  ASSUME NEW S, S \subseteq Nat, IsFiniteSet(S), NEW q \in Ascending(S)
  PROVE  \A x \in S : \E i \in 1..Len(q) : q[i] = x
<1> DEFINE D == 1..Cardinality(S)
<1>1. Cardinality(S) \in Nat
  BY FS_CardinalityType
<1>2. q \in [D -> S] /\ \A i, j \in D : i < j => q[i] < q[j]
  BY DEF Ascending
<1>3. ASSUME NEW a \in D, NEW b \in D, q[a] = q[b] PROVE a = b
  <2>1. q[a] \in Nat /\ q[b] \in Nat
    BY <1>2
  <2>2. a < b \/ b < a \/ a = b
    BY <1>1
  <2>3. ~(a < b) /\ ~(b < a)
    BY <1>2, <1>3, <2>1
  <2>. QED
    BY <2>2, <2>3
<1>4. q \in Injection(D, S)
  BY <1>2, <1>3 DEF Injection, IsInjective
<1>5. Cardinality(D) = Cardinality(S)
  BY <1>1, FS_Interval
<1>6. q \in Surjection(D, S)
  BY <1>4, <1>5, FS_Injection
<1>7. Len(q) = Cardinality(S)
  BY <1>1, <1>2, AscendingType
<1>. QED
  BY <1>6, <1>7 DEF Surjection

\* A concatenation holds what its parts hold.
LEMMA ConcatRange ==
  ASSUME NEW S, NEW p \in Seq(S), NEW q \in Seq(S)
  PROVE  Range(p \o q) = Range(p) \cup Range(q)
<1>1. /\ Len(p) \in Nat /\ Len(q) \in Nat
      /\ DOMAIN p = 1..Len(p) /\ DOMAIN q = 1..Len(q)
      /\ DOMAIN (p \o q) = 1..(Len(p) + Len(q))
      /\ \A i \in 1..Len(p) : (p \o q)[i] = p[i]
      /\ \A i \in 1..Len(q) : (p \o q)[Len(p) + i] = q[i]
  BY Appended
<1> DEFINE r == p \o q
           m == Len(p)
           n == Len(q)
<1> HIDE DEF r, m, n
<1>2. /\ m \in Nat /\ n \in Nat
      /\ DOMAIN p = 1..m /\ DOMAIN q = 1..n /\ DOMAIN r = 1..(m + n)
      /\ \A i \in 1..m : r[i] = p[i]
      /\ \A i \in 1..n : r[m + i] = q[i]
  BY <1>1 DEF r, m, n
<1>3. Range(p) \cup Range(q) \subseteq Range(r)
  <2>1. ASSUME NEW i \in 1..m PROVE p[i] \in Range(r)
    <3>1. i \in 1..(m + n)
      BY <1>2
    <3>. QED
      BY <1>2, <3>1 DEF Range
  <2>2. ASSUME NEW i \in 1..n PROVE q[i] \in Range(r)
    <3>1. m + i \in 1..(m + n)
      BY <1>2
    <3>. QED
      BY <1>2, <3>1 DEF Range
  <2>. QED
    BY <1>2, <2>1, <2>2 DEF Range
<1>4. ASSUME NEW i \in 1..(m + n) PROVE r[i] \in Range(p) \cup Range(q)
  <2>1. CASE i <= m
    <3>1. i \in 1..m
      BY <1>2, <2>1
    <3>. QED
      BY <1>2, <3>1 DEF Range
  <2>2. CASE ~(i <= m)
    <3>1. i - m \in 1..n /\ m + (i - m) = i
      BY <1>2, <2>2
    <3>2. r[i] = q[i - m]
      BY <1>2, <3>1
    <3>. QED
      BY <1>2, <3>1, <3>2 DEF Range
  <2>. QED
    BY <2>1, <2>2
<1>5. Range(r) \subseteq Range(p) \cup Range(q)
  BY <1>2, <1>4 DEF Range
<1>. QED
  BY <1>3, <1>5 DEF r

\* The end of a sequence holds nothing else.
LEMMA SuffixRange ==
  ASSUME NEW S, NEW q \in Seq(S), NEW m \in Nat \ {0}
  PROVE  /\ Range(SubSeq(q, m, Len(q))) \subseteq Range(q)
         /\ \A i \in m..Len(q) : q[i] \in Range(SubSeq(q, m, Len(q)))
<1>1. Len(q) \in Nat /\ DOMAIN q = 1..Len(q)
  BY LenProperties
<1> DEFINE n == Len(q)
           r == SubSeq(q, m, n)
<1>2. \A i \in m..n : q[i] \in S
  BY <1>1, ElementOfSeq
<1>3. /\ DOMAIN r = 1..(IF m <= n THEN (n - m) + 1 ELSE 0)
      /\ \A i \in 1..((n - m) + 1) : m <= n => r[i] = q[m + i - 1]
  <2>1. /\ Len(r) = (IF m <= n THEN n - m + 1 ELSE 0)
        /\ r \in Seq(S)
        /\ \A i \in 1..(n - m + 1) : r[i] = q[m + i - 1]
    BY <1>1, <1>2, SubSeqProperties
  <2>. QED
    BY <2>1, LenProperties
<1> HIDE DEF n, r
<1>4. \A i \in DOMAIN r : m + i - 1 \in 1..n /\ r[i] = q[m + i - 1]
  BY <1>1, <1>3 DEF n
<1>5. \A i \in m..n : (i - m) + 1 \in DOMAIN r /\ r[(i - m) + 1] = q[i]
  BY <1>1, <1>3 DEF n
<1>. QED
  BY <1>1, <1>4, <1>5 DEF Range, n, r
-----------------------------------------------------------------------------
(* Sending                                                                  *)

\* What a session has been sent or waits in its queue.
AtHand(s) == Range(wire[s]) \cup Range(sendQueue[s])

\* Frames that fit are appended to the queue.
LEMMA EnqueueFits ==
  ASSUME NEW F, NEW queue \in Seq(F), NEW frames \in Seq(F), Len(queue) + Len(frames) <= MaxQueue
  PROVE  Enqueue(queue, frames) = queue \o frames
<1> DEFINE all == queue \o frames
<1>1. all \in Seq(F) /\ Len(all) = Len(queue) + Len(frames)
  BY ConcatProperties
<1>2. Len(all) \in Nat /\ Len(all) <= MaxQueue
  BY <1>1, LenProperties
<1>3. Len(all) % (MaxQueue + 1) = Len(all)
  <2>1. \A a, b \in Nat : a < b => a % b = a
    OBVIOUS
  <2>2. MaxQueue + 1 \in Nat /\ Len(all) < MaxQueue + 1
    BY <1>2, ConstantsAssumption
  <2>. QED
    BY <1>2, <2>1, <2>2
<1>4. SubSeq(all, 1, Len(all)) = all
  BY <1>1
<1>5. (Len(all) - Len(all)) + 1 = 1
  BY <1>2
<1>6. Enqueue(queue, frames) = SubSeq(all, (Len(all) - (Len(all) % (MaxQueue + 1))) + 1, Len(all))
  BY DEF Enqueue
<1>. QED
  BY <1>3, <1>4, <1>5, <1>6

\* A segment loses no frame of a session whose queue does not overflow.
LEMMA EmitHands ==
  ASSUME IInv, NEW out \in [Sessions -> Seq(Frame)], NEW took \in Acceptances(out), Emit(out, took),
         NEW s \in Sessions, s \notin overflowed'
  PROVE  /\ AtHand(s) \subseteq AtHand(s)'
         /\ IsData(out[s]) => Range(out[s]) \subseteq AtHand(s)'
<1> DEFINE n == took[s]
           rest == SubSeq(out[s], n + 1, Len(out[s]))
           sent == IF IsData(out[s]) THEN SubSeq(out[s], 1, n) ELSE <<>>
           blocked == {r \in Sessions : took[r] < Len(out[r])}
           overflow == {r \in blocked : Len(sendQueue[r]) + Len(Refused(out, took, r)) > MaxQueue}
<1>1. /\ out[s] \in Seq(Frame) /\ n \in Nat /\ Len(out[s]) \in Nat /\ n <= Len(out[s])
      /\ wire[s] \in Seq(Frame) /\ sendQueue[s] \in Seq(Frame)
      /\ Len(sendQueue[s]) \in Nat /\ Len(sendQueue[s]) <= MaxQueue
  BY AcceptancesType, LenProperties, FrameTypes DEF SendState
<1>2. s \notin overflow
  BY DEF Emit
<1>3. rest \in Seq(Frame) /\ SubSeq(out[s], 1, n) \in Seq(Frame) /\ Len(rest) \in Nat
  <2>1. rest \in Seq(Frame)
    BY <1>1, SubSeqType, n + 1 \in Nat \ {0}
  <2>2. SubSeq(out[s], 1, n) \in Seq(Frame)
    BY <1>1, SubSeqType, 1 \in Nat \ {0}
  <2>. QED
    BY <2>1, <2>2, LenProperties
<1>4. sent \in Seq(Frame)
  BY <1>3, EmptySeq
<1>5. Len(sendQueue[s]) + Len(rest) <= MaxQueue
  <2>1. CASE s \in blocked
    BY <1>1, <1>2, <1>3, <2>1, ConstantsAssumption DEF Refused
  <2>2. CASE s \notin blocked
    <3>1. n = Len(out[s])
      BY <1>1, <2>2
    <3>2. rest = <<>> /\ Len(rest) = 0
      BY <1>1, <3>1
    <3>. QED
      BY <1>1, <3>2
  <2>. QED
    BY <2>1, <2>2
<1>6. sendQueue'[s] = sendQueue[s] \o rest
  <2>1. sendQueue'[s] = Enqueue(sendQueue[s], rest)
    BY DEF Emit, Refused
  <2>. QED
    BY <1>1, <1>3, <1>5, <2>1, EnqueueFits
<1>7. wire'[s] = wire[s] \o sent
  <2>1. PICK told \in SUBSET overflow :
          wire' = [r \in Sessions |->
                     wire[r] \o (IF IsData(out[r]) THEN SubSeq(out[r], 1, took[r]) ELSE <<>>)
                       \o (IF r \in told THEN <<Notice("overflow")>> ELSE <<>>)]
    BY DEF Emit
  <2>2. wire'[s] = (wire[s] \o sent) \o <<>>
    BY <1>2, <2>1
  <2>3. wire[s] \o sent \in Seq(Frame)
    BY <1>1, <1>4, ConcatProperties
  <2>. QED
    BY <2>2, <2>3
<1>8. AtHand(s)' = AtHand(s) \cup Range(rest) \cup Range(sent)
  <2> HIDE DEF sent, rest
  <2>1. Range(wire[s] \o sent) = Range(wire[s]) \cup Range(sent)
    BY <1>1, <1>4, ConcatRange
  <2>2. Range(sendQueue[s] \o rest) = Range(sendQueue[s]) \cup Range(rest)
    BY <1>1, <1>3, ConcatRange
  <2>3. AtHand(s)' = Range(wire'[s]) \cup Range(sendQueue'[s])
    BY DEF AtHand
  <2>. QED
    BY <1>6, <1>7, <2>1, <2>2, <2>3 DEF AtHand
<1>9. ASSUME IsData(out[s]) PROVE Range(out[s]) \subseteq Range(rest) \cup Range(sent)
  <2>1. DOMAIN out[s] = 1..Len(out[s])
    BY <1>1, LenProperties
  <2>2. ASSUME NEW i \in 1..Len(out[s]), i <= n PROVE out[s][i] \in Range(sent)
    <3>1. sent = SubSeq(out[s], 1, n)
      BY <1>9
    <3>2. i \in DOMAIN sent /\ sent[i] = out[s][i]
      <4>1. /\ Len(sent) = n
            /\ \A j \in 1..n : sent[j] = out[s][j]
        BY <1>1, <3>1
      <4>2. DOMAIN sent = 1..n
        BY <1>4, <4>1, LenProperties
      <4>. QED
        BY <1>1, <2>2, <4>1, <4>2
    <3>. QED
      BY <3>2 DEF Range
  <2>3. ASSUME NEW i \in 1..Len(out[s]), ~(i <= n) PROVE out[s][i] \in Range(rest)
    <3>1. i \in (n + 1)..Len(out[s]) /\ n + 1 \in Nat \ {0}
      BY <1>1, <2>3
    <3>. QED
      BY <1>1, <3>1, SuffixRange
  <2> HIDE DEF sent, rest
  <2>. QED
    BY <2>1, <2>2, <2>3 DEF Range
<1>. QED
  BY <1>8, <1>9

\* Draining moves the diffs of the queue to the wire, or leaves them in it.
LEMMA DrainHands ==
  ASSUME IInv, NEW r \in Sessions, Drain(r), NEW s \in Sessions,
         NEW f \in AtHand(s), f.op = "diff"
  PROVE  f \in AtHand(s)'
<1>1. wire \in [Sessions -> Seq(Frame)] /\ sendQueue \in [Sessions -> Seq(Frame)]
  BY FrameTypes DEF SendState
<1>2. PICK n \in 0..Len(sendQueue[r]) :
        /\ \E q \in Ascending({i \in 1..n : sendQueue[r][i].op \in DataOps}) :
             wire' = [wire EXCEPT ![r] = @ \o [i \in DOMAIN q |-> sendQueue[r][q[i]]]]
        /\ sendQueue' = [sendQueue EXCEPT ![r] = SubSeq(@, n + 1, Len(@))]
  BY DEF Drain, pastVars
<1> DEFINE S == {i \in 1..n : sendQueue[r][i].op \in DataOps}
<1>3. PICK q \in Ascending(S) : wire' = [wire EXCEPT ![r] = @ \o [i \in DOMAIN q |-> sendQueue[r][q[i]]]]
  BY <1>2
<1>4. CASE s # r
  BY <1>1, <1>2, <1>3, <1>4 DEF AtHand
<1>5. CASE s = r
  <2> DEFINE queue == sendQueue[r]
             moved == [i \in DOMAIN q |-> queue[q[i]]]
  <2>1. queue \in Seq(Frame) /\ Len(queue) \in Nat /\ DOMAIN queue = 1..Len(queue) /\ n \in Nat /\ n <= Len(queue)
    BY <1>1, <1>2, LenProperties
  <2>2. S \subseteq 1..n /\ IsFiniteSet(S)
    <3>1. IsFiniteSet(1..n)
      BY <2>1, FS_Interval
    <3>. QED
      BY <3>1, FS_Subset
  <2>3. q \in Seq(S) /\ DOMAIN q = 1..Len(q) /\ Len(q) \in Nat
    BY <1>3, <2>2, AscendingType
  <2>4. moved \in Seq(Frame) /\ DOMAIN moved = 1..Len(q)
    <3>1. \A i \in 1..Len(q) : queue[q[i]] \in Frame
      <4>1. \A i \in 1..Len(q) : q[i] \in 1..Len(queue)
        BY <2>1, <2>2, <2>3, ElementOfSeq
      <4>. QED
        BY <2>1, <4>1, ElementOfSeq
    <3>2. moved \in [1..Len(q) -> Frame]
      BY <2>3, <3>1
    <3>. QED
      BY <2>3, <3>2, SeqDef
  <2>5. \A x \in S : \E i \in 1..Len(q) : q[i] = x
    <3>1. S \subseteq Nat
      BY <2>2
    <3> HIDE DEF S
    <3>. QED
      BY <1>3, <2>2, <3>1, AscendingOnto
  <2>6. Range(wire'[r]) = Range(wire[r]) \cup Range(moved)
    <3>1. wire'[r] = wire[r] \o moved
      BY <1>1, <1>3
    <3> HIDE DEF moved
    <3>. QED
      BY <1>1, <2>4, <3>1, ConcatRange
  <2>7. sendQueue'[r] = SubSeq(queue, n + 1, Len(queue))
    BY <1>1, <1>2
  <2>8. CASE f \in Range(wire[r])
    BY <1>5, <2>6, <2>8 DEF AtHand
  <2>9. CASE f \in Range(queue)
    <3>1. PICK i \in 1..Len(queue) : f = queue[i]
      BY <2>1, <2>9 DEF Range
    <3>2. CASE i <= n
      <4>1. i \in S
        BY <2>1, <3>1, <3>2 DEF DataOps
      <4>2. PICK j \in 1..Len(q) : q[j] = i
        BY <2>5, <4>1
      <4>3. f \in Range(moved)
        BY <2>4, <3>1, <4>2 DEF Range
      <4>. QED
        BY <1>5, <2>6, <4>3 DEF AtHand
    <3>3. CASE ~(i <= n)
      <4>1. i \in (n + 1)..Len(queue) /\ n + 1 \in Nat \ {0}
        BY <2>1, <3>1, <3>3
      <4>2. f \in Range(sendQueue'[r])
        BY <2>1, <2>7, <3>1, <4>1, SuffixRange
      <4>. QED
        BY <1>5, <4>2 DEF AtHand
    <3>. QED
      BY <3>2, <3>3
  <2>. QED
    BY <1>5, <2>8, <2>9 DEF AtHand
<1>. QED
  BY <1>4, <1>5

Emitting == \E out \in [Sessions -> Seq(Frame)] : \E took \in Acceptances(out) : Emit(out, took)

\* A segment that writes to one session.
LEMMA SafeSendEmits ==
  ASSUME NEW s \in Sessions, NEW frames \in Seq(Frame), SafeSend(s, frames)
  PROVE  Emitting
<1>1. To(s, frames) \in [Sessions -> Seq(Frame)]
  BY EmptySeq DEF To
<1>. QED
  BY <1>1 DEF SafeSend, Emitting

\* A segment that writes one frame or none.
LEMMA OneFrameEmits ==
  ASSUME NEW s \in Sessions, NEW f \in Frame, NEW frames \in {<<>>, <<f>>}, SafeSend(s, frames)
  PROVE  Emitting
<1>1. <<f>> \in Seq(Frame) /\ <<>> \in Seq(Frame)
  OBVIOUS
<1>2. frames \in Seq(Frame)
  BY <1>1
<1>. QED
  BY <1>2, SafeSendEmits

\* The same frame goes to several sessions.
LEMMA FanOutEmits ==
  ASSUME NEW f \in Frame, NEW R \in SUBSET Sessions,
         NEW took \in Acceptances([s \in Sessions |-> IF s \in R THEN <<f>> ELSE <<>>]),
         Emit([s \in Sessions |-> IF s \in R THEN <<f>> ELSE <<>>], took)
  PROVE  Emitting
<1> DEFINE out == [s \in Sessions |-> IF s \in R THEN <<f>> ELSE <<>>]
<1>1. <<f>> \in Seq(Frame) /\ <<>> \in Seq(Frame)
  OBVIOUS
<1>2. out \in [Sessions -> Seq(Frame)]
  BY <1>1
<1>3. took \in Acceptances(out) /\ Emit(out, took)
  OBVIOUS
<1> HIDE DEF out
<1>. QED
  BY <1>2, <1>3 DEF Emitting

\* Delivering a diff.
LEMMA DeliverEmits ==
  ASSUME NEW k \in Keys, NEW l \in Nat, Deliver(k, l)
  PROVE  Emitting
<1> DEFINE targets == {s \in Open : k \in subs[s] /\ Has(s, k)}
           held == {s \in targets : subStates[s][k].buffering}
           live == {s \in targets \ held : l > subStates[s][k].cursorLsn}
           f == FrameOf("diff", k, l)
<1>1. PICK took \in Acceptances([s \in Sessions |-> IF s \in live THEN <<f>> ELSE <<>>]) :
        Emit([s \in Sessions |-> IF s \in live THEN <<f>> ELSE <<>>], took)
  BY DEF Deliver
<1>2. f \in Frame
  BY FramesSent
<1>3. live \in SUBSET Sessions
  BY DEF Open
<1> HIDE DEF live, f
<1>. QED
  BY <1>1, <1>2, <1>3, FanOutEmits

\* Delivering a row event.
LEMMA RowEmits ==
  ASSUME IInv, NEW k \in Keys, ConsumeRow(k)
  PROVE  Emitting
<1>1. PICK l \in HeaderLsn(topic[k][rowPos[k] + 1]) :
        LET out == [s \in Sessions |->
              IF s \in Open /\ k \in subs[s] THEN <<FrameOf("rowEvent", k, l)>> ELSE <<>>]
        IN  \E took \in Acceptances(out) : Emit(out, took)
  BY DEF ConsumeRow, pastVars
<1> DEFINE f == FrameOf("rowEvent", k, l)
           R == {s \in Open : k \in subs[s]}
<1>2. l \in Nat
  <2>1. rowPos[k] \in Nat /\ rowPos[k] < Len(topic[k])
    BY DEF IInv, CdcTypeOK, ConsumeRow, pastVars
  <2>. QED
    BY <1>1, <2>1, HeaderBounds
<1>3. f \in Frame /\ R \in SUBSET Sessions
  BY <1>2, FramesSent DEF Open
<1>4. [s \in Sessions |-> IF s \in Open /\ k \in subs[s] THEN <<f>> ELSE <<>>] =
      [s \in Sessions |-> IF s \in R THEN <<f>> ELSE <<>>]
  OBVIOUS
<1>5. PICK took \in Acceptances([s \in Sessions |-> IF s \in R THEN <<f>> ELSE <<>>]) :
        Emit([s \in Sessions |-> IF s \in R THEN <<f>> ELSE <<>>], took)
  BY <1>1, <1>4
<1> HIDE DEF f, R
<1>. QED
  BY <1>3, <1>5, FanOutEmits

\* Replaying the diffs of KeyDB.
LEMMA ReplayEmits ==
  ASSUME IInv, NEW t \in Attempts, ReplayArrives(t)
  PROVE  Emitting
<1>0. task[t].s \in Sessions /\ task[t].k \in Keys
  BY DEF ReplayArrives, IInv, ClientTypeOK, Task, Idle, pastVars
<1>. SUFFICES ASSUME NEW s \in Sessions, s = task[t].s, NEW k \in Keys, k = task[t].k
              PROVE  Emitting
  BY <1>0
<1>1. PICK seen \in SUBSET DOMAIN hot[k] : \E q \in Ascending(Replayed(t, seen)) :
        SafeSend(s, [i \in DOMAIN q |-> FrameOf("diff", k, hot[k][q[i]])])
  BY DEF ReplayArrives, pastVars
<1>2. PICK q \in Ascending(Replayed(t, seen)) :
        SafeSend(s, [i \in DOMAIN q |-> FrameOf("diff", k, hot[k][q[i]])])
  BY <1>1
<1> DEFINE frames == [i \in DOMAIN q |-> FrameOf("diff", k, hot[k][q[i]])]
<1>3. hot[k] \in Seq(Nat) /\ Len(hot[k]) \in Nat /\ DOMAIN hot[k] = 1..Len(hot[k])
  BY LenProperties DEF IInv, CdcTypeOK
<1>4. Replayed(t, seen) \subseteq 1..Len(hot[k])
  BY <1>3 DEF Replayed, DiffsAfter
<1>5. q \in Seq(Replayed(t, seen)) /\ DOMAIN q = 1..Len(q) /\ Len(q) \in Nat
  <2>1. IsFiniteSet(Replayed(t, seen))
    BY <1>3, <1>4, FS_Interval, FS_Subset, 1 \in Int, Len(hot[k]) \in Int
  <2>. QED
    BY <2>1, AscendingType
<1>6. \A i \in 1..Len(q) : FrameOf("diff", k, hot[k][q[i]]) \in Frame
  <2>1. \A i \in 1..Len(q) : q[i] \in 1..Len(hot[k])
    BY <1>4, <1>5, ElementOfSeq
  <2>2. \A i \in 1..Len(q) : hot[k][q[i]] \in Nat
    BY <1>3, <2>1, ElementOfSeq
  <2>. QED
    BY <2>2, FramesSent
<1>7. frames \in [1..Len(q) -> Frame]
  BY <1>5, <1>6
<1>8. frames \in Seq(Frame)
  BY <1>5, <1>7, SeqDef
<1>9. SafeSend(s, frames)
  BY <1>2
<1> HIDE DEF frames
<1>. QED
  BY <1>8, <1>9, SafeSendEmits

\* Who writes to the sockets and queues.
LEMMA NextEmits ==
  ASSUME IInv, [Next]_vars
  PROVE  \/ Emitting
         \/ UNCHANGED <<wire, sendQueue, overflowed>>
         \/ \E s \in Sessions : Drain(s) \/ Close(s)
<1>1. CASE UNCHANGED vars
  BY <1>1 DEF vars, sendVars, pastVars
<1>2. CASE \E ks \in (SUBSET Keys) \ {{}} : Commit(ks)
  BY <1>2 DEF Commit, sendVars, pastVars
<1>3. CASE \E k \in Keys : Rewind(k)
  BY <1>3 DEF Rewind, sendVars, pastVars
<1>4. ASSUME NEW k \in Keys, ConsumeDiff(k) PROVE Emitting
  <2>1. PICK l \in HeaderLsn(topic[k][diffPos[k] + 1]) : Deliver(k, l)
    BY <1>4 DEF ConsumeDiff, pastVars
  <2>2. diffPos[k] \in Nat /\ diffPos[k] < Len(topic[k])
    BY <1>4 DEF IInv, CdcTypeOK, ConsumeDiff, pastVars
  <2>3. l \in Nat
    BY <2>1, <2>2, HeaderBounds
  <2>. QED
    BY <2>1, <2>3, DeliverEmits
<1>5. CASE \E s \in Sessions : OpenSession(s)
  BY <1>5 DEF OpenSession, sendVars, pastVars
<1>6. ASSUME NEW t \in Attempts, NEW s \in Sessions, NEW k \in Keys, Subscribe(t, s, k) PROVE Emitting
  <2> DEFINE f == FrameOf("ack", k, 0)
  <2>1. f \in Frame /\ SafeSend(s, <<f>>)
    BY <1>6, FramesSent DEF Subscribe, pastVars
  <2> HIDE DEF f
  <2>. QED
    BY <2>1, OneFrameEmits
<1>7. ASSUME NEW t \in Attempts, Settle(t) PROVE Emitting
  <2>1. task[t].s \in Sessions /\ task[t].k \in Keys /\ task[t].asked \in Nat /\ wal \in Nat
    <3>1. task[t] \in Task
      BY <1>7, SettleTask DEF IInv, ClientTypeOK
    <3>. QED
      BY <3>1 DEF Task, IInv, CdcTypeOK
  <2>2. CASE SnapshotArrives(t)
    <3>1. PICK at \in task[t].asked..wal : SafeSend(task[t].s, <<FrameOf("snapshot", task[t].k, at)>>)
      BY <2>2 DEF SnapshotArrives, pastVars
    <3> DEFINE f == FrameOf("snapshot", task[t].k, at)
    <3>2. at \in Nat
      BY <2>1
    <3>3. f \in Frame /\ SafeSend(task[t].s, <<f>>)
      BY <2>1, <3>1, <3>2, FramesSent
    <3> HIDE DEF f
    <3>. QED
      BY <2>1, <3>3, OneFrameEmits
  <2>3. CASE SnapshotFails(t)
    <3> DEFINE f == Notice("snapshot_failed")
    <3>1. f \in Frame /\ SafeSend(task[t].s, <<f>>)
      BY <2>1, <2>3, FramesSent DEF SnapshotFails, pastVars
    <3> HIDE DEF f
    <3>. QED
      BY <2>1, <3>1, OneFrameEmits
  <2>4. CASE RangeArrives(t)
    <3> DEFINE f == FrameOf("rangeIndex", task[t].k, 0)
    <3>1. f \in Frame
      BY <2>1, FramesSent
    <3>2. PICK range \in {<<>>, <<f>>} : SafeSend(task[t].s, range)
      BY <2>4 DEF RangeArrives, pastVars
    <3> HIDE DEF f
    <3>. QED
      BY <2>1, <3>1, <3>2, OneFrameEmits
  <2>5. CASE ReplayArrives(t)
    BY <2>5, ReplayEmits
  <2>. QED
    BY <1>7, <2>2, <2>3, <2>4, <2>5 DEF Settle
<1>8. CASE \E s \in Sessions, k \in Keys : Unsubscribe(s, k)
  BY <1>8 DEF Unsubscribe, sendVars, pastVars
<1>9. CASE Next
  BY <1>2, <1>3, <1>4, <1>5, <1>6, <1>7, <1>8, <1>9, RowEmits DEF Next
<1>. QED
  BY <1>1, <1>9
-----------------------------------------------------------------------------
(* Steps                                                                    *)

\* The database only goes on.
LEMMA NextWal ==
  ASSUME IInv, [Next]_vars
  PROVE  wal \in Nat /\ wal' \in Nat /\ wal <= wal'
<1>1. wal \in Nat
  BY DEF IInv, CdcTypeOK
<1>2. CASE \E ks \in (SUBSET Keys) \ {{}} : Commit(ks)
  BY <1>1, <1>2 DEF Commit, pastVars
<1>3. CASE UNCHANGED wal
  BY <1>1, <1>3
<1>4. CASE UNCHANGED vars
  BY <1>3, <1>4 DEF vars, cdcVars, pastVars
<1>5. CASE Next
  <2>1. CASE \E k \in Keys : Rewind(k) \/ ConsumeDiff(k) \/ ConsumeRow(k)
    BY <1>3, <2>1 DEF Rewind, ConsumeDiff, ConsumeRow, pastVars
  <2>2. CASE \E r \in Sessions : OpenSession(r) \/ Drain(r) \/ Close(r)
    BY <1>3, <2>2 DEF OpenSession, Drain, Close, cdcVars, pastVars
  <2>3. CASE \E t \in Attempts, r \in Sessions, k \in Keys : Subscribe(t, r, k)
    BY <1>3, <2>3 DEF Subscribe, cdcVars, pastVars
  <2>4. CASE \E t \in Attempts : Settle(t)
    BY <1>3, <2>4, Zenon DEF Settle, SnapshotArrives, SnapshotFails, RangeArrives, ReplayArrives, cdcVars, pastVars
  <2>5. CASE \E r \in Sessions, k \in Keys : Unsubscribe(r, k)
    BY <1>3, <2>5 DEF Unsubscribe, cdcVars, pastVars
  <2>. QED
    BY <1>2, <1>5, <2>1, <2>2, <2>3, <2>4, <2>5 DEF Next
<1>. QED
  BY <1>4, <1>5

\* What was handed over is on the wire or in the queue.
LEMMA HandedAtHand ==
  ASSUME NEW s, NEW k
  PROVE  Handed(s, k) = {l \in 1..wal : FrameOf("diff", k, l) \in AtHand(s)}
BY DEF Handed, AtHand, Range

\* A queue that overflowed is remembered, and nothing else is taken back from
\* a session that is not closed.
LEMMA NextHands ==
  ASSUME IInv, [Next]_vars, NEW s \in Sessions, s \notin overflowed', ~Close(s)
  PROVE  s \notin overflowed /\ \A k \in Keys : Handed(s, k) \subseteq Handed(s, k)'
<1>1. /\ s \notin overflowed
      /\ \A f \in AtHand(s) : f.op = "diff" => f \in AtHand(s)'
  <2>1. CASE Emitting
    <3>1. PICK out \in [Sessions -> Seq(Frame)] : \E took \in Acceptances(out) : Emit(out, took)
      BY <2>1 DEF Emitting
    <3>2. PICK took \in Acceptances(out) : Emit(out, took)
      BY <3>1
    <3>3. AtHand(s) \subseteq AtHand(s)'
      BY <3>2, EmitHands
    <3>4. overflowed \subseteq overflowed'
      BY <3>2 DEF Emit
    <3>. QED
      BY <3>3, <3>4
  <2>2. CASE UNCHANGED <<wire, sendQueue, overflowed>>
    BY <2>2 DEF AtHand
  <2>3. ASSUME NEW r \in Sessions, Drain(r)
        PROVE  s \notin overflowed /\ \A f \in AtHand(s) : f.op = "diff" => f \in AtHand(s)'
    <3>1. overflowed' = overflowed
      BY <2>3 DEF Drain, pastVars
    <3>. QED
      BY <2>3, <3>1, DrainHands
  <2>4. ASSUME NEW r \in Sessions, Close(r)
        PROVE  s \notin overflowed /\ AtHand(s)' = AtHand(s)
    <3>1. r # s
      BY <2>4
    <3>2. sendQueue \in [Sessions -> Seq(Frame)]
      BY FrameTypes DEF SendState
    <3>3. sendQueue'[s] = sendQueue[s] /\ wire' = wire /\ overflowed' = overflowed
      BY <2>4, <3>1, <3>2 DEF Close, pastVars
    <3>. QED
      BY <3>3 DEF AtHand
  <2>. QED
    BY <2>1, <2>2, <2>3, <2>4, NextEmits
<1>2. ASSUME NEW k \in Keys, NEW l \in Handed(s, k) PROVE l \in Handed(s, k)'
  <2>1. l \in 1..wal /\ FrameOf("diff", k, l) \in AtHand(s)
    BY <1>2, HandedAtHand
  <2>2. FrameOf("diff", k, l).op = "diff"
    BY DEF FrameOf
  <2>3. l \in 1..wal'
    BY <2>1, NextWal
  <2>4. FrameOf("diff", k, l) \in AtHand(s)'
    BY <1>1, <2>1, <2>2
  <2>. QED
    BY <2>3, <2>4 DEF Handed, AtHand, Range
<1>. QED
  BY <1>1, <1>2
-----------------------------------------------------------------------------
(* The invariant                                                            *)

\* The places of k this process has consumed, those it may ever consume, and
\* what it has taken of k and may still hold somewhere.
Places(k) == (start[k].diff + 1)..diffPos[k]
Ahead(k) == (start[k].diff + 1)..Len(topic[k])
Consumed(k) == (Range(hot[k]) \ found[k]) \cup {topic[k][i] : i \in Places(k)}
                 \cup UNION {Sub(r, k).buffer : r \in {r \in Sessions : Has(r, k)}}

\* A topic holds LSNs of commits, each later than the ones before it, and
\* LAST_SEEN_LSN is not below one that was consumed.
TopicInv ==
  \A k \in Keys :
    /\ start[k].diff <= diffPos[k] /\ diffPos[k] <= Len(topic[k])
    /\ \A i, j \in 1..Len(topic[k]) : i < j => topic[k][i] < topic[k][j]
    /\ \A i \in 1..Len(topic[k]) : topic[k][i] >= 1
    /\ \A i \in Places(k) : topic[k][i] <= lastSeen

\* While it synchronises, a subscription has passed or holds all of it.
Held(s, k) ==
  /\ Sub(s, k).buffering
  /\ \A c \in Consumed(k) : c <= Sub(s, k).cursorLsn \/ c \in Sub(s, k).buffer

\* Once it is live, whatever it or consumption has passed was handed over,
\* but for what is not later than the diffs kept from before.
Reaches(s, k, floor) ==
  /\ ~Sub(s, k).buffering
  /\ \A i \in Ahead(k) :
       /\ topic[k][i] > floor /\ Later(k, topic[k][i])
       /\ topic[k][i] <= Sub(s, k).cursorLsn \/ \E c \in Consumed(k) : topic[k][i] <= c
       => topic[k][i] \in Handed(s, k)

Syncing(t) == task[t].stage \in {"snapshot", "range"}
Live(t) == task[t].stage \in {"replay", "done"}

\* What one execution of handleSubscribe, if no other has its key, ensures.
Ensures(t, s, k) ==
  Has(s, k) =>
    /\ Syncing(t) => Held(s, k)
    /\ Live(t) => task[t].since >= start[k].diff
    /\ Live(t) /\ s \notin overflowed => Reaches(s, k, task[t].floor)

ReachInv ==
  \A t \in Attempts : task[t] # Idle /\ OnlyAttempt(t) => Ensures(t, task[t].s, task[t].k)
-----------------------------------------------------------------------------
(* How a SubState changes                                                   *)

Rests(s, k) == Has(s, k) /\ Has(s, k)' /\ Sub(s, k)' = Sub(s, k)

Of(t, s, k) == task[t].s = s /\ task[t].k = k

\* A change of one SubState leaves the others alone.
LEMMA OthersRest ==
  ASSUME IInv, NEW s \in Sessions, NEW k \in Keys, Has(s, k)',
         NEW r \in Sessions, NEW x \in DOMAIN subStates[r], NEW sub,
         subStates' = [subStates EXCEPT ![r][x] = sub]
  PROVE  IF s = r /\ k = x THEN Has(s, k) /\ Sub(s, k)' = sub ELSE Rests(s, k)
<1>1. DOMAIN subStates = Sessions
  BY DEF IInv, ClientTypeOK
<1>2. /\ subStates'[r] = [subStates[r] EXCEPT ![x] = sub]
      /\ \A o \in Sessions \ {r} : subStates'[o] = subStates[o]
  BY <1>1
<1>3. CASE s # r
  BY <1>2, <1>3 DEF Rests, Has, Sub
<1>4. CASE s = r /\ k # x
  BY <1>2, <1>4 DEF Rests, Has, Sub
<1>5. CASE s = r /\ k = x
  BY <1>2, <1>5 DEF Has, Sub
<1>. QED
  BY <1>3, <1>4, <1>5

\* A subscription begins with an empty buffer, at or above LAST_SEEN_LSN.
LEMMA SubscribeSub ==
  ASSUME IInv, NEW s \in Sessions, NEW k \in Keys, Has(s, k)',
         NEW t \in Attempts, NEW r \in Sessions, NEW x \in Keys, Subscribe(t, r, x)
  PROVE  IF s = r /\ k = x
         THEN /\ Sub(s, k)'.buffering /\ Sub(s, k)'.buffer = {}
              /\ Sub(s, k)'.cursorLsn \in Nat /\ Sub(s, k)'.cursorLsn >= lastSeen
         ELSE Rests(s, k)
<1>1. PICK resume \in 0..wal : Fence(t, r, x, resume)
  BY DEF Subscribe, pastVars
<1> DEFINE fence == Larger(resume, lastSeen)
           new == [cursorLsn |-> fence, buffering |-> TRUE, buffer |-> {}]
<1>2. fence \in Nat /\ fence >= lastSeen
  BY DEF IInv, CdcTypeOK, Larger
<1>3. subStates' = [subStates EXCEPT ![r] = Put(@, x, new)] /\ DOMAIN subStates = Sessions
  BY <1>1 DEF Fence, Register, IInv, ClientTypeOK
<1>4. new.cursorLsn = fence /\ new.buffering = TRUE /\ new.buffer = {}
  OBVIOUS
<1> HIDE DEF fence, new
<1>5. CASE s = r /\ k = x
  <2>1. Sub(s, k)' = new
    BY <1>3, <1>5 DEF Sub, Put
  <2>. QED
    BY <1>2, <1>4, <1>5, <2>1
<1>6. CASE s = r /\ k # x
  BY <1>3, <1>6 DEF Rests, Has, Sub, Put
<1>7. CASE s # r
  BY <1>3, <1>7 DEF Rests, Has, Sub
<1>. QED
  BY <1>5, <1>6, <1>7

\* A flush passes the buffer.
LEMMA RangeSub ==
  ASSUME IInv, NEW s \in Sessions, NEW k \in Keys, Has(s, k)', NEW t \in Attempts, RangeArrives(t)
  PROVE  IF Of(t, s, k)
         THEN /\ Has(s, k)
              /\ \E q \in Flushes(Sub(s, k)) :
                   /\ Sub(s, k)' = AfterFlush(Sub(s, k), q)
                   /\ task'[t].floor = CursorAfter(Sub(s, k), q)
                   /\ task'[t].since = diffPos[k]
         ELSE Rests(s, k)
<1>0. task[t] \in Task /\ task \in [Attempts -> Task \cup {Idle}] /\ task[t].s \in Sessions /\ task[t].k \in Keys
  BY DEF RangeArrives, IInv, ClientTypeOK, Task, Idle, pastVars
<1>. SUFFICES ASSUME NEW r \in Sessions, r = task[t].s, NEW x \in Keys, x = task[t].k
              PROVE  IF s = r /\ k = x
                     THEN /\ Has(s, k)
                          /\ \E q \in Flushes(Sub(s, k)) :
                               /\ Sub(s, k)' = AfterFlush(Sub(s, k), q)
                               /\ task'[t].floor = CursorAfter(Sub(s, k), q)
                               /\ task'[t].since = diffPos[k]
                     ELSE Rests(s, k)
  BY <1>0 DEF Of
<1>1. CASE ~Has(r, x)
  <2>1. subStates' = subStates
    BY <1>1 DEF RangeArrives, pastVars
  <2>. QED
    BY <1>1, <2>1 DEF Rests, Has, Sub
<1>2. CASE Has(r, x)
  <2>1. PICK q \in Flushes(subStates[r][x]) :
          /\ subStates' = [subStates EXCEPT ![r][x] = AfterFlush(@, q)]
          /\ task' = [task EXCEPT ![t].stage = "replay", ![t].since = diffPos[x],
                                  ![t].floor = CursorAfter(subStates[r][x], q)]
    BY <1>2 DEF RangeArrives, pastVars
  <2> DEFINE sub == AfterFlush(subStates[r][x], q)
             cursor == CursorAfter(subStates[r][x], q)
  <2>2. subStates' = [subStates EXCEPT ![r][x] = sub] /\ x \in DOMAIN subStates[r]
    BY <1>2, <2>1 DEF Has
  <2>3. task'[t].floor = cursor /\ task'[t].since = diffPos[x]
    <3> HIDE DEF cursor
    <3>. QED
      BY <1>0, <2>1 DEF Task, cursor
  <2>4. sub = AfterFlush(Sub(r, x), q) /\ cursor = CursorAfter(Sub(r, x), q) /\ q \in Flushes(Sub(r, x))
    BY DEF Sub
  <2> HIDE DEF sub, cursor
  <2>5. IF s = r /\ k = x THEN Has(s, k) /\ Sub(s, k)' = sub ELSE Rests(s, k)
    BY <2>2, OthersRest
  <2>. QED
    BY <2>3, <2>4, <2>5
<1>. QED
  BY <1>1, <1>2

\* Replay leaves a cursor at a diff that KeyDB holds, or where it was.
LEMMA ReplaySub ==
  ASSUME IInv, NEW s \in Sessions, NEW k \in Keys, Has(s, k)', NEW t \in Attempts, ReplayArrives(t)
  PROVE  \/ Rests(s, k)
         \/ /\ Of(t, s, k) /\ Has(s, k)
            /\ \E c \in Range(hot[k]) : Sub(s, k)' = [Sub(s, k) EXCEPT !.cursorLsn = c]
<1>0. task[t].s \in Sessions /\ task[t].k \in Keys
  BY DEF ReplayArrives, IInv, ClientTypeOK, Task, Idle, pastVars
<1>. SUFFICES ASSUME NEW r \in Sessions, r = task[t].s, NEW x \in Keys, x = task[t].k
              PROVE  \/ Rests(s, k)
                     \/ /\ s = r /\ k = x /\ Has(s, k)
                        /\ \E c \in Range(hot[k]) : Sub(s, k)' = [Sub(s, k) EXCEPT !.cursorLsn = c]
  BY <1>0 DEF Of
<1>1. PICK seen \in SUBSET DOMAIN hot[x] : \E q \in Ascending(Replayed(t, seen)) :
        subStates' = IF Has(r, x) /\ q # <<>>
                     THEN [subStates EXCEPT ![r][x].cursorLsn = hot[x][q[Len(q)]]]
                     ELSE subStates
  BY DEF ReplayArrives, pastVars
<1>2. PICK q \in Ascending(Replayed(t, seen)) :
        subStates' = IF Has(r, x) /\ q # <<>>
                     THEN [subStates EXCEPT ![r][x].cursorLsn = hot[x][q[Len(q)]]]
                     ELSE subStates
  BY <1>1
<1>3. CASE ~(Has(r, x) /\ q # <<>>)
  BY <1>2, <1>3 DEF Rests, Has, Sub
<1>4. CASE Has(r, x) /\ q # <<>>
  <2> DEFINE place == q[Len(q)]
             sub == [subStates[r][x] EXCEPT !.cursorLsn = hot[x][place]]
  <2>1. Len(hot[x]) \in Nat /\ DOMAIN hot[x] = 1..Len(hot[x])
    BY LenProperties DEF IInv, CdcTypeOK
  <2>2. Replayed(t, seen) \subseteq 1..Len(hot[x])
    BY <2>1 DEF Replayed, DiffsAfter
  <2>3. place \in 1..Len(hot[x])
    <3>1. IsFiniteSet(Replayed(t, seen))
      BY <2>1, <2>2, FS_Interval, FS_Subset, 1 \in Int, Len(hot[x]) \in Int
    <3>2. q \in Seq(Replayed(t, seen)) /\ Len(q) \in Nat
      BY <3>1, AscendingType
    <3>3. Len(q) \in 1..Len(q)
      BY <1>4, <3>2, EmptySeq
    <3>4. q[Len(q)] \in Replayed(t, seen)
      BY <3>2, <3>3, ElementOfSeq
    <3>. QED
      BY <2>2, <3>4
  <2>4. hot[x][place] \in Range(hot[x])
    BY <2>1, <2>3 DEF Range
  <2>5. subStates' = [subStates EXCEPT ![r][x] = sub] /\ x \in DOMAIN subStates[r]
    BY <1>2, <1>4 DEF Has
  <2>6. sub = [Sub(r, x) EXCEPT !.cursorLsn = hot[x][place]]
    BY DEF Sub
  <2> HIDE DEF sub, place
  <2>7. IF s = r /\ k = x THEN Has(s, k) /\ Sub(s, k)' = sub ELSE Rests(s, k)
    BY <2>5, OthersRest
  <2>. QED
    BY <2>4, <2>6, <2>7
<1>. QED
  BY <1>3, <1>4

\* A diff is held back, or is old, or is handed over.
LEMMA DeliverSub ==
  ASSUME IInv, RegistryConsistent, NEW s \in Sessions, NEW k \in Keys, Has(s, k)',
         NEW x \in Keys, NEW l \in Nat, Deliver(x, l)
  PROVE  IF k = x
         THEN /\ Has(s, k)
              /\ \/ Sub(s, k).buffering /\ Sub(s, k)' = [Sub(s, k) EXCEPT !.buffer = @ \cup {l}]
                 \/ ~Sub(s, k).buffering /\ l <= Sub(s, k).cursorLsn /\ Sub(s, k)' = Sub(s, k)
                 \/ /\ ~Sub(s, k).buffering
                    /\ Sub(s, k)' \in {Sub(s, k), [Sub(s, k) EXCEPT !.cursorLsn = l]}
                    /\ s \notin overflowed' => FrameOf("diff", k, l) \in AtHand(s)'
         ELSE Rests(s, k)
<1> DEFINE targets == {r \in Open : x \in subs[r] /\ Has(r, x)}
           held == {r \in targets : subStates[r][x].buffering}
           live == {r \in targets \ held : l > subStates[r][x].cursorLsn}
           f == FrameOf("diff", x, l)
           out == [r \in Sessions |-> IF r \in live THEN <<f>> ELSE <<>>]
<1>1. PICK took \in Acceptances(out) :
        /\ Emit(out, took)
        /\ subStates' = [r \in Sessions |->
             IF r \in held
             THEN [subStates[r] EXCEPT ![x].buffer = @ \cup {l}]
             ELSE IF r \in live /\ took[r] = 1
             THEN [subStates[r] EXCEPT ![x].cursorLsn = l]
             ELSE subStates[r]]
  BY DEF Deliver
<1>2. Has(s, x) => s \in targets
  <2>1. \A r \in Sessions : Has(r, x) => x \in subs[r] /\ r \in Open
    BY DEF RegistryConsistent, Has
  <2>. QED
    BY <2>1
<1>3. \A r \in held \cup live : Has(r, x)
  OBVIOUS
<1>4. s \in held => Sub(s, x).buffering
  BY DEF Sub
<1>5. s \in targets \ held => ~Sub(s, x).buffering
  BY DEF Sub
<1>6. s \in (targets \ held) \ live => l <= Sub(s, x).cursorLsn
  <2>1. s \in targets => Sub(s, x).cursorLsn \in Nat
    BY CursorType
  <2>. QED
    BY <2>1 DEF Sub
<1>7. s \in live /\ s \notin overflowed' => f \in AtHand(s)'
  <2>1. f \in Frame /\ f.op = "diff"
    BY FramesSent DEF FrameOf
  <2> HIDE DEF f, live
  <2>2. out \in [Sessions -> Seq(Frame)]
    <3>1. <<f>> \in Seq(Frame) /\ <<>> \in Seq(Frame)
      BY <2>1
    <3>. QED
      BY <3>1
  <2>3. s \in live => out[s] = <<f>> /\ IsData(out[s])
    BY <2>1 DEF IsData, DataOps
  <2>4. f \in Range(<<f>>)
    BY DEF Range
  <2> HIDE DEF out
  <2>. QED
    BY <1>1, <2>2, <2>3, <2>4, EmitHands
<1> HIDE DEF targets, held, live, out, f
<1>8. CASE s \in held
  <2>1. subStates'[s] = [subStates[s] EXCEPT ![x].buffer = @ \cup {l}]
    BY <1>1, <1>8
  <2>2. x \in DOMAIN subStates[s]
    BY <1>3, <1>8 DEF Has
  <2>3. CASE k = x
    <3>1. Sub(s, k)' = [Sub(s, k) EXCEPT !.buffer = @ \cup {l}]
      BY <2>1, <2>2, <2>3 DEF Sub
    <3>. QED
      BY <1>3, <1>4, <1>8, <2>3, <3>1
  <2>4. CASE k # x
    BY <2>1, <2>4 DEF Rests, Has, Sub
  <2>. QED
    BY <2>3, <2>4
<1>9. CASE s \notin held /\ s \in live /\ took[s] = 1
  <2>1. subStates'[s] = [subStates[s] EXCEPT ![x].cursorLsn = l]
    BY <1>1, <1>9
  <2>2. x \in DOMAIN subStates[s]
    BY <1>3, <1>9 DEF Has
  <2>3. CASE k = x
    <3>1. Sub(s, k)' = [Sub(s, k) EXCEPT !.cursorLsn = l]
      BY <2>1, <2>2, <2>3 DEF Sub
    <3>2. Has(s, k)
      BY <2>2, <2>3 DEF Has
    <3>3. ~Sub(s, k).buffering
      BY <1>2, <1>5, <1>9, <2>3, <3>2
    <3>. QED
      BY <1>7, <1>9, <2>3, <3>1, <3>2, <3>3 DEF f
  <2>4. CASE k # x
    BY <2>1, <2>4 DEF Rests, Has, Sub
  <2>. QED
    BY <2>3, <2>4
<1>10. CASE s \notin held /\ ~(s \in live /\ took[s] = 1)
  <2>1. subStates'[s] = subStates[s]
    BY <1>1, <1>10
  <2>2. Has(s, k) /\ Sub(s, k)' = Sub(s, k)
    BY <2>1 DEF Has, Sub
  <2>3. CASE k = x
    <3>1. s \in targets \ held
      BY <1>2, <1>10, <2>2, <2>3
    <3>2. ~Sub(s, k).buffering
      BY <1>5, <2>3, <3>1
    <3>3. CASE s \in live
      BY <1>7, <2>2, <2>3, <3>2, <3>3 DEF f
    <3>4. CASE s \notin live
      BY <1>6, <2>2, <2>3, <3>1, <3>2, <3>4
    <3>. QED
      BY <3>3, <3>4
  <2>4. CASE k # x
    BY <2>2, <2>4 DEF Rests
  <2>. QED
    BY <2>3, <2>4
<1>. QED
  BY <1>8, <1>9, <1>10

\* The diff that a consumed message carries, when it has its header.
LEMMA ConsumedDiff ==
  ASSUME Headerless = FALSE, IInv, NEW x \in Keys, ConsumeDiff(x)
  PROVE  /\ diffPos[x] \in Nat /\ diffPos[x] < Len(topic[x]) /\ topic' = topic
         /\ diffPos' = [diffPos EXCEPT ![x] = @ + 1]
         /\ topic[x][diffPos[x] + 1] \in Nat
         /\ lastSeen' = Larger(topic[x][diffPos[x] + 1], lastSeen)
         /\ Deliver(x, topic[x][diffPos[x] + 1])
<1>1. diffPos[x] \in Nat /\ diffPos[x] < Len(topic[x])
  BY DEF IInv, CdcTypeOK, ConsumeDiff, pastVars
<1>2. HeaderLsn(topic[x][diffPos[x] + 1]) = {topic[x][diffPos[x] + 1]}
  BY DEF HeaderLsn
<1>3. topic[x][diffPos[x] + 1] \in Nat
  BY <1>1, <1>2, HeaderBounds
<1>. QED
  BY <1>1, <1>2, <1>3 DEF ConsumeDiff, pastVars

\* What can become of a SubState.
SubMoves(s, k) ==
  \/ Rests(s, k)
  \/ \E t \in Attempts : Subscribe(t, s, k)
  \/ \E t \in Attempts : RangeArrives(t) /\ Of(t, s, k)
  \/ \E t \in Attempts : ReplayArrives(t) /\ Of(t, s, k)
  \/ ConsumeDiff(k)

\* Nothing else becomes of it.
LEMMA NextSub ==
  ASSUME Headerless = FALSE, IInv, RegistryConsistent, [Next]_vars,
         NEW s \in Sessions, NEW k \in Keys, Has(s, k)'
  PROVE  SubMoves(s, k)
<1>0. DOMAIN subStates = Sessions
  BY DEF IInv, ClientTypeOK
<1>1. CASE UNCHANGED subStates
  BY <1>1 DEF SubMoves, Rests, Has, Sub
<1>2. CASE UNCHANGED vars
  BY <1>1, <1>2 DEF vars, clientVars, pastVars
<1>3. ASSUME NEW x \in Keys, ConsumeDiff(x) PROVE SubMoves(s, k)
  <2>1. topic[x][diffPos[x] + 1] \in Nat /\ Deliver(x, topic[x][diffPos[x] + 1])
    BY <1>3, ConsumedDiff
  <2>2. k = x \/ Rests(s, k)
    BY <2>1, DeliverSub
  <2>. QED
    BY <1>3, <2>2 DEF SubMoves
<1>4. ASSUME NEW r \in Sessions, Close(r) PROVE SubMoves(s, k)
  BY <1>0, <1>4 DEF SubMoves, Close, Rests, Has, Sub, NoEntries, pastVars
<1>5. ASSUME NEW t \in Attempts, NEW r \in Sessions, NEW x \in Keys, Subscribe(t, r, x) PROVE SubMoves(s, k)
  BY <1>5, SubscribeSub DEF SubMoves
<1>6. ASSUME NEW t \in Attempts, Settle(t) PROVE SubMoves(s, k)
  <2>1. CASE SnapshotArrives(t) \/ SnapshotFails(t)
    BY <1>1, <2>1 DEF SnapshotArrives, SnapshotFails, clientVars, pastVars
  <2>2. CASE RangeArrives(t)
    BY <2>2, RangeSub DEF SubMoves
  <2>3. CASE ReplayArrives(t)
    BY <2>3, ReplaySub DEF SubMoves
  <2>. QED
    BY <1>6, <2>1, <2>2, <2>3 DEF Settle
<1>7. ASSUME NEW r \in Sessions, NEW x \in Keys, Unsubscribe(r, x) PROVE SubMoves(s, k)
  <2>1. subStates' = [subStates EXCEPT ![r] = Drop(@, x)]
    BY <1>7 DEF Unsubscribe, pastVars
  <2>2. CASE r # s
    BY <1>0, <2>1, <2>2 DEF SubMoves, Rests, Has, Sub
  <2>3. CASE r = s
    <3>1. subStates'[s] = Drop(subStates[s], x)
      BY <1>0, <2>1, <2>3
    <3>2. k \in DOMAIN subStates[s] /\ subStates'[s][k] = subStates[s][k]
      BY <3>1 DEF Has, Drop, Restrict
    <3>. QED
      BY <3>2 DEF SubMoves, Rests, Has, Sub
  <2>. QED
    BY <2>2, <2>3
<1>8. CASE Next
  <2>1. CASE \E ks \in (SUBSET Keys) \ {{}} : Commit(ks)
    BY <1>1, <2>1 DEF Commit, clientVars, pastVars
  <2>2. CASE \E x \in Keys : Rewind(x) \/ ConsumeRow(x)
    BY <1>1, <2>2 DEF Rewind, ConsumeRow, clientVars, pastVars
  <2>3. CASE \E r \in Sessions : OpenSession(r) \/ Drain(r)
    BY <1>1, <2>3 DEF OpenSession, Drain, clientVars, pastVars
  <2>. QED
    BY <1>3, <1>4, <1>5, <1>6, <1>7, <1>8, <2>1, <2>2, <2>3 DEF Next
<1>. QED
  BY <1>2, <1>8
-----------------------------------------------------------------------------
(* Topics                                                                   *)

\* The database appends to the topics, consumption and rebalances move places.
LEMMA NextTopic ==
  ASSUME IInv, [Next]_vars
  PROVE  \/ \E ks \in (SUBSET Keys) \ {{}} : Commit(ks)
         \/ UNCHANGED <<topic, diffPos>>
         \/ \E k \in Keys : Rewind(k) \/ ConsumeDiff(k)
<1>1. CASE UNCHANGED vars
  BY <1>1 DEF vars, cdcVars, pastVars
<1>2. CASE Next
  <2>1. CASE \E k \in Keys : ConsumeRow(k)
    BY <2>1 DEF ConsumeRow, pastVars
  <2>2. CASE \E r \in Sessions : OpenSession(r) \/ Drain(r) \/ Close(r)
    BY <2>2 DEF OpenSession, Drain, Close, cdcVars, pastVars
  <2>3. CASE \E t \in Attempts, r \in Sessions, k \in Keys : Subscribe(t, r, k)
    BY <2>3 DEF Subscribe, cdcVars, pastVars
  <2>4. CASE \E t \in Attempts : Settle(t)
    BY <2>4, Zenon DEF Settle, SnapshotArrives, SnapshotFails, RangeArrives, ReplayArrives, cdcVars, pastVars
  <2>5. CASE \E r \in Sessions, k \in Keys : Unsubscribe(r, k)
    BY <2>5 DEF Unsubscribe, cdcVars, pastVars
  <2>. QED
    BY <1>2, <2>1, <2>2, <2>3, <2>4, <2>5 DEF Next
<1>. QED
  BY <1>1, <1>2

\* LAST_SEEN_LSN never goes back.
LEMMA NextSeen ==
  ASSUME IInv, [Next]_vars
  PROVE  lastSeen \in Nat /\ lastSeen' \in Nat /\ lastSeen <= lastSeen'
<1>0. lastSeen \in Nat
  BY DEF IInv, CdcTypeOK
<1>1. CASE UNCHANGED vars
  BY <1>0, <1>1 DEF vars, pastVars
<1>2. CASE Next
  <2>1. lastSeen' >= lastSeen
    BY <1>2, NextFeeds DEF Feed!Next
  <2>2. IInv'
    BY NextIInv
  <2>3. lastSeen' \in Nat
    BY <2>2 DEF IInv, CdcTypeOK
  <2>. QED
    BY <1>0, <2>1, <2>3
<1>. QED
  BY <1>1, <1>2

\* What a topic holds stays in its place, and what it gains is new.
LEMMA TopicGrows ==
  ASSUME IInv, [Next]_vars, NEW k \in Keys
  PROVE  /\ Len(topic[k]) \in Nat /\ Len(topic'[k]) \in Nat /\ Len(topic[k]) <= Len(topic'[k])
         /\ \A i \in 1..Len(topic[k]) : topic[k][i] \in Nat /\ topic[k][i] <= wal
                                        /\ topic'[k][i] = topic[k][i]
         /\ \A i \in 1..Len(topic'[k]) : i > Len(topic[k]) =>
              i = Len(topic[k]) + 1 /\ topic'[k][i] = wal + 1
<1>0. topic \in [Keys -> Seq(0..wal)] /\ wal \in Nat
  BY DEF IInv, LogBounds, CdcTypeOK
<1>1. /\ Len(topic[k]) \in Nat
      /\ \A i \in 1..Len(topic[k]) : topic[k][i] \in Nat /\ topic[k][i] <= wal
  <2>1. \A i \in 1..Len(topic[k]) : topic[k][i] \in 0..wal
    BY <1>0, ElementOfSeq
  <2>. QED
    BY <1>0, <2>1, LenProperties
<1>2. CASE topic'[k] = topic[k]
  BY <1>1, <1>2
<1>3. CASE topic'[k] = Append(topic[k], wal + 1)
  <2>1. topic[k] \in Seq(Nat) /\ wal + 1 \in Nat
    BY <1>0 DEF IInv, CdcTypeOK
  <2>2. /\ Len(topic'[k]) = Len(topic[k]) + 1
        /\ topic'[k][Len(topic[k]) + 1] = wal + 1
        /\ \A i \in 1..Len(topic[k]) : topic'[k][i] = topic[k][i]
    BY <1>3, <2>1, AppendProperties
  <2>. QED
    BY <1>1, <2>2
<1>4. topic'[k] = topic[k] \/ topic'[k] = Append(topic[k], wal + 1)
  <2>1. CASE \E ks \in (SUBSET Keys) \ {{}} : Commit(ks)
    BY <2>1 DEF Commit, pastVars
  <2>2. CASE UNCHANGED topic
    BY <2>2
  <2>. QED
    BY <2>1, <2>2, NextTopic DEF Rewind, ConsumeDiff, pastVars
<1>. QED
  BY <1>2, <1>3, <1>4

\* The place in a topic goes back, stays, or passes one diff.
LEMMA PlaceMoves ==
  ASSUME IInv, TopicInv, [Next]_vars, NEW k \in Keys
  PROVE  /\ diffPos[k] \in Nat /\ diffPos'[k] \in Nat /\ diffPos[k] <= Len(topic[k])
         /\ start[k].diff \in Nat /\ start[k].diff <= diffPos[k] /\ start[k].diff <= diffPos'[k]
         /\ \/ diffPos'[k] <= diffPos[k]
            \/ /\ ConsumeDiff(k)
               /\ diffPos'[k] = diffPos[k] + 1 /\ diffPos[k] < Len(topic[k]) /\ topic' = topic
<1>1. /\ diffPos \in [Keys -> Nat] /\ diffPos[k] <= Len(topic[k])
      /\ start[k].diff \in Nat /\ start[k].diff <= diffPos[k]
  BY DEF IInv, CdcTypeOK, TopicInv
<1>2. CASE diffPos' = diffPos
  BY <1>1, <1>2
<1>3. ASSUME NEW x \in Keys, Rewind(x)
      PROVE  /\ diffPos'[k] \in Nat /\ diffPos'[k] <= diffPos[k]
             /\ start[k].diff <= diffPos'[k]
  <2>1. PICK p \in start[x].diff..diffPos[x] : diffPos' = [diffPos EXCEPT ![x] = p]
    BY <1>3 DEF Rewind
  <2>2. start[x].diff \in Nat /\ diffPos[x] \in Nat
    BY DEF IInv, CdcTypeOK
  <2>3. CASE k = x
    BY <1>1, <2>1, <2>2, <2>3
  <2>4. CASE k # x
    BY <1>1, <2>1, <2>4
  <2>. QED
    BY <2>3, <2>4
<1>4. ASSUME NEW x \in Keys, ConsumeDiff(x)
      PROVE  /\ diffPos'[k] \in Nat /\ start[k].diff <= diffPos'[k]
             /\ \/ diffPos'[k] <= diffPos[k]
                \/ /\ ConsumeDiff(k)
                   /\ diffPos'[k] = diffPos[k] + 1 /\ diffPos[k] < Len(topic[k]) /\ topic' = topic
  <2>1. diffPos' = [diffPos EXCEPT ![x] = @ + 1] /\ diffPos[x] < Len(topic[x]) /\ topic' = topic
    BY <1>4 DEF ConsumeDiff, pastVars
  <2>2. CASE k = x
    BY <1>1, <1>4, <2>1, <2>2
  <2>3. CASE k # x
    BY <1>1, <2>1, <2>3
  <2>. QED
    BY <2>2, <2>3
<1>. QED
  BY <1>1, <1>2, <1>3, <1>4, NextTopic DEF Commit, pastVars

\* TopicInv is kept: the database appends later LSNs only.
LEMMA TopicStep ==
  ASSUME Headerless = FALSE, IInv, TopicInv, [Next]_vars
  PROVE  TopicInv'
<1>0. wal \in Nat
  BY DEF IInv, CdcTypeOK
<1> SUFFICES ASSUME NEW k \in Keys
             PROVE  /\ start'[k].diff <= diffPos'[k] /\ diffPos'[k] <= Len(topic'[k])
                    /\ \A i, j \in 1..Len(topic'[k]) : i < j => topic'[k][i] < topic'[k][j]
                    /\ \A i \in 1..Len(topic'[k]) : topic'[k][i] >= 1
                    /\ \A i \in (start'[k].diff + 1)..diffPos'[k] : topic'[k][i] <= lastSeen'
  BY DEF TopicInv, Places
<1> DEFINE m == Len(topic[k])
           n == Len(topic'[k])
           old == topic[k]
           new == topic'[k]
           first == start[k].diff
<1>1. /\ m \in Nat /\ n \in Nat /\ m <= n
      /\ \A i \in 1..m : old[i] \in Nat /\ old[i] <= wal /\ new[i] = old[i]
      /\ \A i \in 1..n : i > m => i = m + 1 /\ new[i] = wal + 1
  BY TopicGrows
<1>2. /\ diffPos[k] <= m
      /\ \A i, j \in 1..m : i < j => old[i] < old[j]
      /\ \A i \in 1..m : old[i] >= 1
      /\ \A i \in (first + 1)..diffPos[k] : old[i] <= lastSeen
  BY DEF TopicInv, Places
<1>3. /\ diffPos[k] \in Nat /\ diffPos'[k] \in Nat
      /\ first \in Nat /\ first <= diffPos'[k] /\ start'[k].diff = first
      /\ \/ diffPos'[k] <= diffPos[k]
         \/ ConsumeDiff(k) /\ diffPos'[k] = diffPos[k] + 1 /\ diffPos[k] < m /\ topic' = topic
  BY PlaceMoves, PastFound
<1>4. lastSeen \in Nat /\ lastSeen' \in Nat /\ lastSeen <= lastSeen'
  BY NextSeen
<1>5. ConsumeDiff(k) => old[diffPos[k] + 1] <= lastSeen'
  <2> SUFFICES ASSUME ConsumeDiff(k) PROVE old[diffPos[k] + 1] <= lastSeen'
    OBVIOUS
  <2>1. old[diffPos[k] + 1] \in Nat /\ lastSeen' = Larger(old[diffPos[k] + 1], lastSeen)
    BY ConsumedDiff
  <2> HIDE DEF old
  <2>. QED
    BY <1>4, <2>1 DEF Larger
<1> HIDE DEF m, n, old, new, first
<1>6. diffPos'[k] <= n
  BY <1>1, <1>2, <1>3
<1>7. \A i, j \in 1..n : i < j => new[i] < new[j]
  BY <1>0, <1>1, <1>2
<1>8. \A i \in 1..n : new[i] >= 1
  BY <1>0, <1>1, <1>2
<1>9. \A i \in (first + 1)..diffPos'[k] : new[i] <= lastSeen'
  <2> SUFFICES ASSUME NEW i \in (first + 1)..diffPos'[k] PROVE new[i] <= lastSeen'
    OBVIOUS
  <2>1. CASE i <= diffPos[k]
    BY <1>1, <1>2, <1>3, <1>4, <2>1
  <2>2. CASE ~(i <= diffPos[k])
    <3>1. ConsumeDiff(k) /\ i = diffPos[k] + 1 /\ i \in 1..m
      BY <1>1, <1>3, <2>2
    <3>. QED
      BY <1>1, <1>5, <3>1
  <2>. QED
    BY <2>1, <2>2
<1>. QED
  BY <1>3, <1>6, <1>7, <1>8, <1>9 DEF m, n, old, new, first

\* Nothing consumed is ahead of LAST_SEEN_LSN.
LEMMA ConsumedSeen ==
  ASSUME IInv, TopicInv, NEW k \in Keys, NEW c \in Consumed(k)
  PROVE  c \in Nat /\ c <= lastSeen /\ c <= wal
<1>0. lastSeen \in Nat /\ wal \in Nat /\ lastSeen <= wal
  BY DEF IInv, CdcTypeOK, LogBounds
<1>1. CASE c \in Range(hot[k]) \ found[k]
  <2>1. hot[k] \in Seq(Known(found, k, lastSeen))
    BY DEF IInv, LogBounds, Stored
  <2>2. PICK i \in 1..Len(hot[k]) : c = hot[k][i]
    BY <1>1, <2>1, LenProperties DEF Range
  <2>3. c \in 0..lastSeen
    <3>1. c \in Known(found, k, lastSeen)
      BY <2>1, <2>2, ElementOfSeq
    <3>. QED
      BY <1>1, <3>1 DEF Known
  <2>. QED
    BY <1>0, <2>3
<1>2. CASE c \in {topic[k][i] : i \in Places(k)}
  <2>1. PICK i \in Places(k) : c = topic[k][i]
    BY <1>2
  <2>2. /\ topic[k] \in Seq(Nat) /\ Len(topic[k]) \in Nat
        /\ diffPos[k] \in Nat /\ start[k].diff \in Nat
    BY LenProperties DEF IInv, CdcTypeOK
  <2>3. diffPos[k] <= Len(topic[k]) /\ topic[k][i] <= lastSeen
    BY DEF TopicInv
  <2>4. i \in 1..Len(topic[k])
    BY <2>2, <2>3 DEF Places
  <2>5. c \in Nat
    BY <2>1, <2>2, <2>4, ElementOfSeq
  <2>. QED
    BY <1>0, <2>1, <2>3, <2>5
<1>3. ASSUME NEW r \in Sessions, Has(r, k), c \in Sub(r, k).buffer
      PROVE  c \in 0..lastSeen
  BY <1>3 DEF IInv, SubBounds, Has, Sub
<1>. QED
  BY <1>0, <1>1, <1>2, <1>3 DEF Consumed
-----------------------------------------------------------------------------
(* What consumption gains                                                   *)

\* KeyDB keeps a part of a list.
LEMMA TrimRange ==
  ASSUME NEW F, NEW q \in Seq(F)
  PROVE  Range(Trim(q)) \subseteq Range(q)
<1>1. Len(q) \in Nat
  BY LenProperties
<1>2. CASE Len(q) > MaxDiffs
  <2>1. Len(q) - MaxDiffs + 1 \in Nat \ {0}
    BY <1>1, <1>2, ConstantsAssumption
  <2>. QED
    BY <1>2, <2>1, SuffixRange DEF Trim
<1>3. CASE ~(Len(q) > MaxDiffs)
  BY <1>3 DEF Trim
<1>. QED
  BY <1>2, <1>3

\* The diffs a flush passes were buffered, and none above the cursor is missed.
LEMMA FlushRange ==
  ASSUME IInv, NEW s \in Sessions, NEW k \in Keys, Has(s, k), NEW q \in Flushes(Sub(s, k))
  PROVE  /\ q \in Seq(Nat) /\ Range(q) \subseteq Sub(s, k).buffer
         /\ CursorAfter(Sub(s, k), q) \in Nat
         /\ CursorAfter(Sub(s, k), q) >= Sub(s, k).cursorLsn
         /\ \A l \in Sub(s, k).buffer : l <= CursorAfter(Sub(s, k), q)
<1>0. Sub(s, k) \in SubState /\ Sub(s, k).buffer \subseteq 0..lastSeen /\ lastSeen \in Nat
  BY DEF IInv, ClientTypeOK, CdcTypeOK, IsMap, Has, SubBounds, Sub
<1>. SUFFICES ASSUME NEW old \in SubState, old = Sub(s, k)
              PROVE  /\ q \in Seq(Nat) /\ Range(q) \subseteq old.buffer
                     /\ CursorAfter(old, q) \in Nat
                     /\ CursorAfter(old, q) >= old.cursorLsn
                     /\ \A l \in old.buffer : l <= CursorAfter(old, q)
  BY <1>0
<1> DEFINE S == {l \in old.buffer : l > old.cursorLsn}
<1>1. old.cursorLsn \in Nat /\ old.buffer \subseteq Nat /\ S \subseteq Nat
  BY DEF SubState
<1>2. IsFiniteSet(S)
  <2>1. IsFiniteSet(0..lastSeen)
    BY <1>0, FS_Interval
  <2>. QED
    BY <1>0, <2>1, FS_Subset
<1>3. q \in Ascending(S)
  BY DEF Flushes
<1>4. S \subseteq old.buffer /\ \A l \in S : l > old.cursorLsn
  OBVIOUS
<1>5. \A l \in old.buffer : l \notin S => l <= old.cursorLsn
  BY <1>1
<1> HIDE DEF S
<1>6. /\ q \in Seq(S) /\ DOMAIN q = 1..Len(q) /\ Len(q) \in Nat
      /\ \A x \in S : \E i \in 1..Len(q) : q[i] = x
  BY <1>1, <1>2, <1>3, AscendingType, AscendingOnto
<1>7. \A i \in 1..Len(q) : q[i] \in S
  BY <1>6, ElementOfSeq
<1>8. \A i, j \in 1..Len(q) : i < j => q[i] < q[j]
  BY <1>3, <1>6 DEF Ascending
<1>9. q \in Seq(Nat) /\ Range(q) \subseteq old.buffer
  BY <1>1, <1>4, <1>6, <1>7, SeqMonotonic DEF Range
<1>10. CASE q = <<>>
  <2>1. CursorAfter(old, q) = old.cursorLsn
    BY <1>10 DEF CursorAfter
  <2>2. S = {}
    BY <1>6, <1>10
  <2>. QED
    BY <1>1, <1>5, <1>9, <2>1, <2>2
<1>11. CASE q # <<>>
  <2>1. Len(q) \in 1..Len(q)
    BY <1>6, <1>11, EmptySeq
  <2>2. CursorAfter(old, q) = q[Len(q)]
    BY <1>11 DEF CursorAfter
  <2>3. q[Len(q)] \in Nat /\ q[Len(q)] > old.cursorLsn
    BY <1>1, <1>4, <1>7, <2>1
  <2>4. ASSUME NEW l \in S PROVE l <= q[Len(q)]
    <3>1. PICK i \in 1..Len(q) : q[i] = l
      BY <1>6
    <3>2. CASE i = Len(q)
      BY <1>1, <3>1, <3>2
    <3>3. CASE i < Len(q)
      BY <1>1, <1>8, <2>1, <2>3, <3>1, <3>3
    <3>4. i = Len(q) \/ i < Len(q)
      <4>1. Len(q) \in Nat
        BY <1>6
      <4>. QED
        BY <4>1
    <3>. QED
      BY <3>2, <3>3, <3>4
  <2>5. ASSUME NEW l \in old.buffer PROVE l <= q[Len(q)]
    <3>1. CASE l \in S
      BY <2>4, <3>1
    <3>2. CASE l \notin S
      BY <1>1, <1>5, <2>3, <3>2
    <3>. QED
      BY <3>1, <3>2
  <2>. QED
    BY <1>1, <1>9, <2>2, <2>3, <2>5
<1>. QED
  BY <1>10, <1>11

\* KeyDB gains the diff that is consumed, and what a flush stores again.
LEMMA HotMoves ==
  ASSUME Headerless = FALSE, IInv, [Next]_vars, NEW k \in Keys,
         NEW c \in Range(hot'[k]), c \notin found[k]
  PROVE  c \in Consumed(k) \/ (ConsumeDiff(k) /\ c = topic[k][diffPos[k] + 1])
<1>0. hot \in [Keys -> Seq(Nat)]
  BY DEF IInv, CdcTypeOK
<1>1. CASE hot' = hot
  BY <1>1 DEF Consumed
<1>2. ASSUME NEW x \in Keys, ConsumeDiff(x)
      PROVE  c \in Consumed(k) \/ (ConsumeDiff(k) /\ c = topic[k][diffPos[k] + 1])
  <2>1. PICK l \in Nat : l = topic[x][diffPos[x] + 1] /\ Deliver(x, l)
    BY <1>2, ConsumedDiff
  <2>2. hot' = [hot EXCEPT ![x] = Trim(Append(@, l))]
    BY <2>1 DEF Deliver
  <2>3. CASE k # x
    BY <1>0, <2>2, <2>3 DEF Consumed
  <2>4. CASE k = x
    <3>1. hot'[k] = Trim(Append(hot[k], l))
      BY <1>0, <2>2, <2>4
    <3>2. /\ Append(hot[k], l) \in Seq(Nat) /\ Len(hot[k]) \in Nat
          /\ DOMAIN Append(hot[k], l) = 1..(Len(hot[k]) + 1) /\ DOMAIN hot[k] = 1..Len(hot[k])
          /\ \A i \in 1..Len(hot[k]) : Append(hot[k], l)[i] = hot[k][i]
          /\ Append(hot[k], l)[Len(hot[k]) + 1] = l
      <4>1. hot[k] \in Seq(Nat)
        BY <1>0
      <4>. QED
        BY <4>1, AppendProperties, LenProperties
    <3>3. c \in Range(Append(hot[k], l))
      BY <3>1, <3>2, TrimRange
    <3>4. PICK i \in 1..(Len(hot[k]) + 1) : c = Append(hot[k], l)[i]
      BY <3>2, <3>3 DEF Range
    <3>5. i \in 1..Len(hot[k]) \/ i = Len(hot[k]) + 1
      BY <3>2
    <3>6. c \in Range(hot[k]) \/ c = l
      BY <3>2, <3>4, <3>5 DEF Range
    <3>. QED
      BY <1>2, <2>1, <2>4, <3>6 DEF Consumed
  <2>. QED
    BY <2>3, <2>4
<1>3. ASSUME NEW t \in Attempts, RangeArrives(t) PROVE c \in Consumed(k)
  <2>0. task[t].s \in Sessions /\ task[t].k \in Keys
    BY <1>3 DEF RangeArrives, IInv, ClientTypeOK, Task, Idle, pastVars
  <2>. SUFFICES ASSUME NEW s \in Sessions, s = task[t].s, NEW x \in Keys, x = task[t].k
                PROVE  c \in Consumed(k)
    BY <2>0
  <2>1. CASE ~Has(s, x)
    BY <1>1, <1>3, <2>1 DEF RangeArrives, Consumed, pastVars
  <2>2. CASE Has(s, x)
    <3>1. PICK q \in Flushes(subStates[s][x]) : hot' = [hot EXCEPT ![x] = Trim(@ \o q)]
      BY <1>3, <2>2 DEF RangeArrives, pastVars
    <3>2. q \in Flushes(Sub(s, x))
      BY DEF Sub
    <3>3. q \in Seq(Nat) /\ Range(q) \subseteq Sub(s, x).buffer
      BY <2>2, <3>2, FlushRange
    <3>4. CASE k # x
      BY <1>0, <3>1, <3>4 DEF Consumed
    <3>5. CASE k = x
      <4>1. hot'[k] = Trim(hot[k] \o q) /\ hot[k] \in Seq(Nat)
        BY <1>0, <3>1, <3>5
      <4>2. hot[k] \o q \in Seq(Nat) /\ Range(hot[k] \o q) = Range(hot[k]) \cup Range(q)
        BY <3>3, <4>1, ConcatRange, ConcatProperties
      <4>3. c \in Range(hot[k]) \cup Range(q)
        BY <4>1, <4>2, TrimRange
      <4>. QED
        BY <2>2, <3>3, <3>5, <4>3 DEF Consumed
    <3>. QED
      BY <3>4, <3>5
  <2>. QED
    BY <2>1, <2>2
<1>4. CASE UNCHANGED vars
  BY <1>1, <1>4 DEF vars, Consumed, pastVars
<1>5. CASE Next
  <2>1. CASE \E ks \in (SUBSET Keys) \ {{}} : Commit(ks)
    BY <1>1, <2>1 DEF Commit, pastVars
  <2>2. CASE \E x \in Keys : Rewind(x) \/ ConsumeRow(x)
    BY <1>1, <2>2 DEF Rewind, ConsumeRow, pastVars
  <2>3. CASE \E r \in Sessions : OpenSession(r) \/ Drain(r) \/ Close(r)
    BY <1>1, <2>3 DEF OpenSession, Drain, Close, pastVars
  <2>4. CASE \E t \in Attempts, r \in Sessions, x \in Keys : Subscribe(t, r, x)
    BY <1>1, <2>4 DEF Subscribe, pastVars
  <2>5. CASE \E t \in Attempts : SnapshotArrives(t) \/ SnapshotFails(t) \/ ReplayArrives(t)
    BY <1>1, <2>5 DEF SnapshotArrives, SnapshotFails, ReplayArrives, pastVars
  <2>6. CASE \E r \in Sessions, x \in Keys : Unsubscribe(r, x)
    BY <1>1, <2>6 DEF Unsubscribe, pastVars
  <2>. QED
    BY <1>2, <1>3, <1>5, <2>1, <2>2, <2>3, <2>4, <2>5, <2>6 DEF Next, Settle
<1>. QED
  BY <1>4, <1>5

\* A buffer gains the diff that is consumed.
LEMMA BufferMoves ==
  ASSUME Headerless = FALSE, IInv, RegistryConsistent, [Next]_vars,
         NEW s \in Sessions, NEW k \in Keys, Has(s, k)', NEW c \in Sub(s, k)'.buffer
  PROVE  c \in Consumed(k) \/ (ConsumeDiff(k) /\ c = topic[k][diffPos[k] + 1])
<1>0. Has(s, k) => Sub(s, k) \in SubState
  BY DEF IInv, ClientTypeOK, IsMap, Has, Sub
<1>1. CASE Has(s, k) /\ c \in Sub(s, k).buffer
  BY <1>1 DEF Consumed
<1>2. CASE Rests(s, k)
  BY <1>1, <1>2 DEF Rests
<1>3. ASSUME NEW t \in Attempts, Subscribe(t, s, k) PROVE FALSE
  BY <1>3, SubscribeSub
<1>4. ASSUME NEW t \in Attempts, RangeArrives(t), Of(t, s, k) PROVE FALSE
  BY <1>4, RangeSub DEF AfterFlush
<1>5. ASSUME NEW t \in Attempts, ReplayArrives(t), Of(t, s, k)
      PROVE  Has(s, k) /\ c \in Sub(s, k).buffer
  <2>1. CASE Rests(s, k)
    BY <2>1 DEF Rests
  <2>2. CASE Has(s, k) /\ \E x \in Range(hot[k]) : Sub(s, k)' = [Sub(s, k) EXCEPT !.cursorLsn = x]
    BY <1>0, <2>2 DEF SubState
  <2>. QED
    BY <1>5, <2>1, <2>2, ReplaySub
<1>6. ASSUME ConsumeDiff(k)
      PROVE  Has(s, k) /\ (c \in Sub(s, k).buffer \/ c = topic[k][diffPos[k] + 1])
  <2>1. PICK l \in Nat : l = topic[k][diffPos[k] + 1] /\ Deliver(k, l)
    BY <1>6, ConsumedDiff
  <2>2. /\ Has(s, k)
        /\ Sub(s, k)' \in {Sub(s, k), [Sub(s, k) EXCEPT !.buffer = @ \cup {l}],
                           [Sub(s, k) EXCEPT !.cursorLsn = l]}
    BY <2>1, DeliverSub
  <2>. QED
    BY <1>0, <2>1, <2>2 DEF SubState
<1>. QED
  BY <1>1, <1>2, <1>3, <1>4, <1>5, <1>6, NextSub DEF SubMoves

\* Consumption gains the one diff that is consumed.
LEMMA NextConsumed ==
  ASSUME Headerless = FALSE, IInv, RegistryConsistent, TopicInv, [Next]_vars,
         NEW k \in Keys, NEW c \in Consumed(k)'
  PROVE  c \in Consumed(k) \/ (ConsumeDiff(k) /\ c = topic[k][diffPos[k] + 1])
<1>0. found' = found /\ start' = start
  BY PastFound
<1>1. CASE c \in Range(hot'[k]) \ found'[k]
  BY <1>0, <1>1, HotMoves
<1>2. ASSUME NEW i \in Places(k)', c = topic'[k][i]
      PROVE  c \in Consumed(k) \/ (ConsumeDiff(k) /\ c = topic[k][diffPos[k] + 1])
  <2>1. /\ diffPos[k] \in Nat /\ diffPos'[k] \in Nat /\ diffPos[k] <= Len(topic[k])
        /\ start[k].diff \in Nat /\ i \in (start[k].diff + 1)..diffPos'[k]
        /\ \/ diffPos'[k] <= diffPos[k]
           \/ ConsumeDiff(k) /\ diffPos'[k] = diffPos[k] + 1 /\ topic' = topic
    BY <1>0, PlaceMoves DEF Places
  <2>2. Len(topic[k]) \in Nat /\ \A j \in 1..Len(topic[k]) : topic'[k][j] = topic[k][j]
    BY TopicGrows
  <2>3. CASE i <= diffPos[k]
    <3>1. i \in Places(k) /\ i \in 1..Len(topic[k])
      BY <2>1, <2>2, <2>3 DEF Places
    <3>2. c = topic[k][i]
      BY <1>2, <2>2, <3>1
    <3>. QED
      BY <3>1, <3>2 DEF Consumed
  <2>4. CASE ~(i <= diffPos[k])
    <3>1. ConsumeDiff(k) /\ i = diffPos[k] + 1 /\ topic' = topic
      BY <2>1, <2>4
    <3>. QED
      BY <1>2, <3>1
  <2>. QED
    BY <2>3, <2>4
<1>3. ASSUME NEW r \in Sessions, Has(r, k)', c \in Sub(r, k)'.buffer
      PROVE  c \in Consumed(k) \/ (ConsumeDiff(k) /\ c = topic[k][diffPos[k] + 1])
  BY <1>3, BufferMoves
<1>. QED
  BY <1>1, <1>2, <1>3 DEF Consumed
-----------------------------------------------------------------------------
(* A subscription from one step to the next                                 *)

\* Consumption moves on in its topic, the other actions do not move it on.
LEMMA ConsumeMoves ==
  ASSUME Headerless = FALSE, IInv, NEW k \in Keys, ConsumeDiff(k)
  PROVE  diffPos' # diffPos
<1>1. diffPos' = [diffPos EXCEPT ![k] = @ + 1] /\ diffPos[k] \in Nat /\ diffPos \in [Keys -> Nat]
  BY ConsumedDiff DEF IInv, CdcTypeOK
<1>2. diffPos'[k] = diffPos[k] + 1
  BY <1>1
<1>. QED
  BY <1>1, <1>2

\* A subscription begins above all that was consumed.
LEMMA HeldBegins ==
  ASSUME Headerless = FALSE, IInv, RegistryConsistent, TopicInv, [Next]_vars,
         NEW s \in Sessions, NEW k \in Keys, Has(s, k)', NEW t \in Attempts, Subscribe(t, s, k)
  PROVE  Held(s, k)'
<1>1. Sub(s, k)'.buffering /\ Sub(s, k)'.cursorLsn \in Nat /\ Sub(s, k)'.cursorLsn >= lastSeen
  BY SubscribeSub
<1>2. ~ConsumeDiff(k)
  BY ConsumeMoves DEF Subscribe, cdcVars, pastVars
<1>3. ASSUME NEW c \in Consumed(k)' PROVE c <= Sub(s, k)'.cursorLsn
  <2>1. c \in Consumed(k)
    BY <1>2, <1>3, NextConsumed
  <2>2. c \in Nat /\ c <= lastSeen /\ lastSeen \in Nat
    BY <2>1, ConsumedSeen DEF IInv, CdcTypeOK
  <2>. QED
    BY <1>1, <2>2
<1>. QED
  BY <1>1, <1>3 DEF Held

\* It passes or holds what is consumed next.
LEMMA HeldStep ==
  ASSUME Headerless = FALSE, IInv, RegistryConsistent, TopicInv, [Next]_vars,
         NEW s \in Sessions, NEW k \in Keys, Has(s, k)', Held(s, k), Rests(s, k) \/ ConsumeDiff(k)
  PROVE  Held(s, k)'
<1>1. CASE ConsumeDiff(k)
  <2>1. PICK l \in Nat : l = topic[k][diffPos[k] + 1] /\ Deliver(k, l)
    BY <1>1, ConsumedDiff
  <2>2. Has(s, k) /\ Sub(s, k)' = [Sub(s, k) EXCEPT !.buffer = @ \cup {l}]
    BY <2>1, DeliverSub DEF Held
  <2>3. Sub(s, k) \in SubState
    BY <2>2 DEF IInv, ClientTypeOK, IsMap, Has, Sub
  <2>4. /\ Sub(s, k)'.buffering /\ Sub(s, k)'.cursorLsn = Sub(s, k).cursorLsn
        /\ Sub(s, k)'.buffer = Sub(s, k).buffer \cup {l}
    BY <2>2, <2>3 DEF SubState, Held
  <2>5. \A c \in Consumed(k)' : c \in Consumed(k) \/ c = l
    BY <2>1, NextConsumed
  <2>. QED
    BY <2>4, <2>5 DEF Held
<1>2. CASE Rests(s, k) /\ ~ConsumeDiff(k)
  <2>1. \A c \in Consumed(k)' : c \in Consumed(k)
    BY <1>2, NextConsumed
  <2>. QED
    BY <1>2, <2>1 DEF Held, Rests
<1>. QED
  BY <1>1, <1>2

\* When it goes live it has passed all that was consumed.
LEMMA ReachesBegins ==
  ASSUME Headerless = FALSE, IInv, IInv', RegistryConsistent, TopicInv, [Next]_vars,
         NEW s \in Sessions, NEW k \in Keys, Has(s, k)', Held(s, k),
         NEW t \in Attempts, RangeArrives(t), Of(t, s, k), NEW floor, floor = task'[t].floor
  PROVE  Reaches(s, k, floor)'
<1>1. PICK q \in Flushes(Sub(s, k)) :
        Has(s, k) /\ Sub(s, k)' = AfterFlush(Sub(s, k), q) /\ floor = CursorAfter(Sub(s, k), q)
  BY RangeSub
<1>2. /\ floor \in Nat /\ floor >= Sub(s, k).cursorLsn
      /\ \A l \in Sub(s, k).buffer : l <= floor
  BY <1>1, FlushRange
<1>3. ~Sub(s, k)'.buffering /\ Sub(s, k)'.cursorLsn = floor
  BY <1>1 DEF AfterFlush
<1>4. ~ConsumeDiff(k)
  BY ConsumeMoves DEF RangeArrives, cdcVars, pastVars
<1>5. ASSUME NEW c \in Consumed(k)' PROVE c \in Nat /\ c <= floor
  <2>1. c \in Consumed(k)
    BY <1>4, <1>5, NextConsumed
  <2>2. c \in Nat
    BY <2>1, ConsumedSeen
  <2>3. Sub(s, k).cursorLsn \in Nat
    BY <1>1, CursorType
  <2>. QED
    BY <1>2, <2>1, <2>2, <2>3 DEF Held
<1>6. ASSUME NEW i \in Ahead(k)' PROVE topic'[k][i] \in Nat
  <2>1. topic'[k] \in Seq(Nat) /\ start'[k].diff \in Nat
    BY DEF IInv, CdcTypeOK
  <2>2. i \in 1..Len(topic'[k])
    BY <2>1, LenProperties DEF Ahead
  <2>. QED
    BY <2>1, <2>2, ElementOfSeq
<1>. QED
  BY <1>2, <1>3, <1>5, <1>6 DEF Reaches

\* From then on what it passes is handed over.
LEMMA ReachesStep ==
  ASSUME Headerless = FALSE, IInv, IInv', RegistryConsistent, TopicInv, [Next]_vars,
         NEW s \in Sessions, NEW k \in Keys, Has(s, k)', NEW floor, Reaches(s, k, floor),
         s \notin overflowed',
         Rests(s, k) \/ ConsumeDiff(k) \/ \E t \in Attempts : ReplayArrives(t) /\ Of(t, s, k)
  PROVE  Reaches(s, k, floor)'
<1> DEFINE l == topic[k][diffPos[k] + 1]
<1>1. ConsumeDiff(k) => /\ l \in Nat /\ Deliver(k, l)
                        /\ diffPos[k] \in Nat /\ diffPos[k] < Len(topic[k])
  BY ConsumedDiff
<1>2. /\ Has(s, k) /\ ~Sub(s, k)'.buffering
      /\ \/ Sub(s, k)'.cursorLsn = Sub(s, k).cursorLsn
         \/ Sub(s, k)'.cursorLsn \in Consumed(k) \cup found[k]
         \/ ConsumeDiff(k) /\ Sub(s, k)'.cursorLsn = l
  <2>0. ~Sub(s, k).buffering
    BY DEF Reaches
  <2>1. CASE Rests(s, k)
    BY <2>0, <2>1 DEF Rests
  <2>2. ASSUME NEW c, Has(s, k), Sub(s, k)' = [Sub(s, k) EXCEPT !.cursorLsn = c]
        PROVE  ~Sub(s, k)'.buffering /\ Sub(s, k)'.cursorLsn = c
    <3>1. Sub(s, k) \in SubState
      BY <2>2 DEF IInv, ClientTypeOK, IsMap, Has, Sub
    <3>. QED
      BY <2>0, <2>2, <3>1 DEF SubState
  <2>3. CASE ConsumeDiff(k)
    <3>1. PICK x \in Nat : x = l /\ Deliver(k, x)
      BY <1>1, <2>3
    <3>2. Has(s, k) /\ Sub(s, k)' \in {Sub(s, k), [Sub(s, k) EXCEPT !.cursorLsn = x]}
      BY <2>0, <3>1, DeliverSub
    <3>. QED
      BY <2>0, <2>2, <2>3, <3>1, <3>2
  <2>4. ASSUME NEW t \in Attempts, ReplayArrives(t), ~Rests(s, k)
        PROVE  Has(s, k) /\ \E c \in Consumed(k) \cup found[k] :
                               Sub(s, k)' = [Sub(s, k) EXCEPT !.cursorLsn = c]
    BY <2>4, ReplaySub DEF Consumed
  <2>. QED
    BY <2>1, <2>2, <2>3, <2>4
<1>3. /\ s \notin overflowed /\ Handed(s, k) \subseteq Handed(s, k)'
  <2>1. subStates'[s] # NoEntries
    BY DEF Has, NoEntries
  <2>2. DOMAIN subStates = Sessions
    BY DEF IInv, ClientTypeOK
  <2>3. ~Close(s)
    BY <2>1, <2>2 DEF Close, pastVars
  <2>. QED
    BY <2>3, NextHands
<1>4. /\ wal \in Nat /\ wal' \in Nat /\ wal <= wal'
      /\ Sub(s, k).cursorLsn \in Nat /\ Sub(s, k).cursorLsn <= wal
      /\ \A c \in Consumed(k) : c \in Nat /\ c <= wal
  BY <1>2, NextWal, CursorType, ConsumedSeen DEF IInv, SubBounds, Has, Sub
<1>5. /\ Len(topic[k]) \in Nat /\ Len(topic'[k]) \in Nat
      /\ \A i \in 1..Len(topic[k]) : topic[k][i] \in Nat /\ topic[k][i] <= wal
                                     /\ topic'[k][i] = topic[k][i]
      /\ \A i \in 1..Len(topic'[k]) : i > Len(topic[k]) => topic'[k][i] = wal + 1
  BY TopicGrows
<1>6. ConsumeDiff(k) => l <= wal
  <2>1. ConsumeDiff(k) => diffPos[k] + 1 \in 1..Len(topic[k])
    BY <1>1, <1>5
  <2>. QED
    BY <1>5, <2>1
<1>7. /\ found' = found /\ start' = start /\ start[k].diff \in Nat
      /\ \A c \in found[k] : c \in Nat
  BY PastFound DEF IInv, CdcTypeOK
<1>8. ASSUME NEW v \in Nat, Later(k, v),
             v <= Sub(s, k)'.cursorLsn \/ \E c \in Consumed(k)' : v <= c
      PROVE  \/ v <= Sub(s, k).cursorLsn
             \/ \E c \in Consumed(k) : v <= c
             \/ ConsumeDiff(k) /\ v <= l
  <2>1. \A c \in Consumed(k)' : c \in Consumed(k) \/ (ConsumeDiff(k) /\ c = l)
    BY NextConsumed
  <2> HIDE DEF l
  <2>. QED
    BY <1>2, <1>8, <1>7, <2>1 DEF Later
<1>9. ASSUME NEW i \in Ahead(k)', topic'[k][i] > floor, Later(k, topic[k][i])',
             topic'[k][i] <= Sub(s, k)'.cursorLsn \/ \E c \in Consumed(k)' : topic'[k][i] <= c
      PROVE  topic'[k][i] \in Handed(s, k)'
  <2>. DEFINE v == topic'[k][i]
  <2>0. i \in (start[k].diff + 1)..Len(topic'[k]) /\ i \in 1..Len(topic'[k])
    BY <1>5, <1>7 DEF Ahead
  <2>1. v \in Nat /\ Later(k, v)
    <3>1. v \in Nat
      BY <1>4, <1>5, <1>7, <2>0
    <3>2. \A x \in found'[k] : x < v
      BY <1>9 DEF Later
    <3>. QED
      BY <1>7, <3>1, <3>2 DEF Later
  <2>2. \/ v <= Sub(s, k).cursorLsn
        \/ \E c \in Consumed(k) : v <= c
        \/ ConsumeDiff(k) /\ v <= l
    <3> HIDE DEF l, v
    <3>. QED
      BY <1>8, <1>9, <2>1 DEF v
  <2>3. v <= wal
    <3> HIDE DEF l, v
    <3>. QED
      BY <1>1, <1>4, <1>6, <2>1, <2>2
  <2>4. i \in 1..Len(topic[k]) /\ v = topic[k][i] /\ i \in Ahead(k)
    BY <1>4, <1>5, <1>7, <2>0, <2>3 DEF Ahead
  <2>5. CASE v <= Sub(s, k).cursorLsn \/ \E c \in Consumed(k) : v <= c
    BY <1>3, <1>9, <2>1, <2>4, <2>5 DEF Reaches
  <2>6. CASE ConsumeDiff(k) /\ v <= l /\ ~(v <= Sub(s, k).cursorLsn) /\ \A c \in Consumed(k) : ~(v <= c)
    <3>1. ~(i \in Places(k))
      <4>1. ASSUME i \in Places(k) PROVE FALSE
        <5>1. v \in Consumed(k)
          BY <2>4, <4>1 DEF Consumed
        <5>. QED
          BY <2>1, <2>6, <5>1
      <4>. QED
        BY <4>1
    <3>2. i = diffPos[k] + 1
      <4>1. diffPos[k] + 1 \in 1..Len(topic[k]) /\ i \in Nat /\ diffPos[k] \in Nat /\ i >= 1
        BY <1>1, <1>5, <2>4, <2>6
      <4>2. i > diffPos[k] + 1 => l < topic[k][i]
        BY <2>4, <4>1 DEF TopicInv
      <4>3. ~(i > diffPos[k] + 1)
        BY <1>1, <2>1, <2>4, <2>6, <4>2
      <4>. QED
        BY <1>7, <2>0, <3>1, <4>1, <4>3 DEF Places
    <3>3. v = l
      BY <2>4, <3>2
    <3>4. PICK x \in Nat : x = l /\ Deliver(k, x)
      BY <1>1, <2>6
    <3>5. FrameOf("diff", k, x) \in AtHand(s)'
      <4>1. ~Sub(s, k).buffering /\ ~(x <= Sub(s, k).cursorLsn)
        BY <2>6, <3>3, <3>4 DEF Reaches
      <4>. QED
        BY <3>4, <4>1, DeliverSub
    <3>6. x \in 1..wal'
      <4>1. v >= 1
        BY <2>4 DEF TopicInv
      <4>. QED
        BY <1>4, <2>3, <3>3, <3>4, <4>1
    <3>. QED
      BY <3>3, <3>4, <3>5, <3>6 DEF Handed, AtHand, Range
  <2>. QED
    BY <2>2, <2>5, <2>6
<1>. QED
  BY <1>2, <1>9 DEF Reaches
-----------------------------------------------------------------------------
(* Executions of handleSubscribe                                            *)

\* What it remembers of going live.
Marks(t) == <<task[t].since, task[t].floor>>

\* An execution keeps its session and key, and goes live by its page range.
LEMMA TaskMoves ==
  ASSUME IInv, [Next]_vars, NEW t \in Attempts, task[t] # Idle
  PROVE  /\ task'[t] # Idle /\ task'[t].s = task[t].s /\ task'[t].k = task[t].k
         /\ Syncing(t)' => Syncing(t) /\ ~RangeArrives(t)
         /\ Live(t)' => RangeArrives(t) \/ (Live(t) /\ Marks(t)' = Marks(t))
<1>0. task \in [Attempts -> Task \cup {Idle}] /\ task[t] \in Task
  BY DEF IInv, ClientTypeOK
<1>1. RangeArrives(t) => task'[t].stage = "replay"
  BY <1>0 DEF RangeArrives, Task, pastVars
<1>2. CASE task'[t] = task[t]
  <2>1. ~RangeArrives(t)
    BY <1>1, <1>2 DEF RangeArrives, pastVars
  <2>. QED
    BY <1>2, <2>1 DEF Syncing, Live, Marks
<1>3. ~\E s \in Sessions, k \in Keys : Subscribe(t, s, k)
  BY DEF Subscribe, pastVars
<1>4. ASSUME Settle(t)
      PROVE  /\ task'[t] # Idle /\ task'[t].s = task[t].s /\ task'[t].k = task[t].k
             /\ Syncing(t)' => Syncing(t) /\ ~RangeArrives(t)
             /\ Live(t)' => RangeArrives(t) \/ (Live(t) /\ Marks(t)' = Marks(t))
  <2>1. task'[t].s = task[t].s /\ task'[t].k = task[t].k
    BY <1>4, SettleTask
  <2>2. CASE SnapshotArrives(t)
    <3>1. PICK at : task' = [task EXCEPT ![t].stage = "range", ![t].snap = at]
      BY <2>2 DEF SnapshotArrives, pastVars
    <3>2. task'[t].stage = "range" /\ task[t].stage = "snapshot"
      BY <1>0, <2>2, <3>1 DEF SnapshotArrives, Task, pastVars
    <3>. QED
      BY <1>1, <2>1, <3>2 DEF Syncing, Live, Idle
  <2>3. CASE SnapshotFails(t)
    <3>1. task'[t].stage = "failed"
      BY <1>0, <2>3 DEF SnapshotFails, Task, pastVars
    <3>. QED
      BY <2>1, <3>1 DEF Syncing, Live, Idle
  <2>4. CASE RangeArrives(t)
    BY <1>1, <2>1, <2>4 DEF Syncing, Live, Idle
  <2>5. CASE ReplayArrives(t)
    <3>1. task' = [task EXCEPT ![t].stage = "done"] /\ task[t].stage = "replay"
      BY <2>5 DEF ReplayArrives, pastVars
    <3>2. task'[t].stage = "done" /\ Marks(t)' = Marks(t)
      BY <1>0, <3>1 DEF Task, Marks
    <3>. QED
      BY <2>1, <3>1, <3>2 DEF Syncing, Live, Idle
  <2>. QED
    BY <1>4, <2>2, <2>3, <2>4, <2>5 DEF Settle
<1>. QED
  BY <1>2, <1>3, <1>4, NextTasks

\* The new execution of a subscribe.
LEMMA TaskBegins ==
  ASSUME IInv, NEW t \in Attempts, NEW s \in Sessions, NEW k \in Keys, Subscribe(t, s, k)
  PROVE  /\ task[t] = Idle /\ task'[t] # Idle /\ task'[t].stage = "snapshot"
         /\ task'[t].s = s /\ task'[t].k = k
<1>1. task \in [Attempts -> Task \cup {Idle}]
  BY DEF IInv, ClientTypeOK
<1>2. task'[t].stage = "snapshot" /\ task'[t].s = s /\ task'[t].k = k
  BY <1>1 DEF Subscribe, Fence, Register, pastVars
<1>. QED
  BY <1>2 DEF Subscribe, Idle, pastVars

\* An execution that is the only one of its key was the only one.
LEMMA OnlyBefore ==
  ASSUME IInv, [Next]_vars, NEW t \in Attempts, task[t] # Idle, OnlyAttempt(t)'
  PROVE  OnlyAttempt(t)
<1>1. \A u \in Attempts : task[u] # Idle =>
        task'[u] # Idle /\ task'[u].s = task[u].s /\ task'[u].k = task[u].k
  BY TaskMoves
<1>. QED
  BY <1>1 DEF OnlyAttempt

\* Nobody else touches the SubState of the only execution of a key.
LEMMA OnlyMoves ==
  ASSUME Headerless = FALSE, IInv, RegistryConsistent, [Next]_vars,
         NEW t \in Attempts, task[t] # Idle, OnlyAttempt(t)',
         NEW s \in Sessions, NEW k \in Keys, Of(t, s, k), Has(s, k)'
  PROVE  /\ Has(s, k)
         /\ Rests(s, k) \/ ConsumeDiff(k) \/ RangeArrives(t) \/ ReplayArrives(t)
<1>1. task'[t].s = s /\ task'[t].k = k /\ OnlyAttempt(t)
  BY TaskMoves, OnlyBefore DEF Of
<1>2. ASSUME NEW u \in Attempts, Subscribe(u, s, k) PROVE FALSE
  <2>1. u # t
    BY <1>2, TaskBegins
  <2>2. task'[u] # Idle /\ task'[u].s = s /\ task'[u].k = k
    BY <1>2, TaskBegins
  <2>. QED
    BY <1>1, <2>1, <2>2 DEF OnlyAttempt
<1>3. ASSUME NEW u \in Attempts, Of(u, s, k), RangeArrives(u) \/ ReplayArrives(u) PROVE u = t
  <2>1. task[u].stage \in {"range", "replay"}
    BY <1>3, Zenon DEF RangeArrives, ReplayArrives, pastVars
  <2>2. task[u] # Idle
    BY <2>1 DEF Idle
  <2>. QED
    BY <1>1, <1>3, <2>2 DEF OnlyAttempt, Of
<1>4. Rests(s, k) \/ ConsumeDiff(k) \/ RangeArrives(t) \/ ReplayArrives(t)
  BY <1>2, <1>3, NextSub DEF SubMoves
<1>5. CASE Rests(s, k)
  BY <1>5 DEF Rests
<1>6. CASE ConsumeDiff(k)
  BY <1>6, ConsumedDiff, DeliverSub
<1>7. CASE RangeArrives(t)
  BY <1>7, RangeSub
<1>8. CASE ReplayArrives(t)
  BY <1>8, ReplaySub DEF Rests
<1>. QED
  BY <1>4, <1>5, <1>6, <1>7, <1>8

\* What an execution ensures it goes on ensuring.
LEMMA EnsuresStep ==
  ASSUME Headerless = FALSE, IInv, IInv', RegistryConsistent, TopicInv, ReachInv, [Next]_vars,
         NEW t \in Attempts, task[t] # Idle, OnlyAttempt(t)',
         NEW s \in Sessions, NEW k \in Keys, Of(t, s, k)
  PROVE  Ensures(t, s, k)'
<1> SUFFICES ASSUME Has(s, k)'
             PROVE  /\ Syncing(t)' => Held(s, k)'
                    /\ Live(t)' => task'[t].since >= start[k].diff
                    /\ Live(t)' /\ s \notin overflowed' => Reaches(s, k, task[t].floor)'
  BY PastFound DEF Ensures, Has
<1>1. /\ Has(s, k)
      /\ Rests(s, k) \/ ConsumeDiff(k) \/ RangeArrives(t) \/ ReplayArrives(t)
  BY OnlyMoves
<1>2. /\ Syncing(t) => Held(s, k)
      /\ Live(t) => task[t].since >= start[k].diff
      /\ Live(t) /\ s \notin overflowed => Reaches(s, k, task[t].floor)
  BY <1>1, OnlyBefore DEF ReachInv, Ensures, Of
<1>3. /\ Syncing(t)' => Syncing(t) /\ ~RangeArrives(t)
      /\ Live(t)' => RangeArrives(t) \/ (Live(t) /\ Marks(t)' = Marks(t))
  BY TaskMoves
<1>4. ASSUME Syncing(t)' PROVE Held(s, k)'
  <2>1. Syncing(t) /\ ~RangeArrives(t) /\ ~ReplayArrives(t)
    BY <1>3, <1>4 DEF Syncing, ReplayArrives, pastVars
  <2>. QED
    BY <1>1, <1>2, <2>1, HeldStep
<1>5. ASSUME Live(t)', s \notin overflowed', RangeArrives(t)
      PROVE  Reaches(s, k, task[t].floor)'
  <2>1. Held(s, k)
    BY <1>2, <1>5 DEF RangeArrives, Syncing, pastVars
  <2>2. \A floor : floor = task'[t].floor => Reaches(s, k, floor)'
    BY <1>5, <2>1, ReachesBegins
  <2>. QED
    BY <2>2 DEF Reaches
<1>6. ASSUME Live(t)', s \notin overflowed', ~RangeArrives(t)
      PROVE  Reaches(s, k, task[t].floor)'
  <2>1. Live(t) /\ task'[t].floor = task[t].floor
    BY <1>3, <1>6 DEF Marks
  <2>2. s \notin overflowed
    <3>1. subStates'[s] # NoEntries
      BY DEF Has, NoEntries
    <3>2. DOMAIN subStates = Sessions
      BY DEF IInv, ClientTypeOK
    <3>3. ~Close(s)
      BY <3>1, <3>2 DEF Close, pastVars
    <3>. QED
      BY <1>6, <3>3, NextHands
  <2>3. \A floor : floor = task[t].floor => Reaches(s, k, floor)'
    BY <1>1, <1>2, <1>6, <2>1, <2>2, ReachesStep
  <2>. QED
    BY <2>1, <2>3 DEF Reaches
<1>7. ASSUME Live(t)' PROVE task'[t].since >= start[k].diff
  <2>1. CASE RangeArrives(t)
    <3>1. task'[t].since = diffPos[k]
      BY <2>1, RangeSub
    <3>2. diffPos[k] \in Nat /\ start[k].diff \in Nat /\ start[k].diff <= diffPos[k]
      BY DEF IInv, CdcTypeOK, TopicInv
    <3>. QED
      BY <3>1, <3>2
  <2>2. CASE ~RangeArrives(t)
    BY <1>2, <1>3, <1>7, <2>2 DEF Marks
  <2>. QED
    BY <2>1, <2>2
<1>. QED
  BY <1>4, <1>5, <1>6, <1>7
-----------------------------------------------------------------------------
\* TopicInv and ReachInv are inductive relative to IInv and RegistryConsistent.
LEMMA ReachStep ==
  ASSUME Headerless = FALSE, IInv, IInv', RegistryConsistent, TopicInv, ReachInv, [Next]_vars
  PROVE  ReachInv'
<1>0. task \in [Attempts -> Task \cup {Idle}]
  BY DEF IInv, ClientTypeOK
<1> SUFFICES ASSUME NEW t \in Attempts, task'[t] # Idle, OnlyAttempt(t)'
             PROVE  Ensures(t, task[t].s, task[t].k)'
  BY DEF ReachInv
<1>1. CASE task[t] = Idle
  <2>1. PICK s \in Sessions, k \in Keys : Subscribe(t, s, k)
    <3>1. task'[t] # task[t]
      BY <1>1
    <3>2. ~Settle(t)
      BY <1>1, SettleTask
    <3>. QED
      BY <3>1, <3>2, NextTasks
  <2>2. task'[t].stage = "snapshot" /\ task'[t].s = s /\ task'[t].k = k
    BY <2>1, TaskBegins
  <2>3. Ensures(t, s, k)'
    <3>1. Has(s, k)' => Held(s, k)'
      BY <2>1, HeldBegins
    <3>2. ~Live(t)'
      BY <2>2 DEF Live
    <3>. QED
      BY <3>1, <3>2 DEF Ensures
  <2>. QED
    BY <2>2, <2>3 DEF Ensures
<1>2. CASE task[t] # Idle
  <2>1. PICK s \in Sessions, k \in Keys : s = task[t].s /\ k = task[t].k
    BY <1>0, <1>2 DEF Task
  <2>2. task'[t].s = s /\ task'[t].k = k
    BY <1>2, <2>1, TaskMoves
  <2>3. Ensures(t, s, k)'
    BY <1>2, <2>1, EnsuresStep DEF Of
  <2>. QED
    BY <2>2, <2>3 DEF Ensures
<1>. QED
  BY <1>1, <1>2

\* Nothing was consumed and nobody subscribed at first.
LEMMA ReachInit ==
  ASSUME Init
  PROVE  TopicInv /\ ReachInv
<1>1. TopicInv
  <2> SUFFICES ASSUME NEW k \in Keys
               PROVE  /\ start[k].diff <= diffPos[k] /\ diffPos[k] <= Len(topic[k])
                      /\ \A i, j \in 1..Len(topic[k]) : i < j => topic[k][i] < topic[k][j]
                      /\ \A i \in 1..Len(topic[k]) : topic[k][i] >= 1
                      /\ \A i \in Places(k) : FALSE
    BY DEF TopicInv
  <2>1. /\ diffPos[k] \in Nat /\ start[k].diff = diffPos[k] /\ diffPos[k] <= Len(topic[k])
        /\ wal \in Nat
    <3>1. wal \in Nat /\ diffPos \in [Keys -> 0..wal]
      BY ConstantsAssumption DEF Init, Leftovers
    <3>2. diffPos[k] \in Nat
      BY <3>1
    <3>. QED
      BY <3>1, <3>2 DEF Init, Leftovers
  <2>2. PICK S \in SUBSET (1..wal) : topic[k] \in Ascending(S)
    BY DEF Init, Leftovers
  <2>3. IsFiniteSet(S)
    BY <2>1, FS_Interval, FS_Subset, 1 \in Int, wal \in Int
  <2>4. topic[k] \in Seq(S) /\ DOMAIN topic[k] = 1..Len(topic[k])
    BY <2>2, <2>3, AscendingType
  <2>5. \A i \in 1..Len(topic[k]) : topic[k][i] \in 1..wal
    BY <2>4, ElementOfSeq
  <2>6. \A i, j \in 1..Len(topic[k]) : i < j => topic[k][i] < topic[k][j]
    BY <2>2, <2>4 DEF Ascending
  <2>7. \A i \in 1..Len(topic[k]) : topic[k][i] >= 1
    BY <2>1, <2>5
  <2>8. Places(k) = {}
    BY <2>1 DEF Places
  <2>. QED
    BY <2>1, <2>6, <2>7, <2>8
<1>2. ReachInv
  BY DEF Init, ReachInv
<1>. QED
  BY <1>1, <1>2

\* What went live after since was consumed is among what has been consumed.
LEMMA ReachEnough ==
  ASSUME IInv, TopicInv, ReachInv
  PROVE  LiveDiffsReach
<1> SUFFICES ASSUME NEW t \in Attempts, Live(t), OnlyAttempt(t), NEW s, s = task[t].s, NEW k, k = task[t].k,
                    Has(s, k), s \notin overflowed,
                    NEW i \in (task[t].since + 1)..diffPos[k],
                    topic[k][i] > task[t].floor, Later(k, topic[k][i])
             PROVE  topic[k][i] \in Handed(s, k)
  BY DEF LiveDiffsReach, Live
<1>1. task[t] # Idle /\ task[t] \in Task
  BY DEF Live, Idle, IInv, ClientTypeOK
<1>2. task[t].since \in Nat /\ k \in Keys
  BY <1>1 DEF Task
<1>3. Reaches(s, k, task[t].floor) /\ task[t].since >= start[k].diff
  BY <1>1 DEF ReachInv, Ensures
<1>4. /\ diffPos[k] \in Nat /\ diffPos[k] <= Len(topic[k]) /\ topic[k] \in Seq(Nat)
      /\ start[k].diff \in Nat
  BY <1>2 DEF IInv, CdcTypeOK, TopicInv
<1>5. i \in Places(k) /\ i \in Ahead(k) /\ i \in 1..Len(topic[k])
  <2>1. Len(topic[k]) \in Nat
    BY <1>4, LenProperties
  <2>2. \A a, b, m, n \in Nat : a >= b /\ m <= n => \A j \in (a + 1)..m :
          j \in (b + 1)..m /\ j \in (b + 1)..n /\ j \in 1..n
    OBVIOUS
  <2>. QED
    <3>. DEFINE a == task[t].since
                b == start[k].diff
                m == diffPos[k]
                n == Len(topic[k])
    <3>1. a \in Nat /\ b \in Nat /\ m \in Nat /\ n \in Nat /\ a >= b /\ m <= n /\ i \in (a + 1)..m
      BY <1>2, <1>3, <1>4, <2>1
    <3>. HIDE DEF a, b, m, n
    <3>2. i \in (b + 1)..m /\ i \in (b + 1)..n /\ i \in 1..n
      BY <2>2, <3>1
    <3>. QED
      BY <3>2 DEF Places, Ahead, b, m, n
<1>6. topic[k][i] \in Consumed(k) /\ topic[k][i] <= topic[k][i]
  <2>1. topic[k][i] \in Nat
    BY <1>4, <1>5, ElementOfSeq
  <2>. QED
    BY <1>5, <2>1 DEF Consumed
<1>. QED
  BY <1>3, <1>5, <1>6 DEF Reaches

(* Whatever the sockets refuse, however often consumption goes back, and    *)
(* whatever else happens between the awaits of handleSubscribe: a live      *)
(* subscription loses no diff above the cursor it started from and later    *)
(* than what KeyDB kept from earlier processes, unless its queue overflowed *)
(* (delivery.ts 72-88, subscribe.ts 97-125, io.ts 24-31).                   *)
THEOREM LiveReach ==
  ASSUME Headerless = FALSE
  PROVE  Spec => []LiveDiffsReach
<1>1. Init => TopicInv /\ ReachInv
  BY ReachInit
<1>2. IInv /\ IInv' /\ RegistryConsistent /\ TopicInv /\ ReachInv /\ [Next]_vars
        => TopicInv' /\ ReachInv'
  BY TopicStep, ReachStep
<1>3. IInv /\ TopicInv /\ ReachInv => LiveDiffsReach
  BY ReachEnough
<1>. QED
  BY <1>1, <1>2, <1>3, Invariant, RegistrySafe, PTL DEF Spec
=============================================================================
