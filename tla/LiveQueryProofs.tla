------------------------- MODULE LiveQueryProofs -------------------------
(***************************************************************************)
(* Theorems about LiveQuery for every number of sessions, keys, attempts   *)
(* and every value of the bounds.                                          *)
(***************************************************************************)
EXTENDS LiveQuery, TLAPS, FiniteSetTheorems, SequenceTheorems
-----------------------------------------------------------------------------
(* Sequences. *)

(* What enumerates a finite set of numbers is a sequence over it. *)
LEMMA AscendingType ==
  ASSUME NEW S, IsFiniteSet(S), NEW q \in Ascending(S)
  PROVE  q \in Seq(S) /\ DOMAIN q = 1..Len(q) /\ Len(q) \in Nat
<1>1. Cardinality(S) \in Nat
  BY FS_CardinalityType
<1>2. q \in [1..Cardinality(S) -> S]
  BY DEF Ascending
<1>3. q \in Seq(S)
  BY <1>1, <1>2, SeqDef
<1>. QED
  BY <1>3, LenProperties

(* A part of a sequence is a sequence over the same set. *)
LEMMA SubSeqType ==
  ASSUME NEW F, NEW q \in Seq(F), NEW m \in Nat \ {0}, NEW n \in Nat, n <= Len(q)
  PROVE  SubSeq(q, m, n) \in Seq(F)
<1>1. \A i \in m..n : q[i] \in F
  BY ElementOfSeq
<1>. QED
  BY <1>1, SubSeqProperties

(* The queue after a run of pushes keeps its frames and its bound. *)
LEMMA EnqueueType ==
  ASSUME NEW F, NEW queue \in Seq(F), NEW frames \in Seq(F)
  PROVE  /\ Enqueue(queue, frames) \in Seq(F)
         /\ Len(Enqueue(queue, frames)) <= MaxQueue
<1> DEFINE all == queue \o frames
           kept == Len(all) % (MaxQueue + 1)
<1>1. all \in Seq(F) /\ Len(all) \in Nat
  BY ConcatProperties, LenProperties
<1>2. MaxQueue + 1 \in Nat /\ MaxQueue + 1 > 0
  BY ConstantsAssumption
<1>3. kept \in 0..MaxQueue /\ kept <= Len(all)
  <2> HIDE DEF all
  <2>. QED BY <1>1, <1>2, ConstantsAssumption
<1>4. \A i \in (Len(all) - kept + 1)..Len(all) : all[i] \in F
  <2> HIDE DEF kept, all
  <2>. QED BY <1>1, <1>3, ElementOfSeq
<1>5. /\ SubSeq(all, Len(all) - kept + 1, Len(all)) \in Seq(F)
      /\ Len(SubSeq(all, Len(all) - kept + 1, Len(all))) <= MaxQueue
  <2> HIDE DEF kept, all
  <2>1. Len(all) - kept + 1 \in Int /\ Len(all) \in Int
    BY <1>1, <1>3
  <2>. QED BY <1>1, <1>3, <1>4, <2>1, SubSeqProperties, ConstantsAssumption
<1>. QED
  BY <1>5 DEF Enqueue
-----------------------------------------------------------------------------
(* Sending. *)

(* The send state with every frame on a wire or in a queue taken from F.    *)
SendState(F) ==
  /\ sendQueue \in [Sessions -> Seq(F)]
  /\ \A s \in Sessions : Len(sendQueue[s]) <= MaxQueue
  /\ slow \in SUBSET Sessions /\ slowSockets \in Nat
  /\ wire \in [Sessions -> Seq(F)]
  /\ overflowed \in SUBSET Sessions

LEMMA AcceptancesType ==
  ASSUME NEW F, NEW out \in [Sessions -> Seq(F)], NEW took \in Acceptances(out)
  PROVE  \A s \in Sessions : took[s] \in Nat /\ took[s] <= Len(out[s])
<1>1. \A s \in Sessions : Len(out[s]) \in Nat
  BY LenProperties
<1>. QED
  BY <1>1 DEF Acceptances

(* Emitting frames of F keeps the send state over F. *)
LEMMA EmitType ==
  ASSUME NEW F, Notice("overflow") \in F, SendState(F),
         NEW out \in [Sessions -> Seq(F)], NEW took \in Acceptances(out), Emit(out, took)
  PROVE  /\ sendQueue' \in [Sessions -> Seq(F)]
         /\ \A s \in Sessions : Len(sendQueue'[s]) <= MaxQueue
         /\ slow' \in SUBSET Sessions /\ slowSockets' \in Nat
         /\ wire' \in [Sessions -> Seq(F)]
         /\ overflowed' \in SUBSET Sessions
<1>1. \A s \in Sessions : Len(out[s]) \in Nat
  BY LenProperties
<1>2. \A s \in Sessions : took[s] \in Nat /\ took[s] <= Len(out[s])
  BY AcceptancesType
<1>3. \A s \in Sessions : Refused(out, took, s) \in Seq(F)
  <2>1. ASSUME NEW s \in Sessions PROVE Refused(out, took, s) \in Seq(F)
    <3>1. out[s] \in Seq(F) /\ took[s] + 1 \in Nat \ {0} /\ Len(out[s]) \in Nat
      BY <1>1, <1>2
    <3>. QED BY <3>1, SubSeqType DEF Refused
  <2>. QED BY <2>1
<1>4. /\ sendQueue' \in [Sessions -> Seq(F)]
      /\ \A s \in Sessions : Len(sendQueue'[s]) <= MaxQueue
  <2>1. \A s \in Sessions : /\ Enqueue(sendQueue[s], Refused(out, took, s)) \in Seq(F)
                            /\ Len(Enqueue(sendQueue[s], Refused(out, took, s))) <= MaxQueue
    BY <1>3, EnqueueType DEF SendState
  <2>2. sendQueue' = [s \in Sessions |-> Enqueue(sendQueue[s], Refused(out, took, s))]
    BY DEF Emit
  <2>. QED BY <2>1, <2>2
<1>5. slow' \in SUBSET Sessions /\ slowSockets' \in Nat
  <2>1. IsFiniteSet({s \in Sessions : took[s] < Len(out[s])} \ slow)
    BY FS_Subset, ConstantsAssumption
  <2>2. Cardinality({s \in Sessions : took[s] < Len(out[s])} \ slow) \in Nat
    BY <2>1, FS_CardinalityType
  <2>. QED BY <2>2 DEF Emit, NewlySlow, SendState
<1>6. overflowed' \in SUBSET Sessions
  BY DEF Emit, SendState
<1>7. wire' \in [Sessions -> Seq(F)]
  <2>1. \A s \in Sessions : SubSeq(out[s], 1, took[s]) \in Seq(F)
    BY <1>1, <1>2, SubSeqType
  <2>2. <<Notice("overflow")>> \in Seq(F) /\ <<>> \in Seq(F)
    OBVIOUS
  <2>3. PICK told \in SUBSET Sessions :
          wire' = [s \in Sessions |->
                     wire[s] \o (IF IsData(out[s]) THEN SubSeq(out[s], 1, took[s]) ELSE <<>>)
                       \o (IF s \in told THEN <<Notice("overflow")>> ELSE <<>>)]
    BY DEF Emit
  <2>4. \A s \in Sessions :
          wire[s] \o (IF IsData(out[s]) THEN SubSeq(out[s], 1, took[s]) ELSE <<>>)
            \o (IF s \in told THEN <<Notice("overflow")>> ELSE <<>>) \in Seq(F)
    <3>1. ASSUME NEW s \in Sessions, NEW a \in Seq(F), NEW b \in Seq(F)
          PROVE  wire[s] \o a \o b \in Seq(F)
      BY ConcatProperties DEF SendState
    <3>. QED BY <2>1, <2>2, <3>1
  <2>. QED BY <2>3, <2>4
<1>. QED
  BY <1>4, <1>5, <1>6, <1>7

LEMMA SafeSendType ==
  ASSUME NEW F, Notice("overflow") \in F, SendState(F),
         NEW s \in Sessions, NEW frames \in Seq(F), SafeSend(s, frames)
  PROVE  /\ sendQueue' \in [Sessions -> Seq(F)]
         /\ \A r \in Sessions : Len(sendQueue'[r]) <= MaxQueue
         /\ slow' \in SUBSET Sessions /\ slowSockets' \in Nat
         /\ wire' \in [Sessions -> Seq(F)]
         /\ overflowed' \in SUBSET Sessions
<1>1. To(s, frames) \in [Sessions -> Seq(F)]
  BY EmptySeq DEF To
<1>2. PICK took \in Acceptances(To(s, frames)) : Emit(To(s, frames), took)
  BY DEF SafeSend
<1>. QED
  BY <1>1, <1>2, EmitType

(* Draining moves frames from the queue to the wire. *)
LEMMA DrainType ==
  ASSUME NEW F, SendState(F), NEW s \in Sessions, Drain(s)
  PROVE  SendState(F)'
<1>1. PICK n \in 0..Len(sendQueue[s]) :
        /\ \E q \in Ascending({i \in 1..n : sendQueue[s][i].op \in DataOps}) :
             wire' = [wire EXCEPT ![s] = @ \o [i \in DOMAIN q |-> sendQueue[s][q[i]]]]
        /\ sendQueue' = [sendQueue EXCEPT ![s] = SubSeq(@, n + 1, Len(@))]
  BY DEF Drain, pastVars
<1>2. sendQueue[s] \in Seq(F) /\ Len(sendQueue[s]) \in Nat /\ n \in Nat
  BY LenProperties DEF SendState
<1>3. PICK q \in Ascending({i \in 1..n : sendQueue[s][i].op \in DataOps}) :
        wire' = [wire EXCEPT ![s] = @ \o [i \in DOMAIN q |-> sendQueue[s][q[i]]]]
  BY <1>1
<1>4. [i \in DOMAIN q |-> sendQueue[s][q[i]]] \in Seq(F)
  <2> DEFINE I == {i \in 1..n : sendQueue[s][i].op \in DataOps}
  <2>1. IsFiniteSet(I)
    BY <1>2, FS_Interval, FS_Subset, 1 \in Int, n \in Int
  <2>2. q \in Seq(I) /\ DOMAIN q = 1..Len(q) /\ Len(q) \in Nat
    BY <1>3, <2>1, AscendingType
  <2>3. \A i \in 1..Len(q) : sendQueue[s][q[i]] \in F
    <3>1. \A i \in 1..Len(q) : q[i] \in 1..Len(sendQueue[s])
      BY <1>2, <2>2, ElementOfSeq
    <3>. QED BY <1>2, <3>1, ElementOfSeq
  <2>4. [i \in 1..Len(q) |-> sendQueue[s][q[i]]] \in [1..Len(q) -> F]
    BY <2>3
  <2>. QED BY <2>2, <2>4, SeqDef
<1>5. wire' \in [Sessions -> Seq(F)]
  BY <1>3, <1>4, ConcatProperties DEF SendState
<1>6. /\ SubSeq(sendQueue[s], n + 1, Len(sendQueue[s])) \in Seq(F)
      /\ Len(SubSeq(sendQueue[s], n + 1, Len(sendQueue[s]))) <= MaxQueue
  <2>1. \A i \in (n + 1)..Len(sendQueue[s]) : sendQueue[s][i] \in F
    BY <1>2, ElementOfSeq
  <2>. QED BY <1>2, <2>1, SubSeqProperties, ConstantsAssumption DEF SendState
<1>7. /\ sendQueue' \in [Sessions -> Seq(F)]
      /\ \A r \in Sessions : Len(sendQueue'[r]) <= MaxQueue
  BY <1>1, <1>6 DEF SendState
<1>8. slow' \in SUBSET Sessions /\ slowSockets' \in Nat /\ overflowed' \in SUBSET Sessions
  BY DEF Drain, SendState, pastVars
<1>. QED
  BY <1>5, <1>7, <1>8 DEF SendState
-----------------------------------------------------------------------------
(* The inductive invariant.  Positions only come from the database, so no   *)
(* variable is ahead of the one it was taken from: the buffers are bounded  *)
(* by LAST_SEEN_LSN, KeyDB and the diffs sent by that or by what KeyDB held *)
(* at the start; all of these and every cursor by wal; a fence by wal at    *)
(* the time of the snapshot request.                                        *)

(* The LSNs of k the process may hold, having seen l and found g.           *)
Known(g, k, l) == 0..l \cup g[k]

PastFrames(l, g) == {f \in Frame : f.op = "diff" => f.lsn \in Known(g, f.key, l)}

Stored(h, l, g) ==
  /\ h \in [Keys -> Seq(Nat)]
  /\ \A k \in Keys : h[k] \in Seq(Known(g, k, l))

LogBounds ==
  /\ lastSeen <= wal
  /\ topic \in [Keys -> Seq(0..wal)]
  /\ found \in [Keys -> SUBSET (0..wal)]
  /\ Stored(hot, lastSeen, found)

SubBounds ==
  \A s \in Sessions : \A k \in DOMAIN subStates[s] :
    /\ subStates[s][k].cursorLsn <= wal
    /\ subStates[s][k].buffer \subseteq 0..lastSeen

TaskBounds ==
  \A t \in Attempts : task[t] # Idle =>
    /\ task[t].fence <= task[t].asked
    /\ task[t].asked <= wal
    /\ HasSnapshot(t) => task[t].fence <= task[t].snap

IInv ==
  /\ ClientTypeOK
  /\ CdcTypeOK
  /\ SendState(PastFrames(lastSeen, found))
  /\ LogBounds
  /\ SubBounds
  /\ TaskBounds

(* Later bounds admit what earlier ones did.                                *)
LEMMA SeqWiden ==
  ASSUME NEW D, NEW S, NEW T, S \subseteq T, NEW f \in [D -> Seq(S)]
  PROVE  f \in [D -> Seq(T)]
<1>1. \A x \in D : f[x] \in Seq(T)
  BY SeqMonotonic
<1>. QED
  BY <1>1

LEMMA SendWiden ==
  ASSUME NEW g \in [Keys -> SUBSET Nat], NEW l \in Nat, NEW m \in Nat, l <= m,
         SendState(PastFrames(l, g))
  PROVE  SendState(PastFrames(m, g))
<1>1. PastFrames(l, g) \subseteq PastFrames(m, g)
  <2>1. ASSUME NEW f \in PastFrames(l, g) PROVE f \in PastFrames(m, g)
    BY DEF PastFrames, Known
  <2>. QED BY <2>1
<1>. QED
  BY <1>1, SeqWiden DEF SendState

LEMMA StoredWiden ==
  ASSUME NEW g \in [Keys -> SUBSET Nat], NEW l \in Nat, NEW m \in Nat, l <= m,
         NEW h, Stored(h, l, g)
  PROVE  Stored(h, m, g)
<1>1. ASSUME NEW k \in Keys PROVE h[k] \in Seq(Known(g, k, m))
  <2>1. Known(g, k, l) \subseteq Known(g, k, m)
    BY DEF Known
  <2>. QED BY <2>1, SeqMonotonic DEF Stored
<1>. QED
  BY <1>1 DEF Stored

(* KeyDB's list of one key replaced by a list of known diffs.               *)
LEMMA StoredReplaced ==
  ASSUME NEW g \in [Keys -> SUBSET Nat], NEW l \in Nat, NEW h, Stored(h, l, g),
         NEW k \in Keys, NEW q \in Seq(Known(g, k, l))
  PROVE  Stored([h EXCEPT ![k] = q], l, g)
<1>1. Known(g, k, l) \subseteq Nat
  BY DEF Known
<1>2. q \in Seq(Nat)
  BY <1>1, SeqMonotonic
<1>. QED
  BY <1>2 DEF Stored

(* The frames the gateway sends, given that diffs are known.                *)
LEMMA FramesPast ==
  ASSUME NEW g \in [Keys -> SUBSET Nat], NEW k \in Keys, NEW l \in Nat
  PROVE  /\ FrameOf("ack", k, 0) \in PastFrames(l, g)
         /\ FrameOf("rangeIndex", k, 0) \in PastFrames(l, g)
         /\ \A n \in Nat : FrameOf("snapshot", k, n) \in PastFrames(l, g)
         /\ \A n \in Nat : FrameOf("rowEvent", k, n) \in PastFrames(l, g)
         /\ \A n \in Known(g, k, l) : FrameOf("diff", k, n) \in PastFrames(l, g)
         /\ Notice("overflow") \in PastFrames(l, g)
         /\ Notice("snapshot_failed") \in PastFrames(l, g)
  BY DEF PastFrames, Frame, FrameOf, Notice, Known

LEMMA PastFound ==
  ASSUME IInv, [Next]_vars
  PROVE  /\ found' = found /\ start' = start
         /\ found \in [Keys -> SUBSET Nat]
<1>1. UNCHANGED pastVars
  BY DEF Next, vars, Commit, Rewind, ConsumeDiff, ConsumeRow, OpenSession, Drain, Close,
         Subscribe, Settle, SnapshotArrives, SnapshotFails, RangeArrives, ReplayArrives, Unsubscribe, pastVars
<1>. QED
  BY <1>1 DEF pastVars, IInv, CdcTypeOK

LEMMA PutType ==
  ASSUME NEW D, NEW R, NEW f, IsMap(f, D, R), NEW x \in D, NEW v \in R
  PROVE  /\ IsMap(Put(f, x, v), D, R)
         /\ DOMAIN Put(f, x, v) = DOMAIN f \cup {x}
         /\ Put(f, x, v)[x] = v
         /\ \A y \in DOMAIN f : y # x => Put(f, x, v)[y] = f[y]
  BY DEF Put, IsMap

(* Adding and removing subscriptions keep the registry's shape.             *)
LEMMA AddSubType ==
  ASSUME ClientTypeOK, NEW s \in Sessions, NEW k \in Keys, AddSub(s, k)
  PROVE  subs' \in [Sessions -> SUBSET Keys] /\ IsMap(subToSessions', Keys, SUBSET Sessions)
<1>1. subs' \in [Sessions -> SUBSET Keys]
  BY DEF AddSub, ClientTypeOK
<1>2. (IF k \in DOMAIN subToSessions THEN subToSessions[k] ELSE {}) \cup {s} \in SUBSET Sessions
  BY DEF ClientTypeOK, IsMap
<1>3. IsMap(subToSessions', Keys, SUBSET Sessions)
  BY <1>2, PutType DEF AddSub, ClientTypeOK
<1>. QED
  BY <1>1, <1>3

LEMMA RemoveSubsType ==
  ASSUME ClientTypeOK, NEW s \in Sessions, NEW ks \in SUBSET Keys, RemoveSubs(s, ks)
  PROVE  subs' \in [Sessions -> SUBSET Keys] /\ IsMap(subToSessions', Keys, SUBSET Sessions)
  BY DEF RemoveSubs, ClientTypeOK, IsMap

THEOREM InitIInv == Init => IInv
<1> SUFFICES ASSUME Init PROVE IInv
  OBVIOUS
<1>1. ClientTypeOK
  BY DEF Init, ClientTypeOK, IsMap, NoEntries
<1>2. /\ wal \in Nat /\ wal \in 0..MaxEarlier
      /\ topic \in [Keys -> Seq(0..wal)]
      /\ found \in [Keys -> SUBSET (0..wal)]
      /\ hot \in [Keys -> Seq(0..wal)] /\ \A k \in Keys : hot[k] \in Seq(found[k])
  <2>1. wal \in Nat /\ wal \in 0..MaxEarlier
    BY ConstantsAssumption DEF Init, Leftovers
  <2>2. ASSUME NEW k \in Keys PROVE topic[k] \in Seq(0..wal)
    <3>1. PICK S \in SUBSET (1..wal) : topic[k] \in Ascending(S)
      BY DEF Init, Leftovers
    <3>2. IsFiniteSet(S)
      BY <2>1, FS_Interval, FS_Subset, 1 \in Int, wal \in Int
    <3>3. topic[k] \in Seq(S) /\ S \subseteq 0..wal
      BY <3>1, <3>2, AscendingType
    <3>. QED BY <3>3, SeqMonotonic
  <2>3. ASSUME NEW k \in Keys
        PROVE  hot[k] \in Seq(0..wal) /\ found[k] \in SUBSET (0..wal) /\ hot[k] \in Seq(found[k])
    <3>0. hot[k] \in Lists(0..wal, MaxDiffs)
      BY DEF Init, Leftovers
    <3>1. PICK m \in 0..MaxDiffs : hot[k] \in [1..m -> 0..wal]
      BY <3>0, Zenon DEF Lists
    <3>2. m \in Nat
      BY ConstantsAssumption
    <3>3. found[k] = {hot[k][i] : i \in 1..m}
      BY <3>1 DEF Init, Leftovers, Range
    <3>4. hot[k] \in [1..m -> found[k]]
      BY <3>1, <3>3
    <3>5. hot[k] \in Seq(0..wal) /\ hot[k] \in Seq(found[k])
      BY <3>1, <3>2, <3>4, SeqDef
    <3>6. found[k] \subseteq 0..wal
      BY <3>1, <3>3
    <3>. QED BY <3>5, <3>6
  <2>4. topic = [k \in Keys |-> topic[k]] /\ hot = [k \in Keys |-> hot[k]] /\ found = [k \in Keys |-> found[k]]
    BY DEF Init, Leftovers
  <2>5. topic \in [Keys -> Seq(0..wal)]
    BY <2>2, <2>4
  <2>6. hot \in [Keys -> Seq(0..wal)]
    BY <2>3, <2>4
  <2>7. found \in [Keys -> SUBSET (0..wal)]
    BY <2>3, <2>4
  <2>. QED BY <2>1, <2>3, <2>5, <2>6, <2>7
<1>6. 0..wal \subseteq Nat
  BY <1>2
<1>7. CdcTypeOK
  <2>1. topic \in [Keys -> Seq(Nat)] /\ hot \in [Keys -> Seq(Nat)]
    BY <1>2, <1>6, SeqWiden
  <2>2. diffPos \in [Keys -> 0..wal] /\ rowPos \in [Keys -> 0..wal]
    BY DEF Init, Leftovers
  <2>3. start \in [Keys -> [diff : Nat, row : Nat]]
    BY <1>6, <2>2 DEF Init, Leftovers
  <2>4. found \in [Keys -> SUBSET Nat] /\ diffPos \in [Keys -> Nat] /\ rowPos \in [Keys -> Nat]
    BY <1>2, <1>6, <2>2
  <2>5. lastSeen \in Nat /\ rewinds \in Nat
    BY DEF Init
  <2>. QED BY <1>2, <2>1, <2>3, <2>4, <2>5 DEF CdcTypeOK
<1>3. SendState(PastFrames(lastSeen, found))
  <2>1. <<>> \in Seq(PastFrames(lastSeen, found)) /\ Len(<<>>) = 0
    BY EmptySeq
  <2>. QED BY <2>1, ConstantsAssumption DEF Init, SendState, Silence
<1>4. LogBounds
  <2>1. ASSUME NEW k \in Keys PROVE hot[k] \in Seq(Known(found, k, lastSeen))
    <3>1. found[k] \subseteq Known(found, k, lastSeen)
      BY DEF Known
    <3>. QED BY <1>2, <3>1, SeqMonotonic
  <2>2. lastSeen <= wal
    BY <1>2 DEF Init
  <2>. QED BY <1>2, <1>7, <2>1, <2>2 DEF LogBounds, Stored, CdcTypeOK
<1>5. SubBounds /\ TaskBounds
  BY DEF Init, SubBounds, TaskBounds, NoEntries
<1>. QED
  BY <1>1, <1>3, <1>4, <1>5, <1>7 DEF IInv
-----------------------------------------------------------------------------
(* Each action preserves the invariant. *)

LEMMA CommitStep ==
  ASSUME IInv, NEW ks \in SUBSET Keys, Commit(ks)
  PROVE  IInv'
<1>1. ClientTypeOK' /\ SendState(PastFrames(lastSeen, found))'
  BY DEF IInv, Commit, clientVars, sendVars, ClientTypeOK, SendState, pastVars
<1>2. wal' = wal + 1 /\ wal \in Nat /\ lastSeen' = lastSeen /\ lastSeen <= wal /\ lastSeen \in Nat
  BY DEF IInv, Commit, CdcTypeOK, LogBounds, pastVars
<1>3. topic' \in [Keys -> Seq(0..wal')]
  <2>1. ASSUME NEW k \in Keys
        PROVE  topic[k] \in Seq(0..wal') /\ Append(topic[k], wal') \in Seq(0..wal')
    <3>1. topic[k] \in Seq(0..wal') /\ wal' \in 0..wal'
      <4>1. topic[k] \in Seq(0..wal) /\ 0..wal \subseteq 0..wal'
        BY <1>2 DEF IInv, LogBounds
      <4>. QED BY <1>2, <4>1, SeqMonotonic
    <3>. QED BY <3>1, AppendProperties
  <2>. QED BY <1>2, <2>1 DEF Commit, pastVars
<1>4. CdcTypeOK'
  <2>1. topic' \in [Keys -> Seq(Nat)]
    <3>1. 0..wal' \subseteq Nat
      BY <1>2
    <3>. QED BY <1>3, <3>1, SeqWiden
  <2>. QED BY <1>2, <2>1 DEF IInv, Commit, CdcTypeOK, pastVars
<1>5. LogBounds'
  <2>1. found' = found /\ hot' = hot
    BY DEF Commit, pastVars
  <2>2. found \in [Keys -> SUBSET (0..wal')]
    <3>1. 0..wal \subseteq 0..wal'
      BY <1>2
    <3>. QED BY <3>1 DEF IInv, LogBounds
  <2>. QED BY <1>2, <1>3, <2>1, <2>2 DEF IInv, LogBounds
<1>6. SubBounds' /\ TaskBounds'
  <2>1. subStates' = subStates /\ task' = task
    BY DEF Commit, clientVars, pastVars
  <2>2. SubBounds'
    <3>1. \A s \in Sessions : \A k \in DOMAIN subStates[s] : subStates[s][k].cursorLsn \in Nat
      BY DEF IInv, ClientTypeOK, IsMap, SubState
    <3>. QED BY <1>2, <2>1, <3>1 DEF IInv, SubBounds
  <2>3. TaskBounds'
    <3>1. \A t \in Attempts : task[t] # Idle => task[t].asked \in Nat
      BY DEF IInv, ClientTypeOK, Task
    <3>. QED BY <1>2, <2>1, <3>1 DEF IInv, TaskBounds, HasSnapshot
  <2>. QED BY <2>2, <2>3
<1>. QED
  BY <1>1, <1>4, <1>5, <1>6 DEF IInv

LEMMA RewindStep ==
  ASSUME IInv, NEW k \in Keys, Rewind(k)
  PROVE  IInv'
<1>1. PICK p \in start[k].diff..diffPos[k], r \in start[k].row..rowPos[k] :
        /\ diffPos' = [diffPos EXCEPT ![k] = p]
        /\ rowPos' = [rowPos EXCEPT ![k] = r]
  BY DEF Rewind, pastVars
<1>2. CdcTypeOK'
  <2>1. start[k].diff \in Nat /\ start[k].row \in Nat
    BY DEF IInv, CdcTypeOK
  <2>2. p \in Nat /\ r \in Nat
    BY <2>1 DEF IInv, CdcTypeOK
  <2>. QED BY <1>1, <2>2 DEF IInv, Rewind, CdcTypeOK, pastVars
<1>3. /\ ClientTypeOK' /\ SendState(PastFrames(lastSeen, found))'
      /\ LogBounds' /\ SubBounds' /\ TaskBounds'
  BY DEF IInv, Rewind, clientVars, sendVars, ClientTypeOK, SendState, LogBounds,
         SubBounds, TaskBounds, HasSnapshot, pastVars
<1>. QED
  BY <1>2, <1>3 DEF IInv

LEMMA OpenSessionStep ==
  ASSUME IInv, NEW s \in Sessions, OpenSession(s)
  PROVE  IInv'
<1>1. ClientTypeOK'
  BY DEF IInv, OpenSession, ClientTypeOK, pastVars
<1>2. /\ CdcTypeOK' /\ SendState(PastFrames(lastSeen, found))'
      /\ LogBounds' /\ SubBounds' /\ TaskBounds'
  BY DEF IInv, OpenSession, cdcVars, sendVars, CdcTypeOK, SendState, LogBounds,
         SubBounds, TaskBounds, HasSnapshot, pastVars
<1>. QED
  BY <1>1, <1>2 DEF IInv

LEMMA DrainStep ==
  ASSUME IInv, NEW s \in Sessions, Drain(s)
  PROVE  IInv'
<1>1. SendState(PastFrames(lastSeen, found))'
  <2>1. lastSeen' = lastSeen
    BY DEF Drain
  <2>2. found' = found
    BY DEF Drain, pastVars
  <2>. QED BY <2>1, <2>2, DrainType DEF IInv, SendState
<1>2. /\ ClientTypeOK' /\ CdcTypeOK' /\ LogBounds' /\ SubBounds' /\ TaskBounds'
  BY DEF IInv, Drain, clientVars, cdcVars, ClientTypeOK, CdcTypeOK, LogBounds,
         SubBounds, TaskBounds, HasSnapshot, pastVars
<1>. QED
  BY <1>1, <1>2 DEF IInv

LEMMA CloseStep ==
  ASSUME IInv, NEW s \in Sessions, Close(s)
  PROVE  IInv'
<1>1. ClientTypeOK'
  <2>1. subs[s] \in SUBSET Keys
    BY DEF IInv, ClientTypeOK
  <2>2. subs' \in [Sessions -> SUBSET Keys] /\ IsMap(subToSessions', Keys, SUBSET Sessions)
    BY <2>1, RemoveSubsType DEF IInv, Close, pastVars
  <2>3. DOMAIN subStates' = Sessions /\ \A r \in Sessions : IsMap(subStates'[r], Keys, SubState)
    BY DEF IInv, Close, ClientTypeOK, IsMap, NoEntries, pastVars
  <2>. QED BY <2>2, <2>3 DEF IInv, Close, ClientTypeOK, pastVars
<1>2. SendState(PastFrames(lastSeen, found))'
  BY EmptySeq, ConstantsAssumption DEF IInv, Close, SendState, pastVars
<1>3. SubBounds'
  BY DEF IInv, Close, SubBounds, cdcVars, NoEntries, ClientTypeOK, pastVars
<1>4. CdcTypeOK' /\ LogBounds' /\ TaskBounds'
  BY DEF IInv, Close, cdcVars, CdcTypeOK, LogBounds, TaskBounds, HasSnapshot, pastVars
<1>. QED
  BY <1>1, <1>2, <1>3, <1>4 DEF IInv

LEMMA UnsubscribeStep ==
  ASSUME IInv, NEW s \in Sessions, NEW k \in Keys, Unsubscribe(s, k)
  PROVE  IInv'
<1>1. IsMap(subStates[s], Keys, SubState) /\ subStates' = [subStates EXCEPT ![s] = Drop(@, k)]
  BY DEF IInv, Unsubscribe, ClientTypeOK, pastVars
<1>2. /\ IsMap(Drop(subStates[s], k), Keys, SubState)
      /\ DOMAIN Drop(subStates[s], k) = DOMAIN subStates[s] \ {k}
      /\ \A y \in DOMAIN subStates[s] \ {k} : Drop(subStates[s], k)[y] = subStates[s][y]
  BY <1>1 DEF Drop, Restrict, IsMap
<1>3. ClientTypeOK'
  <2>1. subs' \in [Sessions -> SUBSET Keys] /\ IsMap(subToSessions', Keys, SUBSET Sessions)
    BY RemoveSubsType DEF IInv, Unsubscribe, pastVars
  <2>. QED BY <1>1, <1>2, <2>1 DEF IInv, Unsubscribe, ClientTypeOK, pastVars
<1>4. SubBounds'
  BY <1>1, <1>2 DEF IInv, Unsubscribe, SubBounds, cdcVars, ClientTypeOK, pastVars
<1>5. CdcTypeOK' /\ LogBounds' /\ TaskBounds' /\ SendState(PastFrames(lastSeen, found))'
  BY DEF IInv, Unsubscribe, cdcVars, sendVars, CdcTypeOK, LogBounds, TaskBounds,
         HasSnapshot, SendState, pastVars
<1>. QED
  BY <1>3, <1>4, <1>5 DEF IInv

(* What Subscribe records keeps its shape and its bounds.                   *)
LEMMA FenceBounds ==
  ASSUME IInv, NEW t \in Attempts, NEW s \in Sessions, NEW k \in Keys,
         NEW resume \in 0..wal, Fence(t, s, k, resume), wal' = wal, lastSeen' = lastSeen
  PROVE  /\ DOMAIN subStates' = Sessions
         /\ \A r \in Sessions : IsMap(subStates'[r], Keys, SubState)
         /\ task' \in [Attempts -> Task \cup {Idle}]
         /\ SubBounds' /\ TaskBounds'
<1> DEFINE fence == Larger(resume, lastSeen)
           new == [cursorLsn |-> fence, buffering |-> TRUE, buffer |-> {}]
           rec == [stage |-> "snapshot", s |-> s, k |-> k, fence |-> fence, sent |-> Len(wire[s]),
                   asked |-> wal, snap |-> 0, since |-> 0, floor |-> 0]
<1>1. fence \in Nat /\ fence <= wal /\ wal \in Nat
  BY DEF IInv, CdcTypeOK, LogBounds, Larger
<1>2. /\ subStates' = [subStates EXCEPT ![s] = Put(@, k, new)]
      /\ task' = [task EXCEPT ![t] = rec]
  BY DEF Fence, Register
<1>3. new \in SubState /\ new.cursorLsn = fence /\ new.buffer = {}
  <2> HIDE DEF fence
  <2>. QED BY <1>1 DEF SubState
<1>4. rec \in Task /\ rec.fence = fence /\ rec.asked = wal /\ rec.stage = "snapshot"
  <2>1. Len(wire[s]) \in Nat
    BY LenProperties DEF IInv, SendState
  <2> HIDE DEF fence
  <2>. QED BY <1>1, <2>1 DEF Task, Stages
<1> HIDE DEF fence, new, rec
<1>5. /\ DOMAIN subStates = Sessions
      /\ \A r \in Sessions : IsMap(subStates[r], Keys, SubState)
      /\ task \in [Attempts -> Task \cup {Idle}]
  BY DEF IInv, ClientTypeOK
<1>6. /\ IsMap(Put(subStates[s], k, new), Keys, SubState)
      /\ DOMAIN Put(subStates[s], k, new) = DOMAIN subStates[s] \cup {k}
      /\ Put(subStates[s], k, new)[k] = new
      /\ \A y \in DOMAIN subStates[s] :
           y # k => Put(subStates[s], k, new)[y] = subStates[s][y]
  BY <1>3, <1>5 DEF Put, IsMap
<1>7. /\ DOMAIN subStates' = Sessions
      /\ \A r \in Sessions : IsMap(subStates'[r], Keys, SubState)
  BY <1>2, <1>5, <1>6
<1>8. task' \in [Attempts -> Task \cup {Idle}]
  BY <1>2, <1>4, <1>5
<1>9. SubBounds'
  <2>1. ASSUME NEW r \in Sessions, NEW x \in DOMAIN subStates'[r]
        PROVE  subStates'[r][x].cursorLsn <= wal /\ subStates'[r][x].buffer \subseteq 0..lastSeen
    <3>1. CASE r = s /\ x = k
      <4>1. subStates'[r][x] = new
        BY <1>2, <1>5, <1>6, <3>1
      <4>. QED BY <1>1, <1>3, <4>1
    <3>2. CASE ~(r = s /\ x = k)
      <4>1. x \in DOMAIN subStates[r] /\ subStates'[r][x] = subStates[r][x]
        BY <1>2, <1>5, <1>6, <2>1, <3>2
      <4>. QED BY <4>1 DEF IInv, SubBounds
    <3>. QED BY <3>1, <3>2
  <2>. QED BY <2>1 DEF SubBounds
<1>10. TaskBounds'
  BY <1>1, <1>2, <1>4, <1>5 DEF IInv, TaskBounds, HasSnapshot
<1>. QED
  BY <1>7, <1>8, <1>9, <1>10

LEMMA SubscribeStep ==
  ASSUME IInv, NEW t \in Attempts, NEW s \in Sessions, NEW k \in Keys, Subscribe(t, s, k)
  PROVE  IInv'
<1>1. PICK resume \in 0..wal : Fence(t, s, k, resume)
  BY DEF Subscribe, pastVars
<1>2. wal' = wal /\ lastSeen' = lastSeen /\ found' = found /\ found \in [Keys -> SUBSET Nat]
  BY DEF Subscribe, cdcVars, pastVars, IInv, CdcTypeOK
<1>3. /\ DOMAIN subStates' = Sessions
      /\ \A r \in Sessions : IsMap(subStates'[r], Keys, SubState)
      /\ task' \in [Attempts -> Task \cup {Idle}]
      /\ SubBounds' /\ TaskBounds'
  BY <1>1, <1>2, FenceBounds
<1>4. ClientTypeOK'
  <2>1. subs' \in [Sessions -> SUBSET Keys] /\ IsMap(subToSessions', Keys, SUBSET Sessions)
    BY AddSubType DEF IInv, Subscribe, pastVars
  <2>. QED BY <1>3, <2>1 DEF IInv, Subscribe, ClientTypeOK, pastVars
<1>5. SendState(PastFrames(lastSeen, found))'
  <2>1. lastSeen \in Nat
    BY DEF IInv, CdcTypeOK
  <2>2. <<FrameOf("ack", k, 0)>> \in Seq(PastFrames(lastSeen, found))
    BY <1>2, <2>1, FramesPast
  <2>3. SafeSend(s, <<FrameOf("ack", k, 0)>>) /\ SendState(PastFrames(lastSeen, found))
    BY DEF IInv, Subscribe, pastVars
  <2>. QED BY <1>2, <2>1, <2>2, <2>3, FramesPast, SafeSendType DEF SendState
<1>6. CdcTypeOK' /\ LogBounds'
  BY DEF IInv, Subscribe, cdcVars, CdcTypeOK, LogBounds, pastVars
<1>. QED
  BY <1>3, <1>4, <1>5, <1>6 DEF IInv

LEMMA SnapshotArrivesStep ==
  ASSUME IInv, NEW t \in Attempts, SnapshotArrives(t)
  PROVE  IInv'
<1>1. /\ task[t] \in Task /\ task[t].stage = "snapshot" /\ lastSeen \in Nat /\ wal \in Nat
      /\ found \in [Keys -> SUBSET Nat]
  BY DEF IInv, SnapshotArrives, ClientTypeOK, CdcTypeOK, Idle, pastVars
<1>2. PICK at \in task[t].asked..wal :
        /\ SafeSend(task[t].s, <<FrameOf("snapshot", task[t].k, at)>>)
        /\ task' = [task EXCEPT ![t].stage = "range", ![t].snap = at]
  BY DEF SnapshotArrives, pastVars
<1>3. /\ task[t].s \in Sessions /\ task[t].k \in Keys /\ task[t].asked \in Nat
      /\ task[t].fence \in Nat /\ at \in Nat /\ task[t].asked <= at
  BY <1>1 DEF Task
<1>4. SendState(PastFrames(lastSeen, found))'
  <2>1. <<FrameOf("snapshot", task[t].k, at)>> \in Seq(PastFrames(lastSeen, found))
    BY <1>1, <1>3, FramesPast
  <2>2. SendState(PastFrames(lastSeen, found)) /\ lastSeen' = lastSeen /\ found' = found
    BY DEF IInv, SnapshotArrives, pastVars
  <2>. QED BY <1>1, <1>2, <1>3, <2>1, <2>2, FramesPast, SafeSendType DEF SendState
<1>5. task' \in [Attempts -> Task \cup {Idle}]
  <2>1. [task[t] EXCEPT !.stage = "range", !.snap = at] \in Task
    BY <1>1, <1>3 DEF Task, Stages
  <2>. QED BY <1>2, <2>1 DEF IInv, ClientTypeOK
<1>6. TaskBounds'
  <2>1. task[t] # Idle
    BY <1>1 DEF Idle
  <2>2. task[t].fence <= task[t].asked /\ task[t].asked <= wal
    BY <2>1 DEF IInv, TaskBounds
  <2>3. /\ task'[t].fence = task[t].fence /\ task'[t].asked = task[t].asked
        /\ task'[t].snap = at
    BY <1>1, <1>2 DEF IInv, ClientTypeOK, Task
  <2>4. \A u \in Attempts \ {t} : task'[u] = task[u]
    BY <1>2 DEF IInv, ClientTypeOK
  <2>5. wal' = wal
    BY DEF SnapshotArrives, cdcVars, pastVars
  <2>. QED BY <1>3, <2>2, <2>3, <2>4, <2>5 DEF IInv, TaskBounds, HasSnapshot
<1>7. ClientTypeOK' /\ CdcTypeOK' /\ LogBounds' /\ SubBounds'
  BY <1>5 DEF IInv, SnapshotArrives, clientVars, cdcVars, ClientTypeOK, CdcTypeOK,
              LogBounds, SubBounds, pastVars
<1>. QED
  BY <1>4, <1>6, <1>7 DEF IInv

LEMMA SnapshotFailsStep ==
  ASSUME IInv, NEW t \in Attempts, SnapshotFails(t)
  PROVE  IInv'
<1>1. /\ task[t] \in Task /\ task[t].stage = "snapshot" /\ lastSeen \in Nat
      /\ found \in [Keys -> SUBSET Nat]
  BY DEF IInv, SnapshotFails, ClientTypeOK, CdcTypeOK, Idle, pastVars
<1>2. task[t].s \in Sessions /\ task[t].k \in Keys
  BY <1>1 DEF Task
<1>3. SendState(PastFrames(lastSeen, found))'
  <2>1. <<Notice("snapshot_failed")>> \in Seq(PastFrames(lastSeen, found))
    BY <1>1, <1>2, FramesPast
  <2>2. /\ SendState(PastFrames(lastSeen, found)) /\ lastSeen' = lastSeen /\ found' = found
        /\ SafeSend(task[t].s, <<Notice("snapshot_failed")>>)
    BY DEF IInv, SnapshotFails, pastVars
  <2>. QED BY <1>1, <1>2, <2>1, <2>2, FramesPast, SafeSendType DEF SendState
<1>4. task' = [task EXCEPT ![t].stage = "failed"]
  BY DEF SnapshotFails, pastVars
<1>5. task' \in [Attempts -> Task \cup {Idle}]
  <2>1. [task[t] EXCEPT !.stage = "failed"] \in Task
    BY <1>1 DEF Task, Stages
  <2>. QED BY <1>4, <2>1 DEF IInv, ClientTypeOK
<1>6. TaskBounds'
  <2>1. task[t] # Idle
    BY <1>1 DEF Idle
  <2>2. /\ task'[t].fence = task[t].fence /\ task'[t].asked = task[t].asked
        /\ task'[t].stage = "failed"
    BY <1>1, <1>4 DEF IInv, ClientTypeOK, Task
  <2>3. \A u \in Attempts \ {t} : task'[u] = task[u]
    BY <1>4 DEF IInv, ClientTypeOK
  <2>4. wal' = wal
    BY DEF SnapshotFails, cdcVars, pastVars
  <2>. QED BY <2>1, <2>2, <2>3, <2>4 DEF IInv, TaskBounds, HasSnapshot
<1>7. ClientTypeOK' /\ CdcTypeOK' /\ LogBounds' /\ SubBounds'
  BY <1>5 DEF IInv, SnapshotFails, clientVars, cdcVars, ClientTypeOK, CdcTypeOK,
              LogBounds, SubBounds, pastVars
<1>. QED
  BY <1>3, <1>6, <1>7 DEF IInv

(* The LSN a message announces is one the database has reached, and         *)
(* LAST_SEEN_LSN after it covers both.                                      *)
LEMMA HeaderBounds ==
  ASSUME IInv, NEW k \in Keys, NEW p \in Nat, p < Len(topic[k]),
         NEW l \in HeaderLsn(topic[k][p + 1])
  PROVE  /\ l \in Nat /\ l <= wal
         /\ Larger(l, lastSeen) \in Nat /\ Larger(l, lastSeen) <= wal
         /\ l <= Larger(l, lastSeen) /\ lastSeen <= Larger(l, lastSeen)
<1>1. topic[k] \in Seq(0..wal) /\ wal \in Nat /\ lastSeen \in Nat /\ lastSeen <= wal
  BY DEF IInv, LogBounds, CdcTypeOK
<1>2. p + 1 \in 1..Len(topic[k])
  BY <1>1, LenProperties
<1>3. topic[k][p + 1] \in 0..wal
  BY <1>1, <1>2, ElementOfSeq
<1>4. l \in 0..wal
  BY <1>1, <1>3 DEF HeaderLsn
<1>. QED
  BY <1>1, <1>4 DEF Larger

(* What KeyDB keeps of a list. *)
LEMMA TrimType ==
  ASSUME NEW F, NEW q \in Seq(F)
  PROVE  Trim(q) \in Seq(F)
<1>1. Len(q) \in Nat
  BY LenProperties
<1>2. CASE Len(q) > MaxDiffs
  <2>1. Len(q) - MaxDiffs + 1 \in Nat \ {0} /\ Len(q) \in Nat
    BY <1>1, <1>2, ConstantsAssumption
  <2>. QED BY <1>2, <2>1, SubSeqType DEF Trim
<1>3. CASE ~(Len(q) > MaxDiffs)
  BY <1>3 DEF Trim
<1>. QED
  BY <1>2, <1>3

(* Delivering a diff at or below the new LAST_SEEN_LSN. *)
LEMMA DeliverBounds ==
  ASSUME IInv, NEW k \in Keys, NEW l \in Nat, l <= wal, Deliver(k, l), wal' = wal,
         lastSeen' \in Nat, lastSeen <= lastSeen', l <= lastSeen', found' = found
  PROVE  /\ Stored(hot', lastSeen', found)
         /\ SendState(PastFrames(lastSeen, found))'
         /\ DOMAIN subStates' = Sessions
         /\ \A s \in Sessions : IsMap(subStates'[s], Keys, SubState)
         /\ SubBounds'
<1> DEFINE targets == {s \in Open : k \in subs[s] /\ Has(s, k)}
           held == {s \in targets : subStates[s][k].buffering}
           live == {s \in targets \ held : l > subStates[s][k].cursorLsn}
           out  == [s \in Sessions |-> IF s \in live THEN <<FrameOf("diff", k, l)>> ELSE <<>>]
<1>1. /\ lastSeen \in Nat /\ wal \in Nat /\ 0..lastSeen \subseteq 0..lastSeen'
      /\ l \in 0..lastSeen' /\ found \in [Keys -> SUBSET Nat]
      /\ l \in Known(found, k, lastSeen')
  BY DEF IInv, CdcTypeOK, Known
<1>2. Stored(hot', lastSeen', found)
  <2>1. Stored(hot, lastSeen', found)
    BY <1>1, StoredWiden DEF IInv, LogBounds
  <2>2. Append(hot[k], l) \in Seq(Known(found, k, lastSeen'))
    BY <1>1, <2>1, AppendProperties DEF Stored
  <2>3. Trim(Append(hot[k], l)) \in Seq(Known(found, k, lastSeen'))
    BY <2>2, TrimType
  <2>4. hot' = [hot EXCEPT ![k] = Trim(Append(hot[k], l))]
    BY DEF Deliver
  <2>. QED BY <1>1, <2>1, <2>3, <2>4, StoredReplaced
<1>3. PICK took \in Acceptances(out) :
        /\ Emit(out, took)
        /\ subStates' = [s \in Sessions |->
             IF s \in held
             THEN [subStates[s] EXCEPT ![k].buffer = @ \cup {l}]
             ELSE IF s \in live /\ took[s] = 1
             THEN [subStates[s] EXCEPT ![k].cursorLsn = l]
             ELSE subStates[s]]
  BY DEF Deliver
<1>4. \A s \in held \cup live : s \in Sessions /\ k \in DOMAIN subStates[s]
  BY DEF Open, Has
<1>5. SendState(PastFrames(lastSeen, found))'
  <2>1. SendState(PastFrames(lastSeen', found))
    BY <1>1, SendWiden DEF IInv
  <2>2. <<FrameOf("diff", k, l)>> \in Seq(PastFrames(lastSeen', found)) /\ <<>> \in Seq(PastFrames(lastSeen', found))
    BY <1>1, FramesPast
  <2>3. out \in [Sessions -> Seq(PastFrames(lastSeen', found))]
    <3> HIDE DEF live
    <3>. QED BY <2>2
  <2>4. Notice("overflow") \in PastFrames(lastSeen', found)
    BY <1>1, FramesPast
  <2> HIDE DEF out
  <2>. QED BY <1>3, <2>1, <2>3, <2>4, EmitType DEF SendState
<1> HIDE DEF targets, held, live, out
<1>6. \A s \in Sessions : IsMap(subStates[s], Keys, SubState)
  BY DEF IInv, ClientTypeOK
<1>7. ASSUME NEW s \in Sessions
      PROVE  /\ IsMap(subStates'[s], Keys, SubState)
             /\ \A x \in DOMAIN subStates'[s] : /\ subStates'[s][x].cursorLsn <= wal
                                                /\ subStates'[s][x].buffer \subseteq 0..lastSeen'
  <2>1. \A x \in DOMAIN subStates[s] : /\ subStates[s][x] \in SubState
                                       /\ subStates[s][x].cursorLsn <= wal
                                       /\ subStates[s][x].buffer \subseteq 0..lastSeen'
    BY <1>1, <1>6 DEF IInv, SubBounds, IsMap
  <2>2. CASE s \in held
    <3> DEFINE sub == [subStates[s][k] EXCEPT !.buffer = @ \cup {l}]
    <3>1. sub \in SubState /\ sub.cursorLsn <= wal /\ sub.buffer \subseteq 0..lastSeen'
      BY <1>1, <1>4, <2>1, <2>2 DEF SubState
    <3>2. subStates'[s] = [subStates[s] EXCEPT ![k] = sub]
      BY <1>3, <2>2
    <3> HIDE DEF sub
    <3>. QED BY <1>4, <1>6, <2>1, <2>2, <3>1, <3>2 DEF IsMap
  <2>3. CASE s \notin held /\ s \in live /\ took[s] = 1
    <3> DEFINE sub == [subStates[s][k] EXCEPT !.cursorLsn = l]
    <3>1. sub \in SubState /\ sub.cursorLsn <= wal /\ sub.buffer \subseteq 0..lastSeen'
      BY <1>1, <1>4, <2>1, <2>3 DEF SubState
    <3>2. subStates'[s] = [subStates[s] EXCEPT ![k] = sub]
      BY <1>3, <2>3
    <3> HIDE DEF sub
    <3>. QED BY <1>4, <1>6, <2>1, <2>3, <3>1, <3>2 DEF IsMap
  <2>4. CASE s \notin held /\ ~(s \in live /\ took[s] = 1)
    <3>1. subStates'[s] = subStates[s]
      BY <1>3, <2>4
    <3>. QED BY <1>6, <2>1, <3>1
  <2>. QED BY <2>2, <2>3, <2>4
<1>8. DOMAIN subStates' = Sessions
  BY <1>3
<1>. QED
  BY <1>2, <1>5, <1>7, <1>8 DEF SubBounds

LEMMA ConsumeDiffStep ==
  ASSUME IInv, NEW k \in Keys, ConsumeDiff(k)
  PROVE  IInv'
<1>1. PICK l \in HeaderLsn(topic[k][diffPos[k] + 1]) :
        lastSeen' = Larger(l, lastSeen) /\ Deliver(k, l)
  BY DEF ConsumeDiff, pastVars
<1>2. /\ l \in Nat /\ l <= wal
      /\ lastSeen' \in Nat /\ lastSeen' <= wal /\ l <= lastSeen' /\ lastSeen <= lastSeen'
  <2>1. diffPos[k] \in Nat /\ diffPos[k] < Len(topic[k])
    BY DEF IInv, CdcTypeOK, ConsumeDiff, pastVars
  <2>. QED BY <1>1, <2>1, HeaderBounds
<1>3. wal' = wal /\ found' = found
  BY DEF ConsumeDiff, pastVars
<1>4. /\ Stored(hot', lastSeen', found)
      /\ SendState(PastFrames(lastSeen, found))'
      /\ DOMAIN subStates' = Sessions
      /\ \A s \in Sessions : IsMap(subStates'[s], Keys, SubState)
      /\ SubBounds'
  BY <1>1, <1>2, <1>3, DeliverBounds
<1>5. ClientTypeOK'
  BY <1>4 DEF IInv, ConsumeDiff, ClientTypeOK, pastVars
<1>6. LogBounds'
  BY <1>2, <1>4 DEF IInv, ConsumeDiff, LogBounds, pastVars
<1>7. CdcTypeOK'
  <2>1. hot' \in [Keys -> Seq(Nat)]
    BY <1>4 DEF Stored
  <2>2. diffPos' = [diffPos EXCEPT ![k] = @ + 1]
    BY DEF ConsumeDiff, pastVars
  <2>3. UNCHANGED <<wal, topic, rowPos, rewinds, start, found>>
    BY DEF ConsumeDiff, pastVars
  <2>4. CdcTypeOK
    BY DEF IInv
  <2>. QED BY <1>2, <2>1, <2>2, <2>3, <2>4 DEF CdcTypeOK
<1>8. TaskBounds'
  BY DEF IInv, ConsumeDiff, TaskBounds, HasSnapshot, pastVars
<1>. QED
  BY <1>4, <1>5, <1>6, <1>7, <1>8 DEF IInv

LEMMA ConsumeRowStep ==
  ASSUME IInv, NEW k \in Keys, ConsumeRow(k)
  PROVE  IInv'
<1> DEFINE out(l) == [s \in Sessions |->
      IF s \in Open /\ k \in subs[s] THEN <<FrameOf("rowEvent", k, l)>> ELSE <<>>]
<1>1. PICK l \in HeaderLsn(topic[k][rowPos[k] + 1]) :
        /\ lastSeen' = Larger(l, lastSeen)
        /\ \E took \in Acceptances(out(l)) : Emit(out(l), took)
  BY DEF ConsumeRow, pastVars
<1>2. /\ l \in Nat /\ lastSeen \in Nat
      /\ lastSeen' \in Nat /\ lastSeen' <= wal /\ lastSeen <= lastSeen'
      /\ found \in [Keys -> SUBSET Nat] /\ found' = found
  <2>1. /\ rowPos[k] \in Nat /\ rowPos[k] < Len(topic[k]) /\ lastSeen \in Nat
        /\ found \in [Keys -> SUBSET Nat] /\ found' = found
    BY DEF IInv, CdcTypeOK, ConsumeRow, pastVars
  <2>. QED BY <1>1, <2>1, HeaderBounds
<1>3. SendState(PastFrames(lastSeen, found))'
  <2>1. SendState(PastFrames(lastSeen', found))
    BY <1>2, SendWiden DEF IInv
  <2>2. <<FrameOf("rowEvent", k, l)>> \in Seq(PastFrames(lastSeen', found)) /\ <<>> \in Seq(PastFrames(lastSeen', found))
    BY <1>2, FramesPast
  <2>3. out(l) \in [Sessions -> Seq(PastFrames(lastSeen', found))]
    BY <2>2
  <2>4. Notice("overflow") \in PastFrames(lastSeen', found)
    BY <1>2, FramesPast
  <2> HIDE DEF out
  <2>. QED BY <1>1, <1>2, <2>1, <2>3, <2>4, EmitType DEF SendState
<1>4. Stored(hot, lastSeen', found)
  BY <1>2, StoredWiden DEF IInv, LogBounds
<1>5. LogBounds' /\ CdcTypeOK'
  BY <1>2, <1>4 DEF IInv, ConsumeRow, LogBounds, CdcTypeOK, pastVars
<1>6. SubBounds'
  <2>1. 0..lastSeen \subseteq 0..lastSeen'
    BY <1>2
  <2>. QED BY <2>1 DEF IInv, ConsumeRow, clientVars, SubBounds, pastVars
<1>7. ClientTypeOK' /\ TaskBounds'
  BY DEF IInv, ConsumeRow, clientVars, ClientTypeOK, TaskBounds, HasSnapshot, pastVars
<1>. QED
  BY <1>3, <1>5, <1>6, <1>7 DEF IInv

(* Replacing the SubState of one subscription by a bounded one.             *)
LEMMA SubReplaced ==
  ASSUME IInv, NEW s \in Sessions, NEW k \in DOMAIN subStates[s],
         NEW sub \in SubState, sub.cursorLsn <= wal, sub.buffer \subseteq 0..lastSeen,
         subStates' = [subStates EXCEPT ![s][k] = sub], wal' = wal, lastSeen' = lastSeen
  PROVE  /\ DOMAIN subStates' = Sessions
         /\ \A r \in Sessions : IsMap(subStates'[r], Keys, SubState)
         /\ SubBounds'
<1>1. DOMAIN subStates = Sessions /\ \A r \in Sessions : IsMap(subStates[r], Keys, SubState)
  BY DEF IInv, ClientTypeOK
<1>2. /\ DOMAIN subStates' = Sessions
      /\ subStates'[s] = [subStates[s] EXCEPT ![k] = sub]
      /\ \A r \in Sessions \ {s} : subStates'[r] = subStates[r]
  BY <1>1
<1>3. \A r \in Sessions : IsMap(subStates'[r], Keys, SubState)
  BY <1>1, <1>2 DEF IsMap
<1>4. SubBounds'
  BY <1>2 DEF IInv, SubBounds
<1>. QED
  BY <1>2, <1>3, <1>4

(* A flush passes diffs at or below LAST_SEEN_LSN, and so is the cursor     *)
(* unless it was above already.                                             *)
LEMMA FlushBounds ==
  ASSUME IInv, NEW s \in Sessions, NEW k \in DOMAIN subStates[s],
         NEW q \in Flushes(subStates[s][k])
  PROVE  /\ q \in Seq(0..lastSeen)
         /\ CursorAfter(subStates[s][k], q) \in Nat
         /\ CursorAfter(subStates[s][k], q) <= wal
         /\ AfterFlush(subStates[s][k], q) \in SubState
<1> DEFINE sub == subStates[s][k]
           S == {l \in sub.buffer : l > sub.cursorLsn}
<1>1. /\ sub \in SubState /\ sub.cursorLsn \in Nat /\ sub.cursorLsn <= wal
      /\ sub.buffer \subseteq 0..lastSeen /\ lastSeen \in Nat /\ wal \in Nat /\ lastSeen <= wal
  BY DEF IInv, ClientTypeOK, CdcTypeOK, LogBounds, SubBounds, IsMap, SubState
<1>2. IsFiniteSet(S)
  <2>1. IsFiniteSet(0..lastSeen)
    BY <1>1, FS_Interval
  <2>. QED BY <1>1, <2>1, FS_Subset
<1>3. q \in Ascending(S)
  BY DEF Flushes
<1>4. q \in Seq(S) /\ Len(q) \in Nat
  BY <1>2, <1>3, AscendingType
<1>5. q \in Seq(0..lastSeen)
  BY <1>1, <1>4, SeqMonotonic
<1> HIDE DEF sub, S
<1>6. CursorAfter(sub, q) \in Nat /\ CursorAfter(sub, q) <= wal
  <2>1. CASE q = <<>>
    BY <1>1, <2>1 DEF CursorAfter
  <2>2. CASE q # <<>>
    <3>1. Len(q) \in 1..Len(q)
      BY <1>4, <2>2, EmptySeq
    <3>2. q[Len(q)] \in 0..lastSeen
      BY <1>5, <3>1, ElementOfSeq
    <3>. QED BY <1>1, <2>2, <3>2 DEF CursorAfter
  <2>. QED BY <2>1, <2>2
<1>7. AfterFlush(sub, q) \in SubState
  BY <1>6 DEF AfterFlush, SubState
<1>. QED
  BY <1>5, <1>6, <1>7 DEF sub

(* A stage after the snapshot leaves what TaskBounds relates alone.         *)
LEMMA TaskAdvances ==
  ASSUME IInv, NEW t \in Attempts, task[t].stage \in {"range", "replay"},
         NEW rec \in Task, rec.fence = task[t].fence, rec.asked = task[t].asked,
         rec.snap = task[t].snap, task' = [task EXCEPT ![t] = rec], wal' = wal
  PROVE  task' \in [Attempts -> Task \cup {Idle}] /\ TaskBounds'
<1>1. task \in [Attempts -> Task \cup {Idle}]
  BY DEF IInv, ClientTypeOK
<1>2. task[t] # Idle /\ HasSnapshot(t)
  BY DEF Idle, HasSnapshot
<1>3. task'[t] = rec /\ \A u \in Attempts \ {t} : task'[u] = task[u]
  BY <1>1
<1>4. TaskBounds'
  <2>1. /\ task[t].fence <= task[t].asked /\ task[t].asked <= wal
        /\ task[t].fence <= task[t].snap
    BY <1>2 DEF IInv, TaskBounds
  <2>. QED BY <1>3, <2>1 DEF IInv, TaskBounds, HasSnapshot
<1>. QED
  BY <1>1, <1>4

LEMMA RangeArrivesStep ==
  ASSUME IInv, NEW t \in Attempts, RangeArrives(t)
  PROVE  IInv'
<1> DEFINE s == task[t].s
           k == task[t].k
<1>1. /\ task[t] \in Task /\ task[t].stage = "range" /\ found \in [Keys -> SUBSET Nat]
      /\ lastSeen \in Nat /\ wal \in Nat /\ lastSeen <= wal
  BY DEF IInv, RangeArrives, ClientTypeOK, CdcTypeOK, LogBounds, Idle, pastVars
<1>2. s \in Sessions /\ k \in Keys
  BY <1>1 DEF Task
<1>3. lastSeen' = lastSeen /\ UNCHANGED cdcVars /\ wal' = wal /\ found' = found /\ start' = start
  BY DEF RangeArrives, cdcVars, pastVars
<1>4. SendState(PastFrames(lastSeen, found))'
  <2>1. PICK range \in {<<>>, <<FrameOf("rangeIndex", k, 0)>>} : SafeSend(s, range)
    BY DEF RangeArrives, pastVars
  <2>2. range \in Seq(PastFrames(lastSeen, found))
    <3>1. FrameOf("rangeIndex", k, 0) \in PastFrames(lastSeen, found)
      BY <1>1, <1>2, FramesPast
    <3> HIDE DEF k
    <3>2. /\ <<FrameOf("rangeIndex", k, 0)>> \in Seq(PastFrames(lastSeen, found))
          /\ <<>> \in Seq(PastFrames(lastSeen, found))
      BY <3>1
    <3>. QED BY <2>1, <3>2
  <2>3. SendState(PastFrames(lastSeen, found)) /\ Notice("overflow") \in PastFrames(lastSeen, found)
    BY <1>1, <1>2, FramesPast DEF IInv
  <2> HIDE DEF s
  <2>. QED BY <1>2, <1>3, <2>1, <2>2, <2>3, SafeSendType DEF SendState
<1>5. /\ DOMAIN subStates' = Sessions
      /\ \A r \in Sessions : IsMap(subStates'[r], Keys, SubState)
      /\ SubBounds'
      /\ Stored(hot', lastSeen, found)
      /\ task' \in [Attempts -> Task \cup {Idle}] /\ TaskBounds'
  <2>1. CASE Has(s, k)
    <3>1. PICK q \in Flushes(subStates[s][k]) :
            /\ hot' = [hot EXCEPT ![k] = Trim(@ \o q)]
            /\ subStates' = [subStates EXCEPT ![s][k] = AfterFlush(@, q)]
            /\ task' = [task EXCEPT ![t].stage = "replay", ![t].since = diffPos[k],
                                    ![t].floor = CursorAfter(subStates[s][k], q)]
      BY <2>1 DEF RangeArrives, pastVars
    <3>2. k \in DOMAIN subStates[s]
      BY <2>1 DEF Has
    <3>3. /\ q \in Seq(0..lastSeen)
          /\ CursorAfter(subStates[s][k], q) \in Nat
          /\ CursorAfter(subStates[s][k], q) <= wal
          /\ AfterFlush(subStates[s][k], q) \in SubState
      BY <1>2, <3>1, <3>2, FlushBounds
    <3> DEFINE sub == AfterFlush(subStates[s][k], q)
               rec == [task[t] EXCEPT !.stage = "replay", !.since = diffPos[k],
                                      !.floor = CursorAfter(subStates[s][k], q)]
    <3>4. sub.cursorLsn <= wal /\ sub.buffer \subseteq 0..lastSeen
      BY <3>3 DEF AfterFlush
    <3>5. diffPos[k] \in Nat
      BY <1>2 DEF IInv, CdcTypeOK
    <3>6. /\ rec \in Task /\ rec.fence = task[t].fence /\ rec.asked = task[t].asked
          /\ rec.snap = task[t].snap
      BY <1>1, <3>3, <3>5 DEF Task, Stages
    <3>7. task' = [task EXCEPT ![t] = rec]
      BY <3>1
    <3>8. subStates' = [subStates EXCEPT ![s][k] = sub]
      BY <3>1
    <3> HIDE DEF sub, rec, s, k
    <3>9. task' \in [Attempts -> Task \cup {Idle}] /\ TaskBounds'
      BY <1>1, <1>3, <3>6, <3>7, TaskAdvances
    <3>10. sub \in SubState
      BY <3>3 DEF sub
    <3>11. /\ DOMAIN subStates' = Sessions
           /\ \A r \in Sessions : IsMap(subStates'[r], Keys, SubState)
           /\ SubBounds'
      BY <1>2, <1>3, <3>2, <3>4, <3>8, <3>10, SubReplaced
    <3>12. Stored(hot', lastSeen, found)
      <4>1. Stored(hot, lastSeen, found)
        BY DEF IInv, LogBounds
      <4>2. 0..lastSeen \subseteq Known(found, k, lastSeen)
        BY DEF Known
      <4>3. q \in Seq(Known(found, k, lastSeen))
        BY <3>3, <4>2, SeqMonotonic
      <4>4. hot[k] \o q \in Seq(Known(found, k, lastSeen))
        BY <1>2, <4>1, <4>3, ConcatProperties DEF Stored
      <4>5. Trim(hot[k] \o q) \in Seq(Known(found, k, lastSeen))
        BY <4>4, TrimType
      <4>. QED BY <1>1, <1>2, <3>1, <4>1, <4>5, StoredReplaced
    <3>. QED BY <3>9, <3>11, <3>12
  <2>2. CASE ~Has(s, k)
    <3> DEFINE rec == [task[t] EXCEPT !.stage = "replay"]
    <3>1. task' = [task EXCEPT ![t] = rec] /\ UNCHANGED <<subStates, hot>>
      BY <2>2 DEF RangeArrives, pastVars
    <3>2. /\ rec \in Task /\ rec.fence = task[t].fence /\ rec.asked = task[t].asked
          /\ rec.snap = task[t].snap
      BY <1>1 DEF Task, Stages
    <3> HIDE DEF rec
    <3>3. task' \in [Attempts -> Task \cup {Idle}] /\ TaskBounds'
      BY <1>1, <1>3, <3>1, <3>2, TaskAdvances
    <3>. QED BY <1>3, <3>1, <3>3 DEF IInv, ClientTypeOK, SubBounds, LogBounds
  <2>. QED BY <2>1, <2>2
<1>6. ClientTypeOK'
  BY <1>5 DEF IInv, RangeArrives, ClientTypeOK, pastVars
<1>7. LogBounds' /\ CdcTypeOK'
  <2>1. hot' \in [Keys -> Seq(Nat)]
    BY <1>5 DEF Stored
  <2>. QED BY <1>3, <1>5, <2>1 DEF IInv, LogBounds, CdcTypeOK, cdcVars
<1>. QED
  BY <1>4, <1>5, <1>6, <1>7 DEF IInv

LEMMA ReplayArrivesStep ==
  ASSUME IInv, NEW t \in Attempts, ReplayArrives(t)
  PROVE  IInv'
<1> DEFINE s == task[t].s
           k == task[t].k
<1>1. /\ task[t] \in Task /\ task[t].stage = "replay" /\ found \in [Keys -> SUBSET Nat]
      /\ lastSeen \in Nat /\ wal \in Nat /\ lastSeen <= wal
  BY DEF IInv, ReplayArrives, ClientTypeOK, CdcTypeOK, LogBounds, Idle, pastVars
<1>2. s \in Sessions /\ k \in Keys
  BY <1>1 DEF Task
<1>3. /\ lastSeen' = lastSeen /\ hot' = hot /\ UNCHANGED cdcVars /\ wal' = wal
      /\ found' = found /\ start' = start
  BY DEF ReplayArrives, cdcVars, pastVars
<1>0. PICK seen \in SUBSET DOMAIN hot[k] : \E q \in Ascending(Replayed(t, seen)) :
        /\ SafeSend(s, [i \in DOMAIN q |-> FrameOf("diff", k, hot[k][q[i]])])
        /\ subStates' = IF Has(s, k) /\ q # <<>>
                        THEN [subStates EXCEPT ![s][k].cursorLsn = hot[k][q[Len(q)]]]
                        ELSE subStates
  BY DEF ReplayArrives, pastVars
<1>4. PICK q \in Ascending(Replayed(t, seen)) :
        /\ SafeSend(s, [i \in DOMAIN q |-> FrameOf("diff", k, hot[k][q[i]])])
        /\ subStates' = IF Has(s, k) /\ q # <<>>
                        THEN [subStates EXCEPT ![s][k].cursorLsn = hot[k][q[Len(q)]]]
                        ELSE subStates
  BY <1>0
<1>5. /\ hot[k] \in Seq(Known(found, k, lastSeen)) /\ Len(hot[k]) \in Nat
      /\ DOMAIN hot[k] = 1..Len(hot[k])
  BY <1>2, LenProperties DEF IInv, LogBounds, Stored
<1>6. Replayed(t, seen) \subseteq seen
  BY DEF Replayed, DiffsAfter
<1>7. IsFiniteSet(Replayed(t, seen))
  BY <1>5, <1>6, FS_Interval, FS_Subset, 1 \in Int, Len(hot[k]) \in Int
<1>8. q \in Seq(1..Len(hot[k])) /\ DOMAIN q = 1..Len(q) /\ Len(q) \in Nat
  <2>1. q \in Seq(Replayed(t, seen)) /\ DOMAIN q = 1..Len(q) /\ Len(q) \in Nat
    BY <1>4, <1>7, AscendingType
  <2>2. Replayed(t, seen) \subseteq 1..Len(hot[k])
    BY <1>0, <1>5, <1>6
  <2>. QED BY <2>1, <2>2, SeqMonotonic
<1>9. \A i \in 1..Len(q) : hot[k][q[i]] \in Known(found, k, lastSeen)
  <2>1. \A i \in 1..Len(q) : q[i] \in 1..Len(hot[k])
    BY <1>8, ElementOfSeq
  <2>. QED BY <1>5, <2>1, ElementOfSeq
<1> HIDE DEF s, k
<1>10. SendState(PastFrames(lastSeen, found))'
  <2> DEFINE frames == [i \in DOMAIN q |-> FrameOf("diff", k, hot[k][q[i]])]
  <2>1. frames \in [1..Len(q) -> PastFrames(lastSeen, found)]
    <3>1. \A i \in 1..Len(q) : FrameOf("diff", k, hot[k][q[i]]) \in PastFrames(lastSeen, found)
      BY <1>1, <1>2, <1>9, FramesPast
    <3>. QED BY <1>8, <3>1
  <2>2. frames \in Seq(PastFrames(lastSeen, found))
    BY <1>8, <2>1, SeqDef
  <2>3. SendState(PastFrames(lastSeen, found)) /\ Notice("overflow") \in PastFrames(lastSeen, found)
    BY <1>1, <1>2, FramesPast DEF IInv
  <2>4. SafeSend(s, frames)
    BY <1>4
  <2> HIDE DEF frames
  <2>. QED BY <1>2, <1>3, <2>2, <2>3, <2>4, SafeSendType DEF SendState
<1>11. /\ DOMAIN subStates' = Sessions
       /\ \A r \in Sessions : IsMap(subStates'[r], Keys, SubState)
       /\ SubBounds'
  <2>1. CASE Has(s, k) /\ q # <<>>
    <3> DEFINE last == hot[k][q[Len(q)]]
               sub == [subStates[s][k] EXCEPT !.cursorLsn = last]
    <3>1. k \in DOMAIN subStates[s]
      BY <2>1 DEF Has
    <3>2. Len(q) \in 1..Len(q)
      BY <1>8, <2>1, EmptySeq
    <3>3. last \in Nat /\ last <= wal
      <4>1. Known(found, k, lastSeen) \subseteq 0..wal
        BY <1>1, <1>2 DEF IInv, LogBounds, Known
      <4>. QED BY <1>1, <1>9, <3>2, <4>1
    <3> HIDE DEF last
    <3>4. subStates[s][k] \in SubState /\ subStates[s][k].buffer \subseteq 0..lastSeen
      BY <1>2, <3>1 DEF IInv, ClientTypeOK, IsMap, SubBounds
    <3>5. sub \in SubState /\ sub.cursorLsn <= wal /\ sub.buffer \subseteq 0..lastSeen
      BY <3>3, <3>4 DEF SubState
    <3>6. subStates' = [subStates EXCEPT ![s][k] = sub]
      BY <1>4, <2>1 DEF last
    <3> HIDE DEF sub
    <3>. QED BY <1>2, <1>3, <3>1, <3>5, <3>6, SubReplaced
  <2>2. CASE ~(Has(s, k) /\ q # <<>>)
    <3>1. subStates' = subStates
      BY <1>4, <2>2
    <3>. QED BY <1>3, <3>1 DEF IInv, ClientTypeOK, SubBounds
  <2>. QED BY <2>1, <2>2
<1>12. task' \in [Attempts -> Task \cup {Idle}] /\ TaskBounds'
  <2> DEFINE rec == [task[t] EXCEPT !.stage = "done"]
  <2>1. task' = [task EXCEPT ![t] = rec]
    BY DEF ReplayArrives, pastVars
  <2>2. /\ rec \in Task /\ rec.fence = task[t].fence /\ rec.asked = task[t].asked
        /\ rec.snap = task[t].snap
    BY <1>1 DEF Task, Stages
  <2> HIDE DEF rec
  <2>. QED BY <1>1, <1>3, <2>1, <2>2, TaskAdvances
<1>13. ClientTypeOK'
  BY <1>11, <1>12 DEF IInv, ReplayArrives, ClientTypeOK, pastVars
<1>14. LogBounds' /\ CdcTypeOK'
  BY <1>3 DEF IInv, LogBounds, CdcTypeOK, cdcVars
<1>. QED
  BY <1>10, <1>11, <1>12, <1>13, <1>14 DEF IInv

LEMMA StutterStep ==
  ASSUME IInv, UNCHANGED vars
  PROVE  IInv'
  BY DEF IInv, vars, clientVars, sendVars, cdcVars, ClientTypeOK, CdcTypeOK, SendState,
         LogBounds, SubBounds, TaskBounds, HasSnapshot, pastVars

THEOREM NextIInv == IInv /\ [Next]_vars => IInv'
<1> SUFFICES ASSUME IInv, [Next]_vars PROVE IInv'
  OBVIOUS
<1>1. ASSUME NEW ks \in (SUBSET Keys) \ {{}}, Commit(ks) PROVE IInv'
  BY <1>1, CommitStep
<1>2. ASSUME NEW k \in Keys, Rewind(k) \/ ConsumeDiff(k) \/ ConsumeRow(k) PROVE IInv'
  BY <1>2, RewindStep, ConsumeDiffStep, ConsumeRowStep
<1>3. ASSUME NEW s \in Sessions, OpenSession(s) \/ Drain(s) \/ Close(s) PROVE IInv'
  BY <1>3, OpenSessionStep, DrainStep, CloseStep
<1>4. ASSUME NEW t \in Attempts, NEW s \in Sessions, NEW k \in Keys, Subscribe(t, s, k)
      PROVE  IInv'
  BY <1>4, SubscribeStep
<1>5. ASSUME NEW t \in Attempts, Settle(t) PROVE IInv'
  BY <1>5, SnapshotArrivesStep, SnapshotFailsStep, RangeArrivesStep, ReplayArrivesStep DEF Settle
<1>6. ASSUME NEW s \in Sessions, NEW k \in Keys, Unsubscribe(s, k) PROVE IInv'
  BY <1>6, UnsubscribeStep
<1>7. CASE UNCHANGED vars
  BY <1>7, StutterStep
<1>. QED
  BY <1>1, <1>2, <1>3, <1>4, <1>5, <1>6, <1>7 DEF Next

THEOREM Invariant == Spec => []IInv
  BY InitIInv, NextIInv, PTL DEF Spec
-----------------------------------------------------------------------------
(* What follows from the invariant. *)

(* Every variable of the process keeps its shape and no queue outgrows      *)
(* MAX_QUEUE, whatever sockets refuse and however handlers interleave.      *)
THEOREM TypeCorrect == Spec => []TypeOK
<1>1. IInv => TypeOK
  <2> SUFFICES ASSUME IInv PROVE TypeOK
    OBVIOUS
  <2>1. PastFrames(lastSeen, found) \subseteq Frame
    BY DEF PastFrames
  <2>2. SendTypeOK
    BY <2>1, SeqWiden DEF IInv, SendState, SendTypeOK
  <2>. QED BY <2>2 DEF IInv, TypeOK
<1>. QED
  BY <1>1, Invariant, PTL

(* The fence of subscribe.ts 56-60 never exceeds the LSN of the snapshot    *)
(* requested after it.                                                      *)
THEOREM FenceSafe == Spec => []SnapshotCoversFence
<1>1. IInv => SnapshotCoversFence
  BY DEF IInv, TaskBounds, SnapshotCoversFence, HasSnapshot, Idle
<1>. QED
  BY <1>1, Invariant, PTL

(* LAST_SEEN_LSN and the cursors are not ahead of the database, nor KeyDB   *)
(* and the diffs sent ahead of LAST_SEEN_LSN, but for the diffs KeyDB kept  *)
(* from before the process started.                                         *)
THEOREM PositionsSafe == Spec => []NothingFromTheFuture
<1>1. IInv => NothingFromTheFuture
  <2> SUFFICES ASSUME IInv PROVE NothingFromTheFuture
    OBVIOUS
  <2>1. ASSUME NEW k \in Keys, NEW i \in DOMAIN hot[k]
        PROVE  hot[k][i] <= lastSeen \/ hot[k][i] \in found[k]
    <3>1. hot[k] \in Seq(Known(found, k, lastSeen)) /\ i \in 1..Len(hot[k])
      BY <2>1, LenProperties DEF IInv, LogBounds, Stored
    <3>2. hot[k][i] \in Known(found, k, lastSeen)
      BY <3>1, ElementOfSeq
    <3>. QED BY <3>2 DEF Known
  <2>2. ASSUME NEW s \in Sessions, NEW i \in DOMAIN wire[s], wire[s][i].op = "diff"
        PROVE  wire[s][i].lsn <= lastSeen \/ wire[s][i].lsn \in found[wire[s][i].key]
    <3>1. wire[s] \in Seq(PastFrames(lastSeen, found)) /\ i \in 1..Len(wire[s])
      BY <2>2, LenProperties DEF IInv, SendState
    <3>2. wire[s][i] \in PastFrames(lastSeen, found)
      BY <3>1, ElementOfSeq
    <3>. QED BY <2>2, <3>2 DEF PastFrames, Known
  <2>. QED BY <2>1, <2>2 DEF IInv, LogBounds, SubBounds, NothingFromTheFuture
<1>. QED
  BY <1>1, Invariant, PTL
-----------------------------------------------------------------------------
(* The registry of state.ts never lies, for every number of sessions, keys  *)
(* and overlapping executions of handleSubscribe: RegistryConsistent is     *)
(* inductive relative to the types above.                                   *)

(* The reverse index is the inverse of the sessions' subs, without empty    *)
(* entries: the first half of RegistryConsistent.                           *)
IndexExact ==
  /\ \A k \in DOMAIN subToSessions : subToSessions[k] # {}
  /\ \A s \in Sessions, k \in Keys :
       k \in subs[s] <=> k \in DOMAIN subToSessions /\ s \in subToSessions[k]

(* The SubStates are those of the subscriptions of open sessions.           *)
StatesExact ==
  /\ \A s \in Sessions : DOMAIN subStates[s] = subs[s]
  /\ \A s \in Sessions \ Open : subs[s] = {}

LEMMA AddSubIndex ==
  ASSUME ClientTypeOK, IndexExact, NEW s \in Sessions, NEW k \in Keys, AddSub(s, k)
  PROVE  IndexExact' /\ subs' = [subs EXCEPT ![s] = @ \cup {k}]
<1>1. subs' = [subs EXCEPT ![s] = @ \cup {k}] /\ subs \in [Sessions -> SUBSET Keys]
  BY DEF AddSub, ClientTypeOK
<1>2. CASE k \in subs[s]
  <2>1. subToSessions' = subToSessions /\ subs' = subs
    BY <1>1, <1>2 DEF AddSub
  <2>. QED BY <1>1, <2>1 DEF IndexExact
<1>3. CASE k \notin subs[s]
  <2> DEFINE old == IF k \in DOMAIN subToSessions THEN subToSessions[k] ELSE {}
  <2>1. /\ DOMAIN subToSessions' = DOMAIN subToSessions \cup {k}
        /\ subToSessions'[k] = old \cup {s}
        /\ \A x \in DOMAIN subToSessions \ {k} : subToSessions'[x] = subToSessions[x]
    BY <1>3 DEF AddSub, Put
  <2>2. \A x \in DOMAIN subToSessions' : subToSessions'[x] # {}
    BY <2>1 DEF IndexExact
  <2>3. ASSUME NEW r \in Sessions, NEW x \in Keys
        PROVE  x \in subs'[r] <=> x \in DOMAIN subToSessions' /\ r \in subToSessions'[x]
    <3>1. CASE x # k
      BY <1>1, <2>1, <3>1 DEF IndexExact
    <3>2. CASE x = k
      <4>1. k \in subs'[r] <=> k \in subs[r] \/ r = s
        BY <1>1
      <4>2. k \in subs[r] <=> r \in old
        BY DEF IndexExact
      <4>. QED BY <2>1, <3>2, <4>1, <4>2
    <3>. QED BY <3>1, <3>2
  <2>. QED BY <1>1, <2>2, <2>3 DEF IndexExact
<1>. QED
  BY <1>2, <1>3

LEMMA RemoveSubsIndex ==
  ASSUME ClientTypeOK, IndexExact, NEW s \in Sessions, NEW ks \in SUBSET Keys,
         RemoveSubs(s, ks)
  PROVE  IndexExact' /\ subs' = [subs EXCEPT ![s] = @ \ ks]
<1> DEFINE gone == ks \cap subs[s]
           kept == {k \in DOMAIN subToSessions : k \in gone => subToSessions[k] # {s}}
<1>1. /\ subs' = [subs EXCEPT ![s] = @ \ ks] /\ subs \in [Sessions -> SUBSET Keys]
      /\ subToSessions' =
           [k \in kept |-> IF k \in gone THEN subToSessions[k] \ {s} ELSE subToSessions[k]]
  BY DEF RemoveSubs, ClientTypeOK
<1>2. \A x \in DOMAIN subToSessions' : subToSessions'[x] # {}
  BY <1>1 DEF IndexExact
<1>3. ASSUME NEW r \in Sessions, NEW x \in Keys
      PROVE  x \in subs'[r] <=> x \in DOMAIN subToSessions' /\ r \in subToSessions'[x]
  <2>1. x \in subs[r] <=> x \in DOMAIN subToSessions /\ r \in subToSessions[x]
    BY DEF IndexExact
  <2>2. x \in DOMAIN subToSessions' <=> x \in kept
    BY <1>1
  <2>3. CASE x \in gone
    <3>1. x \in DOMAIN subToSessions /\ s \in subToSessions[x]
      BY <2>3 DEF IndexExact
    <3>2. x \in subs'[r] <=> x \in subs[r] /\ r # s
      BY <1>1, <2>3
    <3>3. x \in kept => subToSessions'[x] = subToSessions[x] \ {s}
      BY <1>1, <2>3
    <3>4. x \notin kept => subToSessions[x] = {s}
      BY <2>3, <3>1
    <3> HIDE DEF gone, kept
    <3>. QED BY <2>1, <2>2, <3>1, <3>2, <3>3, <3>4
  <2>4. CASE x \notin gone
    <3>1. x \in subs'[r] <=> x \in subs[r]
      BY <1>1, <2>4
    <3>2. x \in kept <=> x \in DOMAIN subToSessions
      BY <2>4
    <3>3. x \in kept => subToSessions'[x] = subToSessions[x]
      BY <1>1, <2>4
    <3>. QED BY <2>1, <2>2, <3>1, <3>2, <3>3
  <2>. QED BY <2>3, <2>4
<1>. QED
  BY <1>1, <1>2, <1>3 DEF IndexExact

LEMMA RegistrySplit == RegistryConsistent <=> IndexExact /\ StatesExact
  BY DEF RegistryConsistent, IndexExact, StatesExact

(* A step that leaves the registry alone, but for the contents of SubStates.*)
LEMMA RegistryKept ==
  ASSUME RegistryConsistent, UNCHANGED <<conn, subs, subToSessions>>,
         \A s \in Sessions : DOMAIN subStates'[s] = DOMAIN subStates[s]
  PROVE  RegistryConsistent'
  BY DEF RegistryConsistent, Open
-----------------------------------------------------------------------------
LEMMA OpenSessionRegistry ==
  ASSUME ClientTypeOK, RegistryConsistent, NEW s \in Sessions, OpenSession(s)
  PROVE  RegistryConsistent'
<1>1. UNCHANGED <<subs, subToSessions, subStates>> /\ Open \subseteq Open'
  BY DEF OpenSession, ClientTypeOK, Open, pastVars
<1>. QED
  BY <1>1 DEF RegistryConsistent

LEMMA SubscribeRegistry ==
  ASSUME ClientTypeOK, RegistryConsistent, NEW t \in Attempts, NEW s \in Sessions,
         NEW k \in Keys, Subscribe(t, s, k)
  PROVE  RegistryConsistent'
<1>1. IndexExact' /\ subs' = [subs EXCEPT ![s] = @ \cup {k}]
  BY AddSubIndex, RegistrySplit DEF Subscribe, pastVars
<1>2. Open' = Open /\ s \in Open
  BY DEF Subscribe, Open, pastVars
<1>3. \A r \in Sessions : DOMAIN subStates'[r] = subs'[r]
  <2>1. PICK resume \in 0..wal : Fence(t, s, k, resume)
    BY DEF Subscribe, pastVars
  <2>2. PICK new : subStates' = [subStates EXCEPT ![s] = Put(@, k, new)]
    BY <2>1 DEF Fence, Register
  <2>3. DOMAIN Put(subStates[s], k, new) = DOMAIN subStates[s] \cup {k}
    BY DEF Put
  <2>. QED BY <1>1, <2>2, <2>3 DEF RegistryConsistent, ClientTypeOK
<1>4. StatesExact'
  BY <1>1, <1>2, <1>3 DEF StatesExact, RegistryConsistent, ClientTypeOK
<1>. QED
  BY <1>1, <1>4, RegistrySplit DEF RegistryConsistent, IndexExact, StatesExact

LEMMA UnsubscribeRegistry ==
  ASSUME ClientTypeOK, RegistryConsistent, NEW s \in Sessions, NEW k \in Keys,
         Unsubscribe(s, k)
  PROVE  RegistryConsistent'
<1>1. IndexExact' /\ subs' = [subs EXCEPT ![s] = @ \ {k}]
  BY RemoveSubsIndex, RegistrySplit DEF Unsubscribe, pastVars
<1>2. Open' = Open
  BY DEF Unsubscribe, Open, pastVars
<1>3. \A r \in Sessions : DOMAIN subStates'[r] = subs'[r]
  <2>1. subStates' = [subStates EXCEPT ![s] = Drop(@, k)]
    BY DEF Unsubscribe, pastVars
  <2>2. DOMAIN Drop(subStates[s], k) = DOMAIN subStates[s] \ {k}
    BY DEF Drop, Restrict
  <2>. QED BY <1>1, <2>1, <2>2 DEF RegistryConsistent, ClientTypeOK
<1>4. StatesExact'
  BY <1>1, <1>2, <1>3 DEF StatesExact, RegistryConsistent, ClientTypeOK
<1>. QED
  BY <1>1, <1>4 DEF RegistryConsistent, IndexExact, StatesExact

LEMMA CloseRegistry ==
  ASSUME ClientTypeOK, RegistryConsistent, NEW s \in Sessions, Close(s)
  PROVE  RegistryConsistent'
<1>1. IndexExact' /\ subs' = [subs EXCEPT ![s] = @ \ subs[s]]
  <2>1. subs[s] \in SUBSET Keys
    BY DEF ClientTypeOK
  <2>. QED BY <2>1, RemoveSubsIndex, RegistrySplit DEF Close, pastVars
<1>2. Open' = Open \ {s}
  BY DEF Close, Open, ClientTypeOK, pastVars
<1>3. subStates' = [subStates EXCEPT ![s] = NoEntries] /\ DOMAIN NoEntries = {}
  BY DEF Close, NoEntries, pastVars
<1>4. StatesExact'
  BY <1>1, <1>2, <1>3 DEF StatesExact, RegistryConsistent, ClientTypeOK
<1>. QED
  BY <1>1, <1>4 DEF RegistryConsistent, IndexExact, StatesExact

LEMMA DeliverRegistry ==
  ASSUME ClientTypeOK, RegistryConsistent, NEW k \in Keys, ConsumeDiff(k)
  PROVE  RegistryConsistent'
<1>1. UNCHANGED <<conn, subs, subToSessions>>
  BY DEF ConsumeDiff, pastVars
<1>2. \A s \in Sessions : DOMAIN subStates'[s] = DOMAIN subStates[s]
  <2>1. PICK l : Deliver(k, l)
    BY DEF ConsumeDiff, pastVars
  <2>. QED BY <2>1 DEF Deliver
<1>. QED
  BY <1>1, <1>2, RegistryKept

LEMMA SubStatesEntry ==
  ASSUME NEW s, NEW k, NEW sub, ClientTypeOK, subStates' = [subStates EXCEPT ![s][k] = sub]
  PROVE  \A r \in Sessions : DOMAIN subStates'[r] = DOMAIN subStates[r]
  BY DEF ClientTypeOK

LEMMA SettleRegistry ==
  ASSUME ClientTypeOK, RegistryConsistent, NEW t \in Attempts, Settle(t)
  PROVE  RegistryConsistent'
<1>1. CASE SnapshotArrives(t) \/ SnapshotFails(t)
  BY <1>1, RegistryKept DEF SnapshotArrives, SnapshotFails, clientVars, pastVars
<1>2. CASE RangeArrives(t)
  <2>1. UNCHANGED <<conn, subs, subToSessions>>
    BY <1>2 DEF RangeArrives, pastVars
  <2>2. \A s \in Sessions : DOMAIN subStates'[s] = DOMAIN subStates[s]
    <3>1. CASE Has(task[t].s, task[t].k)
      <4>1. PICK q : subStates' = [subStates EXCEPT ![task[t].s][task[t].k] = AfterFlush(@, q)]
        BY <1>2, <3>1 DEF RangeArrives, pastVars
      <4>. QED BY <4>1, SubStatesEntry
    <3>2. CASE ~Has(task[t].s, task[t].k)
      <4>1. subStates' = subStates
        BY <1>2, <3>2 DEF RangeArrives, pastVars
      <4>. QED BY <4>1
    <3>. QED BY <3>1, <3>2
  <2>. QED BY <2>1, <2>2, RegistryKept
<1>3. CASE ReplayArrives(t)
  <2>1. UNCHANGED <<conn, subs, subToSessions>>
    BY <1>3 DEF ReplayArrives, pastVars
  <2>2. \A s \in Sessions : DOMAIN subStates'[s] = DOMAIN subStates[s]
    <3>1. PICK last : \/ subStates' = subStates
                      \/ subStates' = [subStates EXCEPT ![task[t].s][task[t].k].cursorLsn = last]
      <4>1. PICK seen : \E q \in Ascending(Replayed(t, seen)) :
              subStates' = IF Has(task[t].s, task[t].k) /\ q # <<>>
                           THEN [subStates EXCEPT ![task[t].s][task[t].k].cursorLsn =
                                   hot[task[t].k][q[Len(q)]]]
                           ELSE subStates
        BY <1>3 DEF ReplayArrives, pastVars
      <4>. QED BY <4>1
    <3>2. CASE subStates' = subStates
      BY <3>2
    <3>3. CASE subStates' = [subStates EXCEPT ![task[t].s][task[t].k].cursorLsn = last]
      <4>1. subStates' = [subStates EXCEPT ![task[t].s][task[t].k] =
                            [subStates[task[t].s][task[t].k] EXCEPT !.cursorLsn = last]]
        BY <3>3
      <4>. QED BY <4>1, SubStatesEntry
    <3>. QED BY <3>1, <3>2, <3>3
  <2>. QED BY <2>1, <2>2, RegistryKept
<1>. QED
  BY <1>1, <1>2, <1>3 DEF Settle

LEMMA RegistryStep ==
  ASSUME ClientTypeOK, RegistryConsistent, [Next]_vars
  PROVE  RegistryConsistent'
<1>1. ASSUME NEW ks \in (SUBSET Keys) \ {{}}, Commit(ks) PROVE RegistryConsistent'
  BY <1>1, RegistryKept DEF Commit, clientVars, pastVars
<1>2. ASSUME NEW k \in Keys, Rewind(k) \/ ConsumeDiff(k) \/ ConsumeRow(k)
      PROVE  RegistryConsistent'
  BY <1>2, DeliverRegistry, RegistryKept DEF Rewind, ConsumeRow, clientVars, pastVars
<1>3. ASSUME NEW s \in Sessions, OpenSession(s) \/ Drain(s) \/ Close(s)
      PROVE  RegistryConsistent'
  BY <1>3, OpenSessionRegistry, CloseRegistry, RegistryKept DEF Drain, clientVars, pastVars
<1>4. ASSUME NEW t \in Attempts, NEW s \in Sessions, NEW k \in Keys, Subscribe(t, s, k)
      PROVE  RegistryConsistent'
  BY <1>4, SubscribeRegistry
<1>5. ASSUME NEW t \in Attempts, Settle(t) PROVE RegistryConsistent'
  BY <1>5, SettleRegistry
<1>6. ASSUME NEW s \in Sessions, NEW k \in Keys, Unsubscribe(s, k) PROVE RegistryConsistent'
  BY <1>6, UnsubscribeRegistry
<1>7. CASE UNCHANGED vars
  BY <1>7, RegistryKept DEF vars, clientVars, pastVars
<1>. QED
  BY <1>1, <1>2, <1>3, <1>4, <1>5, <1>6, <1>7 DEF Next

(* The reverse index is the inverse of the sessions' subs and a session has *)
(* SubStates for exactly what it subscribes, however subscriptions,         *)
(* disconnects and running executions of handleSubscribe interleave.        *)
THEOREM RegistrySafe == Spec => []RegistryConsistent
<1>1. Init => RegistryConsistent
  BY DEF Init, RegistryConsistent, NoEntries
<1>2. IInv /\ RegistryConsistent /\ [Next]_vars => RegistryConsistent'
  BY RegistryStep DEF IInv
<1>. QED
  BY <1>1, <1>2, Invariant, PTL DEF Spec
==========================================================================
