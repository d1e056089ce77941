------------------------ MODULE LiveQueryRefinement ------------------------
(***************************************************************************)
(* LiveQuery implements SlowSockets and LiveFeed: every step of the        *)
(* gateway is a step of each of them, or leaves their variables alone.     *)
(***************************************************************************)
EXTENDS LiveQueryProofs
-----------------------------------------------------------------------------
(* Slow sockets.  Only open sessions are sent frames, so only they refuse.  *)

AccountStep == [Account!AccountNext]_(Account!slowVars)

LEMMA EmitRefuses ==
  ASSUME NEW out, \A s \in Sessions : s \notin Open => out[s] = <<>>,
         NEW took \in Acceptances(out), Emit(out, took), conn' = conn, slowSockets \in Nat
  PROVE  AccountStep
<1> DEFINE blocked == {s \in Sessions : took[s] < Len(out[s])}
<1>1. \A s \in blocked : conn[s] = "open"
  <2>1. ASSUME NEW s \in Sessions, s \notin Open PROVE ~(took[s] < Len(out[s]))
    <3>1. Len(out[s]) = 0
      BY <2>1, EmptySeq
    <3>2. took[s] >= 0
      BY <3>1 DEF Acceptances
    <3>. QED BY <3>1, <3>2 DEF Acceptances
  <2>. QED BY <2>1 DEF Open, blocked
<1>2. /\ slow' = slow \cup blocked
      /\ slowSockets' = slowSockets + Cardinality(blocked \ slow)
  BY DEF Emit, NewlySlow
<1> HIDE DEF blocked
<1>3. Account!Refuse(blocked)
  <2>1. UNCHANGED conn
    OBVIOUS
  <2>. QED BY <1>1, <1>2, <2>1, Zenon DEF Account!Refuse, Account!Cardinality, Cardinality
<1>4. CASE blocked = {}
  <2>1. Cardinality(blocked \ slow) = 0 /\ slow' = slow
    BY <1>2, <1>4, FS_EmptySet
  <2>2. slowSockets' = slowSockets
    BY <1>2, <2>1
  <2>. QED BY <2>1, <2>2 DEF AccountStep, Account!slowVars
<1>5. CASE blocked # {}
  <2>1. blocked \in (SUBSET Sessions) \ {{}}
    BY <1>5 DEF blocked
  <2>. QED BY <1>3, <2>1 DEF AccountStep, Account!AccountNext
<1>. QED
  BY <1>4, <1>5

LEMMA SafeSendRefuses ==
  ASSUME NEW s, NEW frames, SafeSend(s, frames), conn' = conn, slowSockets \in Nat
  PROVE  AccountStep
<1>1. PICK took \in Acceptances(To(s, frames)) : Emit(To(s, frames), took)
  BY DEF SafeSend
<1>2. \A r \in Sessions : r \notin Open => To(s, frames)[r] = <<>>
  BY DEF To
<1>. QED
  BY <1>1, <1>2, EmitRefuses

LEMMA DeliverRefuses ==
  ASSUME NEW k, NEW l, Deliver(k, l), conn' = conn, slowSockets \in Nat
  PROVE  AccountStep
<1> DEFINE targets == {s \in Open : k \in subs[s] /\ Has(s, k)}
           held == {s \in targets : subStates[s][k].buffering}
           live == {s \in targets \ held : l > subStates[s][k].cursorLsn}
           out  == [s \in Sessions |-> IF s \in live THEN <<FrameOf("diff", k, l)>> ELSE <<>>]
<1>1. PICK took \in Acceptances(out) : Emit(out, took)
  BY DEF Deliver
<1>2. \A s \in Sessions : s \notin Open => out[s] = <<>>
  OBVIOUS
<1> HIDE DEF out
<1>. QED
  BY <1>1, <1>2, EmitRefuses

(* The step of LiveQuery that each step of the accounting comes from.       *)
LEMMA NextAccounts ==
  ASSUME IInv, [Next]_vars
  PROVE  AccountStep
<1>0. slowSockets \in Nat
  BY DEF IInv, SendState
<1>1. ASSUME NEW ks, Commit(ks) PROVE AccountStep
  BY <1>1 DEF Commit, clientVars, sendVars, AccountStep, Account!slowVars, pastVars
<1>2. ASSUME NEW k \in Keys, Rewind(k) PROVE AccountStep
  BY <1>2 DEF Rewind, clientVars, sendVars, AccountStep, Account!slowVars, pastVars
<1>3. ASSUME NEW k \in Keys, ConsumeDiff(k) PROVE AccountStep
  <2>1. PICK l : Deliver(k, l)
    BY <1>3 DEF ConsumeDiff, pastVars
  <2>. QED BY <1>0, <1>3, <2>1, DeliverRefuses DEF ConsumeDiff, pastVars
<1>4. ASSUME NEW k \in Keys, ConsumeRow(k) PROVE AccountStep
  <2> DEFINE out(l) == [s \in Sessions |->
        IF s \in Open /\ k \in subs[s] THEN <<FrameOf("rowEvent", k, l)>> ELSE <<>>]
  <2>1. PICK l : \E took \in Acceptances(out(l)) : Emit(out(l), took)
    BY <1>4 DEF ConsumeRow, pastVars
  <2>2. \A s \in Sessions : s \notin Open => out(l)[s] = <<>>
    OBVIOUS
  <2>3. conn' = conn
    BY <1>4 DEF ConsumeRow, clientVars, pastVars
  <2> HIDE DEF out
  <2>. QED BY <1>0, <2>1, <2>2, <2>3, EmitRefuses
<1>5. ASSUME NEW s \in Sessions, OpenSession(s) PROVE AccountStep
  <2>1. Account!Connect(s)
    BY <1>5 DEF OpenSession, sendVars, Account!Connect, pastVars
  <2>. QED BY <2>1 DEF AccountStep, Account!AccountNext
<1>6. ASSUME NEW s \in Sessions, Drain(s) PROVE AccountStep
  <2>1. Account!Writable(s)
    BY <1>6 DEF Drain, Open, clientVars, Account!Writable, pastVars
  <2>. QED BY <2>1 DEF AccountStep, Account!AccountNext
<1>7. ASSUME NEW s \in Sessions, Close(s) PROVE AccountStep
  <2>1. Account!Disconnect(s)
    BY <1>7 DEF Close, Open, Account!Disconnect, pastVars
  <2>. QED BY <2>1 DEF AccountStep, Account!AccountNext
<1>8. ASSUME NEW t \in Attempts, NEW s \in Sessions, NEW k \in Keys, Subscribe(t, s, k)
      PROVE  AccountStep
  BY <1>0, <1>8, SafeSendRefuses DEF Subscribe, pastVars
<1>9. ASSUME NEW t \in Attempts, Settle(t) PROVE AccountStep
  <2>1. CASE SnapshotArrives(t)
    BY <1>0, <2>1, SafeSendRefuses DEF SnapshotArrives, clientVars, pastVars
  <2>2. CASE SnapshotFails(t)
    BY <1>0, <2>2, SafeSendRefuses DEF SnapshotFails, clientVars, pastVars
  <2>3. CASE RangeArrives(t)
    BY <1>0, <2>3, SafeSendRefuses DEF RangeArrives, pastVars
  <2>4. CASE ReplayArrives(t)
    <3>1. \E frames : SafeSend(task[t].s, frames)
      BY <2>4 DEF ReplayArrives, pastVars
    <3>. QED BY <1>0, <2>4, <3>1, SafeSendRefuses DEF ReplayArrives, pastVars
  <2>. QED BY <1>9, <2>1, <2>2, <2>3, <2>4 DEF Settle
<1>10. ASSUME NEW s \in Sessions, NEW k \in Keys, Unsubscribe(s, k) PROVE AccountStep
  BY <1>10 DEF Unsubscribe, sendVars, AccountStep, Account!slowVars, pastVars
<1>11. CASE UNCHANGED vars
  BY <1>11 DEF vars, clientVars, sendVars, AccountStep, Account!slowVars, pastVars
<1>. QED
  BY <1>1, <1>2, <1>3, <1>4, <1>5, <1>6, <1>7, <1>8, <1>9, <1>10, <1>11 DEF Next

(* Whatever the send paths, draining and closing do to _slow and            *)
(* SLOW_SOCKETS is a step SlowSockets allows, so what FlowControl's proofs  *)
(* show of that count holds in the whole gateway.                           *)
THEOREM RefinesSlowSockets == Spec => ImplementsSlowSockets
<1>1. Init => Account!AccountInit
  BY DEF Init, Account!AccountInit
<1>2. IInv /\ [Next]_vars => [Account!AccountNext]_(Account!slowVars)
  BY NextAccounts DEF AccountStep
<1>. QED
  BY <1>1, <1>2, Invariant, PTL DEF Spec, ImplementsSlowSockets, Account!Accounting
-----------------------------------------------------------------------------
(* Live feeds.  What one step may do to the SubState of one subscription.   *)

Sub(s, k) == subStates[s][k]

Kept(s, k) ==
  /\ Has(s, k) /\ Has(s, k)'
  /\ Sub(s, k)'.buffering <=> Sub(s, k).buffering
  /\ \/ Sub(s, k)'.cursorLsn = Sub(s, k).cursorLsn
     \/ /\ Sub(s, k)'.cursorLsn > Sub(s, k).cursorLsn
        /\ Sub(s, k)'.cursorLsn <= lastSeen' \/ Sub(s, k)'.cursorLsn \in found[k]

Begun(s, k) ==
  /\ \E t \in Attempts : Subscribe(t, s, k)
  /\ Has(s, k)' /\ Sub(s, k)'.buffering
  /\ Sub(s, k)'.cursorLsn >= lastSeen

Synced(s, k) ==
  /\ Has(s, k) /\ Has(s, k)'
  /\ Sub(s, k).buffering /\ ~Sub(s, k)'.buffering
  /\ Sub(s, k)'.cursorLsn >= Sub(s, k).cursorLsn

FeedMoves(s, k) == Begun(s, k) \/ Synced(s, k) \/ Kept(s, k) \/ ~Has(s, k)'

LEMMA MovesAreFeedSteps ==
  ASSUME lastSeen' >= lastSeen, found' = found,
         \A s \in Sessions, k \in Keys : FeedMoves(s, k)
  PROVE  Feed!Next
<1> DEFINE phase == [f \in Sessions \X Keys |->
              IF ~Has(f[1], f[2]) THEN "off"
              ELSE IF subStates[f[1]][f[2]].buffering THEN "syncing" ELSE "live"]
           floor == [f \in Sessions \X Keys |->
              IF Has(f[1], f[2]) THEN subStates[f[1]][f[2]].cursorLsn ELSE 0]
           kept == [f \in Sessions \X Keys |-> found[f[2]]]
<1>1. ASSUME NEW s \in Sessions, NEW k \in Keys
      PROVE  /\ phase[<<s, k>>] = IF ~Has(s, k) THEN "off"
                                  ELSE IF Sub(s, k).buffering THEN "syncing" ELSE "live"
             /\ phase'[<<s, k>>] = IF ~Has(s, k)' THEN "off"
                                   ELSE IF Sub(s, k)'.buffering THEN "syncing" ELSE "live"
             /\ floor[<<s, k>>] = IF Has(s, k) THEN Sub(s, k).cursorLsn ELSE 0
             /\ floor'[<<s, k>>] = IF Has(s, k)' THEN Sub(s, k)'.cursorLsn ELSE 0
             /\ kept[<<s, k>>] = found[k]
  BY DEF Sub
<1>5. kept' = kept
  OBVIOUS
<1> HIDE DEF phase, floor, kept
<1>2. ASSUME NEW s \in Sessions, NEW k \in Keys
      PROVE  LET f == <<s, k>>
             IN  Feed!Begin(f) \/ Feed!GoLive(f) \/ Feed!Advance(f) \/ Feed!End(f) \/ Feed!Rest(f)
  <2>1. CASE Begun(s, k)
    <3>1. Feed!Begin(<<s, k>>)
      BY <1>1, <2>1 DEF Begun, Feed!Begin, phase, floor
    <3>. QED BY <3>1
  <2>2. CASE Synced(s, k)
    <3>1. Feed!GoLive(<<s, k>>)
      BY <1>1, <2>2 DEF Synced, Feed!GoLive, phase, floor
    <3>. QED BY <3>1
  <2>3. CASE Kept(s, k) /\ Sub(s, k)'.cursorLsn = Sub(s, k).cursorLsn
    <3>1. Feed!Rest(<<s, k>>)
      BY <1>1, <2>3 DEF Kept, Feed!Rest, phase, floor
    <3>. QED BY <3>1
  <2>4. CASE Kept(s, k) /\ Sub(s, k)'.cursorLsn # Sub(s, k).cursorLsn
    <3>1. Feed!Advance(<<s, k>>)
      BY <1>1, <2>4 DEF Kept, Feed!Advance, phase, floor, kept
    <3>. QED BY <3>1
  <2>5. CASE ~Has(s, k)'
    <3>1. Feed!End(<<s, k>>)
      BY <1>1, <2>5 DEF Feed!End, phase, floor
    <3>. QED BY <3>1
  <2>. QED BY <2>1, <2>2, <2>3, <2>4, <2>5 DEF FeedMoves
<1>3. \A f \in Sessions \X Keys :
        Feed!Begin(f) \/ Feed!GoLive(f) \/ Feed!Advance(f) \/ Feed!End(f) \/ Feed!Rest(f)
  <2>1. \A f \in Sessions \X Keys : f = <<f[1], f[2]>> /\ f[1] \in Sessions /\ f[2] \in Keys
    OBVIOUS
  <2>. QED BY <1>2, <2>1
<1>4. DOMAIN phase' = Sessions \X Keys /\ DOMAIN floor' = Sessions \X Keys
  BY DEF phase, floor
<1>. QED
  BY <1>3, <1>4, <1>5 DEF Feed!Next, phase, floor, kept

LEMMA Resting ==
  ASSUME NEW s \in Sessions, NEW k \in Keys, subStates'[s] = subStates[s]
  PROVE  FeedMoves(s, k)
<1>1. Has(s, k)' <=> Has(s, k)
  BY DEF Has
<1>2. Sub(s, k)' = Sub(s, k)
  BY DEF Sub
<1>. QED
  BY <1>1, <1>2 DEF FeedMoves, Kept

LEMMA AllResting ==
  ASSUME UNCHANGED subStates
  PROVE  \A s \in Sessions, k \in Keys : FeedMoves(s, k)
  BY Resting

(* One SubState is replaced, the others are left alone.                     *)
LEMMA OneMoves ==
  ASSUME IInv, NEW s \in Sessions, NEW k \in DOMAIN subStates[s], NEW sub,
         subStates' = [subStates EXCEPT ![s][k] = sub]
  PROVE  /\ Has(s, k) /\ Has(s, k)' /\ Sub(s, k)' = sub
         /\ \A r \in Sessions, x \in Keys : <<r, x>> # <<s, k>> => FeedMoves(r, x)
<1>1. DOMAIN subStates = Sessions
  BY DEF IInv, ClientTypeOK
<1>2. /\ subStates'[s] = [subStates[s] EXCEPT ![k] = sub]
      /\ \A r \in Sessions \ {s} : subStates'[r] = subStates[r]
  BY <1>1
<1>3. Has(s, k) /\ Has(s, k)' /\ Sub(s, k)' = sub
  BY <1>2 DEF Has, Sub
<1>4. ASSUME NEW r \in Sessions, NEW x \in Keys, <<r, x>> # <<s, k>> PROVE FeedMoves(r, x)
  <2>1. CASE r # s
    BY <1>2, <2>1, Resting
  <2>2. CASE r = s /\ x # k
    <3>1. (Has(r, x)' <=> Has(r, x)) /\ (Has(r, x) => Sub(r, x)' = Sub(r, x))
      BY <1>2, <2>2 DEF Has, Sub
    <3>. QED BY <3>1 DEF FeedMoves, Kept
  <2>. QED BY <1>4, <2>1, <2>2
<1>. QED
  BY <1>3, <1>4

LEMMA CloseMoves ==
  ASSUME IInv, NEW s \in Sessions, Close(s)
  PROVE  \A r \in Sessions, x \in Keys : FeedMoves(r, x)
<1>1. subStates' = [subStates EXCEPT ![s] = NoEntries] /\ DOMAIN subStates = Sessions
  BY DEF Close, IInv, ClientTypeOK, pastVars
<1>2. ASSUME NEW r \in Sessions, NEW x \in Keys PROVE FeedMoves(r, x)
  <2>1. CASE r = s
    BY <1>1, <2>1 DEF FeedMoves, Has, NoEntries
  <2>2. CASE r # s
    BY <1>1, <2>2, Resting
  <2>. QED BY <2>1, <2>2
<1>. QED
  BY <1>2

LEMMA UnsubscribeMoves ==
  ASSUME IInv, NEW s \in Sessions, NEW k \in Keys, Unsubscribe(s, k)
  PROVE  \A r \in Sessions, x \in Keys : FeedMoves(r, x)
<1>1. subStates' = [subStates EXCEPT ![s] = Drop(@, k)] /\ DOMAIN subStates = Sessions
  BY DEF Unsubscribe, IInv, ClientTypeOK, pastVars
<1>2. ASSUME NEW r \in Sessions, NEW x \in Keys PROVE FeedMoves(r, x)
  <2>1. CASE r = s /\ x = k
    BY <1>1, <2>1 DEF FeedMoves, Has, Drop, Restrict
  <2>2. CASE r = s /\ x # k
    <3>1. (Has(r, x)' <=> Has(r, x)) /\ (Has(r, x) => Sub(r, x)' = Sub(r, x))
      BY <1>1, <2>2 DEF Has, Sub, Drop, Restrict
    <3>. QED BY <3>1 DEF FeedMoves, Kept
  <2>3. CASE r # s
    BY <1>1, <2>3, Resting
  <2>. QED BY <2>1, <2>2, <2>3
<1>. QED
  BY <1>2

LEMMA SubscribeMoves ==
  ASSUME IInv, NEW t \in Attempts, NEW s \in Sessions, NEW k \in Keys, Subscribe(t, s, k)
  PROVE  \A r \in Sessions, x \in Keys : FeedMoves(r, x)
<1>1. PICK resume \in 0..wal : Fence(t, s, k, resume)
  BY DEF Subscribe, pastVars
<1> DEFINE fence == Larger(resume, lastSeen)
           new == [cursorLsn |-> fence, buffering |-> TRUE, buffer |-> {}]
<1>2. fence >= lastSeen /\ new.cursorLsn = fence /\ new.buffering = TRUE
  BY DEF IInv, CdcTypeOK, Larger
<1>3. subStates' = [subStates EXCEPT ![s] = Put(@, k, new)] /\ DOMAIN subStates = Sessions
  BY <1>1 DEF Fence, Register, IInv, ClientTypeOK
<1> HIDE DEF fence, new
<1>4. ASSUME NEW r \in Sessions, NEW x \in Keys PROVE FeedMoves(r, x)
  <2>1. CASE r = s /\ x = k
    <3>1. Has(r, x)' /\ Sub(r, x)' = new
      BY <1>3, <2>1 DEF Has, Sub, Put
    <3>2. Subscribe(t, r, x)
      BY <2>1
    <3>. QED BY <1>2, <3>1, <3>2 DEF FeedMoves, Begun
  <2>2. CASE r = s /\ x # k
    <3>1. (Has(r, x)' <=> Has(r, x)) /\ (Has(r, x) => Sub(r, x)' = Sub(r, x))
      BY <1>3, <2>2 DEF Has, Sub, Put
    <3>. QED BY <3>1 DEF FeedMoves, Kept
  <2>3. CASE r # s
    BY <1>3, <2>3, Resting
  <2>. QED BY <2>1, <2>2, <2>3
<1>. QED
  BY <1>4

(* A delivered diff is held back, or is newer than the cursor it becomes.   *)
LEMMA DeliverMoves ==
  ASSUME IInv, NEW k \in Keys, NEW l \in Nat, l <= lastSeen', Deliver(k, l)
  PROVE  \A r \in Sessions, x \in Keys : FeedMoves(r, x)
<1> DEFINE targets == {s \in Open : k \in subs[s] /\ Has(s, k)}
           held == {s \in targets : subStates[s][k].buffering}
           live == {s \in targets \ held : l > subStates[s][k].cursorLsn}
           out  == [s \in Sessions |-> IF s \in live THEN <<FrameOf("diff", k, l)>> ELSE <<>>]
<1>1. PICK took \in Acceptances(out) :
        subStates' = [s \in Sessions |->
             IF s \in held
             THEN [subStates[s] EXCEPT ![k].buffer = @ \cup {l}]
             ELSE IF s \in live /\ took[s] = 1
             THEN [subStates[s] EXCEPT ![k].cursorLsn = l]
             ELSE subStates[s]]
  BY DEF Deliver
<1>2. /\ \A s \in held \cup live : k \in DOMAIN subStates[s]
      /\ \A s \in live : l > subStates[s][k].cursorLsn
  BY DEF Has
<1> HIDE DEF targets, held, live, out
<1>3. ASSUME NEW r \in Sessions, NEW x \in Keys PROVE FeedMoves(r, x)
  <2>1. \A y \in DOMAIN subStates[r] : subStates[r][y] \in SubState
    BY DEF IInv, ClientTypeOK, IsMap
  <2>2. CASE r \in held
    <3> DEFINE sub == [subStates[r][k] EXCEPT !.buffer = @ \cup {l}]
    <3>1. /\ sub.cursorLsn = subStates[r][k].cursorLsn
          /\ sub.buffering = subStates[r][k].buffering
      BY <1>2, <2>1, <2>2 DEF SubState
    <3>2. subStates'[r] = [subStates[r] EXCEPT ![k] = sub]
      BY <1>1, <2>2
    <3> HIDE DEF sub
    <3>3. (Has(r, x)' <=> Has(r, x)) /\ (Has(r, x) /\ x # k => Sub(r, x)' = Sub(r, x))
      BY <3>2 DEF Has, Sub
    <3>4. x = k => Sub(r, x)' = sub
      BY <1>2, <2>2, <3>2 DEF Sub
    <3>. QED BY <3>1, <3>3, <3>4 DEF FeedMoves, Kept, Sub
  <2>3. CASE r \notin held /\ r \in live /\ took[r] = 1
    <3> DEFINE sub == [subStates[r][k] EXCEPT !.cursorLsn = l]
    <3>1. sub.cursorLsn = l /\ sub.buffering = subStates[r][k].buffering
      BY <1>2, <2>1, <2>3 DEF SubState
    <3>2. subStates'[r] = [subStates[r] EXCEPT ![k] = sub]
      BY <1>1, <2>3
    <3> HIDE DEF sub
    <3>3. (Has(r, x)' <=> Has(r, x)) /\ (Has(r, x) /\ x # k => Sub(r, x)' = Sub(r, x))
      BY <3>2 DEF Has, Sub
    <3>4. x = k => Sub(r, x)' = sub
      BY <1>2, <2>3, <3>2 DEF Sub
    <3>. QED BY <1>2, <2>3, <3>1, <3>3, <3>4 DEF FeedMoves, Kept, Sub
  <2>4. CASE r \notin held /\ ~(r \in live /\ took[r] = 1)
    <3>1. subStates'[r] = subStates[r]
      BY <1>1, <2>4
    <3>. QED BY <3>1, Resting
  <2>. QED BY <2>2, <2>3, <2>4
<1>. QED
  BY <1>3

(* The flush moves the cursor to diffs above it, and ends synchronisation   *)
(* when it was still under way.                                             *)
LEMMA RangeArrivesMoves ==
  ASSUME IInv, NEW t \in Attempts, RangeArrives(t)
  PROVE  \A r \in Sessions, x \in Keys : FeedMoves(r, x)
<1>0. task[t].s \in Sessions /\ task[t].k \in Keys
  BY DEF RangeArrives, IInv, ClientTypeOK, Task, Idle, pastVars
<1>. SUFFICES ASSUME NEW s \in Sessions, s = task[t].s, NEW k \in Keys, k = task[t].k
              PROVE  \A r \in Sessions, x \in Keys : FeedMoves(r, x)
  BY <1>0
<1>1. lastSeen' = lastSeen
  BY DEF RangeArrives, pastVars
<1>2. CASE ~Has(s, k)
  BY <1>2, AllResting DEF RangeArrives, pastVars
<1>3. CASE Has(s, k)
  <2>1. PICK q \in Flushes(subStates[s][k]) :
          subStates' = [subStates EXCEPT ![s][k] = AfterFlush(@, q)]
    BY <1>3 DEF RangeArrives, pastVars
  <2> DEFINE old == subStates[s][k]
             S == {l \in old.buffer : l > old.cursorLsn}
  <2>0. lastSeen \in Nat
    BY DEF IInv, CdcTypeOK
  <2>2. old \in SubState /\ old.buffer \subseteq 0..lastSeen
    BY <1>3 DEF IInv, ClientTypeOK, IsMap, SubBounds, Has
  <2>3. q \in Seq(S) /\ Len(q) \in Nat
    <3>1. IsFiniteSet(0..lastSeen)
      BY <2>0, FS_Interval
    <3>2. IsFiniteSet(S)
      BY <2>2, <3>1, FS_Subset
    <3>. QED BY <2>1, <3>2, AscendingType DEF Flushes
  <2>4. \/ CursorAfter(old, q) = old.cursorLsn
        \/ /\ CursorAfter(old, q) > old.cursorLsn
           /\ CursorAfter(old, q) <= lastSeen
    <3>1. CASE q = <<>>
      BY <3>1 DEF CursorAfter
    <3>2. CASE q # <<>>
      <4>1. Len(q) \in 1..Len(q)
        BY <2>3, <3>2, EmptySeq
      <4> HIDE DEF S
      <4>2. q[Len(q)] \in S
        BY <2>3, <4>1, ElementOfSeq
      <4>. QED BY <2>0, <2>2, <3>2, <4>2 DEF CursorAfter, S
    <3>. QED BY <3>1, <3>2
  <2> DEFINE sub == AfterFlush(old, q)
  <2>5. sub.cursorLsn = CursorAfter(old, q) /\ ~sub.buffering
    BY DEF AfterFlush
  <2>6. subStates' = [subStates EXCEPT ![s][k] = sub] /\ k \in DOMAIN subStates[s]
    BY <1>3, <2>1 DEF Has
  <2>7. Sub(s, k) = old
    BY DEF Sub
  <2>11. CursorAfter(old, q) \in Nat
    BY <2>1, <2>6, FlushBounds
  <2> HIDE DEF sub, old, S
  <2>8. /\ Has(s, k) /\ Has(s, k)' /\ Sub(s, k)' = sub
        /\ \A r \in Sessions, x \in Keys : <<r, x>> # <<s, k>> => FeedMoves(r, x)
    BY <2>6, OneMoves
  <2>9. FeedMoves(s, k)
    <3>1. old.cursorLsn \in Nat
      BY <2>2 DEF SubState
    <3>2. CASE old.buffering
      <4>1. Sub(s, k).buffering /\ ~Sub(s, k)'.buffering
        BY <2>5, <2>7, <2>8, <3>2, Zenon
      <4>2. Sub(s, k)'.cursorLsn >= Sub(s, k).cursorLsn
        <5>1. CursorAfter(old, q) >= old.cursorLsn
          BY <2>4, <2>11, <3>1
        <5>2. Sub(s, k)'.cursorLsn = CursorAfter(old, q) /\ Sub(s, k).cursorLsn = old.cursorLsn
          BY <2>5, <2>7, <2>8, Zenon
        <5>. QED BY <5>1, <5>2
      <4>. QED BY <2>8, <4>1, <4>2 DEF FeedMoves, Synced
    <3>3. CASE ~old.buffering
      BY <1>1, <2>4, <2>5, <2>7, <2>8, <3>1, <3>3 DEF FeedMoves, Kept
    <3>. QED BY <3>2, <3>3
  <2>10. ASSUME NEW r \in Sessions, NEW x \in Keys PROVE FeedMoves(r, x)
    BY <2>8, <2>9
  <2>. QED BY <2>10
<1>. QED
  BY <1>2, <1>3

(* Replay moves the cursor of a SubState only up, live or not.              *)
LEMMA ReplayArrivesMoves ==
  ASSUME IInv, NEW t \in Attempts, ReplayArrives(t)
  PROVE  \A r \in Sessions, x \in Keys : FeedMoves(r, x)
<1>0. task[t].s \in Sessions /\ task[t].k \in Keys
  BY DEF ReplayArrives, IInv, ClientTypeOK, Task, Idle, pastVars
<1>. SUFFICES ASSUME NEW s \in Sessions, s = task[t].s, NEW k \in Keys, k = task[t].k
              PROVE  \A r \in Sessions, x \in Keys : FeedMoves(r, x)
  BY <1>0
<1>1. lastSeen' = lastSeen
  BY DEF ReplayArrives, pastVars
<1>2. PICK seen \in SUBSET DOMAIN hot[k] : \E q \in Ascending(Replayed(t, seen)) :
        subStates' = IF Has(s, k) /\ q # <<>>
                     THEN [subStates EXCEPT ![s][k].cursorLsn = hot[k][q[Len(q)]]]
                     ELSE subStates
  BY DEF ReplayArrives, pastVars
<1>3. PICK q \in Ascending(Replayed(t, seen)) :
        subStates' = IF Has(s, k) /\ q # <<>>
                     THEN [subStates EXCEPT ![s][k].cursorLsn = hot[k][q[Len(q)]]]
                     ELSE subStates
  BY <1>2
<1>4. CASE ~(Has(s, k) /\ q # <<>>)
  BY <1>3, <1>4, AllResting
<1>5. CASE Has(s, k) /\ q # <<>>
  <2> DEFINE last == hot[k][q[Len(q)]]
             old == subStates[s][k]
             sub == [old EXCEPT !.cursorLsn = last]
  <2>1. /\ hot[k] \in Seq(Known(found, k, lastSeen)) /\ Len(hot[k]) \in Nat
        /\ DOMAIN hot[k] = 1..Len(hot[k])
    BY <1>1, LenProperties DEF IInv, LogBounds, Stored
  <2>2. Replayed(t, seen) \subseteq 1..Len(hot[k])
    BY <2>1 DEF Replayed, DiffsAfter
  <2>3. q \in Seq(Replayed(t, seen)) /\ Len(q) \in Nat
    <3>1. IsFiniteSet(Replayed(t, seen))
      BY <2>1, <2>2, FS_Interval, FS_Subset, 1 \in Int, Len(hot[k]) \in Int
    <3>. QED BY <1>3, <3>1, AscendingType
  <2>4. q[Len(q)] \in Replayed(t, seen)
    <3>1. Len(q) \in 1..Len(q)
      BY <1>5, <2>3, EmptySeq
    <3>. QED BY <2>3, <3>1, ElementOfSeq
  <2>5. last > old.cursorLsn
    BY <1>5, <2>4 DEF Replayed
  <2>6. last <= lastSeen \/ last \in found[k]
    <3>1. q[Len(q)] \in 1..Len(hot[k])
      BY <2>2, <2>4
    <3>2. last \in Known(found, k, lastSeen)
      BY <2>1, <3>1, ElementOfSeq
    <3>. QED BY <3>2 DEF Known
  <2>7. old \in SubState /\ k \in DOMAIN subStates[s]
    BY <1>1, <1>5 DEF IInv, ClientTypeOK, IsMap, Has
  <2>8. subStates' = [subStates EXCEPT ![s][k] = sub]
    BY <1>3, <1>5
  <2> HIDE DEF last
  <2>9. sub.cursorLsn = last /\ sub.buffering = old.buffering
    BY <2>7 DEF SubState
  <2>10. Sub(s, k) = old
    BY DEF Sub
  <2> HIDE DEF sub, old
  <2>11. /\ Has(s, k) /\ Has(s, k)' /\ Sub(s, k)' = sub
         /\ \A r \in Sessions, x \in Keys : <<r, x>> # <<s, k>> => FeedMoves(r, x)
    BY <2>7, <2>8, OneMoves
  <2>12. FeedMoves(s, k)
    BY <1>1, <2>5, <2>6, <2>9, <2>10, <2>11 DEF FeedMoves, Kept
  <2>13. ASSUME NEW r \in Sessions, NEW x \in Keys PROVE FeedMoves(r, x)
    BY <2>11, <2>12
  <2>. QED BY <2>13
<1>. QED
  BY <1>4, <1>5

LEMMA NextFeeds ==
  ASSUME IInv, Next
  PROVE  Feed!Next
<1>0. lastSeen \in Nat /\ found' = found
  BY PastFound DEF IInv, CdcTypeOK
<1>1. ASSUME NEW ks, Commit(ks) PROVE Feed!Next
  BY <1>0, <1>1, AllResting, MovesAreFeedSteps DEF Commit, clientVars, pastVars
<1>2. ASSUME NEW k \in Keys, Rewind(k) PROVE Feed!Next
  BY <1>0, <1>2, AllResting, MovesAreFeedSteps DEF Rewind, clientVars, pastVars
<1>3. ASSUME NEW k \in Keys, ConsumeDiff(k) PROVE Feed!Next
  <2>1. PICK l \in HeaderLsn(topic[k][diffPos[k] + 1]) :
          lastSeen' = Larger(l, lastSeen) /\ Deliver(k, l)
    BY <1>3 DEF ConsumeDiff, pastVars
  <2>2. l \in Nat /\ l <= lastSeen' /\ lastSeen' >= lastSeen
    <3>1. diffPos[k] \in Nat /\ diffPos[k] < Len(topic[k])
      BY <1>3 DEF IInv, CdcTypeOK, ConsumeDiff, pastVars
    <3>. QED BY <1>0, <2>1, <3>1, HeaderBounds
  <2>. QED BY <1>0, <2>1, <2>2, DeliverMoves, MovesAreFeedSteps
<1>4. ASSUME NEW k \in Keys, ConsumeRow(k) PROVE Feed!Next
  <2>1. PICK l \in HeaderLsn(topic[k][rowPos[k] + 1]) : lastSeen' = Larger(l, lastSeen)
    BY <1>4 DEF ConsumeRow, pastVars
  <2>2. lastSeen' >= lastSeen
    <3>1. rowPos[k] \in Nat /\ rowPos[k] < Len(topic[k])
      BY <1>4 DEF IInv, CdcTypeOK, ConsumeRow, pastVars
    <3>. QED BY <1>0, <2>1, <3>1, HeaderBounds
  <2>. QED BY <1>0, <1>4, <2>2, AllResting, MovesAreFeedSteps DEF ConsumeRow, clientVars, pastVars
<1>5. ASSUME NEW s \in Sessions, OpenSession(s) \/ Drain(s) PROVE Feed!Next
  BY <1>0, <1>5, AllResting, MovesAreFeedSteps DEF OpenSession, Drain, clientVars, pastVars
<1>6. ASSUME NEW s \in Sessions, Close(s) PROVE Feed!Next
  <2>1. lastSeen' >= lastSeen
    BY <1>0, <1>6 DEF Close, pastVars
  <2>. QED BY <1>0, <1>6, <2>1, CloseMoves, MovesAreFeedSteps
<1>7. ASSUME NEW t \in Attempts, NEW s \in Sessions, NEW k \in Keys, Subscribe(t, s, k)
      PROVE  Feed!Next
  <2>1. lastSeen' >= lastSeen
    BY <1>0, <1>7 DEF Subscribe, pastVars
  <2>. QED BY <1>0, <1>7, <2>1, SubscribeMoves, MovesAreFeedSteps
<1>8. ASSUME NEW t \in Attempts, Settle(t) PROVE Feed!Next
  <2>1. lastSeen' >= lastSeen
    <3>1. lastSeen' = lastSeen
      BY <1>8, Zenon DEF Settle, SnapshotArrives, SnapshotFails, RangeArrives, ReplayArrives, pastVars
    <3>. QED BY <1>0, <3>1
  <2>2. CASE SnapshotArrives(t) \/ SnapshotFails(t)
    <3>1. UNCHANGED subStates
      BY <2>2 DEF SnapshotArrives, SnapshotFails, clientVars, pastVars
    <3>. QED BY <1>0, <2>1, <3>1, AllResting, MovesAreFeedSteps
  <2>3. CASE RangeArrives(t)
    BY <1>0, <2>1, <2>3, RangeArrivesMoves, MovesAreFeedSteps
  <2>4. CASE ReplayArrives(t)
    BY <1>0, <2>1, <2>4, ReplayArrivesMoves, MovesAreFeedSteps
  <2>. QED BY <1>8, <2>2, <2>3, <2>4 DEF Settle
<1>9. ASSUME NEW s \in Sessions, NEW k \in Keys, Unsubscribe(s, k) PROVE Feed!Next
  <2>1. lastSeen' >= lastSeen
    BY <1>0, <1>9 DEF Unsubscribe, pastVars
  <2>. QED BY <1>0, <1>9, <2>1, UnsubscribeMoves, MovesAreFeedSteps
<1>. QED
  BY <1>1, <1>2, <1>3, <1>4, <1>5, <1>6, <1>7, <1>8, <1>9 DEF Next

(* Each subscription keeps the promise of LiveFeed: it starts at or above   *)
(* LAST_SEEN_LSN, its cursor never goes back and passes LAST_SEEN_LSN only  *)
(* by a diff KeyDB kept from an earlier process, and only the end of its    *)
(* synchronisation makes it live.                                           *)
THEOREM RefinesLiveFeed == Spec => ImplementsLiveFeed
<1>1. Init => Feed!Init
  <2> SUFFICES ASSUME Init PROVE Feed!Init
    OBVIOUS
  <2>1. \A f \in Sessions \X Keys : ~Has(f[1], f[2])
    BY DEF Init, Has, NoEntries
  <2>2. \A f \in Sessions \X Keys : found[f[2]] \subseteq Nat
    BY InitIInv DEF IInv, CdcTypeOK
  <2>. QED BY <2>1, <2>2 DEF Init, Feed!Init
<1>2. IInv /\ [Next]_vars => [Feed!Next]_(Feed!vars)
  <2> SUFFICES ASSUME IInv, [Next]_vars PROVE [Feed!Next]_(Feed!vars)
    OBVIOUS
  <2>1. CASE Next
    BY <2>1, NextFeeds
  <2>2. CASE UNCHANGED vars
    BY <2>2 DEF vars, clientVars, pastVars, Feed!vars, Has
  <2>. QED BY <2>1, <2>2
<1>. QED
  BY <1>1, <1>2, Invariant, PTL DEF Spec, ImplementsLiveFeed, Feed!Spec
=============================================================================
