------------------------- MODULE FlowControlProofs -------------------------
(***************************************************************************)
(* Theorems about SlowSockets and FlowControl for any number of sessions   *)
(* and partitions and any threshold.                                       *)
(***************************************************************************)
EXTENDS FlowControl, TLAPS, FiniteSetTheorems

-----------------------------------------------------------------------------
(* The accounting.  The bounds on the count are inductive by themselves:    *)
(* a session is counted when its flag is set, and each time the flag is     *)
(* dropped the count follows or the session has closed.                     *)

(* The sizes the bounds compare are numbers. *)
LEMMA SlowSizes ==
  ASSUME SlowTypeOK
  PROVE  /\ IsFiniteSet(slow) /\ Cardinality(slow) \in Nat
         /\ IsFiniteSet(slow \cup Closed) /\ Cardinality(slow \cup Closed) \in Nat
<1>1. IsFiniteSet(slow) /\ IsFiniteSet(slow \cup Closed)
  BY FS_Subset, SessionsAssumption DEF SlowTypeOK, Closed
<1>. QED
  BY <1>1, FS_CardinalityType

LEMMA ConnectStep ==
  ASSUME SlowTypeOK, SlowCountBounds, NEW s \in Sessions, Connect(s)
  PROVE  SlowTypeOK' /\ SlowCountBounds'
<1>1. SlowTypeOK' /\ Closed' = Closed /\ slow' = slow /\ slowSockets' = slowSockets
  BY DEF SlowTypeOK, Connect, Closed
<1>. QED
  BY <1>1 DEF SlowCountBounds

LEMMA RefuseStep ==
  ASSUME SlowTypeOK, SlowCountBounds, NEW refusing \in SUBSET Sessions, Refuse(refusing)
  PROVE  SlowTypeOK' /\ SlowCountBounds'
<1> DEFINE new == refusing \ slow
<1>1. /\ slow' = slow \cup new /\ slow' \cup Closed' = (slow \cup Closed) \cup new
      /\ slow \cap new = {} /\ (slow \cup Closed) \cap new = {}
      /\ conn' = conn /\ slowSockets' = slowSockets + Cardinality(new)
  BY DEF Refuse, Closed
<1>2. IsFiniteSet(new) /\ Cardinality(new) \in Nat
  BY FS_Subset, FS_CardinalityType, SessionsAssumption
<1> HIDE DEF new
<1>3. /\ Cardinality(slow') = Cardinality(slow) + Cardinality(new)
      /\ Cardinality(slow' \cup Closed') = Cardinality(slow \cup Closed) + Cardinality(new)
  <2>1. Cardinality({}) = 0
    BY FS_EmptySet
  <2>2. Cardinality(slow \cup new) = Cardinality(slow) + Cardinality(new) - 0
    BY <1>1, <1>2, <2>1, SlowSizes, FS_Union
  <2>3. Cardinality((slow \cup Closed) \cup new)
          = Cardinality(slow \cup Closed) + Cardinality(new) - 0
    BY <1>1, <1>2, <2>1, SlowSizes, FS_Union
  <2>4. /\ Cardinality(slow \cup new) = Cardinality(slow) + Cardinality(new)
        /\ Cardinality((slow \cup Closed) \cup new)
             = Cardinality(slow \cup Closed) + Cardinality(new)
    BY <1>2, <2>2, <2>3, SlowSizes
  <2>5. slow' = slow \cup new /\ slow' \cup Closed' = (slow \cup Closed) \cup new
    BY <1>1
  <2>. QED BY <2>4, <2>5, Zenon
<1>4. SlowTypeOK'
  BY <1>1, <1>2 DEF SlowTypeOK, Refuse
<1>5. SlowCountBounds'
  BY <1>1, <1>2, <1>3, SlowSizes DEF SlowCountBounds, SlowTypeOK
<1>. QED
  BY <1>4, <1>5

LEMMA WritableStep ==
  ASSUME SlowTypeOK, SlowCountBounds, NEW s \in Sessions, Writable(s)
  PROVE  SlowTypeOK' /\ SlowCountBounds'
<1>1. /\ slow' = slow \ {s} /\ slow' \cup Closed' = (slow \cup Closed) \ {s}
      /\ s \in slow <=> s \in slow \cup Closed
  BY DEF Writable, Closed
<1>2. /\ Cardinality(slow')
           = IF s \in slow THEN Cardinality(slow) - 1 ELSE Cardinality(slow)
      /\ Cardinality(slow' \cup Closed')
           = IF s \in slow THEN Cardinality(slow \cup Closed) - 1
                           ELSE Cardinality(slow \cup Closed)
  BY <1>1, SlowSizes, FS_RemoveElement
<1>3. s \in slow => Cardinality(slow) # 0
  BY SlowSizes, FS_EmptySet
<1>4. /\ slowSockets \in Nat
      /\ slowSockets' = IF s \in slow /\ slowSockets > 0 THEN slowSockets - 1 ELSE slowSockets
  BY DEF Writable, SlowTypeOK
<1>5. SlowTypeOK'
  BY <1>4 DEF SlowTypeOK, Writable
<1>6. SlowCountBounds'
  BY <1>2, <1>3, <1>4, SlowSizes DEF SlowCountBounds
<1>. QED
  BY <1>5, <1>6

LEMMA DisconnectStep ==
  ASSUME SlowTypeOK, SlowCountBounds, NEW s \in Sessions, Disconnect(s)
  PROVE  SlowTypeOK' /\ SlowCountBounds'
<1>1. SlowTypeOK' /\ slow' \subseteq slow /\ slowSockets' = slowSockets
  BY DEF SlowTypeOK, Disconnect
<1>2. slow \cup Closed \subseteq slow' \cup Closed'
  BY DEF SlowTypeOK, Disconnect, Closed
<1>3. IsFiniteSet(slow' \cup Closed')
  BY <1>1, FS_Subset, SessionsAssumption DEF SlowTypeOK, Closed
<1>4. /\ Cardinality(slow') <= Cardinality(slow) /\ Cardinality(slow') \in Nat
      /\ Cardinality(slow \cup Closed) <= Cardinality(slow' \cup Closed')
      /\ Cardinality(slow' \cup Closed') \in Nat
  BY <1>1, <1>2, <1>3, SlowSizes, FS_Subset, FS_CardinalityType
<1>5. SlowCountBounds'
  BY <1>1, <1>4, SlowSizes DEF SlowCountBounds, SlowTypeOK
<1>. QED
  BY <1>1, <1>5

LEMMA AccountInitHolds == AccountInit => SlowTypeOK /\ SlowCountBounds
<1> SUFFICES ASSUME AccountInit PROVE SlowTypeOK /\ SlowCountBounds
  OBVIOUS
<1>1. slow = {} /\ slow \cup Closed = {} /\ slowSockets = 0
  BY DEF AccountInit, Closed
<1>. QED
  BY <1>1, FS_EmptySet DEF AccountInit, SlowTypeOK, SlowCountBounds

LEMMA AccountStep ==
  ASSUME SlowTypeOK, SlowCountBounds, [AccountNext]_slowVars
  PROVE  SlowTypeOK' /\ SlowCountBounds'
<1>1. CASE \E s \in Sessions : Connect(s) \/ Writable(s) \/ Disconnect(s)
  BY <1>1, ConnectStep, WritableStep, DisconnectStep
<1>2. CASE \E refusing \in (SUBSET Sessions) \ {{}} : Refuse(refusing)
  BY <1>2, RefuseStep
<1>3. CASE UNCHANGED slowVars
  BY <1>3 DEF slowVars, SlowTypeOK, SlowCountBounds, Closed
<1>. QED
  BY <1>1, <1>2, <1>3 DEF AccountNext

(* SLOW_SOCKETS never undercounts the slow sessions, and overcounts them by *)
(* at most the sessions that have closed.                                   *)
THEOREM CountBounded == Accounting => []SlowCountBounds
<1>1. AccountInit => SlowTypeOK /\ SlowCountBounds
  BY AccountInitHolds
<1>2. SlowTypeOK /\ SlowCountBounds /\ [AccountNext]_slowVars => (SlowTypeOK /\ SlowCountBounds)'
  BY AccountStep
<1>. QED
  BY <1>1, <1>2, PTL DEF Accounting
-----------------------------------------------------------------------------
(* Flow control. *)

FlowInv == SlowTypeOK /\ SlowCountBounds /\ TypeOK /\ NoForgottenPause

LEMMA FlowStep ==
  ASSUME FlowInv, [Next]_vars
  PROVE  FlowInv'
<1>1. CASE AccountNext /\ UNCHANGED flowVars
  <2>1. SlowTypeOK' /\ SlowCountBounds'
    BY <1>1, AccountStep DEF FlowInv
  <2>. QED BY <1>1, <2>1 DEF FlowInv, TypeOK, NoForgottenPause, flowVars
<1>2. CASE Tick
  <2>1. SlowTypeOK' /\ SlowCountBounds'
    BY <1>2, AccountStep DEF FlowInv, Tick
  <2>. QED BY <1>2, <2>1 DEF FlowInv, TypeOK, NoForgottenPause, Tick, PauseAll, ResumeAll
<1>3. CASE Rebalance
  <2>1. SlowTypeOK' /\ SlowCountBounds'
    BY <1>3, AccountStep DEF FlowInv, Rebalance
  <2>. QED BY <1>3, <2>1 DEF FlowInv, TypeOK, NoForgottenPause, Rebalance
<1>4. CASE UNCHANGED vars
  <2>1. SlowTypeOK' /\ SlowCountBounds'
    BY <1>4, AccountStep DEF FlowInv, vars
  <2>. QED BY <1>4, <2>1 DEF FlowInv, TypeOK, NoForgottenPause, vars, flowVars
<1>. QED
  BY <1>1, <1>2, <1>3, <1>4 DEF Next

THEOREM FlowInvariant == Spec => []FlowInv
<1>1. Init => FlowInv
  <2> SUFFICES ASSUME Init PROVE FlowInv
    OBVIOUS
  <2>1. SlowTypeOK /\ SlowCountBounds
    BY AccountInitHolds DEF Init
  <2>. QED BY <2>1 DEF Init, FlowInv, TypeOK, NoForgottenPause
<1>2. FlowInv /\ [Next]_vars => FlowInv'
  BY FlowStep
<1>. QED
  BY <1>1, <1>2, PTL DEF Spec

(* The flags, the count and the assignment keep their types, and only       *)
(* assigned partitions are held back (kafka.ts 87-104).                     *)
THEOREM FlowTyped == Spec => []TypeOK
  BY FlowInvariant, PTL DEF FlowInv

(* The bounds of the count hold with the timer and rebalances running.      *)
THEOREM FlowCountBounded == Spec => []SlowCountBounds
  BY FlowInvariant, PTL DEF FlowInv

(* A consumer that is not paused holds no partition back, whatever          *)
(* rebalances come between the ticks.                                       *)
THEOREM NeverForgotten == Spec => []NoForgottenPause
  BY FlowInvariant, PTL DEF FlowInv
=============================================================================
