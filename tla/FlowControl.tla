---------------------------- MODULE FlowControl ----------------------------
(***************************************************************************)
(* The flow control of the CDC consumer: a timer pauses every assigned     *)
(* partition while too many sockets are slow and resumes them afterwards,  *)
(* and a rebalance changes the assignment at any moment.                   *)
(***************************************************************************)
EXTENDS SlowSockets

CONSTANTS Partitions, \* partitions of the CDC topics
          Threshold   \* SLOW_SOCKET_PAUSE_THRESHOLD

ASSUME ThresholdAssumption == Threshold \in Nat

VARIABLES paused,   \* GatewayConsumer.paused
          assigned, \* the consumer's assignments()
          held      \* partitions the Kafka client holds paused

flowVars == <<paused, assigned, held>>
vars == <<slowVars, flowVars>>

(* Mutants: every partition is paused instead of the assigned ones; the     *)
(* flag is tested the wrong way round.                                      *)
PauseAllPartitions ==
  IF ~paused /\ assigned # {}
  THEN paused' = TRUE /\ held' = Partitions
  ELSE UNCHANGED <<paused, held>>

PauseAllInverted ==
  IF paused /\ assigned # {}
  THEN held' = held \cup assigned /\ UNCHANGED paused
  ELSE UNCHANGED <<paused, held>>

PauseAll ==
  IF ~paused /\ assigned # {}
  THEN paused' = TRUE /\ held' = held \cup assigned
  ELSE UNCHANGED <<paused, held>>

(* Mutant: the flag is cleared and the Kafka client not told.               *)
ResumeAllSilently ==
  IF paused /\ assigned # {}
  THEN paused' = FALSE /\ UNCHANGED held
  ELSE UNCHANGED <<paused, held>>

ResumeAll ==
  IF paused /\ assigned # {}
  THEN paused' = FALSE /\ held' = held \ assigned
  ELSE UNCHANGED <<paused, held>>

(* Mutant: the consumer is paused at the threshold already.                 *)
TickAtThreshold ==
  /\ IF slowSockets >= Threshold THEN PauseAll ELSE ResumeAll
  /\ UNCHANGED <<slowVars, assigned>>

(* The timer of main.ts, every 250 ms.                                      *)
Tick ==
  /\ IF slowSockets > Threshold THEN PauseAll ELSE ResumeAll
  /\ UNCHANGED <<slowVars, assigned>>

(* The group coordinator assigns other partitions.  A partition starts      *)
(* flowing when it is assigned; one that stays may or may not keep its      *)
(* pause.                                                                   *)
Rebalance ==
  /\ \E parts \in SUBSET Partitions : assigned' = parts
  /\ \E kept \in SUBSET (held \cap assigned \cap assigned') : held' = kept
  /\ UNCHANGED <<slowVars, paused>>

Init ==
  /\ AccountInit
  /\ paused = FALSE
  /\ assigned = {}
  /\ held = {}

Next ==
  \/ AccountNext /\ UNCHANGED flowVars
  \/ Tick
  \/ Rebalance

Spec == Init /\ [][Next]_vars

(* The interval timer keeps firing.                                         *)
FairSpec == Spec /\ WF_vars(Tick)
-----------------------------------------------------------------------------
TypeOK ==
  /\ SlowTypeOK
  /\ paused \in BOOLEAN
  /\ assigned \in SUBSET Partitions
  /\ held \in SUBSET assigned

(* A consumer that does not think itself paused holds no partition back:    *)
(* nothing would ever resume it (kafka.ts 87-104), whatever rebalances come *)
(* between two ticks.                                                       *)
NoForgottenPause == ~paused => held = {}

(* Once the count stays at or below the threshold every assigned partition  *)
(* flows for good (main.ts 149-156, kafka.ts 97-104).                       *)
LowCountResumes ==
  <>[](slowSockets <= Threshold /\ assigned # {}) => <>[](held = {})

(* Once the count stays above the threshold the consumer has itself for     *)
(* paused for good (kafka.ts 87-94), although partitions assigned later may *)
(* flow.                                                                    *)
HighCountPauses ==
  <>[](slowSockets > Threshold /\ assigned # {}) => <>[]paused
=============================================================================
