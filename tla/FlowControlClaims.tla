------------------------- MODULE FlowControlClaims -------------------------
(***************************************************************************)
(* What comments say of FlowControl and the code does not do.              *)
(***************************************************************************)
EXTENDS FlowControl

(* kafka.ts 96: "Resumes all current assignments once pressure subsides".   *)
(* Once no connected client is slow the partitions flow again.              *)
PressureSubsides ==
  <>[](slow = {} /\ assigned # {}) => <>[](held = {})

(* kafka.ts 86: "Pauses all current assignments; used when slow sockets     *)
(* exceed threshold".  With the count above the threshold and a settled     *)
(* assignment, every assigned partition ends up paused.                     *)
PausesAllAssigned ==
  \A parts \in SUBSET Partitions :
    <>[](slowSockets > Threshold /\ assigned = parts) => <>[](held = parts)
=============================================================================
