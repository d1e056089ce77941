---------------------------- MODULE SlowSockets ----------------------------
(***************************************************************************)
(* The accounting of slow sockets in one gateway process: the _slow flags  *)
(* of the sessions and the global counter SLOW_SOCKETS, which two send     *)
(* paths raise and the drain handler lowers.  Why a socket refuses frames, *)
(* and what is queued for it, is left to LiveQuery.                        *)
(***************************************************************************)
EXTENDS Integers, FiniteSets

CONSTANT Sessions \* connections, each opened at most once

ASSUME SessionsAssumption == IsFiniteSet(Sessions)

VARIABLES conn,        \* conn[s]: "new", "open" or "closed"
          slow,        \* sessions whose _slow flag is set
          slowSockets  \* SLOW_SOCKETS

slowVars == <<conn, slow, slowSockets>>

Connect(s) ==
  /\ conn[s] = "new"
  /\ conn' = [conn EXCEPT ![s] = "open"]
  /\ UNCHANGED <<slow, slowSockets>>

(* One event finds the sockets of refusing unwilling, some of them again.   *)
Refuse(refusing) ==
  /\ \A s \in refusing : conn[s] = "open"
  /\ slow' = slow \cup refusing
  /\ slowSockets' = slowSockets + Cardinality(refusing \ slow)
  /\ UNCHANGED conn

(* Mutant: the count is lowered whatever the flag.                          *)
WritableUnguarded(s) ==
  /\ conn[s] = "open"
  /\ slow' = slow \ {s}
  /\ slowSockets' = IF slowSockets > 0 THEN slowSockets - 1 ELSE 0
  /\ UNCHANGED conn

(* drain. *)
Writable(s) ==
  /\ conn[s] = "open"
  /\ slow' = slow \ {s}
  /\ slowSockets' = IF s \in slow /\ slowSockets > 0 THEN slowSockets - 1 ELSE slowSockets
  /\ UNCHANGED conn

(* close drops the flag and leaves the count.                               *)
Disconnect(s) ==
  /\ conn[s] = "open"
  /\ conn' = [conn EXCEPT ![s] = "closed"]
  /\ slow' = slow \ {s}
  /\ UNCHANGED slowSockets

AccountInit ==
  /\ conn = [s \in Sessions |-> "new"]
  /\ slow = {}
  /\ slowSockets = 0

AccountNext ==
  \/ \E s \in Sessions : Connect(s) \/ Writable(s) \/ Disconnect(s)
  \/ \E refusing \in (SUBSET Sessions) \ {{}} : Refuse(refusing)

Accounting == AccountInit /\ [][AccountNext]_slowVars
-----------------------------------------------------------------------------
SlowTypeOK ==
  /\ conn \in [Sessions -> {"new", "open", "closed"}]
  /\ slow \in SUBSET Sessions
  /\ slowSockets \in Nat

Closed == {s \in Sessions : conn[s] = "closed"}

(* SLOW_SOCKETS counts at least the slow sessions, so the consumer is not   *)
(* resumed too early, and at most those and the sessions that have closed   *)
(* (delivery.ts 17-19 and 83, io.ts 27, handlers.ts 123-126 and 146-148).   *)
SlowCountBounds ==
  /\ Cardinality(slow) <= slowSockets
  /\ slowSockets <= Cardinality(slow \cup Closed)
=============================================================================
