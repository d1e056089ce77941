------------------------------ MODULE RpcCall ------------------------------
(***************************************************************************)
(* What a caller of the SQL RPC may rely on, with topics, offsets, timers  *)
(* and retries left out.                                                   *)
(*                                                                         *)
(* The promise: a call is settled once and stays as it was settled; its    *)
(* answer describes the database at some moment between the call and the   *)
(* answer; an answer that tells of a change was preceded by that change;   *)
(* a call that was refused on the spot never changes anything.  A call     *)
(* that failed may still be performed, and may be performed again.         *)
(***************************************************************************)
EXTENDS Integers

CONSTANT Calls

VARIABLES stage,   \* stage[c] \in {"idle", "waiting", "answered", "failed", "refused"}
          asked,   \* asked[c]: version of the database when the call was made
          seen,    \* seen[c]: version its answer describes
          changed, \* changed[c]: its answer tells of a change
          effects, \* effects[c]: how often it changed the database
          db       \* version of the database

vars == <<stage, asked, seen, changed, effects, db>>

Init ==
  /\ stage = [c \in Calls |-> "idle"]
  /\ asked = [c \in Calls |-> 0]
  /\ seen = [c \in Calls |-> 0]
  /\ changed = [c \in Calls |-> FALSE]
  /\ effects = [c \in Calls |-> 0]
  /\ db = 0

Ask(c) ==
  /\ stage[c] = "idle"
  /\ stage' = [stage EXCEPT ![c] = "waiting"]
  /\ asked' = [asked EXCEPT ![c] = db]
  /\ UNCHANGED <<seen, changed, effects, db>>

Refuse(c) ==
  /\ stage[c] = "idle"
  /\ stage' = [stage EXCEPT ![c] = "refused"]
  /\ UNCHANGED <<asked, seen, changed, effects, db>>

\* At any time after the call, also when its caller has given up.
Perform(c) ==
  /\ stage[c] \in {"waiting", "answered", "failed"}
  /\ effects' = [effects EXCEPT ![c] = @ + 1]
  /\ db' = db + 1
  /\ UNCHANGED <<stage, asked, seen, changed>>

Answer(c) ==
  /\ stage[c] = "waiting"
  /\ \E v \in asked[c]..db, w \in BOOLEAN :
       /\ w => effects[c] > 0 /\ v > asked[c]
       /\ stage' = [stage EXCEPT ![c] = "answered"]
       /\ seen' = [seen EXCEPT ![c] = v]
       /\ changed' = [changed EXCEPT ![c] = w]
  /\ UNCHANGED <<asked, effects, db>>

Fail(C) ==
  /\ \A c \in C : stage[c] = "waiting"
  /\ stage' = [c \in Calls |-> IF c \in C THEN "failed" ELSE stage[c]]
  /\ UNCHANGED <<asked, seen, changed, effects, db>>

Next ==
  \/ \E c \in Calls : Ask(c) \/ Refuse(c) \/ Perform(c) \/ Answer(c)
  \/ \E C \in SUBSET Calls : Fail(C)

Spec == Init /\ [][Next]_vars
=============================================================================
