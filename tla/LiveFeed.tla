----------------------------- MODULE LiveFeed -----------------------------
(***************************************************************************)
(* What the gateway promises for one live query on one connection, with    *)
(* the sockets, queues, caches and coroutines left out.  A feed is "off",  *)
(* "syncing" (its snapshot is on the way, diffs are held back) or "live".  *)
(* Its floor is the position below which no diff is sent any more, and     *)
(* watermark is the highest position the gateway has heard of.             *)
(*                                                                         *)
(* The promise: a feed starts at or above the watermark; while it exists   *)
(* its floor never goes back and moves only to positions the gateway has   *)
(* heard of or kept from before it started; and nothing turns a feed live  *)
(* but the end of its synchronisation.                                     *)
(***************************************************************************)
EXTENDS Integers

CONSTANT Feeds      \* the (connection, query) pairs

VARIABLES phase,    \* phase[f] \in {"off", "syncing", "live"}
          floor,    \* floor[f]: highest position already accounted for
          watermark,\* highest position heard of since the gateway started
          kept      \* kept[f]: positions kept from before it started

vars == <<phase, floor, watermark, kept>>

Init ==
  /\ phase = [f \in Feeds |-> "off"]
  /\ floor = [f \in Feeds |-> 0]
  /\ watermark = 0
  /\ DOMAIN kept = Feeds /\ \A f \in Feeds : kept[f] \subseteq Nat

\* A client asks for the query, possibly again: diffs are held from here on.
Begin(f) ==
  /\ phase'[f] = "syncing"
  /\ floor'[f] >= watermark

\* The snapshot is out; what was held back is accounted for.
GoLive(f) ==
  /\ phase[f] = "syncing"
  /\ phase'[f] = "live"
  /\ floor'[f] >= floor[f]

\* A newer diff is taken.  A feed asked for again may take one while it is
\* syncing, from the replay of the earlier request.
Advance(f) ==
  /\ phase[f] # "off"
  /\ phase'[f] = phase[f]
  /\ floor'[f] > floor[f]
  /\ floor'[f] <= watermark' \/ floor'[f] \in kept[f]

\* The client unsubscribes or disconnects.
End(f) ==
  /\ phase'[f] = "off"
  /\ floor'[f] = 0

Rest(f) ==
  /\ phase'[f] = phase[f]
  /\ floor'[f] = floor[f]

(***************************************************************************)
(* One event of the gateway may move many feeds: a diff advances every     *)
(* live feed of its query, a disconnect ends every feed of a connection.   *)
(***************************************************************************)
Next ==
  /\ DOMAIN phase' = Feeds
  /\ DOMAIN floor' = Feeds
  /\ watermark' >= watermark
  /\ UNCHANGED kept
  /\ \A f \in Feeds : Begin(f) \/ GoLive(f) \/ Advance(f) \/ End(f) \/ Rest(f)

Spec == Init /\ [][Next]_vars
=============================================================================
