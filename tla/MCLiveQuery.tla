--------------------------- MODULE MCLiveQuery ---------------------------
(* Instances of LiveQuery for TLC: symmetric sessions, keys and attempts.  *)
EXTENDS LiveQuery, TLC

Symmetry == Permutations(Sessions) \cup Permutations(Keys) \cup Permutations(Attempts)
=============================================================================
