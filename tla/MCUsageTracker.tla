--------------------------- MODULE MCUsageTracker ---------------------------
(* Small instance of UsageTracker: ids and names are interchangeable. *)
EXTENDS UsageTracker, TLC

Symmetry == Permutations(Users) \cup Permutations(Labels) \cup Permutations(Reqs)
=============================================================================
