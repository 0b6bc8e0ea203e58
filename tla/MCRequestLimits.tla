-------------------------- MODULE MCRequestLimits --------------------------
(* The default tier has no day limit.                                      *)
EXTENDS RequestLimits, TLC
MCRpm == [t \in Tiers |-> 1]
MCRpd == [t \in Tiers |-> IF t = Default THEN None ELSE 1]
\* One user at a time has a bucket of the default tier, and one count holds a flush twice.
OneAtATime ==
    /\ Cardinality({u \in Users : bucket[<<u, Default>>] # Empty}) <= 1
    /\ Cardinality(crossed) <= 1
MCSymmetry == Permutations(Calls) \cup Permutations(Pool)
=============================================================================
