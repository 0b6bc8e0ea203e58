----------------------------- MODULE MCRpdCache -----------------------------
(* Small instance of RpdCache: a flight to spare beyond the keys, and a    *)
(* failing read or a purge.                                                *)
EXTENDS RpdCache

MCInit == Init /\ failsLeft + purgesLeft = 1
MCSpec == MCInit /\ [][Next]_vars /\ Fairness
=============================================================================
