-------------------------- MODULE MCPoolMembership --------------------------
(* One pool id that two users share, two requests at a time.               *)
EXTENDS PoolMembership

CONSTANTS u1, u2, p1, i1, t1, t2

MCUsers == {u1, u2}
MCPools == {p1}
MCInvites == {i1}
MCTasks == {t1, t2}
MCSizes == {1, 2}
=============================================================================
