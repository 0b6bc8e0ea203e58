-------------------------- MODULE MCPoolSettlement --------------------------
(* Three users and one pool, which they leave and join again.              *)
EXTENDS PoolSettlement

CONSTANT p1

MCUsers == 1..3
MCOnePool == {p1}
MCLimits == {1, 3, Unlimited}
MCOneLimit == {3}
MCEqualProfiles == {<<3, 3, 3>>}
MCProfiles == {<<1, 3, 3>>}
=============================================================================
