--------------------------- MODULE MCLimitConfig ---------------------------
(* Two admins and the refresh loop, one row of each table.                 *)
EXTENDS LimitConfig, TLC

CONSTANTS a1, a2, profile, user, group

MCAdmins == {a1, a2}
MCProfiles == {profile}
MCUsers == {user}
MCGroups == {group}
MCSymmetry == Permutations(MCAdmins)

=============================================================================
