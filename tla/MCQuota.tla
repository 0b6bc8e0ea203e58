------------------------------ MODULE MCQuota ------------------------------
(* What limits requests: RequestLimits, PoolSettlement and PoolLocks.  They *)
(* share no state; `part` says which of them a behaviour runs, so that their*)
(* states add up instead of multiplying.  The run has two members of a pool,*)
(* one tier with a day limit and one without; three people and one pool,    *)
(* which they leave and join again; two tasks, two users and two guards.    *)
EXTENDS MCRequestLimits

CONSTANTS
    People, Pools, Limits, Profiles, Unlimited, NoPool, MaxRows, MaxChanges,  \* PoolSettlement's
    Guards                                                                    \* PoolLocks' pools

VARIABLES
    rows, carry, charged, poolOf, limit, active, changes, opening, since, purged,
    memberOf, locks, writer, settled, todo, strayed,
    part

settlement == <<rows, carry, charged, poolOf, limit, active, changes, opening, since, purged>>
locking == <<memberOf, locks, writer, settled, todo, strayed>>

Settlement == INSTANCE PoolSettlement WITH Users <- People

Locking == INSTANCE PoolLocks WITH Tasks <- Calls, Pools <- Guards, lock <- locks

ASSUME LedgerAssumption == Settlement!SettlementAssumption

ASSUME LockParameters == Locking!Parameters

\* Limits that pin one person while two share a remainder.
MCProfiles == {<<1, 3, 3>>}

MCInit ==
    /\ part \in {"limits", "settlement", "locks"}
    /\ Init             /\ (part # "limits"     => share = 30)
    /\ Settlement!Init  /\ (part # "settlement" => \A u \in People : poolOf[u] # NoPool)
    /\ Locking!Init     /\ (part # "locks"      => \A u \in Users : memberOf[u] = None)

MCNext ==
    \/ part = "limits"     /\ Next            /\ UNCHANGED <<settlement, locking, part>>
    \/ part = "settlement" /\ Settlement!Next /\ UNCHANGED <<vars, locking, part>>
    \/ part = "locks"      /\ Locking!Next    /\ UNCHANGED <<vars, settlement, part>>

MCSpec == MCInit /\ [][MCNext]_<<vars, settlement, locking, part>>

-----------------------------------------------------------------------------
\* PoolSettlement: nobody is charged for what a pool used before they came.
NeverChargedForThePast == part = "settlement" => Settlement!TypeOK /\ Settlement!NeverChargedForThePast

\* PoolSettlement: shares add up to what was used, within the limits and in proportion to them.
SharesAreFair == part = "settlement" => Settlement!SharesAreFair

\* PoolSettlement: after a change of composition each member is charged what they used.
ChargesAreUse == Settlement!ChargesAreUse

\* PoolSettlement: no change of composition, activity or limit creates, destroys or wipes
\* anybody's quota.
QuotaConserved == Settlement!QuotaConserved /\ Settlement!UseSurvives

\* PoolLocks: tasks wait for each other in a circle only after one met a pool whose guard it
\* had not taken.
DeadlockOnlyByStraying == part = "locks" => Locking!TypeOK /\ Locking!DeadlockOnlyByStraying

\* PoolLocks: what a transaction has settled stays under the guard of its pool until the commit.
SettledUnderGuard == part = "locks" => Locking!SettledUnderGuard
=============================================================================
