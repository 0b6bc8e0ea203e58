--------------------------- MODULE PoolSettlement ---------------------------
(***************************************************************************)
(* What settlement makes of a day's requests: app/auth/pools.py, called by *)
(* every change of a pool's composition in app/routes/pools.py.            *)
(*                                                                         *)
(* One scope (a model group, or the Default group) of one local day: the   *)
(* ledger, the carries and the limits of different scopes never meet, and  *)
(* all of them are keyed by the day.  A composition change settles and     *)
(* writes under the pool's guard in one transaction (PoolMembership shows  *)
(* that the members stand still meanwhile), and the flush that it starts   *)
(* with succeeds (UsageTracker has the ones that fail), so it is one step. *)
(*                                                                         *)
(* A user's effective use is their rows plus their carry.  Nothing here    *)
(* limits what is sent: requests are let through on stale counts           *)
(* (RequestLimits), so a pool may be settled at any level of use.          *)
(***************************************************************************)
EXTENDS Integers, FiniteSets, Functions

CONSTANTS
    Users,      \* ids, which break ties
    Pools,
    Limits,     \* limits a profile may give on this scope
    Profiles,   \* bound: the limits the users start with
    Unlimited,  \* a limit of None
    NoPool,
    MaxRows,    \* bound: requests a day
    MaxChanges  \* bound: joins, leaves, edits, purges and dissolutions

SettlementAssumption ==
    /\ Users \subseteq Nat /\ IsFiniteSet(Users)
    /\ Limits \ {Unlimited} \subseteq Nat
    /\ Unlimited \notin Nat
    /\ Profiles \subseteq [Users -> Limits]
    /\ IsFiniteSet(Pools) /\ NoPool \notin Pools
    /\ MaxRows \in Nat /\ MaxChanges \in Nat

VARIABLES
    rows,       \* today's request_usage of each user on the scope
    carry,      \* user_rpd_carries, 0 for no row
    charged,    \* request_pool_ledger of the user in their pool, 0 for no row
    poolOf,     \* request_pool_members
    limit,      \* what member_limit_for_scope answers
    active,     \* users.is_active
    changes,    \* joins, leaves, edits and purges so far
    opening,    \* history: what the user was charged on admission
    since,      \* history: requests of the user's pool since then
    purged      \* history: rows of today were deleted

store == <<rows, carry, charged>>
profile == <<limit, active>>
vars == <<store, profile, poolOf, changes, opening, since, purged>>

Max0(n) == IF n > 0 THEN n ELSE 0
Members(p) == {u \in Users : poolOf[u] = p}
Effective(u) == rows[u] + carry[u]
Zero == [u \in Users |-> 0]

-----------------------------------------------------------------------------
(* Apportionment                                                           *)

\* Largest remainder: who takes one of the leftover requests before whom.
Ahead(fraction, sent, i, j) ==
    \/ fraction[i] > fraction[j]
    \/ fraction[i] = fraction[j] /\ sent[i] > sent[j]
    \/ fraction[i] = fraction[j] /\ sent[i] = sent[j] /\ i < j

\* Mutant: everyone's share is rounded up on its own.
PassRoundedUp(A, R, w, sent) ==
    LET W == SumFunctionOnSet(w, A)
    IN  [u \in A |-> (R * w[u] + W - 1) \div W]

\* One pass over the members A whom no earlier pass has pinned: R requests are
\* split by their weights w.
Pass(A, R, w, sent) ==
    LET W == SumFunctionOnSet(w, A)
        floor == [u \in A |-> (R * w[u]) \div W]
        fraction == [u \in A |-> (R * w[u]) % W]
        leftover == R - SumFunction(floor)
        place(u) == Cardinality({v \in A : Ahead(fraction, sent, v, u)})
    IN  [u \in A |-> IF place(u) < leftover THEN floor[u] + 1 ELSE floor[u]]

\* apportion(): delta is split over the members M; nobody takes more than
\* their room.  Members who would are pinned there and the others split what
\* is left; without any weight left it is dropped.
Apportion(delta, M, w, charge) ==
    LET total == IF delta < 0 THEN -delta ELSE delta
        room == [u \in M |-> IF delta < 0 THEN charge[u] ELSE Max0(w[u] - charge[u])]
        orPinned(A, s) == [u \in M |-> IF u \in A THEN s[u] ELSE room[u]]
        shares[A \in SUBSET M] ==
            LET split == Pass(A, total - SumFunctionOnSet(room, M \ A), w, rows)
                over == {u \in A : split[u] > room[u]}
            IN  IF SumFunctionOnSet(w, A) = 0 THEN orPinned(A, Zero)
                ELSE IF over = {} THEN orPinned(A, split)
                ELSE shares[A \ over]
        share == shares[M]
    IN  [u \in M |-> IF delta < 0 THEN -share[u] ELSE share[u]]

-----------------------------------------------------------------------------
(* Settlement                                                              *)

UnlimitedPool(p) == \E u \in Members(p) : active[u] /\ limit[u] = Unlimited

\* Each member's effective use, the pool's, what it was charged for, the rest.
UsedBy == [u \in Users |-> rows[u] + carry[u]]
Used(p) == SumFunctionOnSet(UsedBy, Members(p))
Ledger(p) == SumFunctionOnSet(charged, Members(p))
Delta(p) == Used(p) - Ledger(p)

UpTo(l, n) == IF l = Unlimited \/ l > n THEN n ELSE l

\* What a member's own limit leaves of their effective use.
Clamped(u) == UpTo(limit[u], Max0(Effective(u)))

\* An inactive member has no room beyond what they are charged already.
Weight(u) == IF active[u] THEN limit[u] ELSE charged[u]

Nothing(p, dissolving) == ~UnlimitedPool(p) /\ Delta(p) = 0 /\ ~dissolving

\* Mutant: as it was before: nothing is charged in an unlimited pool.
ChargeFlat(p) ==
    IF UnlimitedPool(p) THEN [u \in Members(p) |-> 0]
    ELSE LET weight == [u \in Members(p) |-> Weight(u)]
             share == Apportion(Delta(p), Members(p), weight, charged)
         IN  [u \in Members(p) |-> charged[u] + share[u]]

\* What the members of p are charged once the interval is closed.
Charge(p) ==
    IF UnlimitedPool(p) THEN [u \in Members(p) |-> Clamped(u)]
    ELSE LET weight == [u \in Members(p) |-> Weight(u)]
             share == Apportion(Delta(p), Members(p), weight, charged)
         IN  [u \in Members(p) |-> charged[u] + share[u]]

\* _replace_upsert: the rows in new replace those there are.
Replaced(old, new) == [u \in Users |-> IF u \in DOMAIN new THEN new[u] ELSE old[u]]

\* Mutant: the carry is added to, as the usage upserts do, and not replaced.
WrittenIncrementally(new) ==
    [charged |-> Replaced(charged, new),
     carry |-> Replaced(carry, [u \in DOMAIN new |-> carry[u] + new[u] - rows[u]])]

\* _write_settlement: the ledger and the carries, replaced by what is new.
Written(new) ==
    [charged |-> Replaced(charged, new),
     carry |-> Replaced(carry, [u \in DOMAIN new |-> new[u] - rows[u]])]

\* settle_pool: the ledger and the carries it leaves.
Settled(p, dissolving) ==
    IF Nothing(p, dissolving) THEN [charged |-> charged, carry |-> carry]
    ELSE Written(Charge(p))

-----------------------------------------------------------------------------
TypeOK ==
    /\ rows \in [Users -> Nat]
    /\ carry \in [Users -> Int]
    /\ charged \in [Users -> Nat]
    /\ poolOf \in [Users -> Pools \cup {NoPool}]
    /\ limit \in [Users -> Limits]
    /\ active \in [Users -> BOOLEAN]
    /\ changes \in 0..MaxChanges
    /\ opening \in [Users -> Nat]
    /\ since \in [Users -> Nat]
    /\ purged \in BOOLEAN
    /\ \A u \in Users : poolOf[u] = NoPool => charged[u] = 0

Init ==
    /\ rows = Zero /\ carry = Zero /\ charged = Zero
    /\ poolOf \in [Users -> Pools \cup {NoPool}]
    /\ limit \in Profiles
    /\ active = [u \in Users |-> TRUE]
    /\ changes = 0
    /\ opening = Zero /\ since = Zero
    /\ purged = FALSE

\* A request ends and is counted for its user.
Use(u) ==
    /\ active[u]
    /\ SumFunction(rows) < MaxRows
    /\ rows' = [rows EXCEPT ![u] = @ + 1]
    /\ since' = [v \in Users |->
                   IF poolOf[u] # NoPool /\ poolOf[v] = poolOf[u] THEN since[v] + 1
                   ELSE since[v]]
    /\ UNCHANGED <<carry, charged, profile, poolOf, changes, opening, purged>>

\* Mutant: the interval is left open.
JoinUnsettled(u, p) ==
    /\ changes < MaxChanges /\ changes' = changes + 1
    /\ active[u] /\ poolOf[u] = NoPool
    /\ poolOf' = [poolOf EXCEPT ![u] = p]
    /\ charged' = [charged EXCEPT ![u] = Clamped(u)]
    /\ carry' = [carry EXCEPT ![u] = Clamped(u) - rows[u]]
    /\ opening' = [opening EXCEPT ![u] = Clamped(u)]
    /\ since' = [since EXCEPT ![u] = 0]
    /\ UNCHANGED <<rows, profile, purged>>

\* create_pool and accept_invite: settle_pool closes the interval of the
\* members there are, then admit_member lets u in at their own clamped use.
Join(u, p) ==
    /\ changes < MaxChanges /\ changes' = changes + 1
    /\ active[u] /\ poolOf[u] = NoPool
    /\ poolOf' = [poolOf EXCEPT ![u] = p]
    /\ \E old \in {Settled(p, FALSE)} :
          /\ charged' = [old.charged EXCEPT ![u] = Clamped(u)]
          /\ carry' = [old.carry EXCEPT ![u] = Clamped(u) - rows[u]]
    /\ opening' = [opening EXCEPT ![u] = Clamped(u)]
    /\ since' = [since EXCEPT ![u] = 0]
    /\ UNCHANGED <<rows, profile, purged>>

\* Mutant: nothing is settled, so everyone walks out with their own rows.
LeaveUnsettled(u) ==
    /\ changes < MaxChanges /\ changes' = changes + 1
    /\ poolOf[u] # NoPool
    /\ poolOf' = [poolOf EXCEPT ![u] = NoPool]
    /\ charged' = [charged EXCEPT ![u] = 0]
    /\ opening' = [opening EXCEPT ![u] = 0]
    /\ since' = [since EXCEPT ![u] = 0]
    /\ UNCHANGED <<rows, carry, profile, purged>>

\* _remove_member, for a leave, a removal and a deletion: settle, then drop the
\* ledger row and the membership.  The carry stays.
Leave(u) ==
    /\ changes < MaxChanges /\ changes' = changes + 1
    /\ poolOf[u] # NoPool
    /\ poolOf' = [poolOf EXCEPT ![u] = NoPool]
    /\ \E old \in {Settled(poolOf[u], FALSE)} :
          /\ charged' = [old.charged EXCEPT ![u] = 0]
          /\ carry' = old.carry
    /\ opening' = [opening EXCEPT ![u] = 0]
    /\ since' = [since EXCEPT ![u] = 0]
    /\ UNCHANGED <<rows, profile, purged>>

\* _dissolve: settle even if nothing was used, then the rows cascade.
Dissolve(p) ==
    LET M == Members(p) IN
    /\ changes < MaxChanges /\ changes' = changes + 1
    /\ M # {}
    /\ carry' = Settled(p, TRUE).carry
    /\ charged' = [u \in Users |-> IF u \in M THEN 0 ELSE charged[u]]
    /\ poolOf' = [u \in Users |-> IF u \in M THEN NoPool ELSE poolOf[u]]
    /\ opening' = [u \in Users |-> IF u \in M THEN 0 ELSE opening[u]]
    /\ since' = [u \in Users |-> IF u \in M THEN 0 ELSE since[u]]
    /\ UNCHANGED <<rows, profile, purged>>

\* resettle_pools: after an edit, a purge or a migration, if it does not fail.
\* Edits that move nothing call it too, so it comes at any time.
Resettle(p) ==
    /\ changes < MaxChanges /\ changes' = changes + 1
    /\ Members(p) # {}
    /\ \E new \in {Settled(p, FALSE)} : charged' = new.charged /\ carry' = new.carry
    /\ UNCHANGED <<rows, profile, poolOf, opening, since, purged>>

\* The committed part of an edit of a profile, a group or an account.
SetLimit(u, l) ==
    /\ changes < MaxChanges
    /\ limit[u] # l
    /\ limit' = [limit EXCEPT ![u] = l]
    /\ changes' = changes + 1
    /\ UNCHANGED <<store, active, poolOf, opening, since, purged>>

SetActive(u) ==
    /\ changes < MaxChanges
    /\ active' = [active EXCEPT ![u] = ~@]
    /\ changes' = changes + 1
    /\ UNCHANGED <<store, limit, poolOf, opening, since, purged>>

\* delete_usage_endpoint: rows of a user, a pool or a model go.  By user and by
\* pool it then calls resettle_pools, which may fail; by model it does not.
Purge(kept) ==
    /\ changes < MaxChanges
    /\ \A u \in Users : kept[u] <= rows[u]
    /\ rows' = kept
    /\ changes' = changes + 1
    /\ purged' = TRUE
    /\ UNCHANGED <<carry, charged, profile, poolOf, opening, since>>

\* Local midnight: rows, carries and ledger of the new day are empty.
Midnight ==
    /\ rows' = Zero /\ carry' = Zero /\ charged' = Zero
    /\ opening' = Zero /\ since' = Zero
    /\ purged' = FALSE
    /\ UNCHANGED <<profile, poolOf, changes>>

Next ==
    \/ \E u \in Users : Use(u) \/ Leave(u) \/ SetActive(u)
    \/ \E u \in Users, p \in Pools : Join(u, p)
    \/ \E p \in Pools : Dissolve(p) \/ Resettle(p)
    \/ \E u \in Users, l \in Limits : SetLimit(u, l)
    \/ \E kept \in [Users -> 0..MaxRows] : Purge(kept)
    \/ Midnight

Spec == Init /\ [][Next]_vars

-----------------------------------------------------------------------------
(* Properties                                                              *)

\* The INVARIANT of pools.py, member by member: after every change of a pool's
\* composition each remaining or new member is charged exactly their effective
\* use, so the ledger adds up to what enforcement counts for the pool.  Not
\* after a purge, when the uses of one member may hide the lost rows of another
\* from the test "delta == 0".
ChargesAreUse ==
    [][\A p \in Pools : Members(p)' # Members(p) /\ ~purged =>
           \A u \in Members(p)' : charged'[u] = Effective(u)']_vars

\* "A member is never charged for consumption that predates their arrival": what
\* a member is charged beyond what they came in with was used by their pool
\* since then, whoever joined, left or was edited; on a day without purges.
NeverChargedForThePast ==
    purged \/ \A u \in Users :
        poolOf[u] # NoPool => charged[u] <= opening[u] + since[u]

\* The same on every day, as pools.py claims it.
ChargedOnlySinceArrival ==
    \A u \in Users : poolOf[u] # NoPool => charged[u] <= opening[u] + since[u]

\* What a settlement would charge or refund now: nobody beyond their room;
\* together all of it, or all the room there is; and nobody more than one
\* request past their proportion to a member who still has room.
Fair(p, delta, share) ==
    LET M == Members(p)
        refunding == delta < 0
        total == IF refunding THEN -delta ELSE delta
        weight == [u \in M |-> Weight(u)]
        size == [u \in M |-> IF refunding THEN -share[u] ELSE share[u]]
        room == [u \in M |-> IF refunding THEN charged[u] ELSE Max0(weight[u] - charged[u])]
        takers == SumFunctionOnSet(room, {u \in M : weight[u] > 0})
    IN  /\ \A u \in M : size[u] \in 0..room[u]
        /\ SumFunction(size) = IF total < takers THEN total ELSE takers
        /\ \A u, v \in M : size[v] < room[v] /\ weight[u] + weight[v] > 0 =>
               size[u] * weight[v] < size[v] * weight[u] + weight[u] + weight[v]

SharesAreFair ==
    \A p \in Pools : ~UnlimitedPool(p) =>
        \E delta \in {Delta(p)} :
        \E share \in {Apportion(delta, Members(p),
                                [u \in Members(p) |-> Weight(u)], charged)} :
            Fair(p, delta, share)

\* What the users may still send: each on their own, and each pool together.
Spare ==
    LET alone == [u \in Users |->
                     IF poolOf[u] = NoPool THEN Max0(limit[u] - Max0(Effective(u))) ELSE 0]
        pooled == [p \in Pools |-> Max0(SumFunctionOnSet(limit, Members(p)) - Used(p))]
    IN  SumFunction(alone) + SumFunction(pooled)

\* Nobody is unlimited, off, or charged beyond a limit lowered since.
Regular ==
    \A u \in Users : active[u] /\ limit[u] # Unlimited /\ charged[u] <= limit[u]

\* No join, leave or dissolution creates or destroys quota: together the users
\* may send as much afterwards as before.
QuotaConserved ==
    [][poolOf' # poolOf /\ Regular /\ ~purged => Spare' = Spare]_vars

Donated(p) == SumFunctionOnSet(limit, {u \in Members(p) : active[u]})

\* Whatever the limits, moving between pools never wipes what was used: a member
\* of an unlimited pool, or a joiner, keeps their use up to their own limit, and
\* the members of a limited pool together keep theirs up to the pool's limit.
UseSurvives ==
    [][poolOf' # poolOf =>
         /\ \A u \in Users :
                poolOf[u] = NoPool \/ UnlimitedPool(poolOf[u]) =>
                    Effective(u)' >= UpTo(limit[u], Effective(u))
         /\ \A p \in Pools : ~UnlimitedPool(p) =>
                SumFunctionOnSet(UsedBy', Members(p)) >= UpTo(Donated(p), Used(p))]_vars
=============================================================================
