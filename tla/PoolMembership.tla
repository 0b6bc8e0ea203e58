--------------------------- MODULE PoolMembership ---------------------------
(***************************************************************************)
(* Request pools: who is in them, who owns them and who is invited, as the *)
(* endpoints of app/routes/pools.py change it.                             *)
(*                                                                         *)
(* A request first reads, outside any lock, what it checks; it then takes  *)
(* the pool's guard, if it changes a pool's composition, and reads there   *)
(* the members it settles; at last it writes.  From its first write to its *)
(* commit it holds SQLite's only write lock, so the writes are one step;   *)
(* between the reads and that step anything else may commit.  A RequestPool*)
(* or an invitation once loaded is not loaded again by the session, so its *)
(* owner or status is as old as the first read.                            *)
(*                                                                         *)
(* Whatever makes a request end without a change (a check that refuses, a  *)
(* constraint that the database enforces, a lock that times out) is the    *)
(* action Refused.  What settlement writes is left out; the order in which *)
(* tasks get a guard is in KeyedLocks.                                     *)
(***************************************************************************)
EXTENDS Integers, FiniteSets

CONSTANTS
    Users,      \* rows of users that there ever are
    Pools,      \* ids a pool may be given; allocate_pool_id never gives one twice
    Invites,    \* ids of invitations
    Tasks,      \* requests; one that has ended is reused
    Sizes,      \* values of max_members
    Offered,    \* bound: the kinds of request that are made
    None

Ops == {"create", "invite", "accept", "decline", "cancel", "remove", "dissolve",
        "delete", "size"}
Composing == {"accept", "remove", "dissolve", "delete", "size"}

ASSUME PoolAssumption ==
    /\ Offered \subseteq Ops
    /\ IsFiniteSet(Users)
    /\ Sizes \subseteq Nat \ {0} /\ Sizes # {}
    /\ None \notin Users \cup Pools \cup Invites \cup Tasks \cup Sizes

VARIABLES
    accounts,   \* the rows of users
    pool,       \* the rows of request_pools
    memberOf,   \* the rows of request_pool_members: UNIQUE(user_id)
    joined,     \* their joined_at, 0 for no row
    clock,      \* the last joined_at
    invite,     \* the rows of request_pool_invitations
    defaultSize,\* pool_settings.max_members
    guard,      \* the task inside pool_guard, per pool
    request,    \* what each task has read
    orphaned    \* history: pools a member was removed from by a stale owner

database == <<accounts, pool, memberOf, joined, clock, invite>>
vars == <<database, defaultSize, guard, request, orphaned>>

Unused == [is |-> "unused", owner |-> None, size |-> None]
Ended == [is |-> "ended", owner |-> None, size |-> None]
NoInvite == [status |-> "unused", pool |-> None, from |-> None, to |-> None]
Deleted == [status |-> "deleted", pool |-> None, from |-> None, to |-> None]
Idle == [op |-> "none", at |-> "idle", who |-> None, by |-> None, pool |-> None,
         invite |-> None, owner |-> None, size |-> None, saw |-> {}]

Live == {p \in Pools : pool[p].is = "live"}
Members(p) == {u \in Users : memberOf[u] = p}
\* _pool_limits: the pool's own max_members, or the global one.
MaxMembers(p) == IF pool[p].size = None THEN defaultSize ELSE pool[p].size
\* _member_rows is ordered by joined_at.
Earliest(S) == CHOOSE u \in S : \A v \in S : joined[u] <= joined[v]
\* uq_pool_invite_pending
Pending(p, u) == \E i \in Invites :
    invite[i].status = "pending" /\ invite[i].pool = p /\ invite[i].to = u

Types ==
    /\ accounts \subseteq Users
    /\ pool \in [Pools -> [is : {"unused", "live", "ended"}, owner : Users \cup {None},
                           size : Sizes \cup {None}]]
    /\ memberOf \in [Users -> Pools \cup {None}]
    /\ joined \in [Users -> Nat]
    /\ clock \in Nat
    /\ invite \in [Invites ->
          [status : {"unused", "pending", "accepted", "declined", "cancelled",
                     "superseded", "deleted"},
           pool : Pools \cup {None}, from : Users \cup {None}, to : Users \cup {None}]]
    /\ defaultSize \in Sizes
    /\ guard \in [Pools -> Tasks \cup {None}]
    /\ request \in [Tasks ->
          [op : Ops \cup {"none"}, at : {"idle", "read", "in"}, who : Users \cup {None},
           by : Users \cup {None}, pool : Pools \cup {None}, invite : Invites \cup {None},
           owner : Users \cup {None}, size : Sizes \cup {None}, saw : SUBSET Users]]
    /\ orphaned \subseteq Pools

ForeignKeys ==
    /\ \A p \in Live : pool[p].owner \in accounts
    /\ \A u \in Users : memberOf[u] # None => u \in accounts /\ memberOf[u] \in Live
    /\ \A i \in Invites : invite[i].status \notin {"unused", "deleted"} =>
          invite[i].pool \in Live /\ {invite[i].from, invite[i].to} \subseteq accounts

TypeOK == Types /\ ForeignKeys

Init ==
    /\ accounts = Users
    /\ pool = [p \in Pools |-> Unused]
    /\ memberOf = [u \in Users |-> None]
    /\ joined = [u \in Users |-> 0]
    /\ clock = 0
    /\ invite = [i \in Invites |-> NoInvite]
    /\ defaultSize \in Sizes
    /\ guard = [p \in Pools |-> None]
    /\ request = [t \in Tasks |-> Idle]
    /\ orphaned = {}

-----------------------------------------------------------------------------
(* What requests have in common.                                           *)

Begin(t, r) ==
    /\ request[t] = Idle /\ r.op \in Offered
    /\ request' = [request EXCEPT ![t] = r]
    /\ UNCHANGED <<database, defaultSize, guard, orphaned>>

At(t, op, step) == request[t].op = op /\ request[t].at = step

Released(t) == [p \in Pools |-> IF guard[p] = t THEN None ELSE guard[p]]

\* The request is answered, and the guard it is in is left.
Finish(t) ==
    /\ request' = [request EXCEPT ![t] = Idle]
    /\ guard' = Released(t)

Waiting(t) == request[t].op \in Composing /\ request[t].at = "read"

\* Mutant: a refusal inside the guard does not leave it.
RefusedInside(t) ==
    /\ request[t] # Idle /\ ~Waiting(t)
    /\ request' = [request EXCEPT ![t] = Idle]
    /\ UNCHANGED <<database, defaultSize, guard, orphaned>>

\* A constraint or the database refuses: nothing is written.
Refused(t) ==
    /\ request[t] # Idle /\ ~Waiting(t)
    /\ Finish(t)
    /\ UNCHANGED <<database, defaultSize, orphaned>>

\* pool_guard(pool_id), and the members read under it; None is no guard.
EnterGuard(t, r) ==
    /\ request[t].pool # None => guard[request[t].pool] = None
    /\ guard' = [p \in Pools |-> IF p = request[t].pool THEN t ELSE guard[p]]
    /\ request' = [request EXCEPT ![t] = [r EXCEPT !.at = "in", !.saw = Members(r.pool)]]
    /\ UNCHANGED <<database, defaultSize, orphaned>>

\* Rows of pools and users go, with every row that refers to them.
Store(ended, out, owners, deleted) ==
    /\ accounts' = accounts \ deleted
    /\ pool' = [p \in Pools |-> IF p \in ended THEN Ended
                                ELSE [pool[p] EXCEPT !.owner = owners[p]]]
    /\ memberOf' = [u \in Users |->
          IF u \in out \cup deleted \/ memberOf[u] \in ended THEN None ELSE memberOf[u]]
    /\ joined' = [u \in Users |-> IF memberOf'[u] = None THEN 0 ELSE joined[u]]
    /\ invite' = [i \in Invites |->
          IF invite[i].pool \in ended \/ invite[i].from \in deleted \/ invite[i].to \in deleted
          THEN Deleted ELSE invite[i]]
    /\ clock' = clock

Join(u, p) ==
    /\ memberOf' = [memberOf EXCEPT ![u] = p]
    /\ clock' = clock + 1
    /\ joined' = [joined EXCEPT ![u] = clock + 1]

-----------------------------------------------------------------------------
(* create_pool.                                                            *)

ReadCreate(t, u) ==
    /\ u \in accounts /\ memberOf[u] = None
    /\ Begin(t, [Idle EXCEPT !.op = "create", !.at = "read", !.who = u])

\* The guard of the new id is free: no one can name the pool yet.
CommitCreate(t) ==
    LET u == request[t].who IN
    /\ At(t, "create", "read")
    /\ u \in accounts /\ memberOf[u] = None
    /\ \E p \in Pools :
          /\ pool[p] = Unused
          /\ pool' = [pool EXCEPT ![p] = [is |-> "live", owner |-> u, size |-> None]]
          /\ Join(u, p)
    /\ Finish(t)
    /\ UNCHANGED <<accounts, invite, defaultSize, orphaned>>

-----------------------------------------------------------------------------
(* create_invite, accept_invite, decline_invite, cancel_invite.            *)

ReadInvite(t, u, v) ==
    LET p == memberOf[u] IN
    /\ u \in accounts /\ p \in Live
    /\ v \in accounts /\ v # u /\ memberOf[v] = None
    /\ Cardinality(Members(p)) < MaxMembers(p)
    /\ ~Pending(p, v)
    /\ Begin(t, [Idle EXCEPT !.op = "invite", !.at = "read", !.who = v, !.by = u, !.pool = p])

CommitInvite(t) ==
    LET r == request[t] IN
    /\ At(t, "invite", "read")
    /\ r.pool \in Live /\ {r.who, r.by} \subseteq accounts
    /\ ~Pending(r.pool, r.who)
    /\ \E i \in Invites :
          /\ invite[i] = NoInvite
          /\ invite' = [invite EXCEPT ![i] =
                [status |-> "pending", pool |-> r.pool, from |-> r.by, to |-> r.who]]
    /\ Finish(t)
    /\ UNCHANGED <<accounts, pool, memberOf, joined, clock, defaultSize, orphaned>>

ReadAccept(t, i) ==
    LET v == invite[i] IN
    /\ v.status = "pending" /\ memberOf[v.to] = None
    /\ Begin(t, [Idle EXCEPT !.op = "accept", !.at = "read", !.who = v.to,
                             !.pool = v.pool, !.invite = i])

\* Mutant: one member too many.
EnterAcceptFull(t) ==
    LET r == request[t] IN
    /\ At(t, "accept", "read")
    /\ Cardinality(Members(r.pool)) <= MaxMembers(r.pool)
    /\ EnterGuard(t, r)

EnterAccept(t) ==
    LET r == request[t] IN
    /\ At(t, "accept", "read")
    /\ Cardinality(Members(r.pool)) < MaxMembers(r.pool)
    /\ EnterGuard(t, r)

\* The pool filled up while the request waited for the guard.
RefusedFull(t) ==
    LET r == request[t] IN
    /\ At(t, "accept", "read")
    /\ guard[r.pool] = None
    /\ Cardinality(Members(r.pool)) >= MaxMembers(r.pool)
    /\ Finish(t)
    /\ UNCHANGED <<database, defaultSize, orphaned>>

\* The invitation's status is written over whatever it has become, and the user's
\* other pending ones are superseded.
CommitAccept(t) ==
    LET r == request[t] IN
    /\ At(t, "accept", "in")
    /\ r.who \in accounts /\ memberOf[r.who] = None
    /\ r.pool \in Live /\ invite[r.invite].status # "deleted"
    /\ Join(r.who, r.pool)
    /\ invite' = [i \in Invites |->
          CASE i = r.invite -> [invite[i] EXCEPT !.status = "accepted"]
            [] i # r.invite /\ invite[i].to = r.who /\ invite[i].status = "pending" ->
                  [invite[i] EXCEPT !.status = "superseded"]
            [] OTHER -> invite[i]]
    /\ Finish(t)
    /\ UNCHANGED <<accounts, pool, defaultSize, orphaned>>

ReadAnswer(t, i, how) ==
    /\ invite[i].status = "pending"
    /\ Begin(t, [Idle EXCEPT !.op = how, !.at = "read", !.invite = i])

CommitAnswer(t) ==
    LET r == request[t] IN
    /\ r.op \in {"decline", "cancel"}
    /\ invite[r.invite].status # "deleted"
    /\ invite' = [invite EXCEPT ![r.invite] =
          [@ EXCEPT !.status = IF r.op = "cancel" THEN "cancelled" ELSE "declined"]]
    /\ Finish(t)
    /\ UNCHANGED <<accounts, pool, memberOf, joined, clock, defaultSize, orphaned>>

-----------------------------------------------------------------------------
(* leave_pool, remove_member and admin_remove_member: _remove_member.      *)

ReadRemove(t, u) ==
    LET p == memberOf[u] IN
    /\ u \in accounts /\ p \in Live
    /\ Begin(t, [Idle EXCEPT !.op = "remove", !.at = "read", !.who = u, !.pool = p,
                             !.owner = pool[p].owner])

\* Mutant: the removal does not take the guard.
EnterRemoveUnguarded(t) ==
    /\ At(t, "remove", "read")
    /\ request' = [request EXCEPT ![t] =
          [@ EXCEPT !.at = "in", !.saw = Members(request[t].pool)]]
    /\ UNCHANGED <<database, defaultSize, guard, orphaned>>

EnterRemove(t) == At(t, "remove", "read") /\ EnterGuard(t, request[t])

\* Mutant: the pool keeps its owner.
RemoveKeepsOwner(r, deleted) ==
    LET left == Members(r.pool) \ {r.who}
        owners == [p \in Pools |-> pool[p].owner]
        ended == {p \in Live : (p = r.pool /\ left = {}) \/ owners[p] \in deleted}
    IN /\ Store(ended, {u \in {r.who} : memberOf[u] = r.pool}, owners, deleted)
       /\ orphaned' = IF r.pool \in Live /\ r.owner # pool[r.pool].owner
                      THEN orphaned \cup {r.pool} ELSE orphaned

\* The member goes; the pool goes if none remains, and passes to the earliest
\* remaining one if the member was the owner that the request had read.  A user
\* deleted with it takes the pools they own.
Remove(r, deleted) ==
    LET left == Members(r.pool) \ {r.who}
        owners == [p \in Pools |-> IF p = r.pool /\ left # {} /\ r.owner = r.who
                                   THEN Earliest(left) ELSE pool[p].owner]
        ended == {p \in Live : (p = r.pool /\ left = {}) \/ owners[p] \in deleted}
    IN /\ Store(ended, {u \in {r.who} : memberOf[u] = r.pool}, owners, deleted)
       /\ orphaned' = IF r.pool \in Live /\ r.owner # pool[r.pool].owner
                      THEN orphaned \cup {r.pool} ELSE orphaned

CommitRemove(t) ==
    /\ At(t, "remove", "in")
    /\ Remove(request[t], {})
    /\ Finish(t)
    /\ UNCHANGED defaultSize

-----------------------------------------------------------------------------
(* delete_user_account.                                                    *)

\* The pool whose guard will be taken.
ReadDelete(t, u) ==
    /\ u \in accounts
    /\ Begin(t, [Idle EXCEPT !.op = "delete", !.at = "read", !.who = u, !.pool = memberOf[u]])

\* settle_before_user_delete: the pool is read again, with its owner.
EnterDelete(t) ==
    LET r == request[t]
        p == memberOf[r.who]
    IN /\ At(t, "delete", "read")
       /\ EnterGuard(t, [r EXCEPT !.pool = p,
                                  !.owner = IF p \in Live THEN pool[p].owner ELSE None])

CommitDelete(t) ==
    /\ At(t, "delete", "in")
    /\ request[t].who \in accounts
    /\ Remove(request[t], {request[t].who})
    /\ Finish(t)
    /\ UNCHANGED defaultSize

-----------------------------------------------------------------------------
(* delete_my_pool, admin_delete_pool; admin_set_pool_limits and settings.  *)

ReadDissolve(t, p) ==
    /\ p \in Live
    /\ Begin(t, [Idle EXCEPT !.op = "dissolve", !.at = "read", !.pool = p])

EnterDissolve(t) == At(t, "dissolve", "read") /\ EnterGuard(t, request[t])

CommitDissolve(t) ==
    LET p == request[t].pool IN
    /\ At(t, "dissolve", "in")
    /\ Store({p}, {}, [q \in Pools |-> pool[q].owner], {})
    /\ Finish(t)
    /\ UNCHANGED <<defaultSize, orphaned>>

ReadSize(t, p, c) ==
    /\ p \in Live
    /\ Begin(t, [Idle EXCEPT !.op = "size", !.at = "read", !.pool = p, !.size = c])

EnterSize(t) == At(t, "size", "read") /\ EnterGuard(t, request[t])

CommitSize(t) ==
    LET r == request[t] IN
    /\ At(t, "size", "in")
    /\ r.pool \in Live
    /\ pool' = [pool EXCEPT ![r.pool] = [@ EXCEPT !.size = r.size]]
    /\ Finish(t)
    /\ UNCHANGED <<accounts, memberOf, joined, clock, invite, defaultSize, orphaned>>

\* upsert_pool_settings takes no pool's guard.
SetDefaultSize(c) ==
    /\ defaultSize' = c
    /\ UNCHANGED <<database, guard, request, orphaned>>

-----------------------------------------------------------------------------
Read(t) ==
    \/ \E u \in Users : ReadCreate(t, u) \/ ReadRemove(t, u) \/ ReadDelete(t, u)
    \/ \E u, v \in Users : ReadInvite(t, u, v)
    \/ \E i \in Invites : ReadAccept(t, i) \/ \E how \in {"decline", "cancel"} : ReadAnswer(t, i, how)
    \/ \E p \in Pools : ReadDissolve(t, p) \/ \E c \in Sizes \cup {None} : ReadSize(t, p, c)

Enter(t) == EnterAccept(t) \/ RefusedFull(t) \/ EnterRemove(t) \/ EnterDelete(t) \/ EnterDissolve(t) \/ EnterSize(t)

Commit(t) ==
    \/ CommitCreate(t) \/ CommitInvite(t) \/ CommitAccept(t) \/ CommitAnswer(t)
    \/ CommitRemove(t) \/ CommitDelete(t) \/ CommitDissolve(t) \/ CommitSize(t)

Next ==
    \/ \E t \in Tasks : Read(t) \/ Enter(t) \/ Commit(t) \/ Refused(t)
    \/ \E c \in Sizes : SetDefaultSize(c)

Spec == Init /\ [][Next]_vars

\* Those that await pause_flush, which has no timeout (settle_pool, admit_member,
\* permanently_delete_user), on the way to their commit.
Settling(t) == request[t].at = "in" \/ request[t].op = "create"

(* Any other request inside the database ends, by the timeout of its write *)
(* lock if not otherwise; a guard is handed to its waiters in order, so    *)
(* none waits for ever for a guard that is left again and again.           *)
Fairness == \A t \in Tasks : /\ WF_vars(~Settling(t) /\ (Commit(t) \/ Refused(t)))
                             /\ SF_vars(Enter(t))
FairSpec == Spec /\ Fairness

-----------------------------------------------------------------------------
(* Unless a removal has acted on an owner it read before the guard, a pool *)
(* is owned by one of its members, whoever leaves, is removed or deleted   *)
(* (_remove_member's transfer, the cascades of users.id): so it is never   *)
(* memberless either.                                                      *)
OwnerKept == \A p \in Live \ orphaned : memberOf[pool[p].owner] = p

(* A pool's own max_members is read, and the join committed, under the     *)
(* lock its edit is committed under: no join overfills the pool, however   *)
(* many invitations are accepted at once (accept_invite).                  *)
JoinsFitOverride ==
    [][\A p \in Live : (Members(p))' \subseteq Members(p) \/ pool[p].size = None
                       \/ Cardinality((Members(p))') <= pool[p].size]_vars

(* The members that a request settles under the guard are those it commits *)
(* against, but for accounts deleted in between: a deletion holds the      *)
(* guard of the pool its user was in when it began, which may be another   *)
(* (pool_guard, settle_before_user_delete).                                *)
SettlesAgainstMembers ==
    \A t \in Tasks : LET p == request[t].pool IN
        request[t].at = "in" /\ p \in Live /\ guard[p] = t
            => Members(p) = request[t].saw \cap accounts

(* As long as none that settles does so for ever (PoolLocks has when one   *)
(* may), every request gets the guard it waits for and is answered: however*)
(* another ends that had the guard, by its commit, a refusal or a database *)
(* error, it has left it (pool_guard).                                     *)
EveryRequestEnds ==
    (\A t \in Tasks : []<>~Settling(t)) => (\A t \in Tasks : []<>(request[t] = Idle))
=============================================================================
