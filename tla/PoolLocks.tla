----------------------------- MODULE PoolLocks -----------------------------
(***************************************************************************)
(* The locks that whoever changes a pool or rewrites usage holds together: *)
(* the guards of pools (pool_guard), the tracker's flush mutex             *)
(* (pause_flush) and SQLite's only write lock, which a transaction has from*)
(* its first write to its commit.  A request is the sequence of what it    *)
(* takes, writes and drops (`todo`); where the code reads who is in which  *)
(* pool only on the way, its steps are added when it gets there.           *)
(*                                                                         *)
(* Guards and mutex are re-entrant for the task that has them and wait for *)
(* ever; who waits for the write lock gives up after DATABASE_BUSY_TIMEOUT.*)
(* In which order a lock is handed on is in KeyedLocks.                    *)
(***************************************************************************)
EXTENDS Integers, Sequences, FiniteSets, FiniteSetsExt

CONSTANTS
    Tasks,      \* requests and the flush loop; one that has ended is reused
    Users,
    Pools,      \* ids of pools, naturals above 0
    None

\* Ids are positive; there are only so many tasks at a time.
Parameters == Pools \subseteq Nat \ {0} /\ None \notin Pools \cup Tasks /\ IsFiniteSet(Tasks)

Mutex == 0
Locks == Pools \cup {Mutex}

VARIABLES
    memberOf,   \* the rows of request_pool_members
    lock,       \* owner and depth of each TaskReentrantLock
    writer,     \* the task with SQLite's write lock
    settled,    \* the pools that its open transaction has settled
    todo,       \* what each task has still to do
    strayed     \* history: tasks that met a pool whose guard they had not taken

vars == <<memberOf, lock, writer, settled, todo, strayed>>

Unowned == [owner |-> None, depth |-> 0]
Step(kind, on, who) == [do |-> kind, on |-> on, who |-> who]

TypeOK ==
    /\ memberOf \in [Users -> Pools \cup {None}]
    /\ lock \in [Locks -> [owner : Tasks \cup {None}, depth : 0..2]]
    /\ writer \in Tasks \cup {None}
    /\ settled \subseteq Pools
    /\ strayed \subseteq Tasks

Init ==
    /\ memberOf \in [Users -> Pools \cup {None}]
    /\ lock = [l \in Locks |-> Unowned]
    /\ writer = None /\ settled = {}
    /\ todo = [t \in Tasks |-> <<>>]
    /\ strayed = {}

-----------------------------------------------------------------------------
(* What requests are made of.                                              *)

Flush == Step("flush", {}, {})
Write == Step("write", {}, {})
Settle(S) == Step("settle", S, {})
Commit == Step("commit", {}, {})

\* Several guards are taken one after another; to give them back does not suspend the task.
Guarded(S, body) ==
    IF S = {} THEN body ELSE <<Step("take", S, {})>> \o body \o <<Step("drop", S, {})>>

Paused(body) == Guarded({Mutex}, body)

\* Mutant: the guards are given back before the commit.
ResettleSplit(S) == Guarded(S, <<Settle(S)>>) \o <<Commit>>

\* resettle_pools: every guard is held until the one commit.
Resettle(S) == Guarded(S, <<Settle(S), Commit>>)

PoolsOf(S) == {memberOf[u] : u \in S} \ {None}

\* settle_pool and the first half of admit_member: the buffered counts reach the tables,
\* then what follows from them is written, with the flush held off.
SettleSteps(p) == Paused(<<Flush, Step("write", {p}, {})>>)

-----------------------------------------------------------------------------
(* Requests.  Each begins with what it read before its first lock.         *)

Begin(t, steps) ==
    /\ todo[t] = <<>>
    /\ todo' = [todo EXCEPT ![t] = steps]
    /\ strayed' = strayed \ {t}
    /\ UNCHANGED <<memberOf, lock, writer, settled>>

\* accept_invite
Accept(t, u, p) ==
    /\ memberOf[u] = None
    /\ Begin(t, Guarded({p}, <<Settle({p}), Write>> \o SettleSteps(p) \o <<Step("join", {p}, {u})>>))

\* create_pool: the row of the pool is written before its guard can be taken.
Create(t, u, p) ==
    /\ memberOf[u] = None
    /\ \A v \in Users : memberOf[v] # p
    /\ Begin(t, <<Write>> \o Guarded({p}, <<Write>> \o SettleSteps(p) \o <<Step("join", {p}, {u})>>))

\* leave_pool, remove_member, admin_remove_member
RemoveMember(t, u) ==
    /\ memberOf[u] # None
    /\ Begin(t, Guarded({memberOf[u]}, <<Settle({memberOf[u]}), Write, Step("leave", {memberOf[u]}, {u})>>))

\* delete_my_pool, admin_delete_pool
Dissolve(t, p) ==
    /\ p \in PoolsOf(Users)
    /\ Begin(t, Guarded({p}, <<Settle({p}), Write, Step("leave", {p}, Users)>>))

\* admin_set_pool_limits
SetLimits(t, p) ==
    /\ p \in PoolsOf(Users)
    /\ Begin(t, Guarded({p}, <<Write, Commit>>))

\* _leave_preview: settles in a savepoint and takes it back.
Preview(t, u) ==
    /\ memberOf[u] # None
    /\ Begin(t, Guarded({memberOf[u]}, <<Settle({memberOf[u]}), Commit>>))

\* delete_user_account
DeleteUser(t, u) ==
    Begin(t, Guarded(PoolsOf({u}),
                     Paused(<<Step("depart", {}, {u}), Write, Step("gone", {}, {u})>>)))

\* resettle_pools_after_commit, for the users an edit concerned or for all.
Edit(t, S) == Begin(t, <<Step("resettle", {}, S)>>)

\* Mutant: the flush is paused before the guards are taken.
PurgePausesFirst(t, S) ==
    Begin(t, Paused(Guarded(PoolsOf(S), <<Flush, Write, Commit, Step("resettle", {}, S)>>)))

\* delete_usage: the guards of the pools its users are in, then the pause.
Purge(t, S) ==
    Begin(t, Guarded(PoolsOf(S),
                     Paused(<<Flush, Write, Commit, Step("resettle", {}, S)>>)))

\* rename_user: flush, relabel, commit under the pause; the flush loop is its first half.
Rename(t) == Begin(t, Paused(<<Flush, Write, Commit>>))
FlushCycle(t) == Begin(t, Paused(<<Flush>>))

Request(t) ==
    \/ \E u \in Users, p \in Pools : Accept(t, u, p) \/ Create(t, u, p)
    \/ \E u \in Users : RemoveMember(t, u) \/ Preview(t, u) \/ DeleteUser(t, u)
    \/ \E p \in Pools : Dissolve(t, p) \/ SetLimits(t, p)
    \/ \E S \in (SUBSET Users) \ {{}} : Edit(t, S) \/ Purge(t, S)
    \/ Rename(t)
    \/ FlushCycle(t)

-----------------------------------------------------------------------------
(* Steps.                                                                  *)

At(t, kind) == todo[t] # <<>> /\ Head(todo[t]).do = kind
On(t) == Head(todo[t]).on
Who(t) == Head(todo[t]).who
Instead(t, steps) == todo' = [todo EXCEPT ![t] = steps \o Tail(@)]
Done(t) == Instead(t, <<>>)

\* The first that a step is about, and the step that is left then.
First(t) == Min(On(t))
Others(t) == IF On(t) = {First(t)} THEN <<>> ELSE <<[Head(todo[t]) EXCEPT !.on = @ \ {First(t)}]>>

\* TaskReentrantLock.__aenter__, of the guards of several pools in the order of their ids.
TakeLock(t) ==
    /\ At(t, "take") /\ lock[First(t)].owner \in {None, t}
    /\ lock' = [lock EXCEPT ![First(t)] = [owner |-> t, depth |-> @.depth + 1]]
    /\ Instead(t, Others(t))
    /\ UNCHANGED <<memberOf, writer, settled, strayed>>

\* TaskReentrantLock.__aexit__
DropLock(t) ==
    /\ At(t, "drop")
    /\ lock' = [l \in Locks |-> IF l \notin On(t) THEN lock[l]
                               ELSE IF lock[l].depth = 1 THEN Unowned
                               ELSE [lock[l] EXCEPT !.depth = @ - 1]]
    /\ Done(t)
    /\ UNCHANGED <<memberOf, writer, settled, strayed>>

\* _flush_locked: it writes nothing, or in a session of its own.  That session waits for the
\* write lock, even when its own task has it, and gives up like any other; the failure is
\* logged and the counts stay buffered.
FlushBuffer(t) ==
    /\ At(t, "flush")
    /\ Done(t)
    /\ UNCHANGED <<memberOf, lock, writer, settled, strayed>>

\* A write of the request's own session, and for a settlement the ledger rows of `on`.
WriteRows(t) ==
    /\ At(t, "write") /\ writer \in {None, t}
    /\ writer' = t
    /\ settled' = settled \cup On(t)
    /\ Done(t)
    /\ UNCHANGED <<memberOf, lock, strayed>>

\* Any exception: the session rolls back and every lock is given back on the way out.
Raise(t) ==
    /\ lock' = [l \in Locks |-> IF lock[l].owner = t THEN Unowned ELSE lock[l]]
    /\ writer' = IF writer = t THEN None ELSE writer
    /\ settled' = IF writer = t THEN {} ELSE settled
    /\ todo' = [todo EXCEPT ![t] = <<>>]
    /\ UNCHANGED <<memberOf, strayed>>

\* The write lock was not had within DATABASE_BUSY_TIMEOUT.
Busy(t) == At(t, "write") /\ writer \notin {None, t} /\ Raise(t)

Ends(t, members) ==
    /\ memberOf' = members
    /\ writer' = IF writer = t THEN None ELSE writer
    /\ settled' = IF writer = t THEN {} ELSE settled
    /\ Done(t)
    /\ UNCHANGED <<lock, strayed>>

\* The commit of a request, or the end of a preview's savepoint.
CommitRows(t) == At(t, "commit") /\ Ends(t, memberOf)

Joins(t) ==
    /\ At(t, "join")
    /\ \E u \in Who(t) :
          IF memberOf[u] = None THEN Ends(t, [memberOf EXCEPT ![u] = First(t)]) ELSE Raise(t)

Leaves(t) ==
    /\ At(t, "leave")
    /\ Ends(t, [u \in Users |-> IF u \in Who(t) /\ memberOf[u] \in On(t) THEN None ELSE memberOf[u]])

\* permanently_delete_user: the membership goes with the account.
Vanishes(t) ==
    /\ At(t, "gone")
    /\ Ends(t, [u \in Users |-> IF u \in Who(t) THEN None ELSE memberOf[u]])

Strays(t, S) == strayed' = IF \E p \in S : lock[p].owner # t THEN strayed \cup {t} ELSE strayed

\* settle_pool: nothing to settle for a pool nobody is in.
SettlePool(t) ==
    /\ At(t, "settle")
    /\ Instead(t, (IF First(t) \in PoolsOf(Users) THEN SettleSteps(First(t)) ELSE <<>>) \o Others(t))
    /\ UNCHANGED <<memberOf, lock, writer, settled, strayed>>

\* settle_before_user_delete: the pool the user is in by now.
Departs(t) ==
    /\ At(t, "depart")
    /\ Instead(t, IF PoolsOf(Who(t)) = {} THEN <<>>
                  ELSE <<Settle(PoolsOf(Who(t)))>>)
    /\ Strays(t, PoolsOf(Who(t)))
    /\ UNCHANGED <<memberOf, lock, writer, settled>>

\* resettle_pools, also the one inside a purge: the pools the users are in by now.
ResettlePools(t) ==
    /\ At(t, "resettle")
    /\ Instead(t, IF PoolsOf(Who(t)) = {} THEN <<>> ELSE Resettle(PoolsOf(Who(t))))
    /\ IF lock[Mutex].owner = t THEN Strays(t, PoolsOf(Who(t))) ELSE UNCHANGED strayed
    /\ UNCHANGED <<memberOf, lock, writer, settled>>

Proceed(t) ==
    \/ TakeLock(t) \/ DropLock(t) \/ FlushBuffer(t) \/ WriteRows(t) \/ Busy(t) \/ CommitRows(t)
    \/ Joins(t) \/ Leaves(t) \/ Vanishes(t) \/ SettlePool(t) \/ Departs(t) \/ ResettlePools(t)

Next == \E t \in Tasks : Request(t) \/ Proceed(t)

Spec == Init /\ [][Next]_vars

-----------------------------------------------------------------------------
(* Properties.                                                             *)

Awaits(t) ==
    IF At(t, "take") /\ lock[First(t)].owner \notin {None, t} THEN lock[First(t)].owner ELSE None

Deadlock == \E S \in (SUBSET Tasks) \ {{}} : \A t \in S : Awaits(t) \in S

\* Nobody waits for a task that waits, however indirectly, for it: what every call site's
\* order of guards, pause and write lock is for (RateLimitTracker.pool_lock).
NeverDeadlocked == ~Deadlock

\* The same, but for purges that resettle a pool they have not guarded.
DeadlockOnlyByStraying == Deadlock => strayed # {}

\* resettle_pools, settle_pool: until a settlement is committed its pool's guard is kept, so
\* that nobody apportions what the pool used against a ledger about to change; but for
\* requests that met a pool they had not guarded.
SettledUnderGuard == \A p \in settled : lock[p].owner = writer \/ writer \in strayed
=============================================================================
