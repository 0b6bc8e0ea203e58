---------------------------- MODULE UsageTracker ----------------------------
(***************************************************************************)
(* app/request_tracker.py: how one finished request becomes one count in   *)
(* the usage tables, whatever renames, purges, account deletions, failed   *)
(* writes and crashes happen around it.                                    *)
(*                                                                         *)
(* A usage key is (user_id, user_identity, model, pool_id); date, hour,    *)
(* user_type and server are further key parts that nothing here tells      *)
(* apart.  A table row is keyed without the label, so its count is the sum *)
(* of rows[k] over the labels, and rowLabel is its user_identity column.   *)
(*                                                                         *)
(* _lock and _usage_lock are never held across a suspension, so a section  *)
(* under them is one step; _flush_mutex is held across DB writes, and the  *)
(* section that holds it is the variable op.                               *)
(***************************************************************************)
EXTENDS Integers, FiniteSets

CONSTANTS
    Users,      \* users.id values; an id is reused once its account is gone
    Labels,     \* usernames
    Models,     \* canonical model ids
    Pools,      \* pool_id values, NoPool among them
    NoPool,     \* pool_id 0
    Reqs,       \* request ids (uuid4: each is used once)
    MaxOps,     \* bound on renames, purges, deletions and registrations
    NoUser, NoLabel, NoModel

ASSUME UsageAssumption ==
    /\ NoPool \in Pools
    /\ NoUser \notin Users
    /\ NoLabel \notin Labels
    /\ NoModel \notin Models
    /\ MaxOps \in Nat
    /\ IsFiniteSet(Labels)

VARIABLES
    reqs,       \* _active, and where each request is in its life
    seen,       \* the identity auth has read and not yet reported
    buffer,     \* _usage_buffer
    rows,       \* the usage tables' request_count
    rowLabel,   \* the usage tables' user_identity
    op,         \* the task inside _flush_mutex
    snapshot,   \* _flush_locked's local
    name,       \* users.username, NoLabel when the id has no account
    poolOf,     \* the rate limiter's pool_id_for_user
    opsLeft,    \* bound on administrative operations
    recorded,   \* history: counted requests the tables owe, per row
    late,       \* history: requests whose identity was read before it changed
    tainted     \* history: users a late request was counted for

traffic == <<reqs, seen>>
tables == <<rows, rowLabel>>
world == <<name, poolOf, opsLeft>>
history == <<recorded, late, tainted>>
vars == <<traffic, buffer, tables, op, snapshot, world, history>>

Key == [uid : Users, label : Labels, model : Models, pool : Pools]
RowKey == [uid : Users, model : Models, pool : Pools]
Entry == [uid : Users \cup {NoUser}, label : Labels \cup {NoLabel},
          model : Models \cup {NoModel}, state : {"new", "active", "done"}]
Ident == [uid : Users, label : Labels]
NoIdent == [uid |-> NoUser, label |-> NoLabel]
Idle == [kind |-> "none", uid |-> NoUser, new |-> NoLabel, scope |-> {}, phase |-> "idle"]
Op == [kind : {"none", "flush", "rename", "purge", "delete"},
       uid : Users \cup {NoUser}, new : Labels \cup {NoLabel},
       scope : SUBSET Key,
       phase : {"idle", "snap", "write", "subtract", "commit", "sweep"}]

RowOf(k) == [uid |-> k.uid, model |-> k.model, pool |-> k.pool]
Labelled(r, l) == [uid |-> r.uid, label |-> l, model |-> r.model, pool |-> r.pool]
KeysOfUser(u) == {k \in Key : k.uid = u}

\* The counts f holds for row r under any label, one unit per request.
Units(f, r) == UNION {{l} \X (1..f[Labelled(r, l)]) : l \in Labels}
RowTotal(f, r) == Cardinality(Units(f, r))

-----------------------------------------------------------------------------
TypeOK ==
    /\ reqs \in [Reqs -> Entry]
    /\ seen \in [Reqs -> Ident \cup {NoIdent}]
    /\ buffer \in [Key -> Nat]
    /\ rows \in [Key -> Nat]
    /\ rowLabel \in [RowKey -> Labels \cup {NoLabel}]
    /\ op \in Op
    /\ snapshot \in [Key -> Nat]
    /\ name \in [Users -> Labels \cup {NoLabel}]
    /\ poolOf \in [Users -> Pools]
    /\ opsLeft \in 0..MaxOps
    /\ recorded \in [RowKey -> Int]
    /\ late \subseteq Reqs
    /\ tainted \subseteq Users

Empty == [k \in Key |-> 0]
NewEntry == [uid |-> NoUser, label |-> NoLabel, model |-> NoModel, state |-> "new"]
Popped == [NewEntry EXCEPT !.state = "done"]

Init ==
    /\ reqs = [r \in Reqs |-> NewEntry]
    /\ seen = [r \in Reqs |-> NoIdent]
    /\ buffer = Empty /\ rows = Empty /\ snapshot = Empty
    /\ rowLabel = [r \in RowKey |-> NoLabel]
    /\ op = Idle
    /\ name \in [Users -> Labels \cup {NoLabel}]
    /\ \A u, v \in Users : name[u] = name[v] => u = v \/ name[u] = NoLabel
    /\ poolOf = [u \in Users |-> NoPool]
    /\ opsLeft = MaxOps
    /\ recorded = [r \in RowKey |-> 0]
    /\ late = {} /\ tainted = {}

-----------------------------------------------------------------------------
(* The life of a request.                                                  *)

\* start_request: unknown identity, the model the middleware sniffed (if any).
StartRequest(r, m) ==
    /\ reqs[r].state = "new"
    /\ reqs' = [reqs EXCEPT ![r] = [@ EXCEPT !.state = "active", !.model = m]]
    /\ UNCHANGED <<seen, buffer, tables, op, snapshot, world, history>>

\* Auth reads the user (auth_cache or the users table).  Its report to the
\* tracker is a later step, so a cached identity is an early read.
Authenticate(r, u) ==
    /\ reqs[r].state = "active" /\ reqs[r].label = NoLabel
    /\ seen[r] = NoIdent
    /\ name[u] # NoLabel
    /\ seen' = [seen EXCEPT ![r] = [uid |-> u, label |-> name[u]]]
    /\ UNCHANGED <<reqs, buffer, tables, op, snapshot, world, history>>

\* update_identity: a request that has already ended is left alone.
UpdateIdentity(r) ==
    /\ seen[r] # NoIdent
    /\ reqs' = IF reqs[r].state = "active"
               THEN [reqs EXCEPT ![r] = [@ EXCEPT !.uid = seen[r].uid, !.label = seen[r].label]]
               ELSE reqs
    /\ seen' = [seen EXCEPT ![r] = NoIdent]
    /\ UNCHANGED <<buffer, tables, op, snapshot, world, history>>

\* update_model: the route's canonical id replaces the client's.
UpdateModel(r, m) ==
    /\ reqs[r].state = "active" /\ reqs[r].model # m
    /\ reqs' = [reqs EXCEPT ![r] = [@ EXCEPT !.model = m]]
    /\ UNCHANGED <<seen, buffer, tables, op, snapshot, world, history>>

Counted(e, ok) == ok /\ e.uid # NoUser /\ e.model # NoModel
PoolStamp(e, byok) == IF byok THEN NoPool ELSE poolOf[e.uid]
KeyOf(e, p) == [uid |-> e.uid, label |-> e.label, model |-> e.model, pool |-> p]

\* end_request: the pop and the increment are one section under _lock.
\* ok: status is completed or cancelled; byok: the model is the sender's own.
EndRequest(r, ok, byok) ==
    LET e == reqs[r]
        k == KeyOf(e, PoolStamp(e, byok))
        counts == Counted(e, ok)
    IN  /\ e.state = "active"
        /\ reqs' = [reqs EXCEPT ![r] = Popped]
        /\ buffer' = IF counts THEN [buffer EXCEPT ![k] = @ + 1] ELSE buffer
        /\ recorded' = IF counts THEN [recorded EXCEPT ![RowOf(k)] = @ + 1] ELSE recorded
        /\ tainted' = IF counts /\ r \in late THEN tainted \cup {e.uid} ELSE tainted
        /\ UNCHANGED <<seen, tables, op, snapshot, world, late>>

\* A rate-limiter reload moves the user to the pool they are in now.
ReloadPool(u, p) ==
    /\ poolOf[u] # p
    /\ poolOf' = [poolOf EXCEPT ![u] = p]
    /\ UNCHANGED <<traffic, buffer, tables, op, snapshot, name, opsLeft, history>>

-----------------------------------------------------------------------------
(* The flush: snapshot -> write -> subtract, all inside _flush_mutex.  A   *)
(* caller that holds the mutex for more than the flush goes on to commit.  *)

AfterFlush == IF op.kind = "flush" THEN Idle ELSE [op EXCEPT !.phase = "commit"]

BeginFlush ==
    /\ op.kind = "none"
    /\ op' = [Idle EXCEPT !.kind = "flush", !.phase = "snap"]
    /\ UNCHANGED <<traffic, buffer, tables, snapshot, world, history>>

\* Mutant: the emptiness test is off by one key.
FlushSnapshotOffByOne ==
    /\ op.phase = "snap"
    /\ IF Cardinality({k \in Key : buffer[k] > 0}) <= 1
       THEN op' = AfterFlush /\ UNCHANGED snapshot
       ELSE op' = [op EXCEPT !.phase = "write"] /\ snapshot' = buffer
    /\ UNCHANGED <<traffic, buffer, tables, world, history>>

FlushSnapshot ==
    /\ op.phase = "snap"
    /\ IF buffer = Empty
       THEN op' = AfterFlush /\ UNCHANGED snapshot
       ELSE op' = [op EXCEPT !.phase = "write"] /\ snapshot' = buffer
    /\ UNCHANGED <<traffic, buffer, tables, world, history>>

\* flush_usage_rows: both tables in one transaction, increment on conflict;
\* the label of a written row is one of the labels its counts came under.
WriteRows ==
    /\ rows' = [k \in Key |-> rows[k] + snapshot[k]]
    /\ rowLabel' \in [RowKey -> Labels \cup {NoLabel}]
    /\ \A r \in RowKey :
         LET from == {l \in Labels : snapshot[Labelled(r, l)] > 0}
         IN  IF from = {} THEN rowLabel'[r] = rowLabel[r] ELSE rowLabel'[r] \in from

FlushWrite ==
    /\ op.phase = "write"
    /\ WriteRows
    /\ op' = [op EXCEPT !.phase = "subtract"]
    /\ UNCHANGED <<traffic, buffer, snapshot, world, history>>

\* The write raised: the buffer stays for the next cycle.
FlushFail ==
    /\ op.phase = "write"
    /\ op' = AfterFlush /\ snapshot' = Empty
    /\ UNCHANGED <<traffic, buffer, tables, world, history>>

\* Mutant: the whole buffer is cleared, increments made during the write included.
FlushSubtractClears ==
    /\ op.phase = "subtract"
    /\ buffer' = Empty
    /\ op' = AfterFlush /\ snapshot' = Empty
    /\ UNCHANGED <<traffic, tables, world, history>>

FlushSubtract ==
    /\ op.phase = "subtract"
    /\ buffer' = [k \in Key |-> IF snapshot[k] = 0 THEN buffer[k]
                                ELSE IF buffer[k] - snapshot[k] <= 0 THEN 0
                                ELSE buffer[k] - snapshot[k]]
    /\ op' = AfterFlush /\ snapshot' = Empty
    /\ UNCHANGED <<traffic, tables, world, history>>

-----------------------------------------------------------------------------
(* Rename, purge and account deletion: each takes the mutex, drains the    *)
(* buffer, commits its row changes and then sweeps the memory.             *)

Begin(new) ==
    /\ op.kind = "none"
    /\ opsLeft > 0 /\ opsLeft' = opsLeft - 1
    /\ op' = new
    /\ UNCHANGED <<traffic, buffer, tables, snapshot, name, poolOf, history>>

\* update_user_profile with a new username.
BeginRename(u, l) ==
    /\ name[u] # NoLabel /\ name[u] # l
    /\ Begin([kind |-> "rename", uid |-> u, new |-> l,
              scope |-> KeysOfUser(u), phase |-> "snap"])

\* DELETE /admin/usage on one axis.
BeginPurge(scope) ==
    Begin([kind |-> "purge", uid |-> NoUser, new |-> NoLabel,
           scope |-> scope, phase |-> "snap"])

\* delete_user_account: only a pooled user's settlement flushes first.
BeginDelete(u, first) ==
    /\ name[u] # NoLabel
    /\ Begin([kind |-> "delete", uid |-> u, new |-> NoLabel,
              scope |-> KeysOfUser(u), phase |-> first])

\* The name is taken by now, or the transaction raised: rolled back.
CommitFails ==
    /\ op.phase = "commit"
    /\ op' = Idle
    /\ UNCHANGED <<traffic, buffer, tables, snapshot, world, history>>

\* Requests whose identity was read before this commit and not reported yet.
Overtaken(u) == {r \in Reqs : seen[r].uid = u}

RenameCommit ==
    /\ op.kind = "rename" /\ op.phase = "commit"
    /\ \A u \in Users : name[u] # op.new
    /\ name' = [name EXCEPT ![op.uid] = op.new]
    /\ rowLabel' = [r \in RowKey |-> IF r.uid = op.uid /\ rowLabel[r] # NoLabel
                                     THEN op.new ELSE rowLabel[r]]
    /\ op' = [op EXCEPT !.phase = "sweep"]
    /\ late' = late \cup Overtaken(op.uid)
    /\ UNCHANGED <<traffic, buffer, rows, snapshot, poolOf, opsLeft, recorded, tainted>>

DeleteRows ==
    /\ rows' = [k \in Key |-> IF k \in op.scope THEN 0 ELSE rows[k]]
    /\ rowLabel' = [r \in RowKey |-> IF \E l \in Labels : Labelled(r, l) \in op.scope
                                     THEN NoLabel ELSE rowLabel[r]]
    /\ recorded' = [r \in RowKey |-> IF \E l \in Labels : Labelled(r, l) \in op.scope
                                     THEN recorded[r] - RowTotal(rows, r) ELSE recorded[r]]

PurgeCommit ==
    /\ op.kind = "purge" /\ op.phase = "commit"
    /\ DeleteRows
    /\ op' = [op EXCEPT !.phase = "sweep"]
    /\ UNCHANGED <<traffic, buffer, snapshot, world, late, tainted>>

DeleteCommit ==
    /\ op.kind = "delete" /\ op.phase = "commit"
    /\ DeleteRows
    /\ name' = [name EXCEPT ![op.uid] = NoLabel]
    /\ op' = [op EXCEPT !.phase = "sweep"]
    /\ late' = late \cup Overtaken(op.uid)
    /\ UNCHANGED <<traffic, buffer, snapshot, poolOf, opsLeft, tainted>>

\* Mutant: requests still in flight keep the old label.
RenameIdentityBufferOnly ==
    /\ op.kind = "rename" /\ op.phase = "sweep"
    /\ buffer' = [k \in Key |-> IF k.uid # op.uid THEN buffer[k]
                                ELSE IF k.label = op.new THEN RowTotal(buffer, RowOf(k))
                                ELSE 0]
    /\ op' = Idle
    /\ UNCHANGED <<traffic, tables, snapshot, world, history>>

\* rename_identity: in-flight entries and buffered keys take the new label.
RenameIdentity ==
    /\ op.kind = "rename" /\ op.phase = "sweep"
    /\ reqs' = [r \in Reqs |-> IF reqs[r].state = "active" /\ reqs[r].uid = op.uid
                               THEN [reqs[r] EXCEPT !.label = op.new] ELSE reqs[r]]
    /\ buffer' = [k \in Key |-> IF k.uid # op.uid THEN buffer[k]
                                ELSE IF k.label = op.new THEN RowTotal(buffer, RowOf(k))
                                ELSE 0]
    /\ op' = Idle
    /\ UNCHANGED <<seen, tables, snapshot, world, history>>

DropBuffered ==
    /\ buffer' = [k \in Key |-> IF k \in op.scope THEN 0 ELSE buffer[k]]
    /\ recorded' = [r \in RowKey |-> IF \E l \in Labels : Labelled(r, l) \in op.scope
                                     THEN 0 ELSE recorded[r]]

\* drop_buffered_usage; a purge that resettles pools flushes once more.
DropBufferedUsage(resettle) ==
    /\ op.kind = "purge" /\ op.phase = "sweep"
    /\ DropBuffered
    /\ op' = IF resettle THEN [Idle EXCEPT !.kind = "flush", !.phase = "snap"] ELSE Idle
    /\ UNCHANGED <<traffic, tables, snapshot, world, late, tainted>>

\* Mutant: only the buffer is swept; a stream still running counts later.
ForgetUserBufferOnly ==
    /\ op.kind = "delete" /\ op.phase = "sweep"
    /\ DropBuffered
    /\ op' = Idle
    /\ UNCHANGED <<traffic, tables, snapshot, world, late, tainted>>

\* forget_user: in-flight entries are detached, buffered counts dropped.
ForgetUser ==
    /\ op.kind = "delete" /\ op.phase = "sweep"
    /\ reqs' = [r \in Reqs |-> IF reqs[r].state = "active" /\ reqs[r].uid = op.uid
                               THEN [reqs[r] EXCEPT !.uid = NoUser] ELSE reqs[r]]
    /\ DropBuffered
    /\ op' = Idle
    /\ UNCHANGED <<seen, tables, snapshot, world, late, tainted>>

\* users.id is not AUTOINCREMENT: a new account takes a free id.
Register(u, l) ==
    /\ name[u] = NoLabel
    /\ \A v \in Users : name[v] # l
    /\ opsLeft > 0 /\ opsLeft' = opsLeft - 1
    /\ name' = [name EXCEPT ![u] = l]
    /\ UNCHANGED <<traffic, buffer, tables, op, snapshot, poolOf, history>>

\* The process dies: the buffer and everything in flight is gone.
Crash ==
    /\ \E r \in Reqs : reqs[r].state # "new"
    /\ reqs' = [r \in Reqs |-> IF reqs[r].state = "active"
                               THEN Popped ELSE reqs[r]]
    /\ seen' = [r \in Reqs |-> NoIdent]
    /\ buffer' = Empty
    /\ op' = Idle /\ snapshot' = Empty
    /\ recorded' = [r \in RowKey |-> RowTotal(rows, r)]
    /\ UNCHANGED <<tables, world, late, tainted>>

-----------------------------------------------------------------------------
ByUser(u) == KeysOfUser(u)
ByModel(m) == {k \in Key : k.model = m}
ByPool(p) == {k \in Key : k.pool = p}

Traffic ==
    \E r \in Reqs :
        \/ \E m \in Models \cup {NoModel} : StartRequest(r, m)
        \/ \E u \in Users : Authenticate(r, u)
        \/ UpdateIdentity(r)
        \/ \E m \in Models : UpdateModel(r, m)
        \/ \E ok, byok \in BOOLEAN : EndRequest(r, ok, byok)

Flush == FlushSnapshot \/ FlushWrite \/ FlushFail \/ FlushSubtract

BeginAdmin ==
    \/ \E u \in Users, l \in Labels : BeginRename(u, l)
    \/ \E u \in Users : BeginPurge(ByUser(u))
    \/ \E m \in Models : BeginPurge(ByModel(m))
    \/ \E p \in Pools \ {NoPool} : BeginPurge(ByPool(p))
    \/ \E u \in Users, first \in {"snap", "commit"} : BeginDelete(u, first)

FinishAdmin ==
    \/ CommitFails \/ RenameCommit \/ PurgeCommit \/ DeleteCommit
    \/ RenameIdentity \/ ForgetUser
    \/ \E resettle \in BOOLEAN : DropBufferedUsage(resettle)

Environment ==
    \/ \E u \in Users, p \in Pools : ReloadPool(u, p)
    \/ \E u \in Users, l \in Labels : Register(u, l)

Next == Traffic \/ BeginFlush \/ Flush \/ BeginAdmin \/ FinishAdmin \/ Environment \/ Crash

Spec == Init /\ [][Next]_vars

\* stop(): the flush loop's task is cancelled while it awaits the commit.  The
\* driver thread commits all the same, nothing is subtracted, and the final
\* flush starts over from the buffer.
StopDuringCommit ==
    /\ op.kind = "flush" /\ op.phase = "write"
    /\ WriteRows
    /\ op' = [op EXCEPT !.phase = "snap"] /\ snapshot' = Empty
    /\ UNCHANGED <<traffic, buffer, world, history>>

ShutdownSpec == Init /\ [][Next \/ StopDuringCommit]_vars

\* The loop comes round, the tasks inside the mutex are scheduled, and the
\* database does not refuse the write for ever.
Fairness ==
    /\ WF_vars(BeginFlush) /\ WF_vars(FlushSnapshot) /\ SF_vars(FlushWrite)
    /\ WF_vars(FlushFail) /\ WF_vars(FlushSubtract) /\ WF_vars(FinishAdmin)

FairSpec == Spec /\ Fairness

-----------------------------------------------------------------------------
(* Properties.                                                             *)

Pending(f, r) == IF op.phase = "subtract" THEN RowTotal(f, r) ELSE 0

\* Every counted request is in the buffer or in the tables exactly once, at
\* every moment of a flush, a rename, a purge or a failed write: what
\* _flush_locked subtracts is what flush_usage_rows committed.
Conservation ==
    \A r \in RowKey :
        recorded[r] = RowTotal(rows, r) + RowTotal(buffer, r) - Pending(snapshot, r)

\* The tables never show more requests than were made (RPD is read from them).
NeverOvercounts == \A r \in RowKey : RowTotal(rows, r) <= recorded[r]

\* Between a flush's snapshot and its subtraction no key loses the counts the
\* snapshot took, so the subtraction in _flush_locked never drops below zero
\* and never eats an increment that arrived meanwhile.
SnapshotCovered ==
    op.phase \in {"write", "subtract"} => \A k \in Key : snapshot[k] <= buffer[k]

\* After forget_user a reused id starts clean: no row, no buffered count and no
\* in-flight request of the deleted account, except through a request whose
\* identity auth had read before the deletion and reported after it.
DeletedLeavesNothing ==
    \A u \in Users \ tainted :
        name[u] = NoLabel /\ op.uid # u =>
            /\ \A k \in KeysOfUser(u) : rows[k] = 0 /\ buffer[k] = 0
            /\ \A r \in Reqs : reqs[r].uid = u => r \in late

\* Once a rename is over, rows, buffered counts and in-flight requests all carry
\* the current username: end_request is never between rename_identity's sweeps.
LabelsCurrent ==
    \A u \in Users \ tainted :
        name[u] # NoLabel /\ op.uid # u =>
            /\ \A k \in KeysOfUser(u) : buffer[k] > 0 => k.label = name[u]
            /\ \A r \in RowKey : r.uid = u /\ RowTotal(rows, r) > 0 => rowLabel[r] = name[u]
            /\ \A r \in Reqs \ late : reqs[r].uid = u => reqs[r].label = name[u]

\* Usage follows its account: to a new name, and into oblivion.
UsageFollowsAccounts == DeletedLeavesNothing /\ LabelsCurrent

Owed(k) == rows[k] + buffer[k] - (IF op.phase = "subtract" THEN snapshot[k] ELSE 0)

\* No step of a flush (snapshot, write, failure, subtraction) changes what the
\* tables and the buffer together owe a key.
FlushMovesExactly == [][Flush => \A k \in Key : Owed(k)' = Owed(k)]_vars

Waiting(r) == \E l \in Labels : buffer[Labelled(r, l)] > 0

\* What is buffered for a row, under whatever name, does not stay in memory for ever.
BufferDrains == \A r \in RowKey : Waiting(r) ~> ~Waiting(r)
=============================================================================
