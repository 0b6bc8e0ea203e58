---------------------------- MODULE LimitConfig ----------------------------
(***************************************************************************)
(* How an admin's edit of profiles, users' profiles or model groups        *)
(* reaches the snapshot that requests are checked against:                 *)
(* RateLimitTracker._load_config (app/rate_limit.py), the profile registry *)
(* it reloads (app/profiles.py) and the endpoints of app/routes/admin.py   *)
(* that commit, patch or invalidate, and then reload.                      *)
(*                                                                         *)
(* The content of a row is how often it has been committed.  Pool          *)
(* membership, carries and share policy are selected and installed with    *)
(* the groups and are not told apart from them.                            *)
(***************************************************************************)
EXTENDS Integers

CONSTANTS
    Profiles,   \* user_profiles rows, with their limits
    Users,      \* users rows, for their profile_id
    Groups,     \* model_groups rows, with their members
    Admins,     \* admin requests; one that has ended is reused
    Loop,       \* _refresh_loop
    NoTask, NoRow,
    MaxEdits,   \* bound on edits
    MaxFails    \* bound on loads that raise

Rows == Profiles \cup Users \cup Groups
Tasks == Admins \cup {Loop}

ASSUME ConfigAssumption ==
    /\ Profiles \cap Users = {} /\ Profiles \cap Groups = {} /\ Users \cap Groups = {}
    /\ NoRow \notin Rows
    /\ Loop \notin Admins /\ NoTask \notin Tasks
    /\ MaxEdits \in Nat /\ MaxFails \in Nat

\* No such row: deleted from the database, or not in the snapshot.
Gone == -1

VARIABLES
    db,         \* the committed content of each row
    live,       \* the content requests are checked against
    pc,         \* where each admin request is
    row,        \* the row it edits
    loading,    \* the task holding _reload_lock
    stage,      \* what that task does next
    read,       \* what it has selected
    off,        \* the content that switched a group off, 0 while it is on
    shown,      \* history: groups off, as a reload that ended well has shown
    missed,     \* history: rows whose last edit no whole load has followed
    since,      \* history: those it was begun too early for, if it ends well
    edits, fails

reload == <<loading, stage, read>>
bounds == <<edits, fails>>
history == <<shown, missed, since>>
vars == <<db, live, pc, row, reload, off, history, bounds>>

TypeOK ==
    /\ db \in [Rows -> Nat \cup {Gone}]
    /\ live \in [Rows -> Nat \cup {Gone}]
    /\ pc \in [Admins -> {"idle", "limits", "move", "patch", "toggle", "members",
                          "invalidate", "delete", "reload"}]
    /\ row \in [Admins -> Rows \cup {NoRow}]
    /\ loading \in Tasks \cup {NoTask}
    /\ stage \in {"idle", "profiles", "users", "registry", "groups", "snapshot"}
    /\ read \in [Rows -> Nat \cup {Gone}]
    /\ off \in [Groups -> Nat]
    /\ shown \subseteq Groups
    /\ missed \subseteq Rows /\ since \subseteq Rows
    /\ edits \in 0..MaxEdits
    /\ fails \in 0..MaxFails

\* start() loads the configuration before the first request.
Init ==
    /\ db = [r \in Rows |-> 0]
    /\ live = [r \in Rows |-> 0]
    /\ pc = [a \in Admins |-> "idle"]
    /\ row = [a \in Admins |-> NoRow]
    /\ loading = NoTask /\ stage = "idle"
    /\ read = [r \in Rows |-> 0]
    /\ off = [g \in Groups |-> 0]
    /\ shown = {} /\ missed = {} /\ since = {}
    /\ edits = 0 /\ fails = 0

-----------------------------------------------------------------------------
(* The endpoints.                                                          *)

Goto(a, step) == pc' = [pc EXCEPT ![a] = step]
Write(r) == db' = [db EXCEPT ![r] = @ + 1]

Request(a, kind, r) ==
    /\ pc[a] = "idle" /\ edits < MaxEdits
    /\ edits' = edits + 1
    /\ Goto(a, kind)
    /\ row' = [row EXCEPT ![a] = r]
    /\ UNCHANGED <<db, live, reload, off, history, fails>>

\* upsert_profile_limits and its like: nothing but a reload follows.
CommitLimits(a) ==
    /\ pc[a] = "limits"
    /\ Write(row[a])
    /\ Goto(a, "reload")
    /\ UNCHANGED <<live, row, reload, off, history, bounds>>

CommitMove(a) ==
    /\ pc[a] = "move"
    /\ Write(row[a])
    /\ Goto(a, "patch")
    /\ UNCHANGED <<live, row, reload, off, history, bounds>>

\* Mutant: the patch is taken to be enough, and no reload follows.
SetUsersProfileOnly(a) ==
    /\ pc[a] = "patch"
    /\ live' = [live EXCEPT ![row[a]] = db[row[a]]]
    /\ Goto(a, "idle")
    /\ row' = [row EXCEPT ![a] = NoRow]
    /\ UNCHANGED <<db, reload, off, history, bounds>>

\* set_users_profile: the user's new profile, ahead of the reload.
SetUsersProfile(a) ==
    /\ pc[a] = "patch"
    /\ live' = [live EXCEPT ![row[a]] = db[row[a]]]
    /\ Goto(a, "reload")
    /\ UNCHANGED <<db, row, reload, off, history, bounds>>

\* update_model_group with {"enabled": ...}.
CommitToggle(a) ==
    LET g == row[a] IN
    /\ pc[a] = "toggle" /\ db[g] # Gone
    /\ Write(g)
    /\ off' = [off EXCEPT ![g] = IF @ = 0 THEN db[g] + 1 ELSE 0]
    /\ shown' = shown \ {g}
    /\ Goto(a, "reload")
    /\ UNCHANGED <<live, row, reload, missed, since, bounds>>

\* set_group_members, or update_model_group with members.
CommitMembers(a) ==
    /\ pc[a] = "members" /\ db[row[a]] # Gone
    /\ Write(row[a])
    /\ Goto(a, "invalidate")
    /\ UNCHANGED <<live, row, reload, off, history, bounds>>

\* invalidate_group: the snapshot forgets the group; its models fall to the
\* Default group until a load puts it back.
InvalidateGroup(a) ==
    /\ pc[a] = "invalidate"
    /\ live' = [live EXCEPT ![row[a]] = Gone]
    /\ Goto(a, "reload")
    /\ UNCHANGED <<db, row, reload, off, history, bounds>>

\* delete_model_group_endpoint invalidates first ...
RequestDelete(a, g) ==
    /\ pc[a] = "idle" /\ edits < MaxEdits
    /\ edits' = edits + 1
    /\ Goto(a, "delete")
    /\ row' = [row EXCEPT ![a] = g]
    /\ live' = [live EXCEPT ![g] = Gone]
    /\ shown' = shown \ {g}
    /\ UNCHANGED <<db, reload, off, missed, since, fails>>

\* ... and then commits.
CommitDelete(a) ==
    LET g == row[a] IN
    /\ pc[a] = "delete" /\ db[g] # Gone
    /\ db' = [db EXCEPT ![g] = Gone]
    /\ off' = [off EXCEPT ![g] = 0]
    /\ Goto(a, "reload")
    /\ UNCHANGED <<live, row, reload, history, bounds>>

\* 404: the group was deleted meanwhile.
NotFound(a) ==
    /\ pc[a] \in {"toggle", "members", "delete"} /\ db[row[a]] = Gone
    /\ Goto(a, "idle")
    /\ row' = [row EXCEPT ![a] = NoRow]
    /\ UNCHANGED <<db, live, reload, off, history, bounds>>

-----------------------------------------------------------------------------
(* _load_config.  The selects are statements of their own: what one reads  *)
(* may be outdated by the time the next one runs.                          *)

\* Mutant: a request that finds a load under way takes it for its own.
TakeReloadLockShared(t) ==
    /\ t \in Admins => pc[t] = "reload"
    /\ IF loading = NoTask
       THEN /\ loading' = t /\ stage' = "profiles" /\ since' = {}
            /\ UNCHANGED <<pc, row>>
       ELSE /\ t \in Admins \ {loading}
            /\ Goto(t, "idle")
            /\ row' = [row EXCEPT ![t] = NoRow]
            /\ UNCHANGED <<loading, stage, since>>
    /\ UNCHANGED <<db, live, read, off, shown, missed, bounds>>

\* _load_config: one load at a time, the others wait.
TakeReloadLock(t) ==
    /\ loading = NoTask
    /\ t \in Admins => pc[t] = "reload"
    /\ loading' = t /\ stage' = "profiles" /\ since' = {}
    /\ UNCHANGED <<db, live, pc, row, read, off, shown, missed, bounds>>

\* One select: the rows of a table as they are now.
Select(t, from, table, to) ==
    /\ loading = t /\ stage = from
    /\ read' = [r \in Rows |-> IF r \in table THEN db[r] ELSE read[r]]
    /\ stage' = to
    /\ UNCHANGED <<db, live, pc, row, loading, off, history, bounds>>

ReadProfiles(t) == Select(t, "profiles", Profiles, "users")
ReadUsers(t) == Select(t, "users", Users, "registry")
ReadGroups(t) == Select(t, "groups", Groups, "snapshot")

Installed(rows) == [r \in Rows |-> IF r \in rows THEN read[r] ELSE live[r]]

\* ProfileRegistry.install.
InstallRegistry(t) ==
    /\ loading = t /\ stage = "registry"
    /\ live' = Installed(Profiles \cup Users)
    /\ stage' = "groups"
    /\ UNCHANGED <<db, pc, row, loading, read, off, history, bounds>>

\* The task leaves _reload_lock; an admin request is answered.
Leave(t) ==
    /\ loading' = NoTask /\ stage' = "idle"
    /\ pc' = [a \in Admins |-> IF a = t THEN "idle" ELSE pc[a]]
    /\ row' = [a \in Admins |-> IF a = t THEN NoRow ELSE row[a]]

EditOf(t) == IF t \in Admins THEN {row[t]} ELSE {}

\* Mutant: the snapshot is updated in place, and an invalidated group stays out.
InstallKnownGroups(t) ==
    /\ loading = t /\ stage = "snapshot"
    /\ live' = Installed({g \in Groups : live[g] # Gone})
    /\ Leave(t)
    /\ missed' = since
    /\ UNCHANGED <<db, read, off, shown, since, bounds>>

\* The rest of the snapshot, under _lock.
InstallSnapshot(t) ==
    /\ loading = t /\ stage = "snapshot"
    /\ live' = Installed(Groups)
    /\ Leave(t)
    /\ missed' = since
    /\ shown' = shown \cup {g \in Groups \cap EditOf(t) : off[g] # 0 /\ read[g] >= off[g]}
    /\ UNCHANGED <<db, read, off, since, bounds>>

\* A select raises: logged, and the caller goes on as if the load had been made.
LoadFails(t) ==
    /\ loading = t /\ stage \in {"profiles", "users", "groups"}
    /\ fails < MaxFails /\ fails' = fails + 1
    /\ Leave(t)
    /\ missed' = missed \cup EditOf(t)
    /\ UNCHANGED <<db, live, read, off, shown, since, edits>>

\* The admin's request raises or is cancelled between its steps.
Abandon(a) ==
    /\ pc[a] # "idle"
    /\ pc' = [pc EXCEPT ![a] = "idle"]
    /\ row' = [row EXCEPT ![a] = NoRow]
    /\ loading' = IF loading = a THEN NoTask ELSE loading
    /\ stage' = IF loading = a THEN "idle" ELSE stage
    /\ missed' = missed \cup {row[a]} /\ since' = since \cup {row[a]}
    /\ UNCHANGED <<db, live, read, off, shown, bounds>>

-----------------------------------------------------------------------------
Edit(a) ==
    \/ \E r \in Profiles : Request(a, "limits", r)
    \/ \E r \in Users : Request(a, "move", r)
    \/ \E r \in Groups : Request(a, "toggle", r)
    \/ \E r \in Groups : Request(a, "members", r)
    \/ \E r \in Groups : RequestDelete(a, r)
    \/ CommitLimits(a) \/ CommitMove(a) \/ SetUsersProfile(a)
    \/ CommitToggle(a) \/ CommitMembers(a) \/ InvalidateGroup(a)
    \/ CommitDelete(a) \/ NotFound(a)
    \/ Abandon(a)

Load(t) ==
    \/ ReadProfiles(t) \/ ReadUsers(t) \/ InstallRegistry(t)
    \/ ReadGroups(t) \/ InstallSnapshot(t) \/ LoadFails(t)

Next ==
    \/ \E a \in Admins : Edit(a)
    \/ \E t \in Tasks : TakeReloadLock(t) \/ Load(t)

Spec == Init /\ [][Next]_vars

\* The refresh loop wakes every 30 s and waits its turn (asyncio.Lock is fair);
\* a task holding the lock is run to the end of its load.
FairSpec ==
    /\ Spec
    /\ WF_vars(TakeReloadLock(Loop))
    /\ \A t \in Tasks : WF_vars(Load(t))

-----------------------------------------------------------------------------
(* Properties.                                                             *)

\* An edit of r is committed, patched or invalidated and not yet reloaded.
InEffect(a, r) ==
    /\ row[a] = r
    /\ \/ pc[a] \in {"patch", "invalidate", "reload"}
       \/ pc[a] = "delete" /\ db[r] # Gone
BeingEdited(r) == \E a \in Admins : InEffect(a, r)

\* Once the edits of a row have been answered, requests are checked against what
\* was committed, and no load that was already under way (one whose selects
\* predate the commit) can put the old row back (rate_limit.py, the comment on
\* _reload_lock; create_user_endpoint, the comment on reload_config).
Settled ==
    \A r \in Rows : ~ BeingEdited(r) /\ r \notin missed => live[r] = db[r]

\* Whatever reload failed, the snapshot catches up with the database once the
\* admins stop editing (_refresh_loop).
CatchesUp == <>[](live = db)

\* A group an admin switched off, and was shown as off, is not served until it is
\* switched on or its deletion is asked for (toggle_model_group_endpoint).
OffStaysOff ==
    \A g \in shown : off[g] # 0 => live[g] >= off[g]

=============================================================================
