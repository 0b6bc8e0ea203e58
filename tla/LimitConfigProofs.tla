------------------------- MODULE LimitConfigProofs -------------------------
(***************************************************************************)
(* What MCCaches composes: LimitConfig, AuthCache, ModelResolution.        *)
(*                                                                         *)
(* Settled is not inductive: a load under way may be about to install what *)
(* it has selected.  IInv adds that whatever it has selected or installed  *)
(* so far is what is committed, unless another admin is editing the row or *)
(* gave up on it since the load began (Selected).                          *)
(***************************************************************************)
EXTENDS MCCaches, FiniteSetTheorems, SequenceTheorems, TLAPS

Groupwise == {"toggle", "members", "invalidate", "delete"}

\* Where an admin request is fits the row it edits; only it runs its load.
Shape ==
    /\ \A a \in Admins :
          /\ pc[a] = "idle" <=> row[a] = NoRow
          /\ pc[a] = "limits" => row[a] \in Profiles
          /\ pc[a] \in {"move", "patch"} => row[a] \in Users
          /\ pc[a] \in Groupwise => row[a] \in Groups
          /\ loading = a => pc[a] = "reload"
    /\ loading = NoTask <=> stage = "idle"
    /\ since \subseteq missed
    /\ \A r \in Profiles \cup Users : db[r] # Gone

EditedByOthers(r) == \E a \in Admins : a # loading /\ InEffect(a, r)
Steady(r) == ~ EditedByOthers(r) /\ r \notin since

Selected ==
    \A r \in Rows : Steady(r) =>
        /\ stage \in {"users", "registry"} /\ r \in Profiles => read[r] = db[r]
        /\ stage = "registry" /\ r \in Users => read[r] = db[r]
        /\ stage = "snapshot" /\ r \in Groups => read[r] = db[r]
        /\ stage \in {"groups", "snapshot"} /\ r \in Profiles \cup Users => live[r] = db[r]

IInv == TypeOK /\ Shape /\ Selected /\ Settled

-----------------------------------------------------------------------------
LEMMA InitInv == Init => IInv
BY ConfigAssumption DEF Init, IInv, TypeOK, Shape, Selected, Settled, Rows, Tasks, Gone, Groupwise

LEMMA TypeStep == TypeOK /\ Shape /\ [Next]_vars => TypeOK'
<1> SUFFICES ASSUME TypeOK, Shape, [Next]_vars PROVE TypeOK'
  OBVIOUS
<1> USE ConfigAssumption DEF TypeOK
<1>1. ASSUME NEW a \in Admins, Edit(a) PROVE TypeOK'
  <2>1. ASSUME NEW k \in {"limits", "move", "toggle", "members"}, NEW r \in Rows, Request(a, k, r)
        PROVE TypeOK'
    BY <2>1 DEF Request, Goto, reload, history, bounds
  <2>2. CASE CommitLimits(a)
    BY <2>2 DEF CommitLimits, Goto, Write, reload, history, bounds, Shape, Gone, Rows
  <2>3. CASE CommitMove(a)
    BY <2>3 DEF CommitMove, Goto, Write, reload, history, bounds, Shape, Gone, Rows
  <2>4. CASE SetUsersProfile(a)
    BY <2>4 DEF SetUsersProfile, Goto, reload, history, bounds, Shape, Rows
  <2>5. CASE CommitToggle(a)
    <3>1. row[a] \in Groups /\ db[row[a]] \in Nat /\ db[row[a]] + 1 \in Nat
      BY <2>5 DEF CommitToggle, Shape, Groupwise, Rows, Gone
    <3>2. off' \in [Groups -> Nat]
      BY <2>5, <3>1 DEF CommitToggle
    <3>3. db' \in [Rows -> Nat \cup {Gone}]
      BY <2>5, <3>1 DEF CommitToggle, Write
    <3>4. QED
      BY <2>5, <3>2, <3>3 DEF CommitToggle, Goto, reload, bounds
  <2>6. CASE CommitMembers(a)
    <3>1. row[a] \in Groups /\ db[row[a]] \in Nat /\ db[row[a]] + 1 \in Nat
      BY <2>6 DEF CommitMembers, Shape, Groupwise, Rows, Gone
    <3>2. db' \in [Rows -> Nat \cup {Gone}]
      BY <2>6, <3>1 DEF CommitMembers, Write
    <3>3. QED
      BY <2>6, <3>2 DEF CommitMembers, Goto, reload, history, bounds
  <2>7. CASE InvalidateGroup(a)
    BY <2>7 DEF InvalidateGroup, Goto, reload, history, bounds
  <2>8. ASSUME NEW g \in Groups, RequestDelete(a, g) PROVE TypeOK'
    BY <2>8 DEF RequestDelete, Goto, reload, bounds, Rows
  <2>9. CASE CommitDelete(a)
    BY <2>9 DEF CommitDelete, Goto, reload, history, bounds
  <2>10. CASE NotFound(a)
    BY <2>10 DEF NotFound, Goto, reload, history, bounds
  <2>11. CASE Abandon(a)
    <3>1. row[a] \in Rows
      BY <2>11 DEF Abandon, Shape
    <3>2. QED
      BY <2>11, <3>1 DEF Abandon, bounds
  <2>12. QED
    BY <1>1, <2>1, <2>2, <2>3, <2>4, <2>5, <2>6, <2>7, <2>8, <2>9, <2>10, <2>11 DEF Edit, Rows
<1>2. ASSUME NEW t \in Tasks, TakeReloadLock(t) PROVE TypeOK'
  BY <1>2 DEF TakeReloadLock, bounds
<1>3. ASSUME NEW t \in Tasks, Load(t) PROVE TypeOK'
  <2>1. EditOf(t) \subseteq Rows
    BY <1>3 DEF EditOf, Load, LoadFails, InstallSnapshot, ReadProfiles, ReadUsers, ReadGroups,
                InstallRegistry, Select, Shape
  <2>2. ASSUME NEW from, NEW table, NEW to \in {"users", "registry", "snapshot"}, Select(t, from, table, to)
        PROVE TypeOK'
    BY <2>2 DEF Select, history, bounds
  <2>3. CASE InstallRegistry(t)
    BY <2>3 DEF InstallRegistry, Installed, history, bounds
  <2>4. CASE InstallSnapshot(t)
    BY <2>4 DEF InstallSnapshot, Installed, Leave, bounds
  <2>5. CASE LoadFails(t)
    BY <2>1, <2>5 DEF LoadFails, Leave
  <2>6. QED
    BY <1>3, <2>2, <2>3, <2>4, <2>5 DEF Load, ReadProfiles, ReadUsers, ReadGroups
<1>4. CASE UNCHANGED vars
  BY <1>4 DEF vars, reload, history, bounds
<1>5. QED
  BY <1>1, <1>2, <1>3, <1>4 DEF Next

-----------------------------------------------------------------------------
LEMMA ShapeStep == TypeOK /\ Shape /\ [Next]_vars => Shape'
<1> SUFFICES ASSUME TypeOK, Shape, [Next]_vars PROVE Shape'
  OBVIOUS
<1> USE ConfigAssumption DEF TypeOK, Shape, Groupwise, history
<1>1. ASSUME NEW a \in Admins, Edit(a) PROVE Shape'
  <2>1. ASSUME NEW r \in Profiles, Request(a, "limits", r) PROVE Shape'
    BY <2>1 DEF Request, Goto, reload, Rows
  <2>2. ASSUME NEW r \in Users, Request(a, "move", r) PROVE Shape'
    BY <2>2 DEF Request, Goto, reload, Rows
  <2>3. ASSUME NEW r \in Groups, NEW k \in {"toggle", "members"}, Request(a, k, r) PROVE Shape'
    BY <2>3 DEF Request, Goto, reload, Rows
  <2>4. CASE CommitLimits(a)
    BY <2>4 DEF CommitLimits, Goto, Write, reload, Gone, Rows
  <2>5. CASE CommitMove(a)
    BY <2>5 DEF CommitMove, Goto, Write, reload, Gone, Rows
  <2>6. CASE SetUsersProfile(a)
    BY <2>6 DEF SetUsersProfile, Goto, reload
  <2>7. CASE CommitToggle(a)
    BY <2>7 DEF CommitToggle, Goto, Write, reload, Rows
  <2>8. CASE CommitMembers(a)
    BY <2>8 DEF CommitMembers, Goto, Write, reload, Rows
  <2>9. CASE InvalidateGroup(a)
    BY <2>9 DEF InvalidateGroup, Goto, reload
  <2>10. ASSUME NEW g \in Groups, RequestDelete(a, g) PROVE Shape'
    BY <2>10 DEF RequestDelete, Goto, reload, Rows
  <2>11. CASE CommitDelete(a)
    BY <2>11 DEF CommitDelete, Goto, reload, Rows
  <2>12. CASE NotFound(a)
    BY <2>12 DEF NotFound, Goto, reload
  <2>13. CASE Abandon(a)
    BY <2>13 DEF Abandon, Tasks
  <2>14. QED
    BY <1>1, <2>1, <2>2, <2>3, <2>4, <2>5, <2>6, <2>7, <2>8, <2>9, <2>10, <2>11, <2>12, <2>13
       DEF Edit
<1>2. ASSUME NEW t \in Tasks, TakeReloadLock(t) PROVE Shape'
  BY <1>2 DEF TakeReloadLock, Tasks
<1>3. ASSUME NEW t \in Tasks, Load(t) PROVE Shape'
  <2>1. ASSUME NEW from, NEW table, NEW to \in {"users", "registry", "snapshot"}, Select(t, from, table, to)
        PROVE Shape'
    BY <2>1 DEF Select, Tasks
  <2>2. CASE InstallRegistry(t)
    BY <2>2 DEF InstallRegistry, Tasks
  <2>3. CASE InstallSnapshot(t)
    BY <2>3 DEF InstallSnapshot, Leave, Tasks
  <2>4. CASE LoadFails(t)
    BY <2>4 DEF LoadFails, Leave, Tasks
  <2>5. QED
    BY <1>3, <2>1, <2>2, <2>3, <2>4 DEF Load, ReadProfiles, ReadUsers, ReadGroups
<1>4. CASE UNCHANGED vars
  BY <1>4 DEF vars, reload
<1>5. QED
  BY <1>1, <1>2, <1>3, <1>4 DEF Next

-----------------------------------------------------------------------------
\* What an edit of row x does to the others: nothing is unsettled unless x is.
LEMMA EditKeeps ==
    ASSUME IInv, NEW x \in Rows,
           UNCHANGED <<loading, stage, read, missed, since>>,
           \A r \in Rows \ {x} : db'[r] = db[r] /\ live'[r] = live[r],
           \A r \in Rows \ {x} : EditedByOthers(r) => EditedByOthers(r)',
           \A r \in Rows \ {x} : BeingEdited(r) => BeingEdited(r)',
           EditedByOthers(x)', BeingEdited(x)'
    PROVE  Selected' /\ Settled'
<1>1. Selected'
  BY DEF IInv, Selected, Steady
<1>2. Settled'
  BY DEF IInv, Settled
<1>3. QED
  BY <1>1, <1>2

LEMMA EditStep == ASSUME IInv, NEW a \in Admins, Edit(a) PROVE Selected' /\ Settled'
<1> USE ConfigAssumption DEF IInv, TypeOK, Shape
<1>1. ASSUME NEW k \in {"limits", "move", "toggle", "members"}, NEW r \in Rows, Request(a, k, r)
      PROVE  Selected' /\ Settled'
  <2>1. /\ pc[a] = "idle" /\ pc' = [pc EXCEPT ![a] = k] /\ row' = [row EXCEPT ![a] = r]
        /\ UNCHANGED <<db, live, loading, stage, read, missed, since>>
    BY <1>1 DEF Request, Goto, reload, history
  <2>2. \A q \in Rows, b \in Admins : InEffect(b, q)' <=> InEffect(b, q)
    BY <2>1 DEF InEffect
  <2>3. QED
    BY <2>1, <2>2 DEF Selected, Settled, Steady, EditedByOthers, BeingEdited
<1>2. ASSUME pc[a] \in {"limits", "move", "toggle", "members", "invalidate", "patch"},
             pc'[a] \in {"patch", "invalidate", "reload"},
             pc' = [pc EXCEPT ![a] = pc'[a]],
             \A r \in Rows \ {row[a]} : db'[r] = db[r] /\ live'[r] = live[r],
             UNCHANGED <<row, loading, stage, read, missed, since>>
      PROVE  Selected' /\ Settled'
  <2>1. row[a] \in Rows /\ a # loading
    BY <1>2 DEF Rows
  <2>2. \A r \in Rows \ {row[a]}, b \in Admins : InEffect(b, r)' <=> InEffect(b, r)
    BY <1>2 DEF InEffect
  <2>3. InEffect(a, row[a])'
    BY <1>2 DEF InEffect
  <2>4. QED
    BY <1>2, <2>1, <2>2, <2>3, EditKeeps DEF EditedByOthers, BeingEdited
<1>3. CASE CommitLimits(a)
  BY <1>2, <1>3 DEF CommitLimits, Goto, Write, reload, history
<1>4. CASE CommitMove(a)
  BY <1>2, <1>4 DEF CommitMove, Goto, Write, reload, history
<1>5. CASE SetUsersProfile(a)
  BY <1>2, <1>5 DEF SetUsersProfile, Goto, reload, history
<1>6. CASE CommitToggle(a)
  BY <1>2, <1>6 DEF CommitToggle, Goto, Write, reload
<1>7. CASE CommitMembers(a)
  BY <1>2, <1>7 DEF CommitMembers, Goto, Write, reload, history
<1>8. CASE InvalidateGroup(a)
  BY <1>2, <1>8 DEF InvalidateGroup, Goto, reload, history
<1>9. ASSUME NEW g \in Groups, RequestDelete(a, g) PROVE Selected' /\ Settled'
  <2>1. /\ pc[a] = "idle" /\ pc' = [pc EXCEPT ![a] = "delete"] /\ row' = [row EXCEPT ![a] = g]
        /\ live' = [live EXCEPT ![g] = Gone]
        /\ UNCHANGED <<db, loading, stage, read, missed, since>>
    BY <1>9 DEF RequestDelete, Goto, reload
  <2>2. a # loading /\ g \in Rows /\ g \notin Profiles \cup Users
    BY <2>1 DEF Rows
  <2>3. \A q \in Rows, b \in Admins : InEffect(b, q) => InEffect(b, q)'
    BY <2>1 DEF InEffect
  <2>4. db[g] # Gone => InEffect(a, g)'
    BY <2>1 DEF InEffect
  <2>5. Selected'
    BY <2>1, <2>2, <2>3 DEF Selected, Steady, EditedByOthers
  <2>6. Settled'
    BY <2>1, <2>2, <2>3, <2>4 DEF Settled, BeingEdited
  <2>7. QED
    BY <2>5, <2>6
<1>10. CASE CommitDelete(a)
  <2>1. /\ pc[a] = "delete" /\ pc' = [pc EXCEPT ![a] = "reload"] /\ row' = row
        /\ db' = [db EXCEPT ![row[a]] = Gone]
        /\ UNCHANGED <<live, loading, stage, read, missed, since>>
    BY <1>10 DEF CommitDelete, Goto, reload, history
  <2>2. row[a] \in Rows /\ a # loading
    BY <2>1 DEF Rows, Groupwise
  <2>3. \A r \in Rows \ {row[a]}, b \in Admins : InEffect(b, r)' <=> InEffect(b, r)
    BY <2>1 DEF InEffect
  <2>4. InEffect(a, row[a])'
    BY <2>1 DEF InEffect
  <2>5. QED
    BY <2>1, <2>2, <2>3, <2>4, EditKeeps DEF EditedByOthers, BeingEdited
<1>11. CASE NotFound(a)
  <2>1. /\ pc[a] \in {"toggle", "members", "delete"} /\ db[row[a]] = Gone
        /\ pc' = [pc EXCEPT ![a] = "idle"] /\ row' = [row EXCEPT ![a] = NoRow]
        /\ UNCHANGED <<db, live, loading, stage, read, missed, since>>
    BY <1>11 DEF NotFound, Goto, reload, history
  <2>2. \A q \in Rows, b \in Admins : InEffect(b, q)' <=> InEffect(b, q)
    BY <2>1 DEF InEffect
  <2>3. QED
    BY <2>1, <2>2 DEF Selected, Settled, Steady, EditedByOthers, BeingEdited
<1>12. CASE Abandon(a)
  <2>1. /\ pc[a] # "idle"
        /\ pc' = [pc EXCEPT ![a] = "idle"] /\ row' = [row EXCEPT ![a] = NoRow]
        /\ missed' = missed \cup {row[a]} /\ since' = since \cup {row[a]}
        /\ UNCHANGED <<db, live, read>>
        /\ loading = a => loading' = NoTask /\ stage' = "idle"
        /\ loading # a => UNCHANGED <<loading, stage>>
    BY <1>12 DEF Abandon
  <2>2. \A r \in Rows \ {row[a]}, b \in Admins : InEffect(b, r)' <=> InEffect(b, r)
    BY <2>1 DEF InEffect
  <2>3. Selected'
    BY <2>1, <2>2 DEF Selected, Steady, EditedByOthers
  <2>4. Settled'
    BY <2>1, <2>2 DEF Settled, BeingEdited
  <2>5. QED
    BY <2>3, <2>4
<1>13. QED
  BY <1>1, <1>3, <1>4, <1>5, <1>6, <1>7, <1>8, <1>9, <1>10, <1>11, <1>12 DEF Edit, Rows

LEMMA LoadStep ==
    ASSUME IInv, NEW t \in Tasks, TakeReloadLock(t) \/ Load(t)
    PROVE  Selected' /\ Settled'
<1> USE ConfigAssumption DEF IInv, TypeOK, Shape
<1>1. CASE TakeReloadLock(t)
  BY <1>1 DEF TakeReloadLock, Selected, Settled, BeingEdited, InEffect
<1>2. ASSUME NEW from \in {"profiles", "users", "groups"}, NEW table \in SUBSET Rows,
             NEW to \in {"users", "registry", "snapshot"},
             Select(t, from, table, to),
             \/ from = "profiles" /\ table = Profiles /\ to = "users"
             \/ from = "users" /\ table = Users /\ to = "registry"
             \/ from = "groups" /\ table = Groups /\ to = "snapshot"
      PROVE  Selected' /\ Settled'
  <2>1. /\ stage = from /\ stage' = to
        /\ read' = [r \in Rows |-> IF r \in table THEN db[r] ELSE read[r]]
        /\ UNCHANGED <<db, live, pc, row, loading, missed, since>>
    BY <1>2 DEF Select, history
  <2>2. \A r \in Rows : Steady(r)' => Steady(r)
    BY <2>1 DEF Steady, EditedByOthers, InEffect
  <2>3. Selected'
    BY <1>2, <2>1, <2>2 DEF Selected
  <2>4. Settled'
    BY <2>1 DEF Settled, BeingEdited, InEffect
  <2>5. QED
    BY <2>3, <2>4
<1>3. CASE InstallRegistry(t)
  <2>1. /\ stage = "registry" /\ stage' = "groups"
        /\ live' = [r \in Rows |-> IF r \in Profiles \cup Users THEN read[r] ELSE live[r]]
        /\ UNCHANGED <<db, pc, row, loading, read, missed, since>>
    BY <1>3 DEF InstallRegistry, Installed, history
  <2>2. \A r \in Rows : Steady(r)' <=> Steady(r)
    BY <2>1 DEF Steady, EditedByOthers, InEffect
  <2>3. \A r \in Rows : BeingEdited(r)' <=> BeingEdited(r)
    BY <2>1 DEF BeingEdited, InEffect
  <2>4. \A r \in Rows : ~ BeingEdited(r) /\ r \notin missed => Steady(r)
    BY DEF BeingEdited, Steady, EditedByOthers
  <2>5. Selected'
    BY <2>1, <2>2 DEF Selected
  <2>6. Settled'
    BY <2>1, <2>3, <2>4 DEF Settled, Selected
  <2>7. QED
    BY <2>5, <2>6
<1>4. CASE InstallSnapshot(t)
  <2>1. /\ loading = t /\ stage = "snapshot" /\ stage' = "idle"
        /\ live' = [r \in Rows |-> IF r \in Groups THEN read[r] ELSE live[r]]
        /\ pc' = [a \in Admins |-> IF a = t THEN "idle" ELSE pc[a]]
        /\ row' = [a \in Admins |-> IF a = t THEN NoRow ELSE row[a]]
        /\ missed' = since /\ db' = db
    BY <1>4 DEF InstallSnapshot, Installed, Leave
  <2>2. \A r \in Rows : EditedByOthers(r) => BeingEdited(r)'
    BY <2>1 DEF EditedByOthers, BeingEdited, InEffect
  <2>3. Settled'
    BY <2>1, <2>2 DEF Settled, Selected, Steady, Rows
  <2>4. Selected'
    BY <2>1 DEF Selected
  <2>5. QED
    BY <2>3, <2>4
<1>5. CASE LoadFails(t)
  <2>1. /\ loading = t /\ stage' = "idle"
        /\ pc' = [a \in Admins |-> IF a = t THEN "idle" ELSE pc[a]]
        /\ row' = [a \in Admins |-> IF a = t THEN NoRow ELSE row[a]]
        /\ missed' = missed \cup EditOf(t) /\ UNCHANGED <<db, live>>
    BY <1>5 DEF LoadFails, Leave
  <2>2. \A r \in Rows : BeingEdited(r) /\ r \notin EditOf(t) => BeingEdited(r)'
    BY <2>1 DEF BeingEdited, InEffect, EditOf
  <2>3. Settled'
    BY <2>1, <2>2 DEF Settled
  <2>4. Selected'
    BY <2>1 DEF Selected
  <2>5. QED
    BY <2>3, <2>4
<1>6. CASE ReadProfiles(t)
  <2>1. Select(t, "profiles", Profiles, "users") /\ Profiles \in SUBSET Rows
    BY <1>6 DEF ReadProfiles, Rows
  <2>2. QED
    BY <1>2, <2>1
<1>7. CASE ReadUsers(t)
  <2>1. Select(t, "users", Users, "registry") /\ Users \in SUBSET Rows
    BY <1>7 DEF ReadUsers, Rows
  <2>2. QED
    BY <1>2, <2>1
<1>8. CASE ReadGroups(t)
  <2>1. Select(t, "groups", Groups, "snapshot") /\ Groups \in SUBSET Rows
    BY <1>8 DEF ReadGroups, Rows
  <2>2. QED
    BY <1>2, <2>1
<1>9. QED
  BY <1>1, <1>3, <1>4, <1>5, <1>6, <1>7, <1>8 DEF Load

LEMMA InvStep == IInv /\ [Next]_vars => IInv'
<1> SUFFICES ASSUME IInv, [Next]_vars PROVE IInv'
  OBVIOUS
<1>1. TypeOK' /\ Shape'
  BY TypeStep, ShapeStep DEF IInv
<1>2. Selected' /\ Settled'
  <2>1. CASE UNCHANGED vars
    BY <2>1 DEF vars, reload, history, IInv, Selected, Settled, Steady, EditedByOthers, BeingEdited, InEffect
  <2>2. QED
    BY <2>1, EditStep, LoadStep DEF Next
<1>3. QED
  BY <1>1, <1>2 DEF IInv

LEMMA Inductive == Spec => []IInv
BY InitInv, InvStep, PTL DEF Spec

\* Every variable keeps its shape, for any numbers of rows and admins.
THEOREM TypeCorrect == Spec => []TypeOK
<1>1. IInv => TypeOK
  BY DEF IInv
<1>2. QED
  BY <1>1, Inductive, PTL

\* Once its edits have been answered, a row is enforced as it was committed:
\* no reload that began earlier brings the old one back.
THEOREM EditsSettle == Spec => []Settled
<1>1. IInv => Settled
  BY DEF IInv
<1>2. QED
  BY <1>1, Inductive, PTL

-----------------------------------------------------------------------------
(* AuthCache.  OutdatedOnlyByRace is not inductive: an entry whose edit has *)
(* committed must still be one that edit will drop, which for a name is     *)
(* that it was renamed from that very name (RenamedFrom), whatever was      *)
(* renamed, deleted or given the id since; and what is being deleted must   *)
(* have no unraced entry, or it would outlive the commit (KeyHolds,         *)
(* NameHolds).                                                              *)

\* Who is about to drop the entries of account i: editors that have renamed it (from n)
\* or switched it off.
Renamed(i) == \E e \in Editors : changes[e].ph = "committed" /\ changes[e].kind = "rename" /\ changes[e].id = i
RenamedFrom(n, i) == \E e \in Editors :
    changes[e].ph = "committed" /\ changes[e].kind = "rename" /\ changes[e].id = i /\ changes[e].old = n
SwitchedOff(i) == \E e \in Editors : changes[e].ph = "committed" /\ changes[e].kind = "off" /\ i \in changes[e].ids

\* The records of an edit, of a request and of the loop fit where each is.
EditShape ==
    /\ changes = [e \in Editors |-> changes[e]]
    /\ \A e \in Editors :
          /\ changes[e].ph \in {"idle", "invalidated", "committed", "again", "insert"}
          /\ changes[e].ph \in {"insert", "again"} => changes[e].id \in Ids
          /\ changes[e].ph = "invalidated" =>
                \/ changes[e].kind = "key" /\ changes[e].key \in ApiKeys
                \/ changes[e].kind = "delete" /\ changes[e].id \in Ids
          /\ changes[e].ph = "committed" =>
                \/ changes[e].kind = "off" /\ changes[e].ids \subseteq Ids
                \/ /\ changes[e].kind = "rename" /\ changes[e].id \in Ids
                   /\ changes[e].old \in Names /\ changes[e].new \in Names

RequestShape ==
    /\ reqs = [r \in Reqs |-> reqs[r]]
    /\ \A r \in Reqs :
          /\ reqs[r].ph \in {"idle", "jwt", "jwtRow", "key", "keyRow", "ownerRow"}
          /\ reqs[r].ph \in {"jwt", "jwtRow"} => reqs[r].name \in Names
          /\ reqs[r].ph = "jwtRow" => reqs[r].id \in Ids
          /\ reqs[r].ph \in {"key", "keyRow", "ownerRow"} => reqs[r].key \in ApiKeys
          /\ reqs[r].ph \in {"keyRow", "ownerRow"} => reqs[r].owner \in Ids
          /\ reqs[r].ph = "ownerRow" => reqs[r].label \in Names \cup {None}

Phase == {"asleep", "flush", "refresh", "keysRead", "usersDue", "usersRead", "stopped"}
LoopShape ==
    /\ loop \in [ph : Phase, batch : SUBSET ApiKeys, ks : SUBSET ApiKeys, ns : SUBSET Names,
                 ok : SUBSET (ApiKeys \cup Names)]
    /\ loop.ph # "flush" => loop.batch = {}

\* What an entry that no race touched says is so, but for an edit that has committed and
\* is about to drop the entry; nor is what it says about to be deleted.
KeyHolds(k, o, label) ==
    /\ apiKeys[k] # None /\ apiKeys[k].active /\ apiKeys[k].owner = o
    /\ ~Auth!KeyGoing(k)
    /\ users[o] # None
    /\ users[o].active \/ SwitchedOff(o)
    /\ label = users[o].name \/ Renamed(o)

NameHolds(n, i) ==
    \/ RenamedFrom(n, i)
    \/ /\ users[i] # None /\ users[i].name = n
       /\ ~Auth!NameGoing(i)
       /\ users[i].active \/ SwitchedOff(i)

KeysTrue ==
    \A k \in ApiKeys : keyCache[k] # None /\ ~keyCache[k].raced =>
        KeyHolds(k, keyCache[k].owner, keyCache[k].label)

NamesTrue ==
    \A n \in Names : userCache[n] # None /\ ~userCache[n].raced => NameHolds(n, userCache[n].id)

Shapes == Auth!TypeOK /\ EditShape /\ RequestShape /\ LoopShape
CacheInv == Shapes /\ KeysTrue /\ NamesTrue /\ Auth!UsesAreKept

-----------------------------------------------------------------------------
\* What each kind of step leaves alone.
LEMMA RequestFrame ==
  ASSUME NEW r \in Reqs, Auth!Authenticate(r)
  PROVE  UNCHANGED <<users, apiKeys, changes, loop, made>>
  BY DEF Auth!Authenticate, Auth!PresentSession, Auth!ReadUser, Auth!CacheUser, Auth!PresentKey, Auth!ReadKey,
     Auth!ReadOwner, Auth!CacheKey, Auth!accounts, Auth!caches

LEMMA EditFrame ==
  ASSUME NEW e \in Editors, Auth!Edit(e)
  PROVE  UNCHANGED <<reqs, loop>>
  BY DEF Auth!Edit, Auth!Proceed, Auth!Register, Auth!CommitRename, Auth!BeginKey, Auth!EvictUser, Auth!CommitActive,
     Auth!EvictKey, Auth!InsertKey, Auth!InsertFails, Auth!SwitchKeyOff, Auth!DropDeactivated, Auth!DropRenamed,
     Auth!DropModified, Auth!DeleteUser, Auth!accounts, Auth!caches

LoopSteps == Auth!LoopStep \/ Auth!WriteFails \/ Auth!RefreshFails \/ Auth!Stop \/ Auth!Expire

LEMMA LoopFrame ==
  ASSUME Shapes, LoopSteps
  PROVE  /\ UNCHANGED <<users, apiKeys, reqs, changes, made>>
         /\ \A k \in ApiKeys : keyCache'[k] \in {keyCache[k], None}
         /\ \A n \in Names : userCache'[n] \in {userCache[n], None}
         /\ keyCache' = [k \in ApiKeys |-> keyCache'[k]] /\ userCache' = [n \in Names |-> userCache'[n]]
<1> USE DEF Shapes, Auth!TypeOK, Auth!accounts, Auth!caches, Auth!NotCached
<1>1. CASE Auth!TakeBatch
  BY <1>1 DEF Auth!TakeBatch
<1>2. CASE Auth!WriteLastUsed
  BY <1>2 DEF Auth!WriteLastUsed
<1>3. CASE Auth!ReadKeys
  BY <1>3 DEF Auth!ReadKeys
<1>4. CASE Auth!DropInvalidKeys
  BY <1>4 DEF Auth!DropInvalidKeys
<1>5. CASE Auth!ReadUsers
  BY <1>5 DEF Auth!ReadUsers
<1>6. CASE Auth!DropInvalidUsers
  BY <1>6 DEF Auth!DropInvalidUsers
<1>7. CASE Auth!WriteFails
  BY <1>7 DEF Auth!WriteFails
<1>8. CASE Auth!RefreshFails
  BY <1>8 DEF Auth!RefreshFails
<1>9. CASE Auth!Stop
  BY <1>9 DEF Auth!Stop
<1>10. CASE Auth!Expire
  BY <1>10 DEF Auth!Expire
<1> QED
  BY <1>1, <1>2, <1>3, <1>4, <1>5, <1>6, <1>7, <1>8, <1>9, <1>10 DEF LoopSteps, Auth!LoopStep

LEMMA RequestShapes ==
  ASSUME Shapes, NEW r \in Reqs, Auth!Authenticate(r)
  PROVE  RequestShape'
<1> USE CacheParameters DEF Auth!Parameters, Shapes, RequestShape, Auth!Idle, Auth!NotCached, Auth!TypeOK, Auth!Row
<1>1. ASSUME NEW n \in Names, Auth!PresentSession(r, n) PROVE RequestShape'
  BY <1>1 DEF Auth!PresentSession
<1>2. CASE Auth!ReadUser(r)
  BY <1>2 DEF Auth!ReadUser, Auth!IsActive
<1>3. CASE Auth!CacheUser(r)
  BY <1>3 DEF Auth!CacheUser
<1>4. ASSUME NEW k \in ApiKeys, Auth!PresentKey(r, k) PROVE RequestShape'
  BY <1>4 DEF Auth!PresentKey
<1>5. CASE Auth!ReadKey(r)
  BY <1>5 DEF Auth!ReadKey, Auth!KeyUsable, Auth!IsActive
<1>6. CASE Auth!ReadOwner(r)
  BY <1>6 DEF Auth!ReadOwner, Auth!NameOf
<1>7. CASE Auth!CacheKey(r)
  BY <1>7 DEF Auth!CacheKey
<1> QED
  BY Auth!Authenticate(r), <1>1, <1>2, <1>3, <1>4, <1>5, <1>6, <1>7 DEF Auth!Authenticate

LEMMA EditShapes ==
  ASSUME Shapes, NEW e \in Editors, Auth!Edit(e)
  PROVE  EditShape'
<1> USE CacheParameters DEF Auth!Parameters, Shapes, EditShape, Auth!Idle, Auth!NotCached, Auth!TypeOK, Auth!Row, Auth!Begin
<1>1. ASSUME NEW i \in Ids, NEW n \in Names, Auth!Register(e, i, n) PROVE EditShape'
  BY <1>1 DEF Auth!Register, Auth!NameTaken, Auth!NameOf
<1>2. ASSUME NEW i \in Ids, NEW n \in Names, Auth!CommitRename(e, i, n) PROVE EditShape'
  BY <1>2 DEF Auth!CommitRename
<1>3. ASSUME NEW i \in Ids, Auth!BeginKey(e, i) PROVE EditShape'
  BY <1>3 DEF Auth!BeginKey, Auth!IsActive
<1>4. ASSUME NEW i \in Ids, Auth!EvictUser(e, i) PROVE EditShape'
  BY <1>4 DEF Auth!EvictUser, Auth!DropKeysOf, Auth!KeysOf
<1>5. ASSUME NEW S \in (SUBSET Ids) \ {{}}, NEW active \in BOOLEAN, Auth!CommitActive(e, S, active) PROVE EditShape'
  BY <1>5 DEF Auth!CommitActive
<1>6. ASSUME NEW k \in ApiKeys, Auth!EvictKey(e, k) PROVE EditShape'
  BY <1>6 DEF Auth!EvictKey
<1>7. CASE Auth!InsertKey(e)
  BY <1>7 DEF Auth!InsertKey
<1>8. CASE Auth!InsertFails(e)
  BY <1>8 DEF Auth!InsertFails
<1>9. CASE Auth!SwitchKeyOff(e)
  BY <1>9 DEF Auth!SwitchKeyOff, Auth!Deleting
<1>10. CASE Auth!DropDeactivated(e)
  BY <1>10 DEF Auth!DropDeactivated, Auth!DropKeysOf, Auth!KeysOf
<1>11. CASE Auth!DropRenamed(e)
  BY <1>11 DEF Auth!DropRenamed, Auth!DropKeysOf, Auth!KeysOf
<1>12. CASE Auth!DropModified(e)
  BY <1>12 DEF Auth!DropModified, Auth!DropKeysOf, Auth!KeysOf
<1>13. CASE Auth!DeleteUser(e)
  BY <1>13 DEF Auth!DeleteUser, Auth!Deleting
<1> QED
  BY Auth!Edit(e), <1>1, <1>2, <1>3, <1>4, <1>5, <1>6, <1>7, <1>8, <1>9, <1>10, <1>11, <1>12, <1>13 DEF Auth!Edit, Auth!Proceed

LEMMA LoopShapes ==
  ASSUME Shapes, Auth!UsesAreKept, LoopSteps
  PROVE  LoopShape' /\ Auth!UsesAreKept' /\ toUpdate' \subseteq ApiKeys /\ owed' \subseteq ApiKeys
<1> USE DEF Shapes, LoopShape, Phase, Auth!UsesAreKept, Auth!TypeOK, Auth!Asleep
<1>1. CASE Auth!TakeBatch
  BY <1>1 DEF Auth!TakeBatch
<1>2. CASE Auth!WriteLastUsed
  BY <1>2 DEF Auth!WriteLastUsed
<1>3. CASE Auth!ReadKeys
  BY <1>3 DEF Auth!ReadKeys
<1>4. CASE Auth!DropInvalidKeys
  BY <1>4 DEF Auth!DropInvalidKeys
<1>5. CASE Auth!ReadUsers
  BY <1>5 DEF Auth!ReadUsers
<1>6. CASE Auth!DropInvalidUsers
  BY <1>6 DEF Auth!DropInvalidUsers
<1>7. CASE Auth!WriteFails
  BY <1>7 DEF Auth!WriteFails
<1>8. CASE Auth!RefreshFails
  BY <1>8 DEF Auth!RefreshFails
<1>9. CASE Auth!Stop
  BY <1>9 DEF Auth!Stop
<1>10. CASE Auth!Expire
  BY <1>10 DEF Auth!Expire
<1> QED
  BY <1>1, <1>2, <1>3, <1>4, <1>5, <1>6, <1>7, <1>8, <1>9, <1>10 DEF LoopSteps, Auth!LoopStep

-----------------------------------------------------------------------------
KeyEntry == [owner : Ids, label : Names \cup {None}, raced : BOOLEAN]
NameEntry == [id : Ids, raced : BOOLEAN]
Tables ==
    /\ users \in [Ids -> Auth!Row \cup {None}]
    /\ apiKeys \in [ApiKeys -> [owner : Ids, active : BOOLEAN] \cup {None}]
    /\ keyCache \in [ApiKeys -> KeyEntry \cup {None}]
    /\ userCache \in [Names -> NameEntry \cup {None}]
    /\ made \in 0..MaxOps
    /\ toUpdate \subseteq ApiKeys /\ owed \subseteq ApiKeys

\* A second entry of an id is not dropped, but counts as raced from then on.
LEMMA UsersDropped ==
  ASSUME Shapes, NEW S \in SUBSET Ids, Auth!DropUsersOf(S)
  PROVE  /\ userCache' \in [Names -> NameEntry \cup {None}]
         /\ \A n \in Names :
               \/ userCache'[n] = None
               \/ userCache'[n] = userCache[n] /\ userCache[n].id \notin S
               \/ userCache'[n].raced
<1>1. PICK gone \in SUBSET Names :
        userCache' = [n \in Names |->
            IF n \in gone THEN None
            ELSE IF userCache[n] # None /\ userCache[n].id \in S THEN [userCache[n] EXCEPT !.raced = TRUE]
            ELSE userCache[n]]
  BY DEF Auth!DropUsersOf, Auth!NotCached
<1>2. userCache \in [Names -> NameEntry \cup {None}]
  BY DEF Shapes, Auth!TypeOK, NameEntry
<1> QED
  BY <1>1, <1>2 DEF NameEntry

LEMMA RequestTables ==
  ASSUME Shapes, NEW r \in Reqs, Auth!Authenticate(r)
  PROVE  Tables'
<1> USE CacheParameters DEF Auth!Parameters, Shapes, RequestShape, Auth!TypeOK, Auth!accounts, Auth!caches, Auth!NotCached, Tables, KeyEntry, NameEntry
<1>1. ASSUME NEW n \in Names, Auth!PresentSession(r, n) PROVE Tables'
  BY <1>1 DEF Auth!PresentSession
<1>2. CASE Auth!ReadUser(r)
  BY <1>2 DEF Auth!ReadUser, Auth!IsActive
<1>3. CASE Auth!CacheUser(r)
  BY <1>3 DEF Auth!CacheUser
<1>4. ASSUME NEW k \in ApiKeys, Auth!PresentKey(r, k) PROVE Tables'
  BY <1>4 DEF Auth!PresentKey
<1>5. CASE Auth!ReadKey(r)
  BY <1>5 DEF Auth!ReadKey, Auth!KeyUsable, Auth!IsActive
<1>6. CASE Auth!ReadOwner(r)
  BY <1>6 DEF Auth!ReadOwner, Auth!NameOf
<1>7. CASE Auth!CacheKey(r)
  BY <1>7 DEF Auth!CacheKey
<1> QED
  BY Auth!Authenticate(r), <1>1, <1>2, <1>3, <1>4, <1>5, <1>6, <1>7 DEF Auth!Authenticate

LEMMA EditTables ==
  ASSUME Shapes, NEW e \in Editors, Auth!Edit(e)
  PROVE  Tables'
<1> USE CacheParameters DEF Auth!Parameters, Shapes, EditShape, Auth!TypeOK, Auth!accounts, Auth!caches, Auth!NotCached, Auth!Begin, Auth!Row, Tables, KeyEntry, NameEntry
<1>1. ASSUME NEW i \in Ids, NEW n \in Names, Auth!Register(e, i, n) PROVE Tables'
  BY <1>1 DEF Auth!Register, Auth!NameTaken, Auth!NameOf
<1>2. ASSUME NEW i \in Ids, NEW n \in Names, Auth!CommitRename(e, i, n) PROVE Tables'
  BY <1>2 DEF Auth!CommitRename
<1>3. ASSUME NEW i \in Ids, Auth!BeginKey(e, i) PROVE Tables'
  BY <1>3 DEF Auth!BeginKey, Auth!IsActive
<1>4. ASSUME NEW i \in Ids, Auth!EvictUser(e, i) PROVE Tables'
  BY <1>4 DEF Auth!EvictUser, Auth!DropKeysOf, Auth!KeysOf
<1>5. ASSUME NEW S \in (SUBSET Ids) \ {{}}, NEW active \in BOOLEAN, Auth!CommitActive(e, S, active) PROVE Tables'
  BY <1>5 DEF Auth!CommitActive
<1>6. ASSUME NEW k \in ApiKeys, Auth!EvictKey(e, k) PROVE Tables'
  BY <1>6 DEF Auth!EvictKey
<1>7. CASE Auth!InsertKey(e)
  BY <1>7 DEF Auth!InsertKey
<1>8. CASE Auth!InsertFails(e)
  BY <1>8 DEF Auth!InsertFails
<1>9. CASE Auth!SwitchKeyOff(e)
  BY <1>9 DEF Auth!SwitchKeyOff, Auth!Deleting
<1>10. CASE Auth!DropDeactivated(e)
  BY <1>10, UsersDropped DEF Auth!DropDeactivated, Auth!DropKeysOf, Auth!KeysOf
<1>11. CASE Auth!DropRenamed(e)
  BY <1>11 DEF Auth!DropRenamed, Auth!DropKeysOf, Auth!KeysOf
<1>12. CASE Auth!DropModified(e)
  BY <1>12, UsersDropped DEF Auth!DropModified, Auth!DropKeysOf, Auth!KeysOf
<1>13. CASE Auth!DeleteUser(e)
  BY <1>13 DEF Auth!DeleteUser, Auth!Deleting
<1> QED
  BY Auth!Edit(e), <1>1, <1>2, <1>3, <1>4, <1>5, <1>6, <1>7, <1>8, <1>9, <1>10, <1>11, <1>12, <1>13 DEF Auth!Edit, Auth!Proceed

LEMMA ShapesStep == CacheInv /\ [Auth!Next]_authCache => Shapes'
<1> SUFFICES ASSUME CacheInv, [Auth!Next]_authCache PROVE Shapes'
  OBVIOUS
<1>1. Shapes /\ Auth!UsesAreKept
  BY DEF CacheInv
<1>2. Tables' /\ EditShape' /\ RequestShape' /\ LoopShape' => Shapes'
  BY DEF Tables, EditShape, RequestShape, LoopShape, Phase, KeyEntry, NameEntry, Shapes, Auth!TypeOK
<1>3. ASSUME NEW r \in Reqs, Auth!Authenticate(r) PROVE Shapes'
  <2>1. EditShape' /\ LoopShape'
    BY <1>1, <1>3, RequestFrame DEF Shapes, EditShape, LoopShape
  <2> QED
    BY <1>1, <1>2, <1>3, <2>1, RequestTables, RequestShapes
<1>4. ASSUME NEW e \in Editors, Auth!Edit(e) PROVE Shapes'
  <2>1. RequestShape' /\ LoopShape'
    BY <1>1, <1>4, EditFrame DEF Shapes, RequestShape, LoopShape
  <2> QED
    BY <1>1, <1>2, <1>4, <2>1, EditTables, EditShapes
<1>5. CASE LoopSteps
  <2>1. EditShape' /\ RequestShape'
    BY <1>1, <1>5, LoopFrame DEF Shapes, EditShape, RequestShape
  <2>2. Tables'
    <3>1. users' = users /\ apiKeys' = apiKeys /\ made' = made
      BY <1>1, <1>5, LoopFrame
    <3>2. keyCache' \in [ApiKeys -> KeyEntry \cup {None}]
      <4>1. keyCache \in [ApiKeys -> KeyEntry \cup {None}]
        BY <1>1 DEF Shapes, Auth!TypeOK, KeyEntry
      <4> QED
        BY <1>1, <1>5, <4>1, LoopFrame
    <3>3. userCache' \in [Names -> NameEntry \cup {None}]
      <4>1. userCache \in [Names -> NameEntry \cup {None}]
        BY <1>1 DEF Shapes, Auth!TypeOK, NameEntry
      <4> QED
        BY <1>1, <1>5, <4>1, LoopFrame
    <3>4. toUpdate' \subseteq ApiKeys /\ owed' \subseteq ApiKeys
      BY <1>1, <1>5, LoopShapes
    <3> QED
      BY <1>1, <3>1, <3>2, <3>3, <3>4 DEF Tables, Shapes, Auth!TypeOK
  <2> QED
    BY <1>1, <1>2, <1>5, <2>1, <2>2, LoopShapes
<1>6. CASE UNCHANGED authCache
  BY <1>1, <1>6 DEF authCache, Shapes, EditShape, RequestShape, LoopShape, Auth!TypeOK
<1> QED
  BY <1>3, <1>4, <1>5, <1>6 DEF Auth!Next, LoopSteps

-----------------------------------------------------------------------------
\* Dropping entries leaves what is said of the others true.
LEMMA KeysShrink ==
  ASSUME KeysTrue, UNCHANGED <<users, apiKeys, changes>>,
         \A k \in ApiKeys : keyCache'[k] \in {keyCache[k], None}
  PROVE  KeysTrue'
  BY DEF KeysTrue, KeyHolds, Renamed, SwitchedOff, Auth!KeyGoing, Auth!Deleting

LEMMA NamesShrink ==
  ASSUME NamesTrue, UNCHANGED <<users, changes>>,
         \A n \in Names : userCache'[n] \in {userCache[n], None}
  PROVE  NamesTrue'
  BY DEF NamesTrue, NameHolds, RenamedFrom, SwitchedOff, Auth!NameGoing, Auth!Deleting

\* What is cached while it says what the tables say, and nothing deletes it, is true.
LEMMA KeyCached ==
  ASSUME CacheInv, NEW r \in Reqs, Auth!CacheKey(r)
  PROVE  KeysTrue'
<1> DEFINE q == reqs[r].key
           entry == [owner |-> reqs[r].owner, label |-> reqs[r].label, raced |-> FALSE]
<1>1. q \in ApiKeys /\ keyCache \in [ApiKeys -> KeyEntry \cup {None}]
  BY DEF CacheInv, Shapes, Auth!TypeOK, RequestShape, Auth!CacheKey, KeyEntry
<1>2. keyCache' = [keyCache EXCEPT ![q] = [entry EXCEPT !.raced = ~Auth!KeyCurrent(q, entry) \/ Auth!KeyGoing(q)]]
  BY DEF Auth!CacheKey
<1>3. UNCHANGED <<users, apiKeys, changes>>
  BY DEF Auth!CacheKey, Auth!accounts
<1>4. keyCache'[q].owner = entry.owner /\ keyCache'[q].label = entry.label
      /\ keyCache'[q].raced = (~Auth!KeyCurrent(q, entry) \/ Auth!KeyGoing(q))
  BY <1>1, <1>2
<1>5. ASSUME NEW k \in ApiKeys, k # q PROVE keyCache'[k] = keyCache[k]
  BY <1>1, <1>2, <1>5
<1> HIDE DEF entry, q
<1>6. ~keyCache'[q].raced => /\ Auth!KeyUsable(q) /\ entry.owner = apiKeys[q].owner
                            /\ entry.label = Auth!NameOf(entry.owner) /\ ~Auth!KeyGoing(q)
  BY <1>4 DEF Auth!KeyCurrent
<1>7. KeysTrue
  BY DEF CacheInv
<1> QED
  BY <1>3, <1>4, <1>5, <1>6, <1>7 DEF KeysTrue, KeyHolds, Auth!KeyUsable, Auth!IsActive, Auth!NameOf, Auth!KeyGoing,
     Auth!Deleting, Renamed, SwitchedOff

LEMMA NoRowIsNone == \A n \in Names : [name |-> n, active |-> TRUE] # None
<1>1. \A n \in Names : [name |-> n, active |-> TRUE] \in [name : Names, active : BOOLEAN]
  OBVIOUS
<1> QED
  BY <1>1, CacheParameters DEF Auth!Parameters

LEMMA UserCached ==
  ASSUME CacheInv, NEW r \in Reqs, Auth!CacheUser(r)
  PROVE  NamesTrue'
<1> DEFINE m == reqs[r].name
           entry == [id |-> reqs[r].id, raced |-> FALSE]
<1>1. m \in Names /\ entry.id \in Ids /\ userCache \in [Names -> NameEntry \cup {None}]
  BY DEF CacheInv, Shapes, Auth!TypeOK, RequestShape, Auth!CacheUser, NameEntry
<1>2. userCache' = [userCache EXCEPT ![m] = [entry EXCEPT !.raced = ~Auth!UserCurrent(m, entry) \/ Auth!NameGoing(entry.id)]]
  BY DEF Auth!CacheUser
<1>3. UNCHANGED <<users, changes>>
  BY DEF Auth!CacheUser, Auth!accounts
<1>4. userCache'[m].id = entry.id
      /\ userCache'[m].raced = (~Auth!UserCurrent(m, entry) \/ Auth!NameGoing(entry.id))
  BY <1>1, <1>2
<1>5. ASSUME NEW n \in Names, n # m PROVE userCache'[n] = userCache[n]
  BY <1>1, <1>2, <1>5
<1>9. [name |-> m, active |-> TRUE] # None
  BY <1>1, NoRowIsNone
<1> HIDE DEF entry, m
<1>6. ~userCache'[m].raced => /\ users[entry.id] = [name |-> m, active |-> TRUE] /\ ~Auth!NameGoing(entry.id)
  BY <1>4 DEF Auth!UserCurrent
<1>8. NamesTrue
  BY DEF CacheInv
<1> QED
  BY <1>3, <1>4, <1>5, <1>6, <1>8, <1>9 DEF NamesTrue, NameHolds, Auth!NameGoing, Auth!Deleting, RenamedFrom, SwitchedOff

-----------------------------------------------------------------------------
\* An edit moves one editor; who else covers or deletes something still does.
LEMMA StillCovered ==
  ASSUME NEW e \in Editors, \A f \in Editors : f # e => changes'[f] = changes[f],
         changes[e].ph # "committed"
  PROVE  /\ \A i \in Ids : (Renamed(i) => Renamed(i)') /\ (SwitchedOff(i) => SwitchedOff(i)')
         /\ \A n \in Names, i \in Ids : RenamedFrom(n, i) => RenamedFrom(n, i)'
  BY DEF Renamed, SwitchedOff, RenamedFrom

LEMMA NoneElseGoes ==
  ASSUME NEW e \in Editors, \A f \in Editors : f # e => changes'[f] = changes[f],
         changes'[e].ph # "invalidated"
  PROVE  /\ \A k \in ApiKeys : apiKeys'[k] = apiKeys[k] /\ Auth!KeyGoing(k)' => Auth!KeyGoing(k)
         /\ \A i \in Ids : Auth!NameGoing(i)' => Auth!NameGoing(i)
  BY DEF Auth!KeyGoing, Auth!NameGoing, Auth!Deleting

LEMMA KeyCacheShrinks ==
  ASSUME Shapes, NEW e \in Editors, Auth!Edit(e), NEW k \in ApiKeys
  PROVE  keyCache'[k] \in {keyCache[k], None}
<1> USE DEF Shapes, Auth!TypeOK, Auth!accounts, Auth!caches, Auth!NotCached
<1> QED
  BY DEF Auth!Edit, Auth!Proceed, Auth!Register, Auth!CommitRename, Auth!BeginKey, Auth!EvictUser, Auth!CommitActive,
     Auth!EvictKey, Auth!InsertKey, Auth!InsertFails, Auth!SwitchKeyOff, Auth!DropDeactivated, Auth!DropRenamed,
     Auth!DropModified, Auth!DeleteUser, Auth!DropKeysOf, Auth!KeysOf

LEMMA KeyStays ==
  ASSUME Shapes, NEW e \in Editors, Auth!Edit(e), NEW k \in ApiKeys, NEW o \in Ids, NEW label \in Names \cup {None},
         keyCache[k] # None, keyCache[k].owner = o, keyCache'[k] = keyCache[k], KeyHolds(k, o, label)
  PROVE  KeyHolds(k, o, label)'
<1> USE DEF Auth!accounts, Auth!caches, Auth!NotCached, Auth!Begin, Auth!Idle
<1>0. /\ EditShape /\ users \in [Ids -> Auth!Row \cup {None}]
      /\ apiKeys \in [ApiKeys -> [owner : Ids, active : BOOLEAN] \cup {None}]
      /\ keyCache \in [ApiKeys -> KeyEntry \cup {None}]
  BY DEF Shapes, Auth!TypeOK, KeyEntry
<1>1. ASSUME NEW i \in Ids, NEW n \in Names, Auth!Register(e, i, n) PROVE KeyHolds(k, o, label)'
  <2>1. users[i] = None /\ UNCHANGED <<apiKeys, changes>> /\ \A j \in Ids : j # i => users'[j] = users[j]
    BY <1>0, <1>1 DEF Auth!Register
  <2> QED
    BY <2>1 DEF KeyHolds, Renamed, SwitchedOff, Auth!KeyGoing, Auth!Deleting
<1>2. ASSUME NEW i \in Ids, NEW n \in Names, Auth!CommitRename(e, i, n) PROVE KeyHolds(k, o, label)'
  <2>1. changes[e].ph = "idle" /\ UNCHANGED apiKeys
        /\ changes' = [changes EXCEPT ![e] = [ph |-> "committed", kind |-> "rename", id |-> i, old |-> users[i].name, new |-> n]]
    BY <1>2 DEF Auth!CommitRename
  <2>2. /\ changes'[e].ph = "committed" /\ changes'[e].kind = "rename" /\ changes'[e].id = i
        /\ \A f \in Editors : f # e => changes'[f] = changes[f]
    BY <1>0, <2>1 DEF EditShape
  <2>3. users[i] \in Auth!Row /\ \A j \in Ids : users'[j] = IF j = i THEN [users[i] EXCEPT !.name = n] ELSE users[j]
    BY <1>0, <1>2 DEF Auth!CommitRename
  <2>4. users'[o] # None /\ users'[o].active = users[o].active /\ (o # i => users'[o] = users[o])
    BY <2>3, CacheParameters DEF KeyHolds, Auth!Parameters, Auth!Row
  <2>5. ~Auth!KeyGoing(k)'
    BY <2>1, <2>2, NoneElseGoes DEF KeyHolds
  <2>6. o = i => Renamed(o)'
    BY <2>2 DEF Renamed
  <2> QED
    BY <2>1, <2>2, <2>4, <2>5, <2>6, StillCovered DEF KeyHolds
<1>3. ASSUME NEW i \in Ids, Auth!BeginKey(e, i) PROVE KeyHolds(k, o, label)'
  <2>1. changes[e].ph = "idle" /\ UNCHANGED <<users, apiKeys>> /\ changes' = [changes EXCEPT ![e] = [ph |-> "insert", id |-> i]]
    BY <1>3 DEF Auth!BeginKey
  <2>2. changes'[e].ph = "insert" /\ \A f \in Editors : f # e => changes'[f] = changes[f]
    BY <1>0, <2>1 DEF EditShape
  <2> QED
    BY <2>1, <2>2, NoneElseGoes, StillCovered DEF KeyHolds
<1>4. ASSUME NEW i \in Ids, Auth!EvictUser(e, i) PROVE KeyHolds(k, o, label)'
  <2>1. changes[e].ph = "idle" /\ UNCHANGED <<users, apiKeys>>
        /\ changes' = [changes EXCEPT ![e] = [ph |-> "invalidated", kind |-> "delete", id |-> i]]
    BY <1>4 DEF Auth!EvictUser
  <2>2. /\ changes'[e].kind = "delete" /\ changes'[e].id = i
        /\ \A f \in Editors : f # e => changes'[f] = changes[f]
    BY <1>0, <2>1 DEF EditShape
  <2>3. o # i
    BY <1>0, <1>4 DEF Auth!EvictUser, Auth!DropKeysOf, Auth!KeysOf
  <2>4. ~Auth!KeyGoing(k)'
    BY <2>1, <2>2, <2>3 DEF KeyHolds, Auth!KeyGoing, Auth!Deleting
  <2> QED
    BY <2>1, <2>2, <2>4, StillCovered DEF KeyHolds
<1>5. ASSUME NEW S \in (SUBSET Ids) \ {{}}, NEW active \in BOOLEAN, Auth!CommitActive(e, S, active) PROVE KeyHolds(k, o, label)'
  <2>1. changes[e].ph = "idle" /\ UNCHANGED apiKeys
        /\ changes' = [changes EXCEPT ![e] = IF active THEN [ph |-> "idle"] ELSE [ph |-> "committed", kind |-> "off", ids |-> S]]
    BY <1>5 DEF Auth!CommitActive
  <2>2. /\ changes'[e] = IF active THEN [ph |-> "idle"] ELSE [ph |-> "committed", kind |-> "off", ids |-> S]
        /\ \A f \in Editors : f # e => changes'[f] = changes[f]
    BY <1>0, <2>1 DEF EditShape
  <2>3. users[o] \in Auth!Row /\ users'[o] = IF o \in S THEN [users[o] EXCEPT !.active = active] ELSE users[o]
    BY <1>0, <1>5 DEF Auth!CommitActive, KeyHolds
  <2>7. users'[o] \in Auth!Row /\ users'[o] # None
    BY <2>3, CacheParameters DEF Auth!Parameters, Auth!Row
  <2>4. /\ users'[o] # None /\ users'[o].name = users[o].name
        /\ users'[o] = users[o] \/ (o \in S /\ (active => users'[o].active))
    <3>1. CASE o \in S
      <4>1. users'[o] = [name |-> users[o].name, active |-> active]
        BY <2>3, <3>1 DEF Auth!Row
      <4> QED
        BY <2>7, <3>1, <4>1
    <3> QED
      BY <2>3, <2>7, <3>1
  <2>5. ~Auth!KeyGoing(k)'
    <3>1. changes'[e].ph # "invalidated"
      BY <2>2
    <3> QED
      BY <2>1, <2>2, <3>1, NoneElseGoes DEF KeyHolds
  <2>6. o \in S /\ ~active => SwitchedOff(o)'
    <3>1. ~active => changes'[e].ph = "committed" /\ changes'[e].kind = "off" /\ changes'[e].ids = S
      BY <2>2
    <3> QED
      BY <3>1 DEF SwitchedOff
  <2> QED
    BY <2>1, <2>2, <2>4, <2>5, <2>6, StillCovered DEF KeyHolds
<1>6. ASSUME NEW q \in ApiKeys, Auth!EvictKey(e, q) PROVE KeyHolds(k, o, label)'
  <2>1. changes[e].ph = "idle" /\ UNCHANGED <<users, apiKeys>>
        /\ changes' = [changes EXCEPT ![e] = [ph |-> "invalidated", kind |-> "key", key |-> q]]
    BY <1>6 DEF Auth!EvictKey
  <2>2. /\ changes'[e].kind = "key" /\ changes'[e].key = q
        /\ \A f \in Editors : f # e => changes'[f] = changes[f]
    BY <1>0, <2>1 DEF EditShape
  <2>3. k # q
    BY <1>0, <1>6 DEF Auth!EvictKey
  <2>4. ~Auth!KeyGoing(k)'
    BY <2>1, <2>2, <2>3 DEF KeyHolds, Auth!KeyGoing, Auth!Deleting
  <2> QED
    BY <2>1, <2>2, <2>4, StillCovered DEF KeyHolds
<1>7. CASE Auth!InsertKey(e) \/ Auth!InsertFails(e) \/ Auth!DropModified(e)
  <2>1. changes[e].ph # "committed" /\ UNCHANGED users /\ changes' = [changes EXCEPT ![e] = [ph |-> "idle"]]
    BY <1>7 DEF Auth!InsertKey, Auth!InsertFails, Auth!DropModified
  <2>2. changes'[e].ph = "idle" /\ \A f \in Editors : f # e => changes'[f] = changes[f]
    BY <1>0, <2>1 DEF EditShape
  <2>3. apiKeys'[k] = apiKeys[k]
    BY <1>0, <1>7 DEF Auth!InsertKey, Auth!InsertFails, Auth!DropModified
  <2> QED
    BY <2>1, <2>2, <2>3, NoneElseGoes, StillCovered DEF KeyHolds
<1>8. CASE Auth!SwitchKeyOff(e)
  <2>1. /\ changes[e].ph = "invalidated" /\ changes[e].kind = "key" /\ UNCHANGED users
        /\ changes' = [changes EXCEPT ![e] = [ph |-> "idle"]]
    BY <1>8 DEF Auth!SwitchKeyOff, Auth!Deleting
  <2>2. changes'[e].ph = "idle" /\ \A f \in Editors : f # e => changes'[f] = changes[f]
    BY <1>0, <2>1 DEF EditShape
  <2>3. k # changes[e].key
    BY <2>1 DEF KeyHolds, Auth!KeyGoing, Auth!Deleting
  <2>4. apiKeys'[k] = apiKeys[k]
    BY <1>0, <1>8, <2>3 DEF Auth!SwitchKeyOff
  <2> QED
    BY <2>1, <2>2, <2>4, NoneElseGoes, StillCovered DEF KeyHolds
<1>9. CASE Auth!DropDeactivated(e)
  <2>1. /\ changes[e].kind = "off" /\ UNCHANGED <<users, apiKeys>>
        /\ changes' = [changes EXCEPT ![e] = [ph |-> "idle"]]
    BY <1>9 DEF Auth!DropDeactivated
  <2>2. changes'[e].ph = "idle" /\ \A f \in Editors : f # e => changes'[f] = changes[f]
    BY <1>0, <2>1 DEF EditShape
  <2>3. o \notin changes[e].ids
    BY <1>0, <1>9 DEF Auth!DropDeactivated, Auth!DropKeysOf, Auth!KeysOf
  <2>4. (SwitchedOff(o) => SwitchedOff(o)') /\ (Renamed(o) => Renamed(o)')
    BY <2>1, <2>2, <2>3 DEF SwitchedOff, Renamed
  <2> QED
    BY <2>1, <2>2, <2>4, NoneElseGoes DEF KeyHolds
<1>10. CASE Auth!DropRenamed(e)
  <2>1. /\ changes[e].kind = "rename" /\ UNCHANGED <<users, apiKeys>>
        /\ changes'[e].ph \in {"idle", "again"} /\ \A f \in Editors : f # e => changes'[f] = changes[f]
    BY <1>0, <1>10 DEF Auth!DropRenamed, EditShape
  <2>2. o # changes[e].id
    BY <1>0, <1>10 DEF Auth!DropRenamed, Auth!DropKeysOf, Auth!KeysOf
  <2>3. (SwitchedOff(o) => SwitchedOff(o)') /\ (Renamed(o) => Renamed(o)')
    BY <2>1, <2>2 DEF SwitchedOff, Renamed
  <2> QED
    BY <2>1, <2>3, NoneElseGoes DEF KeyHolds
<1>11. CASE Auth!DeleteUser(e)
  <2>1. /\ changes[e].ph = "invalidated" /\ changes[e].kind = "delete"
        /\ changes' = [changes EXCEPT ![e] = [ph |-> "idle"]]
    BY <1>11 DEF Auth!DeleteUser, Auth!Deleting
  <2>2. changes'[e].ph = "idle" /\ \A f \in Editors : f # e => changes'[f] = changes[f]
    BY <1>0, <2>1 DEF EditShape
  <2>3. o # changes[e].id
    BY <2>1 DEF KeyHolds, Auth!KeyGoing, Auth!Deleting
  <2>4. apiKeys'[k] = apiKeys[k] /\ users'[o] = users[o]
    BY <1>0, <1>11, <2>3 DEF Auth!DeleteUser, KeyHolds
  <2> QED
    BY <2>1, <2>2, <2>4, NoneElseGoes, StillCovered DEF KeyHolds
<1> QED
  BY <1>1, <1>2, <1>3, <1>4, <1>5, <1>6, <1>7, <1>8, <1>9, <1>10, <1>11 DEF Auth!Edit, Auth!Proceed

LEMMA EditKeepsKeys == ASSUME CacheInv, NEW e \in Editors, Auth!Edit(e) PROVE KeysTrue'
<1> SUFFICES ASSUME NEW k \in ApiKeys, keyCache'[k] # None, ~keyCache'[k].raced
             PROVE  KeyHolds(k, keyCache[k].owner, keyCache[k].label)' /\ keyCache'[k] = keyCache[k]
  BY DEF KeysTrue, KeyHolds, Renamed, SwitchedOff
<1>1. Shapes /\ keyCache'[k] = keyCache[k] /\ keyCache[k] \in KeyEntry
  BY KeyCacheShrinks DEF CacheInv, Shapes, Auth!TypeOK, KeyEntry
<1>2. KeyHolds(k, keyCache[k].owner, keyCache[k].label)
  BY <1>1 DEF CacheInv, KeysTrue
<1> QED
  BY <1>1, <1>2, KeyStays DEF KeyEntry

-----------------------------------------------------------------------------
LEMMA NameStays ==
  ASSUME Shapes, NEW e \in Editors, Auth!Edit(e), NEW n \in Names, NEW i \in Ids,
         userCache[n] # None, userCache[n].id = i, userCache'[n] = userCache[n], NameHolds(n, i),
         ~userCache'[n].raced
  PROVE  NameHolds(n, i)'
<1> USE DEF Auth!accounts, Auth!caches, Auth!NotCached, Auth!Begin, Auth!Idle
<1>0. /\ EditShape /\ users \in [Ids -> Auth!Row \cup {None}]
      /\ userCache \in [Names -> NameEntry \cup {None}]
  BY DEF Shapes, Auth!TypeOK, NameEntry
\* Its name taken away by a committed rename, whatever else happens the entry is covered.
<1>a. ASSUME changes[e].ph # "committed", \A f \in Editors : f # e => changes'[f] = changes[f],
             RenamedFrom(n, i)
      PROVE  NameHolds(n, i)'
  BY <1>a, StillCovered DEF NameHolds
<1>1. ASSUME NEW j \in Ids, NEW m \in Names, Auth!Register(e, j, m) PROVE NameHolds(n, i)'
  <2>1. users[j] = None /\ UNCHANGED changes /\ \A h \in Ids : h # j => users'[h] = users[h]
    BY <1>0, <1>1 DEF Auth!Register
  <2> QED
    BY <2>1 DEF NameHolds, RenamedFrom, SwitchedOff, Auth!NameGoing, Auth!Deleting
<1>2. ASSUME NEW j \in Ids, NEW m \in Names, Auth!CommitRename(e, j, m) PROVE NameHolds(n, i)'
  <2>1. changes[e].ph = "idle"
        /\ changes' = [changes EXCEPT ![e] = [ph |-> "committed", kind |-> "rename", id |-> j, old |-> users[j].name, new |-> m]]
    BY <1>2 DEF Auth!CommitRename
  <2>2. /\ changes'[e].ph = "committed" /\ changes'[e].kind = "rename" /\ changes'[e].id = j
        /\ changes'[e].old = users[j].name
        /\ \A f \in Editors : f # e => changes'[f] = changes[f]
    BY <1>0, <2>1 DEF EditShape
  <2>3. j # i => users'[i] = users[i]
    BY <1>0, <1>2 DEF Auth!CommitRename
  <2>4. CASE RenamedFrom(n, i)
    BY <1>a, <2>1, <2>2, <2>4
  <2>5. CASE ~RenamedFrom(n, i) /\ j = i
    <3>1. RenamedFrom(n, i)'
      BY <2>2, <2>5 DEF NameHolds, RenamedFrom
    <3> QED
      BY <3>1 DEF NameHolds
  <2>6. CASE ~RenamedFrom(n, i) /\ j # i
    BY <2>1, <2>2, <2>3, <2>6, NoneElseGoes, StillCovered DEF NameHolds
  <2> QED
    BY <2>4, <2>5, <2>6
<1>3. ASSUME NEW j \in Ids, Auth!BeginKey(e, j) PROVE NameHolds(n, i)'
  <2>1. changes[e].ph = "idle" /\ UNCHANGED users /\ changes' = [changes EXCEPT ![e] = [ph |-> "insert", id |-> j]]
    BY <1>3 DEF Auth!BeginKey
  <2>2. changes'[e].ph = "insert" /\ \A f \in Editors : f # e => changes'[f] = changes[f]
    BY <1>0, <2>1 DEF EditShape
  <2> QED
    BY <2>1, <2>2, NoneElseGoes, StillCovered DEF NameHolds
<1>4. ASSUME NEW j \in Ids, Auth!EvictUser(e, j) PROVE NameHolds(n, i)'
  <2>1. changes[e].ph = "idle" /\ UNCHANGED users
        /\ changes' = [changes EXCEPT ![e] = [ph |-> "invalidated", kind |-> "delete", id |-> j]]
    BY <1>4 DEF Auth!EvictUser
  <2>2. /\ changes'[e].kind = "delete" /\ changes'[e].id = j
        /\ \A f \in Editors : f # e => changes'[f] = changes[f]
    BY <1>0, <2>1 DEF EditShape
  <2>3. n # users[j].name
    BY <1>0, <1>4 DEF Auth!EvictUser
  <2>4. CASE RenamedFrom(n, i)
    BY <1>a, <2>1, <2>2, <2>4
  <2>5. CASE ~RenamedFrom(n, i)
    <3>1. j # i
      BY <2>3, <2>5 DEF NameHolds
    <3>2. ~Auth!NameGoing(i)'
      BY <2>2, <2>5, <3>1 DEF NameHolds, Auth!NameGoing, Auth!Deleting
    <3> QED
      BY <2>1, <2>2, <2>5, <3>2, StillCovered DEF NameHolds
  <2> QED
    BY <2>4, <2>5
<1>5. ASSUME NEW S \in (SUBSET Ids) \ {{}}, NEW active \in BOOLEAN, Auth!CommitActive(e, S, active) PROVE NameHolds(n, i)'
  <2>1. changes[e].ph = "idle"
        /\ changes' = [changes EXCEPT ![e] = IF active THEN [ph |-> "idle"] ELSE [ph |-> "committed", kind |-> "off", ids |-> S]]
    BY <1>5 DEF Auth!CommitActive
  <2>2. /\ changes'[e] = IF active THEN [ph |-> "idle"] ELSE [ph |-> "committed", kind |-> "off", ids |-> S]
        /\ \A f \in Editors : f # e => changes'[f] = changes[f]
    BY <1>0, <2>1 DEF EditShape
  <2>3. changes'[e].ph # "invalidated"
    BY <2>2
  <2>4. CASE RenamedFrom(n, i)
    BY <1>a, <2>1, <2>2, <2>4
  <2>5. CASE ~RenamedFrom(n, i) /\ i \notin S
    <3>1. users'[i] = users[i]
      BY <1>0, <1>5, <2>5 DEF Auth!CommitActive
    <3> QED
      BY <2>1, <2>2, <2>3, <2>5, <3>1, NoneElseGoes, StillCovered DEF NameHolds
  <2>6. CASE ~RenamedFrom(n, i) /\ i \in S
    <3>1. users[i] \in Auth!Row /\ users'[i] = [users[i] EXCEPT !.active = active]
      BY <1>0, <1>5, <2>6 DEF Auth!CommitActive, NameHolds
    <3>2. users'[i] = [name |-> users[i].name, active |-> active]
      BY <3>1 DEF Auth!Row
    <3>3. users'[i] \in Auth!Row /\ users'[i] # None
      BY <3>1, CacheParameters DEF Auth!Parameters, Auth!Row
    <3>4. ~active => SwitchedOff(i)'
      <4>1. ~active => changes'[e].ph = "committed" /\ changes'[e].kind = "off" /\ changes'[e].ids = S
        BY <2>2
      <4> QED
        BY <2>6, <4>1 DEF SwitchedOff
    <3>5. users'[i].name = users[i].name /\ users'[i].active = active
      BY <3>2
    <3>6. ~Auth!NameGoing(i)'
      BY <2>2, <2>3, <2>6, NoneElseGoes DEF NameHolds
    <3> QED
      BY <2>6, <3>3, <3>4, <3>5, <3>6 DEF NameHolds
  <2> QED
    BY <2>4, <2>5, <2>6
<1>6. ASSUME NEW q \in ApiKeys, Auth!EvictKey(e, q) PROVE NameHolds(n, i)'
  <2>1. changes[e].ph = "idle" /\ UNCHANGED users
        /\ changes' = [changes EXCEPT ![e] = [ph |-> "invalidated", kind |-> "key", key |-> q]]
    BY <1>6 DEF Auth!EvictKey
  <2>2. changes'[e].kind = "key" /\ \A f \in Editors : f # e => changes'[f] = changes[f]
    BY <1>0, <2>1 DEF EditShape
  <2>3. Auth!NameGoing(i)' => Auth!NameGoing(i)
    BY <2>2 DEF Auth!NameGoing, Auth!Deleting
  <2> QED
    BY <2>1, <2>2, <2>3, StillCovered DEF NameHolds
<1>7. CASE Auth!InsertKey(e) \/ Auth!InsertFails(e) \/ Auth!DropModified(e) \/ Auth!SwitchKeyOff(e)
  <2>1. changes[e].ph # "committed" /\ UNCHANGED users /\ changes' = [changes EXCEPT ![e] = [ph |-> "idle"]]
    BY <1>7 DEF Auth!InsertKey, Auth!InsertFails, Auth!DropModified, Auth!SwitchKeyOff, Auth!Deleting
  <2>2. changes'[e].ph = "idle" /\ \A f \in Editors : f # e => changes'[f] = changes[f]
    BY <1>0, <2>1 DEF EditShape
  <2> QED
    BY <2>1, <2>2, NoneElseGoes, StillCovered DEF NameHolds
<1>8. CASE Auth!DropDeactivated(e)
  <2>1. /\ changes[e].kind = "off" /\ changes[e].ids \in SUBSET Ids /\ UNCHANGED users
        /\ changes' = [changes EXCEPT ![e] = [ph |-> "idle"]] /\ Auth!DropUsersOf(changes[e].ids)
    BY <1>0, <1>8 DEF Auth!DropDeactivated, EditShape
  <2>2. changes'[e].ph = "idle" /\ \A f \in Editors : f # e => changes'[f] = changes[f]
    BY <1>0, <2>1 DEF EditShape
  <2>3. i \notin changes[e].ids
    BY <2>1, UsersDropped
  <2>4. (SwitchedOff(i) => SwitchedOff(i)') /\ (RenamedFrom(n, i) => RenamedFrom(n, i)')
    BY <2>1, <2>2, <2>3 DEF SwitchedOff, RenamedFrom
  <2> QED
    BY <2>1, <2>2, <2>4, NoneElseGoes DEF NameHolds
<1>9. CASE Auth!DropRenamed(e)
  <2>1. /\ changes[e].kind = "rename" /\ UNCHANGED users
        /\ changes'[e].ph \in {"idle", "again"} /\ \A f \in Editors : f # e => changes'[f] = changes[f]
    BY <1>0, <1>9 DEF Auth!DropRenamed, EditShape
  <2>2. n # changes[e].old
    BY <1>0, <1>9 DEF Auth!DropRenamed
  <2>3. (SwitchedOff(i) => SwitchedOff(i)') /\ (RenamedFrom(n, i) => RenamedFrom(n, i)')
    BY <2>1, <2>2 DEF SwitchedOff, RenamedFrom
  <2> QED
    BY <2>1, <2>3, NoneElseGoes DEF NameHolds
<1>10. CASE Auth!DeleteUser(e)
  <2>1. /\ changes[e].ph = "invalidated" /\ changes[e].kind = "delete"
        /\ changes' = [changes EXCEPT ![e] = [ph |-> "idle"]]
    BY <1>10 DEF Auth!DeleteUser, Auth!Deleting
  <2>2. changes'[e].ph = "idle" /\ \A f \in Editors : f # e => changes'[f] = changes[f]
    BY <1>0, <2>1 DEF EditShape
  <2>3. CASE RenamedFrom(n, i)
    BY <1>a, <2>1, <2>2, <2>3
  <2>4. CASE ~RenamedFrom(n, i)
    <3>1. i # changes[e].id
      BY <2>1, <2>4 DEF NameHolds, Auth!NameGoing, Auth!Deleting
    <3>2. users'[i] = users[i]
      BY <1>0, <1>10, <3>1 DEF Auth!DeleteUser
    <3> QED
      BY <2>1, <2>2, <2>4, <3>2, NoneElseGoes, StillCovered DEF NameHolds
  <2> QED
    BY <2>3, <2>4
<1> QED
  BY <1>1, <1>2, <1>3, <1>4, <1>5, <1>6, <1>7, <1>8, <1>9, <1>10 DEF Auth!Edit, Auth!Proceed

\* What is left unraced in the cache of names was there.
LEMMA UserCacheShrinks ==
  ASSUME Shapes, NEW e \in Editors, Auth!Edit(e), NEW n \in Names, userCache'[n] # None, ~userCache'[n].raced
  PROVE  userCache'[n] = userCache[n]
<1> USE DEF Auth!accounts, Auth!caches, Auth!NotCached
<1>1. userCache \in [Names -> NameEntry \cup {None}] /\ EditShape
  BY DEF Shapes, Auth!TypeOK, NameEntry
<1>2. CASE Auth!DropDeactivated(e) \/ Auth!DropModified(e)
  <2>1. PICK S \in SUBSET Ids : Auth!DropUsersOf(S)
    BY <1>1, <1>2 DEF Auth!DropDeactivated, Auth!DropModified, EditShape
  <2> QED
    BY <2>1, UsersDropped
<1>3. CASE ~(Auth!DropDeactivated(e) \/ Auth!DropModified(e))
  BY <1>1, <1>3 DEF Auth!Edit, Auth!Proceed, Auth!Register, Auth!CommitRename, Auth!BeginKey, Auth!EvictUser,
     Auth!CommitActive, Auth!EvictKey, Auth!InsertKey, Auth!InsertFails, Auth!SwitchKeyOff, Auth!DropRenamed,
     Auth!DeleteUser
<1> QED
  BY <1>2, <1>3

LEMMA EditKeepsNames == ASSUME CacheInv, NEW e \in Editors, Auth!Edit(e) PROVE NamesTrue'
<1> SUFFICES ASSUME NEW n \in Names, userCache'[n] # None, ~userCache'[n].raced
             PROVE  NameHolds(n, userCache[n].id)' /\ userCache'[n] = userCache[n]
  BY DEF NamesTrue, NameHolds, RenamedFrom, SwitchedOff
<1>1. Shapes /\ userCache'[n] = userCache[n] /\ userCache[n] \in NameEntry
  BY UserCacheShrinks DEF CacheInv, Shapes, Auth!TypeOK, NameEntry
<1>2. NameHolds(n, userCache[n].id)
  BY <1>1 DEF CacheInv, NamesTrue
<1> QED
  BY <1>1, <1>2, NameStays DEF NameEntry

-----------------------------------------------------------------------------
LEMMA UsesStep == CacheInv /\ [Auth!Next]_authCache => Auth!UsesAreKept'
<1> SUFFICES ASSUME CacheInv, [Auth!Next]_authCache PROVE Auth!UsesAreKept'
  OBVIOUS
<1> USE DEF CacheInv, Auth!UsesAreKept, Auth!accounts, Auth!caches
<1>1. ASSUME NEW r \in Reqs, Auth!Authenticate(r) PROVE Auth!UsesAreKept'
  BY <1>1 DEF Auth!Authenticate, Auth!PresentSession, Auth!ReadUser, Auth!CacheUser, Auth!PresentKey, Auth!ReadKey,
     Auth!ReadOwner, Auth!CacheKey
<1>2. ASSUME NEW e \in Editors, Auth!Edit(e) PROVE Auth!UsesAreKept'
  BY <1>2 DEF Auth!Edit, Auth!Proceed, Auth!Register, Auth!CommitRename, Auth!BeginKey, Auth!EvictUser,
     Auth!CommitActive, Auth!EvictKey, Auth!InsertKey, Auth!InsertFails, Auth!SwitchKeyOff, Auth!DropDeactivated,
     Auth!DropRenamed, Auth!DropModified, Auth!DeleteUser
<1>3. CASE LoopSteps
  BY <1>3, LoopShapes
<1>4. CASE UNCHANGED authCache
  BY <1>4 DEF authCache
<1> QED
  BY <1>1, <1>2, <1>3, <1>4 DEF Auth!Next, LoopSteps

LEMMA CacheStep == CacheInv /\ [Auth!Next]_authCache => CacheInv'
<1> SUFFICES ASSUME CacheInv, [Auth!Next]_authCache PROVE KeysTrue' /\ NamesTrue'
  BY ShapesStep, UsesStep DEF CacheInv
<1>0. Shapes /\ KeysTrue /\ NamesTrue
  BY DEF CacheInv
<1>1. ASSUME NEW r \in Reqs, Auth!Authenticate(r) PROVE KeysTrue' /\ NamesTrue'
  <2>1. UNCHANGED <<users, apiKeys, changes>>
    BY <1>1, RequestFrame
  <2>2. Auth!CacheKey(r) \/ UNCHANGED keyCache
    BY <1>1 DEF Auth!Authenticate, Auth!PresentSession, Auth!ReadUser, Auth!CacheUser, Auth!PresentKey, Auth!ReadKey,
       Auth!ReadOwner, Auth!caches
  <2>3. Auth!CacheUser(r) \/ UNCHANGED userCache
    BY <1>1 DEF Auth!Authenticate, Auth!PresentSession, Auth!ReadUser, Auth!CacheKey, Auth!PresentKey, Auth!ReadKey,
       Auth!ReadOwner, Auth!caches
  <2>4. KeysTrue'
    BY <1>0, <2>1, <2>2, KeyCached, KeysShrink
  <2>5. NamesTrue'
    BY <1>0, <2>1, <2>3, UserCached, NamesShrink
  <2> QED
    BY <2>4, <2>5
<1>2. ASSUME NEW e \in Editors, Auth!Edit(e) PROVE KeysTrue' /\ NamesTrue'
  BY <1>2, EditKeepsKeys, EditKeepsNames
<1>3. CASE LoopSteps
  BY <1>0, <1>3, LoopFrame, KeysShrink, NamesShrink
<1>4. CASE UNCHANGED authCache
  BY <1>0, <1>4, KeysShrink, NamesShrink DEF authCache
<1> QED
  BY <1>1, <1>2, <1>3, <1>4 DEF Auth!Next, LoopSteps

LEMMA InitCaches == Auth!Init => CacheInv
<1> SUFFICES ASSUME Auth!Init PROVE CacheInv
  OBVIOUS
<1>1. Auth!TypeOK
  <2>1. users \in [Ids -> Auth!Row \cup {None}]
    <3>1. users \in [Ids -> [name : Names, active : {TRUE}] \cup {None}]
      BY DEF Auth!Init
    <3>2. [name : Names, active : {TRUE}] \subseteq Auth!Row
      BY DEF Auth!Row
    <3> QED
      BY <3>1, <3>2
  <2>2. apiKeys \in [ApiKeys -> [owner : Ids, active : BOOLEAN] \cup {None}]
    <3>1. apiKeys \in [ApiKeys -> [owner : {i \in Ids : users[i] # None}, active : {TRUE}] \cup {None}]
      BY DEF Auth!Init
    <3>2. [owner : {i \in Ids : users[i] # None}, active : {TRUE}] \subseteq [owner : Ids, active : BOOLEAN]
      OBVIOUS
    <3> QED
      BY <3>1, <3>2
  <2>3. made \in 0..MaxOps
    BY CacheParameters DEF Auth!Init, Auth!Parameters
  <2> QED
    BY <2>1, <2>2, <2>3 DEF Auth!Init, Auth!TypeOK, Auth!NotCached, Auth!Idle, Auth!Asleep
<1>2. EditShape /\ RequestShape /\ LoopShape
  BY DEF Auth!Init, EditShape, RequestShape, LoopShape, Phase, Auth!Idle, Auth!Asleep
<1>3. KeysTrue /\ NamesTrue /\ Auth!UsesAreKept
  BY DEF Auth!Init, KeysTrue, NamesTrue, Auth!UsesAreKept, Auth!NotCached
<1> QED
  BY <1>1, <1>2, <1>3 DEF CacheInv, Shapes

LEMMA CachesInCaches == MCSpec => Auth!Init /\ [][Auth!Next]_authCache
<1>1. MCInit => Auth!Init
  BY DEF MCInit
<1>2. [MCNext]_<<vars, authCache, resolution, part>> => [Auth!Next]_authCache
  BY DEF MCNext, authCache
<1> QED
  BY <1>1, <1>2, PTL DEF MCSpec

\* For any accounts, names, keys, requests and editors: an entry of either cache that no
\* longer says what the tables say was stored across the edit that outdated it, or that
\* edit has committed and is about to drop it (auth/cache.py); and a use of a key is
\* pending, being written or written, whatever writes fail.
THEOREM CachesAreTrue == MCSpec => []AuthCacheIsTrue
<1>1. CacheInv => AuthCacheIsTrue
  <2> SUFFICES ASSUME CacheInv PROVE Auth!OutdatedOnlyByRace
    BY DEF CacheInv, Shapes, AuthCacheIsTrue
  <2>1. /\ Shapes /\ KeysTrue /\ NamesTrue
        /\ users \in [Ids -> Auth!Row \cup {None}]
        /\ keyCache \in [ApiKeys -> KeyEntry \cup {None}] /\ userCache \in [Names -> NameEntry \cup {None}]
    BY DEF CacheInv, Shapes, Auth!TypeOK, KeyEntry, NameEntry
  <2>2. ASSUME NEW k \in ApiKeys, keyCache[k] # None, ~Auth!KeyCurrent(k, keyCache[k]), ~keyCache[k].raced
        PROVE  SwitchedOff(keyCache[k].owner) \/ Renamed(keyCache[k].owner)
    BY <2>1, <2>2 DEF KeysTrue, KeyHolds, Auth!KeyCurrent, Auth!KeyUsable, Auth!IsActive, Auth!NameOf
  <2>3. ASSUME NEW n \in Names, userCache[n] # None, ~Auth!UserCurrent(n, userCache[n]), ~userCache[n].raced
        PROVE  SwitchedOff(userCache[n].id) \/ RenamedFrom(n, userCache[n].id)
    <3>1. userCache[n].id \in Ids /\ NameHolds(n, userCache[n].id)
      BY <2>1, <2>3 DEF NamesTrue, NameEntry
    <3>2. users[userCache[n].id] # None /\ users[userCache[n].id].name = n /\ users[userCache[n].id].active
          => users[userCache[n].id] = [name |-> n, active |-> TRUE]
      BY <2>1, <3>1 DEF Auth!Row
    <3> QED
      BY <2>3, <3>1, <3>2 DEF NameHolds, Auth!UserCurrent
  <2> QED
    BY <2>2, <2>3 DEF Auth!OutdatedOnlyByRace, Auth!NotCached, SwitchedOff, Renamed, RenamedFrom
<1> QED
  BY <1>1, CacheStep, InitCaches, CachesInCaches, PTL

-----------------------------------------------------------------------------
(* ModelResolution, for any registry, callers, names, lists and             *)
(* configurations.  Whatever the layers have made of a name, the context    *)
(* still holds the client's own, and knows each name it has produced:       *)
(* Remembers and Traced.                                                    *)

IsName(n) == n \in Seq(STRING) /\ n # <<>> /\ n # None
Labels    == {n \in Seq(STRING) : IsName(n)}
Scopes    == Res!ProfileIds \X Res!Kinds
Context   == [original : Labels \cup {None}, input : Labels \cup {None}, resolved : Labels \cup {None},
              scope : Scopes \cup {None}, seen : SUBSET Labels, profile : Res!ProfileIds \cup {None}]

\* What the list in a scope makes of a name.
Ruled(n, s) == IF n \in DOMAIN lists[s] THEN lists[s][n] ELSE n
ScopeOf(p, kind) == <<IF p = None THEN Default ELSE p, kind>>

Remembers(c) ==
    /\ c \in Context
    /\ c.resolved = None => c.original = None
    /\ c.resolved # None => /\ c.input = client /\ c.original = client /\ c.resolved \in c.seen
                            /\ c.scope \in Scopes
                            /\ reloads = 0 => c.resolved = Ruled(client, c.scope)

Traced(c, n) == IF c.resolved = None THEN n = client ELSE n \in {c.resolved, client} \cup c.seen

Listed == lists \in [Scopes -> Lists] /\ IsName(client)

LEMMA RuledNames == ASSUME Listed, NEW p \in Res!ProfileIds \cup {None}, NEW kind \in Res!Kinds, NEW n, IsName(n)
                    PROVE  /\ ScopeOf(p, kind) \in Scopes
                           /\ Res!Mapped(n, p, kind) = Ruled(n, ScopeOf(p, kind))
                           /\ IsName(Res!Mapped(n, p, kind))
<1>1. ScopeOf(p, kind) \in Scopes
  BY DEF ScopeOf, Scopes, Res!ProfileIds
<1>2. Res!Mapped(n, p, kind) = Ruled(n, ScopeOf(p, kind))
  BY DEF Res!Mapped, Ruled, ScopeOf
<1>3. lists[ScopeOf(p, kind)] \in Lists
  BY <1>1 DEF Listed
<1>4. IsName(Ruled(n, ScopeOf(p, kind)))
  BY <1>3, ResolutionParameters DEF Ruled, IsName, Res!Parameters
<1> QED
  BY <1>1, <1>2, <1>4

\* However often a name was mapped, what a layer reads leads back to the client's.
LEMMA SourceIsClient == ASSUME NEW c, NEW n, Remembers(c), Traced(c, n)
                        PROVE  /\ Res!SourceName(c, n) = client /\ Res!SourceName(c, client) = client
                               /\ Res!Produced(c, client) <=> c.resolved # None
BY DEF Remembers, Traced, Res!SourceName, Res!Produced

\* apply_alias on the client's name: the context goes on remembering it, knows what it knew, and
\* gives what the present list makes of it.
LEMMA AliasApplied ==
    ASSUME Listed, NEW c, Remembers(c), NEW kind \in Res!Kinds, NEW a, a = Res!ApplyAlias(c, client, kind)
    PROVE  /\ Remembers(a.ctx) /\ a.ctx.profile = c.profile
           /\ \A n : Traced(c, n) => Traced(a.ctx, n)
           /\ Traced(a.ctx, a.name) /\ IsName(a.name)
           /\ reloads = 0 => a.name = Res!Mapped(client, c.profile, kind)
<1>1. PICK t : t = Res!Mapped(client, c.profile, kind)
  OBVIOUS
<1>2. PICK s : s = ScopeOf(c.profile, kind)
  OBVIOUS
<1>3. s \in Scopes /\ t = Ruled(client, s) /\ IsName(t) /\ t \in Labels /\ client \in Labels /\ IsName(client)
  <2>1. c.profile \in Res!ProfileIds \cup {None} /\ IsName(client)
    BY DEF Remembers, Context, Listed
  <2>2. s \in Scopes /\ t = Ruled(client, s) /\ IsName(t)
    BY <1>1, <1>2, <2>1, RuledNames
  <2> QED
    BY <2>1, <2>2 DEF Labels, IsName
<1>4. /\ Traced(c, client) /\ Res!SourceName(c, client) = client
      /\ Res!Produced(c, client) <=> c.resolved # None
  BY SourceIsClient DEF Traced, Remembers
<1>5. CASE c.resolved # None /\ c.scope = s
  <2>1. a = [ctx |-> c, name |-> c.resolved]
    BY <1>1, <1>2, <1>4, <1>5 DEF Res!ApplyAlias, ScopeOf
  <2>2. c.resolved \in Labels
    BY <1>5 DEF Remembers, Context
  <2> QED
    BY <1>1, <1>3, <1>5, <2>1, <2>2 DEF Remembers, Traced, Labels
<1>6. CASE c.resolved # None /\ c.scope # s
  <2>1. a = [ctx |-> [c EXCEPT !.resolved = t, !.scope = s, !.seen = @ \cup {t}], name |-> t]
    BY <1>1, <1>2, <1>4, <1>6 DEF Res!ApplyAlias, ScopeOf
  <2>2. PICK d : d = [c EXCEPT !.resolved = t, !.scope = s, !.seen = @ \cup {t}]
    OBVIOUS
  <2>3. /\ d \in Context /\ d.resolved = t /\ d.scope = s /\ d.seen = c.seen \cup {t}
        /\ d.input = c.input /\ d.original = c.original /\ d.profile = c.profile
    BY <1>3, <2>2 DEF Remembers, Context
  <2>4. Remembers(d) /\ Traced(d, t)
    BY <1>3, <1>6, <2>3 DEF Remembers, Traced, IsName
  <2>5. \A n : Traced(c, n) => Traced(d, n)
    BY <1>3, <1>6, <2>3 DEF Remembers, Traced, IsName
  <2>6. a.ctx = d /\ a.name = t
    BY <2>1, <2>2
  <2> QED
    BY <1>1, <1>3, <2>3, <2>4, <2>5, <2>6
<1>7. CASE c.resolved = None /\ t = client
  <2>1. a = [ctx |-> c, name |-> client]
    BY <1>1, <1>2, <1>4, <1>7 DEF Res!ApplyAlias, ScopeOf
  <2> QED
    BY <1>1, <1>3, <1>4, <1>7, <2>1
<1>8. CASE c.resolved = None /\ t # client
  <2>1. a = [ctx |-> [c EXCEPT !.original = client, !.input = client, !.resolved = t, !.scope = s, !.seen = {t}],
             name |-> t]
    BY <1>1, <1>2, <1>4, <1>8 DEF Res!ApplyAlias, ScopeOf
  <2>2. PICK d : d = [c EXCEPT !.original = client, !.input = client, !.resolved = t, !.scope = s, !.seen = {t}]
    OBVIOUS
  <2>3. /\ d \in Context /\ d.resolved = t /\ d.scope = s /\ d.seen = {t}
        /\ d.input = client /\ d.original = client /\ d.profile = c.profile
    BY <1>3, <2>2 DEF Remembers, Context
  <2>4. Remembers(d) /\ Traced(d, t)
    BY <1>3, <2>3 DEF Remembers, Traced, IsName
  <2>5. \A n : Traced(c, n) => Traced(d, n)
    BY <1>3, <1>8, <2>3 DEF Traced, IsName
  <2>6. a.ctx = d /\ a.name = t
    BY <2>1, <2>2
  <2> QED
    BY <1>1, <1>3, <2>3, <2>4, <2>5, <2>6
<1> QED
  BY <1>5, <1>6, <1>7, <1>8

\* What the lists make of the client's name while nothing is reloaded: map_model_name.
Best(p, who) ==
    LET standby == Res!Mapped(client, p, "fallback") IN
    IF Res!Evaluate(client, who).status = "ok" THEN Res!Mapped(client, p, "alias")
    ELSE IF who # PreAuth /\ standby # client /\ Res!Evaluate(standby, who).status # "ok" THEN client
    ELSE standby

\* map_model_name on any name a layer may read.
LEMMA NameMapped ==
    ASSUME Listed, NEW c, Remembers(c), NEW n, Traced(c, n), NEW who, NEW m, m = Res!MapName(c, n, who)
    PROVE  /\ Remembers(m.ctx) /\ m.ctx.profile = c.profile
           /\ \A k : Traced(c, k) => Traced(m.ctx, k)
           /\ Traced(m.ctx, m.name) /\ IsName(m.name)
           /\ reloads = 0 => m.name = Best(c.profile, who)
<1>1. Res!SourceName(c, n) = client /\ IsName(client) /\ Traced(c, client)
  BY SourceIsClient DEF Listed, Traced
<1>2. PICK t : t = Res!Mapped(client, c.profile, "fallback")
  OBVIOUS
<1>3. {"alias", "fallback"} \subseteq Res!Kinds
  BY DEF Res!Kinds
<1>4. CASE Res!Evaluate(client, who).status = "ok"
  <2>1. m = Res!ApplyAlias(c, client, "alias")
    BY <1>1, <1>4 DEF Res!MapName
  <2>2. reloads = 0 => m.name = Res!Mapped(client, c.profile, "alias")
    BY <1>3, <2>1, AliasApplied
  <2>3. Best(c.profile, who) = Res!Mapped(client, c.profile, "alias")
    BY <1>4 DEF Best
  <2> QED
    BY <1>3, <2>1, <2>2, <2>3, AliasApplied
<1>5. CASE /\ Res!Evaluate(client, who).status # "ok"
           /\ who # PreAuth /\ t # client /\ Res!Evaluate(t, who).status # "ok"
  <2>1. m = [ctx |-> c, name |-> client]
    BY <1>1, <1>2, <1>5 DEF Res!MapName
  <2>2. Best(c.profile, who) = client
    BY <1>2, <1>5 DEF Best
  <2> QED
    BY <1>1, <2>1, <2>2
<1>6. CASE /\ Res!Evaluate(client, who).status # "ok"
           /\ ~(who # PreAuth /\ t # client /\ Res!Evaluate(t, who).status # "ok")
  <2>1. m = Res!ApplyAlias(c, client, "fallback")
    BY <1>1, <1>2, <1>6 DEF Res!MapName
  <2>2. reloads = 0 => m.name = t
    BY <1>2, <1>3, <2>1, AliasApplied
  <2>3. Best(c.profile, who) = t
    BY <1>2, <1>6 DEF Best
  <2> QED
    BY <1>3, <2>1, <2>2, <2>3, AliasApplied
<1> QED
  BY <1>4, <1>5, <1>6

-----------------------------------------------------------------------------
(* What a name is judged by, without the nesting.                            *)

\* The two definitions over their parts, so that a step that keeps the parts keeps them.
CanonicalOf(n, registered, F) ==
    IF Len(n) > 1 /\ Head(n) \notin registered /\ Res!Cardinality(F) = 1
    THEN <<CHOOSE p \in F : TRUE>> \o Tail(n) ELSE n
Allowed(n, c) == {m \in Res!Pool(n, c) : Res!MayUse(c, m)}
Up(n, c)      == {m \in Allowed(n, c) : ~Res!InOutage(m)}
Judged(pool, allowed, up) ==
    IF pool = {} THEN Res!No("unavailable")
    ELSE IF allowed = {} THEN Res!No("denied")
    ELSE IF up = {} THEN Res!No("outage") ELSE [status |-> "ok", ids |-> up]

CanonicalIs == \A n : Res!Canonical(n) = CanonicalOf(n, cfg.live, Res!Family(Head(n)))

LEMMA Canonicals == CanonicalIs
BY DEF Res!Canonical, CanonicalOf, CanonicalIs

EvaluationOf(n, cached, prefixed, byId, byFamily, judged) ==
    IF n \in cached THEN byId ELSE IF Len(n) > 1 /\ prefixed THEN byFamily ELSE judged

EvaluateIs ==
    \A n, c : Res!Evaluate(n, c) =
                  EvaluationOf(n, cfg.cached, Res!HasPrefix(Head(n)), Res!Single(n, c),
                               Res!Single(Res!Canonical(n), c),
                               Judged(Res!Pool(n, c), Allowed(n, c), Up(n, c)))

LEMMA Evaluates == EvaluateIs
<1> SUFFICES ASSUME NEW n, NEW c
             PROVE  Res!Evaluate(n, c) =
                        EvaluationOf(n, cfg.cached, Res!HasPrefix(Head(n)), Res!Single(n, c),
                                     Res!Single(Res!Canonical(n), c),
                                     Judged(Res!Pool(n, c), Allowed(n, c), Up(n, c)))
  BY DEF EvaluateIs
<1>1. PICK pool : pool = Res!Pool(n, c)
  OBVIOUS
<1>2. PICK allowed : allowed = Allowed(n, c)
  OBVIOUS
<1>3. allowed \subseteq pool
  BY <1>1, <1>2 DEF Allowed
<1>4. Up(n, c) \subseteq allowed
  BY <1>2 DEF Up
<1> QED
  BY <1>1, <1>2, <1>3, <1>4 DEF Res!Evaluate, EvaluationOf, Judged, Allowed, Up

-----------------------------------------------------------------------------
(* What depends on the configuration alone stays while it does.              *)

LEMMA NextCanonicals == CanonicalIs'
BY Canonicals, PTL

LEMMA NextEvaluates == EvaluateIs'
BY Evaluates, PTL

LEMMA RegistryFrame ==
    ASSUME cfg' = cfg
    PROVE  /\ \A f : Res!Family(f)' = Res!Family(f)
           /\ \A f : Res!HasPrefix(f)' = Res!HasPrefix(f)
           /\ \A n : Res!Canonical(n)' = Res!Canonical(n)
           /\ \A n : Res!Bare(n)' = Res!Bare(n)
           /\ \A m : Res!InOutage(m)' = Res!InOutage(m)
           /\ \A c, m : Res!MayUse(c, m)' = Res!MayUse(c, m)
<1>1. ASSUME NEW f PROVE Res!Family(f)' = Res!Family(f)
  BY DEF Res!Family
<1>2. ASSUME NEW f PROVE Res!HasPrefix(f)' = Res!HasPrefix(f)
  BY <1>1 DEF Res!HasPrefix
<1>3. ASSUME NEW n PROVE Res!Canonical(n)' = Res!Canonical(n)
  <2>1. Res!Canonical(n)' = CanonicalOf(n, cfg'.live, Res!Family(Head(n))')
    BY NextCanonicals DEF CanonicalIs, CanonicalOf
  <2>2. Res!Family(Head(n))' = Res!Family(Head(n))
    BY <1>1
  <2> QED
    BY <2>1, <2>2, Canonicals DEF CanonicalIs
<1>4. ASSUME NEW n PROVE Res!Bare(n)' = Res!Bare(n)
  BY DEF Res!Bare
<1>5. ASSUME NEW m PROVE Res!InOutage(m)' = Res!InOutage(m)
  BY DEF Res!InOutage
<1>6. ASSUME NEW c, NEW m PROVE Res!MayUse(c, m)' = Res!MayUse(c, m)
  BY DEF Res!MayUse, Res!ProfileAllows, Res!Gate, Res!IsByok
<1> QED
  BY <1>1, <1>2, <1>3, <1>4, <1>5, <1>6

LEMMA EvaluateFrame ==
    ASSUME cfg' = cfg, NEW n, NEW c
    PROVE  Res!Evaluate(n, c)' = Res!Evaluate(n, c)
<1>1. ASSUME NEW m PROVE Res!Single(m, c)' = Res!Single(m, c)
  BY RegistryFrame DEF Res!Single, Res!No, Res!IsByok
<1>2. ASSUME NEW S PROVE Res!FilterPool(S)' = Res!FilterPool(S)
  BY DEF Res!FilterPool, Res!Gate
<1>3. ASSUME NEW S PROVE Res!Visible(S, c)' = Res!Visible(S, c)
  BY RegistryFrame DEF Res!Visible, Res!IsByok
<1>4. Res!Pool(n, c)' = Res!Pool(n, c)
  BY <1>2, <1>3, RegistryFrame DEF Res!Pool
<1>5. Allowed(n, c)' = Allowed(n, c)
  BY <1>4, RegistryFrame DEF Allowed
<1>6. Up(n, c)' = Up(n, c)
  BY <1>5, RegistryFrame DEF Up
<1>7. Res!Evaluate(n, c)' = EvaluationOf(n, cfg'.cached, Res!HasPrefix(Head(n))', Res!Single(n, c)',
                                         Res!Single(Res!Canonical(n), c)',
                                         Judged(Res!Pool(n, c)', Allowed(n, c)', Up(n, c)'))
  BY NextEvaluates DEF EvaluateIs, EvaluationOf, Judged, Res!No
<1>8. Res!Single(Res!Canonical(n), c)' = Res!Single(Res!Canonical(n), c)
  <2>1. PICK k : k = Res!Canonical(n)
    OBVIOUS
  <2>2. Res!Canonical(n)' = k
    BY <2>1, RegistryFrame
  <2>3. \A m : Res!Single(m, c)' = Res!Single(m, c)
    BY <1>1
  <2> QED
    BY <2>1, <2>2, <2>3, RegistryFrame DEF Res!Single, Res!No, Res!IsByok
<1> QED
  BY <1>1, <1>4, <1>5, <1>6, <1>7, <1>8, RegistryFrame, Evaluates DEF EvaluateIs

-----------------------------------------------------------------------------
Early == {"arrived", "tracked", "authenticated"}

\* What a layer has mapped is the client's; what the tracker says is what was mapped last;
\* a deployment's name is what the lists made of it, if nothing changed since.
Tracking ==
    layer \in Early =>
        /\ Remembers(ctx) /\ Traced(ctx, body) /\ (model # None => Traced(ctx, model))
        /\ ctx.profile = IF layer = "authenticated" /\ caller # Admin THEN ProfileOf[caller] ELSE None
        /\ layer # "arrived" /\ route # "untracked" => model # None /\ tracked = model
        /\ layer = "authenticated" /\ route = "deployment" /\ turned = 0 /\ reloads = 0
             => model = Best(ctx.profile, caller)

\* The route has resolved it.
Resolved ==
    layer = "resolved" =>
        /\ route # "deployment" /\ (route # "untracked" => tracked = model)
        /\ client = IF ctx.original # None THEN ctx.original ELSE model
        /\ model \in Seq(STRING) /\ model # <<>>

NameInv ==
    /\ Listed /\ cfg \in Configs /\ turned \in Nat /\ reloads \in Nat
    /\ caller \in Callers \cup {Admin}
    /\ Tracking /\ Resolved
    /\ Res!NamedAsServed /\ Res!OwnInstanceOnly

LEMMA InitNames == Res!Init => NameInv
<1> SUFFICES ASSUME Res!Init PROVE NameInv
  OBVIOUS
<1>1. Listed
  BY ResolutionParameters DEF Res!Init, Listed, IsName, Scopes, Res!Parameters
<1>2. /\ layer = "arrived" /\ ctx = Res!Fresh /\ body = client /\ model = None
      /\ cfg \in Configs /\ turned = 0 /\ reloads = 0 /\ caller \in Callers \cup {Admin}
  BY DEF Res!Init
<1>3. /\ Res!Fresh \in Context /\ Res!Fresh.resolved = None /\ Res!Fresh.original = None
      /\ Res!Fresh.profile = None
  BY DEF Res!Fresh, Context
<1>4. Tracking
  BY <1>2, <1>3 DEF Tracking, Remembers, Traced
<1> QED
  BY <1>1, <1>2, <1>4 DEF NameInv, Resolved, Res!NamedAsServed, Res!OwnInstanceOnly

-----------------------------------------------------------------------------
(* One lemma for each layer.                                                 *)

LEMMA BestFrame ==
    ASSUME UNCHANGED <<cfg, lists, client>>, NEW p, NEW who
    PROVE  Best(p, who)' = Best(p, who)
<1>1. \A n : Res!Evaluate(n, who)' = Res!Evaluate(n, who)
  BY EvaluateFrame
<1>2. \A n, k : Res!Mapped(n, p, k)' = Res!Mapped(n, p, k)
  BY DEF Res!Mapped
<1> QED
  BY <1>1, <1>2 DEF Best

LEMMA TrackStep == ASSUME NameInv, Res!Track PROVE NameInv'
<1>1. /\ layer = "arrived" /\ layer' = "tracked"
      /\ UNCHANGED <<lists, turned, reloads, cfg, route, caller, client, failure, called>>
  BY DEF Res!Track, Res!config
<1>2. Remembers(ctx) /\ Traced(ctx, body) /\ ctx.profile = None /\ (model # None => Traced(ctx, model)) /\ Listed
  BY <1>1 DEF NameInv, Tracking, Early
<1>3. /\ Remembers(ctx') /\ Traced(ctx', body') /\ ctx'.profile = None
      /\ (model' # None => Traced(ctx', model'))
      /\ route # "untracked" => model' # None /\ tracked' = model'
  <2>1. CASE route = "untracked"
    BY <1>2, <2>1 DEF Res!Track
  <2>2. CASE route # "untracked"
    <3>1. PICK m : m = Res!MapName(ctx, client, PreAuth)
      OBVIOUS
    <3>2. ctx' = m.ctx /\ model' = m.name /\ tracked' = m.name /\ body' \in {m.name, body}
      BY <2>2, <3>1 DEF Res!Track
    <3>3. Traced(ctx, client)
      BY DEF Traced
    <3>4. /\ Remembers(m.ctx) /\ m.ctx.profile = ctx.profile /\ \A k : Traced(ctx, k) => Traced(m.ctx, k)
          /\ Traced(m.ctx, m.name) /\ IsName(m.name)
      BY <1>2, <3>1, <3>3, NameMapped
    <3> QED
      BY <1>2, <3>2, <3>4 DEF IsName
  <2> QED
    BY <2>1, <2>2
<1>4. Tracking'
  BY <1>1, <1>3 DEF Tracking, Remembers, Traced, Ruled
<1>5. Listed' /\ Resolved' /\ Res!NamedAsServed' /\ Res!OwnInstanceOnly'
  BY <1>1, <1>2 DEF Listed, Resolved, Res!NamedAsServed, Res!OwnInstanceOnly
<1> QED
  BY <1>1, <1>4, <1>5 DEF NameInv

LEMMA AuthenticateStep == ASSUME NameInv, Res!Authenticate PROVE NameInv'
<1>1. /\ layer = "tracked" /\ layer' = "authenticated"
      /\ UNCHANGED <<lists, turned, reloads, cfg, route, caller, client, body, failure, called>>
  BY DEF Res!Authenticate, Res!config
<1>2. /\ Remembers(ctx) /\ Traced(ctx, body) /\ (model # None => Traced(ctx, model)) /\ Listed
      /\ route # "untracked" => model # None /\ tracked = model
      /\ caller \in Callers \cup {Admin}
  BY <1>1 DEF NameInv, Tracking, Early
<1>3. PICK p : p = IF caller = Admin THEN None ELSE ProfileOf[caller]
  OBVIOUS
<1>4. PICK bound : bound = [ctx EXCEPT !.profile = p]
  OBVIOUS
<1>5. p \in Res!ProfileIds \cup {None}
  BY <1>2, <1>3 DEF Res!ProfileIds
<1>6. /\ bound \in Context /\ bound.profile = p /\ bound.resolved = ctx.resolved /\ bound.input = ctx.input
      /\ bound.original = ctx.original /\ bound.seen = ctx.seen /\ bound.scope = ctx.scope
  BY <1>2, <1>4, <1>5 DEF Remembers, Context
<1>7. Remembers(bound) /\ \A n : Traced(ctx, n) => Traced(bound, n)
  BY <1>2, <1>6 DEF Remembers, Traced
<1>8. /\ Remembers(ctx') /\ Traced(ctx', body') /\ ctx'.profile = p
      /\ (model' # None => Traced(ctx', model'))
      /\ route # "untracked" => model' # None /\ tracked' = model'
      /\ route = "deployment" /\ reloads = 0 => model' = Best(p, caller)
  <2>1. CASE model = None
    <3>1. ctx' = bound /\ UNCHANGED <<model, tracked>>
      BY <1>3, <1>4, <2>1 DEF Res!Authenticate
    <3> QED
      BY <1>1, <1>2, <1>6, <1>7, <2>1, <3>1
  <2>2. CASE model # None
    <3>1. PICK m : m = Res!MapName(bound, model, caller)
      OBVIOUS
    <3>2. ctx' = m.ctx /\ model' = m.name /\ tracked' = m.name
      BY <1>3, <1>4, <2>2, <3>1 DEF Res!Authenticate
    <3>3. Traced(bound, model) /\ Traced(bound, body)
      BY <1>2, <1>7, <2>2
    <3>4. /\ Remembers(m.ctx) /\ m.ctx.profile = bound.profile /\ \A k : Traced(bound, k) => Traced(m.ctx, k)
          /\ Traced(m.ctx, m.name) /\ IsName(m.name)
          /\ reloads = 0 => m.name = Best(bound.profile, caller)
      BY <1>2, <1>7, <3>1, <3>3, NameMapped
    <3> QED
      BY <1>1, <1>6, <3>2, <3>3, <3>4 DEF IsName
  <2> QED
    BY <2>1, <2>2
<1>9. Tracking'
  <2>1. PICK who : who = caller
    OBVIOUS
  <2>2. Best(p, who)' = Best(p, who)
    BY <1>1, BestFrame
  <2>3. ctx'.profile = p => Best(ctx.profile, caller)' = Best(p, who)'
    BY <1>1, <2>1 DEF Best
  <2> QED
    BY <1>1, <1>3, <1>8, <2>1, <2>2, <2>3 DEF Tracking, Remembers, Traced, Ruled
<1>10. Listed' /\ Resolved' /\ Res!NamedAsServed' /\ Res!OwnInstanceOnly'
  BY <1>1, <1>2 DEF Listed, Resolved, Res!NamedAsServed, Res!OwnInstanceOnly
<1> QED
  BY <1>1, <1>9, <1>10 DEF NameInv

\* Nobody is denied a model of an instance of somebody's own: it is unknown to them.
LEMMA DeniedIsNotOwn ==
    ASSUME NEW n, NEW c, Res!Evaluate(n, c).status = "denied"
    PROVE  ~Res!OwnModel(n)
<1> SUFFICES ASSUME Len(n) > 1, Res!IsByok(n), Head(n) \in cfg.live \/ n \in cfg.cached PROVE FALSE
  BY DEF Res!OwnModel
<1>1. Res!Single(n, c).status # "denied"
  BY DEF Res!Single, Res!No
<1>2. Res!Evaluate(n, c) = Res!Single(n, c)
  <2>1. CASE n \in cfg.cached
    BY <2>1, Evaluates DEF EvaluateIs, EvaluationOf
  <2>2. CASE n \notin cfg.cached /\ Head(n) \in cfg.live
    <3>1. Res!HasPrefix(Head(n)) /\ Res!Canonical(n) = n
      BY <2>2, Canonicals DEF Res!HasPrefix, CanonicalIs, CanonicalOf
    <3> QED
      BY <2>2, <3>1, Evaluates DEF EvaluateIs, EvaluationOf
  <2> QED
    BY <2>1, <2>2
<1> QED
  BY <1>1, <1>2

\* A name is its first part and the rest.
LEMMA Prepended ==
    ASSUME NEW S, NEW p \in S, NEW t \in Seq(S), NEW k, k = <<p>> \o t
    PROVE  k \in Seq(S) /\ k # <<>> /\ Head(k) = p /\ Tail(k) = t
<1>1. <<p>> \in Seq(S) /\ Len(<<p>>) = 1 /\ <<p>>[1] = p
  OBVIOUS
<1>2. k \in Seq(S) /\ Len(k) = 1 + Len(t) /\ k[1] = p
  BY <1>1, ConcatProperties
<1>3. \A i \in 1..Len(t) : k[i + 1] = t[i]
  BY <1>1, ConcatProperties
<1>4. k # <<>> /\ Len(t) \in Nat
  BY <1>2
<1>5. Tail(k) \in Seq(S) /\ Len(Tail(k)) = Len(t) /\ \A i \in 1..Len(t) : Tail(k)[i] = k[i + 1]
  BY <1>2, <1>4, HeadTailProperties
<1>6. Tail(k) = t
  BY <1>3, <1>5, SeqEqual
<1> QED
  BY <1>2, <1>4, <1>6

\* A family that names one instance names one that is registered and nobody's own.
LEMMA CanonicalModel ==
    ASSUME NameInv, NEW n \in Seq(STRING), n # <<>>, NEW k, k = Res!Canonical(n)
    PROVE  /\ k \in Seq(STRING) /\ k # <<>> /\ Tail(k) = Tail(n)
           /\ k = n \/ ~Res!IsByok(k)
           /\ Head(n) \in cfg.live => k = n
<1>1. CASE k = n
  BY <1>1
<1>2. CASE k # n
  <2>1. PICK F : F = Res!Family(Head(n))
    OBVIOUS
  <2>2. Res!Cardinality(F) = 1 /\ Head(n) \notin cfg.live /\ k = <<CHOOSE p \in F : TRUE>> \o Tail(n)
    BY <1>2, <2>1, Canonicals DEF CanonicalIs, CanonicalOf
  <2>3. Res!Cardinality(F) = Cardinality(F)
    BY Zenon DEF Res!Cardinality, Cardinality
  <2>4. F # {}
    <3>1. Cardinality({}) = 0
      BY FS_EmptySet
    <3>2. Cardinality(F) = 1
      BY <2>2, <2>3
    <3>3. F = {} => Cardinality(F) = Cardinality({})
      BY Zenon
    <3> QED
      BY <3>1, <3>2, <3>3
  <2>5. PICK p : p = CHOOSE q \in F : TRUE
    OBVIOUS
  <2>6. p \in F
    BY <2>4, <2>5
  <2>7. p \in STRING /\ Owner[p] = None
    BY <2>1, <2>6, ResolutionParameters DEF Res!Family, NameInv, Res!Parameters
  <2>8. k = <<p>> \o Tail(n) /\ Tail(n) \in Seq(STRING)
    BY <2>2, <2>5
  <2>9. k \in Seq(STRING) /\ k # <<>> /\ Head(k) = p /\ Tail(k) = Tail(n)
    BY <2>7, <2>8, Prepended
  <2> QED
    BY <2>2, <2>7, <2>9 DEF Res!IsByok
<1> QED
  BY <1>1, <1>2

\* Whoever is called has a name.
LEMMA ServedIds ==
    ASSUME NameInv, NEW n, IsName(n), NEW c, Res!Evaluate(n, c).status = "ok"
    PROVE  \A m \in Res!Evaluate(n, c).ids : m \in Seq(STRING) /\ m # <<>>
<1>1. ASSUME NEW k, Res!Single(k, c).status = "ok" PROVE Res!Single(k, c).ids = {k}
  BY <1>1 DEF Res!Single, Res!No
<1>2. \A m \in cfg.cached : m \in Seq(STRING) /\ m # <<>>
  BY ResolutionParameters DEF NameInv, Res!Parameters
<1>3. CASE n \in cfg.cached
  BY <1>1, <1>3, Evaluates DEF EvaluateIs, EvaluationOf, IsName
<1>4. CASE n \notin cfg.cached /\ Len(n) > 1 /\ Res!HasPrefix(Head(n))
  <2>1. Res!Evaluate(n, c) = Res!Single(Res!Canonical(n), c)
    BY <1>4, Evaluates DEF EvaluateIs, EvaluationOf
  <2>2. Res!Canonical(n) \in Seq(STRING) /\ Res!Canonical(n) # <<>>
    BY CanonicalModel DEF IsName
  <2> QED
    BY <1>1, <2>1, <2>2
<1>5. CASE n \notin cfg.cached /\ ~(Len(n) > 1 /\ Res!HasPrefix(Head(n)))
  <2>1. Res!Evaluate(n, c) = Judged(Res!Pool(n, c), Allowed(n, c), Up(n, c))
    BY <1>5, Evaluates DEF EvaluateIs, EvaluationOf
  <2>2. Res!Evaluate(n, c).ids = Up(n, c)
    BY <2>1 DEF Judged, Res!No
  <2>3. \A k : Res!Visible(Res!FilterPool(Res!Bare(k)), c) \subseteq cfg.cached
    BY DEF Res!Visible, Res!FilterPool, Res!Bare
  <2>4. Res!Pool(n, c) \subseteq cfg.cached
    BY <2>3 DEF Res!Pool
  <2> QED
    BY <1>2, <2>2, <2>4 DEF Allowed, Up
<1> QED
  BY <1>3, <1>4, <1>5

-----------------------------------------------------------------------------
(* The route: what it judges the client's name by.                           *)

First   == Res!Evaluate(client, caller)
Alias   == Res!ApplyAlias(ctx, client, IF First.status = "ok" THEN "alias" ELSE "fallback")
Second  == IF Alias.name = client THEN First ELSE Res!Evaluate(Alias.name, caller)
Standby == Res!Mapped(client, ctx.profile, "fallback")
Rescue  == Res!Evaluate(Standby, caller)
Verdict ==
    IF First.status = "ok"
    THEN IF Second.status = "outage" /\ Standby # client /\ Rescue.status = "ok" /\ Alias.name # client
         THEN Rescue ELSE Second
    ELSE IF Second.status = "ok" THEN Second ELSE First

LEMMA Outcome ==
    ASSUME NameInv, Res!Resolve
    PROVE  /\ layer = "authenticated" /\ route # "deployment"
           /\ UNCHANGED <<cfg, lists, turned, reloads, route, caller, client, body>>
           /\ \/ Verdict.status = "ok" /\ \E m \in Verdict.ids : Res!Choose(Alias.ctx, m, client)
              \/ /\ Verdict.status # "ok" /\ ctx' = Alias.ctx
                 /\ Res!Fail(Verdict.status, IF First.status = "ok" THEN Alias.name ELSE client)
<1>1. /\ layer = "authenticated" /\ route # "deployment"
      /\ UNCHANGED <<cfg, lists, turned, reloads, route, caller, client, body>>
  BY DEF Res!Resolve, Res!config
<1>2. Res!SourceName(ctx, body) = client
  BY <1>1, SourceIsClient DEF NameInv, Tracking, Early
<1> QED
  BY <1>1, <1>2 DEF Res!Resolve, First, Alias, Second, Standby, Rescue, Verdict

\* What the route's context and its verdict are made of.
LEMMA RouteApplies ==
    ASSUME NameInv, layer = "authenticated"
    PROVE  /\ Remembers(ctx) /\ Remembers(Alias.ctx)
           /\ ctx.profile = IF caller # Admin THEN ProfileOf[caller] ELSE None
           /\ IsName(client) /\ IsName(Alias.name) /\ IsName(Standby)
           /\ reloads = 0 => Alias.name = IF First.status = "ok" THEN Res!Mapped(client, ctx.profile, "alias")
                                          ELSE Standby
<1>1. /\ Remembers(ctx) /\ Listed /\ IsName(client)
      /\ ctx.profile = IF caller # Admin THEN ProfileOf[caller] ELSE None
  BY DEF NameInv, Tracking, Early, Listed
<1>2. PICK kind : kind = IF First.status = "ok" THEN "alias" ELSE "fallback"
  OBVIOUS
<1>3. kind \in Res!Kinds /\ "fallback" \in Res!Kinds /\ ctx.profile \in Res!ProfileIds \cup {None}
  BY <1>1, <1>2 DEF Res!Kinds, Remembers, Context
<1>4. Alias = Res!ApplyAlias(ctx, client, kind)
  BY <1>2 DEF Alias
<1>5. /\ Remembers(Alias.ctx) /\ IsName(Alias.name)
      /\ reloads = 0 => Alias.name = Res!Mapped(client, ctx.profile, kind)
  BY <1>1, <1>3, <1>4, AliasApplied
<1>6. IsName(Standby)
  BY <1>1, <1>3, RuledNames DEF Standby
<1>7. reloads = 0 => Alias.name = IF First.status = "ok" THEN Res!Mapped(client, ctx.profile, "alias") ELSE Standby
  <2>1. CASE First.status = "ok"
    BY <1>2, <1>5, <2>1
  <2>2. CASE First.status # "ok"
    BY <1>2, <1>5, <2>2 DEF Standby
  <2> QED
    BY <2>1, <2>2
<1> QED
  BY <1>1, <1>5, <1>6, <1>7

LEMMA ResolveStep == ASSUME NameInv, Res!Resolve PROVE NameInv'
<1>1. /\ layer = "authenticated" /\ route # "deployment" /\ Listed
      /\ UNCHANGED <<cfg, lists, turned, reloads, route, caller, client, body>>
      /\ route # "untracked" => tracked = model
  BY Outcome DEF NameInv, Tracking, Early
<1>2. Remembers(Alias.ctx) /\ IsName(client)
  BY <1>1, RouteApplies
<1>6. ASSUME Verdict.status = "ok" PROVE \A m \in Verdict.ids : m \in Seq(STRING) /\ m # <<>>
  <2>1. Verdict \in {First, Res!Evaluate(Alias.name, caller), Rescue}
    BY DEF Verdict, Second
  <2>2. IsName(Alias.name) /\ IsName(Standby)
    BY <1>1, RouteApplies
  <2> QED
    BY <1>2, <1>6, <2>1, <2>2, ServedIds DEF First, Rescue
<1>3. ASSUME Verdict.status = "ok", NEW m \in Verdict.ids, Res!Choose(Alias.ctx, m, client)
      PROVE  NameInv'
  <2>1. PICK c : c = Alias.ctx
    OBVIOUS
  <2>2. /\ layer' = "resolved" /\ model' = m
        /\ ctx' = [c EXCEPT !.original = IF @ = None /\ m # client THEN client ELSE @]
        /\ tracked' = IF route = "untracked" THEN tracked ELSE m
    BY <1>3, <2>1 DEF Res!Choose
  <2>3. ctx'.original = IF c.original = None /\ m # client THEN client ELSE c.original
    BY <1>2, <2>1, <2>2 DEF Remembers, Context
  <2>4. c.original # None => c.original = client
    BY <1>2, <2>1 DEF Remembers
  <2>5. Resolved'
    BY <1>1, <1>2, <1>3, <1>6, <2>2, <2>3, <2>4 DEF Resolved, IsName
  <2>6. Listed' /\ Tracking' /\ Res!NamedAsServed' /\ Res!OwnInstanceOnly'
    BY <1>1, <2>2 DEF Listed, Tracking, Early, Res!NamedAsServed, Res!OwnInstanceOnly
  <2> QED
    BY <1>1, <2>5, <2>6 DEF NameInv
<1>4. ASSUME Verdict.status # "ok", Res!Fail(Verdict.status, IF First.status = "ok" THEN Alias.name ELSE client)
      PROVE  NameInv'
  <2>1. PICK n : n = IF First.status = "ok" THEN Alias.name ELSE client
    OBVIOUS
  <2>2. layer' = "failed" /\ failure' = [status |-> Verdict.status, name |-> n]
    BY <1>4, <2>1 DEF Res!Fail
  <2>3. Verdict = Res!Evaluate(n, caller)
    BY <1>4, <2>1 DEF Verdict, First, Second
  <2>4. Verdict.status = "denied" => ~Res!OwnModel(n)
    BY <2>3, DeniedIsNotOwn
  <2>5. Res!OwnModel(n)' <=> Res!OwnModel(n)
    BY <1>1 DEF Res!OwnModel, Res!IsByok
  <2>6. Res!OwnInstanceOnly'
    BY <2>2, <2>4, <2>5 DEF Res!OwnInstanceOnly, Res!OwnModel, Res!IsByok
  <2>7. Listed' /\ Tracking' /\ Resolved' /\ Res!NamedAsServed'
    BY <1>1, <2>2 DEF Listed, Tracking, Early, Resolved, Res!NamedAsServed
  <2> QED
    BY <1>1, <2>6, <2>7 DEF NameInv
<1> QED
  BY <1>3, <1>4, Outcome

\* With the lists as they were, the verdict is the answer that the two of them promise.
LEMMA AnswersByName ==
    ASSUME NameInv, Res!Resolve, reloads = 0
    PROVE  (IF layer' = "resolved" THEN <<"ok", model'>> ELSE <<failure'.status, failure'.name>>)
               \in Res!Answers(client, caller)
<1>1. layer = "authenticated"
  BY Outcome
<1>2. PICK regular : regular = Res!Mapped(client, ctx.profile, "alias")
  OBVIOUS
<1>3. PICK standby : standby = Standby
  OBVIOUS
<1>4. PICK used : used = IF First.status = "ok" THEN regular ELSE client
  OBVIOUS
<1>5. Alias.name = IF First.status = "ok" THEN regular ELSE standby
  BY <1>1, <1>2, <1>3, RouteApplies
<1>6. PICK who : who = IF caller = Admin THEN Default ELSE ProfileOf[caller]
  OBVIOUS
<1>7. Res!Mapped(client, who, "alias") = regular /\ Res!Mapped(client, who, "fallback") = standby
  BY <1>1, <1>2, <1>3, <1>6, RouteApplies DEF Standby, Res!Mapped
<1>8. PICK saved \in BOOLEAN : saved <=> /\ standby # client /\ Rescue.status = "ok"
                                         /\ used = client \/ Res!Evaluate(used, caller).status = "outage"
  OBVIOUS
<1>9. PICK result : result = IF Res!Evaluate(used, caller).status # "ok" /\ saved THEN Rescue
                             ELSE Res!Evaluate(used, caller)
  OBVIOUS
<1>10. Res!Answers(client, caller) = IF result.status = "ok" THEN {<<"ok", m>> : m \in result.ids}
                                     ELSE {<<result.status, used>>}
  <2>1. PICK tried : tried = Res!Evaluate(used, caller)
    OBVIOUS
  <2>2. PICK rescue : rescue = Res!Evaluate(standby, caller)
    OBVIOUS
  <2>3. /\ used = IF Res!Evaluate(client, caller).status = "ok" THEN regular ELSE client
        /\ Rescue = rescue
    BY <1>3, <1>4, <2>2 DEF First, Rescue
  <2>4. result = CASE tried.status = "ok" -> tried
                   [] tried.status # "ok" /\ saved -> rescue
                   [] OTHER -> tried
    BY <1>9, <2>1, <2>3
  <2> QED
    BY <1>6, <1>7, <1>8, <2>1, <2>2, <2>3, <2>4 DEF Res!Answers
<1>11. Verdict = result
  <2>1. CASE First.status = "ok"
    <3>1. Second = Res!Evaluate(used, caller) /\ (used = client => Second.status = "ok")
      BY <1>4, <1>5, <2>1 DEF Second, First
    <3> QED
      BY <1>3, <1>4, <1>5, <1>8, <1>9, <2>1, <3>1 DEF Verdict
  <2>2. CASE First.status # "ok"
    <3>1. Second = IF standby = client THEN First ELSE Rescue
      BY <1>3, <1>5, <2>2 DEF Second, Rescue
    <3>2. Res!Evaluate(used, caller) = First
      BY <1>4, <2>2 DEF First
    <3> QED
      BY <1>4, <1>8, <1>9, <2>2, <3>1, <3>2 DEF Verdict
  <2> QED
    BY <2>1, <2>2
<1>12. Verdict.status # "ok" => used = IF First.status = "ok" THEN Alias.name ELSE client
  BY <1>4, <1>5
<1> QED
  BY <1>10, <1>11, <1>12, Outcome DEF Res!Choose, Res!Fail

-----------------------------------------------------------------------------
(* Access is enforced, and the call goes out.                                *)

LEMMA RefusedIs ==
    ASSUME NEW m
    PROVE  /\ Res!Refused(m) = "ok" => Res!MayUse(caller, m) /\ ~Res!InOutage(m)
           /\ Res!Refused(m) = "denied" => ~Res!IsByok(m)
BY DEF Res!Refused

\* A user's own instance is used by its owner.
LEMMA OwnersUse ==
    ASSUME NameInv, NEW m, Res!IsByok(m), Res!MayUse(caller, m)
    PROVE  Owner[Head(m)] = caller
<1>1. caller # PreAuth
  BY ResolutionParameters DEF NameInv, Res!Parameters
<1> QED
  BY <1>1 DEF Res!MayUse

LEMMA EnforceStep == ASSUME NameInv, Res!Enforce PROVE NameInv'
<1>1. /\ layer = "resolved" /\ Listed /\ layer' \in {"served", "failed"}
      /\ UNCHANGED <<cfg, lists, turned, reloads, route, caller, client, ctx, body, model, tracked>>
      /\ route # "deployment" /\ (route # "untracked" => tracked = model)
      /\ client = IF ctx.original # None THEN ctx.original ELSE model
      /\ model \in Seq(STRING) /\ model # <<>>
  BY DEF Res!Enforce, Res!Fail, Res!config, NameInv, Resolved
<1>2. Listed' /\ Tracking' /\ Resolved'
  BY <1>1 DEF Listed, Tracking, Early, Resolved
<1>3. CASE layer' = "failed"
  <2>1. failure' \in {[status |-> Res!Refused(model), name |-> model], [status |-> "invalid", name |-> model]}
    BY <1>3 DEF Res!Enforce, Res!Fail
  <2>2. failure'.name = model /\ (failure'.status = "denied" => ~Res!IsByok(model))
    BY <2>1, RefusedIs
  <2>3. Res!NamedAsServed' /\ Res!OwnInstanceOnly'
    BY <1>3, <2>2 DEF Res!NamedAsServed, Res!OwnInstanceOnly, Res!OwnModel, Res!IsByok
  <2> QED
    BY <1>1, <1>2, <2>3 DEF NameInv
<1>4. CASE layer' = "served"
  <2>1. Res!Refused(model) = "ok" /\ called' \in Res!Dispatched(model)
    BY <1>4 DEF Res!Enforce, Res!Fail
  <2>2. Res!MayUse(caller, model) /\ ~Res!InOutage(model)
    BY <2>1, RefusedIs
  <2>3. /\ Res!HasPrefix(Head(model)) => called' = Res!Canonical(model)
        /\ ~Res!HasPrefix(Head(model)) => ~Res!IsByok(called')
    BY <2>1 DEF Res!Dispatched
  <2>4. Head(model) \in cfg.live => Res!HasPrefix(Head(model)) /\ Res!Canonical(model) = model
    BY <1>1, CanonicalModel DEF Res!HasPrefix
  <2>5. Res!Canonical(model) = model \/ ~Res!IsByok(Res!Canonical(model))
    BY <1>1, CanonicalModel
  <2>6. Res!IsByok(called') => Owner[Head(called')] = caller
    BY <2>2, <2>3, <2>5, OwnersUse
  <2>7. Head(model) \in cfg.live => ~Res!InOutage(called')
    BY <2>2, <2>3, <2>4
  <2>8. PICK it : it = called'
    OBVIOUS
  <2>9. /\ Res!Canonical(model)' = Res!Canonical(model) /\ Res!HasPrefix(Head(model))' = Res!HasPrefix(Head(model))
        /\ Res!InOutage(it)' = Res!InOutage(it)
    BY <1>1, RegistryFrame
  <2>10. Res!NamedAsServed'
    BY <1>1, <2>3, <2>9 DEF Res!NamedAsServed
  <2>11. Res!OwnInstanceOnly'
    BY <1>1, <1>4, <2>6, <2>7, <2>8, <2>9 DEF Res!OwnInstanceOnly, Res!IsByok
  <2> QED
    BY <1>1, <1>2, <2>10, <2>11 DEF NameInv
<1> QED
  BY <1>1, <1>3, <1>4

\* A deployment: what was recorded when the caller became known, or what it is mapped to now.
LEMMA DeployStep == ASSUME NameInv, Res!Deploy PROVE NameInv'
<1>1. /\ layer = "authenticated" /\ route = "deployment" /\ Listed /\ layer' \in {"served", "failed"}
      /\ UNCHANGED <<cfg, lists, turned, reloads, route, caller, client, body>>
      /\ Remembers(ctx) /\ model # None /\ tracked = model /\ Traced(ctx, model)
      /\ turned = 0 /\ reloads = 0 => model = Best(ctx.profile, caller)
  BY DEF Res!Deploy, Res!Fail, Res!config, NameInv, Tracking, Early
<1>2. PICK m : m = Res!MapName(ctx, client, caller)
  OBVIOUS
<1>3. /\ Remembers(m.ctx) /\ Traced(m.ctx, model) /\ Traced(m.ctx, m.name) /\ IsName(m.name)
      /\ reloads = 0 => m.name = Best(ctx.profile, caller)
  <2>1. Traced(ctx, client)
    BY DEF Traced
  <2> QED
    BY <1>1, <1>2, <2>1, NameMapped
<1>4. PICK name : name = Res!Canonical(m.name)
  OBVIOUS
<1>5. name \in Seq(STRING) /\ name # <<>>
  BY <1>3, <1>4, CanonicalModel DEF IsName
<1>6. PICK here : here = Res!Instance
  OBVIOUS
<1>7. PICK there : there = <<here>> \o Tail(name)
  OBVIOUS
<1>8. PICK down : down = IF Res!InOutage(there) THEN {there}
                         ELSE IF Head(name) # here /\ Res!InOutage(<<here>> \o Tail(client))
                         THEN {<<here>> \o Tail(client)} ELSE {}
  OBVIOUS
<1>9. Listed' /\ Tracking' /\ Resolved'
  BY <1>1 DEF Listed, Tracking, Early, Resolved
<1>10. CASE layer' = "failed"
  <2>1. \/ failure'.status \in {"unavailable", "outage"}
        \/ failure' = [status |-> Res!Refused(name), name |-> name]
    BY <1>2, <1>4, <1>6, <1>7, <1>8, <1>10 DEF Res!Deploy, Res!Fail
  <2>2. failure'.status = "denied" => ~Res!IsByok(failure'.name)
    BY <2>1, RefusedIs
  <2> QED
    BY <1>1, <1>9, <1>10, <2>2 DEF NameInv, Res!NamedAsServed, Res!OwnInstanceOnly, Res!OwnModel, Res!IsByok
<1>11. CASE layer' = "served"
  <2>1. /\ here \in cfg.live /\ Owner[here] \in {None, caller}
        /\ ctx' = [m.ctx EXCEPT !.original = IF @ = None /\ name # m.name THEN m.name ELSE @]
        /\ ~(Res!MayUse(caller, name) /\ down # {}) /\ Res!Refused(name) = "ok" /\ called' = there
        /\ IF name = m.name THEN UNCHANGED <<model, tracked>> ELSE model' = name /\ tracked' = name
    BY <1>2, <1>4, <1>6, <1>7, <1>8, <1>11 DEF Res!Deploy, Res!Fail
  <2>2. Head(there) = here /\ Tail(there) = Tail(name)
    <3>1. here \in STRING /\ Tail(name) \in Seq(STRING)
      BY <1>5, <2>1, ResolutionParameters DEF NameInv, Res!Parameters
    <3> QED
      BY <1>7, <3>1, Prepended
  <2>3. ~Res!InOutage(there)
    BY <1>8, <2>1, RefusedIs
  <2>4. Res!InOutage(there)' <=> Res!InOutage(there)
    BY <1>1, RegistryFrame
  <2>5. Res!OwnInstanceOnly'
    <3>1. Res!IsByok(there) => Owner[Head(there)] = caller
      BY <2>1, <2>2 DEF Res!IsByok
    <3>2. called' = there
      BY <2>1
    <3> QED
      BY <1>1, <1>11, <2>3, <2>4, <3>1, <3>2 DEF Res!OwnInstanceOnly, Res!IsByok
  <2>6. client = IF ctx'.original # None THEN ctx'.original ELSE model'
    <3>1. ctx'.original = IF m.ctx.original = None /\ name # m.name THEN m.name ELSE m.ctx.original
      BY <1>3, <2>1 DEF Remembers, Context
    <3>2. m.ctx.original # None => m.ctx.original = client
      BY <1>3 DEF Remembers
    <3>3. m.ctx.original = None => m.name = client /\ model = client
      <4>1. client # None
        BY <1>1 DEF Listed, IsName
      <4> QED
        BY <1>3, <4>1 DEF Remembers, Traced
    <3> QED
      BY <1>3, <2>1, <3>1, <3>2, <3>3 DEF IsName
  <2>7. turned + reloads = 0 => Tail(tracked') = Tail(called')
    <3>1. turned + reloads = 0 => turned = 0 /\ reloads = 0
      BY DEF NameInv
    <3>2. turned = 0 /\ reloads = 0 => tracked = m.name
      BY <1>1, <1>3
    <3> QED
      BY <2>1, <2>2, <3>1, <3>2
  <2>8. Res!NamedAsServed'
    BY <1>1, <2>6, <2>7 DEF Res!NamedAsServed
  <2> QED
    BY <1>1, <1>9, <2>5, <2>8 DEF NameInv
<1> QED
  BY <1>1, <1>10, <1>11

\* An edit of the configuration, or a reload of the lists, is counted.
LEMMA EditedNames == ASSUME NameInv, Res!Change \/ Res!Reload PROVE NameInv'
<1>1. /\ layer \notin {"served", "failed"}
      /\ UNCHANGED <<layer, route, caller, client, ctx, body, model, tracked, failure, called>>
      /\ turned' \in Nat /\ reloads' \in Nat /\ turned' >= turned /\ reloads' >= reloads
      /\ cfg' \in Configs /\ lists' \in [Scopes -> Lists]
      /\ (UNCHANGED <<cfg, turned>> /\ reloads' # 0) \/ (UNCHANGED <<lists, reloads>> /\ turned' # 0)
  <2>1. CASE Res!Change
    BY <2>1 DEF Res!Change, Res!request, NameInv, Listed
  <2>2. CASE Res!Reload
    <3>1. DOMAIN lists = Scopes
      BY DEF NameInv, Listed
    <3>2. PICK s \in Scopes, l \in Lists : lists' = [lists EXCEPT ![s] = l]
      BY <2>2, <3>1 DEF Res!Reload
    <3>3. lists' \in [Scopes -> Lists]
      BY <3>2 DEF NameInv, Listed
    <3> QED
      BY <2>2, <3>3 DEF Res!Reload, Res!request, NameInv
  <2> QED
    BY <2>1, <2>2
<1>2. Tracking'
  <2>1. ASSUME NEW c, Remembers(c) PROVE Remembers(c)'
    BY <1>1, <2>1 DEF Remembers, Ruled, NameInv
  <2>2. ASSUME NEW c, NEW n, Traced(c, n) PROVE Traced(c, n)'
    BY <1>1, <2>2 DEF Traced
  <2>3. turned' # 0 \/ reloads' # 0
    BY <1>1
  <2> QED
    BY <1>1, <2>3 DEF NameInv, Tracking, Remembers, Traced, Ruled
<1>3. Listed' /\ Resolved' /\ Res!NamedAsServed' /\ Res!OwnInstanceOnly'
  BY <1>1 DEF NameInv, Listed, Resolved, Res!NamedAsServed, Res!OwnInstanceOnly
<1> QED
  BY <1>1, <1>2, <1>3 DEF NameInv

\* Nothing of it changes in a step of the other parts.
LEMMA NamesRest == ASSUME NameInv, UNCHANGED resolution PROVE NameInv'
<1>1. UNCHANGED <<cfg, lists, turned, reloads, layer, route, caller, client, ctx, body, model, tracked, failure, called>>
  BY DEF resolution
<1>2. PICK p : p = ctx.profile
  OBVIOUS
<1>3. PICK who : who = caller
  OBVIOUS
<1>4. Best(p, who)' = Best(p, who)
  BY <1>1, BestFrame
<1>5. Best(ctx.profile, caller)' = Best(ctx.profile, caller)
  BY <1>1, <1>2, <1>3, <1>4 DEF Best
<1>6. Listed' /\ Tracking' /\ Resolved'
  BY <1>1, <1>5 DEF NameInv, Listed, Tracking, Resolved, Remembers, Traced, Ruled
<1>7. PICK to, it, label : to = model /\ it = called /\ label = tracked
  OBVIOUS
<1>8. /\ Res!Canonical(label)' = Res!Canonical(label) /\ Res!HasPrefix(Head(to))' = Res!HasPrefix(Head(to))
      /\ Res!InOutage(it)' = Res!InOutage(it)
  BY <1>1, RegistryFrame
<1>9. Res!NamedAsServed'
  BY <1>1, <1>7, <1>8 DEF NameInv, Res!NamedAsServed
<1>10. Res!OwnInstanceOnly'
  BY <1>1, <1>7, <1>8 DEF NameInv, Res!OwnInstanceOnly, Res!OwnModel, Res!IsByok
<1> QED
  BY <1>1, <1>6, <1>9, <1>10 DEF NameInv

LEMMA NamesStep == NameInv /\ [Res!Next]_resolution => NameInv'
<1> SUFFICES ASSUME NameInv, [Res!Next]_resolution PROVE NameInv'
  OBVIOUS
<1>1. ASSUME UNCHANGED resolution PROVE NameInv'
  BY <1>1, NamesRest
<1>2. Res!Done => UNCHANGED resolution
  BY DEF Res!Done, Res!vars, Res!config, Res!request, resolution
<1> QED
  BY <1>1, <1>2, TrackStep, AuthenticateStep, ResolveStep, EnforceStep, DeployStep, EditedNames DEF Res!Next

-----------------------------------------------------------------------------
\* What the listings show can be served, whatever the configuration.
LEMMA ListingsServed == Res!ListedIsServed
<1>1. ASSUME NEW m \in cfg.cached, NEW c, Res!MayUse(c, m) PROVE Res!Evaluate(m, c).status \in {"ok", "outage"}
  <2>1. Res!Evaluate(m, c) = Res!Single(m, c)
    BY Evaluates DEF EvaluateIs, EvaluationOf
  <2> QED
    BY <1>1, <2>1 DEF Res!Single, Res!No
<1>2. ASSUME NEW u \in Callers, NEW m \in Res!EnabledFor(u) PROVE m \in cfg.cached /\ Res!MayUse(u, m)
  <2>1. u # PreAuth
    BY ResolutionParameters DEF Res!Parameters
  <2>2. m \in cfg.cached /\ IF Res!IsByok(m) THEN Owner[Head(m)] = u /\ Res!Gate(m)
                            ELSE Res!ProfileAllows(ProfileOf[u], m)
    BY DEF Res!EnabledFor
  <2> QED
    BY <2>1, <2>2 DEF Res!MayUse
<1>3. ASSUME NEW m \in Res!EnabledForAll PROVE m \in cfg.cached /\ Res!MayUse(Admin, m)
  <2>1. Admin # PreAuth
    BY ResolutionParameters DEF Res!Parameters
  <2> QED
    BY <2>1 DEF Res!EnabledForAll, Res!MayUse
<1> QED
  BY <1>1, <1>2, <1>3 DEF Res!ListedIsServed

LEMMA NamesInCaches == MCSpec => Res!Init /\ [][Res!Next]_resolution
<1>1. MCInit => Res!Init
  BY DEF MCInit
<1>2. [MCNext]_<<vars, authCache, resolution, part>> => [Res!Next]_resolution
  BY DEF MCNext, resolution
<1> QED
  BY <1>1, <1>2, PTL DEF MCSpec

\* For any registry, callers, rule lists and configurations: a request is answered by its
\* client's own name, whatever the earlier layers made of it and whatever is edited in
\* between (resolve_model_for_request, apply_alias); and it is echoed, recorded, permitted
\* and listed under the names that go with that.
THEOREM NamesAreKept == MCSpec => AnsweredByClientsName
<1> DEFINE A == Res!Resolve /\ reloads = 0 =>
                   (IF layer' = "resolved" THEN <<"ok", model'>> ELSE <<failure'.status, failure'.name>>)
                       \in Res!Answers(client, caller)
<1>1. NameInv /\ [Res!Next]_resolution => A
  BY AnswersByName
<1>2. NameInv => (part = "names" => Res!NamesKept)
  BY ListingsServed DEF NameInv, Res!NamesKept
<1>3. MCSpec => []NameInv /\ [][Res!Next]_resolution
  BY InitNames, NamesStep, NamesInCaches, PTL
<1>4. MCSpec => [](part = "names" => Res!NamesKept)
  BY <1>2, <1>3, PTL
<1>5. A => [A]_(Res!vars)
  OBVIOUS
<1>6. MCSpec => [][A]_(Res!vars)
  <2>1. NameInv /\ [Res!Next]_resolution => [A]_(Res!vars)
    BY <1>1
  <2>2. UNCHANGED resolution => UNCHANGED Res!vars
    BY DEF resolution, Res!vars, Res!config, Res!request
  <2> HIDE DEF A
  <2> QED
    BY <1>3, <2>1, <2>2, PTL
<1> QED
  BY <1>4, <1>6 DEF AnsweredByClientsName, Res!EarlierLayersDoNotShow
=============================================================================
