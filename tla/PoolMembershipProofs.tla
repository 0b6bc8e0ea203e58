----------------------- MODULE PoolMembershipProofs -----------------------
(***************************************************************************)
(* OwnerKept, JoinsFitOverride and SettlesAgainstMembers for any users,    *)
(* pools, invitations and requests.                                        *)
(*                                                                         *)
(* A removal transfers the pool of the owner it has read, and OwnerKept    *)
(* does not count the pools where that was another; a deletion takes the   *)
(* pools the account still owns.  What has to be added for an inductive    *)
(* invariant is what a request holds on to: the invitation it refers to    *)
(* was once sent (Refers); inside the guard, it holds the guard (Guarded), *)
(* and a joiner has room (Room), since only a join adds a member and only  *)
(* an edit of the cap lowers it, each under the guard.                     *)
(***************************************************************************)
EXTENDS PoolMembership, FiniteSetTheorems, WellFoundedInduction, TLAPS

Refers ==
    \A t \in Tasks :
        /\ request[t].op \in {"accept", "decline", "cancel"} =>
              request[t].invite \in Invites /\ invite[request[t].invite].status # "unused"
        /\ request[t].op \in {"accept", "size", "dissolve"} => request[t].pool \in Pools
        /\ request[t].op = "delete" => request[t].who \in Users

Guarded ==
    \A t \in Tasks : request[t].op \in {"accept", "size"} /\ request[t].at = "in" =>
        guard[request[t].pool] = t

Room ==
    \A t \in Tasks : LET p == request[t].pool IN
        request[t].op = "accept" /\ request[t].at = "in" /\ p \in Live /\ pool[p].size # None =>
            Cardinality(Members(p)) < pool[p].size

IInv == TypeOK /\ Refers /\ OwnerKept /\ Guarded /\ Room

-----------------------------------------------------------------------------
\* A pool with members has an earliest one.
LEMMA EarliestIn ==
    ASSUME Types, NEW S \in SUBSET Users, S # {}
    PROVE  Earliest(S) \in S
<1> DEFINE Before(u) == {v \in S : joined[v] < joined[u]}
           T == {Before(u) : u \in S}
<1>1. IsFiniteSet(S) /\ FiniteSubsetsOf(S) = SUBSET S
  BY PoolAssumption, FS_Subset, FS_FiniteSubsetsOfFinite
<1>2. IsWellFoundedOn(StrictSubsetOrdering(S), SUBSET S)
  BY <1>1, FS_StrictSubsetOrderingWellFounded
<1>3. T \subseteq SUBSET S /\ T # {}
  OBVIOUS
<1>4. \E b \in T : \A c \in T : ~ (<<c, b>> \in StrictSubsetOrdering(S))
  <2> HIDE DEF T
  <2> QED
    BY <1>2, <1>3, WFMin
<1>5. PICK u \in S : \A v \in S : ~ (<<Before(v), Before(u)>> \in StrictSubsetOrdering(S))
  BY <1>4
<1>6. ASSUME NEW v \in S, joined[v] < joined[u] PROVE FALSE
  <2>1. joined[u] \in Nat /\ joined[v] \in Nat /\ \A w \in S : joined[w] \in Nat
    BY DEF Types
  <2>2. v \in Before(u) /\ v \notin Before(v) /\ Before(v) \subseteq Before(u)
    BY <1>6, <2>1
  <2>3. <<Before(v), Before(u)>> \in StrictSubsetOrdering(S)
    BY <2>2 DEF StrictSubsetOrdering
  <2>4. QED
    BY <1>5, <2>3
<1>7. \A v \in S : joined[u] <= joined[v]
  BY <1>6 DEF Types
<1>8. QED
  BY <1>7 DEF Earliest

LEMMA InitInv == Init => IInv
BY PoolAssumption DEF Init, IInv, TypeOK, Types, ForeignKeys, Refers, OwnerKept, Guarded, Room,
   Live, Unused, NoInvite, Idle

-----------------------------------------------------------------------------
(* What every request does to the tables.                                  *)

\* A request begins: only its own record changes.
LEMMA BeginKeeps ==
    ASSUME IInv, NEW t \in Tasks, NEW r, Begin(t, r),
           r \in [op : Ops, at : {"read"}, who : Users \cup {None}, by : Users \cup {None},
                  pool : Pools \cup {None}, invite : Invites \cup {None},
                  owner : Users \cup {None}, size : Sizes \cup {None}, saw : SUBSET Users],
           r.op \in {"accept", "decline", "cancel"} =>
               r.invite \in Invites /\ invite[r.invite].status # "unused",
           r.op \in {"accept", "size", "dissolve"} => r.pool \in Pools,
           r.op = "delete" => r.who \in Users
    PROVE  IInv'
<1>1. request' = [request EXCEPT ![t] = r]
  BY DEF Begin
<1>2. UNCHANGED <<accounts, pool, memberOf, joined, clock, invite, defaultSize, guard,
                  orphaned>>
  BY DEF Begin, database
<1>3. Types'
  BY <1>1, <1>2 DEF IInv, TypeOK, Types
<1>4. ForeignKeys' /\ OwnerKept'
  BY <1>2 DEF IInv, TypeOK, ForeignKeys, OwnerKept, Live
<1>5. Refers' /\ Guarded' /\ Room'
  BY <1>1, <1>2 DEF IInv, TypeOK, Types, Refers, Guarded, Room, Live, Members
<1>6. QED
  BY <1>3, <1>4, <1>5 DEF IInv, TypeOK

\* A request ends without a write.
LEMMA FinishKeeps ==
    ASSUME IInv, NEW t \in Tasks, Finish(t), UNCHANGED <<database, defaultSize, orphaned>>
    PROVE  IInv'
<1>1. request' = [request EXCEPT ![t] = Idle]
      /\ guard' = [p \in Pools |-> IF guard[p] = t THEN None ELSE guard[p]]
  BY DEF Finish, Released
<1>2. UNCHANGED <<accounts, pool, memberOf, joined, clock, invite, defaultSize, orphaned>>
  BY DEF database
<1>3. Types'
  BY <1>1, <1>2 DEF IInv, TypeOK, Types, Idle
<1>4. ForeignKeys' /\ OwnerKept'
  BY <1>2 DEF IInv, TypeOK, ForeignKeys, OwnerKept, Live
<1>5. Refers' /\ Guarded' /\ Room'
  BY <1>1, <1>2 DEF IInv, TypeOK, Types, Refers, Guarded, Room, Live, Members, Idle
<1>6. QED
  BY <1>3, <1>4, <1>5 DEF IInv, TypeOK

\* A request enters the guard; one that joins has room.
LEMMA EnterKeeps ==
    ASSUME IInv, NEW t \in Tasks, NEW r, EnterGuard(t, r),
           r \in [op : Ops, at : {"read"}, who : Users \cup {None}, by : Users \cup {None},
                  pool : Pools \cup {None}, invite : Invites \cup {None},
                  owner : Users \cup {None}, size : Sizes \cup {None}, saw : SUBSET Users],
           r.op = request[t].op, r.invite = request[t].invite, r.who = request[t].who,
           r.op # "delete" => r.pool = request[t].pool,
           r.op = "accept" => Cardinality(Members(r.pool)) < MaxMembers(r.pool)
    PROVE  IInv'
<1> DEFINE p0 == request[t].pool
           r1 == [r EXCEPT !.at = "in", !.saw = Members(r.pool)]
<1>1. /\ p0 # None => guard[p0] = None
      /\ guard' = [p \in Pools |-> IF p = p0 THEN t ELSE guard[p]]
      /\ request' = [request EXCEPT ![t] = r1]
  BY DEF EnterGuard
<1>2. UNCHANGED <<accounts, pool, memberOf, joined, clock, invite, defaultSize, orphaned>>
  BY DEF EnterGuard, database
<1>3. r1 \in [op : Ops, at : {"in"}, who : Users \cup {None}, by : Users \cup {None},
              pool : Pools \cup {None}, invite : Invites \cup {None},
              owner : Users \cup {None}, size : Sizes \cup {None}, saw : SUBSET Users]
      /\ r1.op = r.op /\ r1.pool = r.pool /\ r1.invite = r.invite /\ r1.who = r.who
  BY DEF Members
<1>4. Types'
  <2> HIDE DEF r1, p0
  <2> QED
    BY <1>1, <1>2, <1>3 DEF IInv, TypeOK, Types
<1>5. ForeignKeys' /\ OwnerKept'
  BY <1>2 DEF IInv, TypeOK, ForeignKeys, OwnerKept, Live
<1>6. request \in [Tasks -> [op : Ops \cup {"none"}, at : {"idle", "read", "in"},
                             who : Users \cup {None}, by : Users \cup {None},
                             pool : Pools \cup {None}, invite : Invites \cup {None},
                             owner : Users \cup {None}, size : Sizes \cup {None},
                             saw : SUBSET Users]]
      /\ guard \in [Pools -> Tasks \cup {None}]
  BY DEF IInv, TypeOK, Types
<1>7. \A s \in Tasks : request'[s] = IF s = t THEN r1 ELSE request[s]
  BY <1>1, <1>6
<1>8. Refers'
  <2> HIDE DEF r1
  <2> QED
    BY <1>2, <1>3, <1>7 DEF IInv, Refers
<1>9. Guarded'
  <2> SUFFICES ASSUME NEW s \in Tasks, request'[s].op \in {"accept", "size"}, request'[s].at = "in"
               PROVE  guard'[request'[s].pool] = s
    BY DEF Guarded
  <2>1. CASE s = t
    <3>1. request[t].op \in {"accept", "size"} /\ r.op = request[t].op
      BY <1>3, <1>7, <2>1
    <3>2. r.pool = p0 /\ p0 \in Pools
      BY <3>1 DEF IInv, Refers
    <3> HIDE DEF r1, p0
    <3> QED
      BY <1>1, <1>3, <1>7, <2>1, <3>2
  <2>2. CASE s # t
    <3>1. guard[request[s].pool] = s /\ request[s].pool \in Pools /\ s # None
      BY <1>7, <2>2, PoolAssumption DEF IInv, Guarded, Refers
    <3> HIDE DEF r1, p0
    <3> QED
      BY <1>1, <1>7, <2>2, <3>1, PoolAssumption
  <2> QED
    BY <2>1, <2>2
<1>10. Room'
  <2> SUFFICES ASSUME NEW s \in Tasks, request'[s].op = "accept", request'[s].at = "in",
                      request'[s].pool \in Live, pool[request'[s].pool].size # None
               PROVE  Cardinality(Members(request'[s].pool)) < pool[request'[s].pool].size
    BY <1>2 DEF Room, Live, Members
  <2>1. CASE s = t
    BY <1>3, <1>7, <2>1 DEF MaxMembers
  <2>2. CASE s # t
    BY <1>7, <2>2 DEF IInv, Room
  <2> QED
    BY <2>1, <2>2
<1> QED
  BY <1>4, <1>5, <1>8, <1>9, <1>10 DEF IInv, TypeOK

-----------------------------------------------------------------------------
(* A removal, with or without the deletion of the account.                 *)

Owners(r) == [p \in Pools |-> IF p = r.pool /\ Members(r.pool) \ {r.who} # {} /\ r.owner = r.who
                              THEN Earliest(Members(r.pool) \ {r.who}) ELSE pool[p].owner]
EndedBy(r, deleted) ==
    {p \in Live : (p = r.pool /\ Members(r.pool) \ {r.who} = {}) \/ Owners(r)[p] \in deleted}

\* The tables after a Store, field by field.
LEMMA StoreKeeps ==
    ASSUME TypeOK, NEW ended \in SUBSET Pools, NEW out, NEW owners \in [Pools -> Users \cup {None}],
           NEW deleted \in SUBSET Users, Store(ended, out, owners, deleted),
           \A p \in Live \ ended : owners[p] \in accounts \ deleted
    PROVE  /\ accounts' \subseteq Users
           /\ pool' \in [Pools -> [is : {"unused", "live", "ended"}, owner : Users \cup {None},
                                   size : Sizes \cup {None}]]
           /\ memberOf' \in [Users -> Pools \cup {None}]
           /\ joined' \in [Users -> Nat] /\ clock' \in Nat
           /\ invite' \in [Invites ->
                 [status : {"unused", "pending", "accepted", "declined", "cancelled",
                            "superseded", "deleted"},
                  pool : Pools \cup {None}, from : Users \cup {None}, to : Users \cup {None}]]
           /\ ForeignKeys'
           /\ Live' = Live \ ended
           /\ \A p \in Live' : pool'[p].size = pool[p].size /\ pool'[p].owner = owners[p]
           /\ \A p \in Live' : (Members(p))' = Members(p) \ (out \cup deleted)
           /\ \A i \in Invites : invite[i].status # "unused" => invite'[i].status # "unused"
<1> USE DEF TypeOK, Types
<1>1. /\ accounts' = accounts \ deleted
      /\ pool' = [p \in Pools |-> IF p \in ended THEN Ended
                                  ELSE [pool[p] EXCEPT !.owner = owners[p]]]
      /\ memberOf' = [u \in Users |->
            IF u \in out \cup deleted \/ memberOf[u] \in ended THEN None ELSE memberOf[u]]
      /\ joined' = [u \in Users |-> IF memberOf'[u] = None THEN 0 ELSE joined[u]]
      /\ invite' = [i \in Invites |->
            IF invite[i].pool \in ended \/ invite[i].from \in deleted \/ invite[i].to \in deleted
            THEN Deleted ELSE invite[i]]
      /\ clock' = clock
  BY DEF Store
<1>2. /\ accounts' \subseteq Users
      /\ pool' \in [Pools -> [is : {"unused", "live", "ended"}, owner : Users \cup {None},
                              size : Sizes \cup {None}]]
      /\ memberOf' \in [Users -> Pools \cup {None}]
      /\ joined' \in [Users -> Nat] /\ clock' \in Nat
  <2>1. \A p \in Pools : pool'[p] \in [is : {"unused", "live", "ended"}, owner : Users \cup {None},
                                       size : Sizes \cup {None}]
    <3> SUFFICES ASSUME NEW p \in Pools
                 PROVE  pool'[p] \in [is : {"unused", "live", "ended"}, owner : Users \cup {None},
                                     size : Sizes \cup {None}]
      OBVIOUS
    <3>1. CASE p \in ended
      BY <1>1, <3>1 DEF Ended
    <3>2. CASE p \notin ended
      <4>1. pool'[p] = [pool[p] EXCEPT !.owner = owners[p]]
        BY <1>1, <3>2
      <4>2. pool[p] \in [is : {"unused", "live", "ended"}, owner : Users \cup {None},
                         size : Sizes \cup {None}] /\ owners[p] \in Users \cup {None}
        OBVIOUS
      <4>3. QED
        BY <4>1, <4>2
    <3>3. QED
      BY <3>1, <3>2
  <2>2. accounts' \subseteq Users
    BY <1>1
  <2>3. memberOf' \in [Users -> Pools \cup {None}]
    BY <1>1
  <2>4. joined' \in [Users -> Nat] /\ clock' \in Nat
    BY <1>1
  <2>5. QED
    BY <1>1, <2>1, <2>2, <2>3, <2>4
<1>3. invite' \in [Invites ->
                 [status : {"unused", "pending", "accepted", "declined", "cancelled",
                            "superseded", "deleted"},
                  pool : Pools \cup {None}, from : Users \cup {None}, to : Users \cup {None}]]
      /\ \A i \in Invites : invite[i].status # "unused" => invite'[i].status # "unused"
  BY <1>1 DEF Deleted
<1>4. \A p \in Pools : p \notin ended => pool'[p].is = pool[p].is /\ pool'[p].size = pool[p].size
                                         /\ pool'[p].owner = owners[p]
  BY <1>1
<1>5. Live' = Live \ ended
  BY <1>1, <1>4 DEF Live, Ended
<1>6. ASSUME NEW p \in Live' PROVE (Members(p))' = Members(p) \ (out \cup deleted)
  <2>1. p \in Live /\ p \notin ended /\ p # None
    BY <1>5, PoolAssumption DEF Live
  <2>2. \A u \in Users : memberOf'[u] = p <=> memberOf[u] = p /\ u \notin out \cup deleted
    BY <1>1, <2>1
  <2>3. QED
    BY <2>2 DEF Members
<1>7. ForeignKeys'
  <2>1. \A p \in Live' : pool'[p].owner \in accounts'
    <3> SUFFICES ASSUME NEW p \in Live' PROVE pool'[p].owner \in accounts'
      OBVIOUS
    <3>1. p \in Live \ ended /\ p \in Pools
      BY <1>5 DEF Live
    <3>2. QED
      BY <1>1, <1>4, <3>1
  <2>2. \A u \in Users : memberOf'[u] # None => u \in accounts' /\ memberOf'[u] \in Live'
    BY <1>1, <1>5 DEF ForeignKeys
  <2>3. \A i \in Invites : invite'[i].status \notin {"unused", "deleted"} =>
            invite'[i].pool \in Live' /\ {invite'[i].from, invite'[i].to} \subseteq accounts'
    BY <1>1, <1>5 DEF ForeignKeys, Deleted
  <2>4. QED
    BY <2>1, <2>2, <2>3 DEF ForeignKeys
<1> QED
  BY <1>2, <1>3, <1>4, <1>5, <1>6, <1>7 DEF Live

\* Inside the guard no one else joins the pool or moves its cap.
LEMMA RemoveKeeps ==
    ASSUME IInv, NEW t \in Tasks, request[t] # Idle, request[t].at = "in",
           NEW deleted \in SUBSET Users,
           deleted \in {{}, {request[t].who}},
           Remove(request[t], deleted), Finish(t), UNCHANGED defaultSize
    PROVE  IInv' /\ \A p \in Live : (Members(p))' \subseteq Members(p)
<1> DEFINE r == request[t]
           out == {u \in {r.who} : memberOf[u] = r.pool}
<1> USE DEF IInv, TypeOK
<1>1. /\ Store(EndedBy(r, deleted), out, Owners(r), deleted)
      /\ orphaned' = IF r.pool \in Live /\ r.owner # pool[r.pool].owner
                     THEN orphaned \cup {r.pool} ELSE orphaned
  BY DEF Remove, Owners, EndedBy
<1>2. /\ request' = [request EXCEPT ![t] = Idle]
      /\ guard' = [p \in Pools |-> IF guard[p] = t THEN None ELSE guard[p]]
  BY DEF Finish, Released
<1>3. Owners(r) \in [Pools -> Users \cup {None}]
  <2>1. Members(r.pool) \ {r.who} \in SUBSET Users
    BY DEF Members
  <2>2. Members(r.pool) \ {r.who} # {} => Earliest(Members(r.pool) \ {r.who}) \in Users
    BY <2>1, EarliestIn
  <2>3. QED
    BY <2>2 DEF Owners, Types
<1>4. ASSUME NEW p \in Live \ EndedBy(r, deleted)
      PROVE  Owners(r)[p] \in accounts \ deleted
  <2>1. p \in Pools /\ p \in Live /\ Owners(r)[p] \notin deleted
    BY <1>4 DEF EndedBy, Live
  <2>2. CASE p = r.pool /\ Members(r.pool) \ {r.who} # {} /\ r.owner = r.who
    <3>1. Earliest(Members(r.pool) \ {r.who}) \in Members(r.pool)
      BY <2>2, EarliestIn DEF Members
    <3>2. Members(p) \subseteq accounts
      BY <2>1, PoolAssumption DEF Members, ForeignKeys, Live
    <3>3. QED
      BY <2>1, <2>2, <3>1, <3>2 DEF Owners
  <2>3. CASE ~ (p = r.pool /\ Members(r.pool) \ {r.who} # {} /\ r.owner = r.who)
    <3>1. Owners(r)[p] = pool[p].owner
      BY <2>1, <2>3 DEF Owners
    <3>2. QED
      BY <2>1, <3>1 DEF ForeignKeys
  <2>4. QED
    BY <2>2, <2>3
<1>5. EndedBy(r, deleted) \in SUBSET Pools
  BY DEF EndedBy, Live
<1>6. /\ accounts' \subseteq Users
      /\ pool' \in [Pools -> [is : {"unused", "live", "ended"}, owner : Users \cup {None},
                              size : Sizes \cup {None}]]
      /\ memberOf' \in [Users -> Pools \cup {None}]
      /\ joined' \in [Users -> Nat] /\ clock' \in Nat
      /\ invite' \in [Invites ->
            [status : {"unused", "pending", "accepted", "declined", "cancelled",
                       "superseded", "deleted"},
             pool : Pools \cup {None}, from : Users \cup {None}, to : Users \cup {None}]]
      /\ ForeignKeys'
      /\ Live' = Live \ EndedBy(r, deleted)
      /\ \A p \in Live' : pool'[p].size = pool[p].size /\ pool'[p].owner = Owners(r)[p]
      /\ \A p \in Live' : (Members(p))' = Members(p) \ (out \cup deleted)
      /\ \A i \in Invites : invite[i].status # "unused" => invite'[i].status # "unused"
  <2> HIDE DEF out, r
  <2> QED
    BY <1>1, <1>3, <1>4, <1>5, StoreKeeps
<1>7. Types'
  <2>1. orphaned' \subseteq Pools
    BY <1>1 DEF Types, Live
  <2>2. request' \in [Tasks -> [op : Ops \cup {"none"}, at : {"idle", "read", "in"},
                                who : Users \cup {None}, by : Users \cup {None},
                                pool : Pools \cup {None}, invite : Invites \cup {None},
                                owner : Users \cup {None}, size : Sizes \cup {None},
                                saw : SUBSET Users]]
        /\ guard' \in [Pools -> Tasks \cup {None}]
    BY <1>2 DEF Types, Idle
  <2>3. QED
    BY <1>6, <2>1, <2>2 DEF Types
<1>8. \A s \in Tasks : request'[s] = IF s = t THEN Idle ELSE request[s]
  BY <1>2 DEF Types
<1>9. Refers'
  BY <1>6, <1>8 DEF Refers, Idle
<1>10. Guarded'
  <2> SUFFICES ASSUME NEW s \in Tasks, request'[s].op \in {"accept", "size"}, request'[s].at = "in"
               PROVE  guard'[request'[s].pool] = s
    BY DEF Guarded
  <2>1. s # t /\ request'[s] = request[s] /\ request[s].pool \in Pools
    BY <1>8 DEF Idle, Refers
  <2>2. guard[request[s].pool] = s
    BY <2>1 DEF Guarded
  <2>3. QED
    BY <1>2, <2>1, <2>2
<1>11. ASSUME NEW p \in Live PROVE (Members(p))' \subseteq Members(p)
  <2>1. p # None /\ p \in Pools
    BY PoolAssumption DEF Live
  <2>2. \A u \in Users : memberOf'[u] \in {memberOf[u], None}
    BY <1>1 DEF Store
  <2>3. QED
    BY <2>1, <2>2 DEF Members
<1>12. Room'
  <2> SUFFICES ASSUME NEW s \in Tasks, NEW p, p = request'[s].pool,
                      request'[s].op = "accept", request'[s].at = "in", p \in Live',
                      pool'[p].size # None
               PROVE  Cardinality((Members(p))') < pool'[p].size
    BY DEF Room
  <2>1. s # t /\ request'[s] = request[s] /\ p \in Live /\ pool'[p].size = pool[p].size
    BY <1>6, <1>8 DEF Idle
  <2>2. Cardinality(Members(p)) < pool[p].size /\ pool[p].size \in Nat
    BY <2>1, PoolAssumption DEF Room, Live, Types
  <2>3. IsFiniteSet(Members(p)) /\ Members(p) \in SUBSET Users
    BY PoolAssumption, FS_Subset DEF Members
  <2>4. (Members(p))' \in SUBSET Members(p)
    BY <1>11, <2>1
  <2>5. Cardinality((Members(p))') <= Cardinality(Members(p))
        /\ Cardinality(Members(p)) \in Nat /\ Cardinality((Members(p))') \in Nat
    BY <2>3, <2>4, FS_Subset, FS_CardinalityType
  <2>6. QED
    BY <2>1, <2>2, <2>5
<1>13. OwnerKept'
  <2> SUFFICES ASSUME NEW p \in Live' \ orphaned' PROVE memberOf'[pool'[p].owner] = p
    BY DEF OwnerKept
  <2>1. /\ p \in Live /\ p \notin EndedBy(r, deleted) /\ p \in Pools /\ p # None
        /\ pool'[p].owner = Owners(r)[p]
    BY <1>6, PoolAssumption DEF Live
  <2>2. p \notin orphaned /\ memberOf[pool[p].owner] = p /\ pool[p].owner \in Users
    BY <1>1, <2>1 DEF OwnerKept, ForeignKeys, Types
  <2>3. Owners(r)[p] \in Members(p) \ (out \cup deleted)
    <3>1. CASE p = r.pool /\ Members(r.pool) \ {r.who} # {} /\ r.owner = r.who
      <4>1. Owners(r)[p] \in Members(p) \ {r.who}
        <5>1. Earliest(Members(r.pool) \ {r.who}) \in Members(r.pool) \ {r.who}
          BY <3>1, EarliestIn DEF Members
        <5>2. QED
          BY <2>1, <3>1, <5>1 DEF Owners
      <4>2. QED
        BY <4>1
    <3>2. CASE ~ (p = r.pool /\ Members(r.pool) \ {r.who} # {} /\ r.owner = r.who)
      <4>1. Owners(r)[p] = pool[p].owner
        BY <2>1, <3>2 DEF Owners
      <4>2. pool[p].owner \notin deleted
        BY <2>1, <4>1 DEF EndedBy
      <4>3. ASSUME pool[p].owner \in out PROVE FALSE
        <5>1. r.pool = p /\ pool[p].owner = r.who
          BY <2>2, <4>3
        <5>2. r.owner = pool[p].owner
          BY <1>1, <2>1, <5>1
        <5>3. Members(r.pool) \ {r.who} # {}
          BY <2>1, <5>1 DEF EndedBy
        <5>4. QED
          BY <3>2, <5>1, <5>2, <5>3
      <4>4. QED
        BY <2>2, <4>1, <4>2, <4>3 DEF Members
    <3>3. QED
      BY <3>1, <3>2
  <2>4. Owners(r)[p] \in (Members(p))'
    BY <1>6, <2>3
  <2>5. QED
    BY <2>1, <2>4 DEF Members
<1> QED
  BY <1>6, <1>7, <1>9, <1>10, <1>11, <1>12, <1>13

-----------------------------------------------------------------------------
(* The steps.                                                              *)

RequestRows(step) ==
    [op : Ops, at : {step}, who : Users \cup {None}, by : Users \cup {None},
     pool : Pools \cup {None}, invite : Invites \cup {None}, owner : Users \cup {None},
     size : Sizes \cup {None}, saw : SUBSET Users]

LEMMA ReadStep == ASSUME IInv, NEW t \in Tasks, Read(t) PROVE IInv'
<1> USE PoolAssumption DEF IInv, TypeOK, Types, Idle, Ops, RequestRows
<1>1. ASSUME NEW u \in Users, ReadCreate(t, u) PROVE IInv'
  <2> DEFINE r == [Idle EXCEPT !.op = "create", !.at = "read", !.who = u]
  <2>1. r \in RequestRows("read") /\ r.op = "create" /\ Begin(t, r)
    BY <1>1 DEF ReadCreate
  <2> HIDE DEF r
  <2> QED
    BY <2>1, BeginKeeps DEF RequestRows
<1>2. ASSUME NEW u \in Users, ReadRemove(t, u) PROVE IInv'
  <2> DEFINE r == [Idle EXCEPT !.op = "remove", !.at = "read", !.who = u, !.pool = memberOf[u],
                               !.owner = pool[memberOf[u]].owner]
  <2>1. memberOf[u] \in Pools /\ pool[memberOf[u]].owner \in Users \cup {None}
    BY <1>2 DEF ReadRemove, Live
  <2>2. r \in RequestRows("read") /\ r.op = "remove" /\ Begin(t, r)
    BY <1>2, <2>1 DEF ReadRemove
  <2> HIDE DEF r
  <2> QED
    BY <2>2, BeginKeeps DEF RequestRows
<1>3. ASSUME NEW u \in Users, ReadDelete(t, u) PROVE IInv'
  <2> DEFINE r == [Idle EXCEPT !.op = "delete", !.at = "read", !.who = u, !.pool = memberOf[u]]
  <2>1. r \in RequestRows("read") /\ r.op = "delete" /\ r.who = u /\ Begin(t, r)
    BY <1>3 DEF ReadDelete
  <2> HIDE DEF r
  <2> QED
    BY <2>1, BeginKeeps DEF RequestRows
<1>4. ASSUME NEW u \in Users, NEW v \in Users, ReadInvite(t, u, v) PROVE IInv'
  <2> DEFINE r == [Idle EXCEPT !.op = "invite", !.at = "read", !.who = v, !.by = u,
                               !.pool = memberOf[u]]
  <2>1. memberOf[u] \in Pools
    BY <1>4 DEF ReadInvite, Live
  <2>2. r \in RequestRows("read") /\ r.op = "invite"
    BY <2>1
  <2>3. Begin(t, r)
    BY <1>4 DEF ReadInvite
  <2> HIDE DEF r
  <2> QED
    BY <2>2, <2>3, BeginKeeps DEF RequestRows
<1>5. ASSUME NEW i \in Invites, ReadAccept(t, i) PROVE IInv'
  <2> DEFINE r == [Idle EXCEPT !.op = "accept", !.at = "read", !.who = invite[i].to,
                               !.pool = invite[i].pool, !.invite = i]
  <2>1. invite[i].status = "pending" /\ Begin(t, r)
    BY <1>5 DEF ReadAccept
  <2>2. invite[i].pool \in Pools /\ invite[i].to \in Users
    BY <2>1 DEF ForeignKeys, Live
  <2>3. r \in RequestRows("read") /\ r.op = "accept" /\ r.invite = i /\ r.pool \in Pools
    BY <2>2
  <2> HIDE DEF r
  <2> QED
    BY <2>1, <2>3, BeginKeeps DEF RequestRows
<1>6. ASSUME NEW i \in Invites, NEW how \in {"decline", "cancel"}, ReadAnswer(t, i, how) PROVE IInv'
  <2> DEFINE r == [Idle EXCEPT !.op = how, !.at = "read", !.invite = i]
  <2>1. invite[i].status = "pending" /\ Begin(t, r)
    BY <1>6 DEF ReadAnswer
  <2>2. r \in RequestRows("read") /\ r.op = how /\ r.invite = i
    OBVIOUS
  <2> HIDE DEF r
  <2> QED
    BY <2>1, <2>2, BeginKeeps DEF RequestRows
<1>7. ASSUME NEW p \in Pools, ReadDissolve(t, p) PROVE IInv'
  <2> DEFINE r == [Idle EXCEPT !.op = "dissolve", !.at = "read", !.pool = p]
  <2>1. r \in RequestRows("read") /\ r.op = "dissolve" /\ r.pool = p /\ Begin(t, r)
    BY <1>7 DEF ReadDissolve
  <2> HIDE DEF r
  <2> QED
    BY <2>1, BeginKeeps DEF RequestRows
<1>8. ASSUME NEW p \in Pools, NEW c \in Sizes \cup {None}, ReadSize(t, p, c) PROVE IInv'
  <2> DEFINE r == [Idle EXCEPT !.op = "size", !.at = "read", !.pool = p, !.size = c]
  <2>1. r \in RequestRows("read") /\ r.op = "size" /\ r.pool = p /\ Begin(t, r)
    BY <1>8 DEF ReadSize
  <2> HIDE DEF r
  <2> QED
    BY <2>1, BeginKeeps DEF RequestRows
<1> HIDE DEF IInv, TypeOK, Types, Idle, Ops, RequestRows
<1> QED
  BY <1>1, <1>2, <1>3, <1>4, <1>5, <1>6, <1>7, <1>8 DEF Read

LEMMA EnterStep == ASSUME IInv, NEW t \in Tasks, Enter(t) PROVE IInv'
<1> DEFINE r == request[t]
<1>1. r.at = "read" /\ r.op \in Composing => r \in RequestRows("read")
  BY DEF IInv, TypeOK, Types, RequestRows, Composing, Ops
<1>2. CASE EnterAccept(t)
  <2>1. r \in RequestRows("read") /\ r.op = "accept" /\ EnterGuard(t, r)
        /\ Cardinality(Members(r.pool)) < MaxMembers(r.pool)
    BY <1>1, <1>2 DEF EnterAccept, At, Composing
  <2> QED
    BY <2>1, EnterKeeps DEF RequestRows
<1>3. CASE EnterRemove(t) \/ EnterDissolve(t) \/ EnterSize(t)
  <2>1. r \in RequestRows("read") /\ r.op \notin {"accept", "delete"} /\ EnterGuard(t, r)
    BY <1>1, <1>3 DEF EnterRemove, EnterDissolve, EnterSize, At, Composing
  <2> QED
    BY <2>1, EnterKeeps DEF RequestRows
<1>4. CASE EnterDelete(t)
  <2> DEFINE p == memberOf[r.who]
             r2 == [r EXCEPT !.pool = p, !.owner = IF p \in Live THEN pool[p].owner ELSE None]
  <2>1. r \in RequestRows("read") /\ r.op = "delete" /\ r.who \in Users /\ EnterGuard(t, r2)
    BY <1>1, <1>4 DEF EnterDelete, At, Composing, IInv, Refers
  <2>2. r2 \in RequestRows("read") /\ r2.op = "delete" /\ r2.invite = r.invite /\ r2.who = r.who
    BY <2>1 DEF IInv, TypeOK, Types, Live, RequestRows
  <2> HIDE DEF r2
  <2> QED
    BY <2>1, <2>2, EnterKeeps DEF RequestRows
<1>5. CASE RefusedFull(t)
  BY <1>5, FinishKeeps DEF RefusedFull
<1> QED
  BY <1>2, <1>3, <1>4, <1>5 DEF Enter

\* What an ending request leaves to the others.
LEMMA FinishRequest ==
    ASSUME Types, NEW t \in Tasks, Finish(t)
    PROVE  /\ request' \in [Tasks ->
                 [op : Ops \cup {"none"}, at : {"idle", "read", "in"}, who : Users \cup {None},
                  by : Users \cup {None}, pool : Pools \cup {None}, invite : Invites \cup {None},
                  owner : Users \cup {None}, size : Sizes \cup {None}, saw : SUBSET Users]]
           /\ guard' \in [Pools -> Tasks \cup {None}]
           /\ \A s \in Tasks : request'[s] = IF s = t THEN Idle ELSE request[s]
           /\ \A p \in Pools : guard'[p] = IF guard[p] = t THEN None ELSE guard[p]
<1>1. /\ request' = [request EXCEPT ![t] = Idle]
      /\ guard' = [p \in Pools |-> IF guard[p] = t THEN None ELSE guard[p]]
  BY DEF Finish, Released
<1> QED
  BY <1>1 DEF Types, Idle

\* Refers and Guarded only need invitations to stay sent.
LEMMA FinishRefers ==
    ASSUME IInv, NEW t \in Tasks, Finish(t),
           \A i \in Invites : invite[i].status # "unused" => invite'[i].status # "unused"
    PROVE  Refers' /\ Guarded'
<1>1. /\ \A s \in Tasks : request'[s] = IF s = t THEN Idle ELSE request[s]
      /\ \A p \in Pools : guard'[p] = IF guard[p] = t THEN None ELSE guard[p]
  BY FinishRequest DEF IInv, TypeOK
<1>2. Refers'
  BY <1>1 DEF IInv, Refers, Idle
<1>3. Guarded'
  BY <1>1 DEF IInv, Refers, Guarded, Idle
<1> QED
  BY <1>2, <1>3

LEMMA CreateStep ==
    ASSUME IInv, NEW t \in Tasks, CommitCreate(t)
    PROVE  IInv' /\ \A p \in Live : (Members(p))' = Members(p)
<1> USE DEF IInv, TypeOK
<1> DEFINE u == request[t].who
<1>1. u \in accounts /\ u \in Users /\ memberOf[u] = None
  BY DEF CommitCreate, Types
<1>2. PICK q \in Pools :
        /\ pool[q] = Unused
        /\ pool' = [pool EXCEPT ![q] = [is |-> "live", owner |-> u, size |-> None]]
        /\ Join(u, q)
  BY DEF CommitCreate
<1>3. Finish(t) /\ UNCHANGED <<accounts, invite, defaultSize, orphaned>>
  BY DEF CommitCreate
<1>4. /\ memberOf' = [memberOf EXCEPT ![u] = q]
      /\ clock' = clock + 1 /\ joined' = [joined EXCEPT ![u] = clock + 1]
  BY <1>2 DEF Join
<1>5. Live' = Live \cup {q} /\ q \notin Live
  BY <1>2 DEF Live, Unused, Types
<1>6. Types'
  <2>1. pool' \in [Pools -> [is : {"unused", "live", "ended"}, owner : Users \cup {None},
                             size : Sizes \cup {None}]]
    BY <1>1, <1>2 DEF Types
  <2>2. memberOf' \in [Users -> Pools \cup {None}] /\ joined' \in [Users -> Nat] /\ clock' \in Nat
    BY <1>1, <1>4 DEF Types
  <2>3. QED
    BY <1>3, <2>1, <2>2, FinishRequest DEF Types
<1>7. ForeignKeys'
  BY <1>1, <1>2, <1>3, <1>4, <1>5 DEF ForeignKeys, Types, Live
<1>8. ASSUME NEW p \in Live PROVE (Members(p))' = Members(p)
  <2>1. p # q /\ p # None
    BY <1>5, PoolAssumption DEF Live
  <2>2. \A v \in Users : memberOf'[v] = p <=> memberOf[v] = p
    BY <1>1, <1>4, <2>1 DEF Types
  <2>3. QED
    BY <2>2 DEF Members
<1>9. OwnerKept'
  <2> SUFFICES ASSUME NEW p \in Live' \ orphaned' PROVE memberOf'[pool'[p].owner] = p
    BY DEF OwnerKept
  <2>1. CASE p = q
    BY <1>1, <1>2, <1>4, <2>1 DEF Types
  <2>2. CASE p # q
    <3>1. p \in Live /\ p # None /\ p \in Pools /\ p \notin orphaned /\ pool'[p] = pool[p]
      BY <1>2, <1>3, <1>5, <2>2, PoolAssumption DEF Live, Types
    <3>2. memberOf[pool[p].owner] = p /\ pool[p].owner \in Users
      BY <3>1 DEF OwnerKept, ForeignKeys, Types
    <3>3. QED
      BY <1>1, <1>4, <3>1, <3>2 DEF Types
  <2> QED
    BY <2>1, <2>2
<1>10. Room'
  <2> SUFFICES ASSUME NEW s \in Tasks, NEW p, p = request'[s].pool,
                      request'[s].op = "accept", request'[s].at = "in", p \in Live',
                      pool'[p].size # None
               PROVE  Cardinality((Members(p))') < pool'[p].size
    BY DEF Room
  <2>1. p # q
    BY <1>2 DEF Types
  <2>2. p \in Live /\ pool'[p] = pool[p] /\ request'[s] = request[s]
    BY <1>2, <1>3, <1>5, <2>1, FinishRequest DEF Live, Types, Idle
  <2>3. QED
    BY <1>8, <2>2 DEF Room
<1>11. Refers' /\ Guarded'
  BY <1>3, FinishRefers
<1> QED
  BY <1>6, <1>7, <1>8, <1>9, <1>10, <1>11

\* Only here does a pool grow, and there is room.
LEMMA AcceptStep ==
    ASSUME IInv, NEW t \in Tasks, CommitAccept(t)
    PROVE  /\ IInv'
           /\ \A p \in Live : (Members(p))' \subseteq Members(p) \/ pool[p].size = None
                              \/ Cardinality((Members(p))') <= pool[p].size
<1> USE DEF IInv, TypeOK
<1> DEFINE r == request[t]
<1>0. PICK q, u : q = r.pool /\ u = r.who
  OBVIOUS
<1>1. /\ u \in accounts /\ u \in Users /\ memberOf[u] = None /\ q \in Live /\ q \in Pools /\ q # None
      /\ guard[q] = t /\ r.op = "accept" /\ r.at = "in"
      /\ r.invite \in Invites /\ invite[r.invite].status \notin {"unused", "deleted"}
  BY <1>0, PoolAssumption DEF CommitAccept, At, Types, Guarded, Refers, Live
<1>2. Finish(t) /\ UNCHANGED <<accounts, pool, defaultSize, orphaned>>
  BY DEF CommitAccept
<1>3. /\ memberOf' = [memberOf EXCEPT ![u] = q]
      /\ clock' = clock + 1 /\ joined' = [joined EXCEPT ![u] = clock + 1]
  BY <1>0 DEF CommitAccept, Join
<1>4. invite' = [i \in Invites |->
          CASE i = r.invite -> [invite[i] EXCEPT !.status = "accepted"]
            [] i # r.invite /\ invite[i].to = r.who /\ invite[i].status = "pending" ->
                  [invite[i] EXCEPT !.status = "superseded"]
            [] OTHER -> invite[i]]
  BY DEF CommitAccept
<1>5. \A i \in Invites :
        /\ invite'[i].status \in {invite[i].status, "accepted", "superseded"}
        /\ invite'[i].pool = invite[i].pool /\ invite'[i].from = invite[i].from
        /\ invite'[i].to = invite[i].to
        /\ invite[i].status \in {"unused", "deleted"} => invite'[i].status = invite[i].status
        /\ invite'[i] \in [status : {"unused", "pending", "accepted", "declined", "cancelled",
                                     "superseded", "deleted"},
                           pool : Pools \cup {None}, from : Users \cup {None},
                           to : Users \cup {None}]
  <2> SUFFICES ASSUME NEW i \in Invites
               PROVE
        /\ invite'[i].status \in {invite[i].status, "accepted", "superseded"}
        /\ invite'[i].pool = invite[i].pool /\ invite'[i].from = invite[i].from
        /\ invite'[i].to = invite[i].to
        /\ invite[i].status \in {"unused", "deleted"} => invite'[i].status = invite[i].status
        /\ invite'[i] \in [status : {"unused", "pending", "accepted", "declined", "cancelled",
                                     "superseded", "deleted"},
                           pool : Pools \cup {None}, from : Users \cup {None},
                           to : Users \cup {None}]
    OBVIOUS
  <2>1. \/ i = r.invite /\ invite'[i] = [invite[i] EXCEPT !.status = "accepted"]
        \/ i # r.invite /\ invite[i].status = "pending"
             /\ invite'[i] = [invite[i] EXCEPT !.status = "superseded"]
        \/ invite'[i] = invite[i]
    BY <1>4
  <2>2. invite[i] \in [status : {"unused", "pending", "accepted", "declined", "cancelled",
                                 "superseded", "deleted"},
                       pool : Pools \cup {None}, from : Users \cup {None},
                       to : Users \cup {None}]
    BY DEF Types
  <2>3. CASE i = r.invite /\ invite'[i] = [invite[i] EXCEPT !.status = "accepted"]
    BY <1>1, <2>2, <2>3
  <2>4. CASE invite[i].status = "pending" /\ invite'[i] = [invite[i] EXCEPT !.status = "superseded"]
    BY <2>2, <2>4
  <2>5. QED
    BY <2>1, <2>2, <2>3, <2>4
<1>6. Types'
  <2>1. memberOf' \in [Users -> Pools \cup {None}] /\ joined' \in [Users -> Nat] /\ clock' \in Nat
    BY <1>1, <1>3 DEF Types
  <2>2. invite' \in [Invites ->
                 [status : {"unused", "pending", "accepted", "declined", "cancelled",
                            "superseded", "deleted"},
                  pool : Pools \cup {None}, from : Users \cup {None}, to : Users \cup {None}]]
    BY <1>4, <1>5
  <2>3. QED
    BY <1>2, <2>1, <2>2, FinishRequest DEF Types
<1>7. Live' = Live
  BY <1>2 DEF Live
<1>8. ForeignKeys'
  BY <1>1, <1>2, <1>3, <1>5, <1>7 DEF ForeignKeys, Types
<1>9. ASSUME NEW p \in Live, p # q PROVE (Members(p))' = Members(p)
  <2>1. p # None
    BY PoolAssumption DEF Live
  <2>2. \A v \in Users : memberOf'[v] = p <=> memberOf[v] = p
    BY <1>1, <1>3, <1>9, <2>1 DEF Types
  <2>3. QED
    BY <2>2 DEF Members
<1>10. pool[q].size = None \/ Cardinality((Members(q))') <= pool[q].size
  <2> SUFFICES ASSUME pool[q].size # None PROVE Cardinality((Members(q))') <= pool[q].size
    OBVIOUS
  <2>1. Cardinality(Members(q)) < pool[q].size /\ pool[q].size \in Nat
    <3>1. pool[q].size \in Nat
      BY <1>1, PoolAssumption, ZenonT(30) DEF Types
    <3>2. r.op = "accept" /\ r.at = "in" /\ r.pool = q /\ q \in Live
      BY <1>0, <1>1
    <3>3. Cardinality(Members(q)) < pool[q].size
      BY <3>2 DEF Room
    <3>4. QED
      BY <3>1, <3>3
  <2>2. (Members(q))' = Members(q) \cup {u}
    <3>1. \A v \in Users : memberOf'[v] = q <=> memberOf[v] = q \/ v = u
      BY <1>1, <1>3 DEF Types
    <3>2. QED
      BY <1>1, <3>1 DEF Members
  <2>3. IsFiniteSet(Members(q))
    BY PoolAssumption, FS_Subset DEF Members
  <2>4. Cardinality(Members(q)) \in Nat
        /\ Cardinality(Members(q) \cup {u}) \in {Cardinality(Members(q)), Cardinality(Members(q)) + 1}
    BY <2>3, FS_CardinalityType, FS_AddElement
  <2>5. QED
    BY <2>1, <2>2, <2>4
<1>11. OwnerKept'
  <2> SUFFICES ASSUME NEW p \in Live \ orphaned PROVE memberOf'[pool[p].owner] = p
    BY <1>2, <1>7 DEF OwnerKept
  <2>1. memberOf[pool[p].owner] = p /\ pool[p].owner \in Users /\ p # None
    BY PoolAssumption DEF OwnerKept, ForeignKeys, Types, Live
  <2>2. QED
    BY <1>1, <1>3, <2>1 DEF Types
<1>12. Room'
  <2> SUFFICES ASSUME NEW s \in Tasks, NEW p, p = request'[s].pool,
                      request'[s].op = "accept", request'[s].at = "in", p \in Live,
                      pool[p].size # None
               PROVE  Cardinality((Members(p))') < pool[p].size
    BY <1>2, <1>7 DEF Room
  <2>1. s # t /\ request'[s] = request[s]
    BY <1>2, FinishRequest DEF Idle
  <2>2. guard[p] = s
    BY <2>1 DEF Guarded
  <2>3. p # q
    BY <1>1, <2>1, <2>2
  <2>4. QED
    BY <1>9, <2>1, <2>3 DEF Room
<1>13. Refers' /\ Guarded'
  BY <1>2, <1>5, FinishRefers
<1>14. ASSUME NEW p \in Live
       PROVE  (Members(p))' \subseteq Members(p) \/ pool[p].size = None
              \/ Cardinality((Members(p))') <= pool[p].size
  BY <1>9, <1>10
<1> QED
  BY <1>6, <1>8, <1>11, <1>12, <1>13, <1>14

LEMMA InviteStep ==
    ASSUME IInv, NEW t \in Tasks, CommitInvite(t) \/ CommitAnswer(t)
    PROVE  IInv' /\ UNCHANGED <<pool, memberOf>>
<1> USE DEF IInv, TypeOK
<1> DEFINE r == request[t]
<1>1. Finish(t) /\ UNCHANGED <<accounts, pool, memberOf, joined, clock, defaultSize, orphaned>>
  BY DEF CommitInvite, CommitAnswer
<1>2. /\ \A i \in Invites : invite[i].status # "unused" => invite'[i].status # "unused"
      /\ invite' \in [Invites ->
            [status : {"unused", "pending", "accepted", "declined", "cancelled",
                       "superseded", "deleted"},
             pool : Pools \cup {None}, from : Users \cup {None}, to : Users \cup {None}]]
      /\ \A i \in Invites : invite'[i].status \notin {"unused", "deleted"} =>
            invite'[i].pool \in Live /\ {invite'[i].from, invite'[i].to} \subseteq accounts
  <2>1. CASE CommitInvite(t)
    <3>1. PICK i \in Invites : invite' = [invite EXCEPT ![i] =
                [status |-> "pending", pool |-> r.pool, from |-> r.by, to |-> r.who]]
      BY <2>1 DEF CommitInvite
    <3>2. r.pool \in Live /\ r.pool \in Pools /\ {r.who, r.by} \subseteq accounts
          /\ r.who \in Users /\ r.by \in Users
      BY <2>1 DEF CommitInvite, Live, Types
    <3> HIDE DEF r
    <3> QED
      BY <3>1, <3>2 DEF Types, ForeignKeys
  <2>2. CASE CommitAnswer(t)
    <3>1. r.invite \in Invites /\ invite[r.invite].status \notin {"unused", "deleted"}
      BY <2>2 DEF CommitAnswer, Refers
    <3>2. PICK how \in {"cancelled", "declined"} :
            invite' = [invite EXCEPT ![r.invite] = [@ EXCEPT !.status = how]]
      BY <2>2 DEF CommitAnswer
    <3> HIDE DEF r
    <3> QED
      BY <3>1, <3>2 DEF Types, ForeignKeys
  <2> QED
    BY <2>1, <2>2
<1>3. Types'
  BY <1>1, <1>2, FinishRequest DEF Types
<1>4. Live' = Live
  BY <1>1 DEF Live
<1>5. ForeignKeys' /\ OwnerKept'
  BY <1>1, <1>2, <1>4 DEF ForeignKeys, OwnerKept
<1>6. Refers' /\ Guarded'
  BY <1>1, <1>2, FinishRefers
<1>7. \A s \in Tasks : request'[s] = IF s = t THEN Idle ELSE request[s]
  BY <1>1, FinishRequest
<1>8. Room'
  BY <1>1, <1>4, <1>7 DEF Room, Members, Idle
<1> QED
  BY <1>1, <1>3, <1>5, <1>6, <1>8

LEMMA DissolveStep ==
    ASSUME IInv, NEW t \in Tasks, CommitDissolve(t)
    PROVE  IInv' /\ \A p \in Live : (Members(p))' \subseteq Members(p)
<1> USE DEF IInv, TypeOK
<1> DEFINE owners == [p \in Pools |-> pool[p].owner]
<1>0. PICK q : q = request[t].pool
  OBVIOUS
<1>1. Store({q}, {}, owners, {}) /\ Finish(t) /\ UNCHANGED <<defaultSize, orphaned>>
  BY <1>0 DEF CommitDissolve
<1>2. owners \in [Pools -> Users \cup {None}]
  BY DEF Types
<1>3. \A p \in Live : owners[p] \in accounts
  BY DEF ForeignKeys, Live
<1>4. {q} \in SUBSET Pools
  BY <1>0 DEF CommitDissolve, At, Refers
<1>5. \A p \in Live \ {q} : owners[p] \in accounts \ {}
  BY <1>3
<1>6. /\ accounts' \subseteq Users
      /\ pool' \in [Pools -> [is : {"unused", "live", "ended"}, owner : Users \cup {None},
                              size : Sizes \cup {None}]]
      /\ memberOf' \in [Users -> Pools \cup {None}]
      /\ joined' \in [Users -> Nat] /\ clock' \in Nat
      /\ invite' \in [Invites ->
            [status : {"unused", "pending", "accepted", "declined", "cancelled",
                       "superseded", "deleted"},
             pool : Pools \cup {None}, from : Users \cup {None}, to : Users \cup {None}]]
      /\ ForeignKeys'
      /\ Live' = Live \ {q}
      /\ \A p \in Live' : pool'[p].size = pool[p].size /\ pool'[p].owner = owners[p]
      /\ \A p \in Live' : (Members(p))' = Members(p) \ ({} \cup {})
      /\ \A i \in Invites : invite[i].status # "unused" => invite'[i].status # "unused"
  <2>1. TypeOK /\ {} \in SUBSET Users
    OBVIOUS
  <2> HIDE DEF owners, IInv, TypeOK
  <2> QED
    BY <1>1, <1>2, <1>4, <1>5, <2>1, StoreKeeps
<1>7. Types'
  BY <1>1, <1>6, FinishRequest DEF Types
<1>8. Refers' /\ Guarded'
  BY <1>1, <1>6, FinishRefers
<1>9. \A p \in Live' : p \in Live /\ p \in Pools /\ (Members(p))' = Members(p)
                       /\ pool'[p].size = pool[p].size /\ pool'[p].owner = pool[p].owner
  BY <1>6 DEF Live
<1>10. OwnerKept'
  <2> SUFFICES ASSUME NEW p \in Live' \ orphaned' PROVE memberOf'[pool'[p].owner] = p
    BY DEF OwnerKept
  <2>1. pool[p].owner \in Members(p)
    BY <1>1, <1>9 DEF OwnerKept, Members, ForeignKeys, Types
  <2>2. pool'[p].owner \in (Members(p))'
    BY <1>9, <2>1
  <2> QED
    BY <2>2 DEF Members
<1>11. \A s \in Tasks : request'[s] = IF s = t THEN Idle ELSE request[s]
  BY <1>1, FinishRequest
<1>12. Room'
  <2> SUFFICES ASSUME NEW s \in Tasks, NEW p, p = request'[s].pool,
                      request'[s].op = "accept", request'[s].at = "in", p \in Live',
                      pool'[p].size # None
               PROVE  Cardinality((Members(p))') < pool'[p].size
    BY DEF Room
  <2>1. request'[s] = request[s] /\ p \in Live
    BY <1>9, <1>11 DEF Idle
  <2> QED
    BY <1>9, <2>1 DEF Room
<1>13. ASSUME NEW p \in Live PROVE (Members(p))' \subseteq Members(p)
  <2>1. \A v \in Users : memberOf'[v] \in {memberOf[v], None}
    BY <1>1 DEF Store
  <2>2. p # None
    BY PoolAssumption DEF Live
  <2> QED
    BY <2>1, <2>2 DEF Members
<1> QED
  BY <1>6, <1>7, <1>8, <1>10, <1>12, <1>13

LEMMA SizeStep ==
    ASSUME IInv, NEW t \in Tasks, CommitSize(t)
    PROVE  IInv' /\ UNCHANGED memberOf
<1> USE DEF IInv, TypeOK
<1>0. PICK q, c : q = request[t].pool /\ c = request[t].size
  OBVIOUS
<1>1. /\ q \in Live /\ q \in Pools /\ c \in Sizes \cup {None}
      /\ pool' = [pool EXCEPT ![q] = [@ EXCEPT !.size = c]]
      /\ request[t].op = "size" /\ guard[q] = t
  BY <1>0 DEF CommitSize, At, Live, Types, Guarded
<1>2. Finish(t) /\ UNCHANGED <<accounts, memberOf, joined, clock, invite, defaultSize, orphaned>>
  BY DEF CommitSize
<1>3. /\ pool' \in [Pools -> [is : {"unused", "live", "ended"}, owner : Users \cup {None},
                              size : Sizes \cup {None}]]
      /\ \A p \in Pools : pool'[p].is = pool[p].is /\ pool'[p].owner = pool[p].owner
      /\ \A p \in Pools : p # q => pool'[p].size = pool[p].size
  BY <1>1 DEF Types
<1>4. Types'
  BY <1>2, <1>3, FinishRequest DEF Types
<1>5. Live' = Live
  BY <1>3 DEF Live
<1>6. ForeignKeys' /\ OwnerKept'
  BY <1>2, <1>3, <1>5 DEF ForeignKeys, OwnerKept, Live
<1>7. Refers' /\ Guarded'
  BY <1>2, FinishRefers
<1>8. \A s \in Tasks : request'[s] = IF s = t THEN Idle ELSE request[s]
  BY <1>2, FinishRequest
<1>9. Room'
  <2> SUFFICES ASSUME NEW s \in Tasks, NEW p, p = request'[s].pool,
                      request'[s].op = "accept", request'[s].at = "in", p \in Live,
                      pool'[p].size # None
               PROVE  Cardinality(Members(p)) < pool'[p].size
    BY <1>2, <1>5 DEF Room, Members
  <2>1. s # t /\ request'[s] = request[s] /\ guard[p] = s
    BY <1>8 DEF Idle, Guarded
  <2>2. p # q /\ p \in Pools
    BY <1>1, <2>1 DEF Live
  <2> QED
    BY <1>3, <2>1, <2>2 DEF Room
<1> QED
  BY <1>2, <1>4, <1>6, <1>7, <1>9

\* The members of a pool grow only where the cap allows.
LEMMA NextStep ==
    ASSUME IInv, [Next]_vars
    PROVE  /\ IInv'
           /\ \A p \in Live : (Members(p))' \subseteq Members(p) \/ pool[p].size = None
                              \/ Cardinality((Members(p))') <= pool[p].size
<1>1. ASSUME NEW t \in Tasks, Read(t) \/ Enter(t) \/ Refused(t)
      PROVE  IInv' /\ UNCHANGED memberOf
  <2>1. IInv'
    BY <1>1, ReadStep, EnterStep, FinishKeeps DEF Refused
  <2>2. UNCHANGED memberOf
    BY <1>1 DEF Read, Enter, Refused, ReadCreate, ReadRemove, ReadDelete, ReadInvite, ReadAccept,
       ReadAnswer, ReadDissolve, ReadSize, Begin, EnterAccept, EnterRemove, EnterDelete,
       EnterDissolve, EnterSize, EnterGuard, RefusedFull, database
  <2> QED
    BY <2>1, <2>2
<1>2. ASSUME NEW t \in Tasks, CommitRemove(t) \/ CommitDelete(t)
      PROVE  IInv' /\ \A p \in Live : (Members(p))' \subseteq Members(p)
  <2>1. request[t] # Idle /\ request[t].at = "in" /\ Finish(t) /\ UNCHANGED defaultSize
    BY <1>2 DEF CommitRemove, CommitDelete, At, Idle
  <2>2. CASE CommitRemove(t)
    <3>1. Remove(request[t], {}) /\ {} \in SUBSET Users /\ {} \in {{}, {request[t].who}}
      BY <2>2 DEF CommitRemove
    <3>2. QED
      BY <1>2, <2>1, <3>1, RemoveKeeps
  <2>3. CASE CommitDelete(t)
    <3>1. {request[t].who} \in SUBSET Users
      BY <2>3 DEF CommitDelete, IInv, TypeOK, Types
    <3>2. QED
      BY <2>1, <2>3, <3>1, RemoveKeeps DEF CommitDelete
  <2> QED
    BY <1>2, <2>2, <2>3
<1>3. ASSUME NEW c \in Sizes, SetDefaultSize(c) PROVE IInv' /\ UNCHANGED memberOf
  BY <1>3 DEF SetDefaultSize, database, IInv, TypeOK, Types, ForeignKeys, Refers, OwnerKept,
     Guarded, Room, Live, Members
<1>4. CASE UNCHANGED vars
  BY <1>4 DEF vars, database, IInv, TypeOK, Types, ForeignKeys, Refers, OwnerKept, Guarded,
     Room, Live, Members
<1>5. ASSUME UNCHANGED memberOf PROVE \A p \in Live : (Members(p))' \subseteq Members(p)
  BY <1>5 DEF Members
<1>6. ASSUME NEW t \in Tasks, Commit(t)
      PROVE  /\ IInv'
             /\ \A p \in Live : (Members(p))' \subseteq Members(p) \/ pool[p].size = None
                                \/ Cardinality((Members(p))') <= pool[p].size
  BY <1>2, <1>5, <1>6, CreateStep, AcceptStep, InviteStep, DissolveStep, SizeStep DEF Commit
<1> QED
  BY <1>1, <1>3, <1>4, <1>5, <1>6 DEF Next, vars, database

-----------------------------------------------------------------------------
LEMMA Inv == Spec => []IInv
<1>1. IInv /\ [Next]_vars => IInv'
  BY NextStep
<1> QED
  BY InitInv, <1>1, PTL DEF Spec

\* The tables keep their foreign keys and requests their shape, whatever requests overlap.
THEOREM TypeCorrect == Spec => []TypeOK
<1>1. IInv => TypeOK
  BY DEF IInv
<1> QED
  BY Inv, <1>1, PTL

\* A pool whose removals all acted on its current owner is owned by one of its members.
THEOREM OwnersAreMembers == Spec => []OwnerKept
<1>1. IInv => OwnerKept
  BY DEF IInv
<1> QED
  BY Inv, <1>1, PTL

\* No join takes a pool past its own cap, however many are under way.
THEOREM NoOverfullPool == Spec => JoinsFitOverride
<1>1. IInv /\ [Next]_vars =>
        [\A p \in Live : (Members(p))' \subseteq Members(p) \/ pool[p].size = None
                         \/ Cardinality((Members(p))') <= pool[p].size]_vars
  BY NextStep
<1> QED
  BY Inv, <1>1, PTL DEF Spec, JoinsFitOverride
-----------------------------------------------------------------------------
(* Settling against the members.  A request keeps the pool it has read,    *)
(* which was live and whose id is never given again (Known); a removal is  *)
(* inside the guard of that pool (Removing), as a join is (Guarded).       *)
Known == \A t \in Tasks : request[t].pool \in Pools => pool[request[t].pool].is # "unused"

Removing ==
    \A t \in Tasks : request[t].op = "remove" =>
        request[t].pool \in Pools /\ (request[t].at = "in" => guard[request[t].pool] = t)

SInv == IInv /\ Known /\ Removing /\ SettlesAgainstMembers

\* The types the steps below need.
LEMMA SettleTypes ==
    ASSUME IInv
    PROVE  /\ accounts \subseteq Users
           /\ pool \in [Pools -> [is : {"unused", "live", "ended"}, owner : Users \cup {None},
                                  size : Sizes \cup {None}]]
           /\ memberOf \in [Users -> Pools \cup {None}]
           /\ guard \in [Pools -> Tasks \cup {None}]
           /\ \A t \in Tasks : request[t].pool \in Pools \cup {None}
           /\ request \in [Tasks ->
                [op : Ops \cup {"none"}, at : {"idle", "read", "in"}, who : Users \cup {None},
                 by : Users \cup {None}, pool : Pools \cup {None}, invite : Invites \cup {None},
                 owner : Users \cup {None}, size : Sizes \cup {None}, saw : SUBSET Users]]
  BY DEF IInv, TypeOK, Types

\* A request begins with a pool that is live, or with none.
LEMMA ReadSettles == ASSUME SInv, NEW t \in Tasks, Read(t) PROVE Known' /\ Removing' /\ SettlesAgainstMembers'
<1>1. ASSUME NEW r, Begin(t, r), r.at = "read", r.pool \in Pools => r.pool \in Live,
             r.op = "remove" => r.pool \in Pools
      PROVE  Known' /\ Removing' /\ SettlesAgainstMembers'
  <2>1. /\ UNCHANGED <<accounts, pool, memberOf, guard>>
        /\ \A s \in Tasks : request'[s] = IF s = t THEN r ELSE request[s]
    BY <1>1, SettleTypes DEF SInv, Begin, database
  <2>2. Known'
    BY <2>1, <1>1 DEF SInv, Known, Live
  <2>3. Removing'
    BY <2>1, <1>1 DEF SInv, Removing
  <2>4. SettlesAgainstMembers'
    BY <2>1, <1>1 DEF SInv, SettlesAgainstMembers, Live, Members
  <2> QED
    BY <2>2, <2>3, <2>4
<1>a. \A p \in Live : p \in Pools
  BY DEF Live
<1>2. ASSUME NEW u \in Users, ReadCreate(t, u) PROVE Known' /\ Removing' /\ SettlesAgainstMembers'
  BY <1>1, <1>2, PoolAssumption DEF ReadCreate, Idle
<1>3. ASSUME NEW u \in Users, ReadRemove(t, u) PROVE Known' /\ Removing' /\ SettlesAgainstMembers'
  BY <1>1, <1>3, <1>a DEF ReadRemove, Idle
<1>4. ASSUME NEW u \in Users, ReadDelete(t, u) PROVE Known' /\ Removing' /\ SettlesAgainstMembers'
  <2>1. memberOf[u] \in Pools => memberOf[u] \in Live
    BY PoolAssumption DEF SInv, IInv, TypeOK, ForeignKeys
  <2> QED
    BY <1>1, <1>4, <2>1 DEF ReadDelete, Idle
<1>5. ASSUME NEW u \in Users, NEW v \in Users, ReadInvite(t, u, v)
      PROVE  Known' /\ Removing' /\ SettlesAgainstMembers'
  BY <1>1, <1>5 DEF ReadInvite, Idle
<1>6. ASSUME NEW i \in Invites, ReadAccept(t, i) PROVE Known' /\ Removing' /\ SettlesAgainstMembers'
  <2>1. invite[i].pool \in Live
    BY <1>6 DEF SInv, IInv, TypeOK, ForeignKeys, ReadAccept
  <2> QED
    BY <1>1, <1>6, <2>1 DEF ReadAccept, Idle
<1>7. ASSUME NEW i \in Invites, NEW how \in {"decline", "cancel"}, ReadAnswer(t, i, how)
      PROVE  Known' /\ Removing' /\ SettlesAgainstMembers'
  BY <1>1, <1>7, PoolAssumption DEF ReadAnswer, Idle
<1>8. ASSUME NEW p \in Pools, ReadDissolve(t, p) PROVE Known' /\ Removing' /\ SettlesAgainstMembers'
  BY <1>1, <1>8 DEF ReadDissolve, Idle
<1>9. ASSUME NEW p \in Pools, NEW c \in Sizes \cup {None}, ReadSize(t, p, c)
      PROVE  Known' /\ Removing' /\ SettlesAgainstMembers'
  BY <1>1, <1>9 DEF ReadSize, Idle
<1> QED
  BY <1>2, <1>3, <1>4, <1>5, <1>6, <1>7, <1>8, <1>9 DEF Read

\* Whoever enters reads the members there; nobody else was inside that guard.
LEMMA EnterSettles == ASSUME SInv, NEW t \in Tasks, Enter(t), ~RefusedFull(t)
                      PROVE  Known' /\ Removing' /\ SettlesAgainstMembers'
<1> DEFINE p0 == request[t].pool
<1>1. ASSUME NEW r, EnterGuard(t, r), At(t, r.op, "read"),
             r \in [op : Ops \cup {"none"}, at : {"read"}, who : Users \cup {None}, by : Users \cup {None},
                    pool : Pools \cup {None}, invite : Invites \cup {None},
                    owner : Users \cup {None}, size : Sizes \cup {None}, saw : SUBSET Users],
             r.pool # p0 => r.op = "delete" /\ (r.pool \in Pools => r.pool \in Live)
      PROVE  Known' /\ Removing' /\ SettlesAgainstMembers'
  <2> DEFINE r1 == [r EXCEPT !.at = "in", !.saw = Members(r.pool)]
  <2>1. /\ UNCHANGED <<accounts, pool, memberOf>>
        /\ p0 \in Pools => guard[p0] = None
        /\ guard' = [p \in Pools |-> IF p = p0 THEN t ELSE guard[p]]
        /\ \A s \in Tasks : request'[s] = IF s = t THEN r1 ELSE request[s]
    BY <1>1, SettleTypes, PoolAssumption DEF SInv, EnterGuard, database
  <2>2. r1.op = r.op /\ r1.pool = r.pool /\ r1.at = "in" /\ r1.saw = Members(r.pool)
    BY <1>1
  <2> HIDE DEF r1
  <2>3. Known'
    BY <1>1, <2>1, <2>2 DEF SInv, Known, Live
  <2>4. Removing'
    <3> SUFFICES ASSUME NEW s \in Tasks, request'[s].op = "remove"
                 PROVE  /\ request'[s].pool \in Pools
                        /\ request'[s].at = "in" => guard'[request'[s].pool] = s
      BY DEF Removing
    <3>1. CASE s = t
      BY <1>1, <2>1, <2>2, <3>1 DEF SInv, Removing, At
    <3>2. CASE s # t
      BY <2>1, <3>2, PoolAssumption DEF SInv, Removing
    <3> QED
      BY <3>1, <3>2
  <2>5. SettlesAgainstMembers'
    <3> SUFFICES ASSUME NEW s \in Tasks, request'[s].at = "in", request'[s].pool \in Live,
                        guard'[request'[s].pool] = s
                 PROVE  Members(request'[s].pool) = request'[s].saw \cap accounts
      BY <2>1 DEF SettlesAgainstMembers, Live, Members
    <3>1. CASE s = t
      <4>1. Members(r.pool) \subseteq accounts
        <5>1. r.pool # None
          BY <2>1, <2>2, <3>1, PoolAssumption DEF Live
        <5> QED
          BY <5>1 DEF SInv, IInv, TypeOK, ForeignKeys, Members
      <4> QED
        BY <2>1, <2>2, <3>1, <4>1
    <3>2. CASE s # t
      BY <2>1, <3>2, PoolAssumption DEF SInv, SettlesAgainstMembers, Live
    <3> QED
      BY <3>1, <3>2
  <2> QED
    BY <2>3, <2>4, <2>5
<1>2. request[t] \in [op : Ops \cup {"none"}, at : {"idle", "read", "in"}, who : Users \cup {None},
                      by : Users \cup {None}, pool : Pools \cup {None}, invite : Invites \cup {None},
                      owner : Users \cup {None}, size : Sizes \cup {None}, saw : SUBSET Users]
  BY SettleTypes DEF SInv
<1>3. CASE EnterAccept(t) \/ EnterRemove(t) \/ EnterDissolve(t) \/ EnterSize(t)
  <2> DEFINE r == request[t]
  <2>1. EnterGuard(t, r) /\ At(t, r.op, "read") /\ r.at = "read"
    BY <1>3 DEF EnterAccept, EnterRemove, EnterDissolve, EnterSize, At
  <2>2. r \in [op : Ops \cup {"none"}, at : {"read"}, who : Users \cup {None}, by : Users \cup {None},
                        pool : Pools \cup {None}, invite : Invites \cup {None},
                        owner : Users \cup {None}, size : Sizes \cup {None}, saw : SUBSET Users]
    BY <1>2, <2>1
  <2>3. r.pool = p0
    OBVIOUS
  <2> HIDE DEF r
  <2> QED
    BY <1>1, <2>1, <2>2, <2>3
<1>4. CASE EnterDelete(t)
  <2> DEFINE q == memberOf[request[t].who]
             r == [request[t] EXCEPT !.pool = q, !.owner = IF q \in Live THEN pool[q].owner ELSE None]
  <2>1. EnterGuard(t, r) /\ request[t].op = "delete" /\ request[t].at = "read"
    BY <1>4 DEF EnterDelete, At
  <2>2. request[t].who \in Users
    BY <2>1 DEF SInv, IInv, Refers
  <2>3. q \in Pools \cup {None} /\ (q \in Pools => q \in Live)
    BY <2>2, SettleTypes, PoolAssumption DEF SInv, IInv, TypeOK, ForeignKeys
  <2>4. (IF q \in Live THEN pool[q].owner ELSE None) \in Users \cup {None}
    <3>1. CASE q \in Live
      <4>1. q \in Pools
        BY <3>1 DEF Live
      <4> QED
        BY <3>1, <4>1, SettleTypes DEF SInv
    <3> QED
      BY <3>1
  <2>5. /\ r \in [op : Ops \cup {"none"}, at : {"read"}, who : Users \cup {None}, by : Users \cup {None},
                  pool : Pools \cup {None}, invite : Invites \cup {None},
                  owner : Users \cup {None}, size : Sizes \cup {None}, saw : SUBSET Users]
        /\ r.pool = q /\ r.op = "delete" /\ r.at = "read"
    BY <1>2, <2>1, <2>3, <2>4, ZenonT(30)
  <2>6. At(t, r.op, "read")
    BY <2>1, <2>5 DEF At
  <2> HIDE DEF r, q
  <2> QED
    BY <1>1, <2>1, <2>3, <2>5, <2>6
<1> QED
  BY <1>3, <1>4 DEF Enter

\* A request that ends leaves what the others hold.
LEMMA EndSettles ==
    ASSUME SInv, NEW t \in Tasks, Finish(t), t # None,
           \A p \in Pools : pool[p].is # "unused" => pool'[p].is # "unused",
           \A s \in Tasks \ {t} : \A p \in Pools :
               /\ request[s].pool = p /\ request[s].at = "in"
               /\ pool[p].is # "unused" /\ p \in Live' /\ guard[p] = s
               => /\ p \in Live
                  /\ Members(p) = request[s].saw \cap accounts =>
                        (Members(p))' = request[s].saw \cap accounts'
    PROVE  Known' /\ Removing' /\ SettlesAgainstMembers'
<1>1. /\ \A s \in Tasks : request'[s] = IF s = t THEN Idle ELSE request[s]
      /\ \A p \in Pools : guard'[p] = IF guard[p] = t THEN None ELSE guard[p]
  BY SettleTypes DEF SInv, Finish, Released
<1>2. Idle.pool = None /\ Idle.op = "none" /\ Idle.at = "idle"
  BY DEF Idle
<1>3. Known'
  BY <1>1, <1>2, PoolAssumption DEF SInv, Known
<1>4. Removing'
  BY <1>1, <1>2 DEF SInv, Removing
<1>5. SettlesAgainstMembers'
  <2> SUFFICES ASSUME NEW s \in Tasks, NEW p \in Live', request'[s].at = "in", request'[s].pool = p,
                      guard'[p] = s
               PROVE  (Members(p))' = request'[s].saw \cap accounts'
    BY DEF SettlesAgainstMembers, Members
  <2>1. s # t /\ request'[s] = request[s]
    BY <1>1, <1>2
  <2>2. p \in Pools /\ guard[p] = s /\ request[s].pool = p /\ pool[p].is # "unused"
    BY <1>1, <2>1, PoolAssumption DEF Live, SInv, Known
  <2>3. p \in Live => Members(p) = request[s].saw \cap accounts
    BY <2>1, <2>2 DEF SInv, SettlesAgainstMembers
  <2> QED
    BY <2>1, <2>2, <2>3
<1> QED
  BY <1>3, <1>4, <1>5

\* What a Store leaves of the pools that go on.
LEMMA StoreMembers ==
    ASSUME IInv, NEW ended, NEW out, NEW owners, NEW deleted, Store(ended, out, owners, deleted)
    PROVE  /\ accounts' = accounts \ deleted
           /\ \A p \in Pools : pool[p].is # "unused" => pool'[p].is # "unused"
           /\ \A p \in Live' : p \in Live /\ (Members(p))' = Members(p) \ (out \cup deleted)
<1>0. /\ pool \in [Pools -> [is : {"unused", "live", "ended"}, owner : Users \cup {None},
                             size : Sizes \cup {None}]]
      /\ memberOf \in [Users -> Pools \cup {None}]
  BY SettleTypes
<1>1. /\ accounts' = accounts \ deleted
      /\ pool' = [p \in Pools |-> IF p \in ended THEN Ended
                                  ELSE [pool[p] EXCEPT !.owner = owners[p]]]
      /\ memberOf' = [u \in Users |->
            IF u \in out \cup deleted \/ memberOf[u] \in ended THEN None ELSE memberOf[u]]
  BY DEF Store
<1>2. \A p \in Pools : pool'[p].is = IF p \in ended THEN "ended" ELSE pool[p].is
  BY <1>0, <1>1 DEF Ended
<1>3. ASSUME NEW p \in Live' PROVE p \in Live /\ (Members(p))' = Members(p) \ (out \cup deleted)
  <2>1. p \in Pools /\ p \notin ended /\ p # None
    BY <1>2, PoolAssumption DEF Live
  <2> QED
    BY <1>1, <1>2, <2>1 DEF Live, Members
<1> QED
  BY <1>1, <1>2, <1>3

LEMMA CommitSettles == ASSUME SInv, NEW t \in Tasks, Commit(t) \/ Refused(t) \/ RefusedFull(t)
                       PROVE  Known' /\ Removing' /\ SettlesAgainstMembers'
<1> DEFINE r == request[t]
<1>a. t # None /\ Finish(t)
  BY PoolAssumption DEF Commit, Refused, RefusedFull, CommitCreate, CommitInvite, CommitAccept, CommitAnswer,
     CommitRemove, CommitDelete, CommitDissolve, CommitSize
<1>b. ASSUME UNCHANGED <<accounts, memberOf>>, Live' = Live,
             \A p \in Pools : pool[p].is # "unused" => pool'[p].is # "unused"
      PROVE  Known' /\ Removing' /\ SettlesAgainstMembers'
  BY <1>a, <1>b, EndSettles DEF Members
<1>1. CASE Refused(t) \/ RefusedFull(t) \/ CommitInvite(t) \/ CommitAnswer(t)
  BY <1>1, <1>b DEF Refused, RefusedFull, CommitInvite, CommitAnswer, database, Live
<1>2. CASE CommitSize(t)
  <2>1. UNCHANGED <<accounts, memberOf>> /\ \A p \in Pools : pool'[p].is = pool[p].is
    BY <1>2, SettleTypes DEF SInv, CommitSize
  <2> QED
    BY <2>1, <1>b DEF Live
<1>3. CASE CommitCreate(t)
  <2>1. PICK q \in Pools : /\ pool[q] = Unused
                           /\ pool' = [pool EXCEPT ![q] = [is |-> "live", owner |-> r.who, size |-> None]]
                           /\ Join(r.who, q)
    BY <1>3 DEF CommitCreate
  <2>2. accounts' = accounts /\ memberOf' = [memberOf EXCEPT ![r.who] = q] /\ memberOf[r.who] = None
        /\ r.who \in Users
    BY <1>3, <2>1, SettleTypes DEF SInv, CommitCreate, Join
  <2>3. \A p \in Pools : pool[p].is # "unused" => p # q /\ pool'[p] = pool[p]
    BY <2>1, SettleTypes DEF SInv, Unused
  <2>4. ASSUME NEW p \in Pools, p # q PROVE (Members(p))' = Members(p)
    BY <2>2, <2>4, SettleTypes, PoolAssumption DEF SInv, Members
  <2> QED
    BY <1>a, <2>2, <2>3, <2>4, EndSettles DEF Live
<1>4. CASE CommitAccept(t)
  <2>1. /\ UNCHANGED <<accounts, pool>> /\ memberOf' = [memberOf EXCEPT ![r.who] = r.pool]
        /\ memberOf[r.who] = None /\ r.who \in Users /\ r.pool \in Live
    BY <1>4, SettleTypes DEF SInv, CommitAccept, Join
  <2>2. guard[r.pool] = t
    BY <1>4 DEF SInv, IInv, Guarded, CommitAccept, At
  <2>3. ASSUME NEW p \in Pools, p # r.pool PROVE (Members(p))' = Members(p)
    BY <2>1, <2>3, SettleTypes, PoolAssumption DEF SInv, Members
  <2>4. Live' = Live
    BY <2>1 DEF Live
  <2> QED
    BY <1>a, <2>1, <2>2, <2>3, <2>4, EndSettles
<1>5. CASE CommitDissolve(t)
  <2>1. PICK ended, out, owners, deleted :
          Store(ended, out, owners, deleted) /\ out = {} /\ deleted = {}
    BY <1>5 DEF CommitDissolve
  <2>a. Store(ended, out, owners, deleted)
    BY <2>1
  <2>2. /\ accounts' = accounts \ deleted
        /\ \A p \in Pools : pool[p].is # "unused" => pool'[p].is # "unused"
        /\ \A p \in Live' : p \in Live /\ (Members(p))' = Members(p) \ (out \cup deleted)
    BY <2>a, StoreMembers DEF SInv
  <2>3. accounts' = accounts /\ \A p \in Live' : (Members(p))' = Members(p)
    BY <2>1, <2>2
  <2> QED
    BY <1>a, <2>2, <2>3, EndSettles
<1>6. ASSUME NEW deleted, NEW ended, NEW owners, NEW out, Store(ended, out, owners, deleted),
             \A u \in out : u \notin deleted => memberOf[u] = r.pool /\ guard[r.pool] = t
      PROVE  Known' /\ Removing' /\ SettlesAgainstMembers'
  <2>1. /\ accounts' = accounts \ deleted
        /\ \A p \in Pools : pool[p].is # "unused" => pool'[p].is # "unused"
        /\ \A p \in Live' : p \in Live /\ (Members(p))' = Members(p) \ (out \cup deleted)
    BY <1>6, StoreMembers DEF SInv
  <2>2. ASSUME NEW s \in Tasks \ {t}, NEW p \in Pools, p \in Live', guard[p] = s,
               Members(p) = request[s].saw \cap accounts
        PROVE  (Members(p))' = request[s].saw \cap accounts'
    <3>1. \A u \in out : u \in Members(p) => u \in deleted
      BY <1>6, <2>2 DEF Members
    <3> QED
      BY <2>1, <2>2, <3>1
  <2> QED
    BY <1>a, <2>1, <2>2, EndSettles
<1>7. CASE CommitRemove(t)
  <2>1. guard[r.pool] = t
    BY <1>7 DEF SInv, Removing, CommitRemove, At
  <2>2. PICK ended, out, owners, deleted :
          Store(ended, out, owners, deleted) /\ \A u \in out : memberOf[u] = r.pool
    BY <1>7 DEF CommitRemove, Remove
  <2> QED
    BY <1>6, <2>1, <2>2
<1>8. CASE CommitDelete(t)
  <2>1. PICK ended, out, owners, deleted :
          Store(ended, out, owners, deleted) /\ out \subseteq deleted
    BY <1>8 DEF CommitDelete, Remove
  <2> QED
    BY <1>6, <2>1
<1> QED
  BY <1>1, <1>2, <1>3, <1>4, <1>5, <1>7, <1>8 DEF Commit

\* Inside the guard a request settles the members it will commit against, unless an
\* account among them is deleted meanwhile under the guard of another pool.
THEOREM SettlementIsCurrent == Spec => []SettlesAgainstMembers
<1>1. Init => SInv
  BY InitInv, PoolAssumption DEF Init, SInv, Known, Removing, SettlesAgainstMembers, Idle
<1>2. ASSUME SInv, [Next]_vars PROVE SInv'
  <2>1. IInv'
    BY <1>2, NextStep DEF SInv
  <2>a. ASSUME UNCHANGED <<accounts, pool, memberOf, guard, request>>
        PROVE  Known' /\ Removing' /\ SettlesAgainstMembers'
    BY <1>2, <2>a DEF SInv, Known, Removing, SettlesAgainstMembers, Live, Members
  <2>2. ASSUME NEW c \in Sizes, SetDefaultSize(c) PROVE Known' /\ Removing' /\ SettlesAgainstMembers'
    BY <2>2, <2>a DEF SetDefaultSize, database
  <2>3. ASSUME UNCHANGED vars PROVE Known' /\ Removing' /\ SettlesAgainstMembers'
    <3>1. UNCHANGED <<accounts, pool, memberOf, guard, request>>
      BY <2>3 DEF vars, database
    <3> QED
      BY <3>1, <2>a
  <2>4. Known' /\ Removing' /\ SettlesAgainstMembers'
    <3>1. ASSUME NEW t \in Tasks, Read(t) \/ Enter(t) \/ Commit(t) \/ Refused(t)
          PROVE  Known' /\ Removing' /\ SettlesAgainstMembers'
      BY <1>2, <3>1, ReadSettles, EnterSettles, CommitSettles
    <3>2. CASE Next
      BY <2>2, <3>1, <3>2 DEF Next
    <3> QED
      BY <1>2, <2>3, <3>2
  <2> QED
    BY <2>1, <2>4 DEF SInv
<1>3. SInv => SettlesAgainstMembers
  BY DEF SInv
<1> QED
  BY <1>1, <1>2, <1>3, PTL DEF Spec

=============================================================================
