------------------------------ MODULE AuthCache ------------------------------
(* auth/cache.py and what fills and empties it: authentication by session   *)
(* or by API key (auth/middleware.py, routes/azure_openai.py), the edits of *)
(* accounts and keys (auth/database.py, routes/admin.py, routes/auth.py),   *)
(* and the loop that writes last_used and re-checks validity.               *)
(*                                                                          *)
(* The two dictionaries are touched without a lock, each time between two   *)
(* awaits; what can go wrong is a row read before an edit and cached after  *)
(* its invalidation.  An entry's `raced` is history: it was stored out of   *)
(* date, or while a deletion that invalidates first had yet to commit.      *)
EXTENDS Naturals, FiniteSets

CONSTANTS Ids, Names, Keys, Reqs, Editors,
          MaxEdits,      \* bound: edits in a behaviour
          None

VARIABLES
    users,      \* id -> row of users: [name, active], or None
    keys,       \* key -> row of api_keys: [owner, active], or None
    userCache,  \* _user_cache: name -> [id, raced], or None
    keyCache,   \* _api_key_cache: key -> [owner, label, raced], or None
    toUpdate,   \* _api_keys_to_update
    reqs,       \* request -> where its authentication is
    edits,      \* editor -> the edit it is making
    loop,       \* the background loop: [ph, batch, ks, ns, ok]
    owed,       \* history: keys whose use no write of last_used covers
    made        \* edits begun so far

\* No row, entry or key is None.
Parameters ==
    /\ MaxEdits \in Nat
    /\ None \notin [name : Names, active : BOOLEAN] \cup [owner : Ids, active : BOOLEAN]
    /\ None \notin [id : Ids, raced : BOOLEAN] \cup [owner : Ids, label : Names \cup {None}, raced : BOOLEAN]

accounts == <<users, keys>>
caches   == <<userCache, keyCache>>
vars     == <<users, keys, userCache, keyCache, toUpdate, reqs, edits, loop, owed, made>>

Row == [name : Names, active : BOOLEAN]
NotCached == None
Idle  == [ph |-> "idle"]
Asleep == [ph |-> "asleep", batch |-> {}, ks |-> {}, ns |-> {}, ok |-> {}]

TypeOK ==
    /\ users \in [Ids -> Row \cup {None}]
    /\ keys \in [Keys -> [owner : Ids, active : BOOLEAN] \cup {None}]
    /\ userCache \in [Names -> [id : Ids, raced : BOOLEAN] \cup {None}]
    /\ keyCache \in [Keys -> [owner : Ids, label : Names \cup {None}, raced : BOOLEAN] \cup {None}]
    /\ toUpdate \subseteq Keys /\ owed \subseteq Keys
    /\ \A r \in Reqs : reqs[r].ph \in {"idle", "jwt", "jwtRow", "key", "keyRow", "ownerRow"}
    /\ \A e \in Editors : edits[e].ph \in {"idle", "invalidated", "committed", "again", "insert"}
    /\ loop.ph \in {"asleep", "flush", "refresh", "keysRead", "usersDue", "usersRead", "stopped"}
    /\ made \in 0..MaxEdits

\* Every account starts active or absent, each under a name of its own.
Init ==
    /\ users \in {f \in [Ids -> [name : Names, active : {TRUE}] \cup {None}] :
                    \A i, j \in Ids : i # j /\ f[i] # None /\ f[j] # None => f[i].name # f[j].name}
    /\ keys \in [Keys -> [owner : {i \in Ids : users[i] # None}, active : {TRUE}] \cup {None}]
    /\ userCache = [n \in Names |-> NotCached]
    /\ keyCache = [k \in Keys |-> NotCached]
    /\ toUpdate = {} /\ owed = {} /\ made = 0
    /\ reqs = [r \in Reqs |-> Idle]
    /\ edits = [e \in Editors |-> Idle]
    /\ loop = Asleep

-----------------------------------------------------------------------------
\* What the tables say now.
IsActive(i)     == users[i] # None /\ users[i].active
KeyUsable(k)    == keys[k] # None /\ keys[k].active /\ IsActive(keys[k].owner)
NameOf(i)       == IF users[i] = None THEN None ELSE users[i].name
NameUsable(n)   == \E i \in Ids : IsActive(i) /\ users[i].name = n
NameTaken(n)    == \E i \in Ids : NameOf(i) = n
KeysOf(S)       == {k \in Keys : keyCache[k] # NotCached /\ keyCache[k].owner \in S}

\* Whether a cached entry says what the tables say.
KeyCurrent(k, entry)  == KeyUsable(k) /\ entry.owner = keys[k].owner /\ entry.label = NameOf(entry.owner)
UserCurrent(n, entry) == users[entry.id] = [name |-> n, active |-> TRUE]

\* Deletions invalidate first and commit later; what they are about to remove.
Deleting(e) == edits[e].ph = "invalidated"
KeyGoing(k)  == \E e \in Editors :
    /\ Deleting(e)
    /\ \/ edits[e].kind = "key" /\ edits[e].key = k
       \/ edits[e].kind = "delete" /\ keys[k] # None /\ keys[k].owner = edits[e].id
NameGoing(i) == \E e \in Editors : Deleting(e) /\ edits[e].kind = "delete" /\ edits[e].id = i

-----------------------------------------------------------------------------
\* A request with a session cookie or token naming n.
PresentSession(r, n) ==
    /\ reqs[r] = Idle /\ userCache[n] = NotCached
    /\ reqs' = [reqs EXCEPT ![r] = [ph |-> "jwt", name |-> n]]
    /\ UNCHANGED <<accounts, caches, toUpdate, edits, loop, owed, made>>

ReadUser(r) ==
    /\ reqs[r].ph = "jwt"
    /\ LET found == {i \in Ids : IsActive(i) /\ users[i].name = reqs[r].name}
       IN reqs' = [reqs EXCEPT ![r] = IF found = {} THEN Idle      \* 401
                                      ELSE [ph |-> "jwtRow", name |-> reqs[r].name, id |-> CHOOSE i \in found : TRUE]]
    /\ UNCHANGED <<accounts, caches, toUpdate, edits, loop, owed, made>>

\* cache_user, after the session that read the row is closed.
CacheUser(r) ==
    /\ reqs[r].ph = "jwtRow"
    /\ LET n == reqs[r].name
           entry == [id |-> reqs[r].id, raced |-> FALSE]
       IN userCache' = [userCache EXCEPT ![n] =
            [entry EXCEPT !.raced = ~UserCurrent(n, entry) \/ NameGoing(entry.id)]]
    /\ reqs' = [reqs EXCEPT ![r] = Idle]
    /\ UNCHANGED <<accounts, keyCache, toUpdate, edits, loop, owed, made>>

\* A request with an API key: a hit is marked as used and served at once.
PresentKey(r, k) ==
    /\ reqs[r] = Idle
    /\ IF keyCache[k] # NotCached
       THEN toUpdate' = toUpdate \cup {k} /\ owed' = owed \cup {k} /\ UNCHANGED reqs
       ELSE reqs' = [reqs EXCEPT ![r] = [ph |-> "key", key |-> k]] /\ UNCHANGED <<toUpdate, owed>>
    /\ UNCHANGED <<accounts, caches, edits, loop, made>>

\* get_api_key: only an active key of an active user is found.
ReadKey(r) ==
    /\ reqs[r].ph = "key"
    /\ LET k == reqs[r].key
       IN reqs' = [reqs EXCEPT ![r] = IF KeyUsable(k) THEN [ph |-> "keyRow", key |-> k, owner |-> keys[k].owner]
                                      ELSE Idle]                   \* 401
    /\ UNCHANGED <<accounts, caches, toUpdate, edits, loop, owed, made>>

\* get_user_by_id, a statement of its own: the owner may be gone by now.
ReadOwner(r) ==
    /\ reqs[r].ph = "keyRow"
    /\ reqs' = [reqs EXCEPT ![r] = [ph |-> "ownerRow", key |-> reqs[r].key, owner |-> reqs[r].owner,
                                    label |-> NameOf(reqs[r].owner)]]
    /\ UNCHANGED <<accounts, caches, toUpdate, edits, loop, owed, made>>

\* cache_api_key and mark_api_key_used.
CacheKey(r) ==
    /\ reqs[r].ph = "ownerRow"
    /\ LET k == reqs[r].key
           entry == [owner |-> reqs[r].owner, label |-> reqs[r].label, raced |-> FALSE]
       IN /\ keyCache' = [keyCache EXCEPT ![k] = [entry EXCEPT !.raced = ~KeyCurrent(k, entry) \/ KeyGoing(k)]]
          /\ toUpdate' = toUpdate \cup {k} /\ owed' = owed \cup {k}
    /\ reqs' = [reqs EXCEPT ![r] = Idle]
    /\ UNCHANGED <<accounts, userCache, edits, loop, made>>

\* A lookup finds its entry older than the TTL and drops it.
Expire ==
    /\ \/ \E k \in Keys : keyCache[k] # NotCached /\ keyCache' = [keyCache EXCEPT ![k] = NotCached] /\ UNCHANGED userCache
       \/ \E n \in Names : userCache[n] # NotCached /\ userCache' = [userCache EXCEPT ![n] = NotCached] /\ UNCHANGED keyCache
    /\ UNCHANGED <<accounts, toUpdate, reqs, edits, loop, owed, made>>

-----------------------------------------------------------------------------
Begin(e) == edits[e] = Idle /\ made < MaxEdits /\ made' = made + 1

\* invalidate_user_api_keys: pending writes of last_used stay.
DropKeysOf(S) == keyCache' = [k \in Keys |-> IF k \in KeysOf(S) THEN NotCached ELSE keyCache[k]]

\* invalidate_user_by_id for each of S: the loop over the dictionary stops at the
\* first entry of the id.  A second one exists only after a race: `raced`.
DropUsersOf(S) ==
    \E gone \in SUBSET Names :
        /\ \A n \in gone : userCache[n] # NotCached /\ userCache[n].id \in S
        /\ \A i \in S : LET mine == {n \in Names : userCache[n] # NotCached /\ userCache[n].id = i}
                        IN Cardinality(mine \cap gone) = IF mine = {} THEN 0 ELSE 1
        /\ userCache' = [n \in Names |->
                IF n \in gone THEN NotCached
                ELSE IF userCache[n] # NotCached /\ userCache[n].id \in S THEN [userCache[n] EXCEPT !.raced = TRUE]
                ELSE userCache[n]]

\* Sign-up, creation by an administrator or by a first OAuth sign-in.  SQLite may
\* give the new account the id of one deleted before.
Register(e, i, n) ==
    /\ Begin(e) /\ users[i] = None /\ ~NameTaken(n)
    /\ \E active \in BOOLEAN : users' = [users EXCEPT ![i] = [name |-> n, active |-> active]]
    /\ UNCHANGED <<keys, caches, toUpdate, reqs, edits, loop, owed>>

\* create_api_key: the account was authenticated before; the INSERT fails if it is gone,
\* and makes the key another account's if its id was given away.
BeginKey(e, i) ==
    /\ Begin(e) /\ IsActive(i)
    /\ edits' = [edits EXCEPT ![e] = [ph |-> "insert", id |-> i]]
    /\ UNCHANGED <<accounts, caches, toUpdate, reqs, loop, owed>>
InsertKey(e) ==
    /\ edits[e].ph = "insert" /\ users[edits[e].id] # None
    /\ \E k \in Keys : /\ keys[k] = None /\ keyCache[k] = NotCached
                       /\ keys' = [keys EXCEPT ![k] = [owner |-> edits[e].id, active |-> TRUE]]
    /\ edits' = [edits EXCEPT ![e] = Idle]
    /\ UNCHANGED <<users, caches, toUpdate, reqs, loop, owed, made>>
InsertFails(e) ==
    /\ edits[e].ph = "insert"
    /\ edits' = [edits EXCEPT ![e] = Idle]
    /\ UNCHANGED <<accounts, caches, toUpdate, reqs, loop, owed, made>>

\* Mutant: the plaintext key is looked up where only its hash is known.
EvictKeyByPlaintext(e, k) ==
    /\ Begin(e) /\ keys[k] # None
    /\ edits' = [edits EXCEPT ![e] = [ph |-> "invalidated", kind |-> "key", key |-> k]]
    /\ UNCHANGED <<accounts, caches, toUpdate, reqs, loop, owed>>
\* delete_api_key: evicted by hash, then switched off.
EvictKey(e, k) ==
    /\ Begin(e) /\ keys[k] # None
    /\ keyCache' = [keyCache EXCEPT ![k] = NotCached]
    /\ toUpdate' = toUpdate \ {k} /\ owed' = owed \ {k}
    /\ edits' = [edits EXCEPT ![e] = [ph |-> "invalidated", kind |-> "key", key |-> k]]
    /\ UNCHANGED <<accounts, userCache, reqs, loop>>

SwitchKeyOff(e) ==
    /\ Deleting(e) /\ edits[e].kind = "key"
    /\ LET k == edits[e].key
       IN \/ keys[k] # None /\ keys' = [keys EXCEPT ![k].active = FALSE]
          \/ UNCHANGED keys            \* the commit fails: the row is gone, or the database refuses
    /\ edits' = [edits EXCEPT ![e] = Idle]
    /\ UNCHANGED <<users, caches, toUpdate, reqs, loop, owed, made>>

\* activate, approve, deactivate: one commit for all targets of a bulk action.
CommitActive(e, S, active) ==
    /\ Begin(e) /\ \A i \in S : users[i] # None
    /\ users' = [i \in Ids |-> IF i \in S THEN [users[i] EXCEPT !.active = active] ELSE users[i]]
    /\ edits' = [edits EXCEPT ![e] = IF active THEN Idle ELSE [ph |-> "committed", kind |-> "off", ids |-> S]]
    /\ UNCHANGED <<keys, caches, toUpdate, reqs, loop, owed>>

DropDeactivated(e) ==
    /\ edits[e].ph = "committed" /\ edits[e].kind = "off"
    /\ DropKeysOf(edits[e].ids) /\ DropUsersOf(edits[e].ids)
    /\ edits' = [edits EXCEPT ![e] = Idle]
    /\ UNCHANGED <<accounts, toUpdate, reqs, loop, owed, made>>

\* update_user_profile; the usage tables' half of a rename is UsageTracker's.
CommitRename(e, i, n) ==
    /\ Begin(e) /\ users[i] # None /\ ~NameTaken(n)
    /\ users' = [users EXCEPT ![i].name = n]
    /\ edits' = [edits EXCEPT ![e] = [ph |-> "committed", kind |-> "rename", id |-> i, old |-> users[i].name, new |-> n]]
    /\ UNCHANGED <<keys, caches, toUpdate, reqs, loop, owed>>

\* Mutant: the cached keys keep the owner's old name.
DropRenamedUserOnly(e) ==
    /\ edits[e].ph = "committed" /\ edits[e].kind = "rename"
    /\ userCache' = [userCache EXCEPT ![edits[e].old] = NotCached, ![edits[e].new] = NotCached]
    /\ edits' = [edits EXCEPT ![e] = Idle]
    /\ UNCHANGED <<accounts, keyCache, toUpdate, reqs, loop, owed, made>>
DropRenamed(e) ==
    /\ edits[e].ph = "committed" /\ edits[e].kind = "rename"
    /\ userCache' = [userCache EXCEPT ![edits[e].old] = NotCached, ![edits[e].new] = NotCached]
    /\ DropKeysOf({edits[e].id})
    /\ \/ edits' = [edits EXCEPT ![e] = Idle]
       \/ edits' = [edits EXCEPT ![e] = [ph |-> "again", id |-> edits[e].id]]
    /\ UNCHANGED <<accounts, toUpdate, reqs, loop, owed, made>>

\* modify_user, the administrator's way to rename, invalidates once more.
DropModified(e) ==
    /\ edits[e].ph = "again"
    /\ DropKeysOf({edits[e].id}) /\ DropUsersOf({edits[e].id})
    /\ edits' = [edits EXCEPT ![e] = Idle]
    /\ UNCHANGED <<accounts, toUpdate, reqs, loop, owed, made>>

\* permanently_delete_user: invalidates, selects and deletes the keys, commits.
EvictUser(e, i) ==
    /\ Begin(e) /\ users[i] # None
    /\ userCache' = [userCache EXCEPT ![users[i].name] = NotCached]
    /\ DropKeysOf({i})
    /\ edits' = [edits EXCEPT ![e] = [ph |-> "invalidated", kind |-> "delete", id |-> i]]
    /\ UNCHANGED <<accounts, toUpdate, reqs, loop, owed>>

DeleteUser(e) ==
    /\ Deleting(e) /\ edits[e].kind = "delete"
    /\ LET i == edits[e].id
       IN \/ /\ users[i] # None
             /\ users' = [users EXCEPT ![i] = None]
             /\ keys' = [k \in Keys |-> IF keys[k] # None /\ keys[k].owner = i THEN None ELSE keys[k]]
          \/ UNCHANGED accounts        \* rolled back
    /\ edits' = [edits EXCEPT ![e] = Idle]
    /\ UNCHANGED <<caches, toUpdate, reqs, loop, owed, made>>

-----------------------------------------------------------------------------
\* _flush_loop wakes every FLUSH_INTERVAL seconds: _flush_pending_updates ...
TakeBatch ==
    /\ loop.ph = "asleep"
    /\ loop' = IF toUpdate = {} THEN [loop EXCEPT !.ph = "refresh"]
               ELSE [loop EXCEPT !.ph = "flush", !.batch = toUpdate]
    /\ toUpdate' = {}
    /\ UNCHANGED <<accounts, caches, reqs, edits, owed, made>>

WriteLastUsed ==
    /\ loop.ph = "flush"
    /\ owed' = owed \ (loop.batch \ toUpdate)
    /\ loop' = [loop EXCEPT !.ph = "refresh", !.batch = {}]
    /\ UNCHANGED <<accounts, caches, toUpdate, reqs, edits, made>>

\* Mutant: the batch of a failed write is dropped.
WriteFailsForGood ==
    /\ loop.ph = "flush"
    /\ loop' = [loop EXCEPT !.ph = "refresh", !.batch = {}]
    /\ UNCHANGED <<accounts, caches, toUpdate, reqs, edits, owed, made>>
WriteFails ==
    /\ loop.ph = "flush"
    /\ toUpdate' = toUpdate \cup loop.batch
    /\ loop' = [loop EXCEPT !.ph = "refresh", !.batch = {}]
    /\ UNCHANGED <<accounts, caches, reqs, edits, owed, made>>

\* Mutant: the owner's is_active is not selected.
ReadKeysOnly ==
    /\ loop.ph = "refresh"
    /\ LET ks == {k \in Keys : keyCache[k] # NotCached}
           ns == {n \in Names : userCache[n] # NotCached}
       IN loop' = CASE ks # {} -> [loop EXCEPT !.ph = "keysRead", !.ks = ks, !.ns = ns,
                                               !.ok = {k \in ks : keys[k] # None /\ keys[k].active}]
                    [] ks = {} /\ ns # {} -> [loop EXCEPT !.ph = "usersDue", !.ns = ns]
                    [] OTHER -> Asleep
    /\ UNCHANGED <<accounts, caches, toUpdate, reqs, edits, owed, made>>
\* ... then _refresh_validity_status: what is cached now is looked up in two queries,
\* each answered some time before its answer is applied.
ReadKeys ==
    /\ loop.ph = "refresh"
    /\ LET ks == {k \in Keys : keyCache[k] # NotCached}
           ns == {n \in Names : userCache[n] # NotCached}
       IN loop' = CASE ks # {} -> [loop EXCEPT !.ph = "keysRead", !.ks = ks, !.ns = ns, !.ok = {k \in ks : KeyUsable(k)}]
                    [] ks = {} /\ ns # {} -> [loop EXCEPT !.ph = "usersDue", !.ns = ns]
                    [] OTHER -> Asleep
    /\ UNCHANGED <<accounts, caches, toUpdate, reqs, edits, owed, made>>

DropInvalidKeys ==
    /\ loop.ph = "keysRead"
    /\ LET gone == {k \in loop.ks \ loop.ok : keyCache[k] # NotCached}
       IN /\ keyCache' = [k \in Keys |-> IF k \in gone THEN NotCached ELSE keyCache[k]]
          /\ toUpdate' = toUpdate \ gone /\ owed' = owed \ gone
    /\ loop' = IF loop.ns = {} THEN Asleep ELSE [loop EXCEPT !.ph = "usersDue"]
    /\ UNCHANGED <<accounts, userCache, reqs, edits, made>>

ReadUsers ==
    /\ loop.ph = "usersDue"
    /\ loop' = [loop EXCEPT !.ph = "usersRead", !.ok = {n \in loop.ns : NameUsable(n)}]
    /\ UNCHANGED <<accounts, caches, toUpdate, reqs, edits, owed, made>>

\* Names are checked, not ids: an entry survives if an active account has its name.
DropInvalidUsers ==
    /\ loop.ph = "usersRead"
    /\ userCache' = [n \in Names |-> IF n \in loop.ns \ loop.ok THEN NotCached ELSE userCache[n]]
    /\ loop' = Asleep
    /\ UNCHANGED <<accounts, keyCache, toUpdate, reqs, edits, owed, made>>

RefreshFails ==
    /\ loop.ph \in {"refresh", "usersDue"}
    /\ loop' = Asleep
    /\ UNCHANGED <<accounts, caches, toUpdate, reqs, edits, owed, made>>

\* stop(): the loop is cancelled wherever it is, then what is pending is written once
\* more.  A batch whose write was under way is neither written nor pending again.
Stop ==
    /\ loop.ph # "stopped"
    /\ \/ owed' = owed \ (toUpdate \cup loop.batch) /\ toUpdate' = {}
       \/ owed' = owed \ loop.batch /\ UNCHANGED toUpdate      \* the last write fails
    /\ loop' = [Asleep EXCEPT !.ph = "stopped"]
    /\ UNCHANGED <<accounts, caches, reqs, edits, made>>

-----------------------------------------------------------------------------
Proceed(e) ==
    \/ InsertKey(e) \/ InsertFails(e) \/ SwitchKeyOff(e)
    \/ DropDeactivated(e) \/ DropRenamed(e) \/ DropModified(e) \/ DeleteUser(e)

Authenticate(r) ==
    \/ \E n \in Names : PresentSession(r, n)
    \/ \E k \in Keys : PresentKey(r, k)
    \/ ReadUser(r) \/ CacheUser(r) \/ ReadKey(r) \/ ReadOwner(r) \/ CacheKey(r)

Edit(e) ==
    \/ \E i \in Ids, n \in Names : Register(e, i, n) \/ CommitRename(e, i, n)
    \/ \E i \in Ids : BeginKey(e, i) \/ EvictUser(e, i)
    \/ \E S \in (SUBSET Ids) \ {{}}, active \in BOOLEAN : CommitActive(e, S, active)
    \/ \E k \in Keys : EvictKey(e, k)
    \/ Proceed(e)

LoopStep ==
    TakeBatch \/ WriteLastUsed \/ ReadKeys \/ DropInvalidKeys \/ ReadUsers \/ DropInvalidUsers

Next ==
    \/ \E r \in Reqs : Authenticate(r)
    \/ \E e \in Editors : Edit(e)
    \/ LoopStep \/ WriteFails \/ RefreshFails \/ Stop \/ Expire

Spec == Init /\ [][Next]_vars

\* The loop runs on while the process does, and does not fail for ever to read what is
\* cached: it may fail any number of times in a row.
ReadsSucceed ==
    /\ []<>(loop.ph \in {"keysRead", "stopped"} \/ \A k \in Keys : keyCache[k] = NotCached)
    /\ []<>(loop.ph \in {"usersRead", "stopped"} \/ \A n \in Names : userCache[n] = NotCached)

FairSpec == Spec /\ WF_vars(LoopStep \/ WriteFails) /\ ReadsSucceed

-----------------------------------------------------------------------------
\* An entry that no longer says what the tables say was cached across its
\* revocation or rename (auth/middleware.py reads the row, closes the session and then
\* caches it), or the edit that outdated it has committed and is about to drop it.
OutdatedOnlyByRace ==
    /\ \A k \in Keys : keyCache[k] # NotCached /\ ~KeyCurrent(k, keyCache[k]) =>
          \/ keyCache[k].raced
          \/ \E e \in Editors : /\ edits[e].ph = "committed"
                                /\ keyCache[k].owner \in IF edits[e].kind = "off" THEN edits[e].ids ELSE {edits[e].id}
    /\ \A n \in Names : userCache[n] # NotCached /\ ~UserCurrent(n, userCache[n]) =>
          \/ userCache[n].raced
          \/ \E e \in Editors : /\ edits[e].ph = "committed"
                                /\ userCache[n].id \in IF edits[e].kind = "off" THEN edits[e].ids ELSE {edits[e].id}

\* Once the edits have ended, no revoked key and no name that nobody active has stays in
\* the cache, whatever the races, because the loop re-checks them (auth/cache.py:
\* "Refresh ... detects deactivated keys/users quickly"), unless the process stops.
Stale ==
    \/ \E k \in Keys : keyCache[k] # NotCached /\ ~KeyUsable(k)
    \/ \E n \in Names : userCache[n] # NotCached /\ ~NameUsable(n)
RevokedCredentialsGo == <>[](~Stale \/ loop.ph = "stopped")

\* A use of a key is pending, being written or written, through failed writes too,
\* unless its key was revoked (Stop excepts the batch it cancels).
UsesAreKept == owed \subseteq toUpdate \cup loop.batch
=============================================================================
