---------------------------- MODULE ProviderSync ----------------------------
(* The registry of provider instances, their models' rows and the cached     *)
(* lists: providers/provider_manager.py, providers/auto_sync.py and the      *)
(* requests that edit providers (routes/admin.py, routes/user_providers.py). *)
(*                                                                           *)
(* Administrators' providers are saved, toggled and deleted, each followed   *)
(* by a refresh of the whole registry; users' own (BYOK) ones are edited one *)
(* at a time.  Model lists come from the providers, slowly, through three    *)
(* paths that may overlap: a save's own sync, an administrator's sync of     *)
(* all, and the background fetch.  One model stands for a provider's list.   *)
EXTENDS Naturals, FiniteSets

CONSTANTS Global, Byok,  \* provider keys: administrators', users'
          Tasks,         \* requests that edit providers
          MaxEdits,      \* bound: edits, and fetches begun
          MaxClock,
          None

Keys == Global \cup Byok

\* An instance of a user's is told by its name (byok.py: BYOK_INSTANCE_PREFIX).
Parameters ==
    /\ MaxEdits \in Nat /\ MaxClock \in Nat /\ Global \cap Byok = {}
    /\ None \notin Tasks
    /\ None \notin [live : BOOLEAN, ver : 0..MaxEdits] \cup [on : BOOLEAN] \cup [by : 1..MaxClock, listed : BOOLEAN]
    /\ None \notin [key : Keys, ver : 0..MaxEdits, n : 0..MaxEdits]

VARIABLES
    rows,      \* provider_credentials: key -> [live, ver], or None; live: enabled (and, an administrator's, buildable)
    models,    \* model_configurations: key -> [on], or None
    registry,  \* self.providers: key -> instance, or None
    owners,    \* byok_registry: BYOK keys with a known owner
    errors,    \* byok_load_errors: BYOK keys whose last build failed, as their owners are shown
    open,      \* instances whose clients are open
    closing,   \* instances that a deferred close will close
    editing,   \* who holds _byok_lock, which a refresh holds too, inside _refresh_lock
    status,    \* _sync_status: key -> started_at of the fetch recorded, 0: none
    slices,    \* ModelCache._models: key -> [by, listed], or None
    tasks, fetches,
    clock,     \* started_at of the last fetch begun
    made,      \* edits made; also numbers versions and instances
    behind,    \* history: keys whose row could not be read after an edit
    crossed,   \* history: keys dropped for an edit that a later one had undone
    overtaken  \* history: keys whose toggle a sync that had read the old states undid

table   == <<rows, models>>
clients == <<open, closing>>
history == <<behind, crossed, overtaken>>
vars == <<table, registry, owners, errors, clients, editing, status, slices, tasks, fetches, clock, made, history>>

Idle == [ph |-> "idle"]
Instance == [key : Keys, ver : 0..MaxEdits, n : 0..MaxEdits]
Listings == {"ok", "other", "empty", "fail"}

TypeOK ==
    /\ rows \in [Keys -> [live : BOOLEAN, ver : 0..MaxEdits] \cup {None}]
    /\ models \in [Keys -> [on : BOOLEAN] \cup {None}]
    /\ \A k \in Keys : models[k] # None => rows[k] # None         \* a foreign key
    /\ \A k \in Keys : registry[k] # None => registry[k] \in Instance /\ registry[k].key = k
    /\ owners \subseteq Byok /\ errors \subseteq Byok /\ open \subseteq Instance /\ closing \subseteq Instance
    /\ editing \in Tasks \cup {None}
    /\ status \in [Keys -> 0..MaxClock]
    /\ slices \in [Keys -> [by : 1..MaxClock, listed : BOOLEAN] \cup {None}]
    /\ clock \in 0..MaxClock /\ made \in 0..MaxEdits
    /\ crossed \subseteq Byok /\ overtaken \subseteq Keys /\ behind \subseteq Keys

First(k) == [key |-> k, ver |-> 0, n |-> 0]

\* A running server: each provider exists or not, is live, and is in the registry.
Init ==
    /\ rows \in [Keys -> {[live |-> TRUE, ver |-> 0], None}]
    /\ models = [k \in Keys |-> IF rows[k] = None THEN None ELSE [on |-> TRUE]]
    /\ registry = [k \in Keys |-> IF rows[k] = None THEN None ELSE First(k)]
    /\ owners = {k \in Byok : rows[k] # None} /\ errors = {}
    /\ open = {First(k) : k \in {q \in Keys : rows[q] # None}} /\ closing = {}
    /\ editing = None /\ status = [k \in Keys |-> 0] /\ slices = [k \in Keys |-> None]
    /\ tasks = [t \in Tasks |-> Idle] /\ fetches = [k \in Keys |-> Idle]
    /\ clock = 0 /\ made = 0
    /\ behind = {} /\ crossed = {} /\ overtaken = {}

-----------------------------------------------------------------------------
Live(row)      == row # None /\ row.live
Routed         == {registry[k] : k \in Keys} \ {None}
Superseded(k, start) == status[k] > start
Go(t, p)       == tasks' = [tasks EXCEPT ![t] = p]

Begin(t) == tasks[t] = Idle /\ made < MaxEdits /\ made' = made + 1
Commit(t, k, row, p) ==
    /\ Begin(t)
    /\ rows' = [rows EXCEPT ![k] = row]
    /\ models' = IF row = None THEN [models EXCEPT ![k] = None] ELSE models
    /\ Go(t, p)
    /\ UNCHANGED <<registry, owners, errors, clients, editing, status, slices, fetches, history>>

\* create_, update_provider_credential; auto_sync_on_provider_change starts its clock here.
Save(t, k) ==
    /\ clock < MaxClock /\ clock' = clock + 1
    /\ \E live \in BOOLEAN : Commit(t, k, [live |-> live, ver |-> made + 1],
                                    [ph |-> "refresh", then |-> "sync", key |-> k, start |-> clock + 1, n |-> made + 1])

\* toggle_provider
Toggle(t, k) ==
    /\ rows[k] # None
    /\ Commit(t, k, [rows[k] EXCEPT !.live = ~@], [ph |-> "refresh", then |-> "idle", n |-> made + 1])
    /\ UNCHANGED clock

\* delete_provider_credential, then remove_provider, then a refresh.
Delete(t, k) ==
    /\ rows[k] # None
    /\ Commit(t, k, None, [ph |-> "remove", key |-> k, n |-> made + 1])
    /\ UNCHANGED clock

\* remove_provider takes it out of the live registry, lock or no lock, and closes it at
\* once; a refresh under way that captured this registry sees it gone too.
Remove(t) ==
    /\ tasks[t].ph = "remove"
    /\ LET k == tasks[t].key
           i == registry[k]
       IN /\ registry' = [registry EXCEPT ![k] = None]
          /\ open' = open \ {i} /\ UNCHANGED closing
          /\ slices' = IF i = None THEN slices ELSE [slices EXCEPT ![k] = None]
          /\ tasks' = [q \in Tasks |->
                IF q = t THEN [ph |-> "refresh", then |-> "idle", n |-> tasks[t].n]
                ELSE IF tasks[q].ph = "loading" THEN [tasks[q] EXCEPT !.old = @ \ {i}] ELSE tasks[q]]
    /\ UNCHANGED <<table, owners, errors, editing, status, fetches, clock, made, history>>

\* sync_models_from_providers
SyncAll(t) ==
    /\ Begin(t)
    /\ Go(t, [ph |-> "refresh", then |-> "gather", n |-> made + 1])
    /\ UNCHANGED <<table, registry, owners, errors, clients, editing, status, slices, fetches, clock, history>>

\* toggle_model, bulk_toggle_models, toggle_my_provider_model
ToggleModel(k) ==
    /\ models[k] # None /\ made < MaxEdits /\ made' = made + 1
    /\ models' = [models EXCEPT ![k].on = ~@]
    /\ UNCHANGED <<rows, registry, owners, errors, clients, editing, status, slices, tasks, fetches, clock, history>>

-----------------------------------------------------------------------------
\* refresh_providers_from_database, under both locks: the rows are read first, then
\* instances are built off to the side, which suspends.
Started(t) == CASE tasks[t].then = "sync" -> [ph |-> "sync", key |-> tasks[t].key, start |-> tasks[t].start]
                [] tasks[t].then = "gather" -> [ph |-> "gather"]
                [] OTHER -> Idle

\* Mutant: a refresh does not wait for the edit of a single instance.
LoadRowsDuringEdits(t) ==
    /\ tasks[t].ph = "refresh"
    /\ editing' = t
    /\ Go(t, [ph |-> "loading", after |-> Started(t), old |-> Routed, read |-> rows, n |-> tasks[t].n])
    /\ UNCHANGED <<table, registry, owners, errors, clients, status, slices, fetches, clock, made, history>>
LoadRows(t) ==
    /\ tasks[t].ph = "refresh" /\ editing = None
    /\ editing' = t
    /\ Go(t, [ph |-> "loading", after |-> Started(t), old |-> Routed, read |-> rows, n |-> tasks[t].n])
    /\ UNCHANGED <<table, registry, owners, errors, clients, status, slices, fetches, clock, made, history>>

\* The table cannot be read: the old registry keeps serving, a save's sync goes on.
LoadFails(t) ==
    /\ tasks[t].ph = "refresh" /\ editing = None
    /\ Go(t, IF tasks[t].then = "sync" THEN Started(t) ELSE Idle)
    /\ behind' = Keys
    /\ UNCHANGED <<table, registry, owners, errors, clients, editing, status, slices, fetches, clock, made, crossed, overtaken>>

\* Owner map first, then the registry, in one step of the event loop; what is recorded of
\* providers no longer loaded is dropped.
SwapRegistry(t) ==
    /\ tasks[t].ph = "loading"
    /\ LET read == tasks[t].read
           n == tasks[t].n
           loaded == {k \in Keys : Live(read[k]) /\ k \notin errors'}
       IN /\ owners' = {k \in Byok : read[k] # None}
          /\ errors' \in SUBSET {k \in Byok : Live(read[k])}
          /\ registry' = [k \in Keys |-> IF k \in loaded THEN [key |-> k, ver |-> read[k].ver, n |-> n] ELSE None]
          /\ open' = open \cup {registry'[k] : k \in loaded}
          /\ status' = [k \in Keys |-> IF k \in loaded THEN status[k] ELSE 0]
    /\ Go(t, [ph |-> "swapped", after |-> tasks[t].after, old |-> tasks[t].old])
    /\ LET late == {k \in Keys : tasks[t].read[k] # rows[k]}     \* edited since the rows were read
       IN behind' = behind \cap late /\ crossed' = crossed \cap late
    /\ UNCHANGED <<table, closing, editing, slices, fetches, clock, made, overtaken>>

\* Mutant: the clients of the new registry are closed, not those of the old.
CloseOldLive(t) ==
    /\ tasks[t].ph = "swapped"
    /\ closing' = closing \cup Routed
    /\ editing' = None
    /\ Go(t, tasks[t].after)
    /\ UNCHANGED <<table, registry, owners, errors, open, status, slices, fetches, clock, made, history>>
\* Configurations are reloaded, and the old instances left to a deferred close.
CloseOld(t) ==
    /\ tasks[t].ph = "swapped"
    /\ closing' = closing \cup tasks[t].old
    /\ editing' = None
    /\ Go(t, tasks[t].after)
    /\ UNCHANGED <<table, registry, owners, errors, open, status, slices, fetches, clock, made, history>>

\* _deferred_close_providers
Close(i) ==
    /\ i \in closing
    /\ closing' = closing \ {i} /\ open' = open \ {i}
    /\ UNCHANGED <<table, registry, owners, errors, editing, status, slices, tasks, fetches, clock, made, history>>

-----------------------------------------------------------------------------
\* A user's own instance is created, edited, switched on (the row may be off by an
\* administrator's word) or re-synced.
SaveByok(t, k) ==
    /\ \E live \in BOOLEAN : Commit(t, k, [live |-> live, ver |-> made + 1], [ph |-> "upsert", key |-> k, n |-> made + 1])
    /\ UNCHANGED clock
OffByok(t, k) ==
    /\ rows[k] # None
    /\ Commit(t, k, [rows[k] EXCEPT !.live = FALSE], [ph |-> "drop", key |-> k, forget |-> FALSE])
    /\ UNCHANGED clock
DeleteByok(t, k) ==
    /\ rows[k] # None
    /\ Commit(t, k, None, [ph |-> "drop", key |-> k, forget |-> TRUE])
    /\ UNCHANGED clock

\* _drop_byok_locked
Drop(k) ==
    /\ registry' = [registry EXCEPT ![k] = None]
    /\ closing' = closing \cup ({registry[k]} \ {None}) /\ UNCHANGED open
    /\ slices' = [slices EXCEPT ![k] = None] /\ status' = [status EXCEPT ![k] = 0]

\* remove_byok_provider, which does not look at the row again.
DropByok(t) ==
    /\ tasks[t].ph = "drop" /\ editing = None
    /\ LET k == tasks[t].key
       IN /\ Drop(k)
          /\ owners' = IF tasks[t].forget THEN owners \ {k} ELSE owners
          /\ errors' = IF tasks[t].forget THEN errors \ {k} ELSE errors
          /\ crossed' = IF Live(rows[k]) \/ (tasks[t].forget /\ rows[k] # None) THEN crossed \cup {k} ELSE crossed
    /\ Go(t, Idle)
    /\ UNCHANGED <<table, editing, fetches, clock, made, behind, overtaken>>

\* upsert_byok_provider reads the row under the lock.
ReadByok(t) ==
    /\ tasks[t].ph = "upsert" /\ editing = None
    /\ LET k == tasks[t].key
       IN /\ owners' = IF rows[k] = None THEN owners \ {k} ELSE owners \cup {k}
          /\ IF Live(rows[k])
             THEN /\ Go(t, [ph |-> "building", key |-> k, ver |-> rows[k].ver, n |-> tasks[t].n]) /\ editing' = t
                  /\ UNCHANGED <<registry, errors, closing, open, slices, status, crossed>>
             ELSE /\ Drop(k) /\ Go(t, Idle) /\ crossed' = crossed \ {k} /\ UNCHANGED editing
                  /\ errors' = IF rows[k] = None THEN errors \ {k} ELSE errors
    /\ UNCHANGED <<table, fetches, clock, made, behind, overtaken>>

ReadByokFails(t) ==
    /\ tasks[t].ph = "upsert"
    /\ Go(t, Idle) /\ behind' = behind \cup {tasks[t].key}
    /\ UNCHANGED <<table, registry, owners, errors, clients, editing, status, slices, fetches, clock, made, crossed, overtaken>>

\* The instance is built (its URLs are resolved in a thread), swapped in, and then synced.
SwapByok(t) ==
    /\ tasks[t].ph = "building" /\ clock < MaxClock
    /\ LET k == tasks[t].key
           new == [key |-> k, ver |-> tasks[t].ver, n |-> tasks[t].n]
       IN /\ registry' = [registry EXCEPT ![k] = new]
          /\ open' = open \cup {new}
          /\ closing' = closing \cup ({registry[k]} \ {None})
          /\ errors' = errors \ {k} /\ crossed' = crossed \ {k}
          /\ Go(t, [ph |-> "sync", key |-> k, start |-> clock + 1])
    /\ clock' = clock + 1 /\ editing' = None
    /\ UNCHANGED <<table, owners, status, slices, fetches, made, behind, overtaken>>

\* Its host does not resolve, or to an address that is refused: it leaves the registry, and
\* sync_byok_provider records a failed fetch and ends.
BuildFails(t) ==
    /\ tasks[t].ph = "building" /\ clock < MaxClock
    /\ LET k == tasks[t].key
       IN /\ registry' = [registry EXCEPT ![k] = None]
          /\ closing' = closing \cup ({registry[k]} \ {None}) /\ UNCHANGED open
          /\ errors' = errors \cup {k} /\ crossed' = crossed \ {k}
          /\ slices' = [slices EXCEPT ![k] = None] /\ status' = [status EXCEPT ![k] = clock + 1]
    /\ Go(t, Idle)
    /\ clock' = clock + 1 /\ editing' = None
    /\ UNCHANGED <<table, owners, fetches, made, behind, overtaken>>

-----------------------------------------------------------------------------
\* sync_provider_models: the enabled states are read, and the provider is asked through an
\* instance made for it.  A BYOK instance that is off is not contacted.
ReadStates(t) ==
    /\ tasks[t].ph = "sync"
    /\ LET k == tasks[t].key
       IN IF rows[k] = None \/ (k \in Byok /\ ~rows[k].live)
          THEN Go(t, [ph |-> "record", key |-> k, start |-> tasks[t].start, res |-> "fail"])
          ELSE Go(t, [ph |-> "asking", key |-> k, start |-> tasks[t].start, states |-> models[k]])
    /\ UNCHANGED <<table, registry, owners, errors, clients, editing, status, slices, fetches, clock, made, history>>

\* Mutant: a model that is listed again is enabled.
StoreListingEnabled(t, res) ==
    /\ tasks[t].ph = "asking"
    /\ LET k == tasks[t].key
       IN /\ IF res = "fail" \/ rows[k] = None
             THEN UNCHANGED <<models, overtaken>>
             ELSE /\ models' = [models EXCEPT ![k] = IF res = "ok" THEN [on |-> TRUE] ELSE None]
                  /\ overtaken' = IF tasks[t].states # models[k] THEN {k} ELSE {}
          /\ Go(t, [ph |-> "record", key |-> k, start |-> tasks[t].start, res |-> IF rows[k] = None THEN "fail" ELSE res])
    /\ UNCHANGED <<rows, registry, owners, errors, clients, editing, status, slices, fetches, clock, made, behind, crossed>>
\* The listing came: rows are cleared and inserted anew in one transaction, with the states
\* read before.  A failure leaves them alone.
StoreListing(t, res) ==
    /\ tasks[t].ph = "asking"
    /\ LET k == tasks[t].key
           states == tasks[t].states
       IN /\ IF res = "fail" \/ rows[k] = None
             THEN UNCHANGED <<models, overtaken>>
             ELSE /\ models' = [models EXCEPT ![k] = CASE res # "ok" -> None
                                                       [] res = "ok" /\ states = None -> [on |-> TRUE]
                                                       [] OTHER -> states]
                  /\ overtaken' = IF states # models[k] THEN {k} ELSE {}
          /\ Go(t, [ph |-> "record", key |-> k, start |-> tasks[t].start, res |-> IF rows[k] = None THEN "fail" ELSE res])
    /\ UNCHANGED <<rows, registry, owners, errors, clients, editing, status, slices, fetches, clock, made, behind, crossed>>

Slice(start, res) == IF res \in {"ok", "other"} THEN [by |-> start, listed |-> (res = "ok")] ELSE None

\* record_sync_status and what follows it.  A save's own listing is cached though a later
\* fetch was recorded meanwhile; a failure, and a BYOK listing, only if none was.
RecordSync(t) ==
    /\ tasks[t].ph = "record"
    /\ LET k == tasks[t].key
           start == tasks[t].start
           res == tasks[t].res
           recorded == ~Superseded(k, start)
       IN /\ status' = IF recorded THEN [status EXCEPT ![k] = start] ELSE status
          /\ slices' = IF recorded \/ (k \in Global /\ res \in {"ok", "other"})
                       THEN [slices EXCEPT ![k] = Slice(start, res)] ELSE slices
    /\ Go(t, Idle)
    /\ UNCHANGED <<table, registry, owners, errors, clients, editing, fetches, clock, made, history>>

\* sync_models_from_providers asks every provider of the administrators at once ...
Gather(t) ==
    /\ tasks[t].ph = "gather" /\ clock < MaxClock
    /\ clock' = clock + 1
    /\ Go(t, [ph |-> "gathering", start |-> clock + 1, asked |-> {k \in Global : registry[k] # None}])
    /\ UNCHANGED <<table, registry, owners, errors, clients, editing, status, slices, fetches, made, history>>

\* ... and replaces the cached lists of all of them; no row is removed.
StoreGathered(t) ==
    /\ tasks[t].ph = "gathering"
    /\ \E res \in [tasks[t].asked -> {"ok", "other", "fail"}] :
        LET start == tasks[t].start
            heard == {k \in tasks[t].asked : res[k] # "fail" /\ rows[k] # None}
        IN /\ models' = [k \in Keys |-> IF k \in heard /\ res[k] = "ok" /\ models[k] = None THEN [on |-> TRUE] ELSE models[k]]
           /\ status' = [k \in Keys |-> IF k \in tasks[t].asked /\ ~Superseded(k, start) THEN start ELSE status[k]]
           /\ slices' = [k \in Keys |-> IF k \in Byok THEN slices[k]
                                        ELSE IF k \in heard THEN Slice(start, res[k]) ELSE None]
    /\ Go(t, Idle)
    /\ UNCHANGED <<rows, registry, owners, errors, clients, editing, fetches, clock, made, history>>

-----------------------------------------------------------------------------
\* _fetch_and_sync_provider_models, at start-up and every REFRESH_INTERVAL.
BeginFetch(k) ==
    /\ fetches[k] = Idle /\ registry[k] # None /\ clock < MaxClock
    /\ clock' = clock + 1
    /\ fetches' = [fetches EXCEPT ![k] = [ph |-> "asking", start |-> clock + 1, inst |-> registry[k]]]
    /\ UNCHANGED <<table, registry, owners, errors, clients, editing, status, slices, tasks, made, history>>

\* Mutant: what came back is cached without a look at later syncs.
EndFetchBlindly(k, res) ==
    /\ fetches[k].ph = "asking"
    /\ LET start == fetches[k].start
       IN /\ status' = IF ~Superseded(k, start) THEN [status EXCEPT ![k] = start] ELSE status
          /\ slices' = [slices EXCEPT ![k] = Slice(start, res)]
          /\ fetches' = [fetches EXCEPT ![k] = IF res \in {"ok", "other"} THEN [ph |-> "store", res |-> res] ELSE Idle]
    /\ UNCHANGED <<table, registry, owners, errors, clients, editing, tasks, clock, made, history>>
\* A fetch through an instance closed meanwhile fails.  One that a later sync has
\* superseded is discarded; a failed or empty one hides the provider's models.
EndFetch(k, res) ==
    /\ fetches[k].ph = "asking"
    /\ fetches[k].inst \notin open => res = "fail"
    /\ LET start == fetches[k].start
       IN IF Superseded(k, start)
          THEN fetches' = [fetches EXCEPT ![k] = Idle] /\ UNCHANGED <<status, slices>>
          ELSE /\ status' = [status EXCEPT ![k] = start]
               /\ slices' = [slices EXCEPT ![k] = Slice(start, res)]
               /\ fetches' = [fetches EXCEPT ![k] = IF res \in {"ok", "other"} THEN [ph |-> "store", res |-> res] ELSE Idle]
    /\ UNCHANGED <<table, registry, owners, errors, clients, editing, tasks, clock, made, history>>

\* _sync_provider_to_database: rows listed again are left as they are.
StoreFetch(k) ==
    /\ fetches[k].ph = "store"
    /\ fetches' = [fetches EXCEPT ![k] = Idle]
    /\ \/ models' = [models EXCEPT ![k] = IF rows[k] = None \/ fetches[k].res # "ok" THEN None
                                          ELSE IF models[k] = None THEN [on |-> TRUE] ELSE @]
       \/ UNCHANGED models         \* the database refuses
    /\ UNCHANGED <<rows, registry, owners, errors, clients, editing, status, slices, tasks, clock, made, history>>

-----------------------------------------------------------------------------
Edit(t) ==
    \/ \E k \in Global : Save(t, k) \/ Toggle(t, k) \/ Delete(t, k)
    \/ \E k \in Byok : SaveByok(t, k) \/ OffByok(t, k) \/ DeleteByok(t, k)
    \/ SyncAll(t)

Continue(t) ==
    \/ Remove(t) \/ LoadRows(t) \/ LoadFails(t) \/ SwapRegistry(t) \/ CloseOld(t)
    \/ DropByok(t) \/ ReadByok(t) \/ ReadByokFails(t) \/ SwapByok(t) \/ BuildFails(t)
    \/ ReadStates(t) \/ (\E res \in Listings : StoreListing(t, res)) \/ RecordSync(t)
    \/ Gather(t) \/ StoreGathered(t)

Next ==
    \/ \E t \in Tasks : Edit(t) \/ Continue(t)
    \/ \E k \in Keys : ToggleModel(k) \/ BeginFetch(k) \/ StoreFetch(k)
    \/ \E k \in Keys, res \in Listings : EndFetch(k, res)
    \/ \E i \in closing : Close(i)

Spec == Init /\ [][Next]_vars

-----------------------------------------------------------------------------
\* A BYOK key is never routed without a known owner (byok.py: "denied to everyone -- fail
\* closed"), and when no edit is under way the registry is the table: no single-instance
\* edit is lost to a refresh of everything, nor the other way round.  A user's row that is
\* enabled and not routed is one whose build failed, and its owner is shown that error.
RegistryIsCurrent ==
    /\ \A k \in Byok : registry[k] # None => k \in owners
    /\ (\A t \in Tasks : tasks[t] = Idle) =>
          \A k \in Keys \ (behind \cup crossed) :
             /\ registry[k] # None <=> Live(rows[k]) /\ k \notin errors
             /\ registry[k] # None => registry[k].ver = rows[k].ver
             /\ k \in Byok => (k \in owners <=> rows[k] # None)

\* No client is leaked and none in use is closed (refresh_providers_from_database:
\* overlapping refreshes would each capture the same "old" registry).
ClientsAccounted ==
    /\ Routed \subseteq open \ closing
    /\ open \subseteq Routed \cup closing
                \cup UNION {tasks[t].old : t \in {q \in Tasks : tasks[q].ph \in {"loading", "swapped"}}}

\* An older fetch never overwrites what a later one put in the cache, but for a save, whose
\* listing is always cached, an administrator's sync of all, and a provider that was
\* unloaded in between (record_sync_status: "is stale ... and is dropped").
SliceOrderKept ==
    \A k \in Keys : slices[k] # None /\ slices'[k] # None /\ slices'[k].by < slices[k].by =>
       \/ status[k] = 0
       \/ \E t \in Tasks : tasks[t].ph \in {"record", "gathering"} /\ tasks'[t] = Idle /\ k \in Global
SlicesNeverGoBack == [][SliceOrderKept]_vars

\* is_enabled is the administrator's (or owner's): no sync changes it, unless it was
\* toggled while that sync was asking the provider; and no row goes but by a listing
\* without it or with its provider.
TogglesKept ==
    \A k \in Keys : models[k] # None /\ models'[k] # models[k] =>
       IF models'[k] # None THEN made' # made \/ k \in overtaken'
       ELSE \/ rows'[k] = None
            \/ fetches[k].ph = "store"
            \/ \E t \in Tasks : tasks[t].ph = "asking" /\ tasks[t].key = k
                                /\ tasks'[t].ph = "record" /\ tasks'[t].res \in {"other", "empty"}
TogglesSurvive == [][TogglesKept]_vars
=============================================================================
