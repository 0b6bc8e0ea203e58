-------------------------- MODULE ProviderSyncProofs -------------------------
(* Theorems about ProviderSync: for any providers, requests and edits.       *)
(*                                                                           *)
(* RegistryIsCurrent speaks of a server at rest.  ProviderInv says what is   *)
(* true in between: an instance that is not what its row says is being made  *)
(* (Doing), or some request will see to it (RegistryDue, and OwnerDue for    *)
(* its owner); what a refresh or an edit has in hand is what the table says, *)
(* or else a later one is due (InHand); only one of them is inside           *)
(* _byok_lock (OneEditor); and no instance about to be made has the number   *)
(* of one that exists (Fresh), so that none is taken for another.            *)
EXTENDS ProviderSync, TLAPS

\* A task's place: what a phase carries.  Every edit has a number, its instances have it too.
Counted  == {"refresh", "remove", "loading", "upsert", "building"}
Locking  == {"loading", "swapped", "building"}
Waiting  == {"sync", "asking", "record"}
Row      == [live : BOOLEAN, ver : 0..MaxEdits]
Switch   == [on : BOOLEAN]
ListedBy == [by : 1..MaxClock, listed : BOOLEAN]
Afterwards == {[ph |-> "idle"], [ph |-> "gather"]} \cup [ph : {"sync"}, key : Keys, start : 1..MaxClock]

Place(e) ==
    /\ e.ph \in {"idle", "gather", "gathering", "drop"} \cup Counted \cup Locking \cup Waiting
    /\ e.ph \in Counted => e.n \in 1..made
    /\ e.ph = "refresh" => e.then \in {"idle", "gather", "sync"}
    /\ e.ph \in Waiting \/ (e.ph = "refresh" /\ e.then = "sync") => e.key \in Keys /\ e.start \in 1..MaxClock
    /\ e.ph = "remove" => e.key \in Keys
    /\ e.ph \in {"upsert", "drop", "building"} => e.key \in Byok
    /\ e.ph = "drop" => e.forget \in BOOLEAN
    /\ e.ph = "building" => e.ver \in 0..MaxEdits
    /\ e.ph = "loading" =>
          /\ e.read \in [Keys -> Row \cup {None}]
          /\ e = [ph |-> "loading", after |-> e.after, old |-> e.old, read |-> e.read, n |-> e.n]
    /\ e.ph \in {"loading", "swapped"} => e.after \in Afterwards
    /\ e.ph = "asking" => e.states \in Switch \cup {None}
    /\ e.ph = "record" => e.res \in Listings
    /\ e.ph = "gathering" => e.start \in 1..MaxClock /\ e.asked \subseteq Global

FetchPlace(f) ==
    /\ f.ph \in {"idle", "asking", "store"}
    /\ f.ph = "asking" => f.start \in 1..MaxClock
    /\ f.ph = "store" => f.res \in {"ok", "other"}

Places ==
    /\ tasks = [t \in Tasks |-> tasks[t]] /\ (\A t \in Tasks : Place(tasks[t]))
    /\ fetches = [k \in Keys |-> fetches[k]] /\ (\A k \in Keys : FetchPlace(fetches[k]))

Tables ==
    /\ rows \in [Keys -> Row \cup {None}]
    /\ models \in [Keys -> Switch \cup {None}]
    /\ \A k \in Keys : models[k] # None => rows[k] # None
    /\ clock \in 0..MaxClock /\ made \in 0..MaxEdits
    /\ behind \subseteq Keys /\ crossed \subseteq Byok /\ overtaken \subseteq Keys

Cached ==
    /\ status \in [Keys -> 0..MaxClock] /\ slices \in [Keys -> ListedBy \cup {None}]
    /\ \A k \in Keys : slices[k] # None /\ status[k] # 0 => slices[k].by <= status[k]

\* One task at a time is inside _byok_lock.
OneEditor ==
    /\ editing \in Tasks \cup {None}
    /\ \A t \in Tasks : tasks[t].ph \in Locking <=> editing = t

\* The instances about to be made have numbers that no instance has; what a refresh has set
\* aside is what was routed, and no longer is.
Old(t) == IF tasks[t].ph \in {"loading", "swapped"} THEN tasks[t].old ELSE {}
Clients ==
    /\ registry \in [Keys -> Instance \cup {None}]
    /\ \A k \in Keys : registry[k] # None => registry[k].key = k /\ registry[k] \in open /\ registry[k] \notin closing
    /\ open \subseteq Instance /\ closing \subseteq Instance
    /\ \A i \in open : i \in closing \/ i \in Routed \/ (\E t \in Tasks : i \in Old(t))
    /\ \A t \in Tasks :
          /\ Old(t) \subseteq Instance
          /\ tasks[t].ph = "loading" => tasks[t].old = Routed
          /\ tasks[t].ph = "swapped" => tasks[t].old \cap Routed = {}
Fresh ==
    /\ \A t \in Tasks : tasks[t].ph \in Counted =>
          /\ \A i \in open \cup closing : i.n # tasks[t].n
          /\ \A u \in Tasks : /\ u # t /\ tasks[u].ph \in Counted => tasks[u].n # tasks[t].n
                              /\ \A i \in Old(u) : i.n # tasks[t].n
    /\ \A i \in open \cup closing : i.n <= made
    /\ \A t \in Tasks : \A i \in Old(t) : i.n <= made

-----------------------------------------------------------------------------
\* A task will bring a key's instance, or its owner, in line with its row.
Mends(t, k) == tasks[t].ph \in {"refresh", "remove"} \/ (tasks[t].ph = "upsert" /\ tasks[t].key = k)
RegistryDue(k) == \E t \in Tasks : Mends(t, k) \/ (tasks[t].ph = "drop" /\ tasks[t].key = k)
OwnerDue(k)    == \E t \in Tasks : Mends(t, k) \/ (tasks[t].ph = "drop" /\ tasks[t].key = k /\ tasks[t].forget)

RegistryOk(k) ==
    /\ registry[k] # None <=> Live(rows[k]) /\ k \notin errors
    /\ registry[k] # None => registry[k].ver = rows[k].ver
OwnerOk(k) == k \in Byok => (k \in owners <=> rows[k] # None)
Doing(k) == \E t \in Tasks : tasks[t].ph = "loading" \/ (tasks[t].ph = "building" /\ tasks[t].key = k)
Loading  == \E t \in Tasks : tasks[t].ph = "loading"

Owned ==
    /\ owners \subseteq Byok /\ errors \subseteq Byok
    /\ \A k \in Byok : registry[k] # None => k \in owners
    /\ \A t \in Tasks : tasks[t].ph = "building" => tasks[t].key \in owners

\* What is being installed is what the table says, unless an edit has come since, which
\* will be installed after it.
InHand ==
    \A t \in Tasks :
        /\ tasks[t].ph = "loading" => \A k \in Keys \ behind :
              /\ tasks[t].read[k] = rows[k] \/ RegistryDue(k)
              /\ (tasks[t].read[k] = None <=> rows[k] = None) \/ OwnerDue(k)
        /\ tasks[t].ph = "building" => \A k \in Byok \ behind : k = tasks[t].key =>
              /\ (Live(rows[k]) /\ rows[k].ver = tasks[t].ver) \/ RegistryDue(k)
              /\ OwnerOk(k) \/ OwnerDue(k)
Installed ==
    \A k \in Keys \ (behind \cup crossed) :
        /\ RegistryOk(k) \/ RegistryDue(k) \/ Doing(k)
        /\ OwnerOk(k) \/ OwnerDue(k) \/ Loading

ProviderInv == Places /\ Tables /\ Cached /\ OneEditor /\ Clients /\ Fresh /\ Owned /\ InHand /\ Installed

-----------------------------------------------------------------------------
(* What the steps do, in groups. *)

\* Only one task moves.
Only(t) == /\ tasks' = [u \in Tasks |-> tasks'[u]]
           /\ \A u \in Tasks \ {t} : tasks'[u] = tasks[u]
Due  == {"refresh", "remove", "upsert", "drop"}
Calm == {"idle", "gather", "gathering"} \cup Waiting

LEMMA Goes ==
  ASSUME Places, NEW t \in Tasks, NEW p, Go(t, p)
  PROVE  Only(t) /\ tasks'[t] = p
  BY DEF Places, Go, Only

LEMMA PlacesBy ==
  ASSUME Places, NEW t \in Tasks, Only(t), Place(tasks[t])', made \in Nat, made' \in Nat, made <= made'
  PROVE  (tasks = [u \in Tasks |-> tasks[u]])' /\ \A u \in Tasks : Place(tasks[u])'
<1>1. ASSUME NEW u \in Tasks, u # t PROVE Place(tasks[u])'
  <2>1. Place(tasks[u]) /\ tasks'[u] = tasks[u]
    BY <1>1 DEF Places, Only
  <2>2. tasks[u].ph \in Counted => tasks[u].n \in 1..made'
    BY <2>1 DEF Place
  <2> QED
    BY <2>1, <2>2 DEF Place
<1> QED
  BY <1>1 DEF Only

\* What a task's own edit writes, and that somebody will bring the registry in line.
Edited(t) ==
  /\ Only(t) /\ tasks[t].ph = "idle" /\ tasks'[t].ph \in Due /\ Place(tasks[t])'
  /\ made' = made + 1 /\ made' \in 0..MaxEdits /\ clock' \in 0..MaxClock
  /\ tasks'[t].ph \in Counted => tasks'[t].n = made + 1
  /\ UNCHANGED <<registry, owners, errors, open, closing, editing, status, slices, fetches, behind, crossed, overtaken>>
  /\ rows' \in [Keys -> Row \cup {None}] /\ models' \in [Keys -> Switch \cup {None}]
  /\ \A k \in Keys : models'[k] # None => rows'[k] # None
  /\ \A k \in Keys : models'[k] = models[k] \/ rows'[k] = None
  /\ \A k \in Keys : rows'[k] = rows[k] \/ Mends(t, k)' \/ (tasks'[t].ph = "drop" /\ tasks'[t].key = k)
  /\ \A k \in Keys : (rows'[k] = None <=> rows[k] = None) \/ k \notin Byok
                       \/ Mends(t, k)' \/ (tasks'[t].ph = "drop" /\ tasks'[t].key = k /\ tasks'[t].forget)

LEMMA Commits ==
  ASSUME Parameters, ProviderInv, NEW t \in Tasks, NEW k \in Keys, NEW row \in Row \cup {None}, NEW p, Commit(t, k, row, p),
         clock' \in 0..MaxClock,
         p.ph \in Due /\ (p.ph \in Counted => p.n = made + 1),
         p.ph = "refresh" => p.then = "idle" \/ (p.then = "sync" /\ p.key \in Keys /\ p.start \in 1..MaxClock),
         p.ph # "refresh" => p.key = k,
         p.ph \in {"upsert", "drop"} => k \in Byok,
         p.ph = "drop" => p.forget \in BOOLEAN /\ (p.forget \/ (row = None <=> rows[k] = None))
  PROVE  Edited(t)
<1> USE DEF Parameters, Commit, Begin, clients, history, ProviderInv
<1>1. Only(t) /\ tasks'[t] = p
  BY Goes
<1>2. tasks[t].ph = "idle" /\ tasks'[t].ph \in Due
  BY <1>1 DEF Idle
<1>3. made' = made + 1 /\ made' \in 0..MaxEdits /\ made + 1 \in 1..made'
  BY DEF Tables
<1>4. UNCHANGED <<registry, owners, errors, open, closing, editing, status, slices, fetches, behind, crossed, overtaken>>
  OBVIOUS
<1>5. rows' \in [Keys -> Row \cup {None}] /\ rows'[k] = row /\ \A q \in Keys \ {k} : rows'[q] = rows[q]
  BY DEF Tables
<1>6. models' \in [Keys -> Switch \cup {None}] /\ (\A q \in Keys \ {k} : models'[q] = models[q])
        /\ models'[k] = IF row = None THEN None ELSE models[k]
  BY DEF Tables
<1>7. \A q \in Keys : (models'[q] # None => rows'[q] # None) /\ (models'[q] = models[q] \/ rows'[q] = None)
  BY <1>5, <1>6 DEF Tables
<1>8. Place(tasks[t])'
  BY <1>1, <1>3 DEF Place, Due, Counted, Locking, Waiting
<1>9. \A q \in Keys : rows'[q] = rows[q] \/ Mends(t, q)' \/ (tasks'[t].ph = "drop" /\ tasks'[t].key = q)
  BY <1>1, <1>5 DEF Mends, Due
<1>10. \A q \in Keys : (rows'[q] = None <=> rows[q] = None) \/ q \notin Byok
                       \/ Mends(t, q)' \/ (tasks'[t].ph = "drop" /\ tasks'[t].key = q /\ tasks'[t].forget)
  BY <1>1, <1>5 DEF Mends, Due
<1> QED
  BY <1>1, <1>2, <1>3, <1>4, <1>5, <1>6, <1>7, <1>8, <1>9, <1>10 DEF Edited

LEMMA EditMoves == ASSUME Parameters, ProviderInv, NEW t \in Tasks, Edit(t) PROVE Edited(t)
<1> USE DEF Parameters
<1>0. /\ rows \in [Keys -> Row \cup {None}] /\ made \in 0..MaxEdits /\ clock \in 0..MaxClock
  BY DEF ProviderInv, Tables
<1>K. Global \subseteq Keys /\ Byok \subseteq Keys
  BY DEF Keys
<1>R. \A k \in Keys : rows[k] # None =>
        rows[k] \in Row /\ [rows[k] EXCEPT !.live = ~@] \in Row /\ [rows[k] EXCEPT !.live = FALSE] \in Row
  BY <1>0 DEF Row
<1>N. made < MaxEdits => \A live \in BOOLEAN : [live |-> live, ver |-> made + 1] \in Row
  BY <1>0 DEF Row
<1>V. None \notin Row
  BY DEF Row
<1>1. ASSUME NEW k \in Global, Save(t, k) PROVE Edited(t)
  <2> DEFINE p == [ph |-> "refresh", then |-> "sync", key |-> k, start |-> clock + 1, n |-> made + 1]
  <2>1. PICK live \in BOOLEAN : Commit(t, k, [live |-> live, ver |-> made + 1], p)
    BY <1>1 DEF Save
  <2>2. clock' \in 0..MaxClock /\ clock + 1 \in 1..MaxClock
    BY <1>0, <1>1 DEF Save
  <2>3. [live |-> live, ver |-> made + 1] \in Row \cup {None}
    BY <1>N, <2>1 DEF Commit, Begin
  <2> QED
    BY <1>K, <1>V, <2>1, <2>2, <2>3, Commits DEF Due, Counted
<1>2. ASSUME NEW k \in Global, Toggle(t, k) PROVE Edited(t)
  <2> DEFINE p == [ph |-> "refresh", then |-> "idle", n |-> made + 1]
  <2>1. Commit(t, k, [rows[k] EXCEPT !.live = ~@], p)
    BY <1>2 DEF Toggle
  <2>2. clock' \in 0..MaxClock
    BY <1>0, <1>2 DEF Toggle
  <2>3. [rows[k] EXCEPT !.live = ~@] \in Row /\ rows[k] # None
    BY <1>K, <1>R, <1>2 DEF Toggle
  <2> QED
    BY <1>K, <1>V, <2>1, <2>2, <2>3, Commits DEF Due, Counted
<1>3. ASSUME NEW k \in Global, Delete(t, k) PROVE Edited(t)
  <2> DEFINE p == [ph |-> "remove", key |-> k, n |-> made + 1]
  <2>1. Commit(t, k, None, p)
    BY <1>3 DEF Delete
  <2>2. clock' \in 0..MaxClock
    BY <1>0, <1>3 DEF Delete
  <2>3. None \in Row \cup {None}
    OBVIOUS
  <2> QED
    BY <1>K, <1>V, <2>1, <2>2, <2>3, Commits DEF Due, Counted
<1>4. ASSUME NEW k \in Byok, SaveByok(t, k) PROVE Edited(t)
  <2> DEFINE p == [ph |-> "upsert", key |-> k, n |-> made + 1]
  <2>1. PICK live \in BOOLEAN : Commit(t, k, [live |-> live, ver |-> made + 1], p)
    BY <1>4 DEF SaveByok
  <2>2. clock' \in 0..MaxClock
    BY <1>0, <1>4 DEF SaveByok
  <2>3. [live |-> live, ver |-> made + 1] \in Row \cup {None}
    BY <1>N, <2>1 DEF Commit, Begin
  <2> QED
    BY <1>K, <1>V, <2>1, <2>2, <2>3, Commits DEF Due, Counted
<1>5. ASSUME NEW k \in Byok, OffByok(t, k) PROVE Edited(t)
  <2> DEFINE p == [ph |-> "drop", key |-> k, forget |-> FALSE]
  <2>1. Commit(t, k, [rows[k] EXCEPT !.live = FALSE], p)
    BY <1>5 DEF OffByok
  <2>2. clock' \in 0..MaxClock
    BY <1>0, <1>5 DEF OffByok
  <2>3. [rows[k] EXCEPT !.live = FALSE] \in Row /\ rows[k] # None
    BY <1>K, <1>R, <1>5 DEF OffByok
  <2> QED
    BY <1>K, <1>V, <2>1, <2>2, <2>3, Commits DEF Due, Counted
<1>6. ASSUME NEW k \in Byok, DeleteByok(t, k) PROVE Edited(t)
  <2> DEFINE p == [ph |-> "drop", key |-> k, forget |-> TRUE]
  <2>1. Commit(t, k, None, p)
    BY <1>6 DEF DeleteByok
  <2>2. clock' \in 0..MaxClock
    BY <1>0, <1>6 DEF DeleteByok
  <2>3. None \in Row \cup {None}
    OBVIOUS
  <2> QED
    BY <1>K, <1>V, <2>1, <2>2, <2>3, Commits DEF Due, Counted
<1>7. CASE SyncAll(t)
  <2> DEFINE p == [ph |-> "refresh", then |-> "gather", n |-> made + 1]
  <2>1. Only(t) /\ tasks'[t] = p
    BY <1>7, Goes DEF SyncAll, ProviderInv
  <2>2. made' = made + 1 /\ made' \in 0..MaxEdits /\ made + 1 \in 1..made' /\ tasks[t].ph = "idle"
    BY <1>0, <1>7 DEF SyncAll, Begin, Idle
  <2>3. Place(tasks[t])'
    BY <2>1, <2>2 DEF Place, Counted, Locking, Waiting
  <2>4. UNCHANGED <<rows, models, registry, owners, errors, open, closing, editing, status, slices, fetches, clock, behind, crossed, overtaken>>
    BY <1>7 DEF SyncAll, table, clients, history
  <2>5. models' \in [Keys -> Switch \cup {None}] /\ \A k \in Keys : models'[k] # None => rows'[k] # None
    BY <2>4 DEF ProviderInv, Tables
  <2> QED
    BY <1>0, <2>1, <2>2, <2>3, <2>4, <2>5 DEF Edited, Due, Counted
<1> QED
  BY <1>1, <1>2, <1>3, <1>4, <1>5, <1>6, <1>7 DEF Edit

\* What a task's sync does: it touches models and what is cached only.
Synced(t) ==
  /\ Only(t) /\ tasks[t].ph \in Calm /\ tasks'[t].ph \in Calm /\ Place(tasks[t])'
  /\ UNCHANGED <<rows, registry, owners, errors, open, closing, editing, fetches, made, behind, crossed>>

Syncs(t) ==
  \/ ReadStates(t) \/ (\E res \in Listings : StoreListing(t, res)) \/ RecordSync(t)
  \/ Gather(t) \/ StoreGathered(t)

LEMMA SyncMoves ==
  ASSUME Parameters, ProviderInv, NEW t \in Tasks, Syncs(t) PROVE Synced(t)
<1> USE DEF table, clients, history
<1>0. /\ models \in [Keys -> Switch \cup {None}] /\ clock \in 0..MaxClock
      /\ Place(tasks[t]) /\ Places
  BY DEF ProviderInv, Tables, Places
<1>1. CASE ReadStates(t)
  <2>1. tasks[t].ph = "sync" /\ tasks[t].key \in Keys /\ tasks[t].start \in 1..MaxClock
    BY <1>0, <1>1 DEF ReadStates, Place, Waiting
  <2> DEFINE p == [ph |-> "record", key |-> tasks[t].key, start |-> tasks[t].start, res |-> "fail"]
             q == [ph |-> "asking", key |-> tasks[t].key, start |-> tasks[t].start, states |-> models[tasks[t].key]]
  <2>2. Go(t, p) \/ Go(t, q)
    BY <1>1 DEF ReadStates
  <2>3. Only(t) /\ (tasks'[t] = p \/ tasks'[t] = q)
    BY <1>0, <2>2, Goes
  <2>4. Place(tasks[t])'
    BY <1>0, <2>1, <2>3 DEF Place, Counted, Locking, Waiting, Listings
  <2>5. tasks'[t].ph \in Calm /\ tasks[t].ph \in Calm
    BY <2>1, <2>3 DEF Calm, Waiting
  <2> QED
    BY <1>1, <2>3, <2>4, <2>5 DEF ReadStates, Synced
<1>2. ASSUME NEW res \in Listings, StoreListing(t, res) PROVE Synced(t)
  <2>1. tasks[t].ph = "asking" /\ tasks[t].key \in Keys /\ tasks[t].start \in 1..MaxClock
    BY <1>0, <1>2 DEF StoreListing, Place, Waiting
  <2> DEFINE p == [ph |-> "record", key |-> tasks[t].key, start |-> tasks[t].start,
                   res |-> IF rows[tasks[t].key] = None THEN "fail" ELSE res]
  <2>2. Go(t, p)
    BY <1>2 DEF StoreListing
  <2>3. Only(t) /\ tasks'[t] = p
    BY <1>0, <2>2, Goes
  <2>4. Place(tasks[t])'
    BY <1>0, <2>1, <2>3 DEF Place, Counted, Locking, Waiting, Listings
  <2>5. tasks'[t].ph \in Calm /\ tasks[t].ph \in Calm
    BY <2>1, <2>3 DEF Calm, Waiting
  <2> QED
    BY <1>2, <2>3, <2>4, <2>5 DEF StoreListing, Synced
<1>3. CASE RecordSync(t)
  <2>1. Only(t) /\ tasks'[t] = [ph |-> "idle"] /\ tasks[t].ph = "record"
    BY <1>0, <1>3, Goes DEF RecordSync, Idle
  <2>2. Place(tasks[t])'
    BY <2>1 DEF Place, Counted, Locking, Waiting
  <2> QED
    BY <1>3, <2>1, <2>2 DEF RecordSync, Synced, Calm, Waiting
<1>4. CASE Gather(t)
  <2> DEFINE p == [ph |-> "gathering", start |-> clock + 1, asked |-> {k \in Global : registry[k] # None}]
  <2>1. Only(t) /\ tasks'[t] = p /\ tasks[t].ph = "gather"
    BY <1>0, <1>4, Goes DEF Gather
  <2>2. clock + 1 \in 1..MaxClock
    BY <1>0, <1>4 DEF Gather, Parameters
  <2>3. Place(tasks[t])'
    BY <2>1, <2>2 DEF Place, Counted, Locking, Waiting
  <2> QED
    BY <1>4, <2>1, <2>3 DEF Gather, Synced, Calm, Waiting
<1>5. CASE StoreGathered(t)
  <2>1. Only(t) /\ tasks'[t] = [ph |-> "idle"] /\ tasks[t].ph = "gathering"
    BY <1>0, <1>5, Goes DEF StoreGathered, Idle
  <2>2. Place(tasks[t])'
    BY <2>1 DEF Place, Counted, Locking, Waiting
  <2> QED
    BY <1>5, <2>1, <2>2 DEF StoreGathered, Synced, Calm, Waiting
<1> QED
  BY <1>1, <1>2, <1>3, <1>4, <1>5 DEF Syncs

\* What happens beside the tasks.
Beside ==
  /\ UNCHANGED <<rows, registry, owners, errors, open, closing, editing, tasks, behind, crossed>>
  /\ made' \in 0..MaxEdits /\ made <= made'
  /\ (fetches = [k \in Keys |-> fetches[k]])' /\ (\A k \in Keys : FetchPlace(fetches[k]))'

Fetches(k) ==
  ToggleModel(k) \/ BeginFetch(k) \/ StoreFetch(k) \/ \E res \in Listings : EndFetch(k, res)

LEMMA FetchMoves ==
  ASSUME Parameters, ProviderInv, NEW k \in Keys, Fetches(k) PROVE Beside
<1> USE DEF table, clients, history
<1>0. /\ made \in 0..MaxEdits /\ clock \in 0..MaxClock /\ MaxEdits \in Nat /\ MaxClock \in Nat
      /\ fetches = [q \in Keys |-> fetches[q]] /\ \A q \in Keys : FetchPlace(fetches[q])
  BY DEF ProviderInv, Tables, Places, Parameters
<1>1. CASE ToggleModel(k)
  BY <1>0, <1>1 DEF ToggleModel, Beside
<1>2. CASE BeginFetch(k)
  <2>1. fetches' = [fetches EXCEPT ![k] = [ph |-> "asking", start |-> clock + 1, inst |-> registry[k]]]
    BY <1>2 DEF BeginFetch
  <2>2. clock + 1 \in 1..MaxClock
    BY <1>0, <1>2 DEF BeginFetch
  <2>3. FetchPlace(fetches'[k]) /\ \A q \in Keys \ {k} : fetches'[q] = fetches[q]
    BY <1>0, <2>1, <2>2 DEF FetchPlace
  <2>4. (fetches = [q \in Keys |-> fetches[q]])' /\ (\A q \in Keys : FetchPlace(fetches[q]))'
    BY <1>0, <2>1, <2>3 DEF FetchPlace
  <2> QED
    BY <1>0, <1>2, <2>4 DEF BeginFetch, Beside
<1>3. CASE StoreFetch(k)
  <2>1. fetches' = [fetches EXCEPT ![k] = [ph |-> "idle"]]
    BY <1>3 DEF StoreFetch, Idle
  <2>2. (fetches = [q \in Keys |-> fetches[q]])' /\ (\A q \in Keys : FetchPlace(fetches[q]))'
    BY <1>0, <2>1 DEF FetchPlace
  <2> QED
    BY <1>0, <1>3, <2>2 DEF StoreFetch, Beside
<1>4. ASSUME NEW res \in Listings, EndFetch(k, res) PROVE Beside
  <2>1. PICK f \in {[ph |-> "idle"]} \cup [ph : {"store"}, res : {"ok", "other"}] : fetches' = [fetches EXCEPT ![k] = f]
    BY <1>4 DEF EndFetch, Idle
  <2>2. FetchPlace(f)
    BY DEF FetchPlace
  <2>3. (fetches = [q \in Keys |-> fetches[q]])' /\ (\A q \in Keys : FetchPlace(fetches[q]))'
    BY <1>0, <2>1, <2>2 DEF FetchPlace
  <2> QED
    BY <1>0, <1>4, <2>3 DEF EndFetch, Beside
<1> QED
  BY <1>1, <1>2, <1>3, <1>4 DEF Fetches

-----------------------------------------------------------------------------
LEMMA PlacesStep == ASSUME Parameters, ProviderInv, [Next]_vars PROVE Places'
<1> USE DEF table, clients, history
<1>0. /\ made \in Nat /\ made \in 0..MaxEdits /\ clock \in 0..MaxClock /\ MaxEdits \in Nat /\ Places
      /\ rows \in [Keys -> Row \cup {None}] /\ Byok \subseteq Keys
  BY DEF ProviderInv, Tables, Parameters, Keys
<1>1. ASSUME NEW t \in Tasks, Only(t), Place(tasks[t])', UNCHANGED fetches, made' \in Nat, made <= made' PROVE Places'
  BY <1>0, <1>1, PlacesBy DEF Places
<1>2. ASSUME NEW t \in Tasks, Edit(t) PROVE Places'
  BY <1>0, <1>1, <1>2, EditMoves DEF Edited
<1>3. ASSUME NEW t \in Tasks, Syncs(t) PROVE Places'
  <2>1. Synced(t)
    BY <1>3, SyncMoves
  <2> QED
    BY <1>0, <1>1, <2>1 DEF Synced
<1>4. CASE Beside
  <2>1. \A u \in Tasks : Place(tasks[u])'
    BY <1>0, <1>4 DEF Beside, Place, Places
  <2> QED
    BY <1>0, <1>4, <2>1 DEF Beside, Places
<1>5. ASSUME NEW t \in Tasks, Remove(t) PROVE Places'
  <2>1. ASSUME NEW u \in Tasks PROVE Place(tasks[u])'
    <3>1. Place(tasks[u]) /\ Place(tasks[t]) /\ made' = made /\ tasks[t].ph = "remove"
      BY <1>0, <1>5 DEF Places, Remove
    <3>2. CASE u = t
      <4>1. tasks'[u] = [ph |-> "refresh", then |-> "idle", n |-> tasks[t].n]
        BY <1>5, <3>2 DEF Remove
      <4> QED
        BY <3>1, <4>1 DEF Place, Counted, Locking, Waiting
    <3>3. CASE u # t /\ tasks[u].ph = "loading"
      <4>1. PICK o : tasks'[u] = [tasks[u] EXCEPT !.old = o]
        BY <1>5, <3>3 DEF Remove
      <4>2. tasks'[u] = [ph |-> "loading", after |-> tasks[u].after, old |-> o, read |-> tasks[u].read, n |-> tasks[u].n]
        BY <3>1, <3>3, <4>1 DEF Place
      <4> QED
        BY <3>1, <3>3, <4>2 DEF Place, Counted, Locking, Waiting
    <3>4. CASE u # t /\ tasks[u].ph # "loading"
      <4>1. tasks'[u] = tasks[u]
        BY <1>5, <3>4 DEF Remove
      <4> QED
        BY <3>1, <4>1 DEF Place
    <3> QED
      BY <3>2, <3>3, <3>4
  <2>2. tasks' = [u \in Tasks |-> tasks'[u]]
    BY <1>5 DEF Remove
  <2> QED
    BY <1>0, <1>5, <2>1, <2>2 DEF Remove, Places
<1>6. ASSUME NEW t \in Tasks, LoadRows(t) PROVE Places'
  <2> DEFINE p == [ph |-> "loading", after |-> Started(t), old |-> Routed, read |-> rows, n |-> tasks[t].n]
  <2>1. Only(t) /\ tasks'[t] = p /\ tasks[t].ph = "refresh" /\ Place(tasks[t])
    BY <1>0, <1>6, Goes DEF LoadRows, Places
  <2>2. Started(t) \in Afterwards
    BY <2>1 DEF Started, Afterwards, Place, Idle
  <2>3. Place(tasks[t])'
    BY <1>0, <1>6, <2>1, <2>2 DEF Place, Counted, Locking, Waiting, LoadRows
  <2> QED
    BY <1>0, <1>1, <1>6, <2>1, <2>3 DEF LoadRows
<1>7. ASSUME NEW t \in Tasks, LoadFails(t) PROVE Places'
  <2>1. Only(t) /\ (tasks'[t] = [ph |-> "idle"] \/ (tasks[t].then = "sync" /\ tasks'[t] = Started(t)))
    BY <1>0, <1>7, Goes DEF LoadFails, Idle
  <2>2. tasks[t].ph = "refresh" /\ Place(tasks[t])
    BY <1>0, <1>7 DEF LoadFails, Places
  <2>3. Place(tasks[t])'
    BY <2>1, <2>2 DEF Place, Counted, Locking, Waiting, Started
  <2> QED
    BY <1>0, <1>1, <1>7, <2>1, <2>3 DEF LoadFails
<1>8. ASSUME NEW t \in Tasks, SwapRegistry(t) PROVE Places'
  <2>1. /\ Only(t) /\ tasks'[t] = [ph |-> "swapped", after |-> tasks[t].after, old |-> tasks[t].old]
        /\ tasks[t].ph = "loading" /\ Place(tasks[t])
    BY <1>0, <1>8, Goes DEF SwapRegistry, Places
  <2>2. Place(tasks[t])'
    BY <2>1 DEF Place, Counted, Locking, Waiting
  <2> QED
    BY <1>0, <1>1, <1>8, <2>1, <2>2 DEF SwapRegistry
<1>9. ASSUME NEW t \in Tasks, CloseOld(t) PROVE Places'
  <2>1. Only(t) /\ tasks'[t] = tasks[t].after /\ tasks[t].ph = "swapped" /\ Place(tasks[t])
    BY <1>0, <1>9, Goes DEF CloseOld, Places
  <2>2. tasks[t].after \in Afterwards
    BY <2>1 DEF Place
  <2>3. Place(tasks[t])'
    BY <2>1, <2>2 DEF Place, Counted, Locking, Waiting, Afterwards
  <2> QED
    BY <1>0, <1>1, <1>9, <2>1, <2>3 DEF CloseOld
<1>10. ASSUME NEW t \in Tasks, DropByok(t) \/ ReadByokFails(t) \/ BuildFails(t) PROVE Places'
  <2>1. Only(t) /\ tasks'[t] = [ph |-> "idle"]
    BY <1>0, <1>10, Goes DEF DropByok, ReadByokFails, BuildFails, Idle
  <2>2. Place(tasks[t])'
    BY <2>1 DEF Place, Counted, Locking, Waiting
  <2> QED
    BY <1>0, <1>1, <1>10, <2>1, <2>2 DEF DropByok, ReadByokFails, BuildFails
<1>11. ASSUME NEW t \in Tasks, ReadByok(t) PROVE Places'
  <2> DEFINE k == tasks[t].key
             p == [ph |-> "building", key |-> k, ver |-> rows[k].ver, n |-> tasks[t].n]
  <2>1. tasks[t].ph = "upsert" /\ Place(tasks[t]) /\ k \in Byok /\ tasks[t].n \in 1..made
    BY <1>0, <1>11 DEF ReadByok, Places, Place, Counted
  <2>2. Go(t, Idle) \/ (Go(t, p) /\ Live(rows[k]))
    BY <1>11 DEF ReadByok
  <2>3. Only(t) /\ (tasks'[t] = [ph |-> "idle"] \/ (tasks'[t] = p /\ Live(rows[k])))
    BY <1>0, <2>2, Goes DEF Idle
  <2>4. Live(rows[k]) => rows[k].ver \in 0..MaxEdits
    BY <1>0, <2>1 DEF Live, Row
  <2>5. Place(tasks[t])'
    BY <1>11, <2>1, <2>3, <2>4 DEF Place, Counted, Locking, Waiting, ReadByok
  <2> QED
    BY <1>0, <1>1, <1>11, <2>3, <2>5 DEF ReadByok
<1>12. ASSUME NEW t \in Tasks, SwapByok(t) PROVE Places'
  <2>1. /\ Only(t) /\ tasks'[t] = [ph |-> "sync", key |-> tasks[t].key, start |-> clock + 1]
        /\ tasks[t].ph = "building" /\ Place(tasks[t])
    BY <1>0, <1>12, Goes DEF SwapByok, Places
  <2>2. clock + 1 \in 1..MaxClock
    BY <1>0, <1>12 DEF SwapByok, Parameters
  <2>3. Place(tasks[t])'
    BY <1>0, <2>1, <2>2 DEF Place, Counted, Locking, Waiting
  <2> QED
    BY <1>0, <1>1, <1>12, <2>1, <2>3 DEF SwapByok
<1>13. ASSUME UNCHANGED <<tasks, fetches, made>> PROVE Places'
  BY <1>0, <1>13 DEF Places, Place, FetchPlace
<1> QED
  BY <1>2, <1>3, <1>4, <1>5, <1>6, <1>7, <1>8, <1>9, <1>10, <1>11, <1>12, <1>13, FetchMoves
  DEF Next, Continue, Syncs, Fetches, Close, vars

-----------------------------------------------------------------------------
LEMMA TablesStep == ASSUME Parameters, ProviderInv, [Next]_vars PROVE Tables'
<1> USE DEF table, clients, history
<1>0. /\ Tables /\ Places /\ MaxEdits \in Nat /\ MaxClock \in Nat /\ None \notin Switch /\ Byok \subseteq Keys
      /\ \A u \in Tasks : Place(tasks[u])
  BY DEF ProviderInv, Places, Parameters, Keys, Switch
<1>S. [on |-> TRUE] \in Switch
  BY DEF Switch
<1>1. ASSUME NEW t \in Tasks, Edit(t) PROVE Tables'
  <2>1. Edited(t)
    BY <1>1, EditMoves
  <2> QED
    BY <1>0, <2>1 DEF Edited, Tables
<1>2. ASSUME UNCHANGED <<rows, models>>, clock' \in 0..MaxClock, made' = made,
             behind' \subseteq Keys, crossed' \subseteq Byok, overtaken' \subseteq Keys
      PROVE  Tables'
  BY <1>0, <1>2 DEF Tables
<1>3. ASSUME UNCHANGED <<rows, behind, crossed>>, clock' \in 0..MaxClock, made' \in 0..MaxEdits, overtaken' \subseteq Keys,
             models' \in [Keys -> Switch \cup {None}],
             \A k \in Keys : models'[k] # None => models[k] # None \/ rows[k] # None
      PROVE  Tables'
  BY <1>0, <1>3 DEF Tables
<1>4. ASSUME NEW t \in Tasks, NEW res \in Listings, StoreListing(t, res) PROVE Tables'
  <2>1. tasks[t].ph = "asking" /\ tasks[t].key \in Keys /\ tasks[t].states \in Switch \cup {None}
    BY <1>0, <1>4 DEF StoreListing, Place, Waiting
  <2> DEFINE k == tasks[t].key
             m == CASE res # "ok" -> None [] res = "ok" /\ tasks[t].states = None -> [on |-> TRUE] [] OTHER -> tasks[t].states
  <2>2. m \in Switch \cup {None}
    BY <2>1 DEF Switch
  <2>3. \/ UNCHANGED <<models, overtaken>>
        \/ rows[k] # None /\ models' = [models EXCEPT ![k] = m] /\ overtaken' \subseteq {k}
    BY <1>4 DEF StoreListing
  <2> HIDE DEF m
  <2>4. models' \in [Keys -> Switch \cup {None}] /\ overtaken' \subseteq Keys
    BY <1>0, <2>1, <2>2, <2>3 DEF Tables
  <2>5. \A q \in Keys : models'[q] # None => models[q] # None \/ rows[q] # None
    BY <1>0, <2>1, <2>3 DEF Tables
  <2> QED
    BY <1>0, <1>3, <1>4, <2>4, <2>5 DEF StoreListing, Tables
<1>5. ASSUME NEW t \in Tasks, StoreGathered(t) PROVE Tables'
  <2>1. \A k \in Keys : models'[k] = models[k] \/ (models'[k] = [on |-> TRUE] /\ rows[k] # None)
    BY <1>5 DEF StoreGathered
  <2>2. models' = [k \in Keys |-> models'[k]]
    BY <1>5 DEF StoreGathered
  <2>3. models' \in [Keys -> Switch \cup {None}]
    BY <1>0, <1>S, <2>1, <2>2 DEF Tables
  <2> QED
    BY <1>0, <1>3, <1>5, <2>1, <2>3 DEF StoreGathered, Tables
<1>6. ASSUME NEW k \in Keys, StoreFetch(k) PROVE Tables'
  <2>1. \/ UNCHANGED models
        \/ models' = [models EXCEPT ![k] = None]
        \/ rows[k] # None /\ models' = [models EXCEPT ![k] = [on |-> TRUE]]
    BY <1>0, <1>6 DEF StoreFetch, Tables
  <2>2. models' \in [Keys -> Switch \cup {None}]
    BY <1>0, <1>S, <2>1 DEF Tables
  <2>3. \A q \in Keys : models'[q] # None => models[q] # None \/ rows[q] # None
    BY <1>0, <2>1 DEF Tables
  <2> QED
    BY <1>0, <1>3, <1>6, <2>2, <2>3 DEF StoreFetch, Tables
<1>7. ASSUME NEW k \in Keys, ToggleModel(k) PROVE Tables'
  <2>1. models[k] \in Switch /\ made' \in 0..MaxEdits
    BY <1>0, <1>7 DEF ToggleModel, Tables
  <2>2. models' = [models EXCEPT ![k] = [models[k] EXCEPT !.on = ~@]]
    BY <1>7 DEF ToggleModel
  <2>3. [models[k] EXCEPT !.on = ~@] \in Switch
    BY <2>1 DEF Switch
  <2>4. models' \in [Keys -> Switch \cup {None}] /\ \A q \in Keys : models'[q] # None => models[q] # None \/ rows[q] # None
    BY <1>0, <1>7, <2>2, <2>3 DEF Tables, ToggleModel
  <2> QED
    BY <1>0, <1>3, <1>7, <2>1, <2>4 DEF ToggleModel, Tables
<1>8. ASSUME NEW t \in Tasks,
             Remove(t) \/ LoadRows(t) \/ LoadFails(t) \/ CloseOld(t) \/ ReadStates(t) \/ RecordSync(t)
      PROVE  Tables'
  BY <1>0, <1>2, <1>8 DEF Remove, LoadRows, LoadFails, CloseOld, ReadStates, RecordSync, Tables
<1>9. ASSUME NEW t \in Tasks, SwapRegistry(t) PROVE Tables'
  BY <1>0, <1>2, <1>9 DEF SwapRegistry, Tables
<1>10. ASSUME NEW t \in Tasks, DropByok(t) \/ ReadByok(t) \/ ReadByokFails(t) PROVE Tables'
  <2>1. tasks[t].key \in Byok
    BY <1>0, <1>10 DEF DropByok, ReadByok, ReadByokFails, Place
  <2>2. behind' \subseteq Keys /\ crossed' \subseteq Byok
    BY <1>0, <1>10, <2>1 DEF DropByok, ReadByok, ReadByokFails, Tables
  <2> QED
    BY <1>0, <1>2, <1>10, <2>2 DEF DropByok, ReadByok, ReadByokFails, Tables
<1>11. ASSUME NEW t \in Tasks, SwapByok(t) \/ BuildFails(t) \/ Gather(t) PROVE Tables'
  BY <1>0, <1>2, <1>11 DEF SwapByok, BuildFails, Gather, Tables
<1>12. ASSUME NEW k \in Keys, BeginFetch(k) \/ \E res \in Listings : EndFetch(k, res) PROVE Tables'
  BY <1>0, <1>2, <1>12 DEF BeginFetch, EndFetch, Tables
<1>13. ASSUME NEW i \in closing, Close(i) PROVE Tables'
  BY <1>0, <1>2, <1>13 DEF Close, Tables
<1>14. CASE UNCHANGED vars
  BY <1>0, <1>2, <1>14 DEF vars, Tables
<1> QED
  BY <1>1, <1>4, <1>5, <1>6, <1>7, <1>8, <1>9, <1>10, <1>11, <1>12, <1>13, <1>14 DEF Next, Continue

-----------------------------------------------------------------------------
LEMMA CachedStep == ASSUME Parameters, ProviderInv, [Next]_vars PROVE Cached'
<1> USE DEF table, clients, history
<1>0. /\ Cached /\ Places /\ MaxClock \in Nat /\ None \notin ListedBy /\ Byok \subseteq Keys /\ Global \subseteq Keys
      /\ Global \cap Byok = {} /\ clock \in 0..MaxClock
      /\ \A u \in Tasks : Place(tasks[u])
  BY DEF ProviderInv, Places, Parameters, Keys, ListedBy, Tables
<1>S. \A start \in 1..MaxClock, res \in Listings :
         /\ Slice(start, res) \in ListedBy \cup {None}
         /\ Slice(start, res) # None => Slice(start, res).by = start
  BY DEF Slice, ListedBy
<1>1. CASE UNCHANGED <<status, slices>>
  BY <1>0, <1>1 DEF Cached
<1>2. ASSUME NEW k \in Keys, NEW start \in 1..MaxClock, NEW res \in Listings,
             status' = [status EXCEPT ![k] = start] \/ (start < status[k] /\ UNCHANGED status),
             slices' = [slices EXCEPT ![k] = Slice(start, res)]
      PROVE  Cached'
  <2>1. status' \in [Keys -> 0..MaxClock] /\ slices' \in [Keys -> ListedBy \cup {None}]
    BY <1>0, <1>2, <1>S DEF Cached
  <2>2. \A q \in Keys \ {k} : status'[q] = status[q] /\ slices'[q] = slices[q]
    BY <1>0, <1>2 DEF Cached
  <2>3. slices'[k] = Slice(start, res) /\ status'[k] \in 0..MaxClock /\ start <= status'[k]
    BY <1>0, <1>2 DEF Cached
  <2> QED
    BY <1>0, <1>S, <2>1, <2>2, <2>3 DEF Cached
<1>3. ASSUME NEW k \in Keys,
             UNCHANGED status \/ status' = [status EXCEPT ![k] = 0],
             UNCHANGED slices \/ slices' = [slices EXCEPT ![k] = None]
      PROVE  Cached'
  BY <1>0, <1>3 DEF Cached
<1>4. ASSUME NEW t \in Tasks, RecordSync(t) PROVE Cached'
  <2>1. tasks[t].ph = "record" /\ tasks[t].key \in Keys /\ tasks[t].start \in 1..MaxClock /\ tasks[t].res \in Listings
    BY <1>0, <1>4 DEF RecordSync, Place, Waiting
  <2>2. \/ UNCHANGED <<status, slices>>
        \/ /\ slices' = [slices EXCEPT ![tasks[t].key] = Slice(tasks[t].start, tasks[t].res)]
           /\ status' = [status EXCEPT ![tasks[t].key] = tasks[t].start]
                 \/ (Superseded(tasks[t].key, tasks[t].start) /\ UNCHANGED status)
    BY <1>4 DEF RecordSync
  <2> QED
    BY <1>0, <1>1, <1>2, <2>1, <2>2 DEF Superseded, Cached
<1>5. ASSUME NEW t \in Tasks, StoreGathered(t) PROVE Cached'
  <2>1. tasks[t].ph = "gathering" /\ tasks[t].start \in 1..MaxClock /\ tasks[t].asked \subseteq Global
    BY <1>0, <1>5 DEF StoreGathered, Place
  <2> DEFINE start == tasks[t].start
             asked == tasks[t].asked
  <2>2. status' = [k \in Keys |-> IF k \in asked /\ ~Superseded(k, start) THEN start ELSE status[k]]
    BY <1>5 DEF StoreGathered
  <2>3. PICK res \in [asked -> {"ok", "other", "fail"}] :
          LET heard == {k \in asked : res[k] # "fail" /\ rows[k] # None}
          IN slices' = [k \in Keys |-> IF k \in Byok THEN slices[k] ELSE IF k \in heard THEN Slice(start, res[k]) ELSE None]
    BY <1>5 DEF StoreGathered
  <2>4. \A k \in Keys : \/ k \in Byok /\ slices'[k] = slices[k]
                        \/ slices'[k] = None
                        \/ k \in asked /\ \E r \in Listings : slices'[k] = Slice(start, r)
    BY <2>3 DEF Listings
  <2>5. \A k \in Keys : \/ status'[k] = start /\ k \in asked
                        \/ status'[k] = status[k] /\ (k \in asked => start < status[k])
    BY <1>0, <2>1, <2>2 DEF Superseded, Cached
  <2>6. status' \in [Keys -> 0..MaxClock]
    BY <1>0, <2>1, <2>2 DEF Cached
  <2>7. slices' \in [Keys -> ListedBy \cup {None}]
    <3>1. slices' = [k \in Keys |-> slices'[k]]
      BY <2>3
    <3>2. \A k \in Keys : slices'[k] \in ListedBy \cup {None}
      BY <1>0, <1>S, <2>1, <2>4 DEF Cached
    <3> QED
      BY <3>1, <3>2
  <2>8. ASSUME NEW k \in Keys, slices'[k] # None, status'[k] # 0 PROVE slices'[k].by <= status'[k]
    <3>1. CASE k \in Byok /\ slices'[k] = slices[k]
      BY <1>0, <2>1, <2>5, <2>8, <3>1 DEF Cached
    <3>2. ASSUME k \in asked, NEW r \in Listings, slices'[k] = Slice(start, r) PROVE slices'[k].by <= status'[k]
      <4>1. slices'[k].by = start
        BY <1>S, <2>1, <2>8, <3>2
      <4> QED
        BY <1>0, <2>1, <2>5, <3>2, <4>1 DEF Cached
    <3> QED
      BY <2>4, <2>8, <3>1, <3>2
  <2> QED
    BY <2>6, <2>7, <2>8 DEF Cached
<1>6. ASSUME NEW k \in Keys, NEW res \in Listings, EndFetch(k, res) PROVE Cached'
  <2>1. fetches[k].start \in 1..MaxClock
    BY <1>0, <1>6 DEF EndFetch, Places, FetchPlace
  <2> QED
    BY <1>1, <1>2, <1>6, <2>1 DEF EndFetch
<1>7. ASSUME NEW t \in Tasks, SwapRegistry(t) PROVE Cached'
  <2>1. status' = [k \in Keys |-> IF Live(tasks[t].read[k]) /\ k \notin errors' THEN status[k] ELSE 0] /\ slices' = slices
    BY <1>7 DEF SwapRegistry
  <2> QED
    BY <1>0, <2>1 DEF Cached
<1>8. ASSUME NEW t \in Tasks, Remove(t) PROVE Cached'
  <2>1. tasks[t].key \in Keys
    BY <1>0, <1>8 DEF Remove, Place
  <2> QED
    BY <1>3, <1>8, <2>1 DEF Remove
<1>9. ASSUME NEW t \in Tasks, DropByok(t) \/ ReadByok(t) PROVE Cached'
  <2>1. tasks[t].key \in Keys
    BY <1>0, <1>9 DEF DropByok, ReadByok, Place
  <2> QED
    BY <1>3, <1>9, <2>1 DEF DropByok, ReadByok, Drop
<1>10. ASSUME NEW t \in Tasks, Edit(t) PROVE Cached'
  BY <1>1, <1>10, EditMoves DEF Edited
<1>11. ASSUME NEW t \in Tasks, BuildFails(t) PROVE Cached'
  <2> DEFINE k == tasks[t].key
  <2>1. k \in Keys
    BY <1>0, <1>11 DEF BuildFails, Place
  <2>2. clock + 1 \in 0..MaxClock
    BY <1>0, <1>11 DEF BuildFails, ProviderInv, Tables, Parameters
  <2>3. slices' = [slices EXCEPT ![k] = None] /\ status' = [status EXCEPT ![k] = clock + 1]
    BY <1>11 DEF BuildFails
  <2> QED
    BY <1>0, <2>1, <2>2, <2>3 DEF Cached
<1> QED
  BY <1>1, <1>4, <1>5, <1>6, <1>7, <1>8, <1>9, <1>10, <1>11
  DEF Next, Continue, vars, LoadRows, LoadFails, CloseOld, ReadByokFails, SwapByok, ReadStates, StoreListing, Gather,
      ToggleModel, BeginFetch, StoreFetch, Close

-----------------------------------------------------------------------------
LEMMA OneEditorStep == ASSUME Parameters, ProviderInv, [Next]_vars PROVE OneEditor'
<1> USE DEF table, clients, history
<1>0. OneEditor /\ Places /\ None \notin Tasks /\ \A u \in Tasks : Place(tasks[u])
  BY DEF ProviderInv, Places, Parameters
<1>1. ASSUME NEW t \in Tasks, Only(t), UNCHANGED editing, tasks[t].ph \in Locking <=> tasks'[t].ph \in Locking
      PROVE  OneEditor'
  BY <1>0, <1>1 DEF OneEditor, Only
<1>2. ASSUME NEW t \in Tasks, Only(t), tasks[t].ph \in Locking, editing' = None, tasks'[t].ph \notin Locking
      PROVE  OneEditor'
  BY <1>0, <1>2 DEF OneEditor, Only
<1>3. ASSUME NEW t \in Tasks, Only(t), editing = None, editing' = t, tasks'[t].ph \in Locking
      PROVE  OneEditor'
  BY <1>0, <1>3 DEF OneEditor, Only
<1>4. CASE UNCHANGED <<tasks, editing>>
  BY <1>0, <1>4 DEF OneEditor
<1>5. ASSUME NEW t \in Tasks, Edit(t) PROVE OneEditor'
  <2>1. Edited(t)
    BY <1>5, EditMoves
  <2> QED
    BY <1>1, <2>1 DEF Edited, Due, Locking
<1>6. ASSUME NEW t \in Tasks, Syncs(t) PROVE OneEditor'
  <2>1. Synced(t)
    BY <1>6, SyncMoves
  <2> QED
    BY <1>1, <2>1 DEF Synced, Calm, Waiting, Locking
<1>7. ASSUME NEW t \in Tasks, Remove(t) PROVE OneEditor'
  <2>1. ASSUME NEW u \in Tasks PROVE tasks'[u].ph \in Locking <=> tasks[u].ph \in Locking
    <3>1. CASE u = t
      BY <1>7, <3>1 DEF Remove, Locking
    <3>2. CASE u # t /\ tasks[u].ph = "loading"
      <4>1. PICK o : tasks'[u] = [tasks[u] EXCEPT !.old = o]
        BY <1>7, <3>2 DEF Remove
      <4>2. tasks'[u] = [ph |-> "loading", after |-> tasks[u].after, old |-> o, read |-> tasks[u].read, n |-> tasks[u].n]
        BY <1>0, <3>2, <4>1 DEF Place
      <4> QED
        BY <3>2, <4>2
    <3>3. CASE u # t /\ tasks[u].ph # "loading"
      BY <1>7, <3>3 DEF Remove
    <3> QED
      BY <3>1, <3>2, <3>3
  <2> QED
    BY <1>0, <1>7, <2>1 DEF Remove, OneEditor
<1>8. ASSUME NEW t \in Tasks, LoadRows(t) PROVE OneEditor'
  <2>1. Only(t) /\ tasks'[t].ph = "loading"
    BY <1>0, <1>8, Goes DEF LoadRows
  <2> QED
    BY <1>3, <1>8, <2>1 DEF LoadRows, Locking
<1>9. ASSUME NEW t \in Tasks, LoadFails(t) PROVE OneEditor'
  <2>1. Only(t) /\ (tasks'[t] = Idle \/ (tasks[t].then = "sync" /\ tasks'[t] = Started(t)))
    BY <1>0, <1>9, Goes DEF LoadFails
  <2> QED
    BY <1>1, <1>9, <2>1 DEF LoadFails, Locking, Started, Idle
<1>10. ASSUME NEW t \in Tasks, SwapRegistry(t) PROVE OneEditor'
  <2>1. Only(t) /\ tasks'[t].ph = "swapped"
    BY <1>0, <1>10, Goes DEF SwapRegistry
  <2> QED
    BY <1>1, <1>10, <2>1 DEF SwapRegistry, Locking
<1>11. ASSUME NEW t \in Tasks, CloseOld(t) PROVE OneEditor'
  <2>1. Only(t) /\ tasks'[t] = tasks[t].after /\ tasks[t].after \in Afterwards
    BY <1>0, <1>11, Goes DEF CloseOld, Place
  <2> QED
    BY <1>2, <1>11, <2>1 DEF CloseOld, Locking, Afterwards
<1>12. ASSUME NEW t \in Tasks, DropByok(t) \/ ReadByokFails(t) PROVE OneEditor'
  <2>1. Only(t) /\ tasks'[t].ph = "idle"
    BY <1>0, <1>12, Goes DEF DropByok, ReadByokFails, Idle
  <2> QED
    BY <1>1, <1>12, <2>1 DEF DropByok, ReadByokFails, Locking
<1>13. ASSUME NEW t \in Tasks, ReadByok(t) PROVE OneEditor'
  <2>1. CASE editing' = t
    <3>1. \E p : Go(t, p) /\ p.ph = "building"
      BY <1>0, <1>13, <2>1 DEF ReadByok
    <3>2. Only(t) /\ tasks'[t].ph = "building"
      BY <1>0, <3>1, Goes
    <3> QED
      BY <1>3, <1>13, <2>1, <3>2 DEF ReadByok, Locking
  <2>2. CASE UNCHANGED editing
    <3>1. Go(t, Idle)
      BY <1>0, <1>13, <2>2 DEF ReadByok
    <3>2. Only(t) /\ tasks'[t].ph = "idle"
      BY <1>0, <3>1, Goes DEF Idle
    <3> QED
      BY <1>1, <1>13, <2>2, <3>2 DEF ReadByok, Locking
  <2> QED
    BY <1>13, <2>1, <2>2 DEF ReadByok
<1>14. ASSUME NEW t \in Tasks, SwapByok(t) PROVE OneEditor'
  <2>1. Only(t) /\ tasks'[t].ph = "sync"
    BY <1>0, <1>14, Goes DEF SwapByok
  <2> QED
    BY <1>2, <1>14, <2>1 DEF SwapByok, Locking
<1>15. ASSUME NEW t \in Tasks, BuildFails(t) PROVE OneEditor'
  <2>1. Only(t) /\ tasks'[t].ph = "idle"
    BY <1>0, <1>15, Goes DEF BuildFails, Idle
  <2> QED
    BY <1>2, <1>15, <2>1 DEF BuildFails, Locking
<1> QED
  BY <1>4, <1>5, <1>6, <1>7, <1>8, <1>9, <1>10, <1>11, <1>12, <1>13, <1>14, <1>15, FetchMoves
  DEF Next, Continue, Syncs, Fetches, Beside, Close, vars

-----------------------------------------------------------------------------
\* Steps that leave the clients and what refreshes have set aside.
LEMMA ClientsKept ==
  ASSUME Clients, UNCHANGED <<registry, open, closing>>,
         \A u \in Tasks : \/ tasks'[u] = tasks[u]
                          \/ tasks[u].ph \notin {"loading", "swapped"} /\ tasks'[u].ph \notin {"loading", "swapped"}
  PROVE  Clients'
<1>1. \A u \in Tasks : Old(u)' = Old(u)
  BY DEF Old
<1>2. Routed' = Routed
  BY DEF Routed
<1> QED
  BY <1>1, <1>2 DEF Clients

\* One key's instance is taken out of the registry or replaced, under the lock or by a
\* removal.
LEMMA RoutedBut ==
  ASSUME Clients, NEW k \in Keys, NEW new \in Instance \cup {None},
         registry' = [registry EXCEPT ![k] = new]
  PROVE  /\ Routed' = (Routed \ {registry[k]}) \cup ({new} \ {None})
         /\ \A q \in Keys \ {k} : registry'[q] = registry[q] /\ (registry[q] # None => registry[q] # registry[k])
         /\ registry'[k] = new /\ registry' \in [Keys -> Instance \cup {None}]
<1>1. /\ registry' \in [Keys -> Instance \cup {None}]
      /\ registry'[k] = new /\ \A q \in Keys \ {k} : registry'[q] = registry[q]
  BY DEF Clients
<1>2. \A q \in Keys \ {k} : registry[q] # None => registry[q] # registry[k]
  BY DEF Clients
<1>3. Routed' = (Routed \ {registry[k]}) \cup ({new} \ {None})
  BY <1>1, <1>2 DEF Routed
<1> QED
  BY <1>1, <1>2, <1>3

LEMMA ClientsStep == ASSUME Parameters, ProviderInv, [Next]_vars PROVE Clients'
<1> USE DEF table, clients, history
<1>0. /\ Clients /\ Fresh /\ OneEditor /\ Places /\ None \notin Tasks /\ None \notin Instance /\ Byok \subseteq Keys
      /\ \A u \in Tasks : Place(tasks[u])
      /\ made \in 0..MaxEdits /\ MaxEdits \in Nat
  BY DEF ProviderInv, Places, Parameters, Keys, Instance, Tables
<1>N. ASSUME NEW u \in Tasks, tasks[u].ph \in Counted PROVE tasks[u].n \in 0..MaxEdits
  <2>1. tasks[u].n \in 1..made
    BY <1>0, <1>N DEF Place
  <2> QED
    BY <1>0, <2>1
<1>1. ASSUME NEW t \in Tasks, Only(t), UNCHANGED <<registry, open, closing>>,
             tasks[t].ph \notin {"loading", "swapped"}, tasks'[t].ph \notin {"loading", "swapped"}
      PROVE  Clients'
  BY <1>0, <1>1, ClientsKept DEF Only
<1>2. CASE UNCHANGED <<registry, open, closing, tasks>>
  BY <1>0, <1>2, ClientsKept
<1>3. ASSUME NEW t \in Tasks, Edit(t) PROVE Clients'
  BY <1>1, <1>3, EditMoves DEF Edited, Due
<1>4. ASSUME NEW t \in Tasks, Syncs(t) PROVE Clients'
  BY <1>1, <1>4, SyncMoves DEF Synced, Calm, Waiting
<1>5. ASSUME NEW i \in closing, Close(i) PROVE Clients'
  <2>1. (\A u \in Tasks : Old(u)' = Old(u)) /\ Routed' = Routed
    BY <1>5 DEF Close, Old, Routed
  <2> QED
    BY <1>0, <1>5, <2>1 DEF Close, Clients
<1>6. ASSUME NEW t \in Tasks, Remove(t) PROVE Clients'
  <2> DEFINE k == tasks[t].key
             i == registry[k]
  <2>1. k \in Keys /\ tasks[t].ph = "remove"
    BY <1>0, <1>6 DEF Remove, Place
  <2>2. registry' = [registry EXCEPT ![k] = None] /\ open' = open \ {i} /\ closing' = closing
    BY <1>6 DEF Remove
  <2>3. /\ Routed' = Routed \ {i}
        /\ registry' \in [Keys -> Instance \cup {None}] /\ registry'[k] = None
        /\ \A q \in Keys \ {k} : registry'[q] = registry[q] /\ (registry[q] # None => registry[q] # i)
    <3>1. /\ Routed' = (Routed \ {i}) \cup ({None} \ {None})
          /\ registry' \in [Keys -> Instance \cup {None}] /\ registry'[k] = None
          /\ \A q \in Keys \ {k} : registry'[q] = registry[q] /\ (registry[q] # None => registry[q] # i)
      BY <1>0, <2>1, <2>2, RoutedBut
    <3> HIDE DEF i, k
    <3> QED
      BY <3>1
  <2>4. ASSUME NEW u \in Tasks
        PROVE  /\ tasks'[u].ph \in {"loading", "swapped"} => tasks'[u].ph = tasks[u].ph
               /\ Old(u)' = IF tasks[u].ph = "loading" THEN Old(u) \ {i} ELSE Old(u)
    <3>1. CASE u = t
      BY <1>6, <2>1, <3>1 DEF Remove, Old
    <3>2. CASE u # t /\ tasks[u].ph = "loading"
      <4>1. tasks'[u] = [tasks[u] EXCEPT !.old = @ \ {i}]
        BY <1>6, <3>2 DEF Remove
      <4>2. tasks'[u] = [ph |-> "loading", after |-> tasks[u].after, old |-> tasks[u].old \ {i},
                         read |-> tasks[u].read, n |-> tasks[u].n]
        BY <1>0, <3>2, <4>1 DEF Place
      <4> QED
        BY <3>2, <4>2 DEF Old
    <3>3. CASE u # t /\ tasks[u].ph # "loading"
      <4>1. tasks'[u] = tasks[u]
        BY <1>6, <3>3 DEF Remove
      <4> QED
        BY <3>3, <4>1 DEF Old
    <3> QED
      BY <3>1, <3>2, <3>3
  <2>5. \A q \in Keys : registry'[q] # None => registry'[q].key = q /\ registry'[q] \in open' /\ registry'[q] \notin closing'
    BY <1>0, <2>1, <2>2, <2>3 DEF Clients
  <2>6. \A j \in open' : j \in closing' \/ j \in Routed' \/ (\E u \in Tasks : j \in Old(u)')
    BY <1>0, <2>2, <2>3, <2>4 DEF Clients
  <2>7. ASSUME NEW u \in Tasks
        PROVE  /\ Old(u)' \subseteq Instance
               /\ tasks'[u].ph = "loading" => tasks'[u].old = Routed'
               /\ tasks'[u].ph = "swapped" => tasks'[u].old \cap Routed' = {}
    <3>1. Old(u) \subseteq Instance
      BY <1>0 DEF Clients
    <3>2. tasks'[u].ph = "loading" => Old(u)' = Old(u) \ {i} /\ Old(u) = Routed /\ tasks'[u].old = Old(u)'
      BY <1>0, <2>4 DEF Clients, Old
    <3>3. tasks'[u].ph = "swapped" => Old(u)' = Old(u) /\ Old(u) \cap Routed = {} /\ tasks'[u].old = Old(u)'
      BY <1>0, <2>4 DEF Clients, Old
    <3> QED
      BY <2>3, <2>4, <3>1, <3>2, <3>3
  <2>8. open' \subseteq Instance /\ closing' \subseteq Instance
    BY <1>0, <2>2 DEF Clients
  <2> QED
    BY <2>3, <2>5, <2>6, <2>7, <2>8 DEF Clients
<1>7. ASSUME NEW t \in Tasks, LoadRows(t) PROVE Clients'
  <2> DEFINE p == [ph |-> "loading", after |-> Started(t), old |-> Routed, read |-> rows, n |-> tasks[t].n]
  <2>1. Only(t) /\ tasks'[t] = p /\ tasks[t].ph = "refresh" /\ UNCHANGED <<registry, open, closing>>
    BY <1>0, <1>7, Goes DEF LoadRows
  <2>2. Routed' = Routed /\ Routed \subseteq Instance
    BY <1>0, <2>1 DEF Routed, Clients
  <2>3. /\ Old(t) = {} /\ Old(t)' = Routed /\ tasks'[t].ph = "loading" /\ tasks'[t].old = Routed
        /\ \A u \in Tasks \ {t} : tasks'[u] = tasks[u] /\ Old(u)' = Old(u)
    BY <2>1 DEF Old, Only
  <2> QED
    BY <1>0, <2>1, <2>2, <2>3 DEF Clients
<1>8. ASSUME NEW t \in Tasks, LoadFails(t) \/ ReadByokFails(t) PROVE Clients'
  <2>1. Only(t) /\ (tasks'[t] = Idle \/ (tasks[t].then = "sync" /\ tasks'[t] = Started(t)))
    BY <1>0, <1>8, Goes DEF LoadFails, ReadByokFails
  <2> QED
    BY <1>1, <1>8, <2>1 DEF LoadFails, ReadByokFails, Started, Idle
<1>9. ASSUME NEW t \in Tasks, SwapRegistry(t) PROVE Clients'
  <2> DEFINE read == tasks[t].read
             n == tasks[t].n
             New(k) == [key |-> k, ver |-> read[k].ver, n |-> n]
  <2>1. /\ Only(t) /\ tasks'[t] = [ph |-> "swapped", after |-> tasks[t].after, old |-> tasks[t].old]
        /\ tasks[t].ph = "loading" /\ tasks[t].old = Routed /\ UNCHANGED closing
    BY <1>0, <1>9, Goes DEF SwapRegistry, Clients
  <2>2. \A k \in Keys : Live(read[k]) => New(k) \in Instance
    <3>1. n \in 0..MaxEdits /\ read \in [Keys -> Row \cup {None}]
      BY <1>0, <1>N, <2>1 DEF Place, Counted
    <3> HIDE DEF n, read
    <3> QED
      BY <3>1 DEF Row, Live, Instance
  <2> DEFINE loaded == {k \in Keys : Live(read[k]) /\ k \notin errors'}
  <2>3. registry' = [k \in Keys |-> IF k \in loaded THEN New(k) ELSE None]
    BY <1>9 DEF SwapRegistry
  <2>4. open' = open \cup {registry'[k] : k \in loaded}
    BY <1>9 DEF SwapRegistry
  <2>5. registry' \in [Keys -> Instance \cup {None}]
    BY <2>2, <2>3
  <2>6. \A k \in Keys : registry'[k] # None => Live(read[k]) /\ registry'[k].key = k /\ registry'[k].n = n /\ registry'[k] \in open'
    BY <2>3, <2>4
  <2>7. \A i \in open \cup closing : i.n # n
    BY <1>0, <2>1 DEF Fresh, Counted
  <2>8. Routed \subseteq open /\ Routed' \subseteq open' /\ \A i \in Routed' : i.n = n
    BY <1>0, <2>6 DEF Routed, Clients
  <2>9. open' \subseteq open \cup Routed' /\ open' \subseteq Instance
    BY <1>0, <2>2, <2>3, <2>4 DEF Clients, Routed
  <2>10. \A u \in Tasks \ {t} : tasks'[u] = tasks[u] /\ tasks[u].ph \notin {"loading", "swapped"} /\ Old(u) = {} /\ Old(u)' = {}
    BY <1>0, <2>1 DEF OneEditor, Locking, Only, Old
  <2>11. Old(t) = Routed /\ Old(t)' = Routed /\ tasks'[t].ph = "swapped" /\ tasks'[t].old = Routed
    BY <2>1 DEF Old
  <2>12. Routed \cap Routed' = {}
    BY <2>7, <2>8
  <2>13. \A k \in Keys : registry'[k] # None => registry'[k] \notin closing'
    BY <2>1, <2>6, <2>7
  <2>14. \A i \in open' : i \in closing' \/ i \in Routed' \/ (\E u \in Tasks : i \in Old(u)')
    BY <1>0, <2>1, <2>9, <2>10, <2>11 DEF Clients
  <2>15. Routed \subseteq Instance /\ closing' \subseteq Instance
    BY <1>0, <2>1, <2>8 DEF Clients
  <2> QED
    BY <2>5, <2>6, <2>9, <2>10, <2>11, <2>12, <2>13, <2>14, <2>15 DEF Clients
<1>10. ASSUME NEW t \in Tasks, CloseOld(t) PROVE Clients'
  <2>1. /\ Only(t) /\ tasks'[t] = tasks[t].after /\ tasks[t].ph = "swapped" /\ tasks[t].after \in Afterwards
        /\ UNCHANGED <<registry, open>> /\ closing' = closing \cup tasks[t].old
    BY <1>0, <1>10, Goes DEF CloseOld, Place
  <2>2. tasks'[t].ph \notin {"loading", "swapped"} /\ Old(t)' = {} /\ Old(t) = tasks[t].old /\ tasks[t].old \cap Routed = {}
    BY <1>0, <2>1 DEF Afterwards, Old, Clients
  <2>3. Routed' = Routed /\ \A u \in Tasks \ {t} : tasks'[u] = tasks[u] /\ Old(u)' = Old(u)
    BY <2>1 DEF Routed, Only, Old
  <2>4. \A k \in Keys : registry[k] # None => registry[k] \notin tasks[t].old
    BY <2>2 DEF Routed
  <2>5. closing' \subseteq Instance
    BY <1>0, <2>1, <2>2 DEF Clients
  <2>6. \A i \in open' : i \in closing' \/ i \in Routed' \/ (\E u \in Tasks : i \in Old(u)')
    BY <1>0, <2>1, <2>2, <2>3 DEF Clients
  <2> QED
    BY <1>0, <2>1, <2>2, <2>3, <2>4, <2>5, <2>6 DEF Clients
<1>11. ASSUME NEW t \in Tasks, NEW k \in Keys, NEW new \in Instance \cup {None},
              \A u \in Tasks : tasks[u].ph \notin {"loading", "swapped"} /\ tasks'[u].ph \notin {"loading", "swapped"},
              registry' = [registry EXCEPT ![k] = new],
              open' = open \cup ({new} \ {None}), closing' = closing \cup ({registry[k]} \ {None}),
              new # None => new.key = k /\ new \notin open \cup closing
       PROVE  Clients'
  <2>1. /\ Routed' = (Routed \ {registry[k]}) \cup ({new} \ {None})
        /\ \A q \in Keys \ {k} : registry'[q] = registry[q] /\ (registry[q] # None => registry[q] # registry[k])
        /\ registry'[k] = new /\ registry' \in [Keys -> Instance \cup {None}]
    BY <1>0, <1>11, RoutedBut
  <2>2. \A u \in Tasks : Old(u) = {} /\ Old(u)' = {}
    BY <1>11 DEF Old
  <2>3. \A q \in Keys : registry'[q] # None => registry'[q].key = q /\ registry'[q] \in open' /\ registry'[q] \notin closing'
    BY <1>0, <1>11, <2>1 DEF Clients
  <2>4. \A i \in open' : i \in closing' \/ i \in Routed'
    BY <1>0, <1>11, <2>1, <2>2 DEF Clients
  <2>5. open' \subseteq Instance /\ closing' \subseteq Instance
    BY <1>0, <1>11 DEF Clients
  <2> QED
    BY <1>11, <2>1, <2>2, <2>3, <2>4, <2>5 DEF Clients
<1>12. ASSUME NEW t \in Tasks, editing = None, Go(t, Idle), Drop(tasks[t].key), tasks[t].key \in Keys PROVE Clients'
  <2>1. Only(t) /\ tasks'[t].ph = "idle"
    BY <1>0, <1>12, Goes DEF Idle
  <2>2. \A u \in Tasks : tasks[u].ph \notin {"loading", "swapped"} /\ tasks'[u].ph \notin {"loading", "swapped"}
    BY <1>0, <1>12, <2>1 DEF OneEditor, Locking, Only
  <2>3. open' = open \cup ({None} \ {None})
    BY <1>12 DEF Drop
  <2> QED
    BY <1>11, <1>12, <2>2, <2>3 DEF Drop
<1>13. ASSUME NEW t \in Tasks, DropByok(t) PROVE Clients'
  <2>1. tasks[t].key \in Keys
    BY <1>0, <1>13 DEF DropByok, Place
  <2> QED
    BY <1>12, <1>13, <2>1 DEF DropByok
<1>14. ASSUME NEW t \in Tasks, ReadByok(t) PROVE Clients'
  <2>1. tasks[t].key \in Keys /\ tasks[t].ph = "upsert"
    BY <1>0, <1>14 DEF ReadByok, Place
  <2>2. CASE Live(rows[tasks[t].key])
    <3>1. (\E p : Go(t, p) /\ p.ph = "building") /\ UNCHANGED <<registry, open, closing>>
      BY <1>14, <2>2 DEF ReadByok
    <3>2. Only(t) /\ tasks'[t].ph = "building"
      BY <1>0, <3>1, Goes
    <3> QED
      BY <1>1, <2>1, <3>1, <3>2
  <2>3. CASE ~Live(rows[tasks[t].key])
    BY <1>12, <1>14, <2>1, <2>3 DEF ReadByok
  <2> QED
    BY <2>2, <2>3
<1>15. ASSUME NEW t \in Tasks, SwapByok(t) PROVE Clients'
  <2> DEFINE k == tasks[t].key
             new == [key |-> k, ver |-> tasks[t].ver, n |-> tasks[t].n]
  <2>1. tasks[t].ph = "building" /\ k \in Keys /\ new \in Instance
    <3>1. tasks[t].ph = "building" /\ k \in Keys /\ tasks[t].ver \in 0..MaxEdits /\ tasks[t].n \in 0..MaxEdits
      BY <1>0, <1>N, <1>15 DEF SwapByok, Place, Counted
    <3> QED
      BY <3>1 DEF Instance
  <2>2. Only(t) /\ tasks'[t].ph = "sync"
    BY <1>0, <1>15, Goes DEF SwapByok
  <2>3. \A u \in Tasks : tasks[u].ph \notin {"loading", "swapped"} /\ tasks'[u].ph \notin {"loading", "swapped"}
    BY <1>0, <2>1, <2>2 DEF OneEditor, Locking, Only
  <2>4. \A i \in open \cup closing : i.n # tasks[t].n
    BY <1>0, <2>1 DEF Fresh, Counted
  <2>5. new \notin open \cup closing /\ new.key = k
    BY <2>4
  <2>6. /\ registry' = [registry EXCEPT ![k] = new] /\ open' = open \cup {new}
        /\ closing' = closing \cup ({registry[k]} \ {None})
    BY <1>15 DEF SwapByok
  <2>7. open' = open \cup ({new} \ {None})
    BY <1>0, <2>1, <2>6
  <2> QED
    BY <1>11, <2>1, <2>3, <2>5, <2>6, <2>7
<1>16. ASSUME NEW t \in Tasks, BuildFails(t) PROVE Clients'
  <2>1. tasks[t].ph = "building" /\ tasks[t].key \in Keys
    BY <1>0, <1>16 DEF BuildFails, Place
  <2>2. Only(t) /\ tasks'[t].ph = "idle"
    BY <1>0, <1>16, Goes DEF BuildFails, Idle
  <2>3. \A u \in Tasks : tasks[u].ph \notin {"loading", "swapped"} /\ tasks'[u].ph \notin {"loading", "swapped"}
    BY <1>0, <2>1, <2>2 DEF OneEditor, Locking, Only
  <2>4. open' = open \cup ({None} \ {None})
    BY <1>16 DEF BuildFails
  <2> QED
    BY <1>11, <1>16, <2>1, <2>3, <2>4 DEF BuildFails
<1> QED
  BY <1>2, <1>3, <1>4, <1>5, <1>6, <1>7, <1>8, <1>9, <1>10, <1>13, <1>14, <1>15, <1>16, FetchMoves
  DEF Next, Continue, Syncs, Fetches, Beside, vars

-----------------------------------------------------------------------------
LEMMA FreshStep == ASSUME Parameters, ProviderInv, [Next]_vars PROVE Fresh'
<1> USE DEF table, clients, history
<1>0. /\ Clients /\ Fresh /\ OneEditor /\ Places /\ Byok \subseteq Keys
      /\ \A u \in Tasks : Place(tasks[u])
      /\ made \in 0..MaxEdits /\ MaxEdits \in Nat
  BY DEF ProviderInv, Places, Parameters, Keys, Tables
<1>N. /\ \A i \in open \cup closing : i.n \in 0..MaxEdits
      /\ \A u \in Tasks : \A i \in Old(u) : i.n \in 0..MaxEdits
      /\ \A u \in Tasks : tasks[u].ph \in Counted => tasks[u].n \in 1..made
  BY <1>0 DEF Clients, Instance, Place
<1>1. ASSUME NEW t \in Tasks, Only(t), UNCHANGED made,
             tasks'[t].ph \in Counted => tasks[t].ph \in Counted /\ tasks'[t].n = tasks[t].n,
             \A i \in open' \cup closing' \cup Old(t)' :
                \/ i \in open \cup closing \cup Old(t)
                \/ tasks[t].ph \in Counted /\ tasks'[t].ph \notin Counted /\ i.n = tasks[t].n
      PROVE  Fresh'
  <2>1. \A u \in Tasks \ {t} : tasks'[u] = tasks[u] /\ Old(u)' = Old(u)
    BY <1>1 DEF Only, Old
  <2>2. ASSUME NEW u \in Tasks, tasks'[u].ph \in Counted, NEW i \in open' \cup closing' \cup Old(t)'
        PROVE  i.n # tasks'[u].n
    BY <1>0, <1>1, <2>1, <2>2 DEF Fresh
  <2>3. ASSUME NEW u \in Tasks, tasks'[u].ph \in Counted, NEW v \in Tasks, v # u
        PROVE  /\ tasks'[v].ph \in Counted => tasks'[v].n # tasks'[u].n
               /\ \A i \in Old(v)' : i.n # tasks'[u].n
    <3>1. tasks'[v].ph \in Counted => tasks'[v].n # tasks'[u].n
      BY <1>0, <1>1, <2>1, <2>3 DEF Fresh
    <3>2. CASE v = t
      <4>1. Old(v)' = Old(t)'
        BY <3>2 DEF Old
      <4> QED
        BY <2>2, <2>3, <3>1, <4>1
    <3>3. CASE v # t
      BY <1>0, <1>1, <2>1, <2>3, <3>3 DEF Fresh
    <3> QED
      BY <3>1, <3>2, <3>3
  <2>4. ASSUME NEW i \in open' \cup closing' \cup Old(t)' PROVE i.n <= made'
    BY <1>0, <1>N, <1>1, <2>4 DEF Fresh
  <2>5. \A v \in Tasks : \A i \in Old(v)' : i.n <= made'
    BY <1>0, <1>1, <2>1, <2>4 DEF Fresh
  <2>6. ASSUME NEW u \in Tasks, tasks'[u].ph \in Counted, NEW i \in Old(u)' PROVE i.n # tasks'[u].n
    BY <1>0, <2>1, <2>2, <2>6 DEF Fresh
  <2> QED
    BY <2>2, <2>3, <2>4, <2>5, <2>6 DEF Fresh
<1>2. CASE UNCHANGED <<open, closing, tasks>> /\ made' \in Nat /\ made <= made'
  <2>1. \A u \in Tasks : Old(u)' = Old(u)
    BY <1>2 DEF Old
  <2> QED
    BY <1>0, <1>N, <1>2, <2>1 DEF Fresh
<1>3. ASSUME NEW t \in Tasks, Edit(t) PROVE Fresh'
  <2>1. /\ Only(t) /\ UNCHANGED <<open, closing>> /\ made' = made + 1
        /\ tasks'[t].ph \in Due /\ tasks[t].ph = "idle" /\ (tasks'[t].ph \in Counted => tasks'[t].n = made + 1)
    BY <1>3, EditMoves DEF Edited
  <2>2. \A u \in Tasks \ {t} : tasks'[u] = tasks[u] /\ Old(u)' = Old(u)
    BY <2>1 DEF Only, Old
  <2>3. Old(t)' = {}
    BY <2>1 DEF Old, Due
  <2>4. /\ \A i \in open \cup closing : i.n < made + 1 /\ i.n \in Nat
        /\ \A u \in Tasks : \A i \in Old(u) : i.n < made + 1 /\ i.n \in Nat
        /\ \A u \in Tasks : tasks[u].ph \in Counted => tasks[u].n < made + 1 /\ tasks[u].n \in Nat
    BY <1>0, <1>N DEF Fresh
  <2>5. ASSUME NEW u \in Tasks, tasks'[u].ph \in Counted
        PROVE  /\ \A i \in open' \cup closing' : i.n # tasks'[u].n
               /\ \A v \in Tasks : /\ v # u /\ tasks'[v].ph \in Counted => tasks'[v].n # tasks'[u].n
                                   /\ \A i \in Old(v)' : i.n # tasks'[u].n
    <3>1. CASE u = t
      BY <1>0, <2>1, <2>2, <2>3, <2>4, <2>5, <3>1
    <3>2. CASE u # t
      <4>1. tasks'[u] = tasks[u] /\ tasks[u].n < made + 1 /\ tasks[u].n \in Nat /\ tasks[u].ph \in Counted
        BY <2>2, <2>4, <2>5, <3>2
      <4>2. \A v \in Tasks : v # u /\ tasks'[v].ph \in Counted => tasks'[v].n # tasks'[u].n
        BY <1>0, <2>1, <2>2, <4>1 DEF Fresh
      <4>3. \A v \in Tasks : \A i \in Old(v)' : i.n # tasks'[u].n
        BY <1>0, <2>2, <2>3, <4>1 DEF Fresh
      <4>4. \A i \in open' \cup closing' : i.n # tasks'[u].n
        BY <1>0, <2>1, <4>1 DEF Fresh
      <4> QED
        BY <4>2, <4>3, <4>4
    <3> QED
      BY <3>1, <3>2
  <2>6. \A i \in open' \cup closing' : i.n <= made'
    BY <1>0, <2>1, <2>4
  <2>7. \A u \in Tasks : \A i \in Old(u)' : i.n <= made'
    BY <1>0, <2>1, <2>2, <2>3, <2>4
  <2> QED
    BY <2>5, <2>6, <2>7 DEF Fresh
<1>4. ASSUME NEW t \in Tasks, Syncs(t) PROVE Fresh'
  <2>1. Synced(t)
    BY <1>4, SyncMoves
  <2>2. Old(t)' = {} /\ tasks'[t].ph \notin Counted
    BY <2>1 DEF Synced, Old, Calm, Waiting, Counted
  <2> QED
    BY <1>1, <2>1, <2>2 DEF Synced
<1>5. ASSUME NEW i \in closing, Close(i) PROVE Fresh'
  <2>1. (\A u \in Tasks : Old(u)' = Old(u)) /\ UNCHANGED <<tasks, made>> /\ open' \subseteq open /\ closing' \subseteq closing
    BY <1>5 DEF Close, Old
  <2> QED
    BY <1>0, <2>1 DEF Fresh
<1>6. ASSUME NEW t \in Tasks, Remove(t) PROVE Fresh'
  <2>1. open' \subseteq open /\ closing' = closing /\ made' = made
    BY <1>6 DEF Remove
  <2>2. ASSUME NEW u \in Tasks
        PROVE  /\ Old(u)' \subseteq Old(u)
               /\ tasks'[u].ph \in Counted => tasks[u].ph \in Counted /\ tasks'[u].n = tasks[u].n
    <3>1. CASE u = t
      <4>1. tasks'[u] = [ph |-> "refresh", then |-> "idle", n |-> tasks[t].n] /\ tasks[u].ph = "remove"
        BY <1>6, <3>1 DEF Remove
      <4> QED
        BY <3>1, <4>1 DEF Old, Counted
    <3>2. CASE u # t /\ tasks[u].ph = "loading"
      <4>1. PICK i : tasks'[u] = [tasks[u] EXCEPT !.old = @ \ {i}]
        BY <1>6, <3>2 DEF Remove
      <4>2. tasks'[u] = [ph |-> "loading", after |-> tasks[u].after, old |-> tasks[u].old \ {i},
                         read |-> tasks[u].read, n |-> tasks[u].n]
        BY <1>0, <3>2, <4>1 DEF Place
      <4> QED
        BY <3>2, <4>2 DEF Old, Counted
    <3>3. CASE u # t /\ tasks[u].ph # "loading"
      <4>1. tasks'[u] = tasks[u]
        BY <1>6, <3>3 DEF Remove
      <4> QED
        BY <3>3, <4>1 DEF Old
    <3> QED
      BY <3>1, <3>2, <3>3
  <2> QED
    BY <1>0, <2>1, <2>2 DEF Fresh
<1>7. ASSUME NEW t \in Tasks, LoadRows(t) PROVE Fresh'
  <2> DEFINE p == [ph |-> "loading", after |-> Started(t), old |-> Routed, read |-> rows, n |-> tasks[t].n]
  <2>1. Only(t) /\ tasks'[t] = p /\ tasks[t].ph = "refresh" /\ UNCHANGED <<open, closing, made>>
    BY <1>0, <1>7, Goes DEF LoadRows
  <2>2. Old(t)' \subseteq open /\ tasks'[t].n = tasks[t].n /\ tasks[t].ph \in Counted
    <3>1. Old(t)' = Routed
      BY <2>1 DEF Old
    <3>2. Routed \subseteq open
      BY <1>0 DEF Routed, Clients
    <3> QED
      BY <2>1, <3>1, <3>2 DEF Counted
  <2> QED
    BY <1>1, <2>1, <2>2
<1>8. ASSUME NEW t \in Tasks, LoadFails(t) \/ ReadByokFails(t) PROVE Fresh'
  <2>1. Only(t) /\ (tasks'[t] = Idle \/ (tasks[t].then = "sync" /\ tasks'[t] = Started(t)))
    BY <1>0, <1>8, Goes DEF LoadFails, ReadByokFails
  <2>2. Old(t)' = {} /\ tasks'[t].ph \notin Counted
    BY <2>1 DEF Started, Idle, Old, Counted
  <2> QED
    BY <1>1, <1>8, <2>1, <2>2 DEF LoadFails, ReadByokFails
<1>9. ASSUME NEW t \in Tasks, SwapRegistry(t) PROVE Fresh'
  <2>1. /\ Only(t) /\ tasks'[t] = [ph |-> "swapped", after |-> tasks[t].after, old |-> tasks[t].old]
        /\ tasks[t].ph = "loading" /\ UNCHANGED <<closing, made>>
    BY <1>0, <1>9, Goes DEF SwapRegistry
  <2>2. Old(t)' = Old(t) /\ tasks'[t].ph \notin Counted /\ tasks[t].ph \in Counted
    BY <2>1 DEF Old, Counted
  <2> DEFINE loaded == {k \in Keys : Live(tasks[t].read[k]) /\ k \notin errors'}
  <2>3. registry' = [k \in Keys |-> IF k \in loaded
                                    THEN [key |-> k, ver |-> tasks[t].read[k].ver, n |-> tasks[t].n] ELSE None]
    BY <1>9 DEF SwapRegistry
  <2>4. open' = open \cup {registry'[k] : k \in loaded}
    BY <1>9 DEF SwapRegistry
  <2>5. \A i \in open' : i \in open \/ i.n = tasks[t].n
    BY <2>3, <2>4
  <2> QED
    BY <1>1, <2>1, <2>2, <2>5
<1>10. ASSUME NEW t \in Tasks, CloseOld(t) PROVE Fresh'
  <2>1. /\ Only(t) /\ tasks'[t] = tasks[t].after /\ tasks[t].ph = "swapped" /\ tasks[t].after \in Afterwards
        /\ UNCHANGED <<made, open>> /\ closing' = closing \cup tasks[t].old
    BY <1>0, <1>10, Goes DEF CloseOld, Place
  <2>2. Old(t)' = {} /\ Old(t) = tasks[t].old /\ tasks'[t].ph \notin Counted
    BY <2>1 DEF Afterwards, Old, Counted
  <2> QED
    BY <1>1, <2>1, <2>2
<1>11. ASSUME NEW t \in Tasks, Go(t, Idle), tasks[t].key \in Keys, UNCHANGED <<open, made>>,
             closing' = closing \cup ({registry[tasks[t].key]} \ {None})
      PROVE  Fresh'
  <2>1. Only(t) /\ tasks'[t].ph = "idle"
    BY <1>0, <1>11, Goes DEF Idle
  <2>2. Old(t)' = {} /\ tasks'[t].ph \notin Counted
    BY <2>1 DEF Old, Counted
  <2>3. registry[tasks[t].key] # None => registry[tasks[t].key] \in open
    BY <1>0, <1>11 DEF Clients
  <2> QED
    BY <1>1, <1>11, <2>1, <2>2, <2>3
<1>12. ASSUME NEW t \in Tasks, DropByok(t) \/ BuildFails(t) PROVE Fresh'
  <2>1. tasks[t].key \in Keys
    BY <1>0, <1>12 DEF DropByok, BuildFails, Place
  <2> QED
    BY <1>11, <1>12, <2>1 DEF DropByok, BuildFails, Drop
<1>13. ASSUME NEW t \in Tasks, ReadByok(t) PROVE Fresh'
  <2>1. tasks[t].key \in Keys /\ tasks[t].ph = "upsert"
    BY <1>0, <1>13 DEF ReadByok, Place
  <2>2. CASE Live(rows[tasks[t].key])
    <3>1. (\E p : Go(t, p) /\ p.ph = "building" /\ p.n = tasks[t].n) /\ UNCHANGED <<open, closing, made>>
      BY <1>13, <2>2 DEF ReadByok
    <3>2. Only(t) /\ tasks'[t].ph = "building" /\ tasks'[t].n = tasks[t].n
      BY <1>0, <3>1, Goes
    <3>3. Old(t)' = {} /\ tasks[t].ph \in Counted
      BY <2>1, <3>2 DEF Old, Counted
    <3> QED
      BY <1>1, <3>1, <3>2, <3>3
  <2>3. CASE ~Live(rows[tasks[t].key])
    BY <1>11, <1>13, <2>1, <2>3 DEF ReadByok, Drop
  <2> QED
    BY <2>2, <2>3
<1>14. ASSUME NEW t \in Tasks, SwapByok(t) PROVE Fresh'
  <2> DEFINE k == tasks[t].key
             new == [key |-> k, ver |-> tasks[t].ver, n |-> tasks[t].n]
  <2>1. tasks[t].ph = "building" /\ k \in Keys
    BY <1>0, <1>14 DEF SwapByok, Place
  <2>2. Only(t) /\ tasks'[t].ph = "sync"
    BY <1>0, <1>14, Goes DEF SwapByok
  <2>3. Old(t)' = {} /\ tasks'[t].ph \notin Counted /\ tasks[t].ph \in Counted
    BY <2>1, <2>2 DEF Old, Counted
  <2>4. open' = open \cup {new} /\ closing' = closing \cup ({registry[k]} \ {None}) /\ made' = made
    BY <1>14 DEF SwapByok
  <2>5. registry[k] # None => registry[k] \in open
    BY <1>0, <2>1 DEF Clients
  <2>6. \A i \in open' \cup closing' : i \in open \cup closing \/ i.n = tasks[t].n
    BY <2>4, <2>5
  <2> QED
    BY <1>1, <2>2, <2>3, <2>4, <2>6
<1>15. CASE Beside
  BY <1>0, <1>2, <1>15 DEF Beside, Parameters
<1>16. CASE UNCHANGED vars
  BY <1>0, <1>2, <1>16 DEF vars
<1> QED
  BY <1>3, <1>4, <1>5, <1>6, <1>7, <1>8, <1>9, <1>10, <1>12, <1>13, <1>14, <1>15, <1>16, FetchMoves
  DEF Next, Continue, Syncs, Fetches

-----------------------------------------------------------------------------
LEMMA OwnedStep == ASSUME Parameters, ProviderInv, [Next]_vars PROVE Owned'
<1> USE DEF table, clients, history
<1>0. /\ Owned /\ OneEditor /\ Places /\ None \notin Tasks /\ Byok \subseteq Keys
      /\ registry \in [Keys -> Instance \cup {None}]
      /\ \A u \in Tasks : Place(tasks[u])
  BY DEF ProviderInv, Places, Parameters, Keys, Clients
<1>1. ASSUME NEW t \in Tasks, Only(t), UNCHANGED <<registry, owners, errors>>, tasks'[t].ph # "building" PROVE Owned'
  BY <1>0, <1>1 DEF Owned, Only
<1>2. ASSUME NEW t \in Tasks, Edit(t) PROVE Owned'
  BY <1>1, <1>2, EditMoves DEF Edited, Due
<1>3. ASSUME NEW t \in Tasks, Syncs(t) PROVE Owned'
  BY <1>1, <1>3, SyncMoves DEF Synced, Calm, Waiting
<1>4. CASE UNCHANGED <<registry, owners, errors, tasks>>
  BY <1>0, <1>4 DEF Owned
<1>5. ASSUME NEW t \in Tasks, Remove(t) PROVE Owned'
  <2>1. UNCHANGED <<owners, errors>> /\ \A k \in Keys : registry'[k] # None => registry[k] # None
    BY <1>0, <1>5 DEF Remove
  <2>2. ASSUME NEW u \in Tasks, tasks'[u].ph = "building" PROVE tasks'[u] = tasks[u]
    <3>1. CASE u = t
      BY <1>5, <2>2, <3>1 DEF Remove
    <3>2. CASE u # t /\ tasks[u].ph = "loading"
      <4>1. PICK o : tasks'[u] = [tasks[u] EXCEPT !.old = o]
        BY <1>5, <3>2 DEF Remove
      <4>2. tasks'[u] = [ph |-> "loading", after |-> tasks[u].after, old |-> o, read |-> tasks[u].read, n |-> tasks[u].n]
        BY <1>0, <3>2, <4>1 DEF Place
      <4> QED
        BY <2>2, <4>2
    <3>3. CASE u # t /\ tasks[u].ph # "loading"
      BY <1>5, <3>3 DEF Remove
    <3> QED
      BY <3>1, <3>2, <3>3
  <2> QED
    BY <1>0, <2>1, <2>2 DEF Owned
<1>6. ASSUME NEW t \in Tasks, LoadRows(t) \/ LoadFails(t) \/ CloseOld(t) \/ ReadByokFails(t) PROVE Owned'
  <2>1. UNCHANGED <<registry, owners, errors>>
    BY <1>6 DEF LoadRows, LoadFails, CloseOld, ReadByokFails
  <2>2. CASE LoadRows(t)
    <3>1. \E p : Go(t, p) /\ p.ph = "loading"
      BY <2>2 DEF LoadRows
    <3> QED
      BY <1>0, <1>1, <2>1, <3>1, Goes
  <2>3. CASE LoadFails(t) \/ ReadByokFails(t)
    <3>1. Go(t, Idle) \/ (tasks[t].then = "sync" /\ Go(t, Started(t)))
      BY <2>3 DEF LoadFails, ReadByokFails
    <3>2. Only(t) /\ tasks'[t].ph # "building"
      BY <1>0, <3>1, Goes DEF Idle, Started
    <3> QED
      BY <1>1, <2>1, <3>2
  <2>4. CASE CloseOld(t)
    <3>1. Only(t) /\ tasks'[t] = tasks[t].after /\ tasks[t].after \in Afterwards
      BY <1>0, <2>4, Goes DEF CloseOld, Place
    <3> QED
      BY <1>1, <2>1, <3>1 DEF Afterwards
  <2> QED
    BY <1>6, <2>2, <2>3, <2>4
<1>7. ASSUME NEW t \in Tasks, SwapRegistry(t) PROVE Owned'
  <2>1. Only(t) /\ tasks'[t].ph = "swapped" /\ tasks[t].ph = "loading"
    BY <1>0, <1>7, Goes DEF SwapRegistry
  <2>2. \A u \in Tasks : tasks'[u].ph # "building"
    BY <1>0, <2>1 DEF Only, OneEditor, Locking
  <2>3. /\ owners' = {k \in Byok : tasks[t].read[k] # None} /\ errors' \subseteq Byok
        /\ \A k \in Keys : registry'[k] # None => Live(tasks[t].read[k])
    BY <1>7 DEF SwapRegistry
  <2> QED
    BY <1>0, <2>2, <2>3 DEF Owned, Live
<1>8. ASSUME NEW t \in Tasks, DropByok(t) PROVE Owned'
  <2>1. tasks[t].key \in Keys
    BY <1>0, <1>8 DEF DropByok, Place
  <2>2. Only(t) /\ tasks'[t].ph = "idle" /\ editing = None
    BY <1>0, <1>8, Goes DEF DropByok, Idle
  <2>3. \A u \in Tasks : tasks'[u].ph # "building"
    BY <1>0, <2>2 DEF Only, OneEditor, Locking
  <2>4. /\ registry' = [registry EXCEPT ![tasks[t].key] = None] /\ (owners' = owners \/ owners' = owners \ {tasks[t].key})
        /\ errors' \subseteq errors
    BY <1>8 DEF DropByok, Drop
  <2> QED
    BY <1>0, <2>1, <2>3, <2>4 DEF Owned
<1>9. ASSUME NEW t \in Tasks, ReadByok(t) PROVE Owned'
  <2> DEFINE k == tasks[t].key
  <2>1. k \in Byok /\ editing = None /\ tasks[t].ph = "upsert"
    BY <1>0, <1>9 DEF ReadByok, Place
  <2>2. \A u \in Tasks : tasks[u].ph # "building"
    BY <1>0, <2>1 DEF OneEditor, Locking
  <2>3. owners' = (IF rows[k] = None THEN owners \ {k} ELSE owners \cup {k}) /\ errors' \subseteq errors
    BY <1>9 DEF ReadByok
  <2>4. CASE Live(rows[k])
    <3>1. (\E p : Go(t, p) /\ p.key = k) /\ registry' = registry
      BY <1>9, <2>4 DEF ReadByok
    <3>2. Only(t) /\ tasks'[t].key = k
      BY <1>0, <3>1, Goes
    <3> QED
      BY <1>0, <2>1, <2>2, <2>3, <2>4, <3>1, <3>2 DEF Owned, Only, Live
  <2>5. CASE ~Live(rows[k])
    <3>1. Go(t, Idle) /\ registry' = [registry EXCEPT ![k] = None]
      BY <1>9, <2>5 DEF ReadByok, Drop
    <3>2. Only(t) /\ tasks'[t].ph = "idle"
      BY <1>0, <3>1, Goes DEF Idle
    <3> QED
      BY <1>0, <2>1, <2>2, <2>3, <3>1, <3>2 DEF Owned, Only
  <2> QED
    BY <2>4, <2>5
<1>10. ASSUME NEW t \in Tasks, SwapByok(t) PROVE Owned'
  <2>1. tasks[t].ph = "building" /\ tasks[t].key \in Byok
    BY <1>0, <1>10 DEF SwapByok, Place
  <2>2. Only(t) /\ tasks'[t].ph = "sync" /\ owners' = owners /\ errors' \subseteq errors
    BY <1>0, <1>10, Goes DEF SwapByok
  <2>3. \A q \in Keys : q # tasks[t].key => registry'[q] = registry[q]
    BY <1>0, <1>10 DEF SwapByok
  <2> QED
    BY <1>0, <2>1, <2>2, <2>3 DEF Owned, Only
<1>11. ASSUME NEW t \in Tasks, BuildFails(t) PROVE Owned'
  <2>1. tasks[t].ph = "building" /\ tasks[t].key \in Byok
    BY <1>0, <1>11 DEF BuildFails, Place
  <2>2. Only(t) /\ tasks'[t].ph = "idle" /\ owners' = owners /\ errors' = errors \cup {tasks[t].key}
    BY <1>0, <1>11, Goes DEF BuildFails, Idle
  <2>3. \A q \in Keys : q # tasks[t].key => registry'[q] = registry[q]
    BY <1>0, <1>11 DEF BuildFails
  <2> QED
    BY <1>0, <2>1, <2>2, <2>3 DEF Owned, Only
<1> QED
  BY <1>2, <1>3, <1>4, <1>5, <1>6, <1>7, <1>8, <1>9, <1>10, <1>11, FetchMoves DEF Next, Continue, Syncs, Fetches, Beside, Close, vars

-----------------------------------------------------------------------------
\* Work that is due stays so while another task, or one with none of it, moves.
LEMMA DueStays ==
  ASSUME NEW t \in Tasks, Only(t), NEW k, ~Mends(t, k), ~(tasks[t].ph = "drop" /\ tasks[t].key = k)
  PROVE  (RegistryDue(k) => RegistryDue(k)') /\ (OwnerDue(k) => OwnerDue(k)')
  BY DEF Only, RegistryDue, OwnerDue, Mends

LEMMA InstalledStep == ASSUME Parameters, ProviderInv, [Next]_vars PROVE InHand' /\ Installed'
<1> USE DEF table, clients, history
<1>0. /\ InHand /\ Installed /\ OneEditor /\ Places /\ None \notin Tasks /\ Byok \subseteq Keys
      /\ registry \in [Keys -> Instance \cup {None}]
      /\ \A u \in Tasks : Place(tasks[u])
  BY DEF ProviderInv, Places, Parameters, Keys, Clients
<1>1. CASE UNCHANGED <<rows, registry, owners, errors, tasks, behind, crossed>>
  <2>1. \A k : /\ RegistryDue(k)' <=> RegistryDue(k)
               /\ OwnerDue(k)' <=> OwnerDue(k)
               /\ Doing(k)' <=> Doing(k)
               /\ RegistryOk(k)' <=> RegistryOk(k)
               /\ OwnerOk(k)' <=> OwnerOk(k)
    BY <1>1 DEF RegistryDue, OwnerDue, Mends, Doing, RegistryOk, OwnerOk
  <2>2. Loading' <=> Loading
    BY <1>1 DEF Loading
  <2>3. InHand'
    BY <1>0, <1>1, <2>1 DEF InHand
  <2>4. Installed'
    BY <1>0, <1>1, <2>1, <2>2 DEF Installed
  <2> QED
    BY <2>3, <2>4
<1>2. ASSUME NEW t \in Tasks, Only(t), UNCHANGED <<rows, registry, owners, errors, behind, crossed>>,
             tasks[t].ph \notin Due \cup {"loading", "building"}, tasks'[t].ph \notin {"loading", "building"}
      PROVE  InHand' /\ Installed'
  <2>1. \A k : /\ RegistryDue(k) => RegistryDue(k)'
               /\ OwnerDue(k) => OwnerDue(k)'
    BY <1>2, DueStays DEF Due, Mends
  <2>2. \A k : /\ Doing(k)' <=> Doing(k)
               /\ RegistryOk(k)' <=> RegistryOk(k)
               /\ OwnerOk(k)' <=> OwnerOk(k)
    BY <1>2 DEF Doing, RegistryOk, OwnerOk, Only
  <2>3. Loading' <=> Loading
    BY <1>2 DEF Loading, Only
  <2>4. InHand'
    BY <1>0, <1>2, <2>1, <2>2 DEF InHand, Only
  <2>5. Installed'
    BY <1>0, <1>2, <2>1, <2>2, <2>3 DEF Installed
  <2> QED
    BY <2>4, <2>5
<1>3. ASSUME NEW t \in Tasks, Syncs(t) PROVE InHand' /\ Installed'
  BY <1>2, <1>3, SyncMoves DEF Synced, Calm, Waiting, Due
<1>4. ASSUME NEW t \in Tasks, CloseOld(t) PROVE InHand' /\ Installed'
  <2>1. Only(t) /\ tasks[t].ph = "swapped" /\ tasks'[t] = tasks[t].after /\ tasks[t].after \in Afterwards
    BY <1>0, <1>4, Goes DEF CloseOld, Place
  <2> QED
    BY <1>2, <1>4, <2>1 DEF CloseOld, Afterwards, Due
<1>5. ASSUME NEW t \in Tasks, Edit(t) PROVE InHand' /\ Installed'
  <2>1. /\ Only(t) /\ tasks[t].ph = "idle" /\ tasks'[t].ph \in Due /\ UNCHANGED <<registry, owners, errors, behind, crossed>>
        /\ \A k \in Keys : rows'[k] = rows[k] \/ RegistryDue(k)'
    BY <1>5, EditMoves DEF Edited, RegistryDue
  <2>2. ASSUME NEW k \in Keys PROVE (rows'[k] = None <=> rows[k] = None) \/ OwnerDue(k)'
    <3>1. Edited(t)
      BY <1>5, EditMoves
    <3>2. tasks'[t].ph = "drop" => tasks'[t].key \in Byok
      BY <3>1 DEF Edited, Place
    <3>3. k \notin Byok => rows'[k] = rows[k] \/ Mends(t, k)'
      BY <3>1, <3>2 DEF Edited
    <3> QED
      BY <3>1, <3>3 DEF Edited, OwnerDue
  <2>3. \A k : /\ RegistryDue(k) => RegistryDue(k)'
               /\ OwnerDue(k) => OwnerDue(k)'
    BY <2>1, DueStays DEF Mends
  <2>4. \A k \in Keys : /\ Doing(k) => Doing(k)'
                        /\ RegistryOk(k) => RegistryOk(k)' \/ RegistryDue(k)'
                        /\ OwnerOk(k) => OwnerOk(k)' \/ OwnerDue(k)'
    BY <2>1, <2>2 DEF Doing, RegistryOk, OwnerOk, Only
  <2>5. Loading => Loading'
    BY <2>1 DEF Loading, Only
  <2>6. InHand'
    <3>1. \A u \in Tasks : tasks'[u].ph \in {"loading", "building"} => tasks'[u] = tasks[u]
      BY <2>1 DEF Only, Due
    <3> QED
      BY <1>0, <2>1, <2>2, <2>3, <2>4, <3>1 DEF InHand
  <2>7. Installed'
    BY <1>0, <2>1, <2>3, <2>4, <2>5 DEF Installed
  <2> QED
    BY <2>6, <2>7
<1>6. ASSUME NEW t \in Tasks, Remove(t) PROVE InHand' /\ Installed'
  <2>1. tasks'[t].ph = "refresh"
    BY <1>6 DEF Remove
  <2>2. \A k : RegistryDue(k)' /\ OwnerDue(k)'
    BY <2>1 DEF RegistryDue, OwnerDue, Mends
  <2> QED
    BY <2>2 DEF InHand, Installed
<1>7. ASSUME NEW t \in Tasks, LoadRows(t) PROVE InHand' /\ Installed'
  <2> DEFINE p == [ph |-> "loading", after |-> Started(t), old |-> Routed, read |-> rows, n |-> tasks[t].n]
  <2>1. Only(t) /\ tasks'[t] = p /\ editing = None /\ rows' = rows
    BY <1>0, <1>7, Goes DEF LoadRows
  <2>2. tasks'[t].ph = "loading" /\ tasks'[t].read = rows
    BY <2>1
  <2>3. \A u \in Tasks \ {t} : tasks'[u].ph \notin {"loading", "building"}
    BY <1>0, <2>1 DEF OneEditor, Locking, Only
  <2>4. InHand'
    BY <2>1, <2>2, <2>3 DEF InHand
  <2>5. (\A k : Doing(k)') /\ Loading'
    BY <2>2 DEF Doing, Loading
  <2>6. Installed'
    BY <2>5 DEF Installed
  <2> QED
    BY <2>4, <2>6
<1>8. ASSUME NEW t \in Tasks, LoadFails(t) PROVE InHand' /\ Installed'
  BY <1>0, <1>8 DEF LoadFails, InHand, Installed
<1>9. ASSUME NEW t \in Tasks, SwapRegistry(t) PROVE InHand' /\ Installed'
  <2> DEFINE read == tasks[t].read
  <2>1. Only(t) /\ tasks[t].ph = "loading" /\ tasks'[t].ph = "swapped" /\ rows' = rows
    BY <1>0, <1>9, Goes DEF SwapRegistry
  <2>2. \A u \in Tasks : tasks'[u].ph \notin {"loading", "building"}
    BY <1>0, <2>1 DEF OneEditor, Locking, Only
  <2>3. InHand'
    BY <2>2 DEF InHand
  <2>4. /\ owners' = {k \in Byok : read[k] # None}
        /\ registry' = [k \in Keys |-> IF Live(read[k]) /\ k \notin errors'
                                      THEN [key |-> k, ver |-> read[k].ver, n |-> tasks[t].n] ELSE None]
        /\ behind' = behind \cap {k \in Keys : read[k] # rows[k]}
        /\ crossed' = crossed \cap {k \in Keys : read[k] # rows[k]}
    BY <1>9 DEF SwapRegistry
  <2>5. \A k : /\ RegistryDue(k) => RegistryDue(k)'
               /\ OwnerDue(k) => OwnerDue(k)'
    BY <2>1, DueStays DEF Mends
  <2>6. ASSUME NEW k \in Keys, read[k] = rows[k] PROVE RegistryOk(k)' /\ OwnerOk(k)'
    <3>1. registry'[k] = IF Live(rows[k]) /\ k \notin errors' THEN [key |-> k, ver |-> rows[k].ver, n |-> tasks[t].n] ELSE None
      BY <2>4, <2>6
    <3>2. Live(rows[k]) /\ k \notin errors' => registry'[k] # None
      <4>1. Live(rows[k]) => [key |-> k, ver |-> rows[k].ver, n |-> tasks[t].n] \in Instance
        <5>1. tasks[t].n \in 0..MaxEdits /\ rows[k] \in Row \cup {None}
          <6>1. tasks[t].n \in 1..made /\ made \in 0..MaxEdits /\ MaxEdits \in Nat /\ rows[k] \in Row \cup {None}
            BY <1>0, <2>1 DEF Place, Counted, ProviderInv, Tables, Parameters
          <6> QED
            BY <6>1
        <5> QED
          BY <5>1 DEF Instance, Row, Live
      <4> QED
        BY <3>1, <4>1 DEF Parameters, Instance
    <3>3. RegistryOk(k)'
      BY <2>1, <3>1, <3>2 DEF RegistryOk, Live
    <3>4. OwnerOk(k)'
      BY <2>1, <2>4, <2>6 DEF OwnerOk
    <3> QED
      BY <3>3, <3>4
  <2>7. ASSUME NEW k \in Keys \ (behind \cup crossed), read[k] # rows[k]
        PROVE  RegistryDue(k)' /\ (OwnerOk(k)' \/ OwnerDue(k)')
    <3>1. RegistryDue(k) /\ ((read[k] = None <=> rows[k] = None) \/ OwnerDue(k))
      BY <1>0, <2>1, <2>7 DEF InHand
    <3>2. (read[k] = None <=> rows[k] = None) => OwnerOk(k)'
      BY <2>1, <2>4 DEF OwnerOk
    <3> QED
      BY <2>5, <3>1, <3>2
  <2>8. Installed'
    BY <2>4, <2>6, <2>7 DEF Installed
  <2> QED
    BY <2>3, <2>8
<1>10. ASSUME NEW t \in Tasks, DropByok(t) PROVE InHand' /\ Installed'
  <2>0. PICK k \in Byok : k = tasks[t].key /\ tasks[t].forget \in BOOLEAN
    BY <1>0, <1>10 DEF DropByok, Place
  <2>1. Only(t) /\ tasks'[t].ph = "idle" /\ tasks[t].ph = "drop"
        /\ editing = None /\ UNCHANGED <<rows, behind>>
    BY <1>0, <1>10, Goes DEF DropByok, Idle
  <2>2. \A u \in Tasks : tasks[u].ph \notin {"loading", "building"} /\ tasks'[u].ph \notin {"loading", "building"}
    BY <1>0, <2>0, <2>1 DEF OneEditor, Locking, Only
  <2>3. InHand'
    BY <2>2 DEF InHand
  <2>4. ~Loading /\ \A q : ~Doing(q)
    BY <2>2 DEF Loading, Doing
  <2>5. /\ registry' = [registry EXCEPT ![k] = None]
        /\ owners' = IF tasks[t].forget THEN owners \ {k} ELSE owners
        /\ errors' = IF tasks[t].forget THEN errors \ {k} ELSE errors
        /\ crossed' = IF Live(rows[k]) \/ (tasks[t].forget /\ rows[k] # None) THEN crossed \cup {k} ELSE crossed
    BY <1>10, <2>0 DEF DropByok, Drop
  <2>6. ASSUME NEW q \in Keys \ (behind' \cup crossed'), q # k
        PROVE  (RegistryOk(q)' \/ RegistryDue(q)') /\ (OwnerOk(q)' \/ OwnerDue(q)')
    <3>1. (RegistryOk(q) \/ RegistryDue(q)) /\ (OwnerOk(q) \/ OwnerDue(q))
      BY <1>0, <2>0, <2>1, <2>4, <2>5, <2>6 DEF Installed
    <3>2. (RegistryDue(q) => RegistryDue(q)') /\ (OwnerDue(q) => OwnerDue(q)')
      BY <2>0, <2>1, <2>6, DueStays DEF Mends
    <3>3. (RegistryOk(q) => RegistryOk(q)') /\ (OwnerOk(q) => OwnerOk(q)')
      BY <1>0, <2>0, <2>1, <2>5, <2>6 DEF RegistryOk, OwnerOk
    <3> QED
      BY <3>1, <3>2, <3>3
  <2>7. ASSUME k \notin behind' \cup crossed' PROVE RegistryOk(k)' /\ (OwnerOk(k)' \/ OwnerDue(k)')
    <3>1. ~Live(rows[k]) /\ (tasks[t].forget => rows[k] = None) /\ k \notin crossed
      BY <2>5, <2>7
    <3>2. RegistryOk(k)'
      BY <1>0, <2>0, <2>1, <2>5, <3>1 DEF RegistryOk, Live
    <3>3. CASE tasks[t].forget
      BY <2>0, <2>1, <2>5, <3>1, <3>2, <3>3 DEF OwnerOk
    <3>4. CASE ~tasks[t].forget
      <4>1. OwnerOk(k) \/ OwnerDue(k)
        BY <1>0, <2>0, <2>1, <2>4, <2>7, <3>1 DEF Installed
      <4>2. OwnerOk(k) => OwnerOk(k)'
        BY <2>0, <2>1, <2>5, <3>4 DEF OwnerOk
      <4>3. OwnerDue(k) => OwnerDue(k)'
        BY <2>0, <2>1, <3>4 DEF OwnerDue, Mends, Only
      <4> QED
        BY <3>2, <4>1, <4>2, <4>3
    <3> QED
      BY <3>2, <3>3, <3>4
  <2>8. Installed'
    BY <2>6, <2>7 DEF Installed
  <2> QED
    BY <2>3, <2>8
<1>11. ASSUME NEW t \in Tasks, ReadByok(t) PROVE InHand' /\ Installed'
  <2>0. PICK k \in Byok : k = tasks[t].key
    BY <1>0, <1>11 DEF ReadByok, Place
  <2> DEFINE p == [ph |-> "building", key |-> k, ver |-> rows[k].ver, n |-> tasks[t].n]
  <2>1. tasks[t].ph = "upsert" /\ editing = None /\ UNCHANGED <<rows, behind>>
    BY <1>11 DEF ReadByok
  <2>2. IF Live(rows[k]) THEN Go(t, p) /\ UNCHANGED <<registry, errors, crossed>>
        ELSE Go(t, Idle) /\ registry' = [registry EXCEPT ![k] = None] /\ crossed' = crossed \ {k}
             /\ (errors' = errors \/ errors' = errors \ {k})
    BY <1>11, <2>0 DEF ReadByok, Drop
  <2>3. Only(t) /\ tasks'[t] = (IF Live(rows[k]) THEN p ELSE [ph |-> "idle"])
    BY <1>0, <2>2, Goes DEF Idle
  <2>4. owners' = IF rows[k] = None THEN owners \ {k} ELSE owners \cup {k}
    BY <1>11, <2>0 DEF ReadByok
  <2>5. \A u \in Tasks : tasks[u].ph \notin {"loading", "building"} /\ (u # t => tasks'[u] = tasks[u])
    BY <1>0, <2>0, <2>1, <2>3 DEF OneEditor, Locking, Only
  <2>6. OwnerOk(k)'
    BY <2>0, <2>1, <2>4 DEF OwnerOk
  <2>7. InHand'
    <3>1. tasks'[t].ph # "loading"
      BY <2>3
    <3>2. tasks'[t].ph = "building" => tasks'[t].key = k /\ tasks'[t].ver = rows[k].ver /\ Live(rows[k])
      BY <2>3
    <3> QED
      BY <2>0, <2>1, <2>5, <2>6, <3>1, <3>2 DEF InHand
  <2>8. ~Loading /\ \A q : ~Doing(q)
    BY <2>5 DEF Loading, Doing
  <2>9. ASSUME NEW q \in Keys \ (behind' \cup crossed'), q # k
        PROVE  (RegistryOk(q)' \/ RegistryDue(q)') /\ (OwnerOk(q)' \/ OwnerDue(q)')
    <3>1. (RegistryOk(q) \/ RegistryDue(q)) /\ (OwnerOk(q) \/ OwnerDue(q))
      BY <1>0, <2>0, <2>1, <2>2, <2>8, <2>9 DEF Installed
    <3>2. (RegistryDue(q) => RegistryDue(q)') /\ (OwnerDue(q) => OwnerDue(q)')
      BY <2>0, <2>1, <2>3, <2>9, DueStays DEF Mends
    <3>3. (RegistryOk(q) => RegistryOk(q)') /\ (OwnerOk(q) => OwnerOk(q)')
      BY <1>0, <2>0, <2>1, <2>2, <2>4, <2>9 DEF RegistryOk, OwnerOk
    <3> QED
      BY <3>1, <3>2, <3>3
  <2>10. Doing(k)' \/ RegistryOk(k)'
    <3>1. CASE Live(rows[k])
      BY <2>3, <3>1 DEF Doing
    <3>2. CASE ~Live(rows[k])
      BY <1>0, <2>0, <2>1, <2>2, <3>2 DEF RegistryOk, Live
    <3> QED
      BY <3>1, <3>2
  <2>11. Installed'
    BY <2>6, <2>9, <2>10 DEF Installed
  <2> QED
    BY <2>7, <2>11
<1>12. ASSUME NEW t \in Tasks, ReadByokFails(t) PROVE InHand' /\ Installed'
  <2>0. PICK k : k = tasks[t].key
    OBVIOUS
  <2>1. Only(t) /\ tasks'[t].ph = "idle" /\ tasks[t].ph = "upsert"
        /\ UNCHANGED <<rows, registry, owners, errors, crossed>> /\ behind' = behind \cup {k}
    BY <1>0, <1>12, <2>0, Goes DEF ReadByokFails, Idle
  <2>2. \A q : q # k => /\ RegistryDue(q) => RegistryDue(q)'
                        /\ OwnerDue(q) => OwnerDue(q)'
    BY <2>0, <2>1, DueStays DEF Mends
  <2>3. \A q : /\ Doing(q)' <=> Doing(q)
               /\ RegistryOk(q)' <=> RegistryOk(q)
               /\ OwnerOk(q)' <=> OwnerOk(q)
    BY <2>1 DEF Doing, RegistryOk, OwnerOk, Only
  <2>4. Loading' <=> Loading
    BY <2>1 DEF Loading, Only
  <2>5. InHand'
    <3>1. \A u \in Tasks : tasks'[u].ph \in {"loading", "building"} => tasks'[u] = tasks[u]
      BY <2>1 DEF Only
    <3> QED
      BY <1>0, <2>1, <2>2, <2>3, <3>1 DEF InHand
  <2>6. Installed'
    BY <1>0, <2>1, <2>2, <2>3, <2>4 DEF Installed
  <2> QED
    BY <2>5, <2>6
<1>13. ASSUME NEW t \in Tasks, SwapByok(t) PROVE InHand' /\ Installed'
  <2>0. PICK k \in Byok : k = tasks[t].key
    BY <1>0, <1>13 DEF SwapByok, Place
  <2> DEFINE new == [key |-> k, ver |-> tasks[t].ver, n |-> tasks[t].n]
  <2>1. /\ tasks[t].ph = "building" /\ UNCHANGED <<rows, owners, behind>> /\ crossed' = crossed \ {k}
        /\ registry' = [registry EXCEPT ![k] = new] /\ errors' = errors \ {k}
    BY <1>13, <2>0 DEF SwapByok
  <2>2. Only(t) /\ tasks'[t].ph = "sync"
    BY <1>0, <1>13, Goes DEF SwapByok
  <2>3. \A u \in Tasks : tasks'[u].ph \notin {"loading", "building"} /\ (u # t => tasks[u].ph \notin {"loading", "building"})
    BY <1>0, <2>0, <2>1, <2>2 DEF OneEditor, Locking, Only
  <2>4. InHand'
    BY <2>3 DEF InHand
  <2>5. ~Loading /\ \A q : q # k => ~Doing(q)
    BY <2>0, <2>1, <2>3 DEF Loading, Doing
  <2>6. \A q : /\ RegistryDue(q) => RegistryDue(q)'
               /\ OwnerDue(q) => OwnerDue(q)'
    BY <2>0, <2>1, <2>2, DueStays DEF Mends
  <2>7. \A q \in Keys : OwnerOk(q) => OwnerOk(q)'
    BY <2>0, <2>1 DEF OwnerOk
  <2>8. \A q \in Keys : q # k => (RegistryOk(q) => RegistryOk(q)')
    BY <1>0, <2>0, <2>1 DEF RegistryOk
  <2>9. k \notin behind => /\ (Live(rows[k]) /\ rows[k].ver = tasks[t].ver) \/ RegistryDue(k)
                           /\ OwnerOk(k) \/ OwnerDue(k)
    BY <1>0, <2>0, <2>1 DEF InHand
  <2>10. new # None /\ registry'[k] = new
    <3>1. tasks[t].n \in 1..made /\ made \in 0..MaxEdits /\ MaxEdits \in Nat /\ tasks[t].ver \in 0..MaxEdits
      BY <1>0, <2>0, <2>1 DEF Place, Counted, ProviderInv, Tables, Parameters
    <3>2. new \in [key : Keys, ver : 0..MaxEdits, n : 0..MaxEdits]
      BY <1>0, <2>0, <2>1, <3>1
    <3> QED
      BY <1>0, <2>0, <2>1, <3>2 DEF Parameters
  <2>11. Live(rows[k]) /\ rows[k].ver = tasks[t].ver => RegistryOk(k)'
    BY <2>0, <2>1, <2>10 DEF RegistryOk, Live
  <2>12. Installed'
    <3>1. ASSUME NEW q \in Keys \ (behind' \cup crossed'), q # k
          PROVE  (RegistryOk(q)' \/ RegistryDue(q)') /\ (OwnerOk(q)' \/ OwnerDue(q)')
      BY <1>0, <2>0, <2>1, <2>5, <2>6, <2>7, <2>8, <3>1 DEF Installed
    <3>2. k \notin behind' => (RegistryOk(k)' \/ RegistryDue(k)') /\ (OwnerOk(k)' \/ OwnerDue(k)')
      BY <1>0, <2>0, <2>1, <2>6, <2>7, <2>9, <2>11
    <3> QED
      BY <3>1, <3>2 DEF Installed
  <2> QED
    BY <2>4, <2>12
<1>14. ASSUME NEW t \in Tasks, BuildFails(t) PROVE InHand' /\ Installed'
  <2>0. PICK k \in Byok : k = tasks[t].key
    BY <1>0, <1>14 DEF BuildFails, Place
  <2>1. /\ tasks[t].ph = "building" /\ UNCHANGED <<rows, owners, behind>> /\ crossed' = crossed \ {k}
        /\ registry' = [registry EXCEPT ![k] = None] /\ errors' = errors \cup {k}
    BY <1>14, <2>0 DEF BuildFails
  <2>2. Only(t) /\ tasks'[t].ph = "idle"
    BY <1>0, <1>14, Goes DEF BuildFails, Idle
  <2>3. \A u \in Tasks : tasks'[u].ph \notin {"loading", "building"} /\ (u # t => tasks[u].ph \notin {"loading", "building"})
    BY <1>0, <2>0, <2>1, <2>2 DEF OneEditor, Locking, Only
  <2>4. InHand'
    BY <2>3 DEF InHand
  <2>5. ~Loading /\ \A q : q # k => ~Doing(q)
    BY <2>0, <2>1, <2>3 DEF Loading, Doing
  <2>6. \A q : /\ RegistryDue(q) => RegistryDue(q)'
               /\ OwnerDue(q) => OwnerDue(q)'
    BY <2>0, <2>1, <2>2, DueStays DEF Mends
  <2>7. \A q \in Keys : OwnerOk(q) => OwnerOk(q)'
    BY <2>0, <2>1 DEF OwnerOk
  <2>8. \A q \in Keys : q # k => (RegistryOk(q) => RegistryOk(q)')
    BY <1>0, <2>0, <2>1 DEF RegistryOk
  <2>9. k \notin behind => OwnerOk(k) \/ OwnerDue(k)
    BY <1>0, <2>0, <2>1 DEF InHand
  <2>10. RegistryOk(k)'
    BY <1>0, <2>0, <2>1 DEF RegistryOk
  <2>11. Installed'
    <3>1. ASSUME NEW q \in Keys \ (behind' \cup crossed'), q # k
          PROVE  (RegistryOk(q)' \/ RegistryDue(q)') /\ (OwnerOk(q)' \/ OwnerDue(q)')
      BY <1>0, <2>0, <2>1, <2>5, <2>6, <2>7, <2>8, <3>1 DEF Installed
    <3>2. k \notin behind' => RegistryOk(k)' /\ (OwnerOk(k)' \/ OwnerDue(k)')
      BY <1>0, <2>0, <2>1, <2>6, <2>7, <2>9, <2>10
    <3> QED
      BY <3>1, <3>2 DEF Installed
  <2> QED
    BY <2>4, <2>11
<1> QED
  BY <1>1, <1>3, <1>4, <1>5, <1>6, <1>7, <1>8, <1>9, <1>10, <1>11, <1>12, <1>13, <1>14, FetchMoves
  DEF Next, Continue, Syncs, Fetches, Beside, Close, vars

-----------------------------------------------------------------------------
LEMMA ProviderInit == ASSUME Parameters, Init PROVE ProviderInv
<1> USE DEF Init
<1>0. /\ MaxEdits \in Nat /\ MaxClock \in Nat /\ Byok \subseteq Keys /\ None \notin Tasks
      /\ None \notin Row /\ None \notin Switch /\ None \notin Instance
      /\ \A k \in Keys : First(k) \in Instance /\ First(k) # None /\ First(k).key = k /\ First(k).ver = 0 /\ First(k).n = 0
  BY DEF Parameters, Keys, Instance, First, Row, Switch
<1>1. \A t \in Tasks : tasks[t] = [ph |-> "idle"] /\ tasks[t].ph = "idle"
  BY DEF Idle
<1>2. Places
  <2>1. \A t \in Tasks : Place(tasks[t])
    BY <1>1 DEF Place, Counted, Locking, Waiting
  <2>2. \A k \in Keys : FetchPlace(fetches[k])
    BY DEF FetchPlace, Idle
  <2> QED
    BY <2>1, <2>2 DEF Places
<1>3. \A k \in Keys : rows[k] = None \/ rows[k] = [live |-> TRUE, ver |-> 0]
  OBVIOUS
<1>4. Tables
  <2>1. [live |-> TRUE, ver |-> 0] \in Row /\ [on |-> TRUE] \in Switch
    BY <1>0 DEF Row, Switch
  <2>2. rows \in [Keys -> Row \cup {None}]
    BY <2>1
  <2>3. models \in [Keys -> Switch \cup {None}]
    BY <2>1
  <2>4. \A k \in Keys : models[k] # None => rows[k] # None
    OBVIOUS
  <2> QED
    BY <1>0, <2>2, <2>3, <2>4 DEF Tables
<1>5. Cached
  BY <1>0 DEF Cached
<1>6. OneEditor
  BY <1>0, <1>1 DEF OneEditor, Locking
<1>7. Clients
  <2>1. registry \in [Keys -> Instance \cup {None}] /\ open \subseteq Instance
    BY <1>0
  <2>2. \A k \in Keys : registry[k] # None => registry[k] = First(k) /\ registry[k] \in open
    BY <1>0
  <2>3. \A i \in open : i \in Routed
    BY <1>0 DEF Routed
  <2> QED
    BY <1>0, <1>1, <2>1, <2>2, <2>3 DEF Clients, Old
<1>8. Fresh
  <2>1. \A i \in open \cup closing : i.n = 0
    BY <1>0
  <2> QED
    BY <1>1, <2>1 DEF Fresh, Old, Counted
<1>9. Owned
  BY <1>0, <1>1 DEF Owned
<1>10. InHand
  BY <1>1 DEF InHand
<1>11. Installed
  <2>1. \A k \in Keys : RegistryOk(k)
    BY <1>0, <1>3 DEF RegistryOk, Live
  <2>2. \A k \in Keys : OwnerOk(k)
    BY <1>0 DEF OwnerOk
  <2> QED
    BY <2>1, <2>2 DEF Installed
<1> QED
  BY <1>2, <1>4, <1>5, <1>6, <1>7, <1>8, <1>9, <1>10, <1>11 DEF ProviderInv

LEMMA ProviderStep == ASSUME Parameters, ProviderInv, [Next]_vars PROVE ProviderInv'
  BY PlacesStep, TablesStep, CachedStep, OneEditorStep, ClientsStep, FreshStep, OwnedStep, InstalledStep DEF ProviderInv

\* At rest nothing is due: the registry is the table, and the clients are accounted for.
LEMMA ProviderInvGives == ASSUME ProviderInv PROVE TypeOK /\ RegistryIsCurrent /\ ClientsAccounted
<1> USE DEF ProviderInv
<1>1. TypeOK
  BY DEF TypeOK, Tables, Cached, OneEditor, Clients, Owned, Row, Switch, ListedBy
<1>2. ASSUME \A t \in Tasks : tasks[t] = Idle, NEW k \in Keys \ (behind \cup crossed)
      PROVE  RegistryOk(k) /\ OwnerOk(k)
  <2>1. \A t \in Tasks : tasks[t].ph = "idle"
    BY <1>2 DEF Idle
  <2>2. ~RegistryDue(k) /\ ~OwnerDue(k) /\ ~Doing(k) /\ ~Loading
    BY <2>1 DEF RegistryDue, OwnerDue, Mends, Doing, Loading
  <2> QED
    BY <1>2, <2>2 DEF Installed
<1>3. RegistryIsCurrent
  BY <1>2 DEF RegistryIsCurrent, RegistryOk, OwnerOk, Owned
<1>4. ClientsAccounted
  <2>1. Routed \subseteq open \ closing
    BY DEF Routed, Clients
  <2>2. ASSUME NEW i \in open, i \notin Routed, i \notin closing
        PROVE  i \in UNION {tasks[t].old : t \in {q \in Tasks : tasks[q].ph \in {"loading", "swapped"}}}
    BY <2>2 DEF Clients, Old
  <2> QED
    BY <2>1, <2>2 DEF ClientsAccounted
<1> QED
  BY <1>1, <1>3, <1>4

-----------------------------------------------------------------------------
LEMMA OrderStep == ASSUME Parameters, ProviderInv, [Next]_vars PROVE SliceOrderKept
<1> SUFFICES ASSUME NEW k \in Keys, slices[k] # None, slices'[k] # None, slices'[k].by < slices[k].by, status[k] # 0
             PROVE  \E t \in Tasks : tasks[t].ph \in {"record", "gathering"} /\ tasks'[t] = Idle /\ k \in Global
  BY DEF SliceOrderKept
<1> USE DEF table, clients, history
<1>0. /\ Places /\ MaxClock \in Nat /\ None \notin ListedBy /\ \A u \in Tasks : Place(tasks[u])
      /\ status[k] \in 0..MaxClock /\ slices[k] \in ListedBy /\ slices[k].by \in 1..MaxClock /\ slices[k].by <= status[k]
      /\ slices \in [Keys -> ListedBy \cup {None}]
  <2>1. slices[k] \in ListedBy
    BY DEF ProviderInv, Cached
  <2> QED
    BY <2>1 DEF ProviderInv, Cached, Places, Parameters, ListedBy
<1>1. slices'[k] # slices[k]
  BY <1>0
<1>2. ASSUME NEW q \in Keys, slices' = [slices EXCEPT ![q] = None] PROVE FALSE
  BY <1>0, <1>1, <1>2
<1>3. ASSUME NEW q \in Keys, NEW start \in 1..MaxClock, NEW res, slices' = [slices EXCEPT ![q] = Slice(start, res)]
      PROVE  q = k /\ start < status[k]
  <2>1. q = k
    BY <1>0, <1>1, <1>3
  <2>2. slices'[k] = [by |-> start, listed |-> (res = "ok")]
    BY <1>0, <1>3, <2>1 DEF Slice
  <2> QED
    BY <1>0, <2>1, <2>2
<1>4. ASSUME NEW t \in Tasks, RecordSync(t)
      PROVE  tasks[t].ph \in {"record", "gathering"} /\ tasks'[t] = Idle /\ k \in Global
  <2>1. tasks[t].ph = "record" /\ tasks[t].key \in Keys /\ tasks[t].start \in 1..MaxClock
    BY <1>0, <1>4 DEF RecordSync, Place, Waiting
  <2>2. tasks'[t] = Idle
    BY <1>0, <1>4, Goes DEF RecordSync
  <2>3. slices' = [slices EXCEPT ![tasks[t].key] = Slice(tasks[t].start, tasks[t].res)]
        /\ (tasks[t].key \in Global \/ ~Superseded(tasks[t].key, tasks[t].start))
    BY <1>1, <1>4 DEF RecordSync
  <2>4. tasks[t].key = k /\ tasks[t].start < status[k]
    BY <1>3, <2>1, <2>3
  <2> QED
    BY <1>0, <2>1, <2>2, <2>3, <2>4 DEF Superseded
<1>5. ASSUME NEW t \in Tasks, StoreGathered(t)
      PROVE  tasks[t].ph \in {"record", "gathering"} /\ tasks'[t] = Idle /\ k \in Global
  <2>1. tasks[t].ph = "gathering" /\ tasks'[t] = Idle
    BY <1>0, <1>5, Goes DEF StoreGathered
  <2>2. k \in Byok => slices'[k] = slices[k]
    BY <1>5 DEF StoreGathered
  <2> QED
    BY <1>1, <2>1, <2>2 DEF Keys
<1>6. ASSUME NEW q \in Keys, NEW res \in Listings, EndFetch(q, res) PROVE FALSE
  <2>1. fetches[q].start \in 1..MaxClock
    BY <1>0, <1>6 DEF EndFetch, Places, FetchPlace
  <2>2. ~Superseded(q, fetches[q].start) /\ slices' = [slices EXCEPT ![q] = Slice(fetches[q].start, res)]
    BY <1>1, <1>6 DEF EndFetch
  <2>3. q = k /\ fetches[q].start < status[k]
    BY <1>3, <2>1, <2>2
  <2> QED
    BY <1>0, <2>1, <2>2, <2>3 DEF Superseded
<1>7. ASSUME NEW t \in Tasks, Remove(t) \/ DropByok(t) \/ ReadByok(t) \/ BuildFails(t) PROVE FALSE
  <2>1. tasks[t].key \in Keys
    BY <1>0, <1>7 DEF Remove, DropByok, ReadByok, BuildFails, Place, Keys
  <2>2. slices' = [slices EXCEPT ![tasks[t].key] = None]
    BY <1>1, <1>7 DEF Remove, DropByok, ReadByok, BuildFails, Drop
  <2> QED
    BY <1>2, <2>1, <2>2
<1>8. ASSUME NEW t \in Tasks, Edit(t) PROVE FALSE
  BY <1>1, <1>8, EditMoves DEF Edited
<1> QED
  BY <1>1, <1>4, <1>5, <1>6, <1>7, <1>8
  DEF Next, Continue, vars, LoadRows, LoadFails, SwapRegistry, CloseOld, ReadByokFails, SwapByok, ReadStates, StoreListing, Gather,
      ToggleModel, BeginFetch, StoreFetch, Close

LEMMA TogglesStep == ASSUME Parameters, ProviderInv, [Next]_vars PROVE TogglesKept
<1> SUFFICES ASSUME NEW k \in Keys, models[k] # None, models'[k] # models[k]
             PROVE  IF models'[k] # None THEN made' # made \/ k \in overtaken'
                    ELSE \/ rows'[k] = None
                         \/ fetches[k].ph = "store"
                         \/ \E t \in Tasks : tasks[t].ph = "asking" /\ tasks[t].key = k
                                /\ tasks'[t].ph = "record" /\ tasks'[t].res \in {"other", "empty"}
  BY DEF TogglesKept
<1> USE DEF table, clients, history
<1>0. /\ Places /\ \A u \in Tasks : Place(tasks[u])
      /\ None \notin Switch /\ models \in [Keys -> Switch \cup {None}] /\ [on |-> TRUE] \in Switch
      /\ made \in Nat
  BY DEF ProviderInv, Tables, Places, Parameters, Switch
<1>1. ASSUME NEW t \in Tasks, Edit(t) PROVE rows'[k] = None /\ models'[k] = None
  BY <1>1, EditMoves DEF Edited
<1>2. ASSUME NEW q \in Keys, ToggleModel(q) PROVE made' # made /\ models'[k] # None
  <2>1. made' # made /\ models[q] \in Switch
    BY <1>0, <1>2 DEF ToggleModel
  <2>2. [models[q] EXCEPT !.on = ~@] \in Switch
    BY <2>1 DEF Switch
  <2>3. models' = [models EXCEPT ![q] = [models[q] EXCEPT !.on = ~@]]
    BY <1>2 DEF ToggleModel
  <2> QED
    BY <1>0, <2>1, <2>2, <2>3
<1>3. ASSUME NEW t \in Tasks, NEW res \in Listings, StoreListing(t, res)
      PROVE  IF models'[k] # None THEN k \in overtaken'
             ELSE tasks[t].ph = "asking" /\ tasks[t].key = k /\ tasks'[t].ph = "record" /\ tasks'[t].res \in {"other", "empty"}
  <2> DEFINE q == tasks[t].key
             m == CASE res # "ok" -> None [] res = "ok" /\ tasks[t].states = None -> [on |-> TRUE] [] OTHER -> tasks[t].states
  <2>1. /\ res # "fail" /\ rows[q] # None /\ models' = [models EXCEPT ![q] = m]
        /\ overtaken' = IF tasks[t].states # models[q] THEN {q} ELSE {}
    BY <1>3 DEF StoreListing
  <2>2. q = k /\ models'[k] = m
    BY <1>0, <2>1
  <2>3. tasks'[t] = [ph |-> "record", key |-> q, start |-> tasks[t].start, res |-> IF rows[q] = None THEN "fail" ELSE res]
        /\ tasks[t].ph = "asking"
    BY <1>0, <1>3, Goes DEF StoreListing
  <2>4. CASE res = "ok"
    <3>1. m = (IF tasks[t].states = None THEN [on |-> TRUE] ELSE tasks[t].states)
      BY <2>4
    <3>2. m # None
      BY <1>0, <3>1
    <3> QED
      BY <2>1, <2>2, <3>1, <3>2
  <2>5. CASE res # "ok"
    BY <2>1, <2>2, <2>3, <2>5 DEF Listings
  <2> QED
    BY <2>4, <2>5
<1>4. ASSUME NEW t \in Tasks, StoreGathered(t) PROVE FALSE
  BY <1>4 DEF StoreGathered
<1>5. ASSUME NEW q \in Keys, StoreFetch(q) PROVE fetches[k].ph = "store" /\ models'[k] = None
  <2>1. /\ fetches[q].ph = "store"
        /\ models' = [models EXCEPT ![q] = IF rows[q] = None \/ fetches[q].res # "ok" THEN None
                                           ELSE IF models[q] = None THEN [on |-> TRUE] ELSE models[q]]
    BY <1>5 DEF StoreFetch
  <2> QED
    BY <1>0, <2>1
<1>6. ASSUME models' = models PROVE FALSE
  BY <1>6
<1> QED
  BY <1>1, <1>2, <1>3, <1>4, <1>5, <1>6
  DEF Next, Continue, vars, Remove, LoadRows, LoadFails, SwapRegistry, CloseOld, DropByok, ReadByok, ReadByokFails, SwapByok,
      BuildFails, ReadStates, RecordSync, Gather, BeginFetch, EndFetch, Close

-----------------------------------------------------------------------------
LEMMA AlwaysProviderInv == ASSUME Parameters PROVE Spec => []ProviderInv
<1>1. Init => ProviderInv
  BY ProviderInit
<1>2. ProviderInv /\ [Next]_vars => ProviderInv'
  BY ProviderStep
<1> QED
  BY <1>1, <1>2, PTL DEF Spec

\* Whatever edits, refreshes and syncs overlap, once they are done the registry is what the
\* table says, but for rows that could not be read and drops that a later edit had undone; a
\* user's provider that is on and not routed has its build's error on record, and none is
\* routed without its owner; no client is leaked, and none in use
\* is closed (provider_manager.py: refresh_providers_from_database).
THEOREM RegistryStaysCurrent ==
  ASSUME Parameters
  PROVE  Spec => []TypeOK /\ []RegistryIsCurrent /\ []ClientsAccounted
<1>1. ProviderInv => TypeOK /\ RegistryIsCurrent /\ ClientsAccounted
  BY ProviderInvGives
<1> QED
  BY <1>1, AlwaysProviderInv, PTL

\* However late a fetch ends, it replaces no later one's list, but where a save's sync, an
\* administrator's or an unloading (status 0) lets it; and no sync changes a switch but one
\* that was turned while that sync was asking (provider_manager.py: _sync_superseded;
\* auto_sync.py: sync_provider_models).
THEOREM NewerIsKept == ASSUME Parameters PROVE Spec => SlicesNeverGoBack /\ TogglesSurvive
<1>1. ProviderInv /\ [Next]_vars => [SliceOrderKept]_vars /\ [TogglesKept]_vars
  BY OrderStep, TogglesStep
<1> QED
  BY <1>1, AlwaysProviderInv, PTL DEF Spec, SlicesNeverGoBack, TogglesSurvive
=============================================================================
