# Verification of llm-proxy-server

TLA+ modules, TLC runs and TLAPS proofs of the parts of the proxy whose correctness depends on the
order in which things happen. Sources are named relative to `src/` (`app/...`); `PROJECT.json` lists the
runs, the source lines behind every definition, the hazards, the findings and the theorems.

    tlc -workers 2 -config MCUsage.cfg MCUsage                  # one run
    tlapm UsageTrackerProofs.tla                                # one proof module

Contents: 1 the system, 2 the modules, 3 the runs, 4 fairness, 5 the proofs, 6 what the code does
differently from what it says, 7 what is not modelled, 8 the plan.

## 1. The system

One asyncio process and one SQLite database (through aiosqlite, whose thread completes a statement it was
given even if the awaiting task is cancelled); nothing else writes that database. A request passes

    concurrency_slots -> auth/middleware -> model_resolution, model_access_dep, outages
      -> rate_limit_dep -> rate_limit (user lock -> RPD cache -> request_tracker -> database)
      -> providers/* -> routes/* and conversion/* (response or stream)
      -> request_tracker (buffer) -> flush loop -> usage tables

Beside it run the usage flush loop, the rate limiter's refresh loop (30 s), the auth cache's refresh, the
provider sync, and the requests of admins and users that change limits, groups, pools and accounts.
A coroutine is interrupted only where it awaits. What is hard is therefore always one of: state read
before an await and used after it; a task cancelled at an await (client gone, shutdown); a commit that
happened and an in-memory step that did not yet; a lock swept or left while somebody waits for it.

| Component (source) | State | Operations | Talks to | What makes it correct |
|---|---|---|---|---|
| usage accounting (`request_tracker.py`) | `_active`, `_usage_buffer`, the usage tables | start, update, end of a request; flush; rename, purge, forget | database; rate limiter (today's counts, pool of a user); admin routes (pause_flush) | each counted request is in the buffer or the tables exactly once; deleted usage stays gone; labels follow renames |
| usage tables and reports (`auth/database.py`, `usage_report.py`) | hourly, daily and monthly rows | upsert, prune, roll up, query a window, daily report | the flush; dashboards | the tables add up to what was written, and an answer to what it read |
| keyed locks (`rate_limit.py`, `concurrency.py`) | dictionaries of locks, their queues | acquire, re-enter, release, cancel, sweep | everything that takes a user's or a pool's lock | one task per key, although the dictionary is swept; no lost wake-up; order |
| concurrency slots (`concurrency_slots.py`) | in-flight counter per user, holder per call | take, keep, release | middleware, rate_limit_dep | the counter is the number of calls holding a slot, however calls end |
| RPD cache (`rate_limit.py`, `request_tracker.py`) | TTL cache, single-flight table | read, refill, fail, expire, invalidate | tracker's buffer and tables | one load per key; no count below what was used; a purged count leaves in time; failures not retried by the queue |
| limit configuration (`rate_limit.py`, `profiles.py`, `routes/admin.py`) | database rows, snapshot, profile registry | edit, patch, invalidate, reload, refresh | every check | once an edit is answered requests see it; no older load overwrites it |
| request limits (`rate_limit.py`, `rate_limit_dep.py`) | minute buckets, day counts | check and increment, sweep, invalidate | locks, RPD cache, configuration, slots | minute limits hold exactly; day refusals are due |
| pool membership (`routes/pools.py`, `routes/admin.py`) | pools, members, owners, invitations, caps | create, invite, accept, leave, remove, dissolve, delete user, set cap | pool guards, flush mutex, SQLite's write lock, settlement | owner is a member; members settled are the members; caps hold; no deadlock |
| pool settlement (`auth/pools.py`) | ledger of charges, carries | apportion, settle, carry, dissolve | membership, limits, usage tables | charges are what was used, shares are fair, nobody pays for the time before they came, no move creates quota |
| authentication (`auth/middleware.py`, `auth/cache.py`, `auth/auth.py`) | TTL caches of users and keys, pending last_used | look up, invalidate, refresh, sync | tracker (identity), database | what is outdated in a cache is there by a race only, and leaves it |
| sign-up and sign-in (`routes/auth.py`, `auth/zoho_oauth.py`, `auth/purpose_tokens.py`) | accounts, identities, cookies | sign up, call back, confirm a link, withdraw, delete | database | an identity signs into the account that created or confirmed it |
| resolution and access (`model_resolution.py`, `model_alias.py`, `model_access_dep.py`, `outages.py`, `byok.py`) | alias, access and outage tables | map, resolve, authorise | provider registry, limit configuration | the layers agree on the client's own name; access is checked on what is called |
| providers (`providers/provider_manager.py`, `auto_sync.py`) | registry, clients, model lists | edit, refresh, sync, close | upstreams, model cache | registry is the table, or the error why not is on record; no older list overwrites a newer; no client leaks or closes under a call |
| streams and conversion (`routes/stream_utils.py`, `conversion/*`) | the state of one stream | convert chunk to events, end, fail, time out | tracker, slots, upstream | one well-formed message, nothing lost or mixed; every stream ends, recorded as the client was told |
| web search loop (`websearch/loop.py`) | rounds, buffered events, turns remembered for the client's next one | search, continue, hand over, give up, remember, forget | providers | bounded rounds; every call answered; the client sees its own calls |
| the rest of the database, CRUD, adapters, front end, start-up, tracing | - | - | - | see section 7 |

The hazards are in `PROJECT.json`, each at its line, with the property that would catch it or the reason
why none does.

## 2. The modules

Every component has a module. Theorems are in `...Proofs` modules, named for what they are about: UsageTracker,
RpdCache, PoolMembership, ProviderSync, KeyedLocks with StreamServe, ConcurrencySlots with SearchLoop and SignIn,
LimitConfig with AuthCache, and `QuotaProofs` for RequestLimits, PoolSettlement and PoolLocks. Where a run checks a
composition, the proof module extends that same MC module, and its theorem speaks of the composition's specification,
`MCSpec`. `ProviderSyncProofs` is about ProviderSync by itself; `ConcurrencySlotsProofs` takes an INSTANCE of it and
carries its theorems over to the composition. What a module takes for granted, another one shows: `RequestLimits` uses
an exclusive lock and a count that is cached or fresh (`KeyedLocks`; `RpdCache`, where it is never too small);
`ConcurrencySlots` awaits a verdict (`RequestLimits`); `PoolMembership` takes a guard (`KeyedLocks`; with what else at
the same time: `PoolLocks`); `RpdCache` reads buffer and tables that a flush moves between (`UsageTracker`);
`PoolSettlement` settles members that stand still (`PoolMembership`) after a flush that succeeded (`UsageTracker`);
`UsageTables` takes over what a flush has snapshot (`UsageTracker`); `SearchLoop` and `StreamServe` hand on what the
converters write (`ChatStream`, `ResponsesStream`).

**UsageTracker** - `request_tracker.py` with the purge, rename and deletion endpoints that pause it.
`reqs` is `_active`, `buffer` is `_usage_buffer`, `rows`/`rowLabel` the usage tables. `_lock` and
`_usage_lock` are never held over an await, so a section under them is one action. `_flush_mutex` is: the
section inside it is the variable `op`, whose phases are its awaits (`FlushSnapshot`, `FlushWrite` or
`FlushFail`, `FlushSubtract`; `RenameCommit`; `PurgeCommit` and `DropBufferedUsage`; `DeleteCommit` and
`ForgetUser`). `Authenticate` reads the identity and `UpdateIdentity` reports it: between the two the
account may be renamed or deleted. `Crash` loses the memory and keeps the tables. History: `recorded` is
what the tables owe; `late`/`tainted` mark the requests whose identity was read before a deletion or
rename and reported after it, and the users they were counted for.

**KeyedLocks** - `_user_locks`, `_pool_locks`, `TaskReentrantLock`, and asyncio.Lock at the level of its
queue of futures: releasing marks the head woken, and the lock is free until that task runs. `Evict` is
the sweep of `_evict_stale_buckets`; lock objects that nothing refers to are reused, so two objects of one
key can exist if the sweep is wrong.

**ConcurrencySlots** - the slot holder of `concurrency_slots.py` and the counter of `rate_limit.py`. The
charge is suspended in phase `charging`; `Close` is every way a call can end, also during the charge.

**RpdCache** - `_read_rpd_cached` (`Arrive`, `EnterAndServe`, `EnterAndLoad`, `Store`, `LoadRaises`, `Cancel`) over
`get_today_count` (`ReadRows`; the buffer is read first, then the tables) while a flush commits and subtracts, and a
purge commits (`PurgeCommit`), drops the buffer and invalidates (`Invalidate`), with awaits in between. Time is
counted in ticks, of which an entry has `left` before it expires. An entry carries, as history, what the scope had
really used when its load began (`floor`). `Failing` says what a load does when the database read fails: "raise" is
what `_read_rpd_cached` is written for, "swallow" is what both loaders of the tracker do.

**LimitConfig** - the endpoints that edit profiles, users and model groups, `_load_config_locked` select
by select, the profile registry, and the refresh loop. A row's content is the number of its commits, so
"older" has a meaning; `missed` records the rows whose last edit no successful load has followed.

**RequestLimits** - `check_and_increment`, `check_group_limit`, `_evict_stale_buckets`, `invalidate_group`. A minute
is the age of a bucket (0, 1, or older), so time is unbounded. `kept` says whether the bucket object that a suspended
check holds is still in the dictionary. A day count is `cached` or read, and one read while a flush commits holds that
flush twice; the history variable `crossed` says which cached counts do. `used` grows in `End`, as `end_request` does
it, not in the check.

**PoolMembership** - every endpoint that changes members, owner, cap or invitations, in the three steps
the code has: read outside any lock (`Read...`), take the pool's guard and read the members (`Enter...`),
write and commit (`Commit...`). SQLite has one write lock, so the writes are one step. `Refused` is any
way out without a change.

**PoolSettlement** - `auth/pools.py` on one scope of one day: `rows`, `carry` and `charged` are the three tables it
reads and writes, keyed by the day, so `Midnight` empties them. `Apportion` is `apportion()`: `Pass` is one round of
its loop (largest remainder, ties to the heavier user, then the lower id), and the recursive function `shares` is the
loop: pinned members are always at their room, so a round is determined by who is left. `Settled` is `settle_pool`
with its two branches and its early `continue`; `Join`, `Leave`, `Dissolve` and `Resettle` are its callers with what
each writes around it, in one transaction under the guard. An edit is committed before it is re-settled, and the
re-settling may fail, so they are two actions. `Use` has no limit: checks let requests through on counts that lag
(RequestLimits). History: `opening` and `since` are what a member came in with and what the pool has used since;
`purged` says rows of today were deleted.

**PoolLocks** - who waits for whom: pool guards, the flush mutex and SQLite's write lock, which a transaction holds
from its first write to its commit. A request is the list of what it takes, writes and drops (`todo`), a step naming
all the pools it is about: guards are taken, and pools settled, one after another in the order of their ids (`First`,
`Others`), and given back without suspending. Where the code learns on the way which pools it needs (`Departs`,
`ResettlePools`) its steps are spliced in there. `strayed` records the tasks that met a pool whose guard they had not
taken.

**UsageTables** - the three usage tables over several days: `FlushUsageRows` writes two of them, `Prune` and
`RollUp` are the maintenance after it, one commit each; a reader flushes (`Ask`), takes its bounds (`Open`),
queries table by table (`QueryTable`) and then the chart (`Answer`, `Post`). A month has two days and a day one
hour in the instance. History: `sent` is everything written; `crossed` says that a commit of the maintenance
fell between two queries of one answer.

**AuthCache** - `auth/cache.py` with its readers (session, API key) await by await, the edits of accounts and
keys in the order commit / invalidate or invalidate / commit that each of them has, and the loop that
writes last_used, re-checks validity and may fail or be stopped. `raced` marks entries stored out of date.

**SignIn** - sign-up, the ZOHO callback, linking and withdrawal: each request reads, awaits, and commits.
An account is an id and its incarnation, as ids are reused. Tokens are what their claims say.

**ModelResolution** with **Catalogues** - one request's name through its three layers (tracking middleware,
authentication, route), each of which maps it by rule lists and resolves it against registry, cache,
access and outages, while the configuration may change between them. A name is the sequence between its '/'.
Registry, owners, lists and configurations are parameters, which Catalogues gives small values.

**ProviderSync** - edits of providers, the refresh of the registry, single BYOK edits, deferred closing of
clients, and three overlapping ways of listing models. A row builds or does not, and one that does may fail all the same
(its host is resolved anew each time); `errors` is `_load_errors`. `ver` and `clock` order what is cached.

**BlockStream** is the abstract specification: what a client of the Messages API may rely on in a stream of
events. **BlockWriter** is the block-writing both converters share; **ChatStream** and **ResponsesStream** are
the converters and their drivers, **SearchLoop** the web search loops of three surfaces with the turns that Responses
stores: a turn is `stored` if the client asked for it, and may be `forgotten` at any time. Each of the three is
shown to implement BlockStream, its log of sent events being the abstract one (`OneMessage`, checked and proved).

**StreamServe** - one tracked streamed answer: middleware, generator, disconnect poll, keepalives, chunk and
overall timeouts, cancellation by the server or by the client's going away. Time is counted in polls.

Conventions: a `\* Mutant:` comment marks an operator that no specification uses; it is the form the
definition after it would have with a plausible bug, and `PROJECT.json` names the property that this bug
violates. Constants bounding a model are `Max...`.

## 3. The runs

At most a dozen runs, so components share one: the MC module declares the variables of all, INSTANCEs each, and a
variable `part`, chosen at first, says which of them a behaviour runs. States add up and do not multiply;
a property is stated for its part.

| Run | Parts and instance | Checks |
|---|---|---|
| `usage` | UsageTracker: 1 user id, 2 names, 1 model, 2 pools, 2 requests, 2 administrative operations; fair. UsageTables: 4 days of 1 hour, 2 to a month, 2 users, 2 requests, 1 failure, 1 answer | Conservation, UsageFollowsAccounts, BufferDrains; UsageAddsUp |
| `usage_shutdown` | 1 request, `ShutdownSpec` | finding: NeverOvercounts |
| `slots` | ConcurrencySlots: 3 calls, 2 users, caps to 2. ChatStream, ResponsesStream: 2 calls, 3 (2) fragments, 2 (1) texts. SearchLoop: 2 rounds, 1 search, 2 blocks. SignIn: 2 ids, 2 subjects, 1 address, 2 requests. ProviderSync: 1 shared and 1 BYOK instance, 2 edits | InflightIsHolders, SlotLastsAsLongAsTheCall; OneMessage (the refinement of BlockStream), NothingLostNothingMixed; TurnsAreWhole; IdentityKeepsItsAccount; RegistryIsCurrent, SyncsKeepWhatIsNewer |
| `locks` | KeyedLocks: 2 keys, 4 tasks, 3 lock objects, nesting 2; fair. StreamServe: budgets 3, 6 and 7 polls, keepalive every 2; fair | MutualExclusion, QueuedGetsIn; ClientsAreTold, StreamEnds |
| `rpd` | 1 key, 3 readers, 2 flights, 1 record, 1 failure or 1 purge, a TTL of 2 ticks; fair | SingleFlight, CompleteReadIsWhole, PurgedCountsForgotten, FailureIsShared, EveryReaderAnswered |
| `rpd_failopen` | the same, failures swallowed | finding: CachedCountIsWhole |
| `config` | LimitConfig: 1 profile, 1 user, 1 group, 2 admins and the loop, 2 edits, 1 failed load; fair. AuthCache: 2 ids, 2 names, 1 key, 1 request, 1 editor, 2 edits. ModelResolution: the catalogues, 1 change | Settled, CatchesUp; AuthCacheIsTrue, RevokedCredentialsGo; AnsweredByClientsName |
| `config_off` | LimitConfig without failures | finding: OffStaysOff |
| `quota` | RequestLimits: 2 pool members, 2 calls, a tier with and one without a day limit, share 30 % or none. PoolSettlement: 3 users with limits 1, 3, 3, edited to 1, 3 or none, 1 pool id, 2 requests, 3 changes. PoolLocks: 2 tasks, 2 users, 2 pools | MinuteLimitKept, DayDenialsAreDue; NeverChargedForThePast, SharesAreFair, ChargesAreUse, QuotaConserved; DeadlockOnlyByStraying, SettledUnderGuard |
| `settle_past` | 3 users with limit 3, 2 requests, 5 changes | finding: ChargedOnlySinceArrival |
| `pools` | 2 users, 1 pool id, 1 invitation, 2 requests, caps 1 and 2; fair | OwnerKept, SettlesAgainstMembers, JoinsFitOverride, EveryRequestEnds |
| `purge_deadlock` | PoolLocks: 2 tasks | finding: NeverDeadlocked |

Why these bounds are enough. The interesting case of each property needs few actors, and it occurs: for
every property of a passing run a bug is named that this very instance catches.
`usage`: keys differ in label and pool, two requests meet one flush, and two operations can follow each other (purge
then deletion, deletion then registration of the same id). The theorems cover any number of users. Four days are a
month that ages past its limit and the one after it; a request in the first month is pruned, rolled up and asked for
by every window. `slots`: more calls than a cap admits, of two users; two calls interleave their fragments, a third
adds nothing to the converter's two-place state (live and deferred); two overlapping sign-ins and one reused id; a
shared and a private instance with overlapping edits and fetches. `locks`: two tasks queue behind a holder and a
newcomer overtakes; three objects let a key have a second lock while its first is in use; the budgets are in the order
of the default settings and no two coincide. `rpd`: one loads, one waits, one arrives late; two flights let a second
one be made for the key. `config`: an admin's load, another admin's load and the loop's can overlap in any order.
`quota`: two calls of one user, or of two members, are suspended at once; at any time one user has a bucket of the
default tier and one cached count holds a flush twice (`OneAtATime`), which bound the states and not the cases, as
users and counts are alike; a day limit of 1 each gives the pool 2, of which 30 % rounds to 0; three members are the
fewest of whom one is pinned while two share a remainder; limits 1 and 3 pin, tie and leave a remainder; a move, a
settlement and another move are what a wrong charge needs. Leaving and rejoining the one pool id is joining another
pool: the ledger row goes and the carry stays. Two tasks and two pools are the shortest circle of guards, mutex and
write lock.
`pools`: two requests at a time are every pair of requests. Where liveness is checked there is no symmetry
reduction (TLC does not allow it), so those instances are the smallest.
`CHECK_DEADLOCK FALSE` stands where a part may really stop: all calls answered, all time used up, or (PoolLocks) the
deadlock that is a finding.

## 4. Fairness

Every `FairSpec` assumes only what the event loop and the database give.
- `usage`: the flush loop comes round (WF on BeginFlush), a task inside the mutex runs on, and the write
  is not refused for ever (SF on FlushWrite, while WF on FlushFail lets it fail any finite number of times in a row).
- `locks`: the loop runs a woken waiter (WF Take) and sections end, nested or not. Nothing is assumed of
  the order: that a queued task always has somebody to wait for is a theorem (NoLostWakeup), and QueuedGetsIn is checked.
- `rpd`: loads end (the database has a timeout) and asyncio.Lock lets each waiter in (SF on
  Entering, justified by QueuedGetsIn).
- `config`: the refresh loop wakes every 30 s and gets the reload lock; a load under way runs to its end.
- `pools`: a request that only waits for SQLite's write lock ends, by that lock's timeout if not otherwise (WF). One
  that settles awaits `pause_flush`, which has no timeout and may wait for ever (`purge_deadlock`), so nothing is
  assumed of it: EveryRequestEnds is about what happens if none does (`Settling`). A guard is handed on in order (SF
  on Enter, justified by QueuedGetsIn).
- `locks`, StreamServe: the generator's own steps and the delivery to the client run on (WF), time passes (SF Tick, as a
  due wait is served before the next tick), and nothing is assumed of the upstream or the client.
- `config`, AuthCache: the loop comes round and, from some time on, its reads succeed (`ReadsSucceed`).
Nothing is assumed of users and admins: no request is ever obliged to be made.

## 5. The proofs

Every theorem holds for all values of the constants, under the assumptions that the modules name (distinct null
values; users, calls, readers or pools finite where they are counted; bounds natural numbers). A part of a composition
states them as its `Parameters`, which the MC module assumes of the values it passes on (`LedgerAssumption`,
`LockParameters`, `AccountsParameters`, `SearchParameters`, `StreamParameters`, `CacheParameters`,
`ResponsesParameters`, `ProviderParameters`, `ResolutionParameters`); TLC evaluates each on every run. Nothing else is
assumed. The scheme is always `Init => IInv`, `IInv /\ [Next]_vars => IInv'` with one lemma per action, and the
property from `IInv`; action properties follow from `IInv` and one step. A composition starts each part in its `Init`
and lets it move by its `Next` or stand still, so `MCSpec` implies the part's own specification (the `...In...`
lemmas) and what is proved of the part holds of what TLC checks.

- **UsageTracker**. *TypeCorrect, SnapshotIsCovered, FlushExact*: a flush subtracts its snapshot from a buffer that
  requests, renames and purges may touch. `IInv` adds to SnapshotCovered which phase the section in the mutex can be
  in (`OpOK`), that a purge before its sweep has left no rows (`SweptRowsGone`) and that an entry with a user has a
  label (`BoundOK`), so `end_request` builds a whole key. FlushExact needs the covering: a subtraction cut off at zero
  would lose counts. *CountedExactlyOnce, TablesNeverOvercount* (Conservation, NeverOvercounts): what is recorded of a
  row is what the tables and the buffer hold of it less what a flush has written and not yet subtracted. A rename
  moves counts between keys of one row, so sums over labels must be kept; `Units` turns them into cardinalities. A
  purge takes rows, so its scope must hold all labels of a row or none (`ScopeOK`). *TablesNeverOvercount* is about
  `Spec`; under `ShutdownSpec` it fails, which is the finding of `usage_shutdown`. *UsageFollows*
  (UsageFollowsAccounts): of an account that is gone nothing is left (`Gone`), and everything of one that exists is
  under its name (`Current`), except what the sweep under way has still to reach. It needs that an identity read and
  not yet reported is current (`SeenCurrent`) or its request marked `late`.
- **KeyedLocks**. *TypeCorrect, Exclusion*: exclusion is not inductive, as two objects may exist for a key.
  `Registered` says that whoever holds or awaits a key does so through the object the dictionary has
  now, which the sweep keeps because it counts the queue (`InUse`); `Owned` and `Queued` tie tasks to objects.
  *NoLostWakeup* (QueuesAreServed): whoever is queued has an owner inside, or a woken head, to wait for, also after
  a cancellation of the woken task. `Roused`: a free lock with a queue has woken it; `Once`: nobody is queued
  twice, so removing a cancelled waiter removes it altogether.
- **StreamServe**, in KeyedLocksProofs: *ToldAndRecorded* (ClientsAreTold). That an error told is an error recorded
  needs that a record still active has no outcome to lose (`Open`) and that the outcome set first stays (`Outcome`); that a
  client is never left in silence, that while the loop looks, a keepalive is not due or has been sent (`Prompt`).
- **ConcurrencySlots** (TypeCorrect, CounterIsExact, CapRespected, SlotKept). `Shape` ties a call's phase
  to its holder; the counter's exactness is cardinality arithmetic over `Holding(u)`.
- **SearchLoop**, in ConcurrencySlotsProofs: *TurnsHold* (TurnsAreWhole). `Bounded` counts the request that may be out
  before its round is counted, and bounds the searches by a product. That no internal call reaches the client is
  about events sent long ago: their ids are told from those of the turn being read by the request they are of
  (`Shown`, `Numbered`). `Handed` says which of its calls the client has, by surface and phase, and that what
  is remembered of a stored turn, until it is forgotten, is the rest; so what its next turn settles is all of them.
- **ChatStream, ResponsesStream, SearchLoop**, in ConcurrencySlotsProofs: *MessagesHold* (OneMessage), the refinement
  of BlockStream, for any upstream, number of calls and order of fragments. `Writing(l, n, k)` says what a log must be
  when n blocks have begun and the one open is of kind k, or none is; a lemma for each kind of event says that
  BlockStream lets it follow such a log, and what it makes of it (`Goes`). Between two events of upstream what a
  converter has open is what the client was sent (`ChatInv`, `RespInv`); that needs that a live call has the open
  block, and that of Responses' calls only the first is ever live (`ChatConv`, `RespConv`). A fragment may name no
  call: then what upstream has mentioned and what the converter remembers of it are tied together (`Sole`, `Covers`),
  so that the call taken is one that exists. One chunk may flush any number of buffered calls and deferred texts:
  these loops are folds, shown turn by turn to write as one event does (`BufferedInTurn`, `DeferredInTurn`). Their
  induction (`Induction`) is derived from the finite sets of turns still to be taken being well-founded. For
  SearchLoop, `LoopInv` ties the next index and the block being passed on (`LoopAt`) to the log, and a round's
  searches are again taken one by one (`SearchesWrite`).
- **RpdCache** (TypeCorrect, OneLoadAtATime, FlightBookkeeping, WholeCounts, PurgesForgotten, FailuresShared). A
  flight is dropped when its count reaches 0; only because the count equals the readers inside is that the last one.
  WholeCounts is the reason for the order of the two reads: what a flush moves between them is counted twice, never
  missed (`Covered`). PurgesForgotten (PurgedCountsForgotten): an entry lives for the TTL counted from when its load
  began, so what a count read before a purge has left, and the time since that purge, are together at most the TTL,
  whenever it is stored (`Dated`, of readers too). FailuresShared: a reader that waited through a failure arrived with
  a lower failure number than its flight now has (`Waited`), so it never reads again.
- **LimitConfig** (TypeCorrect, EditsSettle). A load holds rows selected some time ago. `Selected` says
  that each is what is committed, unless an edit of it has not been answered yet or was given up.
- **AuthCache**, in LimitConfigProofs: *CachesAreTrue* (AuthCacheIsTrue). That an entry is outdated by a race only is not
  inductive: an edit that drops entries first and commits then must find none left that it is about to outdate, and
  one that commits first leaves them until it drops them. `KeyHolds` and `NameHolds` say what an
  entry without a race is worth: its rows are as it says and not about to go (`KeyGoing`, `NameGoing`), or an edit has
  committed that still has to drop it (`SwitchedOff`, `Renamed`, `RenamedFrom`).
- **ModelResolution**, in LimitConfigProofs: *NamesAreKept* (AnsweredByClientsName), for any registry, callers, rule
  lists and configurations and any number of edits, whatever the catalogues. The context remembers the client's name
  and what it was last mapped to (`Remembers`), and whatever name a layer may read is the client's or one it was
  mapped to (`Traced`), so each layer judges the client's own; what is mapped is what the present list makes of it
  while nothing is reloaded (`AliasApplied`, `NameMapped`). The route's verdict, which looks at up to three names, is
  then the answer that the two lists promise (`AnswersByName`). A deployment records what was mapped when its caller
  became known; that it is what is called needs that the same configuration maps it alike (`Best`). Two conditions of
  the property come from the proof, as the catalogues do not show them: a name whose own instance has gone is judged
  as a bare name and may be denied (`DeniedIsNotOwn`), and a model whose key has gone may be called at the one
  instance left of a family of that name, even in outage (`CanonicalModel`).
- **RequestLimits**, in QuotaProofs. *TypeCorrect, BucketsExact, MinuteLimit*: a call suspended between check and
  increment holds its caller's lock (`Awaits`, `Locked`); so if the bucket it checked is still in the dictionary, the
  room it found is still there (`Room`). *DayDenials* (DayDenialsAreDue): a cached day count may lag behind what was
  used, a sum over the pool's members that only grows, but never exceeds it, or where a flush crossed its read never
  exceeds it twice over (`CachedLags`, `Lags`); so a limit it reaches is reached, or at least half of it is used
  (`AnswerReaches`).
- **PoolSettlement**, in QuotaProofs: *SettlementTypes, ChargedForOwnTime, ChargesFollowUse, SettlementIsFair,
  MovingIsNeutral* (TypeOK, NeverChargedForThePast, ChargesAreUse, SharesAreFair, QuotaConserved). First about the
  algorithm, for any members, weights and rooms: a pass deals out exactly what there is, each within one request of
  their part (`PassShares`), since ranks of distinct members are distinct and no more requests are left over than
  members have a remainder (`Ranked`); pinning somebody at their room leaves the others no less for their weight
  (`Even`, `EvenStays`); so the recursion deals out all that fits, the pinned never have more than their part, and
  those with room left are within one request of theirs (`Dealt`, `SharesDealt`). Induction over data being out of
  reach, the function is first shown to exist and to satisfy its equation (`Recursion`), and its property from a
  smallest set of members that would lack it (`Smallest`); the sums are folds, shown in the same way to add up
  (`SumsAgree`, `SumSplit`, `SumScaled`). Then about the ledger: settle_pool compares totals only (`delta == 0` is
  skipped), so that the charges of *each* member follow needs an invariant that speaks of each: `Safe` says that
  nobody is charged more than they used, and that even if all that is still open fell on one member, that member would
  be charged nothing older than their arrival. With the first half a total of nothing open is nothing open for
  anybody; with the second a settlement, whichever way it deals out the rest, charges nobody for the past. A purge
  breaks the first half, hence `~purged` and the finding of `settle_past`. Conservation is a sum over the members
  before and after a change that settles both pools: what a settlement leaves of a limited pool's use is its use or
  its limits, whichever is less (`DealReaches`, `LimitedUse`); so what may still be sent is limits less uses, before
  as after (`PartSettled`), and nobody else is touched (`SpareKept`). Nor is use wiped: up to the limits it is kept
  (`UseKept`).
- **PoolLocks**, in QuotaProofs: *WaitsInOrder, GuardedUntilCommit* (DeadlockOnlyByStraying, SettledUnderGuard). What
  a task has still to do must fit what it has locked (`Orderly`), and stay so where steps are spliced in. Counted back
  from the end, its depth of each lock follows from its steps (`Level`: nothing is dropped that it has not got,
  nothing taken a third time); it settles only what it has or takes the guards of (`Uses`); having written, it commits
  before it drops a guard (`Commits`); and a guard it takes is one it has or comes after all it has, none of which is
  the mutex (`Climbs`). So in a circle nobody waits for the mutex, whose owner would have to wait for a guard; each
  waits for a guard that comes before the one its owner waits for; and among finitely many tasks one waits for the
  last.
- **PoolMembership** (TypeCorrect, OwnersAreMembers, NoOverfullPool, SettlementIsCurrent). `Refers`: a request refers to
  an invitation once sent; `Guarded`: inside, it holds the guard; `Room`: a joiner inside the guard has
  room, as only a join adds a member and only the edit of the cap lowers it, each under the guard. That a
  pool with members has an earliest one is a well-founded minimum over finite sets. For SettlementIsCurrent
  (SettlesAgainstMembers) a request's pool was live when read and ids are not given again (`Known`), and a removal inside
  holds that pool's guard (`Removing`).
- **SignIn**, in ConcurrencySlotsProofs (AccountsTyped, IdentityHolds). Requests act on what they read.
  `Fits`: what was read still holds or the account read is gone; so it must be told from a later one of the same id,
  which `Dated` (no account is from the future) and the incarnation in each link and token do. `Recorded`, `Named` and
  `Single` tie the two records of a link, the account's subject and the identity row, to each other except for the
  subjects whose requests raced.
- **ProviderSync** (RegistryStaysCurrent, NewerIsKept; of the composition *RegistryHolds*, *SyncsHold*:
  RegistryIsCurrent, SyncsKeepWhatIsNewer). RegistryIsCurrent speaks of a server at rest: what is on is routed, or has
  its build's error on record. In between, an instance that is not what its row says is being made (`Doing`), or some
  request will see to it (`RegistryDue`, and `OwnerDue` for its owner), unless its row could not be read (`behind`) or
  a drop overtook a later edit (`crossed`); what a refresh or an edit has in hand is what the table says, or a later
  one is due (`InHand`). That no client is closed in use needs that two refreshes never set aside the same registry
  (`OneEditor`, as both are inside `_byok_lock`) and that no instance is made twice (`Fresh`: its number is of the
  edit that made it). For the lists: what is cached is no later than what `_sync_status` has recorded (`Cached`).

Only model-checked: all liveness (out of the prover's reach); NothingLostNothingMixed, whose texts are put together
from the whole log, and UsageAddsUp, whose total is taken over all rows: each a recursion over data.

## 6. What the code does differently from what it says

Each is a run that TLC ends with a counterexample; `PROJECT.json` quotes the text.

- `usage_shutdown`: `stop()` cancels the flush while it awaits the commit; the database thread commits all
  the same, nothing is subtracted, and the final flush writes the snapshot again.
- `rpd_failopen`: `_read_rpd_cached` serves the last known count when a read fails, but the loaders it is
  given swallow the failure and return the buffered part, which is then cached.
- `config_off`: between `invalidate_group` and the reload, the models of a group that is off are served and charged to
  the Default group.
- `settle_past`: a purge that other members' later requests offset makes `delta` 0, the settlement is skipped, and
  the wrong charges it leaves come up as a delta after the next leave, charged to whoever is a member then.
  Without purges NeverChargedForThePast and ChargesAreUse hold.

- `purge_deadlock`: a purge that, with the flush paused, meets a pool it has not guarded waits for that guard, whose
  holder waits for the flush: both wait for ever. `rate_limit.py` says every call site takes guards first.

Others are kept in the models as explicit exceptions, not as runs.
- RequestLimits: the day count grows when a call ends (`End`), so calls admitted one after the other share one
  remaining unit, and the check is not the race-free one its comment speaks of. And
  `get_today_count` reads the buffer, awaits, and sums the tables: a flush committed in between is counted twice, so a call
  may be refused early, though never before half of the limit is used (`crossed`).
- PoolMembership: a removal compares the removed user with an owner read before the guard, so with three users a
  pool may be left to an owner who is not in it (`orphaned`); a deletion holds the guard of the
  pool its user was in when it began, which may be another by then; an acceptance that read its invitation before a
  withdrawal overwrites it.
- PoolLocks: joins and re-settlements hold SQLite's write lock when they flush in another session, which waits
  for it until its timeout and fails: logged, and the unflushed counts are missed.
- UsageTracker: a request authenticated before its account is deleted may still be counted for the id (`late`,
  `tainted`). RpdCache: a count whose load was under way when a purge committed is
  cached after the invalidation, so purged requests are refused for up to the TTL, and no longer.
- UsageTables: a rollup that commits between the daily and the monthly query of one answer makes it count a month
  twice, though `_window_tables` says the union never does (`crossed`); a daily report is final only if the flush
  before it succeeded.
- AuthCache: stop() cancels the loop with a batch in hand and loses it; invalidate_user_by_id drops the first
  entry of an id; a key row created while its account is deleted belongs to the next account of that id.
- SignIn: two confirmations at once can give one account two identities; an account deleted between a request's read
  and its commit is dealt with as it was read (`raced`). A withdrawal checks that the account is pending, awaits, and
  deletes it by its id: an approval in between is lost with it.
- StreamServe: a cancelled Anthropic stream is recorded as completed; a cancellation before the response leaves the
  record active; an error that the server passes on as data is recorded as completed:
  chat's mid-stream error chunk, and an error event after a terminal one (`errChunk`, `lateErr`).
- ProviderSync: a toggle during an automatic sync's fetch is undone, though a comment says it is always preserved
  (`overtaken`); an administrator's sync of all overwrites newer slices; a status dropped by a refresh lets an older
  fetch write; a failed read of the table leaves the registry behind (`behind`). A build resolves the host anew: if
  that fails at a refresh or a save, a user's unchanged provider is not routed until the next one, and its error is
  shown (`errors`).
- SearchLoop: the calls left open in a response that the upstream stores are remembered by this process for a day, among
  10 000 turns: after that, or a restart, the client's next turn leaves them unanswered (`forgotten`), and is rejected.
- ModelResolution: rules changed between two layers may leave the older mapping; an Azure deployment route whose body
  names a model records that one; a canonical id whose provider has gone is called by its bare name elsewhere; another
  user's instance can empty a bare name's pool, contrary to the docstring of `_visible`.

## 7. What is abstracted, and what is not modelled

Within the modules: date, hour, user type and server of a usage key in UsageTracker, labels and servers in
UsageTables, whose flush and maintenance end within an hour and whose clock never steps back; the wording of
decisions; retry-after seconds; names and descriptions of pools; in PoolSettlement the other scopes, which share
nothing, and a model moved between groups (to each scope a use or a purge); the end of the day, inactive members,
unequal limits and rows written twice (`usage_shutdown`) in RequestLimits; the carry in RpdCache, and the age of the
count that a failed load falls back on; in PoolSettlement a call that ends after its user was switched off; think-tag
splitting, citations' content, stop sequences and signatures in the streams (a chunk with several parts is those parts
in sequence); the stall watchdog; count_tokens and the matching of patterns in ModelResolution. An identity is a pair
of id and name. A commit is atomic, and a database that refuses leaves nothing behind (SQLite, one transaction).

Not modelled: the components listed `not_modelled` in `PROJECT.json`, each with its reason. The
front end, start-up, tracing and the adapters' pure I/O stay out.

## 8. The plan

1. Done: the modules above, and the refinement of BlockStream, checked and proved.
2. *References*: what names a provider's models (group members, aliases, exceptions, outages, web search keys) through
renames, deletions, re-initialisation and imports. *ProfileTables*: profiles and group limits. *SchemaUpgrade*: the
start-up migrations with crashes between their commits. *TokenRefresh* (`platformai/auth.py`).
3. Proofs: of what the prover can reach, nothing that a run checks is left; new modules get theirs with their properties.
