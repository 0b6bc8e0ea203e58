------------------------------ MODULE RpdCache ------------------------------
(***************************************************************************)
(* The day counts that RPD limits are enforced against: the TTL cache and  *)
(* the single-flight refill of app/rate_limit.py (_read_rpd_cached) over   *)
(* the buffer-plus-tables read of app/request_tracker.py                   *)
(* (get_today_count, get_today_group_count), beside the flush that moves   *)
(* counts from the buffer to the tables and purges that delete them.       *)
(*                                                                         *)
(* A key stands for one cache entry, a scope (user or pool) and a group;   *)
(* the carry, added to the rows without suspending, is left out.  Time     *)
(* passes in ticks, TTL of them to _RPD_TTL; the times compared across a   *)
(* failure are the number of failures of the flight.  A reader that meets  *)
(* a free lock may enter it later here than in the code, which does so at  *)
(* once.                                                                   *)
(***************************************************************************)
EXTENDS Integers, FiniteSets

CONSTANTS
    Keys,           \* cache keys
    Readers,        \* rate-limit checks reading a count
    Flights,        \* flight lists; one nobody references is reused
    MaxCount,       \* bound on the requests recorded per key
    MaxFails,       \* bound on failed reads
    MaxPurges,      \* bound on purges
    TTL,            \* _RPD_TTL, in ticks
    Failing,        \* what a load does whose read fails: raise, or swallow it
    NoKey, NoFlight, NoReader, NoEntry

ASSUME RpdAssumption ==
    /\ IsFiniteSet(Readers)
    /\ NoKey \notin Keys
    /\ NoFlight \notin Flights
    /\ NoReader \notin Readers
    /\ MaxCount \in Nat /\ MaxFails \in Nat /\ MaxPurges \in Nat
    /\ TTL \in Nat \ {0}
    /\ Failing \subseteq {"raise", "swallow"}
    /\ NoEntry \notin [count : Nat, left : 0..TTL, floor : Nat,
                        purged : BOOLEAN, partial : BOOLEAN]

VARIABLES
    cache,      \* _rpd_cache
    flightOf,   \* _rpd_inflight
    lock,       \* who is inside the lock of a flight
    holders,    \* its holders count
    failed,     \* the failed loads it has seen
    reader,     \* where each reader is
    buffered,   \* the tracker's counts of a key not yet subtracted
    rows,       \* the tables' counts of a key
    pending,    \* committed by a flush and not yet subtracted
    purging,    \* how far the purge of a key has got
    since,      \* history: ticks since a purge last took counts of a key, up to TTL
    recordsLeft, failsLeft, purgesLeft,     \* bounds
    burst       \* history: readers that waited through a failed load

flights == <<flightOf, lock, holders>>
counts == <<buffered, rows, pending>>
bounds == <<recordsLeft, failsLeft, purgesLeft>>
vars == <<cache, flights, failed, reader, counts, purging, since, bounds, burst>>

\* count and left (to expires_at) are the code's; floor is what the scope had really
\* used when the load began, purged whether some of it was purged since then, partial
\* whether a failed read was swallowed.
Entry == [count : Nat, left : 0..TTL, floor : Nat, purged : BOOLEAN, partial : BOOLEAN]

\* waits at the lock, reads the tables, has read them; sum is the count so far, left
\* what is left of the time it will be cached for.
Reader == [pc : {"idle", "waits", "reads", "has"}, key : Keys \cup {NoKey},
           flight : Flights \cup {NoFlight}, arrived : 0..MaxFails,
           sum : Nat, left : 0..TTL, floor : Nat, purged : BOOLEAN, partial : BOOLEAN]
Idle == [pc |-> "idle", key |-> NoKey, flight |-> NoFlight, arrived |-> 0,
         sum |-> 0, left |-> 0, floor |-> 0, purged |-> FALSE, partial |-> FALSE]

TypeOK ==
    /\ cache \in [Keys -> Entry \cup {NoEntry}]
    /\ flightOf \in [Keys -> Flights \cup {NoFlight}]
    /\ lock \in [Flights -> Readers \cup {NoReader}]
    /\ holders \in [Flights -> Nat]
    /\ failed \in [Flights -> 0..MaxFails]
    /\ reader \in [Readers -> Reader]
    /\ buffered \in [Keys -> Nat]
    /\ rows \in [Keys -> Nat]
    /\ pending \in [Keys -> Nat]
    /\ purging \in [Keys -> {"no", "committed", "dropped"}]
    /\ since \in [Keys -> 0..TTL]
    /\ recordsLeft \in [Keys -> 0..MaxCount]
    /\ failsLeft \in 0..MaxFails
    /\ purgesLeft \in 0..MaxPurges
    /\ burst \subseteq Readers

Init ==
    /\ cache = [k \in Keys |-> NoEntry]
    /\ flightOf = [k \in Keys |-> NoFlight]
    /\ lock = [f \in Flights |-> NoReader]
    /\ holders = [f \in Flights |-> 0]
    /\ failed = [f \in Flights |-> 0]
    /\ reader = [r \in Readers |-> Idle]
    /\ buffered = [k \in Keys |-> 0]
    /\ rows = [k \in Keys |-> 0]
    /\ pending = [k \in Keys |-> 0]
    /\ purging = [k \in Keys |-> "no"]
    /\ since = [k \in Keys |-> TTL]
    /\ recordsLeft = [k \in Keys |-> MaxCount]
    /\ failsLeft \in 0..MaxFails
    /\ purgesLeft \in 0..MaxPurges
    /\ burst = {}

-----------------------------------------------------------------------------
Hit(k) == cache[k] # NoEntry /\ cache[k].left > 0

\* Requests of the key made today and not purged.
Used(k) == rows[k] + buffered[k] - pending[k]

Inside(f) == {r \in Readers : reader[r].flight = f}

\* _read_rpd_cached up to its lock, after a miss: join the key's flight, or make
\* one.  (A hit returns at once and changes nothing.)
Arrive(r, k, f) ==
    /\ reader[r].pc = "idle"
    /\ ~ Hit(k)
    /\ IF flightOf[k] = NoFlight THEN Inside(f) = {} ELSE f = flightOf[k]
    /\ flightOf' = [flightOf EXCEPT ![k] = f]
    /\ holders' = [holders EXCEPT ![f] = @ + 1]
    /\ failed' = IF flightOf[k] = NoFlight THEN [failed EXCEPT ![f] = 0] ELSE failed
    /\ reader' = [reader EXCEPT ![r] =
                    [Idle EXCEPT !.pc = "waits", !.key = k, !.flight = f, !.arrived = failed'[f]]]
    /\ burst' = burst \ {r}
    /\ UNCHANGED <<cache, lock, counts, purging, since, bounds>>

\* Mutant: whoever leaves first drops the flight.
ForgetFlightEarly(r) ==
    LET k == reader[r].key
        f == reader[r].flight
    IN  /\ holders' = [holders EXCEPT ![f] = @ - 1]
        /\ flightOf' = [flightOf EXCEPT ![k] = NoFlight]
        /\ reader' = [reader EXCEPT ![r] = Idle]

\* The finally clause: the last one out drops the flight.
ForgetFlight(r) ==
    LET k == reader[r].key
        f == reader[r].flight
    IN  /\ holders' = [holders EXCEPT ![f] = @ - 1]
        /\ flightOf' = [flightOf EXCEPT ![k] =
                          IF holders[f] = 1 /\ @ = f THEN NoFlight ELSE @]
        /\ reader' = [reader EXCEPT ![r] = Idle]

\* Mutant: the comparison is the wrong way round.
SharesFailureReversed(r) == failed[reader[r].flight] < reader[r].arrived

\* The flight's last failure is not older than the reader's arrival.
SharesFailure(r) == failed[reader[r].flight] > reader[r].arrived

\* Inside the lock: somebody else refilled the entry, or failed to.
EnterAndServe(r) ==
    /\ reader[r].pc = "waits" /\ lock[reader[r].flight] = NoReader
    /\ Hit(reader[r].key) \/ SharesFailure(r)
    /\ ForgetFlight(r)
    /\ UNCHANGED <<cache, lock, failed, counts, purging, since, bounds, burst>>

\* The time is taken; then get_today_count up to its query: the buffered part.
ReadBuffer(r, k) ==
    reader' = [reader EXCEPT ![r] =
        [@ EXCEPT !.pc = "reads", !.sum = buffered[k], !.left = TTL, !.floor = Used(k)]]

\* Inside the lock, with a load to run.
EnterAndLoad(r) ==
    /\ reader[r].pc = "waits" /\ lock[reader[r].flight] = NoReader
    /\ ~ Hit(reader[r].key) /\ ~ SharesFailure(r)
    /\ lock' = [lock EXCEPT ![reader[r].flight] = r]
    /\ ReadBuffer(r, reader[r].key)
    /\ UNCHANGED <<cache, flightOf, holders, failed, counts, purging, since, bounds, burst>>

\* The SUM over the tables.
ReadRows(r) ==
    /\ reader[r].pc = "reads"
    /\ reader' = [reader EXCEPT ![r] =
         [@ EXCEPT !.pc = "has", !.sum = reader[r].sum + rows[reader[r].key]]]
    /\ UNCHANGED <<cache, flights, failed, counts, purging, since, bounds, burst>>

\* Mutant: the failed load is cached as a count of zero.
LoadRaisesCachesZero(r) ==
    LET f == reader[r].flight
    IN  /\ "raise" \in Failing
        /\ reader[r].pc = "reads"
        /\ failsLeft > 0 /\ failsLeft' = failsLeft - 1
        /\ cache' = [cache EXCEPT ![reader[r].key] =
             [count |-> 0, left |-> reader[r].left, floor |-> reader[r].floor,
              purged |-> FALSE, partial |-> FALSE]]
        /\ lock' = [lock EXCEPT ![f] = NoReader]
        /\ ForgetFlight(r)
        /\ UNCHANGED <<failed, counts, purging, since, recordsLeft, purgesLeft, burst>>

\* The query fails and load() raises: the failure is the whole burst's.
LoadRaises(r) ==
    LET f == reader[r].flight
    IN  /\ "raise" \in Failing
        /\ reader[r].pc = "reads"
        /\ failsLeft > 0 /\ failsLeft' = failsLeft - 1
        /\ failed' = [failed EXCEPT ![f] = @ + 1]
        /\ burst' = burst \cup {w \in Inside(f) : reader[w].pc = "waits"}
        /\ lock' = [lock EXCEPT ![f] = NoReader]
        /\ ForgetFlight(r)
        /\ UNCHANGED <<cache, counts, purging, since, recordsLeft, purgesLeft>>

\* The query fails inside the tracker, which returns the buffered part alone.
ReadSwallows(r) ==
    /\ "swallow" \in Failing
    /\ reader[r].pc = "reads"
    /\ failsLeft > 0 /\ failsLeft' = failsLeft - 1
    /\ reader' = [reader EXCEPT ![r] = [@ EXCEPT !.pc = "has", !.partial = TRUE]]
    /\ UNCHANGED <<cache, flights, failed, counts, purging, since, recordsLeft, purgesLeft, burst>>

\* Mutant: the time is taken when the load has ended.
StoreForLonger(r) ==
    LET s == reader[r]
    IN  /\ s.pc = "has"
        /\ cache' = [cache EXCEPT ![s.key] =
             [count |-> s.sum, left |-> TTL, floor |-> s.floor, purged |-> s.purged,
              partial |-> s.partial]]
        /\ lock' = [lock EXCEPT ![s.flight] = NoReader]
        /\ ForgetFlight(r)
        /\ UNCHANGED <<failed, counts, purging, since, bounds, burst>>

\* The count is cached, for _RPD_TTL from when its load began, and the lock released.
Store(r) ==
    LET s == reader[r]
    IN  /\ s.pc = "has"
        /\ cache' = [cache EXCEPT ![s.key] =
             [count |-> s.sum, left |-> s.left, floor |-> s.floor, purged |-> s.purged,
              partial |-> s.partial]]
        /\ lock' = [lock EXCEPT ![s.flight] = NoReader]
        /\ ForgetFlight(r)
        /\ UNCHANGED <<failed, counts, purging, since, bounds, burst>>

\* Mutant: a cancelled load leaves its lock taken.
CancelKeepsLock(r) ==
    /\ reader[r].pc # "idle"
    /\ lock' = lock
    /\ ForgetFlight(r)
    /\ UNCHANGED <<cache, failed, counts, purging, since, bounds, burst>>

\* The request is cancelled, waiting or loading.
Cancel(r) ==
    /\ reader[r].pc # "idle"
    /\ lock' = [f \in Flights |-> IF lock[f] = r THEN NoReader ELSE lock[f]]
    /\ ForgetFlight(r)
    /\ UNCHANGED <<cache, failed, counts, purging, since, bounds, burst>>

-----------------------------------------------------------------------------
(* Time, traffic, flushes and purges.                                      *)

Less(n) == IF n = 0 THEN 0 ELSE n - 1
More(n) == IF n = TTL THEN TTL ELSE n + 1

\* time.time() goes on.
Tick ==
    /\ cache' = [k \in Keys |-> IF cache[k] = NoEntry THEN NoEntry
                                ELSE [cache[k] EXCEPT !.left = Less(@)]]
    /\ reader' = [r \in Readers |-> [reader[r] EXCEPT !.left = Less(@)]]
    /\ since' = [k \in Keys |-> More(since[k])]
    /\ UNCHANGED <<flights, failed, counts, purging, bounds, burst>>

\* _evict_stale_buckets: an entry long expired.
Sweep(k) ==
    /\ cache[k] # NoEntry /\ cache[k].left = 0
    /\ cache' = [cache EXCEPT ![k] = NoEntry]
    /\ UNCHANGED <<flights, failed, reader, counts, purging, since, bounds, burst>>

\* end_request.
Record(k) ==
    /\ recordsLeft[k] > 0
    /\ recordsLeft' = [recordsLeft EXCEPT ![k] = @ - 1]
    /\ buffered' = [buffered EXCEPT ![k] = @ + 1]
    /\ UNCHANGED <<cache, flights, failed, reader, rows, pending, purging, since, failsLeft, purgesLeft, burst>>

\* A purge holds the flush off from before its commit until it has dropped the
\* buffered counts; its settlement may flush after that.
FlushCommit ==
    /\ \A k \in Keys : purging[k] # "committed"
    /\ \A k \in Keys : pending[k] = 0
    /\ \E k \in Keys : buffered[k] > 0
    /\ pending' = buffered
    /\ rows' = [k \in Keys |-> rows[k] + buffered[k]]
    /\ UNCHANGED <<cache, flights, failed, reader, buffered, purging, since, bounds, burst>>

FlushSubtract ==
    /\ \E k \in Keys : pending[k] > 0
    /\ buffered' = [k \in Keys |-> buffered[k] - pending[k]]
    /\ pending' = [k \in Keys |-> 0]
    /\ UNCHANGED <<cache, flights, failed, reader, rows, purging, since, bounds, burst>>

\* What has been counted of k, stored or not yet, now has requests in it that are
\* gone; how many of them it saw is not kept, so nothing is asked of it.
Outdated(k) ==
    /\ reader' = [r \in Readers |-> IF reader[r].key = k /\ reader[r].pc \in {"reads", "has"}
                                    THEN [reader[r] EXCEPT !.floor = 0, !.purged = TRUE]
                                    ELSE reader[r]]
    /\ cache' = [cache EXCEPT ![k] = IF @ = NoEntry THEN NoEntry
                                     ELSE [@ EXCEPT !.floor = 0, !.purged = TRUE]]
    /\ since' = [since EXCEPT ![k] = 0]

\* delete_usage, inside pause_flush: the rows of a key go.
PurgeCommit(k) ==
    /\ purgesLeft > 0 /\ purgesLeft' = purgesLeft - 1
    /\ \A j \in Keys : pending[j] = 0 /\ purging[j] # "committed"
    /\ purging[k] = "no" /\ purging' = [purging EXCEPT ![k] = "committed"]
    /\ rows' = [rows EXCEPT ![k] = 0]
    /\ Outdated(k)
    /\ UNCHANGED <<flights, failed, buffered, pending, recordsLeft, failsLeft, burst>>

\* drop_buffered_usage: what was buffered since the flush of the purge goes too.
PurgeDrop(k) ==
    /\ purging[k] = "committed" /\ purging' = [purging EXCEPT ![k] = "dropped"]
    /\ buffered' = [buffered EXCEPT ![k] = 0]
    /\ Outdated(k)
    /\ UNCHANGED <<flights, failed, rows, pending, bounds, burst>>

\* invalidate_identity / invalidate_pool / invalidate_all_rpd after the purge.
Invalidate(k) ==
    /\ purging[k] = "dropped" /\ purging' = [purging EXCEPT ![k] = "no"]
    /\ cache' = [cache EXCEPT ![k] = NoEntry]
    /\ UNCHANGED <<flights, failed, reader, counts, since, bounds, burst>>

-----------------------------------------------------------------------------
Loading(r) == ReadRows(r) \/ LoadRaises(r) \/ ReadSwallows(r) \/ Store(r)
Entering(r) == EnterAndServe(r) \/ EnterAndLoad(r)

Next ==
    \/ \E r \in Readers :
         \/ \E k \in Keys, f \in Flights : Arrive(r, k, f)
         \/ Entering(r) \/ Loading(r) \/ Cancel(r)
    \/ \E k \in Keys : Sweep(k) \/ Record(k) \/ PurgeCommit(k) \/ PurgeDrop(k) \/ Invalidate(k)
    \/ FlushCommit \/ FlushSubtract \/ Tick

Spec == Init /\ [][Next]_vars

\* Loads end, and the asyncio.Lock, a fifo, lets every waiter in.
Fairness == \A r \in Readers : WF_vars(Loading(r)) /\ SF_vars(Entering(r))

FairSpec == Spec /\ Fairness

-----------------------------------------------------------------------------
\* One key is never loaded twice at a time, through one flight or through two: a
\* flight is not dropped while somebody still refers to it.
SingleFlight ==
    \A r, s \in Readers :
        /\ reader[r].pc \in {"reads", "has"} /\ reader[s].pc \in {"reads", "has"}
        /\ reader[r].key = reader[s].key
        => r = s

\* The holders count of a flight is the number of readers inside
\* _read_rpd_cached with it, and a key has a flight only while there are any: the
\* dictionary does not grow with the identities ever seen.
FlightsMatchReaders ==
    /\ \A f \in Flights : holders[f] = Cardinality(Inside(f))
    /\ \A k \in Keys : flightOf[k] # NoFlight => holders[flightOf[k]] > 0

\* A cached count is never below what the scope had used when the load began,
\* although a flush moves counts from the buffer to the tables between its two
\* reads (reading them in the other order could miss a flush's worth), unless the
\* tracker swallowed a failed read of it.
CompleteReadIsWhole ==
    \A k \in Keys : cache[k] # NoEntry => cache[k].partial \/ cache[k].count >= cache[k].floor

\* The same of every count: a failed read that was cached lifts the limit for the
\* whole TTL (_get_today_count: "instead of caching a fabricated 0").
CachedCountIsWhole ==
    \A k \in Keys : cache[k] # NoEntry => cache[k].count >= cache[k].floor

\* A reader that waited through a failed load does not start one of its own (each
\* would queue the ones behind it for one more database timeout).
FailureIsShared ==
    [][\A r \in burst : reader[r].pc = "waits" => reader'[r].pc # "reads"]_vars

\* Purged requests are refused for no longer than _RPD_TTL: a count that may have them
\* in it, whether it was stored when the purge took them or was loaded across it and
\* stored after the invalidation, however long its load took, is out of date by then.
\* (A load that fails still serves the last count, of whatever age.)
PurgedCountsForgotten ==
    \A k \in Keys : cache[k] # NoEntry /\ cache[k].purged => cache[k].left + since[k] <= TTL

\* A reader that waits gets an answer or is cancelled.
EveryReaderAnswered == \A r \in Readers : reader[r].pc = "waits" ~> reader[r].pc = "idle"
=============================================================================
