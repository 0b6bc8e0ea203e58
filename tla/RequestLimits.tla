--------------------------- MODULE RequestLimits ---------------------------
(***************************************************************************)
(* The charge of app/rate_limit.py (check_and_increment, check_group_limit)*)
(* seen over many calls: minute buckets, the user lock held while day      *)
(* counts are awaited, a pool's day shared by its members, and counts that *)
(* grow only when a call has ended.                                        *)
(*                                                                         *)
(* A tier is the Default group or a named one.  Limits do not change here  *)
(* (LimitConfig), locks are exclusive (KeyedLocks), a count is the one     *)
(* cached or a fresh one (RpdCache, UsageTables), which a flush may cross; *)
(* what lowers counts (midnight, carries, purges) is left out.             *)
(***************************************************************************)
EXTENDS Integers, FiniteSets, FiniteSetsExt

CONSTANTS
    Calls,      \* requests; one that has ended is reused
    Users,
    Pool,       \* the users that share a pool
    Tiers,      \* model groups
    Default,    \* DEFAULT_GROUP_ID
    Rpm, Rpd,   \* a user's own limits per tier, None for none
    SharePcts,  \* percentages of the pool's day that one member may use
    MaxUsed,    \* bound on the requests counted per user and tier
    NoUser, NoCall, None

ASSUME ChargeAssumption ==
    /\ Pool \subseteq Users /\ IsFiniteSet(Users)
    /\ Default \in Tiers
    /\ None \notin Nat
    /\ Rpm \in [Tiers -> Nat \cup {None}]
    /\ Rpd \in [Tiers -> Nat \cup {None}]
    /\ SharePcts \subseteq 1..100
    /\ MaxUsed \in Nat
    /\ NoUser \notin Users /\ NoCall \notin Calls

VARIABLES
    share,      \* the pool's percentage, 100 for no cap
    at,         \* where each call is
    caller,
    tier,       \* the group it is charged to
    kept,       \* the bucket it checked is still in the dictionary
    bucket,     \* _minute_buckets and _group_minute_buckets
    lock,       \* who holds each user's lock
    used,       \* the day's calls that have ended
    cached,     \* the day counts in the cache, per scope; 0 for none, which is
                \* what a failed read of a count not cached answers
    crossed,    \* history: the cached counts that hold a flush twice
    granted     \* history: grants against a bucket of this minute

vars == <<share, at, caller, tier, kept, bucket, lock, used, cached, crossed, granted>>
calls == <<share, at, caller, tier>>

Keys == Users \X Tiers

\* _rpd_scope: the pool's members, or the user alone.
Scope(u) == IF u \in Pool THEN Pool ELSE {u}
Scopes == {Pool} \cup {{u} : u \in Users}

\* Minutes since the bucket's window: older ones are all alike.
Old == 2
Empty == [age |-> Old, count |-> 0]
Fresh == [age |-> 0, count |-> 0]

TypeOK ==
    /\ share \in SharePcts
    /\ at \in [Calls -> {"idle", "waits", "scope", "own", "passed", "refused"}]
    /\ caller \in [Calls -> Users \cup {NoUser}]
    /\ tier \in [Calls -> Tiers]
    /\ kept \in [Calls -> BOOLEAN]
    /\ bucket \in [Keys -> [age : 0..Old, count : Nat]]
    /\ lock \in [Users -> Calls \cup {NoCall}]
    /\ used \in [Keys -> Nat]
    /\ cached \in [Scopes \X Tiers -> Nat]
    /\ crossed \subseteq Scopes \X Tiers
    /\ granted \in [Keys -> Nat]

Init ==
    /\ share \in SharePcts
    /\ at = [c \in Calls |-> "idle"]
    /\ caller = [c \in Calls |-> NoUser]
    /\ tier = [c \in Calls |-> Default]
    /\ kept = [c \in Calls |-> FALSE]
    /\ bucket = [k \in Keys |-> Empty]
    /\ lock = [u \in Users |-> NoCall]
    /\ used = [k \in Keys |-> 0]
    /\ cached = [s \in Scopes \X Tiers |-> 0]
    /\ crossed = {}
    /\ granted = [k \in Keys |-> 0]

-----------------------------------------------------------------------------
Key(c) == <<caller[c], tier[c]>>

\* The rows of the scope's members for the day.
Used(S, t) == MapThenSumSet(LAMBDA u : used[<<u, t>>], S)

\* _pooled_rpd_limit over equal limits, all members active.
ScopeRpd(S, t) == Rpd[t] * Cardinality(S)

\* Mutant: no floor at the member's own limit.
ShareCapNoFloor(S, t) == (ScopeRpd(S, t) * share) \div 100

\* member_share_cap.
ShareCap(S, t) == Max({Rpd[t], (ScopeRpd(S, t) * share) \div 100})

Limited(t) == Rpm[t] # None \/ Rpd[t] # None

\* The bucket of this minute, renewed where it is missing or of another one.
Current(k) == IF bucket[k].age = 0 THEN bucket[k] ELSE Fresh
Spent(k) == Rpm[k[2]] # None /\ Current(k).count >= Rpm[k[2]]

-----------------------------------------------------------------------------
\* enforce_group_rate_limit: the limits are read, then the user's lock is waited for.
\* Calls of admins, of own providers and of named groups without limits charge nothing.
Arrive(c, u, t) ==
    /\ at[c] = "idle"
    /\ t = Default \/ Limited(t)
    /\ at' = [at EXCEPT ![c] = "waits"]
    /\ caller' = [caller EXCEPT ![c] = u]
    /\ tier' = [tier EXCEPT ![c] = t]
    /\ UNCHANGED <<share, kept, bucket, lock, used, cached, crossed, granted>>

GetsLock(c) == at[c] = "waits" /\ lock[caller[c]] = NoCall

\* The minute is used up.
DenyMinute(c) ==
    /\ GetsLock(c) /\ Spent(Key(c))
    /\ bucket' = [bucket EXCEPT ![Key(c)] = Current(Key(c))]
    /\ at' = [at EXCEPT ![c] = "refused"]
    /\ UNCHANGED <<share, caller, tier, kept, lock, used, cached, crossed, granted>>

\* The bucket grows, unless it was dropped meanwhile, and the lock is left.
Grant(c, b) ==
    /\ at' = [at EXCEPT ![c] = "passed"]
    /\ bucket' = [bucket EXCEPT ![Key(c)] = b]
    /\ granted' = IF b.age = 0 THEN [granted EXCEPT ![Key(c)] = @ + 1] ELSE granted
    /\ lock' = [lock EXCEPT ![caller[c]] = NoCall]
    /\ kept' = [kept EXCEPT ![c] = FALSE]
    /\ UNCHANGED <<share, caller, tier, used>>

GrantAtOnce(c) ==
    /\ GetsLock(c) /\ ~ Spent(Key(c)) /\ Rpd[tier[c]] = None
    /\ Grant(c, [Current(Key(c)) EXCEPT !.count = @ + 1])
    /\ UNCHANGED <<cached, crossed>>

\* Mutant: the lock is not held over the await.
EnterUnlocked(c) ==
    /\ GetsLock(c) /\ ~ Spent(Key(c)) /\ Rpd[tier[c]] # None
    /\ bucket' = [bucket EXCEPT ![Key(c)] = Current(Key(c))]
    /\ at' = [at EXCEPT ![c] = "scope"]
    /\ kept' = [kept EXCEPT ![c] = TRUE]
    /\ UNCHANGED <<share, caller, tier, lock, used, cached, crossed, granted>>

\* The minute has room; the scope's day count is awaited inside the lock.
Enter(c) ==
    /\ GetsLock(c) /\ ~ Spent(Key(c)) /\ Rpd[tier[c]] # None
    /\ lock' = [lock EXCEPT ![caller[c]] = c]
    /\ bucket' = [bucket EXCEPT ![Key(c)] = Current(Key(c))]
    /\ at' = [at EXCEPT ![c] = "scope"]
    /\ kept' = [kept EXCEPT ![c] = TRUE]
    /\ UNCHANGED <<share, caller, tier, used, cached, crossed, granted>>

\* A bucket dropped during the await is incremented where nobody reads it.
GrantAfterAwait(c) ==
    IF kept[c]
    THEN Grant(c, [bucket[Key(c)] EXCEPT !.count = @ + 1])
    ELSE /\ at' = [at EXCEPT ![c] = "passed"]
         /\ lock' = [lock EXCEPT ![caller[c]] = NoCall]
         /\ UNCHANGED <<share, caller, tier, kept, bucket, used, granted>>

DenyDay(c) ==
    /\ at' = [at EXCEPT ![c] = "refused"]
    /\ lock' = [lock EXCEPT ![caller[c]] = NoCall]
    /\ kept' = [kept EXCEPT ![c] = FALSE]
    /\ UNCHANGED <<share, caller, tier, bucket, used, granted>>

\* A day count answered: the one cached, or a fresh one, which is cached.  That adds
\* what the buffer held to a later sum of the rows: calls that end in between may be
\* missing, and so is the sum where it fails (0..Used); a flush in between is counted
\* twice, all that was used at the most.
Answer(S, t, n) ==
    \/ n = cached[<<S, t>>] /\ UNCHANGED <<cached, crossed>>
    \/ /\ cached' = [cached EXCEPT ![<<S, t>>] = n]
       /\ \/ n \in 0..Used(S, t) /\ crossed' = crossed \ {<<S, t>>}
          \/ n \in (Used(S, t) + 1)..(2 * Used(S, t)) /\ crossed' = crossed \cup {<<S, t>>}

\* A member of a pool with a share cap is then counted alone.
ScopeAnswered(c, n) ==
    LET S == Scope(caller[c])
        t == tier[c]
        capped == caller[c] \in Pool /\ share < 100
    IN
    /\ at[c] = "scope"
    /\ Answer(S, t, n)
    /\ \/ n >= ScopeRpd(S, t) /\ DenyDay(c)
       \/ n < ScopeRpd(S, t) /\ ~ capped /\ GrantAfterAwait(c)
       \/ /\ n < ScopeRpd(S, t) /\ capped
          /\ at' = [at EXCEPT ![c] = "own"]
          /\ UNCHANGED <<share, caller, tier, kept, bucket, lock, used, granted>>

OwnAnswered(c, n) ==
    LET cap == ShareCap(Pool, tier[c]) IN
    /\ at[c] = "own"
    /\ Answer({caller[c]}, tier[c], n)
    /\ \/ n >= cap /\ DenyDay(c)
       \/ n < cap /\ GrantAfterAwait(c)

\* The call ends; end_request counts it if it was let through, and not if it was
\* cancelled first or refused.
End(c, counts) ==
    /\ at[c] # "idle"
    /\ counts => at[c] = "passed" /\ Rpd[tier[c]] # None /\ used[Key(c)] < MaxUsed
    /\ used' = IF counts THEN [used EXCEPT ![Key(c)] = @ + 1] ELSE used
    /\ at' = [at EXCEPT ![c] = "idle"]
    /\ caller' = [caller EXCEPT ![c] = NoUser]
    /\ kept' = [kept EXCEPT ![c] = FALSE]
    /\ lock' = [u \in Users |-> IF lock[u] = c THEN NoCall ELSE lock[u]]
    /\ UNCHANGED <<share, tier, bucket, cached, crossed, granted>>

-----------------------------------------------------------------------------
Tick ==
    /\ bucket' = [k \in Keys |-> [bucket[k] EXCEPT !.age = IF @ < Old THEN @ + 1 ELSE Old]]
    /\ granted' = [k \in Keys |-> 0]
    /\ UNCHANGED <<calls, kept, lock, used, cached, crossed>>

\* Buckets and counts go; calls that have checked a bucket keep their reference to it.
Drop(K, C) ==
    /\ bucket' = [k \in Keys |-> IF k \in K THEN Empty ELSE bucket[k]]
    /\ kept' = [c \in Calls |-> kept[c] /\ Key(c) \notin K]
    /\ cached' = [s \in Scopes \X Tiers |-> IF s \in C THEN 0 ELSE cached[s]]
    /\ crossed' = crossed \ C
    /\ UNCHANGED <<calls, lock, used>>

\* Mutant: the sweep takes the current minute with it.
EvictCurrent(C) ==
    /\ Drop(Keys, C)
    /\ UNCHANGED granted

\* _evict_stale_buckets; counts past their retention go too.
Evict(C) ==
    /\ Drop({k \in Keys : bucket[k].age = Old}, C)
    /\ UNCHANGED granted

\* invalidate_group: a group that is deleted or rebuilt starts its minute over.
InvalidateGroup(t) ==
    /\ t # Default
    /\ Drop(Users \X {t}, Scopes \X {t})
    /\ granted' = [k \in Keys |-> IF k[2] = t THEN 0 ELSE granted[k]]

-----------------------------------------------------------------------------
TakeLock(c) == DenyMinute(c) \/ GrantAtOnce(c) \/ Enter(c)
Answered(c) == \E n \in 0..(2 * MaxUsed * Cardinality(Users)) : ScopeAnswered(c, n) \/ OwnAnswered(c, n)

Next ==
    \/ \E c \in Calls :
         \/ \E u \in Users, t \in Tiers : Arrive(c, u, t)
         \/ TakeLock(c) \/ Answered(c)
         \/ \E counts \in BOOLEAN : End(c, counts)
    \/ Tick
    \/ \E C \in SUBSET {s \in Scopes \X Tiers : cached[s] > 0} : Evict(C)
    \/ \E t \in Tiers : InvalidateGroup(t)

Spec == Init /\ [][Next]_vars

-----------------------------------------------------------------------------
\* However calls interleave, are cancelled, or are overtaken by the minute or the
\* sweep while they await a day count, a bucket of this minute shows exactly the
\* calls it let through: denied ones cost nothing (check_and_increment).
BucketsCountGrants ==
    \A k \in Keys : granted[k] = IF bucket[k].age = 0 THEN bucket[k].count ELSE 0

\* A user's concurrent calls never get more grants out of a minute than the limit,
\* although each awaits a day count between the check and the increment.
MinuteLimitKept == \A u \in Users, t \in Tiers : Rpm[t] # None => granted[<<u, t>>] <= Rpm[t]

\* A limit is reached, or at least half of it where the count answered holds a flush twice.
Reached(S, t, most) ==
    \/ Used(S, t) >= most
    \/ <<S, t>> \in crossed' /\ 2 * Used(S, t) >= most

\* A call refused for the day was refused on a limit reached, and a pool's member not
\* below their own limit unless the pool's day is used up (member_share_cap: "pooling
\* never leaves a member worse off than going solo").  Only a count that a flush crossed
\* refuses early, and never before half of the limit is used.
DayDenialsAreDue ==
    [][\A c \in Calls : LET S == Scope(caller[c]) t == tier[c] IN
          at'[c] = "refused"
             => /\ at[c] = "scope" => Reached(S, t, ScopeRpd(S, t))
                /\ at[c] = "own" => Reached({caller[c]}, t, Rpd[t])]_vars
=============================================================================
