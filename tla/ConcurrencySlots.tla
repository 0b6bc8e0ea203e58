-------------------------- MODULE ConcurrencySlots --------------------------
(***************************************************************************)
(* app/concurrency_slots.py with the counters of app/rate_limit.py: each   *)
(* HTTP call on a metered app holds at most one in-flight slot of its      *)
(* user, from the first check that lets it through until the call ends,    *)
(* however it ends.  The RPM/RPD check runs (and may suspend) between the  *)
(* taking of the slot and the verdict.                                     *)
(***************************************************************************)
EXTENDS Integers, FiniteSets

CONSTANTS
    Calls,      \* ASGI calls; one that has ended is reused for a later call
    Users,
    MaxLimit,   \* bound on the caps an admin sets
    NoUser

ASSUME SlotAssumption ==
    /\ IsFiniteSet(Calls)
    /\ NoUser \notin Users
    /\ MaxLimit \in Nat \ {0}

\* max_concurrent_requests is null or at least 1 (validate_concurrency).
Unlimited == 0
Limits == 0..MaxLimit

VARIABLES
    phase,      \* where the call is
    caller,     \* whom it authenticated as
    holder,     \* its _SlotHolder's user_id
    took,       \* the running charge_with_slot took the slot itself
    admitted,   \* some check of this call has let it through
    inflight,   \* _inflight (an absent key is 0)
    limit       \* each user's cap, from the profile

vars == <<phase, caller, holder, took, admitted, inflight, limit>>

TypeOK ==
    /\ phase \in [Calls -> {"idle", "open", "charging", "refused"}]
    /\ caller \in [Calls -> Users \cup {NoUser}]
    /\ holder \in [Calls -> Users \cup {NoUser}]
    /\ took \in [Calls -> BOOLEAN]
    /\ admitted \in [Calls -> BOOLEAN]
    /\ inflight \in [Users -> Nat]
    /\ limit \in [Users -> Limits]

Init ==
    /\ phase = [c \in Calls |-> "idle"]
    /\ caller = [c \in Calls |-> NoUser]
    /\ holder = [c \in Calls |-> NoUser]
    /\ took = [c \in Calls |-> FALSE]
    /\ admitted = [c \in Calls |-> FALSE]
    /\ inflight = [u \in Users |-> 0]
    /\ limit \in [Users -> Limits]

-----------------------------------------------------------------------------
\* The middleware makes the holder; authentication finds the user.
Open(c, u) ==
    /\ phase[c] = "idle"
    /\ phase' = [phase EXCEPT ![c] = "open"]
    /\ caller' = [caller EXCEPT ![c] = u]
    /\ UNCHANGED <<holder, took, admitted, inflight, limit>>

AtCap(u) == limit[u] # Unlimited /\ inflight[u] >= limit[u]

\* try_acquire_slot, not denying: unlimited users are counted too.
TryAcquireSlot(u) ==
    /\ ~ AtCap(u)
    /\ inflight' = [inflight EXCEPT ![u] = @ + 1]

\* Mutant: the holder keeps its user_id and releases again at the end.
ReleaseTwice(c) ==
    /\ holder' = holder
    /\ inflight' = IF holder[c] = NoUser THEN inflight
                   ELSE [inflight EXCEPT ![holder[c]] = IF @ <= 1 THEN 0 ELSE @ - 1]

\* _SlotHolder.release and release_slot: idempotent.
Release(c) ==
    /\ holder' = [holder EXCEPT ![c] = NoUser]
    /\ inflight' = IF holder[c] = NoUser THEN inflight
                   ELSE [inflight EXCEPT ![holder[c]] = IF @ <= 1 THEN 0 ELSE @ - 1]

\* charge_with_slot up to its await: the slot comes before the charge, so a call
\* refused for concurrency spends no RPM or RPD.
TakeSlot(c) ==
    /\ phase[c] = "open" /\ holder[c] = NoUser
    /\ TryAcquireSlot(caller[c])
    /\ holder' = [holder EXCEPT ![c] = caller[c]]
    /\ took' = [took EXCEPT ![c] = TRUE]
    /\ phase' = [phase EXCEPT ![c] = "charging"]
    /\ UNCHANGED <<caller, admitted, limit>>

RefuseSlot(c) ==
    /\ phase[c] = "open" /\ holder[c] = NoUser
    /\ AtCap(caller[c])
    /\ phase' = [phase EXCEPT ![c] = "refused"]
    /\ UNCHANGED <<caller, holder, took, admitted, inflight, limit>>

\* A later check of a call that has its slot.
KeepSlot(c) ==
    /\ phase[c] = "open" /\ holder[c] # NoUser
    /\ took' = [took EXCEPT ![c] = FALSE]
    /\ phase' = [phase EXCEPT ![c] = "charging"]
    /\ UNCHANGED <<caller, holder, admitted, inflight, limit>>

\* The charge allows (a BYOK call is charged nothing).
ChargeAllows(c) ==
    /\ phase[c] = "charging"
    /\ phase' = [phase EXCEPT ![c] = "open"]
    /\ admitted' = [admitted EXCEPT ![c] = TRUE]
    /\ UNCHANGED <<caller, holder, took, inflight, limit>>

\* Mutant: any denial gives the slot back.
ChargeDeniesAlways(c) ==
    /\ phase[c] = "charging"
    /\ Release(c)
    /\ phase' = [phase EXCEPT ![c] = "refused"]
    /\ UNCHANGED <<caller, took, admitted, limit>>

\* The charge denies: only a slot this check took is given back.
ChargeDenies(c) ==
    /\ phase[c] = "charging"
    /\ IF took[c] THEN Release(c) ELSE UNCHANGED <<holder, inflight>>
    /\ phase' = [phase EXCEPT ![c] = "refused"]
    /\ UNCHANGED <<caller, took, admitted, limit>>

\* The call returns, raises or is cancelled, in the middle of a charge too.
Close(c) ==
    /\ phase[c] # "idle"
    /\ Release(c)
    /\ phase' = [phase EXCEPT ![c] = "idle"]
    /\ caller' = [caller EXCEPT ![c] = NoUser]
    /\ took' = [took EXCEPT ![c] = FALSE]
    /\ admitted' = [admitted EXCEPT ![c] = FALSE]
    /\ UNCHANGED limit

\* An admin edits the profile, or moves the user to another one.
SetLimit(u, n) ==
    /\ limit' = [limit EXCEPT ![u] = n]
    /\ UNCHANGED <<phase, caller, holder, took, admitted, inflight>>

Step(c) ==
    \/ \E u \in Users : Open(c, u)
    \/ TakeSlot(c) \/ RefuseSlot(c) \/ KeepSlot(c)
    \/ ChargeAllows(c) \/ ChargeDenies(c) \/ Close(c)

Next ==
    \/ \E c \in Calls : Step(c)
    \/ \E u \in Users, n \in Limits : SetLimit(u, n)

Spec == Init /\ [][Next]_vars

-----------------------------------------------------------------------------
Holding(u) == {c \in Calls : holder[c] = u}
Busy(u) == {c \in Calls : caller[c] = u /\ (phase[c] = "charging" \/ admitted[c])}

\* The counter that try_acquire_slot reads is exactly the number of calls holding a
\* slot of the user: no ending, refusal or second release leaks or doubles one.
InflightIsHolders == \A u \in Users : inflight[u] = Cardinality(Holding(u))

\* A user's calls that are being charged or have been let through never become
\* more than the cap in force at that moment, also right after a cap is set on a
\* user who had none (the requests open then count against it).
GrowsOnlyUnderCap ==
    [][\A u \in Users :
         ~ (Busy(u)' \subseteq Busy(u))
           => limit[u] = Unlimited \/ Cardinality(Busy(u)') <= limit[u]]_vars

\* A call that a check has let through keeps its slot until the call ends: the
\* denial of a later check does not give it back early.
SlotLastsAsLongAsTheCall ==
    [][\A c \in Calls :
         admitted[c] /\ holder[c] # NoUser /\ holder'[c] = NoUser => phase'[c] = "idle"]_vars
=============================================================================
