----------------------------- MODULE KeyedLocks -----------------------------
(***************************************************************************)
(* The keyed locks of app/rate_limit.py (_user_locks, _pool_locks): a      *)
(* dictionary of locks made on demand, swept by _evict_stale_buckets, each *)
(* one a TaskReentrantLock of app/concurrency.py over an asyncio.Lock.     *)
(*                                                                         *)
(* A task gets the lock and starts to acquire it without suspending.  The  *)
(* asyncio.Lock releases before its next waiter runs: a free lock with a   *)
(* woken head is the gap the sweep must not fall into.                     *)
(***************************************************************************)
EXTENDS Integers, Sequences, FiniteSets

CONSTANTS
    Keys,       \* user ids, or pool ids
    Tasks,      \* asyncio tasks
    Objs,       \* lock objects; an unreferenced one is garbage and reused
    MaxDepth,   \* bound on re-entrant nesting
    NoTask, NoObj, NoKey

ASSUME LockAssumption ==
    /\ NoTask \notin Tasks
    /\ NoObj \notin Objs
    /\ NoKey \notin Keys
    /\ MaxDepth \in Nat \ {0}

VARIABLES
    lockOf,     \* the dictionary
    owner,      \* _owner of each object; it is locked() iff this is a task
    depth,      \* _depth
    waiters,    \* the asyncio.Lock's queue of futures
    woken,      \* the future at the head of the queue is resolved
    at          \* where each task is: outside, queued or inside, on what

vars == <<lockOf, owner, depth, waiters, woken, at>>

Place == [pc : {"outside", "queued", "inside"}, key : Keys \cup {NoKey},
          obj : Objs \cup {NoObj}]
Outside == [pc |-> "outside", key |-> NoKey, obj |-> NoObj]

TypeOK ==
    /\ lockOf \in [Keys -> Objs \cup {NoObj}]
    /\ owner \in [Objs -> Tasks \cup {NoTask}]
    /\ depth \in [Objs -> 0..MaxDepth]
    /\ waiters \in [Objs -> Seq(Tasks)]
    /\ woken \in [Objs -> BOOLEAN]
    /\ at \in [Tasks -> Place]

Init ==
    /\ lockOf = [k \in Keys |-> NoObj]
    /\ owner = [o \in Objs |-> NoTask]
    /\ depth = [o \in Objs |-> 0]
    /\ waiters = [o \in Objs |-> << >>]
    /\ woken = [o \in Objs |-> FALSE]
    /\ at = [t \in Tasks |-> Outside]

-----------------------------------------------------------------------------
Locked(o) == owner[o] # NoTask

\* Mutant: the queue is not looked at.
InUseHolderOnly(o) == Locked(o)

\* lock_in_use: held, or somebody queued for it.
InUse(o) == Locked(o) \/ waiters[o] # << >>

Garbage(o) ==
    /\ \A k \in Keys : lockOf[k] # o
    /\ \A t \in Tasks : at[t].obj # o

\* pool_lock / _get_user_lock: the key's lock, made if there is none.
LockFor(k, o) == IF lockOf[k] = NoObj THEN o \in Objs /\ Garbage(o) ELSE o = lockOf[k]

\* _wake_up_first on release and on a cancelled wait.
Wakes(w) == w # << >>

\* __aenter__ by a task that holds nothing: nobody holds it and nobody queues.
Acquire(t, k, o) ==
    /\ at[t].pc = "outside" /\ LockFor(k, o)
    /\ ~ Locked(o) /\ waiters[o] = << >>
    /\ lockOf' = [lockOf EXCEPT ![k] = o]
    /\ owner' = [owner EXCEPT ![o] = t] /\ depth' = [depth EXCEPT ![o] = 1]
    /\ at' = [at EXCEPT ![t] = [pc |-> "inside", key |-> k, obj |-> o]]
    /\ UNCHANGED <<waiters, woken>>

\* __aenter__ that has to wait.
Queue(t, k, o) ==
    /\ at[t].pc = "outside" /\ o = lockOf[k] /\ o # NoObj
    /\ Locked(o) \/ waiters[o] # << >>
    /\ waiters' = [waiters EXCEPT ![o] = Append(@, t)]
    /\ at' = [at EXCEPT ![t] = [pc |-> "queued", key |-> k, obj |-> o]]
    /\ UNCHANGED <<lockOf, owner, depth, woken>>

\* __aenter__ by the owner.
Reenter(t) ==
    LET o == at[t].obj
    IN  /\ at[t].pc = "inside" /\ owner[o] = t
        /\ depth[o] < MaxDepth
        /\ depth' = [depth EXCEPT ![o] = @ + 1]
        /\ UNCHANGED <<lockOf, owner, waiters, woken, at>>

\* The woken waiter runs: it leaves the queue and takes the lock.
Take(t) ==
    LET o == at[t].obj
    IN  /\ at[t].pc = "queued"
        /\ woken[o] /\ waiters[o] # << >> /\ Head(waiters[o]) = t
        /\ waiters' = [waiters EXCEPT ![o] = Tail(@)]
        /\ woken' = [woken EXCEPT ![o] = FALSE]
        /\ owner' = [owner EXCEPT ![o] = t] /\ depth' = [depth EXCEPT ![o] = 1]
        /\ at' = [at EXCEPT ![t].pc = "inside"]
        /\ UNCHANGED lockOf

\* __aexit__: the outermost exit releases and wakes the head of the queue.
Exit(t) ==
    LET o == at[t].obj
    IN  /\ at[t].pc = "inside"
        /\ depth' = [depth EXCEPT ![o] = @ - 1]
        /\ IF depth[o] = 1
           THEN /\ owner' = [owner EXCEPT ![o] = NoTask]
                /\ at' = [at EXCEPT ![t] = Outside]
                /\ woken' = [woken EXCEPT ![o] = Wakes(waiters[o])]
           ELSE UNCHANGED <<owner, at, woken>>
        /\ UNCHANGED <<lockOf, waiters>>

Without(w, i) == [j \in 1..(Len(w) - 1) |-> IF j < i THEN w[j] ELSE w[j + 1]]

\* Mutant: a cancelled waiter takes the wake-up it had been given with it.
CancelForgets(t) ==
    LET o == at[t].obj
    IN  /\ at[t].pc = "queued"
        /\ \E i \in 1..Len(waiters[o]) :
             /\ waiters[o][i] = t
             /\ waiters' = [waiters EXCEPT ![o] = Without(@, i)]
             /\ woken' = [woken EXCEPT ![o] = @ /\ i # 1]
        /\ at' = [at EXCEPT ![t] = Outside]
        /\ UNCHANGED <<lockOf, owner, depth>>

\* A queued task is cancelled (the client went away): it leaves the queue and,
\* if the lock is free, passes the wake-up on.
Cancel(t) ==
    LET o == at[t].obj
    IN  /\ at[t].pc = "queued"
        /\ \E i \in 1..Len(waiters[o]) :
             /\ waiters[o][i] = t
             /\ waiters' = [waiters EXCEPT ![o] = Without(@, i)]
             /\ woken' = [woken EXCEPT ![o] = ~ Locked(o) /\ Wakes(Without(waiters[o], i))]
        /\ at' = [at EXCEPT ![t] = Outside]
        /\ UNCHANGED <<lockOf, owner, depth>>

\* _evict_stale_buckets: every lock not in use leaves the dictionary.
Evict ==
    /\ lockOf' = [k \in Keys |-> IF lockOf[k] # NoObj /\ InUse(lockOf[k])
                                 THEN lockOf[k] ELSE NoObj]
    /\ lockOf' # lockOf
    /\ UNCHANGED <<owner, depth, waiters, woken, at>>

Next ==
    \/ \E t \in Tasks :
         \/ \E k \in Keys, o \in Objs : Acquire(t, k, o) \/ Queue(t, k, o)
         \/ Reenter(t) \/ Take(t) \/ Exit(t) \/ Cancel(t)
    \/ Evict

Spec == Init /\ [][Next]_vars

\* The event loop runs a woken waiter, and every section, nested or not, ends.
Fairness == \A t \in Tasks : WF_vars(Take(t)) /\ WF_vars(Exit(t)) /\ []<>(at[t].pc # "inside")
FairSpec == Spec /\ Fairness

-----------------------------------------------------------------------------
\* Two tasks are never inside the section of one key, through one lock object or
\* through two: the sweep never replaces a lock that somebody is about to take.
MutualExclusion ==
    \A s, t \in Tasks :
        at[s].pc = "inside" /\ at[t].pc = "inside" /\ at[s].key = at[t].key => s = t

\* A task that queues gets in or is cancelled.
QueuedGetsIn == \A t \in Tasks : at[t].pc = "queued" ~> at[t].pc # "queued"
=============================================================================
