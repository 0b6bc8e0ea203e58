-------------------------- MODULE KeyedLocksProofs --------------------------
(* Mutual exclusion of KeyedLocks, for any keys, tasks and lock objects,   *)
(* and that a free lock with a queue has woken its head.  And StreamServe, *)
(* in the composition that TLC checks: for any budgets and intervals.      *)
EXTENDS MCKeyedLocks, TLAPS

\* Who holds or waits for a key does so through the lock the dictionary has.
Registered ==
    \A t \in Tasks : at[t].pc # "outside" =>
        /\ at[t].key \in Keys /\ at[t].obj \in Objs
        /\ lockOf[at[t].key] = at[t].obj

\* Whoever is inside owns the lock it came through.
Owned ==
    \A t \in Tasks : at[t].pc = "inside" =>
        owner[at[t].obj] = t /\ depth[at[t].obj] >= 1

\* Whoever waits is in the queue.
Queued ==
    \A t \in Tasks : at[t].pc = "queued" =>
        \E i \in 1..Len(waiters[at[t].obj]) : waiters[at[t].obj][i] = t

\* A wake-up is for somebody, and the lock is free for them.
WokenOK == \A o \in Objs : woken[o] => owner[o] = NoTask /\ waiters[o] # << >>

\* The inductive invariant.  MutualExclusion alone is not inductive: the sweep
\* preserves it only because a task in the gap between release and wake-up is
\* still in the queue (Queued) of the lock the dictionary has (Registered).
IInv == TypeOK /\ Registered /\ Owned /\ Queued /\ WokenOK

-----------------------------------------------------------------------------
\* Removing one position of a queue keeps everybody else.
LEMMA WithoutKeeps ==
    ASSUME NEW w \in Seq(Tasks), NEW i \in 1..Len(w)
    PROVE  /\ Without(w, i) \in Seq(Tasks)
           /\ \A j \in 1..Len(w) : j # i =>
                \E n \in 1..Len(Without(w, i)) : Without(w, i)[n] = w[j]
<1>1. Without(w, i) \in [1..(Len(w) - 1) -> Tasks]
  BY DEF Without
<1>2. Len(Without(w, i)) = Len(w) - 1 /\ Without(w, i) \in Seq(Tasks)
  BY <1>1
<1>3. ASSUME NEW j \in 1..Len(w), j # i
      PROVE  \E n \in 1..Len(Without(w, i)) : Without(w, i)[n] = w[j]
  <2>1. CASE j < i
    <3>1. j \in 1..(Len(w) - 1) /\ Without(w, i)[j] = w[j]
      BY <2>1 DEF Without
    <3> QED
      BY <3>1, <1>2
  <2>2. CASE j > i
    <3>1. j - 1 \in 1..(Len(w) - 1) /\ Without(w, i)[j - 1] = w[j]
      BY <2>2 DEF Without
    <3> QED
      BY <3>1, <1>2
  <2> QED
    BY <1>3, <2>1, <2>2
<1> QED
  BY <1>2, <1>3

\* Taking the head off a queue keeps everybody else.
LEMMA TailKeeps ==
    ASSUME NEW w \in Seq(Tasks), w # << >>
    PROVE  /\ Tail(w) \in Seq(Tasks)
           /\ \A j \in 1..Len(w) : w[j] # Head(w) =>
                \E n \in 1..Len(Tail(w)) : Tail(w)[n] = w[j]
<1>1. Tail(w) \in Seq(Tasks) /\ Len(Tail(w)) = Len(w) - 1
  OBVIOUS
<1>2. ASSUME NEW j \in 1..Len(w), w[j] # Head(w)
      PROVE  \E n \in 1..Len(Tail(w)) : Tail(w)[n] = w[j]
  <2>1. j # 1
    BY <1>2
  <2>2. j - 1 \in 1..Len(Tail(w)) /\ Tail(w)[j - 1] = w[j]
    BY <2>1, <1>1
  <2> QED
    BY <2>2
<1> QED
  BY <1>1, <1>2

LEMMA InitIInv == Init => IInv
  BY LockAssumption DEF Init, IInv, TypeOK, Place, Outside, Registered, Owned, Queued, WokenOK

LEMMA AcquireIInv ==
    ASSUME IInv, NEW t \in Tasks, NEW k \in Keys, NEW o \in Objs, Acquire(t, k, o)
    PROVE  IInv'
<1> USE LockAssumption DEF IInv
<1>0. /\ at' = [at EXCEPT ![t] = [pc |-> "inside", key |-> k, obj |-> o]]
      /\ lockOf' = [lockOf EXCEPT ![k] = o] /\ lockOf[k] \in {o, NoObj}
      /\ owner' = [owner EXCEPT ![o] = t] /\ depth' = [depth EXCEPT ![o] = 1]
      /\ owner[o] = NoTask /\ waiters[o] = << >> /\ UNCHANGED <<waiters, woken>>
  BY DEF Acquire, LockFor, Locked
<1>1. TypeOK'
  BY <1>0 DEF TypeOK, Place
<1>2. Registered'
  BY <1>0 DEF TypeOK, Registered
<1>3. Owned'
  BY <1>0 DEF TypeOK, Owned, Registered
<1>4. Queued'
  BY <1>0 DEF TypeOK, Queued
<1>5. WokenOK'
  BY <1>0 DEF TypeOK, WokenOK
<1> QED
  BY <1>1, <1>2, <1>3, <1>4, <1>5

LEMMA QueueIInv ==
    ASSUME IInv, NEW t \in Tasks, NEW k \in Keys, NEW o \in Objs, Queue(t, k, o)
    PROVE  IInv'
<1> USE LockAssumption DEF IInv
<1>0. /\ at[t].pc = "outside" /\ o = lockOf[k]
      /\ waiters' = [waiters EXCEPT ![o] = Append(@, t)]
      /\ at' = [at EXCEPT ![t] = [pc |-> "queued", key |-> k, obj |-> o]]
      /\ UNCHANGED <<lockOf, owner, depth, woken>>
  BY DEF Queue
<1>a. waiters[o] \in Seq(Tasks)
  BY DEF TypeOK
<1>1. TypeOK'
  BY <1>0, <1>a DEF TypeOK, Place
<1>2. Registered' /\ Owned'
  BY <1>0 DEF TypeOK, Registered, Owned
<1>3. Queued'
  <2> SUFFICES ASSUME NEW u \in Tasks, at'[u].pc = "queued"
               PROVE  \E i \in 1..Len(waiters'[at'[u].obj]) : waiters'[at'[u].obj][i] = u
    BY DEF Queued
  <2>1. CASE u = t
    <3>1. at'[u].obj = o /\ waiters'[o] = Append(waiters[o], t)
      BY <1>0, <2>1 DEF TypeOK
    <3>2. Len(waiters'[o]) \in 1..Len(waiters'[o]) /\ waiters'[o][Len(waiters'[o])] = t
      BY <3>1, <1>a
    <3> QED
      BY <3>1, <3>2, <2>1
  <2>2. CASE u # t
    <3>1. at'[u] = at[u] /\ at[u].obj \in Objs
      BY <1>0, <2>2 DEF TypeOK, Registered
    <3>2. PICK i \in 1..Len(waiters[at[u].obj]) : waiters[at[u].obj][i] = u
      BY <3>1 DEF Queued
    <3>3. CASE at[u].obj = o
      <4>1. i \in 1..Len(waiters'[o]) /\ waiters'[o][i] = u
        BY <3>2, <3>3, <1>0, <1>a DEF TypeOK
      <4> QED
        BY <4>1, <3>1, <3>3
    <3>4. CASE at[u].obj # o
      BY <3>1, <3>2, <3>4, <1>0 DEF TypeOK
    <3> QED
      BY <3>3, <3>4
  <2> QED
    BY <2>1, <2>2
<1>4. WokenOK'
  BY <1>0, <1>a DEF TypeOK, WokenOK
<1> QED
  BY <1>1, <1>2, <1>3, <1>4

LEMMA ReenterIInv ==
    ASSUME IInv, NEW t \in Tasks, Reenter(t)
    PROVE  IInv'
<1> USE LockAssumption DEF IInv
<1>1. TypeOK'
  BY DEF Reenter, TypeOK, Registered
<1>2. Owned'
  BY DEF Reenter, TypeOK, Registered, Owned
<1> QED
  BY <1>1, <1>2 DEF Reenter, Registered, Queued, WokenOK

LEMMA TakeIInv ==
    ASSUME IInv, NEW t \in Tasks, Take(t)
    PROVE  IInv'
<1> USE LockAssumption DEF IInv
<1> DEFINE o == at[t].obj
<1>0. /\ at[t].pc = "queued" /\ woken[o] /\ waiters[o] # << >> /\ Head(waiters[o]) = t
      /\ waiters' = [waiters EXCEPT ![o] = Tail(@)] /\ woken' = [woken EXCEPT ![o] = FALSE]
      /\ owner' = [owner EXCEPT ![o] = t] /\ depth' = [depth EXCEPT ![o] = 1]
      /\ at' = [at EXCEPT ![t].pc = "inside"] /\ lockOf' = lockOf
  BY DEF Take
<1>a. o \in Objs /\ waiters[o] \in Seq(Tasks) /\ owner[o] = NoTask
  BY <1>0 DEF TypeOK, Registered, WokenOK
<1>b. /\ Tail(waiters[o]) \in Seq(Tasks)
      /\ \A j \in 1..Len(waiters[o]) : waiters[o][j] # t =>
           \E n \in 1..Len(Tail(waiters[o])) : Tail(waiters[o])[n] = waiters[o][j]
  BY <1>0, <1>a, TailKeeps
<1>c. [at[t] EXCEPT !.pc = "inside"] \in Place
  BY DEF TypeOK, Place
<1>1. TypeOK'
  BY <1>0, <1>a, <1>b, <1>c DEF TypeOK
<1>2. Registered'
  BY <1>0, <1>a DEF TypeOK, Place, Registered
<1>3. Owned'
  BY <1>0, <1>a DEF TypeOK, Place, Owned, Registered
<1>4. Queued'
  <2> SUFFICES ASSUME NEW u \in Tasks, at'[u].pc = "queued"
               PROVE  \E i \in 1..Len(waiters'[at'[u].obj]) : waiters'[at'[u].obj][i] = u
    BY DEF Queued
  <2>1. u # t /\ at'[u] = at[u] /\ at[u].obj \in Objs
    BY <1>0 DEF TypeOK, Place, Registered
  <2>2. PICK i \in 1..Len(waiters[at[u].obj]) : waiters[at[u].obj][i] = u
    BY <2>1 DEF Queued
  <2>3. CASE at[u].obj = o
    <3>1. \E n \in 1..Len(Tail(waiters[o])) : Tail(waiters[o])[n] = u
      BY <2>1, <2>2, <2>3, <1>b
    <3> QED
      BY <3>1, <2>1, <2>3, <1>0 DEF TypeOK
  <2>4. CASE at[u].obj # o
    BY <2>1, <2>2, <2>4, <1>0 DEF TypeOK
  <2> QED
    BY <2>3, <2>4
<1>5. WokenOK'
  BY <1>0, <1>a DEF TypeOK, WokenOK
<1> QED
  BY <1>1, <1>2, <1>3, <1>4, <1>5

LEMMA ExitIInv ==
    ASSUME IInv, NEW t \in Tasks, Exit(t)
    PROVE  IInv'
<1> USE LockAssumption DEF IInv
<1> DEFINE o == at[t].obj
<1>0. at[t].pc = "inside" /\ depth' = [depth EXCEPT ![o] = @ - 1] /\ UNCHANGED <<lockOf, waiters>>
  BY DEF Exit
<1>a. o \in Objs /\ owner[o] = t /\ depth[o] \in 1..MaxDepth
  BY <1>0 DEF TypeOK, Registered, Owned
<1>1. CASE depth[o] = 1
  <2>0. /\ owner' = [owner EXCEPT ![o] = NoTask] /\ at' = [at EXCEPT ![t] = Outside]
        /\ woken' = [woken EXCEPT ![o] = Wakes(waiters[o])]
    BY <1>1 DEF Exit
  <2>1. TypeOK'
    BY <2>0, <1>0, <1>a DEF TypeOK, Place, Outside, Wakes
  <2>2. Registered'
    BY <2>0, <1>0 DEF TypeOK, Registered, Outside
  <2>3. Owned'
    BY <2>0, <1>0, <1>a DEF TypeOK, Owned, Registered, Outside
  <2>4. Queued'
    BY <2>0, <1>0 DEF TypeOK, Queued, Outside
  <2>5. WokenOK'
    BY <2>0, <1>0 DEF TypeOK, WokenOK, Wakes
  <2> QED
    BY <2>1, <2>2, <2>3, <2>4, <2>5
<1>2. CASE depth[o] # 1
  <2>0. UNCHANGED <<owner, at, woken>>
    BY <1>2 DEF Exit
  <2>1. TypeOK'
    BY <2>0, <1>0, <1>a DEF TypeOK
  <2>2. Owned'
    BY <2>0, <1>0, <1>a, <1>2 DEF TypeOK, Owned, Registered
  <2> QED
    BY <2>0, <2>1, <2>2, <1>0 DEF Registered, Queued, WokenOK
<1> QED
  BY <1>1, <1>2

LEMMA CancelIInv ==
    ASSUME IInv, NEW t \in Tasks, Cancel(t)
    PROVE  IInv'
<1> USE LockAssumption DEF IInv
<1> DEFINE o == at[t].obj
<1>0. PICK p \in 1..Len(waiters[o]) :
        /\ at[t].pc = "queued" /\ waiters[o][p] = t
        /\ waiters' = [waiters EXCEPT ![o] = Without(@, p)]
        /\ woken' = [woken EXCEPT ![o] = ~ Locked(o) /\ Wakes(Without(waiters[o], p))]
        /\ at' = [at EXCEPT ![t] = Outside] /\ UNCHANGED <<lockOf, owner, depth>>
  BY DEF Cancel
<1>a. o \in Objs /\ waiters[o] \in Seq(Tasks)
  BY <1>0 DEF TypeOK, Registered
<1>b. Without(waiters[o], p) \in Seq(Tasks)
  BY <1>a, WithoutKeeps
<1>1. TypeOK'
  BY <1>0, <1>a, <1>b DEF TypeOK, Place, Outside, Locked, Wakes
<1>2. Registered' /\ Owned'
  BY <1>0 DEF TypeOK, Registered, Owned, Outside
<1>3. Queued'
  <2> SUFFICES ASSUME NEW u \in Tasks, at'[u].pc = "queued"
               PROVE  \E i \in 1..Len(waiters'[at'[u].obj]) : waiters'[at'[u].obj][i] = u
    BY DEF Queued
  <2>1. u # t /\ at'[u] = at[u] /\ at[u].obj \in Objs
    BY <1>0 DEF TypeOK, Registered, Outside
  <2>2. PICK i \in 1..Len(waiters[at[u].obj]) : waiters[at[u].obj][i] = u
    BY <2>1 DEF Queued
  <2>3. CASE at[u].obj = o
    <3>1. i # p
      BY <2>1, <2>2, <2>3, <1>0
    <3>2. \E n \in 1..Len(Without(waiters[o], p)) : Without(waiters[o], p)[n] = u
      BY <3>1, <2>2, <2>3, <1>a, WithoutKeeps, SMTT(20)
    <3> QED
      BY <3>2, <2>1, <2>3, <1>0 DEF TypeOK
  <2>4. CASE at[u].obj # o
    BY <2>1, <2>2, <2>4, <1>0 DEF TypeOK
  <2> QED
    BY <2>3, <2>4
<1>4. WokenOK'
  BY <1>0, <1>a DEF TypeOK, WokenOK, Locked, Wakes
<1> QED
  BY <1>1, <1>2, <1>3, <1>4

\* The sweep: a lock with a holder or a queue stays in the dictionary.
LEMMA EvictIInv ==
    ASSUME IInv, Evict
    PROVE  IInv'
<1> USE LockAssumption DEF IInv
<1>1. TypeOK'
  BY DEF Evict, TypeOK
<1>2. Registered'
  <2> SUFFICES ASSUME NEW t \in Tasks, at[t].pc # "outside"
               PROVE  lockOf'[at[t].key] = at[t].obj
    BY DEF Evict, Registered
  <2>1. at[t].key \in Keys /\ at[t].obj \in Objs /\ lockOf[at[t].key] = at[t].obj
    BY DEF Registered
  <2>2. at[t].pc \in {"queued", "inside"}
    BY DEF TypeOK, Place
  <2>3. InUse(at[t].obj)
    <3>1. CASE at[t].pc = "inside"
      BY <3>1 DEF InUse, Locked, Owned
    <3>2. CASE at[t].pc = "queued"
      <4>1. PICK i \in 1..Len(waiters[at[t].obj]) : waiters[at[t].obj][i] = t
        BY <3>2 DEF Queued
      <4>2. waiters[at[t].obj] # << >>
        BY <4>1
      <4> QED
        BY <4>2 DEF InUse
    <3> QED
      BY <2>2, <3>1, <3>2
  <2> QED
    BY <2>1, <2>3 DEF Evict
<1> QED
  BY <1>1, <1>2 DEF Evict, Owned, Queued, WokenOK

LEMMA NextIInv == IInv /\ [Next]_vars => IInv'
<1>1. ASSUME IInv, UNCHANGED vars PROVE IInv'
  BY <1>1 DEF vars, IInv, TypeOK, Registered, Owned, Queued, WokenOK
<1> QED
  BY <1>1, AcquireIInv, QueueIInv, ReenterIInv, TakeIInv, ExitIInv, CancelIInv, EvictIInv
  DEF Next

-----------------------------------------------------------------------------
\* The dictionary, the locks and the tasks stay well-formed.
THEOREM TypeCorrect == Spec => []TypeOK
<1>1. IInv => TypeOK
  BY DEF IInv
<1> QED
  BY <1>1, InitIInv, NextIInv, PTL DEF Spec

\* The sections of one key exclude each other whatever is swept, nested or
\* cancelled: both tasks came through the one lock the dictionary has.
THEOREM Exclusion == Spec => []MutualExclusion
<1>1. IInv => MutualExclusion
  BY DEF IInv, MutualExclusion, Registered, Owned
<1> QED
  BY <1>1, InitIInv, NextIInv, PTL DEF Spec

-----------------------------------------------------------------------------
\* Whoever is in a queue waits there, once.
InQueue == \A o \in Objs : \A i \in 1..Len(waiters[o]) :
    at[waiters[o][i]].pc = "queued" /\ at[waiters[o][i]].obj = o
Once == \A o \in Objs : \A i, j \in 1..Len(waiters[o]) : waiters[o][i] = waiters[o][j] => i = j

\* A lock that is taken is held by a task that is inside it.
Held == \A o \in Objs : owner[o] # NoTask => at[owner[o]].pc = "inside" /\ at[owner[o]].obj = o

\* A lock that is free wakes the queue.
Roused == \A o \in Objs : waiters[o] # << >> /\ ~ Locked(o) => woken[o]

QInv == InQueue /\ Once /\ Held /\ Roused

\* A task queued for a lock has somebody to wait for: an owner that is inside and will
\* leave, or a woken head that is queued and will run.
QueuesAreServed == \A t \in Tasks : at[t].pc = "queued" =>
    LET o == at[t].obj
        head == Head(waiters[o])
    IN  \/ owner[o] \in Tasks /\ at[owner[o]].pc = "inside" /\ at[owner[o]].obj = o
        \/ woken[o] /\ head \in Tasks /\ at[head].pc = "queued" /\ at[head].obj = o

LEMMA AcquireServed ==
    ASSUME IInv, QInv, NEW t \in Tasks, NEW k \in Keys, NEW o \in Objs, Acquire(t, k, o)
    PROVE  QInv'
<1>1. /\ at[t].pc = "outside" /\ at' = [at EXCEPT ![t] = [pc |-> "inside", key |-> k, obj |-> o]]
      /\ owner' = [owner EXCEPT ![o] = t] /\ owner[o] = NoTask /\ waiters[o] = << >> /\ UNCHANGED <<waiters, woken>>
    BY DEF Acquire, Locked
<1>2. \A u \in Tasks : u # t => at'[u] = at[u]
    BY <1>1 DEF IInv, TypeOK
<1>3. at'[t].pc = "inside" /\ at'[t].obj = o
    BY <1>1 DEF IInv, TypeOK
<1>4. \A p \in Objs : waiters[p] \in Seq(Tasks) /\ owner[p] \in Tasks \cup {NoTask}
    BY DEF IInv, TypeOK
<1>5. InQueue'
    <2>1. ASSUME NEW p \in Objs, NEW i \in 1..Len(waiters[p])
          PROVE  waiters[p][i] \in Tasks /\ waiters[p][i] # t
        BY <1>1, <1>4 DEF QInv, InQueue
    <2> QED
        BY <1>1, <1>2, <2>1 DEF QInv, InQueue
<1>6. Held'
    BY <1>1, <1>2, <1>3, <1>4 DEF QInv, Held, IInv, TypeOK
<1>7. Once' /\ Roused'
    BY <1>1 DEF QInv, Once, Roused, Locked, IInv, TypeOK
<1> QED
    BY <1>5, <1>6, <1>7 DEF QInv

LEMMA QueueServed ==
    ASSUME IInv, QInv, NEW t \in Tasks, NEW k \in Keys, NEW o \in Objs, Queue(t, k, o)
    PROVE  QInv'
<1>1. /\ at[t].pc = "outside" /\ at' = [at EXCEPT ![t] = [pc |-> "queued", key |-> k, obj |-> o]]
      /\ waiters' = [waiters EXCEPT ![o] = Append(@, t)] /\ UNCHANGED <<owner, woken>>
      /\ Locked(o) \/ waiters[o] # << >>
    BY DEF Queue
<1>2. /\ \A u \in Tasks : u # t => at'[u] = at[u]
      /\ at'[t].pc = "queued" /\ at'[t].obj = o
    BY <1>1 DEF IInv, TypeOK
<1>3. \A p \in Objs : waiters[p] \in Seq(Tasks) /\ owner[p] \in Tasks \cup {NoTask}
    BY DEF IInv, TypeOK
<1>4. ASSUME NEW p \in Objs, NEW i \in 1..Len(waiters[p])
      PROVE  waiters[p][i] \in Tasks /\ waiters[p][i] # t
    BY <1>1, <1>3 DEF QInv, InQueue
<1>5. ASSUME NEW p \in Objs, NEW i \in 1..Len(waiters'[p])
      PROVE  \/ i \in 1..Len(waiters[p]) /\ waiters'[p][i] = waiters[p][i]
             \/ p = o /\ i = Len(waiters[p]) + 1 /\ waiters'[p][i] = t
    <2>1. CASE p = o
        BY <1>1, <1>3, <2>1 DEF IInv, TypeOK
    <2>2. CASE p # o
        BY <1>1, <1>3, <2>2 DEF IInv, TypeOK
    <2> QED
        BY <2>1, <2>2
<1>6. InQueue'
    BY <1>2, <1>4, <1>5 DEF QInv, InQueue
<1>7. Once'
    <2>1. SUFFICES ASSUME NEW p \in Objs, NEW i \in 1..Len(waiters'[p]), NEW j \in 1..Len(waiters'[p]),
                          waiters'[p][i] = waiters'[p][j]
                   PROVE  i = j
        BY DEF Once
    <2>2. Len(waiters[p]) \in Nat
        BY <1>3
    <2>3. \/ i \in 1..Len(waiters[p]) /\ waiters'[p][i] = waiters[p][i]
          \/ i = Len(waiters[p]) + 1 /\ waiters'[p][i] = t
        BY <1>5
    <2>4. \/ j \in 1..Len(waiters[p]) /\ waiters'[p][j] = waiters[p][j]
          \/ j = Len(waiters[p]) + 1 /\ waiters'[p][j] = t
        BY <1>5
    <2>5. \A m, n \in 1..Len(waiters[p]) : waiters[p][m] = waiters[p][n] => m = n
        BY DEF QInv, Once
    <2>6. \A m \in 1..Len(waiters[p]) : waiters[p][m] # t
        BY <1>4
    <2> QED
        BY <2>1, <2>2, <2>3, <2>4, <2>5, <2>6
<1>8. Held'
    BY <1>1, <1>2, <1>3, LockAssumption DEF QInv, Held
<1>9. Roused'
    BY <1>1, <1>3 DEF QInv, Roused, Locked, IInv, TypeOK
<1> QED
    BY <1>6, <1>7, <1>8, <1>9 DEF QInv

LEMMA TakeServed ==
    ASSUME IInv, QInv, NEW t \in Tasks, Take(t)
    PROVE  QInv'
<1>1. PICK o \in Objs : o = at[t].obj
    BY DEF Take, IInv, Registered
<1>2. /\ at[t].pc = "queued" /\ waiters[o] # << >> /\ Head(waiters[o]) = t /\ woken[o]
      /\ waiters' = [waiters EXCEPT ![o] = Tail(@)] /\ woken' = [woken EXCEPT ![o] = FALSE]
      /\ owner' = [owner EXCEPT ![o] = t] /\ at' = [at EXCEPT ![t].pc = "inside"]
    BY <1>1 DEF Take
<1>3. \A p \in Objs : waiters[p] \in Seq(Tasks) /\ owner[p] \in Tasks \cup {NoTask}
    BY DEF IInv, TypeOK
<1>4. /\ \A u \in Tasks : u # t => at'[u] = at[u]
      /\ at'[t].pc = "inside" /\ at'[t].obj = o
    BY <1>1, <1>2 DEF IInv, TypeOK, Place
<1>5. ASSUME NEW p \in Objs, NEW i \in 1..Len(waiters'[p])
      PROVE  \E j \in 1..Len(waiters[p]) : /\ waiters'[p][i] = waiters[p][j] /\ waiters[p][j] \in Tasks \ {t}
                                          /\ j = IF p = o THEN i + 1 ELSE i
    <2>1. CASE p = o
        <3>1. waiters'[p] = Tail(waiters[o]) /\ Len(waiters[o]) \in Nat
            BY <1>2, <1>3, <2>1 DEF IInv, TypeOK
        <3>2. i + 1 \in 1..Len(waiters[o]) /\ waiters'[p][i] = waiters[o][i + 1] /\ 1 \in 1..Len(waiters[o]) /\ waiters[o][1] = t
            <4>1. waiters[o] \in Seq(Tasks) /\ waiters[o] # << >> /\ Len(Tail(waiters[o])) = Len(waiters[o]) - 1
                BY <1>2, <1>3
            <4>2. i \in 1..Len(Tail(waiters[o])) /\ waiters'[p][i] = Tail(waiters[o])[i]
                BY <3>1
            <4>3. i + 1 \in 1..Len(waiters[o]) /\ Tail(waiters[o])[i] = waiters[o][i + 1]
                BY <4>1, <4>2
            <4>4. 1 \in 1..Len(waiters[o]) /\ waiters[o][1] = t
                BY <1>2, <4>1
            <4> QED
                BY <4>2, <4>3, <4>4
        <3>3. i + 1 # 1
            OBVIOUS
        <3>4. waiters[o][i + 1] # t
            BY <3>2, <3>3 DEF QInv, Once
        <3>5. waiters[o][i + 1] \in Tasks
            BY <1>3, <3>2
        <3> QED
            BY <2>1, <3>2, <3>4, <3>5
    <2>2. CASE p # o
        <3>1. waiters'[p] = waiters[p]
            BY <1>2, <2>2 DEF IInv, TypeOK
        <3>2. waiters[p][i] \in Tasks
            BY <1>3, <3>1
        <3>3. waiters[p][i] # t
            BY <1>1, <2>2, <3>1 DEF QInv, InQueue
        <3> QED
            BY <2>2, <3>1, <3>2, <3>3
    <2> QED
        BY <2>1, <2>2
<1>6. InQueue'
    <2>1. SUFFICES ASSUME NEW p \in Objs, NEW i \in 1..Len(waiters'[p])
                   PROVE  LET u == waiters'[p][i] IN at'[u].pc = "queued" /\ at'[u].obj = p
        BY DEF InQueue
    <2>2. PICK j \in 1..Len(waiters[p]) : waiters'[p][i] = waiters[p][j] /\ waiters[p][j] \in Tasks \ {t}
        BY <1>5
    <2>3. at[waiters[p][j]].pc = "queued" /\ at[waiters[p][j]].obj = p
        BY DEF QInv, InQueue
    <2> QED
        BY <1>4, <2>2, <2>3
<1>7. Once'
    BY <1>5 DEF QInv, Once
<1>8. Held'
    BY <1>2, <1>3, <1>4 DEF QInv, Held, IInv, TypeOK
<1>9. Roused'
    BY <1>2, LockAssumption DEF QInv, Roused, Locked, IInv, TypeOK
<1> QED
    BY <1>6, <1>7, <1>8, <1>9 DEF QInv

LEMMA ExitServed ==
    ASSUME IInv, QInv, NEW t \in Tasks, Exit(t)
    PROVE  QInv'
<1>1. PICK o \in Objs : o = at[t].obj /\ owner[o] = t /\ at[t].pc = "inside"
    BY DEF Exit, IInv, Registered, Owned
<1>2. \A p \in Objs : waiters[p] \in Seq(Tasks) /\ owner[p] \in Tasks \cup {NoTask}
    BY DEF IInv, TypeOK
<1>3. CASE depth[o] = 1
    <2>1. /\ owner' = [owner EXCEPT ![o] = NoTask] /\ at' = [at EXCEPT ![t] = Outside]
          /\ woken' = [woken EXCEPT ![o] = Wakes(waiters[o])] /\ waiters' = waiters
        BY <1>1, <1>3 DEF Exit
    <2>2. \A u \in Tasks : u # t => at'[u] = at[u]
        BY <2>1 DEF IInv, TypeOK
    <2>3. InQueue'
        <3>1. ASSUME NEW p \in Objs, NEW i \in 1..Len(waiters[p])
              PROVE  waiters[p][i] \in Tasks \ {t}
            BY <1>1, <1>2 DEF QInv, InQueue
        <3> QED
            BY <2>1, <2>2, <3>1 DEF QInv, InQueue
    <2>4. Held'
        BY <1>1, <1>2, <2>1, <2>2 DEF QInv, Held, IInv, TypeOK
    <2>5. Once' /\ Roused'
        BY <2>1 DEF QInv, Once, Roused, Locked, Wakes, IInv, TypeOK
    <2> QED
        BY <2>3, <2>4, <2>5 DEF QInv
<1>4. CASE depth[o] # 1
    <2>1. UNCHANGED <<owner, at, woken, waiters>>
        BY <1>1, <1>4 DEF Exit
    <2> QED
        BY <2>1 DEF QInv, InQueue, Once, Held, Roused, Locked
<1> QED
    BY <1>3, <1>4

LEMMA CancelServed ==
    ASSUME IInv, QInv, NEW t \in Tasks, Cancel(t)
    PROVE  QInv'
<1>1. PICK o \in Objs : o = at[t].obj /\ at[t].pc = "queued"
    BY DEF Cancel, IInv, Registered
<1>2. PICK n \in 1..Len(waiters[o]) :
        /\ waiters[o][n] = t /\ waiters' = [waiters EXCEPT ![o] = Without(@, n)]
        /\ woken' = [woken EXCEPT ![o] = ~ Locked(o) /\ Wakes(Without(waiters[o], n))]
        /\ at' = [at EXCEPT ![t] = Outside] /\ owner' = owner
    BY <1>1 DEF Cancel
<1>3. \A p \in Objs : waiters[p] \in Seq(Tasks) /\ owner[p] \in Tasks \cup {NoTask}
    BY DEF IInv, TypeOK
<1>4. \A u \in Tasks : u # t => at'[u] = at[u]
    BY <1>2 DEF IInv, TypeOK
<1>5. ASSUME NEW p \in Objs, NEW i \in 1..Len(waiters'[p])
      PROVE  \E j \in 1..Len(waiters[p]) : /\ waiters'[p][i] = waiters[p][j] /\ waiters[p][j] \in Tasks \ {t}
                                          /\ j = IF p = o /\ i >= n THEN i + 1 ELSE i
    <2>1. CASE p = o
        <3>1. waiters'[p] = Without(waiters[o], n) /\ Len(waiters[o]) \in Nat
            BY <1>2, <1>3, <2>1 DEF IInv, TypeOK
        <3>2. Without(waiters[o], n) \in Seq(Tasks) /\ Len(Without(waiters[o], n)) = Len(waiters[o]) - 1
            <4>1. Without(waiters[o], n) \in [1..(Len(waiters[o]) - 1) -> Tasks]
                BY <1>3, <3>1 DEF Without
            <4> QED
                BY <3>1, <4>1
        <3>3. PICK j : j = IF i >= n THEN i + 1 ELSE i
            OBVIOUS
        <3>4. j \in 1..Len(waiters[o]) /\ j # n /\ waiters'[p][i] = waiters[o][j]
            BY <3>1, <3>2, <3>3 DEF Without
        <3>5. waiters[o][j] # t
            BY <1>2, <3>4 DEF QInv, Once
        <3>6. waiters[o][j] \in Tasks
            BY <1>3, <3>4
        <3> QED
            BY <2>1, <3>3, <3>4, <3>5, <3>6
    <2>2. CASE p # o
        <3>1. waiters'[p] = waiters[p]
            BY <1>2, <2>2 DEF IInv, TypeOK
        <3>2. waiters[p][i] \in Tasks
            BY <1>3, <3>1
        <3>3. waiters[p][i] # t
            BY <1>1, <2>2, <3>1 DEF QInv, InQueue
        <3> QED
            BY <2>2, <3>1, <3>2, <3>3
    <2> QED
        BY <2>1, <2>2
<1>6. InQueue'
    <2>1. SUFFICES ASSUME NEW p \in Objs, NEW i \in 1..Len(waiters'[p])
                   PROVE  LET u == waiters'[p][i] IN at'[u].pc = "queued" /\ at'[u].obj = p
        BY DEF InQueue
    <2>2. PICK j \in 1..Len(waiters[p]) : waiters'[p][i] = waiters[p][j] /\ waiters[p][j] \in Tasks \ {t}
        BY <1>5
    <2>3. at[waiters[p][j]].pc = "queued" /\ at[waiters[p][j]].obj = p
        BY DEF QInv, InQueue
    <2> QED
        BY <1>4, <2>2, <2>3
<1>7. Once'
    <2>1. SUFFICES ASSUME NEW p \in Objs, NEW i \in 1..Len(waiters'[p]), NEW j \in 1..Len(waiters'[p]),
                          waiters'[p][i] = waiters'[p][j]
                   PROVE  i = j
        BY DEF Once
    <2>2. PICK a \in 1..Len(waiters[p]) : waiters'[p][i] = waiters[p][a] /\ a = IF p = o /\ i >= n THEN i + 1 ELSE i
        BY <1>5
    <2>3. PICK b \in 1..Len(waiters[p]) : waiters'[p][j] = waiters[p][b] /\ b = IF p = o /\ j >= n THEN j + 1 ELSE j
        BY <1>5
    <2>4. a = b
        BY <2>1, <2>2, <2>3 DEF QInv, Once
    <2> QED
        BY <2>2, <2>3, <2>4
<1>8. Held'
    <2>1. \A p \in Objs : owner[p] # NoTask => owner[p] \in Tasks \ {t}
        BY <1>1, <1>3 DEF QInv, Held
    <2> QED
        BY <1>2, <1>4, <2>1 DEF QInv, Held
<1>9. Roused'
    BY <1>2 DEF QInv, Roused, Locked, Wakes, IInv, TypeOK
<1> QED
    BY <1>6, <1>7, <1>8, <1>9 DEF QInv

LEMMA NextServed == IInv /\ QInv /\ [Next]_vars => QInv'
<1>1. ASSUME QInv, UNCHANGED <<owner, waiters, woken, at>> PROVE QInv'
    BY <1>1 DEF QInv, InQueue, Once, Held, Roused, Locked
<1>2. ASSUME QInv, (\E t \in Tasks : Reenter(t)) \/ Evict \/ UNCHANGED vars PROVE QInv'
    BY <1>1, <1>2 DEF Reenter, Evict, vars
<1> QED
    BY <1>2, AcquireServed, QueueServed, TakeServed, ExitServed, CancelServed DEF Next

\* The safety half of QueuedGetsIn: no wake-up is lost to a cancelled waiter, a nested
\* exit or the sweep, so a queue always has somebody whose next step serves it.
THEOREM NoLostWakeup == Spec => []QueuesAreServed
<1>1. Init => QInv
    BY DEF Init, QInv, InQueue, Once, Held, Roused, Locked
<1>2. IInv /\ QInv => QueuesAreServed
    <2>1. SUFFICES ASSUME IInv, QInv, NEW t \in Tasks, at[t].pc = "queued"
                   PROVE  LET o == at[t].obj
                              head == Head(waiters[o])
                          IN  \/ owner[o] \in Tasks /\ at[owner[o]].pc = "inside" /\ at[owner[o]].obj = o
                              \/ woken[o] /\ head \in Tasks /\ at[head].pc = "queued" /\ at[head].obj = o
        BY DEF QueuesAreServed
    <2>2. PICK o \in Objs : o = at[t].obj
        BY <2>1 DEF IInv, Registered
    <2>3. waiters[o] # << >> /\ waiters[o] \in Seq(Tasks) /\ owner[o] \in Tasks \cup {NoTask}
        BY <2>1, <2>2 DEF IInv, Queued, TypeOK
    <2>4. 1 \in 1..Len(waiters[o]) /\ Head(waiters[o]) = waiters[o][1] /\ waiters[o][1] \in Tasks
        BY <2>3
    <2> QED
        BY <2>1, <2>2, <2>3, <2>4 DEF QInv, InQueue, Held, Roused, Locked
<1> QED
    BY <1>1, <1>2, InitIInv, NextIInv, NextServed, PTL DEF Spec
-----------------------------------------------------------------------------
(* StreamServe.  Whoever was told of an error, or has one in the box, has   *)
(* it as the outcome, which no later word replaces; and while the generator *)
(* hands things on its record is open (Open), so that nobody is told later. *)

Word == {"chunk", "errChunk", "stop", "err", "lateErr", "keepalive", "error", "done"}
Bad == {"err", "error"}

StreamTypes ==
    /\ api \in {"chat", "messages"}
    /\ pc \in {"handler", "answered", "top", "wait", "out", "cleanup", "closing", "finish", "done"}
    /\ fetch \in {"none", "pending"} \cup Stream!Items
    /\ up \in {"open", "closed", "leaked"}
    /\ age \in 0..Stream!MaxAge /\ waited \in 0..Stream!MaxAge /\ quiet \in 0..Stream!MaxAge
    /\ polled \in 0..Stream!MaxAge /\ silence \in 0..Stream!MaxAge
    /\ stopped \in BOOLEAN /\ seen \in BOOLEAN /\ late \in BOOLEAN /\ last \in BOOLEAN
    /\ gone \in BOOLEAN /\ told \in BOOLEAN
    /\ exc \in {"none", "cancel", "exit", "raise", "bad", "lost"}
    /\ final \in Stream!Ends /\ outcome \in Stream!Ends \cup {None} /\ record \in Stream!Ends \cup {"active"}

Boxed == box \in Seq(Word) /\ (pc = "out" => box # << >>)

Outcome ==
    /\ told \/ fetch = "err" => outcome = "errored"
    /\ \A i \in 1..Len(box) : box[i] \in Bad => outcome = "errored"

Open == pc \in {"handler", "top", "wait", "out"} => record = "active" /\ exc = "none"

\* What was sent last was sent no longer ago than the last chunk or keepalive, and while
\* the loop looks, a keepalive is not due or was sent.
Prompt ==
    /\ pc = "handler" => silence = 0
    /\ pc \in {"handler", "top", "wait"} => silence <= quiet
    /\ KeepEvery > 0 /\ pc = "top" => silence = 0 \/ quiet < KeepEvery
    /\ KeepEvery > 0 /\ pc = "wait" => silence <= polled \/ quiet < KeepEvery + polled
    /\ pc = "wait" => polled <= 1

StreamInv == StreamTypes /\ Boxed /\ Outcome /\ Open /\ Stream!ErrorsAreRecorded /\ Prompt

\* More than one leaves something.
LEMMA Empty == ASSUME NEW W, NEW s \in Seq(W), s = << >> PROVE Len(s) = 0
  OBVIOUS

LEMMA More == ASSUME NEW W, NEW s \in Seq(W), Len(s) > 1 PROVE Tail(s) # << >>
<1>1. Tail(s) \in Seq(W) /\ Len(Tail(s)) = Len(s) - 1 /\ Len(s) \in Nat
  OBVIOUS
<1>2. PICK r : r = Tail(s)
  OBVIOUS
<1>3. r = << >> => Len(r) = 0
  BY <1>1, <1>2, Empty
<1> QED
  BY <1>1, <1>2, <1>3

LEMMA Boxes ==
    /\ << >> \in Seq(Word)
    /\ \A x \in Word : <<x>> \in Seq(Word) /\ <<x>> # << >>
    /\ <<"error", "done">> \in Seq(Word) /\ <<"error", "done">> # << >>
    /\ <<"error">> \in Seq(Word) /\ <<"error">> # << >>
    /\ <<"keepalive">> \in Seq(Word) /\ <<"keepalive">> # << >>
  BY DEF Word

LEMMA TypesStep == StreamInv /\ [Stream!Next]_(Stream!vars) => StreamTypes'
<1> SUFFICES ASSUME StreamInv, [Stream!Next]_(Stream!vars) PROVE StreamTypes'
  OBVIOUS
<1> USE StreamParameters DEF StreamInv, StreamTypes, Stream!Parameters, Stream!clocks, Stream!loopVars, Stream!endVars, Stream!Ends, Stream!Items, Stream!MaxAge
<1>1. CASE Stream!Respond
  BY <1>1 DEF Stream!Respond
<1>2. CASE Stream!StartStream
  BY <1>2 DEF Stream!StartStream
<1>3. CASE Stream!Tick
  <2>1. age' \in 0..Stream!MaxAge /\ waited' \in 0..Stream!MaxAge /\ quiet' \in 0..Stream!MaxAge /\ silence' \in 0..Stream!MaxAge
    BY <1>3 DEF Stream!Tick, Stream!MinOf, Stream!MaxAge
  <2>2. polled' \in 0..Stream!MaxAge
    BY <1>3 DEF Stream!Tick, Stream!MinOf, Stream!MaxAge, Stream!Poll, Stream!Budget
  <2> QED
    BY <1>3, <2>1, <2>2 DEF Stream!Tick
<1>4. CASE Stream!ClientLeaves
  BY <1>4 DEF Stream!ClientLeaves, Stream!Streaming
<1>5. CASE Stream!PollGone
  BY <1>5 DEF Stream!PollGone, Stream!SetOutcome
<1>6. CASE Stream!Deliver
  <2>1. told' \in BOOLEAN /\ late' \in BOOLEAN /\ last' \in BOOLEAN
    BY <1>6 DEF Stream!Deliver, Stream!SetOutcome
  <2>2. outcome' \in Stream!Ends \cup {None}
    BY <1>6 DEF Stream!Deliver, Stream!SetOutcome
  <2>3. silence' \in 0..Stream!MaxAge
    BY <1>6 DEF Stream!Deliver, Stream!SetOutcome
  <2> QED
    BY <1>6, <2>1, <2>2, <2>3 DEF Stream!Deliver
<1>7. CASE Stream!Cancel
  BY <1>7 DEF Stream!Cancel
<1>8. CASE Stream!EndRecord
  BY <1>8 DEF Stream!EndRecord
<1>9. ASSUME NEW x \in Stream!Items, Stream!Arrive(x) PROVE StreamTypes'
  BY <1>9 DEF Stream!Arrive, Stream!Streaming, Stream!Items, Stream!SetOutcome
<1>10. CASE Stream!NoticeGone
  BY <1>10 DEF Stream!NoticeGone, Stream!SetOutcome
<1>11. CASE Stream!TimeOut
  BY <1>11 DEF Stream!TimeOut, Stream!SetOutcome
<1>12. CASE Stream!Wait
  BY <1>12 DEF Stream!Wait
<1>13. CASE Stream!Take
  <2>1. late' \in BOOLEAN
    BY <1>13 DEF Stream!Take, Stream!SetOutcome
  <2>2. seen' \in BOOLEAN
    BY <1>13 DEF Stream!Take, Stream!SetOutcome
  <2>3. quiet' \in 0..Stream!MaxAge
    BY <1>13 DEF Stream!Take, Stream!SetOutcome
  <2>4. exc' \in {"none", "cancel", "exit", "raise", "bad", "lost"}
    BY <1>13 DEF Stream!Take, Stream!SetOutcome
  <2> QED
    BY <1>13, <2>1, <2>2, <2>3, <2>4 DEF Stream!Take
<1>14. CASE Stream!PollSilent
  <2>1. last' \in BOOLEAN
    BY <1>14 DEF Stream!PollSilent, Stream!SetOutcome
  <2>2. outcome' \in Stream!Ends \cup {None}
    BY <1>14 DEF Stream!PollSilent, Stream!SetOutcome
  <2>3. quiet' \in 0..Stream!MaxAge
    BY <1>14 DEF Stream!PollSilent, Stream!SetOutcome
  <2> QED
    BY <1>14, <2>1, <2>2, <2>3 DEF Stream!PollSilent
<1>15. CASE Stream!CancelFetch
  BY <1>15 DEF Stream!CancelFetch
<1>16. CASE Stream!CloseUpstream
  BY <1>16 DEF Stream!CloseUpstream
<1>17. CASE Stream!Finish
  BY <1>17 DEF Stream!Finish, Stream!SetOutcome
<1>18. CASE UNCHANGED Stream!vars
  BY <1>18 DEF Stream!vars
<1> QED
  BY <1>1, <1>2, <1>3, <1>4, <1>5, <1>6, <1>7, <1>8, <1>9, <1>10, <1>11, <1>12, <1>13, <1>14, <1>15, <1>16, <1>17, <1>18 DEF Stream!Next

LEMMA BoxedStep == StreamInv /\ [Stream!Next]_(Stream!vars) => Boxed'
<1> SUFFICES ASSUME StreamInv, [Stream!Next]_(Stream!vars) PROVE Boxed'
  OBVIOUS
<1> USE StreamParameters DEF StreamInv, StreamTypes, Stream!Parameters, Stream!clocks, Stream!loopVars, Stream!endVars, Boxed
<1>1. CASE Stream!Respond
  BY <1>1 DEF Stream!Respond
<1>2. CASE Stream!StartStream
  BY <1>2 DEF Stream!StartStream
<1>3. CASE Stream!Tick
  BY <1>3 DEF Stream!Tick
<1>4. CASE Stream!ClientLeaves
  BY <1>4 DEF Stream!ClientLeaves, Stream!Streaming
<1>5. CASE Stream!PollGone
  BY <1>5 DEF Stream!PollGone, Stream!SetOutcome
<1>6. CASE Stream!Deliver
  <2>1. Tail(box) \in Seq(Word)
    BY <1>6 DEF Stream!Deliver
  <2>2. Len(box) > 1 => Tail(box) # << >>
    BY More
  <2>3. CASE late
    BY <1>6, <2>3, Boxes DEF Stream!Deliver
  <2>4. CASE ~late
    BY <1>6, <2>1, <2>2, <2>4 DEF Stream!Deliver
  <2> QED
    BY <2>3, <2>4
<1>7. CASE Stream!Cancel
  BY <1>7 DEF Stream!Cancel
<1>8. CASE Stream!EndRecord
  BY <1>8 DEF Stream!EndRecord
<1>9. ASSUME NEW x \in Stream!Items, Stream!Arrive(x) PROVE Boxed'
  BY <1>9 DEF Stream!Arrive, Stream!Streaming, Stream!Items, Stream!SetOutcome
<1>10. CASE Stream!NoticeGone
  BY <1>10 DEF Stream!NoticeGone, Stream!SetOutcome
<1>11. CASE Stream!TimeOut
  BY <1>11, Boxes DEF Stream!TimeOut
<1>12. CASE Stream!Wait
  BY <1>12 DEF Stream!Wait
<1>13. CASE Stream!Take
  <2>1. fetch \notin {"end", "raise"} => fetch \in Word
    BY <1>13 DEF Stream!Take, Stream!Items, Word
  <2> QED
    BY <1>13, <2>1, Boxes DEF Stream!Take
<1>14. CASE Stream!PollSilent
  BY <1>14, Boxes DEF Stream!PollSilent
<1>15. CASE Stream!CancelFetch
  BY <1>15 DEF Stream!CancelFetch
<1>16. CASE Stream!CloseUpstream
  BY <1>16 DEF Stream!CloseUpstream
<1>17. CASE Stream!Finish
  BY <1>17 DEF Stream!Finish, Stream!SetOutcome
<1>18. CASE UNCHANGED Stream!vars
  BY <1>18 DEF Stream!vars
<1> QED
  BY <1>1, <1>2, <1>3, <1>4, <1>5, <1>6, <1>7, <1>8, <1>9, <1>10, <1>11, <1>12, <1>13, <1>14, <1>15, <1>16, <1>17, <1>18 DEF Stream!Next

LEMMA OutcomeStep == StreamInv /\ [Stream!Next]_(Stream!vars) => Outcome'
<1> SUFFICES ASSUME StreamInv, [Stream!Next]_(Stream!vars) PROVE Outcome'
  OBVIOUS
<1> USE StreamParameters DEF StreamInv, StreamTypes, Stream!Parameters, Stream!clocks, Stream!loopVars, Stream!endVars, Outcome, Bad, Boxed
<1>1. CASE Stream!Respond
  BY <1>1 DEF Stream!Respond
<1>2. CASE Stream!StartStream
  BY <1>2 DEF Stream!StartStream
<1>3. CASE Stream!Tick
  BY <1>3 DEF Stream!Tick
<1>4. CASE Stream!ClientLeaves
  BY <1>4 DEF Stream!ClientLeaves, Stream!Streaming
<1>5. CASE Stream!PollGone
  BY <1>5 DEF Stream!PollGone, Stream!SetOutcome
<1>6. CASE Stream!Deliver
  <2>1. Head(box) = box[1] /\ 1 \in 1..Len(box)
    BY <1>6 DEF Stream!Deliver
  <2>2. \A j \in 1..Len(Tail(box)) : Tail(box)[j] = box[j + 1] /\ j + 1 \in 1..Len(box)
    BY <1>6 DEF Stream!Deliver
  <2>3. outcome = "errored" => outcome' = "errored"
    BY <1>6 DEF Stream!Deliver, Stream!SetOutcome
  <2>4. told' => outcome' = "errored"
    BY <1>6, <2>1, <2>3 DEF Stream!Deliver
  <2>5. CASE late
    BY <1>6, <2>4, <2>5 DEF Stream!Deliver, Stream!SetOutcome
  <2>6. CASE ~late
    BY <1>6, <2>2, <2>3, <2>4, <2>6 DEF Stream!Deliver
  <2> QED
    BY <2>5, <2>6
<1>7. CASE Stream!Cancel
  BY <1>7 DEF Stream!Cancel
<1>8. CASE Stream!EndRecord
  BY <1>8 DEF Stream!EndRecord
<1>9. ASSUME NEW x \in Stream!Items, Stream!Arrive(x) PROVE Outcome'
  BY <1>9 DEF Stream!Arrive, Stream!Streaming, Stream!Items, Stream!SetOutcome
<1>10. CASE Stream!NoticeGone
  BY <1>10 DEF Stream!NoticeGone, Stream!SetOutcome
<1>11. CASE Stream!TimeOut
  BY <1>11 DEF Stream!TimeOut, Stream!SetOutcome
<1>12. CASE Stream!Wait
  BY <1>12 DEF Stream!Wait
<1>13. CASE Stream!Take
  BY <1>13 DEF Stream!Take, Stream!Items
<1>14. CASE Stream!PollSilent
  BY <1>14 DEF Stream!PollSilent, Stream!PolledOut, Stream!KeepaliveDue, Stream!SetOutcome
<1>15. CASE Stream!CancelFetch
  BY <1>15 DEF Stream!CancelFetch
<1>16. CASE Stream!CloseUpstream
  BY <1>16 DEF Stream!CloseUpstream
<1>17. CASE Stream!Finish
  BY <1>17 DEF Stream!Finish, Stream!SetOutcome
<1>18. CASE UNCHANGED Stream!vars
  BY <1>18 DEF Stream!vars
<1> QED
  BY <1>1, <1>2, <1>3, <1>4, <1>5, <1>6, <1>7, <1>8, <1>9, <1>10, <1>11, <1>12, <1>13, <1>14, <1>15, <1>16, <1>17, <1>18 DEF Stream!Next

LEMMA OpenStep == StreamInv /\ [Stream!Next]_(Stream!vars) => Open' /\ Stream!ErrorsAreRecorded'
<1> SUFFICES ASSUME StreamInv, [Stream!Next]_(Stream!vars) PROVE Open' /\ Stream!ErrorsAreRecorded'
  OBVIOUS
<1> USE StreamParameters DEF StreamInv, StreamTypes, Stream!Parameters, Stream!clocks, Stream!loopVars, Stream!endVars, Open, Outcome, Stream!ErrorsAreRecorded
<1>1. CASE Stream!Respond
  BY <1>1 DEF Stream!Respond
<1>2. CASE Stream!StartStream
  BY <1>2 DEF Stream!StartStream
<1>3. CASE Stream!Tick
  BY <1>3 DEF Stream!Tick
<1>4. CASE Stream!ClientLeaves
  BY <1>4 DEF Stream!ClientLeaves, Stream!Streaming
<1>5. CASE Stream!PollGone
  BY <1>5 DEF Stream!PollGone, Stream!SetOutcome
<1>6. CASE Stream!Deliver
  BY <1>6 DEF Stream!Deliver, Stream!SetOutcome
<1>7. CASE Stream!Cancel
  BY <1>7 DEF Stream!Cancel
<1>8. CASE Stream!EndRecord
  BY <1>8 DEF Stream!EndRecord
<1>9. ASSUME NEW x \in Stream!Items, Stream!Arrive(x) PROVE Open' /\ Stream!ErrorsAreRecorded'
  BY <1>9 DEF Stream!Arrive, Stream!Streaming, Stream!Items, Stream!SetOutcome
<1>10. CASE Stream!NoticeGone
  BY <1>10 DEF Stream!NoticeGone, Stream!SetOutcome
<1>11. CASE Stream!TimeOut
  BY <1>11 DEF Stream!TimeOut, Stream!SetOutcome
<1>12. CASE Stream!Wait
  BY <1>12 DEF Stream!Wait
<1>13. CASE Stream!Take
  BY <1>13 DEF Stream!Take, Stream!Items
<1>14. CASE Stream!PollSilent
  BY <1>14 DEF Stream!PollSilent, Stream!PolledOut, Stream!KeepaliveDue, Stream!SetOutcome
<1>15. CASE Stream!CancelFetch
  BY <1>15 DEF Stream!CancelFetch
<1>16. CASE Stream!CloseUpstream
  BY <1>16 DEF Stream!CloseUpstream
<1>17. CASE Stream!Finish
  BY <1>17 DEF Stream!Finish, Stream!SetOutcome
<1>18. CASE UNCHANGED Stream!vars
  BY <1>18 DEF Stream!vars
<1> QED
  BY <1>1, <1>2, <1>3, <1>4, <1>5, <1>6, <1>7, <1>8, <1>9, <1>10, <1>11, <1>12, <1>13, <1>14, <1>15, <1>16, <1>17, <1>18 DEF Stream!Next

LEMMA PromptStep == StreamInv /\ [Stream!Next]_(Stream!vars) => Prompt'
<1> SUFFICES ASSUME StreamInv, [Stream!Next]_(Stream!vars) PROVE Prompt'
  OBVIOUS
<1> USE StreamParameters DEF StreamInv, StreamTypes, Stream!Parameters, Stream!clocks, Stream!loopVars, Stream!endVars, Prompt, Stream!MinOf, Stream!Poll, Stream!MaxAge, Stream!KeepaliveDue, Stream!PolledOut, Stream!Budget
<1>1. CASE Stream!Respond
  BY <1>1 DEF Stream!Respond
<1>2. CASE Stream!StartStream
  BY <1>2 DEF Stream!StartStream
<1>3. CASE Stream!Tick
  BY <1>3 DEF Stream!Tick
<1>4. CASE Stream!ClientLeaves
  BY <1>4 DEF Stream!ClientLeaves, Stream!Streaming
<1>5. CASE Stream!PollGone
  BY <1>5 DEF Stream!PollGone, Stream!SetOutcome
<1>6. CASE Stream!Deliver
  BY <1>6 DEF Stream!Deliver, Stream!SetOutcome
<1>7. CASE Stream!Cancel
  BY <1>7 DEF Stream!Cancel
<1>8. CASE Stream!EndRecord
  BY <1>8 DEF Stream!EndRecord
<1>9. ASSUME NEW x \in Stream!Items, Stream!Arrive(x) PROVE Prompt'
  BY <1>9 DEF Stream!Arrive, Stream!Streaming, Stream!Items, Stream!SetOutcome
<1>10. CASE Stream!NoticeGone
  BY <1>10 DEF Stream!NoticeGone, Stream!SetOutcome
<1>11. CASE Stream!TimeOut
  BY <1>11 DEF Stream!TimeOut, Stream!SetOutcome
<1>12. CASE Stream!Wait
  BY <1>12 DEF Stream!Wait
<1>13. CASE Stream!Take
  BY <1>13 DEF Stream!Take, Stream!Items
<1>14. CASE Stream!PollSilent
  BY <1>14 DEF Stream!PollSilent, Stream!PolledOut, Stream!KeepaliveDue, Stream!SetOutcome
<1>15. CASE Stream!CancelFetch
  BY <1>15 DEF Stream!CancelFetch
<1>16. CASE Stream!CloseUpstream
  BY <1>16 DEF Stream!CloseUpstream
<1>17. CASE Stream!Finish
  BY <1>17 DEF Stream!Finish, Stream!SetOutcome
<1>18. CASE UNCHANGED Stream!vars
  BY <1>18 DEF Stream!vars
<1> QED
  BY <1>1, <1>2, <1>3, <1>4, <1>5, <1>6, <1>7, <1>8, <1>9, <1>10, <1>11, <1>12, <1>13, <1>14, <1>15, <1>16, <1>17, <1>18 DEF Stream!Next

LEMMA InitStream == Stream!Init => StreamInv
<1> SUFFICES ASSUME Stream!Init PROVE StreamInv
  OBVIOUS
<1>1. StreamTypes
  <2>1. 0 \in 0..Stream!MaxAge
    BY StreamParameters DEF Stream!Parameters, Stream!MaxAge
  <2> QED
    BY <2>1 DEF Stream!Init, StreamTypes, Stream!Ends
<1>3. Boxed
  BY Boxes DEF Stream!Init, Boxed
<1>2. Outcome /\ Open /\ Stream!ErrorsAreRecorded /\ Prompt
  BY StreamParameters DEF Stream!Init, Outcome, Open, Stream!ErrorsAreRecorded, Prompt, Stream!Parameters
<1> QED
  BY <1>1, <1>3, <1>2 DEF StreamInv

LEMMA StreamInCalls == MCSpec => Stream!Init /\ [][Stream!Next]_(Stream!vars)
<1>1. MCInit => Stream!Init
  BY DEF MCInit
<1>2. [MCNext]_<<vars, stream, part>> => [Stream!Next]_(Stream!vars)
  BY DEF MCNext, stream, Stream!vars, Stream!clocks, Stream!loopVars, Stream!endVars
<1> QED
  BY <1>1, <1>2, PTL DEF MCSpec

\* For any budgets and intervals: a stream whose client was told of an error, by the server or
\* by an error event of `messages`, is recorded as errored, whatever ends it afterwards (the
\* error chunk of a `chat` provider is data to the server); and a connected client waits no longer than a
\* keepalive interval and a poll for a byte (routes/stream_utils.py).
THEOREM ToldAndRecorded == MCSpec => []ClientsAreTold
<1>1. StreamInv /\ [Stream!Next]_(Stream!vars) => StreamInv'
  BY TypesStep, BoxedStep, OutcomeStep, OpenStep, PromptStep DEF StreamInv
<1>2. StreamInv => ClientsAreTold
  <2>1. StreamInv => Stream!NeverSilent
    BY StreamParameters DEF StreamInv, StreamTypes, Prompt, Stream!NeverSilent, Stream!Poll,
       Stream!Parameters, Stream!MaxAge
  <2>2. StreamTypes /\ Boxed => Stream!TypeOK
    BY DEF StreamTypes, Boxed, Stream!TypeOK, Word, Stream!Items, Stream!Ends
  <2> QED
    BY <2>1, <2>2 DEF StreamInv, ClientsAreTold
<1> QED
  BY <1>1, <1>2, InitStream, StreamInCalls, PTL
=============================================================================
