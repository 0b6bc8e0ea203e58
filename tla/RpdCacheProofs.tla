--------------------------- MODULE RpdCacheProofs ---------------------------
(***************************************************************************)
(* Proofs about RpdCache: for any keys, readers, flights and bounds.       *)
(*                                                                         *)
(* SingleFlight needs the bookkeeping of the flights: a flight leaves the  *)
(* dictionary only when its holders count is 1, and that the count is the  *)
(* number of readers inside makes this the last of them.                   *)
(* CompleteReadIsWhole is arithmetic over the two parts of a read.          *)
(***************************************************************************)
EXTENDS RpdCache, FiniteSetTheorems, TLAPS

Busy(r) == reader[r].pc \in {"reads", "has"}

\* A reader inside _read_rpd_cached is on the flight its key has.
Places ==
    \A r \in Readers :
        IF reader[r].pc = "idle" THEN reader[r] = Idle
        ELSE /\ reader[r].key \in Keys
             /\ reader[r].flight \in Flights
             /\ flightOf[reader[r].key] = reader[r].flight

\* The lock of a flight is taken by the reader that loads.
Locks ==
    \A r \in Readers, f \in Flights :
        lock[f] = r <=> Busy(r) /\ reader[r].flight = f

\* Two keys never have one flight.
Distinct ==
    \A j, k \in Keys : flightOf[j] = flightOf[k] /\ flightOf[j] # NoFlight => j = k

\* What the types of the counts need: a flush subtracts what it committed, and
\* the failures seen are among those the bound allows; no flush is under way while a
\* purge has the rows and not yet the buffer.
Covered ==
    /\ \A k \in Keys : pending[k] <= buffered[k]
    /\ \A j, k \in Keys : purging[j] = "committed" => pending[k] = 0
    /\ \A f \in Flights : failed[f] + failsLeft <= MaxFails

IInv == TypeOK /\ Places /\ Distinct /\ Locks /\ FlightsMatchReaders /\ Covered

-----------------------------------------------------------------------------
LEMMA IdleType == Idle \in Reader
BY RpdAssumption DEF Idle, Reader

LEMMA InsideFinite ==
    ASSUME NEW f
    PROVE  IsFiniteSet(Inside(f))
<1>1. Inside(f) \subseteq Readers
    BY DEF Inside
<1>2. QED
    BY <1>1, FS_Subset, RpdAssumption

\* Steps that move no reader between flights keep the bookkeeping.
LEMMA QuietFlights ==
    ASSUME FlightsMatchReaders, UNCHANGED <<flightOf, holders>>,
           \A r \in Readers : reader'[r].flight = reader[r].flight
    PROVE  FlightsMatchReaders'
<1>1. \A f \in Flights : Inside(f)' = Inside(f)
    BY DEF Inside
<1>2. QED
    BY <1>1 DEF FlightsMatchReaders

\* Leaving: the counts go down by one, and the last one out drops the flight.
LEMMA ForgetKeeps ==
    ASSUME IInv, NEW r \in Readers, reader[r].pc # "idle", ForgetFlight(r)
    PROVE  /\ holders' \in [Flights -> Nat]
           /\ flightOf' \in [Keys -> Flights \cup {NoFlight}]
           /\ reader' \in [Readers -> Reader]
           /\ Places'
           /\ Distinct'
           /\ FlightsMatchReaders'
<1> USE DEF IInv
<1>0. PICK k, f : k = reader[r].key /\ f = reader[r].flight
    OBVIOUS
<1>1. k \in Keys /\ f \in Flights /\ flightOf[k] = f
    BY <1>0 DEF Places
<1>2. r \in Inside(f)
    BY <1>0 DEF Inside
<1>3. holders[f] = Cardinality(Inside(f)) /\ holders[f] \in Nat /\ holders[f] # 0
  <2>1. holders[f] = Cardinality(Inside(f)) /\ holders[f] \in Nat
      BY <1>1 DEF FlightsMatchReaders, TypeOK
  <2>2. Cardinality(Inside(f)) # 0
      BY <1>2, InsideFinite, FS_EmptySet
  <2>3. QED
      BY <2>1, <2>2
<1>4. holders' = [holders EXCEPT ![f] = holders[f] - 1]
    BY <1>0 DEF ForgetFlight
<1>5. holders' \in [Flights -> Nat]
    BY <1>1, <1>3, <1>4 DEF TypeOK
<1>6. flightOf' = [flightOf EXCEPT ![k] = IF holders[f] = 1 /\ flightOf[k] = f
                                          THEN NoFlight ELSE flightOf[k]]
    BY <1>0 DEF ForgetFlight
<1>7. flightOf' \in [Keys -> Flights \cup {NoFlight}]
    BY <1>1, <1>6 DEF TypeOK
<1>8. reader' = [reader EXCEPT ![r] = Idle]
    BY DEF ForgetFlight
<1>9. reader' \in [Readers -> Reader]
    BY <1>8, IdleType DEF TypeOK
<1>10. ASSUME NEW s \in Readers, s # r, reader[s].flight = f
       PROVE  holders[f] # 1
  <2>1. {r, s} \subseteq Inside(f)
      BY <1>2, <1>10 DEF Inside
  <2>2. Cardinality({r, s}) = 2
    <3>1. Cardinality({r}) = 1 /\ IsFiniteSet({r})
        BY FS_Singleton
    <3>2. {r, s} = {r} \cup {s} /\ s \notin {r}
        BY <1>10
    <3>3. Cardinality({r} \cup {s}) = Cardinality({r}) + 1
        BY <3>1, <3>2, FS_AddElement
    <3>4. QED
        BY <3>1, <3>2, <3>3
  <2>3. Cardinality({r, s}) <= Cardinality(Inside(f))
      BY <2>1, InsideFinite, FS_Subset
  <2>4. QED
      BY <1>3, <2>2, <2>3
<1>11. Places'
  <2> SUFFICES ASSUME NEW s \in Readers
               PROVE  IF reader'[s].pc = "idle" THEN reader'[s] = Idle
                      ELSE /\ reader'[s].key \in Keys
                           /\ reader'[s].flight \in Flights
                           /\ flightOf'[reader'[s].key] = reader'[s].flight
      BY DEF Places
  <2>1. CASE s = r
      BY <1>8, <2>1 DEF TypeOK, Idle
  <2>2. CASE s # r
    <3>1. reader'[s] = reader[s]
        BY <1>8, <2>2 DEF TypeOK
    <3>2. CASE reader[s].pc = "idle"
        BY <3>1, <3>2 DEF Places
    <3>3. CASE reader[s].pc # "idle"
      <4>1. /\ reader[s].key \in Keys /\ reader[s].flight \in Flights
            /\ flightOf[reader[s].key] = reader[s].flight
          BY <3>3 DEF Places
      <4>2. flightOf'[reader[s].key] = flightOf[reader[s].key]
          BY <1>1, <1>6, <1>10, <2>2, <4>1 DEF TypeOK, Distinct
      <4>3. QED
          BY <3>1, <3>3, <4>1, <4>2
    <3>4. QED
        BY <3>2, <3>3
  <2>3. QED
      BY <2>1, <2>2
<1>12. \A g \in Flights : holders'[g] = Cardinality(Inside(g)')
  <2> SUFFICES ASSUME NEW g \in Flights
               PROVE  holders'[g] = Cardinality(Inside(g)')
      OBVIOUS
  <2>0. Idle.flight = NoFlight /\ NoFlight # g
      BY RpdAssumption DEF Idle
  <2>1. CASE g = f
    <3>1. Inside(f)' = Inside(f) \ {r}
        BY <1>1, <1>8, <2>0, <2>1 DEF Inside, TypeOK
    <3>2. Cardinality(Inside(f) \ {r}) = Cardinality(Inside(f)) - 1
        BY <1>2, InsideFinite, FS_RemoveElement
    <3>3. QED
        BY <1>1, <1>3, <1>4, <2>1, <3>1, <3>2 DEF TypeOK
  <2>2. CASE g # f
    <3>1. Inside(g)' = Inside(g)
        BY <1>0, <1>8, <2>0, <2>2 DEF Inside, TypeOK
    <3>2. QED
        BY <1>4, <2>2, <3>1 DEF TypeOK, FlightsMatchReaders
  <2>3. QED
      BY <2>1, <2>2
<1>13. \A j \in Keys : flightOf'[j] # NoFlight => holders'[flightOf'[j]] > 0
  <2> SUFFICES ASSUME NEW j \in Keys, flightOf'[j] # NoFlight
               PROVE  holders'[flightOf'[j]] > 0
      OBVIOUS
  <2>1. flightOf'[j] = flightOf[j] /\ flightOf[j] \in Flights
      BY <1>1, <1>6 DEF TypeOK
  <2>2. holders[flightOf[j]] > 0
      BY <2>1 DEF FlightsMatchReaders
  <2>3. CASE flightOf[j] # f
      BY <1>4, <2>1, <2>2, <2>3 DEF TypeOK
  <2>4. CASE flightOf[j] = f
    <3>1. CASE holders[f] # 1
        BY <1>1, <1>3, <1>4, <2>1, <2>4, <3>1 DEF TypeOK
    <3>2. CASE holders[f] = 1
      <4>1. j # k
          BY <1>1, <1>6, <2>1, <2>4, <3>2, RpdAssumption DEF TypeOK
      <4>2. QED
          BY <1>1, <2>1, <2>4, <4>1, RpdAssumption DEF Distinct
    <3>3. QED
        BY <3>1, <3>2
  <2>5. QED
      BY <2>3, <2>4
<1>14. Distinct'
    BY <1>6, <1>7 DEF Distinct, TypeOK
<1>15. QED
    BY <1>5, <1>7, <1>9, <1>11, <1>12, <1>13, <1>14 DEF FlightsMatchReaders

\* Joining a flight: one reader more inside, in the count and in the set.
LEMMA ArriveKeeps ==
    ASSUME IInv, NEW r \in Readers, NEW k \in Keys, NEW f \in Flights, Arrive(r, k, f)
    PROVE  IInv'
<1> USE DEF IInv
<1>1. reader[r] = Idle /\ Idle.flight = NoFlight /\ NoFlight # f
    BY RpdAssumption DEF Arrive, Places, Idle
<1>2. /\ holders' = [holders EXCEPT ![f] = holders[f] + 1]
      /\ flightOf' = [flightOf EXCEPT ![k] = f]
      /\ UNCHANGED <<lock, cache, counts, purging, since, bounds>>
    BY DEF Arrive
<1>3. failed' \in [Flights -> 0..MaxFails]
    BY RpdAssumption DEF Arrive, TypeOK
<1>4. PICK n \in 0..MaxFails :
        reader' = [reader EXCEPT ![r] = [Idle EXCEPT !.pc = "waits", !.key = k, !.flight = f,
                                                     !.arrived = n]]
    BY <1>3 DEF Arrive
<1>5. [Idle EXCEPT !.pc = "waits", !.key = k, !.flight = f, !.arrived = n] \in Reader
    BY IdleType DEF Reader
<1>6. TypeOK'
  <2>1. reader' \in [Readers -> Reader]
      BY <1>4, <1>5 DEF TypeOK
  <2>2. holders' \in [Flights -> Nat] /\ flightOf' \in [Keys -> Flights \cup {NoFlight}]
      BY <1>2 DEF TypeOK
  <2>3. burst' \subseteq Readers
      BY DEF Arrive, TypeOK
  <2>4. QED
      BY <1>2, <1>3, <2>1, <2>2, <2>3 DEF TypeOK, counts, bounds
<1>7. /\ reader'[r].pc = "waits" /\ reader'[r].key = k /\ reader'[r].flight = f
      /\ \A s \in Readers : s # r => reader'[s] = reader[s]
    BY <1>4 DEF TypeOK, Idle
<1>8. flightOf[k] = NoFlight \/ flightOf[k] = f
    BY DEF Arrive
<1>9. Places'
  <2> SUFFICES ASSUME NEW s \in Readers
               PROVE  IF reader'[s].pc = "idle" THEN reader'[s] = Idle
                      ELSE /\ reader'[s].key \in Keys
                           /\ reader'[s].flight \in Flights
                           /\ flightOf'[reader'[s].key] = reader'[s].flight
      BY DEF Places
  <2>1. CASE s = r
      BY <1>2, <1>7, <2>1 DEF TypeOK
  <2>2. CASE s # r /\ reader[s].pc = "idle"
      BY <1>7, <2>2 DEF Places
  <2>3. CASE s # r /\ reader[s].pc # "idle"
    <3>1. /\ reader[s].key \in Keys /\ reader[s].flight \in Flights
          /\ flightOf[reader[s].key] = reader[s].flight
        BY <2>3 DEF Places
    <3>2. flightOf'[reader[s].key] = flightOf[reader[s].key]
        BY <1>2, <1>8, <3>1, RpdAssumption DEF TypeOK
    <3>3. QED
        BY <1>7, <2>3, <3>1, <3>2
  <2>4. QED
      BY <2>1, <2>2, <2>3
<1>10. ASSUME flightOf[k] = NoFlight, NEW j \in Keys
       PROVE  flightOf[j] # f
  <2>1. Inside(f) = {}
      BY <1>10 DEF Arrive
  <2>2. holders[f] = 0
      BY <2>1, FS_EmptySet DEF FlightsMatchReaders
  <2>3. QED
      BY <2>2, RpdAssumption DEF FlightsMatchReaders
<1>11. Distinct'
    BY <1>2, <1>8, <1>10 DEF Distinct, TypeOK
<1>12. Locks'
    BY <1>1, <1>2, <1>7 DEF Locks, Busy, Idle
<1>13. FlightsMatchReaders'
  <2>1. ASSUME NEW g \in Flights
        PROVE  holders'[g] = Cardinality(Inside(g)')
    <3>0. holders[g] = Cardinality(Inside(g))
        BY DEF FlightsMatchReaders
    <3>1. CASE g = f
      <4>1. Inside(g)' = Inside(g) \cup {r} /\ r \notin Inside(g)
          BY <1>1, <1>7, <3>1 DEF Inside
      <4>2. Cardinality(Inside(g) \cup {r}) = Cardinality(Inside(g)) + 1
          BY <4>1, InsideFinite, FS_AddElement
      <4>3. QED
          BY <1>2, <3>0, <3>1, <4>1, <4>2 DEF TypeOK
    <3>2. CASE g # f
      <4>1. Inside(g)' = Inside(g)
          BY <1>1, <1>7, <3>2, RpdAssumption DEF Inside
      <4>2. QED
          BY <1>2, <3>0, <3>2, <4>1 DEF TypeOK
    <3>3. QED
        BY <3>1, <3>2
  <2>2. ASSUME NEW j \in Keys, flightOf'[j] # NoFlight
        PROVE  holders'[flightOf'[j]] > 0
    <3>1. CASE flightOf'[j] = f
        BY <1>2, <3>1 DEF TypeOK
    <3>2. CASE flightOf'[j] # f
        BY <1>2, <2>2, <3>2 DEF TypeOK, FlightsMatchReaders
    <3>3. QED
        BY <3>1, <3>2
  <2>3. QED
      BY <2>1, <2>2 DEF FlightsMatchReaders
<1>14. Covered'
    BY <1>2, RpdAssumption DEF Arrive, Covered, counts, bounds, TypeOK
<1>15. QED
    BY <1>6, <1>9, <1>11, <1>12, <1>13, <1>14

-----------------------------------------------------------------------------
LEMMA InitIInv == Init => IInv
<1> SUFFICES ASSUME Init
             PROVE  IInv
    OBVIOUS
<1>1. TypeOK
    BY IdleType, RpdAssumption DEF Init, TypeOK
<1>2. Places /\ Distinct /\ Covered
    BY RpdAssumption DEF Init, Places, Distinct, Covered, Idle
<1>3. Locks
    BY RpdAssumption DEF Init, Locks, Busy, Idle
<1>4. FlightsMatchReaders
  <2>1. \A f \in Flights : Inside(f) = {}
      BY RpdAssumption DEF Init, Inside, Idle
  <2>2. QED
      BY <2>1, FS_EmptySet DEF Init, FlightsMatchReaders
<1>5. QED
    BY <1>1, <1>2, <1>3, <1>4 DEF IInv

\* A reader that leaves with its lock, if it has it, keeps the invariant.
LEMMA LeaveKeeps ==
    ASSUME IInv, NEW r \in Readers, reader[r].pc # "idle", ForgetFlight(r),
           lock' = [f \in Flights |-> IF lock[f] = r THEN NoReader ELSE lock[f]]
    PROVE  /\ lock' \in [Flights -> Readers \cup {NoReader}]
           /\ Locks'
<1> USE DEF IInv
<1>1. lock' \in [Flights -> Readers \cup {NoReader}]
    BY DEF TypeOK
<1>2. reader' = [reader EXCEPT ![r] = Idle]
    BY DEF ForgetFlight
<1>3. Idle.pc = "idle"
    BY DEF Idle
<1>4. Locks'
    BY <1>2, <1>3, RpdAssumption DEF Locks, Busy, TypeOK
<1>5. QED
    BY <1>1, <1>4

\* A loading reader has exactly its flight's lock.
LEMMA OwnLock ==
    ASSUME IInv, NEW r \in Readers, Busy(r)
    PROVE  /\ reader[r].flight \in Flights
           /\ [lock EXCEPT ![reader[r].flight] = NoReader]
                = [f \in Flights |-> IF lock[f] = r THEN NoReader ELSE lock[f]]
<1>1. reader[r].flight \in Flights
    BY DEF IInv, Places, Busy
<1>2. \A f \in Flights : lock[f] = r <=> f = reader[r].flight
    BY DEF IInv, Locks
<1>3. QED
    BY <1>1, <1>2 DEF IInv, TypeOK

\* A waiting reader has no lock.
LEMMA NoLock ==
    ASSUME IInv, NEW r \in Readers, reader[r].pc = "waits"
    PROVE  lock = [f \in Flights |-> IF lock[f] = r THEN NoReader ELSE lock[f]]
<1>1. \A f \in Flights : lock[f] # r
    BY DEF IInv, Locks, Busy
<1>2. QED
    BY <1>1 DEF IInv, TypeOK

LEMMA ServeKeeps ==
    ASSUME IInv, NEW r \in Readers, EnterAndServe(r)
    PROVE  IInv'
<1> USE DEF IInv
<1>1. reader[r].pc = "waits" /\ ForgetFlight(r)
    BY DEF EnterAndServe
<1>2. Locks' /\ lock' = lock
    BY <1>1, NoLock, LeaveKeeps DEF EnterAndServe
<1>3. TypeOK' /\ Places' /\ Distinct' /\ FlightsMatchReaders'
    BY <1>1, <1>2, ForgetKeeps DEF EnterAndServe, TypeOK, counts, bounds
<1>4. Covered'
    BY DEF EnterAndServe, Covered, counts, bounds
<1>5. QED
    BY <1>2, <1>3, <1>4

LEMMA RaisesKeeps ==
    ASSUME IInv, NEW r \in Readers, LoadRaises(r)
    PROVE  IInv'
<1> USE DEF IInv
<1>1. reader[r].pc = "reads" /\ ForgetFlight(r) /\ Busy(r)
    BY DEF LoadRaises, Busy
<1>2. Locks' /\ lock' \in [Flights -> Readers \cup {NoReader}]
    BY <1>1, OwnLock, LeaveKeeps DEF LoadRaises
<1>3. PICK f \in Flights : f = reader[r].flight
    BY <1>1, OwnLock
<1>4. failed' = [failed EXCEPT ![f] = failed[f] + 1] /\ failsLeft' = failsLeft - 1 /\ failsLeft > 0
    BY <1>3 DEF LoadRaises
<1>5. failed' \in [Flights -> 0..MaxFails] /\ failsLeft' \in 0..MaxFails
    BY <1>3, <1>4, RpdAssumption DEF TypeOK, Covered
<1>6. burst' \subseteq Readers
    BY DEF LoadRaises, TypeOK, Inside
<1>7. TypeOK' /\ Places' /\ Distinct' /\ FlightsMatchReaders'
    BY <1>1, <1>2, <1>5, <1>6, ForgetKeeps DEF LoadRaises, TypeOK, counts
<1>8. Covered'
    BY <1>3, <1>4, RpdAssumption DEF LoadRaises, Covered, counts, TypeOK
<1>9. QED
    BY <1>2, <1>7, <1>8

LEMMA StoreKeeps ==
    ASSUME IInv, NEW r \in Readers, Store(r)
    PROVE  IInv'
<1> USE DEF IInv
<1>1. reader[r].pc = "has" /\ ForgetFlight(r) /\ Busy(r)
    BY DEF Store, Busy
<1>2. Locks' /\ lock' \in [Flights -> Readers \cup {NoReader}]
    BY <1>1, OwnLock, LeaveKeeps DEF Store
<1>3. cache' \in [Keys -> Entry \cup {NoEntry}]
  <2>1. reader[r] \in Reader
      BY DEF TypeOK
  <2>2. [count |-> reader[r].sum, left |-> reader[r].left, floor |-> reader[r].floor,
         purged |-> reader[r].purged, partial |-> reader[r].partial] \in Entry
      BY <2>1 DEF Reader, Entry
  <2>3. QED
      BY <2>2 DEF Store, TypeOK
<1>4. TypeOK' /\ Places' /\ Distinct' /\ FlightsMatchReaders'
    BY <1>1, <1>2, <1>3, ForgetKeeps DEF Store, TypeOK, counts, bounds
<1>5. Covered'
    BY DEF Store, Covered, counts, bounds
<1>6. QED
    BY <1>2, <1>4, <1>5

LEMMA CancelKeeps ==
    ASSUME IInv, NEW r \in Readers, Cancel(r)
    PROVE  IInv'
<1> USE DEF IInv
<1>1. reader[r].pc # "idle" /\ ForgetFlight(r)
    BY DEF Cancel
<1>2. Locks' /\ lock' \in [Flights -> Readers \cup {NoReader}]
    BY <1>1, LeaveKeeps DEF Cancel
<1>3. TypeOK' /\ Places' /\ Distinct' /\ FlightsMatchReaders'
    BY <1>1, <1>2, ForgetKeeps DEF Cancel, TypeOK, counts, bounds
<1>4. Covered'
    BY DEF Cancel, Covered, counts, bounds
<1>5. QED
    BY <1>2, <1>3, <1>4

\* A step of a reader inside, its place unchanged.
LEMMA StayKeeps ==
    ASSUME IInv, UNCHANGED <<flightOf, holders>>,
           \A s \in Readers :
              /\ reader'[s].flight = reader[s].flight /\ reader'[s].key = reader[s].key
              /\ reader'[s].pc = "idle" <=> reader[s].pc = "idle"
              /\ reader[s].pc = "idle" => reader'[s] = reader[s]
    PROVE  Places' /\ Distinct' /\ FlightsMatchReaders'
<1> USE DEF IInv
<1>1. Places'
    BY DEF Places
<1>2. QED
    BY <1>1, QuietFlights DEF Distinct

LEMMA LoadKeeps ==
    ASSUME IInv, NEW r \in Readers, EnterAndLoad(r)
    PROVE  IInv'
<1> USE DEF IInv
<1>1. PICK k \in Keys, f \in Flights :
        k = reader[r].key /\ f = reader[r].flight /\ flightOf[k] = f
    BY DEF EnterAndLoad, Places
<1>2. reader' = [reader EXCEPT ![r] = [reader[r] EXCEPT !.pc = "reads", !.sum = buffered[k],
                                                        !.left = TTL, !.floor = Used(k)]]
    BY <1>1 DEF EnterAndLoad, ReadBuffer
<1>3. [reader[r] EXCEPT !.pc = "reads", !.sum = buffered[k], !.left = TTL, !.floor = Used(k)]
        \in Reader
  <2>1. Used(k) \in Nat /\ buffered[k] \in Nat
      BY DEF Used, TypeOK, Covered
  <2>2. reader[r] \in Reader
      BY DEF TypeOK
  <2>3. TTL \in 0..TTL
      BY RpdAssumption
  <2>4. QED
      BY <2>1, <2>2, <2>3 DEF Reader
<1>4. reader' \in [Readers -> Reader]
    BY <1>2, <1>3 DEF TypeOK
<1>5. /\ \A s \in Readers : s # r => reader'[s] = reader[s]
      /\ reader'[r].pc = "reads" /\ reader'[r].key = k /\ reader'[r].flight = f
    BY <1>1, <1>2 DEF TypeOK, Reader
<1>6. lock' = [lock EXCEPT ![f] = r] /\ lock[f] = NoReader /\ reader[r].pc = "waits"
    BY <1>1 DEF EnterAndLoad
<1>7. TypeOK'
    BY <1>4, <1>6 DEF EnterAndLoad, TypeOK, counts, bounds
<1>8. Locks'
  <2> SUFFICES ASSUME NEW s \in Readers, NEW g \in Flights
               PROVE  lock'[g] = s <=> Busy(s)' /\ reader'[s].flight = g
      BY DEF Locks
  <2>1. lock[g] = s <=> Busy(s) /\ reader[s].flight = g
      BY DEF Locks
  <2>2. CASE s = r
    <3>1. Busy(s)' /\ reader'[s].flight = f /\ ~ Busy(s)
        BY <1>5, <1>6, <2>2 DEF Busy
    <3>2. QED
        BY <1>6, <2>1, <2>2, <3>1 DEF TypeOK
  <2>3. CASE s # r
    <3>1. (Busy(s)' <=> Busy(s)) /\ reader'[s].flight = reader[s].flight
        BY <1>5, <2>3 DEF Busy
    <3>2. CASE g = f
        BY <1>6, <2>1, <2>3, <3>1, <3>2, RpdAssumption DEF TypeOK
    <3>3. CASE g # f
        BY <1>6, <2>1, <3>1, <3>3 DEF TypeOK
    <3>4. QED
        BY <3>2, <3>3
  <2>4. QED
      BY <2>2, <2>3
<1>9. Places' /\ Distinct' /\ FlightsMatchReaders'
    BY <1>1, <1>5, <1>6, StayKeeps DEF EnterAndLoad
<1>10. Covered'
    BY DEF EnterAndLoad, Covered, counts, bounds
<1>11. QED
    BY <1>7, <1>8, <1>9, <1>10

LEMMA ReadKeeps ==
    ASSUME IInv, NEW r \in Readers, ReadRows(r) \/ ReadSwallows(r)
    PROVE  IInv'
<1> USE DEF IInv
<1>1. PICK k \in Keys : k = reader[r].key
    BY DEF ReadRows, ReadSwallows, Places
<1>2. PICK x \in Reader :
        /\ reader' = [reader EXCEPT ![r] = x]
        /\ x.pc = "has" /\ x.key = reader[r].key /\ x.flight = reader[r].flight
  <2>0. reader[r] \in Reader
      BY DEF TypeOK
  <2>1. CASE ReadRows(r)
    <3>1. reader[r].sum + rows[k] \in Nat
        BY <2>0 DEF TypeOK, Reader
    <3>2. reader' = [reader EXCEPT ![r] = [reader[r] EXCEPT !.pc = "has",
                                                             !.sum = reader[r].sum + rows[k]]]
        BY <1>1, <2>1 DEF ReadRows
    <3>3. PICK x : x = [reader[r] EXCEPT !.pc = "has", !.sum = reader[r].sum + rows[k]]
        OBVIOUS
    <3>4. x \in Reader /\ x.pc = "has" /\ x.key = reader[r].key /\ x.flight = reader[r].flight
        BY <2>0, <3>1, <3>3 DEF Reader
    <3>5. QED
        BY <3>2, <3>3, <3>4
  <2>2. CASE ReadSwallows(r)
    <3>1. reader' = [reader EXCEPT ![r] = [reader[r] EXCEPT !.pc = "has", !.partial = TRUE]]
        BY <2>2 DEF ReadSwallows
    <3>2. PICK x : x = [reader[r] EXCEPT !.pc = "has", !.partial = TRUE]
        OBVIOUS
    <3>3. x \in Reader /\ x.pc = "has" /\ x.key = reader[r].key /\ x.flight = reader[r].flight
        BY <2>0, <3>2 DEF Reader
    <3>4. QED
        BY <3>1, <3>2, <3>3
  <2>3. QED
      BY <2>1, <2>2
<1>3. reader[r].pc = "reads" /\ reader[r] \in Reader
    BY DEF ReadRows, ReadSwallows, TypeOK
<1>5. /\ \A s \in Readers : s # r => reader'[s] = reader[s]
      /\ reader'[r].pc = "has" /\ reader'[r].key = reader[r].key
      /\ reader'[r].flight = reader[r].flight
    BY <1>2 DEF TypeOK
<1>6. UNCHANGED <<cache, flights, failed, counts, purging, since, recordsLeft, purgesLeft, burst>>
    BY DEF ReadRows, ReadSwallows, bounds
<1>7. failsLeft' \in 0..MaxFails /\ failsLeft' <= failsLeft
    BY RpdAssumption DEF ReadRows, ReadSwallows, bounds, TypeOK
<1>8. TypeOK'
  <2>1. reader' \in [Readers -> Reader]
      BY <1>2 DEF TypeOK
  <2>2. QED
      BY <1>6, <1>7, <2>1 DEF TypeOK, flights, counts
<1>9. Locks'
    BY <1>3, <1>5, <1>6 DEF Locks, Busy, flights
<1>10. Places' /\ Distinct' /\ FlightsMatchReaders'
    BY <1>3, <1>5, <1>6, StayKeeps DEF flights
<1>11. Covered'
    BY <1>6, <1>7, RpdAssumption DEF Covered, counts, TypeOK
<1>12. QED
    BY <1>8, <1>9, <1>10, <1>11

\* Steps of the surroundings move no reader and no flight.
LEMMA AroundKeeps ==
    ASSUME IInv, UNCHANGED <<flights, reader>>
    PROVE  Places' /\ Distinct' /\ Locks' /\ FlightsMatchReaders'
<1>1. Places' /\ Distinct' /\ FlightsMatchReaders'
    BY StayKeeps DEF flights
<1>2. Locks'
    BY DEF IInv, Locks, Busy, flights
<1>3. QED
    BY <1>1, <1>2

LEMMA CacheStepKeeps ==
    ASSUME IInv, NEW k \in Keys, Sweep(k) \/ Invalidate(k)
    PROVE  IInv'
<1> USE DEF IInv
<1>1. cache' \in [Keys -> Entry \cup {NoEntry}]
    BY DEF Sweep, Invalidate, TypeOK
<1>2. /\ purging' \in [Keys -> {"no", "committed", "dropped"}]
      /\ \A j \in Keys : purging'[j] = "committed" => purging[j] = "committed"
    BY DEF Sweep, Invalidate, TypeOK
<1>3. UNCHANGED <<flights, failed, reader, counts, since, bounds, burst>>
    BY DEF Sweep, Invalidate
<1>4. TypeOK' /\ Covered'
    BY <1>1, <1>2, <1>3 DEF TypeOK, Covered, flights, counts, bounds
<1>5. QED
    BY <1>3, <1>4, AroundKeeps

\* Time changes the times of entries and readers, and nothing else.
LEMMA TickOf ==
    ASSUME IInv, Tick
    PROVE  /\ \A r \in Readers :
                 /\ reader'[r] \in Reader
                 /\ reader'[r].pc = reader[r].pc /\ reader'[r].key = reader[r].key
                 /\ reader'[r].flight = reader[r].flight /\ reader'[r].arrived = reader[r].arrived
                 /\ reader'[r].sum = reader[r].sum /\ reader'[r].floor = reader[r].floor
                 /\ reader'[r].purged = reader[r].purged /\ reader'[r].partial = reader[r].partial
                 /\ reader'[r].left = Less(reader[r].left)
                 /\ reader[r].pc = "idle" => reader'[r] = reader[r]
           /\ \A k \in Keys : cache[k] = NoEntry => cache'[k] = NoEntry
           /\ \A k \in Keys : cache[k] # NoEntry =>
                 /\ cache[k] \in Entry /\ cache'[k] \in Entry
                 /\ cache'[k].count = cache[k].count /\ cache'[k].floor = cache[k].floor
                 /\ cache'[k].purged = cache[k].purged /\ cache'[k].partial = cache[k].partial
                 /\ cache'[k].left = Less(cache[k].left)
           /\ \A k \in Keys : since'[k] = More(since[k]) /\ since'[k] \in 0..TTL
<1> USE DEF IInv
<1>1. ASSUME NEW n \in 0..TTL PROVE Less(n) \in 0..TTL /\ More(n) \in 0..TTL
    BY RpdAssumption DEF Less, More
<1>2. ASSUME NEW r \in Readers
      PROVE  /\ reader'[r] \in Reader
             /\ reader'[r].pc = reader[r].pc /\ reader'[r].key = reader[r].key
             /\ reader'[r].flight = reader[r].flight /\ reader'[r].arrived = reader[r].arrived
             /\ reader'[r].sum = reader[r].sum /\ reader'[r].floor = reader[r].floor
             /\ reader'[r].purged = reader[r].purged /\ reader'[r].partial = reader[r].partial
             /\ reader'[r].left = Less(reader[r].left)
             /\ reader[r].pc = "idle" => reader'[r] = reader[r]
  <2>1. reader[r] \in Reader /\ reader[r].left \in 0..TTL
      BY DEF TypeOK, Reader
  <2>2. PICK n \in 0..TTL : n = Less(reader[r].left)
      BY <1>1, <2>1
  <2>3. reader'[r] = [reader[r] EXCEPT !.left = n]
      BY <2>2 DEF Tick
  <2>4. [reader[r] EXCEPT !.left = n] \in Reader
      BY <2>1 DEF Reader
  <2>5. ASSUME reader[r].pc = "idle" PROVE n = reader[r].left
    <3>1. reader[r] = Idle
        BY <2>5 DEF Places
    <3>2. reader[r].left = 0
        BY <3>1 DEF Idle
    <3>3. QED
        BY <2>2, <3>2 DEF Less
  <2>6. n = reader[r].left => reader'[r] = reader[r]
      BY <2>1, <2>3 DEF Reader
  <2>7. QED
      BY <2>1, <2>2, <2>3, <2>4, <2>5, <2>6 DEF Reader
<1>3. ASSUME NEW k \in Keys, cache[k] # NoEntry
      PROVE  /\ cache[k] \in Entry /\ cache'[k] \in Entry
             /\ cache'[k].count = cache[k].count /\ cache'[k].floor = cache[k].floor
             /\ cache'[k].purged = cache[k].purged /\ cache'[k].partial = cache[k].partial
             /\ cache'[k].left = Less(cache[k].left)
  <2>1. cache[k] \in Entry /\ cache[k].left \in 0..TTL
      BY <1>3 DEF TypeOK, Entry
  <2>2. PICK n \in 0..TTL : n = Less(cache[k].left)
      BY <1>1, <2>1
  <2>3. cache'[k] = [cache[k] EXCEPT !.left = n]
      BY <1>3, <2>2 DEF Tick
  <2>4. [cache[k] EXCEPT !.left = n] \in Entry
      BY <2>1 DEF Entry
  <2>5. QED
      BY <2>1, <2>2, <2>3, <2>4 DEF Entry
<1>4. \A k \in Keys : cache[k] = NoEntry => cache'[k] = NoEntry
    BY DEF Tick
<1>5. \A k \in Keys : since'[k] = More(since[k]) /\ since'[k] \in 0..TTL
    BY <1>1 DEF Tick, TypeOK
<1>6. QED
    BY <1>2, <1>3, <1>4, <1>5

LEMMA TickKeeps ==
    ASSUME IInv, Tick
    PROVE  IInv'
<1> USE DEF IInv
<1>1. UNCHANGED <<flights, failed, counts, purging, bounds, burst>>
    BY DEF Tick
<1>2. /\ reader' \in [Readers -> Reader]
      /\ cache' \in [Keys -> Entry \cup {NoEntry}]
      /\ since' \in [Keys -> 0..TTL]
  <2>1. /\ reader' = [r \in Readers |-> reader'[r]] /\ cache' = [k \in Keys |-> cache'[k]]
        /\ since' = [k \in Keys |-> since'[k]]
      BY DEF Tick
  <2>2. QED
      BY <2>1, TickOf
<1>3. TypeOK' /\ Covered'
    BY <1>1, <1>2 DEF TypeOK, Covered, flights, counts, bounds
<1>4. \A r \in Readers :
         /\ reader'[r].flight = reader[r].flight /\ reader'[r].key = reader[r].key
         /\ reader'[r].pc = reader[r].pc
         /\ reader[r].pc = "idle" => reader'[r] = reader[r]
    BY TickOf
<1>5. Locks'
    BY <1>1, <1>4 DEF Locks, Busy, flights
<1>6. Places' /\ Distinct' /\ FlightsMatchReaders'
    BY <1>1, <1>4, StayKeeps DEF flights
<1>7. QED
    BY <1>3, <1>5, <1>6

LEMMA CountStepKeeps ==
    ASSUME IInv, \/ \E k \in Keys : Record(k)
                 \/ FlushCommit \/ FlushSubtract
    PROVE  IInv'
<1> USE DEF IInv
<1>1. CASE \E k \in Keys : Record(k)
  <2>1. PICK k \in Keys : Record(k)
      BY <1>1
  <2>2. buffered' \in [Keys -> Nat] /\ recordsLeft' \in [Keys -> 0..MaxCount]
      BY <2>1, RpdAssumption DEF Record, TypeOK
  <2>3. TypeOK'
      BY <2>1, <2>2 DEF Record, TypeOK, flights
  <2>4. Covered'
      BY <2>1 DEF Record, Covered, TypeOK
  <2>5. QED
      BY <2>1, <2>3, <2>4, AroundKeeps DEF Record
<1>2. CASE FlushCommit
  <2>1. rows' \in [Keys -> Nat] /\ pending' \in [Keys -> Nat]
      BY <1>2 DEF FlushCommit, TypeOK
  <2>2. TypeOK'
      BY <1>2, <2>1 DEF FlushCommit, TypeOK, flights, bounds
  <2>3. Covered'
      BY <1>2 DEF FlushCommit, Covered, TypeOK, bounds
  <2>4. QED
      BY <1>2, <2>2, <2>3, AroundKeeps DEF FlushCommit
<1>3. CASE FlushSubtract
  <2>1. buffered' \in [Keys -> Nat] /\ pending' \in [Keys -> Nat]
      BY <1>3 DEF FlushSubtract, TypeOK, Covered
  <2>2. TypeOK'
      BY <1>3, <2>1 DEF FlushSubtract, TypeOK, flights, bounds
  <2>3. Covered'
      BY <1>3, <2>1 DEF FlushSubtract, Covered, TypeOK, bounds
  <2>4. QED
      BY <1>3, <2>2, <2>3, AroundKeeps DEF FlushSubtract
<1>4. QED
    BY <1>1, <1>2, <1>3

\* What a purge does to what has been counted before it.
LEMMA OutdatedOf ==
    ASSUME IInv, NEW k \in Keys, Outdated(k)
    PROVE  /\ \A r \in Readers :
                 /\ reader'[r] \in Reader
                 /\ reader'[r].flight = reader[r].flight /\ reader'[r].key = reader[r].key
                 /\ reader'[r].pc = reader[r].pc
                 /\ reader'[r].sum = reader[r].sum /\ reader'[r].left = reader[r].left
                 /\ reader'[r].partial = reader[r].partial
           /\ \A r \in Readers :
                 IF reader[r].key = k /\ reader[r].pc \in {"reads", "has"}
                 THEN reader'[r].floor = 0 /\ reader'[r].purged
                 ELSE reader'[r] = reader[r]
           /\ \A j \in Keys : j # k => cache'[j] = cache[j] /\ since'[j] = since[j]
           /\ cache[k] = NoEntry => cache'[k] = NoEntry
           /\ cache[k] # NoEntry =>
                 /\ cache[k] \in Entry /\ cache'[k] \in Entry
                 /\ cache'[k].floor = 0 /\ cache'[k].count = cache[k].count
                 /\ cache'[k].left = cache[k].left /\ cache'[k].partial = cache[k].partial
           /\ since'[k] = 0
<1> USE DEF IInv
<1>1. ASSUME NEW r \in Readers
      PROVE  /\ reader'[r] \in Reader
             /\ reader'[r].flight = reader[r].flight /\ reader'[r].key = reader[r].key
             /\ reader'[r].pc = reader[r].pc
             /\ reader'[r].sum = reader[r].sum /\ reader'[r].left = reader[r].left
             /\ reader'[r].partial = reader[r].partial
             /\ IF reader[r].key = k /\ reader[r].pc \in {"reads", "has"}
                THEN reader'[r].floor = 0 /\ reader'[r].purged
                ELSE reader'[r] = reader[r]
  <2>1. reader[r] \in Reader
      BY DEF TypeOK
  <2>2. CASE reader[r].key = k /\ reader[r].pc \in {"reads", "has"}
    <3>1. PICK x : x = [reader[r] EXCEPT !.floor = 0, !.purged = TRUE]
        OBVIOUS
    <3>2. reader'[r] = x
        BY <2>2, <3>1 DEF Outdated
    <3>3. x \in Reader
        BY <2>1, <3>1 DEF Reader
    <3>4. /\ x.pc = reader[r].pc /\ x.key = reader[r].key /\ x.flight = reader[r].flight
          /\ x.sum = reader[r].sum /\ x.left = reader[r].left /\ x.floor = 0
        BY <2>1, <3>1 DEF Reader
    <3>5. x.partial = reader[r].partial /\ x.purged
        BY <2>1, <3>1 DEF Reader
    <3>6. QED
        BY <2>2, <3>2, <3>3, <3>4, <3>5
  <2>3. CASE ~ (reader[r].key = k /\ reader[r].pc \in {"reads", "has"})
    <3>1. reader'[r] = reader[r]
        BY <2>3 DEF Outdated
    <3>2. QED
        BY <2>1, <2>3, <3>1
  <2>4. QED
      BY <2>2, <2>3
<1>2. \A j \in Keys : j # k => cache'[j] = cache[j] /\ since'[j] = since[j]
    BY DEF Outdated, TypeOK
<1>3. (cache[k] = NoEntry => cache'[k] = NoEntry) /\ since'[k] = 0
    BY DEF Outdated, TypeOK
<1>4. ASSUME cache[k] # NoEntry
      PROVE  /\ cache[k] \in Entry /\ cache'[k] \in Entry
             /\ cache'[k].floor = 0 /\ cache'[k].count = cache[k].count
             /\ cache'[k].left = cache[k].left /\ cache'[k].partial = cache[k].partial
  <2>1. cache[k] \in Entry
      BY <1>4 DEF TypeOK
  <2>2. PICK x : x = [cache[k] EXCEPT !.floor = 0, !.purged = TRUE]
      OBVIOUS
  <2>3. cache'[k] = x
      BY <1>4, <2>2 DEF Outdated, TypeOK
  <2>4. x \in Entry
      BY <2>1, <2>2 DEF Entry
  <2>5. x.floor = 0 /\ x.count = cache[k].count /\ x.left = cache[k].left
      BY <2>1, <2>2 DEF Entry
  <2>6. x.partial = cache[k].partial
      BY <2>1, <2>2 DEF Entry
  <2>7. QED
      BY <2>1, <2>3, <2>4, <2>5, <2>6
<1>5. QED
    BY <1>1, <1>2, <1>3, <1>4

LEMMA PurgeKeeps ==
    ASSUME IInv, NEW k \in Keys, PurgeCommit(k) \/ PurgeDrop(k)
    PROVE  IInv'
<1> USE DEF IInv
<1>0. Outdated(k) /\ UNCHANGED <<flights, failed, pending, recordsLeft, failsLeft, burst>>
    BY DEF PurgeCommit, PurgeDrop, bounds
<1>1. /\ rows' \in [Keys -> Nat] /\ buffered' \in [Keys -> Nat] /\ purgesLeft' \in 0..MaxPurges
      /\ purging' \in [Keys -> {"no", "committed", "dropped"}]
    BY RpdAssumption DEF PurgeCommit, PurgeDrop, bounds, TypeOK
<1>2. \A j \in Keys : pending[j] = 0
    BY DEF PurgeCommit, PurgeDrop, Covered
<1>3. /\ reader' \in [Readers -> Reader]
      /\ cache' \in [Keys -> Entry \cup {NoEntry}]
      /\ since' \in [Keys -> 0..TTL]
  <2>1. reader' = [r \in Readers |-> reader'[r]]
      BY <1>0 DEF Outdated
  <2>c. cache' = [j \in Keys |-> cache'[j]]
    <3>1. PICK x : cache' = [cache EXCEPT ![k] = x]
        BY <1>0 DEF Outdated
    <3>2. QED
        BY <3>1 DEF TypeOK
  <2>2. since' \in [Keys -> 0..TTL]
    <3>1. 0 \in 0..TTL
        BY RpdAssumption
    <3>2. since' = [since EXCEPT ![k] = 0]
        BY <1>0 DEF Outdated
    <3>3. QED
        BY <3>1, <3>2 DEF TypeOK
  <2>3. \A j \in Keys : cache'[j] \in Entry \cup {NoEntry}
      BY <1>0, OutdatedOf DEF TypeOK
  <2>4. \A r \in Readers : reader'[r] \in Reader
      BY <1>0, OutdatedOf
  <2>5. QED
      BY <2>1, <2>c, <2>2, <2>3, <2>4
<1>4. TypeOK'
    BY <1>0, <1>1, <1>3 DEF TypeOK, flights
<1>5. Covered'
    BY <1>0, <1>1, <1>2 DEF Covered, TypeOK
<1>6. \A r \in Readers :
         /\ reader'[r].flight = reader[r].flight /\ reader'[r].key = reader[r].key
         /\ reader'[r].pc = reader[r].pc
         /\ reader[r].pc = "idle" => reader'[r] = reader[r]
    BY <1>0, OutdatedOf
<1>7. Locks'
    BY <1>0, <1>6 DEF Locks, Busy, flights
<1>8. Places' /\ Distinct' /\ FlightsMatchReaders'
    BY <1>0, <1>6, StayKeeps DEF flights
<1>9. QED
    BY <1>4, <1>5, <1>7, <1>8

LEMMA NextIInv == IInv /\ [Next]_vars => IInv'
<1> SUFFICES ASSUME IInv, [Next]_vars
             PROVE  IInv'
    OBVIOUS
<1>1. ASSUME NEW r \in Readers, NEW k \in Keys, NEW f \in Flights, Arrive(r, k, f)
      PROVE  IInv'
    BY <1>1, ArriveKeeps
<1>2. ASSUME NEW r \in Readers, Entering(r) \/ Loading(r) \/ Cancel(r)
      PROVE  IInv'
    BY <1>2, ServeKeeps, LoadKeeps, ReadKeeps, RaisesKeeps, StoreKeeps, CancelKeeps
       DEF Entering, Loading
<1>3. ASSUME NEW k \in Keys, Sweep(k) \/ Invalidate(k)
      PROVE  IInv'
    BY <1>3, CacheStepKeeps
<1>4. ASSUME \/ \E k \in Keys : Record(k)
             \/ FlushCommit \/ FlushSubtract
      PROVE  IInv'
    BY <1>4, CountStepKeeps
<1>5. ASSUME NEW k \in Keys, PurgeCommit(k) \/ PurgeDrop(k)
      PROVE  IInv'
    BY <1>5, PurgeKeeps
<1>t. CASE Tick
    BY <1>t, TickKeeps
<1>6. CASE UNCHANGED vars
  <2>1. TypeOK' /\ Covered'
      BY <1>6 DEF vars, flights, counts, bounds, IInv, TypeOK, Covered
  <2>2. QED
      BY <1>6, <2>1, AroundKeeps DEF vars, IInv
<1>7. QED
    BY <1>1, <1>2, <1>3, <1>4, <1>5, <1>t, <1>6 DEF Next

LEMMA SpecIInv == Spec => []IInv
BY InitIInv, NextIInv, PTL DEF Spec

-----------------------------------------------------------------------------
\* Cache, flights and counts stay well-formed (what _rpd_cache and _rpd_inflight hold).
THEOREM TypeCorrect == Spec => []TypeOK
<1>1. IInv => TypeOK
    BY DEF IInv
<1>2. QED
    BY <1>1, SpecIInv, PTL

\* _read_rpd_cached never runs two loads of one key at a time.
THEOREM OneLoadAtATime == Spec => []SingleFlight
<1>1. IInv => SingleFlight
    BY DEF IInv, SingleFlight, Places, Locks, Busy
<1>2. QED
    BY <1>1, SpecIInv, PTL

\* _rpd_inflight has an entry exactly while there are readers, and counts them.
THEOREM FlightBookkeeping == Spec => []FlightsMatchReaders
<1>1. IInv => FlightsMatchReaders
    BY DEF IInv
<1>2. QED
    BY <1>1, SpecIInv, PTL

-----------------------------------------------------------------------------
(* Whole counts, unless the tracker has swallowed a failed read.           *)

\* What a read has summed, with what the tables still hold for it, covers what the
\* scope had used when the load began.
Sums ==
    /\ \A r \in Readers :
         reader[r].pc = "reads" => reader[r].floor <= reader[r].sum + rows[reader[r].key]
    /\ \A r \in Readers : reader[r].pc = "has" => reader[r].partial \/ reader[r].floor <= reader[r].sum
    /\ CompleteReadIsWhole

\* A reader that leaves takes no part in it any more.
LEMMA LeaveSums ==
    ASSUME IInv, Sums, NEW r \in Readers, ForgetFlight(r), UNCHANGED <<rows, cache>>
    PROVE  Sums'
<1>1. reader' = [reader EXCEPT ![r] = Idle]
    BY DEF ForgetFlight
<1>2. Idle.pc = "idle"
    BY DEF Idle
<1>3. QED
    BY <1>1, <1>2 DEF IInv, TypeOK, Sums, CompleteReadIsWhole

LEMMA ReaderSums ==
    ASSUME IInv, Sums, NEW r \in Readers,
           Entering(r) \/ Loading(r) \/ Cancel(r)
    PROVE  Sums'
<1> USE DEF IInv
<1>1. CASE EnterAndServe(r) \/ LoadRaises(r) \/ Cancel(r)
    BY <1>1, LeaveSums DEF EnterAndServe, LoadRaises, Cancel, counts
<1>2. CASE EnterAndLoad(r)
  <2>1. PICK k \in Keys : k = reader[r].key
      BY <1>2 DEF EnterAndLoad, Places
  <2>2. /\ reader' = [reader EXCEPT ![r] = [reader[r] EXCEPT !.pc = "reads", !.sum = buffered[k],
                                                             !.left = TTL, !.floor = Used(k)]]
        /\ UNCHANGED <<rows, cache>>
      BY <1>2, <2>1 DEF EnterAndLoad, ReadBuffer, counts
  <2>3. Used(k) <= buffered[k] + rows[k]
      BY DEF Used, TypeOK
  <2>4. /\ reader'[r].pc = "reads" /\ reader'[r].key = k
        /\ reader'[r].sum = buffered[k] /\ reader'[r].floor = Used(k)
        /\ \A s \in Readers : s # r => reader'[s] = reader[s]
      BY <2>1, <2>2 DEF TypeOK, Reader
  <2>5. QED
      BY <2>2, <2>3, <2>4 DEF Sums, CompleteReadIsWhole
<1>3. CASE ReadRows(r)
  <2>1. reader[r] \in Reader /\ reader[r].pc = "reads"
      BY <1>3 DEF ReadRows, TypeOK
  <2>2. /\ reader' = [reader EXCEPT ![r] =
             [reader[r] EXCEPT !.pc = "has", !.sum = reader[r].sum + rows[reader[r].key]]]
        /\ UNCHANGED <<rows, cache>>
      BY <1>3 DEF ReadRows, counts
  <2>3. /\ reader'[r].pc = "has" /\ reader'[r].floor = reader[r].floor
        /\ reader'[r].sum = reader[r].sum + rows[reader[r].key]
        /\ \A s \in Readers : s # r => reader'[s] = reader[s]
      BY <2>1, <2>2 DEF TypeOK, Reader
  <2>4. QED
      BY <2>1, <2>2, <2>3 DEF Sums, CompleteReadIsWhole
<1>4. CASE ReadSwallows(r)
  <2>1. reader[r] \in Reader
      BY DEF TypeOK
  <2>2. /\ reader' = [reader EXCEPT ![r] = [reader[r] EXCEPT !.pc = "has", !.partial = TRUE]]
        /\ UNCHANGED <<rows, cache>>
      BY <1>4 DEF ReadSwallows, counts
  <2>3. /\ reader'[r].pc = "has" /\ reader'[r].partial
        /\ \A s \in Readers : s # r => reader'[s] = reader[s]
      BY <2>1, <2>2 DEF TypeOK, Reader
  <2>4. QED
      BY <2>2, <2>3 DEF Sums, CompleteReadIsWhole
<1>5. CASE Store(r)
  <2>1. PICK k \in Keys : k = reader[r].key
      BY <1>5 DEF Store, Places
  <2>2. reader[r].partial \/ reader[r].floor <= reader[r].sum
      BY <1>5 DEF Store, Sums
  <2>3. /\ cache' = [cache EXCEPT ![k] = [count |-> reader[r].sum, left |-> reader[r].left,
                                          floor |-> reader[r].floor, purged |-> reader[r].purged,
                                          partial |-> reader[r].partial]]
        /\ reader' = [reader EXCEPT ![r] = Idle]
        /\ UNCHANGED rows
      BY <1>5, <2>1 DEF Store, ForgetFlight, counts
  <2>4. CompleteReadIsWhole'
      BY <2>2, <2>3 DEF Sums, CompleteReadIsWhole, TypeOK
  <2>5. Idle.pc = "idle"
      BY DEF Idle
  <2>6. QED
      BY <2>3, <2>4, <2>5 DEF Sums, TypeOK
<1>6. QED
    BY <1>1, <1>2, <1>3, <1>4, <1>5 DEF Entering, Loading

LEMMA AroundSums ==
    ASSUME IInv, Sums, UNCHANGED reader, rows' \in [Keys -> Nat],
           \A k \in Keys : rows'[k] >= rows[k],
           \A k \in Keys : cache'[k] # NoEntry =>
              /\ cache[k] # NoEntry
              /\ cache'[k].count = cache[k].count /\ cache'[k].floor = cache[k].floor
              /\ cache'[k].partial = cache[k].partial
    PROVE  Sums'
<1> USE DEF IInv
<1>1. ASSUME NEW r \in Readers, reader[r].pc = "reads"
      PROVE  reader[r].floor <= reader[r].sum + rows'[reader[r].key]
  <2>1. reader[r].key \in Keys /\ reader[r] \in Reader
      BY <1>1 DEF Places, TypeOK
  <2>2. rows'[reader[r].key] >= rows[reader[r].key]
      BY <2>1
  <2>3. reader[r].floor <= reader[r].sum + rows[reader[r].key]
      BY <1>1 DEF Sums
  <2>4. /\ rows[reader[r].key] \in Nat /\ rows'[reader[r].key] \in Nat
        /\ reader[r].floor \in Nat /\ reader[r].sum \in Nat
      BY <2>1 DEF TypeOK, Reader
  <2>5. QED
      BY <2>2, <2>3, <2>4
<1>2. QED
    BY <1>1 DEF Sums, CompleteReadIsWhole

\* A purge takes rows or buffered counts away, and with them what the reads had to
\* cover.
LEMMA PurgeSums ==
    ASSUME IInv, Sums, NEW k \in Keys, PurgeCommit(k) \/ PurgeDrop(k)
    PROVE  Sums'
<1> USE DEF IInv
<1>0. /\ Outdated(k) /\ rows'[k] \in Nat
      /\ \A j \in Keys : j # k => rows'[j] = rows[j]
    BY DEF PurgeCommit, PurgeDrop, TypeOK
<1>1. ASSUME NEW r \in Readers
      PROVE  /\ reader'[r].pc = "reads"
                  => reader'[r].floor <= reader'[r].sum + rows'[reader'[r].key]
             /\ reader'[r].pc = "has" => reader'[r].partial \/ reader'[r].floor <= reader'[r].sum
  <2>0. reader[r].sum \in Nat
      BY DEF TypeOK, Reader
  <2>1. CASE reader[r].key = k /\ reader[r].pc \in {"reads", "has"}
    <3>1. /\ reader'[r].floor = 0 /\ reader'[r].sum = reader[r].sum
          /\ reader'[r].key = reader[r].key
        BY <1>0, <2>1, OutdatedOf
    <3>2. QED
        BY <1>0, <2>0, <2>1, <3>1
  <2>2. CASE ~ (reader[r].key = k /\ reader[r].pc \in {"reads", "has"})
    <3>1. reader'[r] = reader[r]
        BY <1>0, <2>2, OutdatedOf
    <3>2. CASE reader[r].pc = "reads"
      <4>1. reader[r].key \in Keys /\ reader[r].key # k
          BY <2>2, <3>2 DEF Places
      <4>2. QED
          BY <1>0, <3>1, <3>2, <4>1 DEF Sums
    <3>3. CASE reader[r].pc # "reads"
        BY <3>1, <3>3 DEF Sums
    <3>4. QED
        BY <3>2, <3>3
  <2>3. QED
      BY <2>1, <2>2
<1>2. CompleteReadIsWhole'
  <2> SUFFICES ASSUME NEW j \in Keys, cache'[j] # NoEntry
               PROVE  cache'[j].partial \/ cache'[j].count >= cache'[j].floor
      BY DEF CompleteReadIsWhole
  <2>1. CASE j = k
    <3>1. cache'[k].floor = 0 /\ cache'[k] \in Entry
        BY <1>0, <2>1, OutdatedOf
    <3>2. QED
        BY <2>1, <3>1 DEF Entry
  <2>2. CASE j # k
    <3>1. cache'[j] = cache[j]
        BY <1>0, <2>2, OutdatedOf
    <3>2. QED
        BY <3>1 DEF Sums, CompleteReadIsWhole
  <2>3. QED
      BY <2>1, <2>2
<1>3. QED
    BY <1>1, <1>2 DEF Sums

\* No count changes as time passes.
LEMMA TickSums ==
    ASSUME IInv, Sums, Tick
    PROVE  Sums'
<1>1. \A r \in Readers :
         /\ reader'[r].pc = reader[r].pc /\ reader'[r].key = reader[r].key
         /\ reader'[r].sum = reader[r].sum /\ reader'[r].floor = reader[r].floor
         /\ reader'[r].partial = reader[r].partial
    BY TickOf
<1>2. \A k \in Keys : cache'[k] # NoEntry =>
         /\ cache[k] # NoEntry /\ cache'[k].count = cache[k].count
         /\ cache'[k].floor = cache[k].floor /\ cache'[k].partial = cache[k].partial
    BY TickOf
<1>3. UNCHANGED rows
    BY DEF Tick, counts
<1>4. QED
    BY <1>1, <1>2, <1>3 DEF Sums, CompleteReadIsWhole

LEMMA NextSums == IInv /\ IInv' /\ Sums /\ [Next]_vars => Sums'
<1> SUFFICES ASSUME IInv, IInv', Sums, [Next]_vars
             PROVE  Sums'
    OBVIOUS
<1>0. rows' \in [Keys -> Nat]
    BY DEF IInv, TypeOK
<1>1. ASSUME NEW r \in Readers, NEW k \in Keys, NEW f \in Flights, Arrive(r, k, f)
      PROVE  Sums'
  <2>1. PICK n \in 0..MaxFails :
          /\ reader' = [reader EXCEPT ![r] = [Idle EXCEPT !.pc = "waits", !.key = k,
                                                          !.flight = f, !.arrived = n]]
          /\ UNCHANGED <<rows, cache>>
      BY <1>1, RpdAssumption DEF Arrive, IInv, TypeOK, counts
  <2>2. /\ reader'[r].pc = "waits"
        /\ \A s \in Readers : s # r => reader'[s] = reader[s]
      BY <2>1 DEF IInv, TypeOK, Idle
  <2>3. QED
      BY <2>1, <2>2 DEF Sums, CompleteReadIsWhole
<1>2. ASSUME NEW r \in Readers, Entering(r) \/ Loading(r) \/ Cancel(r)
      PROVE  Sums'
    BY <1>2, ReaderSums
<1>3. ASSUME NEW k \in Keys, Sweep(k) \/ Invalidate(k)
      PROVE  Sums'
  <2>1. /\ UNCHANGED <<reader, rows>>
        /\ \A j \in Keys : cache'[j] # NoEntry => cache'[j] = cache[j]
      BY <1>3 DEF Sweep, Invalidate, IInv, TypeOK, counts
  <2>2. \A j \in Keys : rows'[j] >= rows[j]
      BY <2>1 DEF IInv, TypeOK
  <2>3. QED
      BY <1>0, <2>1, <2>2, AroundSums
<1>4. ASSUME \/ \E k \in Keys : Record(k)
             \/ FlushCommit \/ FlushSubtract
      PROVE  Sums'
  <2>1. UNCHANGED <<reader, cache>>
      BY <1>4 DEF Record, FlushCommit, FlushSubtract
  <2>2. \A j \in Keys : rows'[j] >= rows[j]
      BY <1>4 DEF Record, FlushCommit, FlushSubtract, IInv, TypeOK
  <2>3. QED
      BY <1>0, <2>1, <2>2, AroundSums
<1>5. ASSUME NEW k \in Keys, PurgeCommit(k) \/ PurgeDrop(k)
      PROVE  Sums'
    BY <1>5, PurgeSums
<1>t. CASE Tick
    BY <1>t, TickSums
<1>6. CASE UNCHANGED vars
    BY <1>6 DEF vars, counts, Sums, CompleteReadIsWhole
<1>7. QED
    BY <1>1, <1>2, <1>3, <1>4, <1>5, <1>t, <1>6 DEF Next

\* A count cached by _read_rpd_cached is never below what the scope had used when
\* its load began, unless the tracker swallowed a failed read of it.
THEOREM WholeCounts == Spec => []CompleteReadIsWhole
<1>1. Init => Sums
    BY DEF Init, Sums, CompleteReadIsWhole, Idle
<1>2. IInv /\ IInv' /\ Sums /\ [Next]_vars => Sums'
    BY NextSums
<1>3. Sums => CompleteReadIsWhole
    BY DEF Sums
<1>4. QED
    BY <1>1, <1>2, <1>3, SpecIInv, PTL DEF Spec

-----------------------------------------------------------------------------
(* Purged counts.                                                          *)

\* What is being loaded will be cached from the time its load began, so what is left of
\* it and the time since the purge that outdated it add up to no more than TTL.  A
\* reader that has not begun to load has counted nothing that could be purged.
Dated ==
    /\ PurgedCountsForgotten
    /\ \A r \in Readers : reader[r].pc = "waits" => ~ reader[r].purged
    /\ \A r \in Readers :
         Busy(r) /\ reader[r].purged => reader[r].left + since[reader[r].key] <= TTL

\* Steps that change no entry and no time.
LEMMA DatedOn ==
    ASSUME IInv, Dated, UNCHANGED since,
           \A k \in Keys : cache'[k] # NoEntry => cache'[k] = cache[k],
           \A r \in Readers : Busy(r)' => /\ Busy(r) /\ reader'[r].key = reader[r].key
                                          /\ reader'[r].left = reader[r].left
                                          /\ reader'[r].purged = reader[r].purged,
           \A r \in Readers : reader'[r].pc = "waits" => reader'[r] = reader[r]
    PROVE  Dated'
BY DEF Dated, PurgedCountsForgotten

LEMMA ReaderDated ==
    ASSUME IInv, Dated, NEW r \in Readers, Entering(r) \/ Loading(r) \/ Cancel(r)
    PROVE  Dated'
<1> USE DEF IInv
<1>1. CASE EnterAndServe(r) \/ LoadRaises(r) \/ Cancel(r)
  <2>1. UNCHANGED <<cache, since>> /\ reader' = [reader EXCEPT ![r] = Idle]
      BY <1>1 DEF EnterAndServe, LoadRaises, Cancel, ForgetFlight
  <2>2. \A s \in Readers : reader'[s].pc # "idle" => reader'[s] = reader[s]
      BY <2>1 DEF TypeOK, Idle
  <2>3. QED
      BY <2>1, <2>2, DatedOn DEF Busy
<1>2. CASE EnterAndLoad(r)
  <2>1. UNCHANGED <<cache, since>> /\ reader[r] \in Reader /\ reader[r].pc = "waits"
      BY <1>2 DEF EnterAndLoad, TypeOK
  <2>2. /\ ~ reader'[r].purged
        /\ reader'[r].pc = "reads"
        /\ \A s \in Readers : s # r => reader'[s] = reader[s]
    <3>1. reader' = [reader EXCEPT ![r] = [reader[r] EXCEPT !.pc = "reads",
             !.sum = buffered[reader[r].key], !.left = TTL, !.floor = Used(reader[r].key)]]
        BY <1>2 DEF EnterAndLoad, ReadBuffer
    <3>2. reader'[r].purged = reader[r].purged /\ reader'[r].pc = "reads"
        BY <2>1, <3>1 DEF TypeOK, Reader
    <3>3. ~ reader[r].purged
        BY <2>1 DEF Dated
    <3>4. QED
        BY <3>1, <3>2, <3>3 DEF TypeOK
  <2>3. QED
      BY <2>1, <2>2 DEF Dated, PurgedCountsForgotten, Busy
<1>3. CASE ReadRows(r) \/ ReadSwallows(r)
  <2>1. UNCHANGED <<cache, since>> /\ reader[r] \in Reader /\ reader[r].pc = "reads"
      BY <1>3 DEF ReadRows, ReadSwallows, TypeOK
  <2>2. /\ reader'[r].key = reader[r].key /\ reader'[r].left = reader[r].left
        /\ reader'[r].purged = reader[r].purged /\ reader'[r].pc = "has"
        /\ \A s \in Readers : s # r => reader'[s] = reader[s]
    <3>1. CASE ReadRows(r)
        BY <2>1, <3>1 DEF ReadRows, TypeOK, Reader
    <3>2. CASE ReadSwallows(r)
        BY <2>1, <3>2 DEF ReadSwallows, TypeOK, Reader
    <3>3. QED
        BY <1>3, <3>1, <3>2
  <2>3. \A s \in Readers : Busy(s)' => Busy(s)
      BY <2>1, <2>2 DEF Busy
  <2>4. QED
      BY <2>1, <2>2, <2>3, DatedOn
<1>4. CASE Store(r)
  <2>1. PICK k \in Keys : k = reader[r].key
      BY <1>4 DEF Store, Places
  <2>2. cache' = [cache EXCEPT ![k] = [count |-> reader[r].sum, left |-> reader[r].left,
                                       floor |-> reader[r].floor, purged |-> reader[r].purged,
                                       partial |-> reader[r].partial]]
      BY <1>4, <2>1 DEF Store
  <2>3. /\ UNCHANGED since /\ Busy(r)
        /\ \A s \in Readers : reader'[s].pc # "idle" => reader'[s] = reader[s]
      BY <1>4 DEF Store, ForgetFlight, TypeOK, Busy, Idle
  <2>4. reader[r].purged => reader[r].left + since[k] <= TTL
      BY <2>1, <2>3 DEF Dated
  <2>5. PurgedCountsForgotten'
      BY <2>2, <2>3, <2>4 DEF Dated, PurgedCountsForgotten, TypeOK
  <2>6. QED
      BY <2>3, <2>5 DEF Dated, Busy
<1>5. QED
    BY <1>1, <1>2, <1>3, <1>4 DEF Entering, Loading

\* What is counted now can be cached for TTL from the purge at the most.
LEMMA PurgeDated ==
    ASSUME IInv, Dated, NEW k \in Keys, PurgeCommit(k) \/ PurgeDrop(k)
    PROVE  Dated'
<1> USE DEF IInv
<1>0. Outdated(k)
    BY DEF PurgeCommit, PurgeDrop
<1>1. PurgedCountsForgotten'
  <2> SUFFICES ASSUME NEW j \in Keys, cache'[j] # NoEntry, cache'[j].purged
               PROVE  cache'[j].left + since'[j] <= TTL
      BY DEF PurgedCountsForgotten
  <2>1. CASE j = k
    <3>1. cache'[k] \in Entry /\ since'[k] = 0
        BY <1>0, <2>1, OutdatedOf
    <3>2. QED
        BY <2>1, <3>1, RpdAssumption DEF Entry
  <2>2. CASE j # k
      BY <1>0, <2>2, OutdatedOf DEF Dated, PurgedCountsForgotten
  <2>3. QED
      BY <2>1, <2>2
<1>2. ASSUME NEW r \in Readers, Busy(r)', reader'[r].purged
      PROVE  reader'[r].left + since'[reader'[r].key] <= TTL
  <2>1. /\ reader'[r].key = reader[r].key /\ reader'[r].left = reader[r].left
        /\ reader'[r].pc = reader[r].pc /\ reader[r].left \in 0..TTL
      BY <1>0, OutdatedOf DEF TypeOK, Reader
  <2>2. reader[r].key \in Keys
      BY <1>2, <2>1 DEF Places, Busy
  <2>3. CASE reader[r].key = k
      BY <1>0, <2>1, <2>3, OutdatedOf, RpdAssumption
  <2>4. CASE reader[r].key # k
    <3>1. reader'[r] = reader[r] /\ since'[reader[r].key] = since[reader[r].key]
        BY <1>0, <2>2, <2>4, OutdatedOf
    <3>2. QED
        BY <1>2, <2>1, <3>1 DEF Dated, Busy
  <2>5. QED
      BY <2>3, <2>4
<1>3. \A r \in Readers : reader'[r].pc = "waits" => ~ reader'[r].purged
    BY <1>0, OutdatedOf DEF Dated
<1>4. QED
    BY <1>1, <1>2, <1>3 DEF Dated

\* What is left goes down as the time since the purge goes up.
LEMMA TickDated ==
    ASSUME IInv, Dated, Tick
    PROVE  Dated'
<1> USE DEF IInv
<1>1. ASSUME NEW n \in 0..TTL, NEW m \in 0..TTL, n + m <= TTL
      PROVE  Less(n) + More(m) <= TTL
    BY <1>1, RpdAssumption DEF Less, More
<1>2. PurgedCountsForgotten'
  <2> SUFFICES ASSUME NEW k \in Keys, cache'[k] # NoEntry, cache'[k].purged
               PROVE  cache'[k].left + since'[k] <= TTL
      BY DEF PurgedCountsForgotten
  <2>1. /\ cache[k] # NoEntry /\ cache[k] \in Entry
        /\ cache'[k].left = Less(cache[k].left) /\ cache[k].purged
        /\ since'[k] = More(since[k])
      BY TickOf
  <2>2. cache[k].left \in 0..TTL
      BY <2>1 DEF Entry
  <2>3. since[k] \in 0..TTL /\ cache[k].left + since[k] <= TTL
      BY <2>1, <2>2 DEF Dated, PurgedCountsForgotten, TypeOK
  <2>4. QED
      BY <1>1, <2>1, <2>2, <2>3
<1>3. ASSUME NEW r \in Readers, Busy(r)', reader'[r].purged
      PROVE  reader'[r].left + since'[reader'[r].key] <= TTL
  <2>1. reader[r].left \in 0..TTL
      BY DEF TypeOK, Reader
  <2>2. /\ reader'[r].left = Less(reader[r].left) /\ reader[r].purged /\ Busy(r)
        /\ reader[r].left \in 0..TTL /\ reader'[r].key = reader[r].key
      BY <1>3, <2>1, TickOf DEF Busy
  <2>3. reader[r].key \in Keys
      BY <2>2 DEF Places, Busy
  <2>4. /\ since'[reader[r].key] = More(since[reader[r].key])
        /\ since[reader[r].key] \in 0..TTL
        /\ reader[r].left + since[reader[r].key] <= TTL
      BY <2>2, <2>3, TickOf DEF Dated, TypeOK
  <2>5. QED
      BY <1>1, <2>2, <2>4
<1>4. \A r \in Readers : reader'[r].pc = "waits" => ~ reader'[r].purged
    BY TickOf DEF Dated
<1>5. QED
    BY <1>2, <1>3, <1>4 DEF Dated

LEMMA DatedStep == IInv /\ Dated /\ [Next]_vars => Dated'
<1> SUFFICES ASSUME IInv, Dated, [Next]_vars
             PROVE  Dated'
    OBVIOUS
<1>1. ASSUME NEW r \in Readers, NEW k \in Keys, NEW f \in Flights, Arrive(r, k, f)
      PROVE  Dated'
  <2>1. /\ UNCHANGED <<cache, since>> /\ reader'[r].pc = "waits" /\ ~ reader'[r].purged
        /\ \A s \in Readers : s # r => reader'[s] = reader[s]
      BY <1>1 DEF Arrive, Idle, IInv, TypeOK
  <2>2. QED
      BY <2>1 DEF Dated, PurgedCountsForgotten, Busy
<1>2. ASSUME NEW r \in Readers, Entering(r) \/ Loading(r) \/ Cancel(r)
      PROVE  Dated'
    BY <1>2, ReaderDated
<1>3. ASSUME NEW k \in Keys, PurgeCommit(k) \/ PurgeDrop(k)
      PROVE  Dated'
    BY <1>3, PurgeDated
<1>4. ASSUME \/ \E k \in Keys : Sweep(k) \/ Invalidate(k) \/ Record(k)
             \/ FlushCommit \/ FlushSubtract \/ UNCHANGED vars
      PROVE  Dated'
  <2>1. /\ UNCHANGED <<reader, since>>
        /\ \A j \in Keys : cache'[j] # NoEntry => cache'[j] = cache[j]
      BY <1>4 DEF Sweep, Invalidate, Record, FlushCommit, FlushSubtract, vars, IInv, TypeOK
  <2>2. QED
      BY <2>1, DatedOn DEF Busy
<1>5. CASE Tick
    BY <1>5, TickDated
<1>6. QED
    BY <1>1, <1>2, <1>3, <1>4, <1>5 DEF Next

\* No count that a purge outdated, not even one loaded across it, is served as fresh
\* for longer than _RPD_TTL after it.
THEOREM PurgesForgotten == Spec => []PurgedCountsForgotten
<1>1. Init => Dated
    BY DEF Init, Dated, PurgedCountsForgotten, Idle, Busy
<1>2. Dated => PurgedCountsForgotten
    BY DEF Dated
<1>3. QED
    BY <1>1, <1>2, DatedStep, SpecIInv, PTL DEF Spec

-----------------------------------------------------------------------------
\* A reader that waits has seen no failure that its flight has not, and one that waited
\* through a failure has one fewer.
Waited ==
    \A r \in Readers : reader[r].pc = "waits" =>
        /\ reader[r].arrived <= failed[reader[r].flight]
        /\ r \in burst => reader[r].arrived < failed[reader[r].flight]

\* Steps that leave the failures alone, and let nobody start to wait.
LEMMA WaitedOn ==
    ASSUME IInv, Waited, UNCHANGED <<failed, burst>>,
           \A r \in Readers : reader'[r].pc = "waits" => reader'[r] = reader[r]
    PROVE  Waited'
BY DEF Waited

LEMMA ArriveWaited ==
    ASSUME IInv, Waited, NEW r \in Readers, NEW k \in Keys, NEW f \in Flights, Arrive(r, k, f)
    PROVE  Waited'
<1>1. failed'[f] \in Nat /\ (\A g \in Flights : g # f => failed'[g] = failed[g])
    BY RpdAssumption DEF IInv, TypeOK, Arrive
<1>2. reader' = [reader EXCEPT ![r] = [Idle EXCEPT !.pc = "waits", !.key = k, !.flight = f, !.arrived = failed'[f]]]
    BY DEF Arrive
<1>3. reader'[r].flight = f /\ reader'[r].arrived = failed'[f] /\ r \notin burst'
    BY <1>2 DEF Arrive, Idle, IInv, TypeOK
<1>4. ASSUME NEW w \in Readers \ {r}, reader[w].pc = "waits"
      PROVE  /\ reader[w].flight \in Flights /\ reader'[w] = reader[w]
             /\ failed'[reader[w].flight] = failed[reader[w].flight] /\ (w \in burst' => w \in burst)
    <2>1. reader[w].flight \in Flights /\ reader'[w] = reader[w] /\ (w \in burst' => w \in burst)
        BY <1>2, <1>4 DEF IInv, Places, TypeOK, Arrive
    <2>2. CASE flightOf[k] = NoFlight
        <3>1. reader[w].flight # f
            BY <2>2 DEF Arrive, Inside
        <3> QED
            BY <1>1, <2>1, <3>1
    <2>3. CASE flightOf[k] # NoFlight
        BY <2>1, <2>3 DEF Arrive
    <2> QED
        BY <2>1, <2>2, <2>3
<1>5. \A w \in Readers \ {r} : reader'[w].pc = "waits" => reader[w].pc = "waits"
    BY <1>2 DEF IInv, TypeOK
<1> QED
    BY <1>1, <1>3, <1>4, <1>5 DEF Waited

LEMMA RaisesWaited ==
    ASSUME IInv, Waited, NEW r \in Readers, LoadRaises(r)
    PROVE  Waited'
<1>1. PICK f \in Flights : f = reader[r].flight
    BY DEF LoadRaises, IInv, Places
<1>2. /\ failed[f] \in Nat /\ failed'[f] = failed[f] + 1
      /\ \A g \in Flights : failed[g] \in Nat /\ (g # f => failed'[g] = failed[g])
    BY <1>1, RpdAssumption DEF LoadRaises, IInv, TypeOK
<1>3. ASSUME NEW w \in Readers, reader'[w].pc = "waits"
      PROVE  /\ reader'[w] = reader[w] /\ reader[w].flight \in Flights /\ reader[w].arrived \in Nat
             /\ w \in burst' => w \in burst \/ reader[w].flight = f
    <2>1. reader'[w] = reader[w]
        BY <1>3 DEF LoadRaises, ForgetFlight, Idle, IInv, TypeOK
    <2>2. reader[w].flight \in Flights /\ reader[w].arrived \in Nat
        BY <1>3, <2>1, RpdAssumption DEF IInv, Places, TypeOK, Reader
    <2>3. w \in burst' => w \in burst \/ reader[w].flight = f
        BY <1>1 DEF LoadRaises, Inside
    <2> QED
        BY <2>1, <2>2, <2>3
<1> QED
    BY <1>2, <1>3 DEF Waited

LEMMA StepWaited ==
    ASSUME IInv, Waited, [Next]_vars
    PROVE  /\ Waited'
           /\ \A r \in burst \cap Readers : reader[r].pc = "waits" => reader'[r].pc # "reads"
<1> DEFINE Shared == \A r \in burst \cap Readers : reader[r].pc = "waits" => reader'[r].pc # "reads"
<1>1. ASSUME NEW r \in Readers, NEW k \in Keys, NEW f \in Flights, Arrive(r, k, f)
      PROVE  Waited' /\ Shared
    <2>1. Shared
        BY <1>1 DEF Arrive, Idle, IInv, TypeOK
    <2> QED
        BY <1>1, <2>1, ArriveWaited
<1>2. ASSUME NEW r \in Readers, LoadRaises(r)
      PROVE  Waited' /\ Shared
    <2>1. Shared
        BY <1>2 DEF LoadRaises, ForgetFlight, Idle, IInv, TypeOK
    <2> QED
        BY <1>2, <2>1, RaisesWaited
<1>3. ASSUME NEW r \in Readers, EnterAndLoad(r)
      PROVE  Waited' /\ Shared
    <2>1. UNCHANGED <<failed, burst>> /\ ~SharesFailure(r) /\ reader[r].pc = "waits"
        BY <1>3 DEF EnterAndLoad
    <2>2. reader'[r].pc = "reads" /\ \A w \in Readers \ {r} : reader'[w] = reader[w]
        BY <1>3 DEF EnterAndLoad, ReadBuffer, IInv, TypeOK, Reader
    <2>3. r \notin burst
        <3>1. reader[r].flight \in Flights /\ failed[reader[r].flight] \in Nat /\ reader[r].arrived \in Nat
            BY <2>1, RpdAssumption DEF IInv, Places, TypeOK, Reader
        <3> QED
            BY <2>1, <3>1 DEF Waited, SharesFailure
    <2> QED
        BY <2>1, <2>2, <2>3, WaitedOn
<1>4. ASSUME NEW r \in Readers, EnterAndServe(r) \/ Store(r) \/ Cancel(r)
      PROVE  Waited' /\ Shared
    <2>1. UNCHANGED <<failed, burst>> /\ reader' = [reader EXCEPT ![r] = Idle]
        BY <1>4 DEF EnterAndServe, Store, Cancel, ForgetFlight
    <2> QED
        BY <2>1, WaitedOn DEF Idle, IInv, TypeOK
<1>5. ASSUME NEW r \in Readers, ReadRows(r) \/ ReadSwallows(r)
      PROVE  Waited' /\ Shared
    <2>1. /\ UNCHANGED <<failed, burst>> /\ reader[r].pc = "reads"
          /\ reader'[r].pc = "has" /\ \A w \in Readers \ {r} : reader'[w] = reader[w]
        BY <1>5, ZenonT(30) DEF ReadRows, ReadSwallows, IInv, TypeOK, Reader
    <2> QED
        BY <2>1, WaitedOn
<1>6. ASSUME NEW k \in Keys, PurgeCommit(k) \/ PurgeDrop(k)
      PROVE  Waited' /\ Shared
    <2>1. /\ UNCHANGED <<failed, burst>>
          /\ \A r \in Readers : reader'[r].pc = reader[r].pc /\ (reader[r].pc = "waits" => reader'[r] = reader[r])
        BY <1>6, OutdatedOf DEF PurgeCommit, PurgeDrop
    <2> QED
        BY <2>1, WaitedOn
<1>t. CASE Tick
    <2>1. UNCHANGED <<failed, burst>>
        BY <1>t DEF Tick
    <2>2. \A r \in Readers : /\ reader'[r].pc = reader[r].pc /\ reader'[r].arrived = reader[r].arrived
                              /\ reader'[r].flight = reader[r].flight
        BY <1>t, TickOf
    <2> QED
        BY <2>1, <2>2 DEF Waited
<1>7. CASE UNCHANGED <<failed, reader, burst>>
    BY <1>7, WaitedOn
<1>8. ASSUME \/ \E k \in Keys : Sweep(k) \/ Record(k) \/ Invalidate(k)
             \/ FlushCommit \/ FlushSubtract \/ UNCHANGED vars
      PROVE  UNCHANGED <<failed, reader, burst>>
    BY <1>8 DEF Sweep, Record, Invalidate, FlushCommit, FlushSubtract, vars
<1> QED
    BY <1>1, <1>2, <1>3, <1>4, <1>5, <1>6, <1>t, <1>7, <1>8 DEF Next, Loading, Entering

\* A burst queued behind a failing load shares its failure instead of asking again.
THEOREM FailuresShared == Spec => FailureIsShared
<1>1. Init => Waited
    BY DEF Init, Waited, Idle
<1>2. IInv /\ Waited /\ [Next]_vars => Waited'
    BY StepWaited
<1>3. IInv /\ Waited /\ [Next]_vars => [\A r \in burst : reader[r].pc = "waits" => reader'[r].pc # "reads"]_vars
    BY StepWaited DEF IInv, TypeOK
<1> QED
    BY <1>1, <1>2, <1>3, SpecIInv, PTL DEF Spec, FailureIsShared
=============================================================================
