----------------------- MODULE ConcurrencySlotsProofs -----------------------
(***************************************************************************)
(* Proofs about ConcurrencySlots: for any finite set of calls, any users   *)
(* and any caps.  The invariant adds to the counter's exactness what links *)
(* a call's phase to its holder.  And, in the composition that TLC checks, *)
(* about SearchLoop, for any limits and any answers of the model's; that   *)
(* ChatStream, ResponsesStream and SearchLoop implement BlockStream, for   *)
(* any number of calls, pieces, rounds and blocks; about SignIn, for any   *)
(* ids, emails, subjects and requests; and about ProviderSync, whose own   *)
(* proofs are in ProviderSyncProofs.                                       *)
(***************************************************************************)
EXTENDS MCConcurrencySlots, Sequences, FiniteSetTheorems, WellFoundedInduction, TLAPS

Shape ==
    \A c \in Calls :
        /\ phase[c] = "idle" => caller[c] = NoUser /\ ~ admitted[c]
        /\ phase[c] # "idle" => caller[c] \in Users
        /\ holder[c] # NoUser => holder[c] = caller[c] /\ (phase[c] = "charging" \/ admitted[c])
        /\ phase[c] = "charging" \/ admitted[c] => holder[c] = caller[c]
        /\ phase[c] = "charging" => (took[c] <=> ~ admitted[c])

IInv == TypeOK /\ Shape /\ InflightIsHolders

-----------------------------------------------------------------------------
\* The calls holding a slot of one user are finitely many.
LEMMA HoldingFinite ==
    ASSUME NEW u
    PROVE  IsFiniteSet(Holding(u))
<1>1. Holding(u) \subseteq Calls
    BY DEF Holding
<1>2. QED
    BY <1>1, FS_Subset, SlotAssumption

\* Taking a slot adds one call to its user's and leaves the others' alone.
LEMMA TakeCounts ==
    ASSUME TypeOK, InflightIsHolders, NEW c \in Calls, NEW v \in Users,
           holder[c] = NoUser,
           holder' = [holder EXCEPT ![c] = v],
           inflight' = [inflight EXCEPT ![v] = @ + 1]
    PROVE  InflightIsHolders'
<1> SUFFICES ASSUME NEW u \in Users
             PROVE  inflight'[u] = Cardinality(Holding(u)')
    BY DEF InflightIsHolders
<1>1. inflight[u] = Cardinality(Holding(u))
    BY DEF InflightIsHolders
<1>2. CASE u = v
  <2>1. Holding(u)' = Holding(u) \cup {c}
      BY <1>2, SlotAssumption DEF Holding, TypeOK
  <2>2. c \notin Holding(u)
      BY SlotAssumption DEF Holding
  <2>3. Cardinality(Holding(u)') = Cardinality(Holding(u)) + 1
      BY Zenon, <2>1, <2>2, HoldingFinite, FS_AddElement
  <2>4. inflight'[u] = inflight[u] + 1
      BY <1>2 DEF TypeOK
  <2>5. QED
      BY <1>1, <2>3, <2>4
<1>3. CASE u # v
  <2>1. Holding(u)' = Holding(u)
      BY <1>3, SlotAssumption DEF Holding, TypeOK
  <2>2. inflight'[u] = inflight[u]
      BY <1>3 DEF TypeOK
  <2>3. QED
      BY <1>1, <2>1, <2>2
<1>4. QED
    BY <1>2, <1>3

\* Releasing takes the call out of its user's, if it was in, and nothing else.
LEMMA ReleaseCounts ==
    ASSUME TypeOK, InflightIsHolders, NEW c \in Calls, Release(c)
    PROVE  InflightIsHolders'
<1> SUFFICES ASSUME NEW u \in Users
             PROVE  inflight'[u] = Cardinality(Holding(u)')
    BY DEF InflightIsHolders
<1>1. inflight[u] = Cardinality(Holding(u)) /\ inflight[u] \in Nat
    BY DEF InflightIsHolders, TypeOK
<1>2. CASE holder[c] = u
  <2>1. Holding(u)' = Holding(u) \ {c} /\ c \in Holding(u)
      BY <1>2, SlotAssumption DEF Holding, Release, TypeOK
  <2>2. Cardinality(Holding(u) \ {c}) = Cardinality(Holding(u)) - 1
      BY Zenon, <2>1, HoldingFinite, FS_RemoveElement
  <2>3. Cardinality(Holding(u)') \in Nat
      BY <2>1, HoldingFinite, FS_RemoveElement, FS_CardinalityType
  <2>4. inflight'[u] = IF inflight[u] <= 1 THEN 0 ELSE inflight[u] - 1
      BY <1>2, SlotAssumption DEF Release, TypeOK
  <2>5. QED
      BY <1>1, <2>1, <2>2, <2>3, <2>4
<1>3. CASE holder[c] # u
  <2>1. Holding(u)' = Holding(u)
      BY <1>3, SlotAssumption DEF Holding, Release, TypeOK
  <2>2. inflight'[u] = inflight[u]
      BY <1>3 DEF Release, TypeOK
  <2>3. QED
      BY <1>1, <2>1, <2>2
<1>4. QED
    BY <1>2, <1>3

\* A step that leaves holders and counters alone keeps the counters exact.
LEMMA QuietCounts ==
    ASSUME InflightIsHolders, UNCHANGED <<holder, inflight>>
    PROVE  InflightIsHolders'
BY DEF InflightIsHolders, Holding

LEMMA ReleaseType ==
    ASSUME TypeOK, NEW c \in Calls, Release(c)
    PROVE  /\ holder' \in [Calls -> Users \cup {NoUser}]
           /\ inflight' \in [Users -> Nat]
<1>1. holder' \in [Calls -> Users \cup {NoUser}]
    BY DEF TypeOK, Release
<1>2. inflight' \in [Users -> Nat]
    BY DEF TypeOK, Release
<1>3. QED
    BY <1>1, <1>2

-----------------------------------------------------------------------------
LEMMA InitIInv == Init => IInv
<1> SUFFICES ASSUME Init
             PROVE  IInv
    OBVIOUS
<1>1. TypeOK
    BY DEF Init, TypeOK
<1>2. Shape
    BY DEF Init, Shape
<1>3. InflightIsHolders
  <2>1. \A u \in Users : Holding(u) = {}
      BY SlotAssumption DEF Init, Holding
  <2>2. QED
      BY Zenon, <2>1, FS_EmptySet DEF Init, InflightIsHolders
<1>4. QED
    BY <1>1, <1>2, <1>3 DEF IInv

LEMMA NextIInv == IInv /\ [Next]_vars => IInv'
<1> SUFFICES ASSUME IInv, [Next]_vars
             PROVE  IInv'
    OBVIOUS
<1> USE DEF IInv
<1>1. ASSUME NEW c \in Calls, NEW u \in Users, Open(c, u)
      PROVE  IInv'
  <2>0. TypeOK'
      BY <1>1 DEF Open, TypeOK
  <2>1. Shape'
      BY <1>1, SlotAssumption DEF Open, TypeOK, Shape
  <2>2. InflightIsHolders'
      BY <1>1, QuietCounts DEF Open
  <2>3. QED
      BY <2>0, <2>1, <2>2
<1>2. ASSUME NEW c \in Calls, TakeSlot(c)
      PROVE  IInv'
  <2>0. caller[c] \in Users
      BY <1>2 DEF TakeSlot, Shape
  <2>1. TypeOK'
      BY <1>2, <2>0 DEF TakeSlot, TryAcquireSlot, TypeOK
  <2>2. Shape'
      BY <1>2, <2>0, SlotAssumption DEF TakeSlot, TypeOK, Shape
  <2>3. InflightIsHolders'
      BY Zenon, <1>2, <2>0, TakeCounts DEF TakeSlot, TryAcquireSlot
  <2>4. QED
      BY <2>1, <2>2, <2>3
<1>3. ASSUME NEW c \in Calls, RefuseSlot(c) \/ KeepSlot(c) \/ ChargeAllows(c)
      PROVE  IInv'
  <2>1. TypeOK'
      BY Zenon, <1>3 DEF RefuseSlot, KeepSlot, ChargeAllows, TypeOK
  <2>2. Shape'
      BY <1>3 DEF RefuseSlot, KeepSlot, ChargeAllows, TypeOK, Shape
  <2>3. InflightIsHolders'
      BY <1>3, QuietCounts DEF RefuseSlot, KeepSlot, ChargeAllows
  <2>4. QED
      BY <2>1, <2>2, <2>3
<1>4. ASSUME NEW c \in Calls, ChargeDenies(c)
      PROVE  IInv'
  <2>1. CASE took[c]
    <3>1. Release(c)
        BY <1>4, <2>1 DEF ChargeDenies
    <3>2. TypeOK'
        BY <1>4, <3>1, ReleaseType DEF ChargeDenies, TypeOK
    <3>3. Shape'
        BY <1>4, <2>1, <3>1 DEF ChargeDenies, Release, TypeOK, Shape
    <3>4. QED
        BY <3>1, <3>2, <3>3, ReleaseCounts
  <2>2. CASE ~ took[c]
    <3>1. TypeOK' /\ Shape'
        BY <1>4, <2>2 DEF ChargeDenies, TypeOK, Shape
    <3>2. QED
        BY <1>4, <2>2, <3>1, QuietCounts DEF ChargeDenies
  <2>3. QED
      BY <2>1, <2>2
<1>5. ASSUME NEW c \in Calls, Close(c)
      PROVE  IInv'
  <2>1. TypeOK'
      BY <1>5, ReleaseType DEF Close, TypeOK
  <2>2. Shape'
      BY <1>5, SlotAssumption DEF Close, Release, TypeOK, Shape
  <2>3. QED
      BY <1>5, <2>1, <2>2, ReleaseCounts DEF Close
<1>6. ASSUME NEW u \in Users, NEW n \in Limits, SetLimit(u, n)
      PROVE  IInv'
  <2>1. TypeOK' /\ Shape'
      BY <1>6 DEF SetLimit, TypeOK, Shape
  <2>2. QED
      BY <1>6, <2>1, QuietCounts DEF SetLimit
<1>7. CASE UNCHANGED vars
  <2>1. TypeOK' /\ Shape'
      BY <1>7 DEF vars, TypeOK, Shape
  <2>2. QED
      BY <1>7, <2>1, QuietCounts DEF vars
<1>8. QED
    BY <1>1, <1>2, <1>3, <1>4, <1>5, <1>6, <1>7 DEF Next, Step

LEMMA SpecIInv == Spec => []IInv
BY InitIInv, NextIInv, PTL DEF Spec

\* Holders, counters and phases stay well-formed (what _SlotHolder and _inflight hold).
THEOREM TypeCorrect == Spec => []TypeOK
<1>1. IInv => TypeOK
    BY DEF IInv
<1>2. QED
    BY <1>1, SpecIInv, PTL

\* The counter try_acquire_slot reads is the number of calls holding a slot.
THEOREM CounterIsExact == Spec => []InflightIsHolders
<1>1. IInv => InflightIsHolders
    BY DEF IInv
<1>2. QED
    BY <1>1, SpecIInv, PTL

-----------------------------------------------------------------------------
\* Only taking a slot makes a call busy, and then there is room for it.
LEMMA RoomForBusy ==
    ASSUME IInv, IInv', Next, NEW u \in Users, ~ (Busy(u)' \subseteq Busy(u))
    PROVE  limit[u] = Unlimited \/ Cardinality(Busy(u)') <= limit[u]
<1>1. PICK c \in Calls : c \in Busy(u)' /\ c \notin Busy(u)
    BY DEF Busy
<1>2. TakeSlot(c) /\ caller[c] = u
  <2>1. ASSUME NEW d \in Calls, NEW v \in Users, Open(d, v)
        PROVE  FALSE
      BY <1>1, <2>1 DEF Busy, Open, IInv, TypeOK, Shape
  <2>2. ASSUME NEW d \in Calls,
               \/ RefuseSlot(d) \/ KeepSlot(d) \/ ChargeAllows(d)
               \/ ChargeDenies(d) \/ Close(d)
        PROVE  FALSE
    <3>1. CASE RefuseSlot(d)
        BY <1>1, <3>1 DEF Busy, RefuseSlot, IInv, TypeOK
    <3>2. CASE KeepSlot(d)
      <4>1. c = d /\ caller[c] = u
          BY <1>1, <3>2 DEF Busy, KeepSlot, IInv, TypeOK
      <4>2. holder[c] # NoUser /\ ~ admitted[c] /\ phase[c] = "open"
          BY <1>1, <3>2, <4>1 DEF Busy, KeepSlot
      <4>3. QED
          BY <4>1, <4>2 DEF IInv, Shape
    <3>3. CASE ChargeAllows(d)
        BY <1>1, <3>3 DEF Busy, ChargeAllows, IInv, TypeOK
    <3>4. CASE ChargeDenies(d)
        BY <1>1, <3>4 DEF Busy, ChargeDenies, IInv, TypeOK
    <3>5. CASE Close(d)
        BY <1>1, <3>5 DEF Busy, Close, IInv, TypeOK
    <3>6. QED
        BY <2>2, <3>1, <3>2, <3>3, <3>4, <3>5
  <2>3. ASSUME NEW v \in Users, NEW n \in Limits, SetLimit(v, n)
        PROVE  FALSE
      BY <1>1, <2>3 DEF Busy, SetLimit
  <2>4. PICK d \in Calls : TakeSlot(d)
      BY <2>1, <2>2, <2>3 DEF Next, Step
  <2>5. c = d /\ caller[c] = u
      BY <1>1, <2>4 DEF Busy, TakeSlot, IInv, TypeOK
  <2>6. QED
      BY <2>4, <2>5
<1>3. inflight'[u] = inflight[u] + 1 /\ ~ AtCap(u)
    BY <1>2 DEF TakeSlot, TryAcquireSlot, IInv, TypeOK
<1>4. Busy(u)' \subseteq Holding(u)'
    BY DEF Busy, Holding, IInv, Shape
<1>5. /\ Cardinality(Busy(u)') <= Cardinality(Holding(u)')
      /\ IsFiniteSet(Holding(u)')
  <2>1. Holding(u)' \subseteq Calls
      BY DEF Holding
  <2>2. IsFiniteSet(Holding(u)')
      BY <2>1, FS_Subset, SlotAssumption
  <2>3. QED
      BY <2>2, <1>4, FS_Subset
<1>6. Cardinality(Holding(u)') = inflight'[u]
    BY DEF IInv, InflightIsHolders
<1>7. Cardinality(Busy(u)') \in Nat /\ limit[u] \in Nat /\ inflight[u] \in Nat
  <2>1. IsFiniteSet(Busy(u)')
      BY <1>4, <1>5, FS_Subset
  <2>2. QED
      BY <2>1, FS_CardinalityType, SlotAssumption DEF IInv, TypeOK, Limits
<1>8. QED
    BY <1>3, <1>5, <1>6, <1>7 DEF AtCap

\* No admission takes a user's calls in progress beyond the cap in force.
THEOREM CapRespected == Spec => GrowsOnlyUnderCap
<1>1. ASSUME IInv, IInv', [Next]_vars
      PROVE  [\A u \in Users :
                ~ (Busy(u)' \subseteq Busy(u))
                  => limit[u] = Unlimited \/ Cardinality(Busy(u)') <= limit[u]]_vars
    BY <1>1, RoomForBusy
<1>2. QED
    BY <1>1, SpecIInv, PTL DEF Spec, GrowsOnlyUnderCap

\* A call a check has let through holds its slot until it ends.
THEOREM SlotKept == Spec => SlotLastsAsLongAsTheCall
<1>1. ASSUME IInv, [Next]_vars
      PROVE  [\A c \in Calls :
                admitted[c] /\ holder[c] # NoUser /\ holder'[c] = NoUser
                  => phase'[c] = "idle"]_vars
  <2> SUFFICES ASSUME Next, NEW c \in Calls, admitted[c], holder[c] # NoUser,
                      holder'[c] = NoUser
               PROVE  phase'[c] = "idle"
      BY <1>1
  <2> USE <1>1 DEF IInv
  <2>1. ASSUME NEW d \in Calls, NEW v \in Users, Open(d, v)
        PROVE  FALSE
      BY <2>1 DEF Open
  <2>2. ASSUME NEW d \in Calls, TakeSlot(d)
        PROVE  FALSE
      BY <2>2 DEF TakeSlot, TypeOK
  <2>3. ASSUME NEW d \in Calls, RefuseSlot(d) \/ KeepSlot(d) \/ ChargeAllows(d)
        PROVE  FALSE
      BY <2>3 DEF RefuseSlot, KeepSlot, ChargeAllows
  <2>4. ASSUME NEW d \in Calls, ChargeDenies(d)
        PROVE  FALSE
      BY <2>4 DEF ChargeDenies, Release, TypeOK, Shape
  <2>5. ASSUME NEW d \in Calls, Close(d)
        PROVE  phase'[c] = "idle"
      BY <2>5 DEF Close, Release, TypeOK
  <2>6. ASSUME NEW v \in Users, NEW n \in Limits, SetLimit(v, n)
        PROVE  FALSE
      BY <2>6 DEF SetLimit
  <2>7. QED
      BY <2>1, <2>2, <2>3, <2>4, <2>5, <2>6 DEF Next, Step
<1>2. QED
    BY <1>1, SpecIInv, PTL DEF Spec, SlotLastsAsLongAsTheCall

-----------------------------------------------------------------------------
(* SearchLoop: what the client is shown, what a model is sent again, and    *)
(* how the rounds are counted, all of them in one invariant.                *)

\* Events as SearchLoop builds them.  A block of the client's is never an internal call,
\* and one of the turn being read is the block it was opened for (Shown).
Stops == {"tool_use", "end_turn", "max_tokens"}
Event ==
    [e : {"message", "error"}] \cup [e : {"end"}, reason : Stops] \cup [e : {"stop"}, i : Int]
    \cup [e : {"delta"}, i : Int, k : {"json", "text", "citation"}]
    \cup [e : {"start"}, i : Int, k : {"text", "tool", "search", "result"}, id : {None} \cup (Nat \X Nat)]
Shown ==
    {x \in Event : x.e = "start" =>
        \/ x.id = None
        \/ x.id[1] < asks
        \/ x.id[1] = asks /\ x.id[2] \in 1..Len(turn) /\ turn[x.id[2]].k # "internal"}

SearchTypes ==
    /\ surface \in {"anthropic", "chat", "responses"} /\ native \in BOOLEAN /\ shortcut \in BOOLEAN
    /\ uses \in Uses /\ rounds \in Nat /\ executed \in Nat /\ asks \in Nat /\ next \in Nat
    /\ turn \in Seq(Search!Block) /\ Len(turn) <= MaxBlocks
    /\ stored \in BOOLEAN /\ forgotten \in BOOLEAN
    /\ reading \in BOOLEAN /\ texted \in BOOLEAN
    /\ loopTold \in {None} \cup Stops
    /\ loopPhase \in {"shortcut", "ask", "read", "search", "done", "failed"}

\* A round is counted when its searches end: one more request may be out by then.
Bounded ==
    /\ rounds <= MaxLoops /\ asks <= rounds + 1
    /\ loopPhase = "shortcut" => rounds = 0
    /\ loopPhase = "search" => rounds < MaxLoops
    /\ loopPhase \in {"shortcut", "ask"} => asks <= rounds
    /\ executed <= rounds * MaxQueries
    /\ uses # None => executed <= uses

\* The blocks of a turn are numbered by request and position.
Numbered == \A n \in 1..Len(turn) : turn[n].id = <<asks, n>>

Replayed == replayed \in Seq({r \in [calls : SUBSET (Nat \X Nat), answered : SUBSET (Nat \X Nat)] : r.calls = r.answered})

\* What the client was handed: its calls of this turn, as they come, or all at the end.
Handed ==
    /\ surface # "responses" => handed = Search!IdsOf("client")
    /\ surface = "responses" /\ loopPhase # "done" => handed = {}
    /\ loopPhase \in {"shortcut", "ask", "search"} => Search!IdsOf("client") = {}
    /\ loopPhase = "done" /\ surface = "responses" =>
         /\ handed = Search!IdsOf("client")
         /\ ~ forgotten => pending = IF stored THEN Search!IdsOf("internal") ELSE {}
    /\ loopPhase # "done" => pending = {} /\ loopSettled = None /\ ~ forgotten
    /\ loopSettled # None => surface = "responses" /\ loopPhase = "done"
    /\ loopSettled # None /\ ~ forgotten => loopSettled = handed \cup pending
    /\ stored => surface = "responses"
    /\ loopPhase = "done" /\ loopTold # "max_tokens" => (loopTold = "tool_use" <=> Search!IdsOf("client") # {})

SearchInv == SearchTypes /\ Bounded /\ Numbered /\ Replayed /\ Handed /\ loopSent \in Seq(Shown)

-----------------------------------------------------------------------------
\* The fewest of what the settings, the client and the queries themselves allow.
LEMMA FewestOf ==
  /\ \A a, b \in Nat : Search!Fewest({a, b}) \in Nat /\ Search!Fewest({a, b}) <= b
  /\ \A a, b, c \in Nat : /\ Search!Fewest({a, b, c}) \in Nat
                          /\ Search!Fewest({a, b, c}) <= b /\ Search!Fewest({a, b, c}) <= c
<1>1. ASSUME NEW a \in Nat, NEW b \in Nat PROVE Search!Fewest({a, b}) \in Nat /\ Search!Fewest({a, b}) <= b
  <2>1. \E n \in {a, b} : \A m \in {a, b} : n <= m
    OBVIOUS
  <2>2. Search!Fewest({a, b}) \in {a, b} /\ \A m \in {a, b} : Search!Fewest({a, b}) <= m
    BY <2>1 DEF Search!Fewest
  <2> QED
    BY <2>2
<1>2. ASSUME NEW a \in Nat, NEW b \in Nat, NEW c \in Nat
      PROVE  Search!Fewest({a, b, c}) \in Nat /\ Search!Fewest({a, b, c}) <= b /\ Search!Fewest({a, b, c}) <= c
  <2>1. \E n \in {a, b, c} : \A m \in {a, b, c} : n <= m
    OBVIOUS
  <2>2. Search!Fewest({a, b, c}) \in {a, b, c} /\ \A m \in {a, b, c} : Search!Fewest({a, b, c}) <= m
    BY <2>1 DEF Search!Fewest
  <2> QED
    BY <2>2
<1> QED
  BY <1>1, <1>2

LEMMA RunCountBounds ==
  ASSUME SearchTypes, Bounded, NEW n \in Nat
  PROVE  /\ Search!RunCount(n) \in Nat /\ Search!RunCount(n) <= MaxQueries
         /\ uses # None => executed + Search!RunCount(n) <= uses
<1>1. CASE uses = None
  <2>1. {n, MaxQueries} \cup {} = {n, MaxQueries}
    OBVIOUS
  <2> QED
    BY <1>1, <2>1, SearchParameters, FewestOf DEF Search!RunCount, Search!Parameters
<1>2. CASE uses # None
  <2>1. uses \in Nat /\ executed \in Nat /\ executed <= uses
    BY <1>2, SearchParameters DEF SearchTypes, Bounded, Search!Parameters
  <2>2. Search!Left \in Nat /\ executed + Search!Left <= uses
    BY <2>1 DEF Search!Left
  <2>3. {n, MaxQueries} \cup {Search!Left} = {n, MaxQueries, Search!Left}
    OBVIOUS
  <2>4. Search!RunCount(n) = Search!Fewest({n, MaxQueries, Search!Left})
    BY <1>2, <2>3 DEF Search!RunCount
  <2> QED
    BY <2>1, <2>2, <2>4, SearchParameters, FewestOf DEF Search!Parameters
<1> QED
  BY <1>1, <1>2

LEMMA Product == \A a, b \in Nat : a * b \in Nat /\ (a + 1) * b = a * b + b
  OBVIOUS

LEMMA SearchesFinite ==
  ASSUME SearchTypes
  PROVE  Search!Cardinality(Search!Searches) \in Nat
<1>1. turn \in Seq(Search!Block)
  BY DEF SearchTypes
<1>3. Len(turn) \in Nat /\ DOMAIN turn = 1..Len(turn)
  BY <1>1
<1>4. Search!Searches \subseteq 1..Len(turn)
  BY <1>3 DEF Search!Searches
<1>2. IsFiniteSet(Search!Searches)
  <2>1. IsFiniteSet(1..Len(turn))
    BY <1>3, FS_Interval
  <2> QED
    BY Zenon, <1>4, <2>1, FS_Subset
<1> QED
  BY Zenon, <1>2, FS_CardinalityType DEF Search!Cardinality, Cardinality

\* A round counts its searches within every bound.
LEMMA Counted ==
  ASSUME SearchTypes, Bounded, NEW n \in Nat, Search!Count(n)
  PROVE  /\ rounds' = rounds + 1 /\ executed' \in Nat
         /\ executed' <= (rounds + 1) * MaxQueries
         /\ uses # None => executed' <= uses
<1>1. rounds \in Nat /\ executed \in Nat /\ MaxQueries \in Nat /\ executed <= rounds * MaxQueries
  BY SearchParameters DEF SearchTypes, Bounded, Search!Parameters
<1>2. rounds' = rounds + 1 /\ executed' = executed + Search!RunCount(n)
  BY DEF Search!Count
<1> QED
  BY <1>1, <1>2, Product, RunCountBounds

LEMMA SearchTypesStep == SearchInv /\ [Search!Next]_(Search!vars) => SearchTypes'
<1> SUFFICES ASSUME SearchInv, [Search!Next]_(Search!vars) PROVE SearchTypes'
  OBVIOUS
<1> USE SearchParameters DEF SearchInv, Search!limits, Search!guard, Search!shown, Search!after, SearchTypes, Stops, Search!Block, Search!Parameters
<1>1. CASE Search!Shortcut
  <2>1. executed' \in Nat /\ rounds' = rounds + 1
    BY <1>1, Counted DEF Search!Shortcut, Bounded
  <2> QED
    BY <1>1, <2>1 DEF Search!Shortcut
<1>2. CASE Search!Ask
  <2>1. turn' \in Seq(Search!Block) /\ Len(turn') <= MaxBlocks
    BY <1>2 DEF Search!Ask
  <2>2. next' \in Nat /\ asks' \in Nat
    BY <1>2 DEF Search!Ask
  <2>3. texted' \in BOOLEAN
    BY Zenon, <1>2 DEF Search!Ask
  <2> QED
    BY Zenon, <1>2, <2>1, <2>2, <2>3 DEF Search!Ask
<1>3. ASSUME NEW k \in {"text", "client", "internal"}, NEW q \in Users \cup {None}, Search!OpenBlock(k, q) PROVE SearchTypes'
  <2>1. asks \in 0..MaxLoops + 1 /\ Len(turn) + 1 \in 1..MaxBlocks
    BY <1>3 DEF Search!OpenBlock, Bounded
  <2>2. [k |-> k, id |-> <<asks, Len(turn) + 1>>, q |-> q] \in Search!Block
    BY <2>1
  <2>3. turn' \in Seq(Search!Block) /\ Len(turn') <= MaxBlocks
    BY <1>3, <2>1, <2>2 DEF Search!OpenBlock
  <2>4. next' \in Nat
    BY <1>3 DEF Search!OpenBlock
  <2>5. texted' \in BOOLEAN
    BY <1>3 DEF Search!OpenBlock
  <2> QED
    BY <1>3, <2>3, <2>4, <2>5 DEF Search!OpenBlock
<1>4. CASE Search!CloseBlock
  BY Zenon, <1>4 DEF Search!CloseBlock
<1>5. CASE Search!Fail
  BY <1>5 DEF Search!Fail
<1>6. ASSUME NEW stop \in Stops, Search!Answer(stop) PROVE SearchTypes'
  BY <1>6 DEF Search!Answer, Search!Finish
<1>7. ASSUME NEW stop \in Stops, Search!HandOver(stop) PROVE SearchTypes'
  BY <1>7 DEF Search!HandOver, Search!Finish, Search!Remember
<1>8. ASSUME NEW stop \in Stops, Search!GiveUp(stop) PROVE SearchTypes'
  BY <1>8 DEF Search!GiveUp, Search!Finish, Search!Remember
<1>9. ASSUME NEW stop \in Stops, Search!Accept(stop) PROVE SearchTypes'
  BY <1>9 DEF Search!Accept
<1>10. CASE Search!Search
  <2>1. Search!Cardinality(Search!Searches) \in Nat
    BY SearchesFinite
  <2>2. executed' \in Nat /\ rounds' = rounds + 1
    BY <1>10, <2>1, Counted DEF Search!Search
  <2>3. next' \in Nat
    BY <1>10, <2>1 DEF Search!Search
  <2> QED
    BY <1>10, <2>2, <2>3 DEF Search!Search
<1>11. CASE Search!NextTurn
  BY <1>11 DEF Search!NextTurn
<1>13. CASE Search!Forget
  BY <1>13 DEF Search!Forget
<1>12. CASE UNCHANGED Search!vars
  BY <1>12 DEF Search!vars, Search!limits, Search!guard, Search!shown, Search!after
<1> QED
  BY Zenon, <1>1, <1>2, <1>3, <1>4, <1>5, <1>6, <1>7, <1>8, <1>9, <1>10, <1>11, <1>12, <1>13 DEF Search!Next, Stops

LEMMA BoundedStep == SearchInv /\ [Search!Next]_(Search!vars) => Bounded'
<1> SUFFICES ASSUME SearchInv, [Search!Next]_(Search!vars) PROVE Bounded'
  OBVIOUS
<1> USE SearchParameters DEF SearchInv, Search!limits, Search!guard, Search!shown, Search!after, SearchTypes, Search!Parameters
<1>1. CASE Search!Shortcut
  BY <1>1, Counted DEF Search!Shortcut, Bounded
<1>2. CASE Search!Ask
  BY <1>2 DEF Search!Ask, Bounded
<1>3. ASSUME NEW k \in {"text", "client", "internal"}, NEW q \in Users \cup {None}, Search!OpenBlock(k, q) PROVE Bounded'
  BY <1>3 DEF Search!OpenBlock, Bounded
<1>4. CASE Search!CloseBlock
  BY <1>4 DEF Search!CloseBlock, Bounded
<1>5. CASE Search!Fail
  BY <1>5 DEF Search!Fail, Bounded
<1>6. ASSUME NEW stop \in Stops, Search!Answer(stop) PROVE Bounded'
  BY <1>6 DEF Search!Answer, Search!Finish, Bounded
<1>7. ASSUME NEW stop \in Stops, Search!HandOver(stop) PROVE Bounded'
  BY <1>7 DEF Search!HandOver, Search!Finish, Search!Remember, Bounded
<1>8. ASSUME NEW stop \in Stops, Search!GiveUp(stop) PROVE Bounded'
  BY <1>8 DEF Search!GiveUp, Search!Finish, Search!Remember, Bounded
<1>9. ASSUME NEW stop \in Stops, Search!Accept(stop) PROVE Bounded'
  BY <1>9 DEF Search!Accept, Search!Allowed, Bounded
<1>10. CASE Search!Search
  <2>1. Search!Cardinality(Search!Searches) \in Nat
    BY SearchesFinite
  <2>2. rounds < MaxLoops /\ asks <= rounds + 1
    BY <1>10 DEF Search!Search, Bounded
  <2>3. /\ rounds' = rounds + 1 /\ executed' <= (rounds + 1) * MaxQueries
        /\ uses # None => executed' <= uses
    BY <1>10, <2>1, Counted DEF Search!Search
  <2> QED
    BY <1>10, <2>2, <2>3 DEF Search!Search, Bounded
<1>11. CASE Search!NextTurn
  BY <1>11 DEF Search!NextTurn, Bounded
<1>13. CASE Search!Forget
  BY <1>13 DEF Search!Forget, Bounded
<1>12. CASE UNCHANGED Search!vars
  BY <1>12 DEF Search!vars, Search!limits, Search!guard, Search!shown, Search!after, Bounded
<1> QED
  BY <1>1, <1>2, <1>3, <1>4, <1>5, <1>6, <1>7, <1>8, <1>9, <1>10, <1>11, <1>12, <1>13 DEF Search!Next, Stops

LEMMA NumberedStep == SearchInv /\ [Search!Next]_(Search!vars) => Numbered'
<1> SUFFICES ASSUME SearchInv, [Search!Next]_(Search!vars) PROVE Numbered'
  OBVIOUS
<1> USE SearchParameters DEF SearchInv, Search!limits, Search!guard, Search!shown, Search!after, SearchTypes, Numbered
<1>1. CASE Search!Shortcut
  BY <1>1 DEF Search!Shortcut, Search!Count
<1>2. CASE Search!Ask
  BY <1>2 DEF Search!Ask
<1>3. ASSUME NEW k \in {"text", "client", "internal"}, NEW q \in Users \cup {None}, Search!OpenBlock(k, q) PROVE Numbered'
  BY <1>3 DEF Search!OpenBlock
<1>4. CASE Search!CloseBlock
  BY <1>4 DEF Search!CloseBlock
<1>5. CASE Search!Fail
  BY <1>5 DEF Search!Fail
<1>6. ASSUME NEW stop \in Stops, Search!Answer(stop) PROVE Numbered'
  BY <1>6 DEF Search!Answer, Search!Finish
<1>7. ASSUME NEW stop \in Stops, Search!HandOver(stop) PROVE Numbered'
  BY <1>7 DEF Search!HandOver, Search!Finish, Search!Remember
<1>8. ASSUME NEW stop \in Stops, Search!GiveUp(stop) PROVE Numbered'
  BY <1>8 DEF Search!GiveUp, Search!Finish, Search!Remember
<1>9. ASSUME NEW stop \in Stops, Search!Accept(stop) PROVE Numbered'
  BY <1>9 DEF Search!Accept
<1>10. CASE Search!Search
  BY <1>10 DEF Search!Search, Search!Count
<1>11. CASE Search!NextTurn
  BY <1>11 DEF Search!NextTurn
<1>13. CASE Search!Forget
  BY <1>13 DEF Search!Forget
<1>12. CASE UNCHANGED Search!vars
  BY <1>12 DEF Search!vars, Search!limits, Search!guard, Search!shown, Search!after
<1> QED
  BY Zenon, <1>1, <1>2, <1>3, <1>4, <1>5, <1>6, <1>7, <1>8, <1>9, <1>10, <1>11, <1>12, <1>13 DEF Search!Next, Stops

LEMMA SameTurn ==
  ASSUME turn' = turn, NEW k
  PROVE  Search!IdsOf(k)' = Search!IdsOf(k)
  BY DEF Search!IdsOf

\* What a new block adds to the calls of the turn.
LEMMA NewBlock ==
  ASSUME SearchTypes, NEW b, turn' = Append(turn, b), NEW k
  PROVE  Search!IdsOf(k)' = IF b.k = k THEN Search!IdsOf(k) \cup {b.id} ELSE Search!IdsOf(k)
<1>1. turn \in Seq(Search!Block) /\ Len(turn) \in Nat
  BY DEF SearchTypes
<1>2. DOMAIN turn = 1..Len(turn) /\ DOMAIN turn' = 1..(Len(turn) + 1)
  BY <1>1
<1>3. \A n \in 1..Len(turn) : turn'[n] = turn[n]
  BY <1>1
<1>4. turn'[Len(turn) + 1] = b
  BY <1>1
<1>5. 1..(Len(turn) + 1) = 1..Len(turn) \cup {Len(turn) + 1}
  BY <1>1
<1>6. {m \in DOMAIN turn' : turn'[m].k = k}
        = {m \in DOMAIN turn : turn[m].k = k} \cup (IF b.k = k THEN {Len(turn) + 1} ELSE {})
  BY <1>1, <1>2, <1>3, <1>4, <1>5
<1> QED
  BY <1>2, <1>3, <1>4, <1>6 DEF Search!IdsOf

LEMMA OpensBlock ==
  ASSUME SearchTypes, NEW k, NEW q, Search!OpenBlock(k, q)
  PROVE  Search!IdsOf("client")' =
           IF k = "client" THEN Search!IdsOf("client") \cup {<<asks, Len(turn) + 1>>} ELSE Search!IdsOf("client")
<1> DEFINE i == <<asks, Len(turn) + 1>>
           b == [k |-> k, id |-> i, q |-> q]
<1>1. turn' = Append(turn, b)
  BY DEF Search!OpenBlock
<1>2. b.k = k /\ b.id = i
  OBVIOUS
<1> HIDE DEF b, i
<1>3. Search!IdsOf("client")' = IF b.k = "client" THEN Search!IdsOf("client") \cup {b.id} ELSE Search!IdsOf("client")
  BY <1>1, NewBlock
<1>4. Search!IdsOf("client")' = IF k = "client" THEN Search!IdsOf("client") \cup {i} ELSE Search!IdsOf("client")
  BY <1>2, <1>3
<1> QED
  BY <1>4 DEF i

LEMMA HandedStep == SearchInv /\ [Search!Next]_(Search!vars) => Handed'
<1> SUFFICES ASSUME SearchInv, [Search!Next]_(Search!vars) PROVE Handed'
  OBVIOUS
<1>0. ASSUME NEW k, NEW q, Search!OpenBlock(k, q)
      PROVE  Search!IdsOf("client")' =
               IF k = "client" THEN Search!IdsOf("client") \cup {<<asks, Len(turn) + 1>>} ELSE Search!IdsOf("client")
  BY <1>0, OpensBlock DEF SearchInv
<1> USE SearchParameters DEF SearchInv, Search!limits, Search!guard, Search!shown, Search!after, SearchTypes, Handed
<1>1. CASE Search!Shortcut
  <2>1. Search!IdsOf("client")' = Search!IdsOf("client") /\ Search!IdsOf("internal")' = Search!IdsOf("internal")
    BY <1>1, SameTurn DEF Search!Shortcut, Search!Finish
  <2> QED
    BY <1>1, <2>1 DEF Search!Shortcut, Search!Count, Search!Count, Search!Stopped, Search!NoSearch
<1>2. CASE Search!Ask
  <2>1. Search!IdsOf("client")' = {} /\ Search!IdsOf("internal")' = {}
    BY <1>2 DEF Search!Ask, Search!IdsOf
  <2>2. /\ loopPhase = "ask" /\ loopPhase' = "read"
        /\ UNCHANGED <<surface, stored, handed, pending, forgotten, loopSettled>>
    BY <1>2 DEF Search!Ask
  <2>3. handed = {} /\ pending = {} /\ loopSettled = None /\ ~ forgotten
    BY <2>2
  <2> QED
    BY <2>1, <2>2, <2>3
<1>3. ASSUME NEW k \in {"text", "client", "internal"}, NEW q \in Users \cup {None}, Search!OpenBlock(k, q) PROVE Handed'
  <2> DEFINE i == <<asks, Len(turn) + 1>>
  <2>1. Search!IdsOf("client")' = IF k = "client" THEN Search!IdsOf("client") \cup {i} ELSE Search!IdsOf("client")
    BY ONLY <1>0, <1>3
  <2> QED
    BY <1>3, <2>1 DEF Search!OpenBlock
<1>4. CASE Search!CloseBlock
  <2>1. Search!IdsOf("client")' = Search!IdsOf("client") /\ Search!IdsOf("internal")' = Search!IdsOf("internal")
    BY <1>4, SameTurn DEF Search!CloseBlock, Search!Finish
  <2> QED
    BY <1>4, <2>1 DEF Search!CloseBlock, Search!Count, Search!Stopped, Search!NoSearch
<1>5. CASE Search!Fail
  <2>1. Search!IdsOf("client")' = Search!IdsOf("client") /\ Search!IdsOf("internal")' = Search!IdsOf("internal")
    BY <1>5, SameTurn DEF Search!Fail, Search!Finish
  <2> QED
    BY <1>5, <2>1 DEF Search!Fail, Search!Count, Search!Stopped, Search!NoSearch
<1>6. ASSUME NEW stop \in Stops, Search!Answer(stop) PROVE Handed'
  <2>1. Search!IdsOf("client")' = Search!IdsOf("client") /\ Search!IdsOf("internal")' = Search!IdsOf("internal")
    BY <1>6, SameTurn DEF Search!Answer, Search!Finish
  <2>2. Search!Searches = {} => Search!IdsOf("internal") = {}
    BY DEF Search!Searches, Search!IdsOf
  <2>3. stop # "max_tokens" \/ surface = "responses" => Search!IdsOf("internal") = {}
    BY <1>6, <2>2 DEF Search!Answer, Search!NoSearch
  <2>4. stop # "max_tokens" => (stop = "tool_use" <=> Search!IdsOf("client") # {})
    BY <1>6, <2>3 DEF Search!Answer, Search!Stopped, Stops
  <2> QED
    BY Zenon, <1>6, <2>1, <2>3, <2>4 DEF Search!Answer, Search!Finish
<1>7. ASSUME NEW stop \in Stops, Search!HandOver(stop) PROVE Handed'
  <2>1. Search!IdsOf("client")' = Search!IdsOf("client") /\ Search!IdsOf("internal")' = Search!IdsOf("internal")
    BY <1>7, SameTurn DEF Search!HandOver, Search!Finish
  <2> QED
    BY <1>7, <2>1 DEF Search!HandOver, Search!Finish, Search!Remember, Search!Count, Search!Stopped, Search!NoSearch
<1>8. ASSUME NEW stop \in Stops, Search!GiveUp(stop) PROVE Handed'
  <2>1. Search!IdsOf("client")' = Search!IdsOf("client") /\ Search!IdsOf("internal")' = Search!IdsOf("internal")
    BY <1>8, SameTurn DEF Search!GiveUp, Search!Finish
  <2> QED
    BY <1>8, <2>1 DEF Search!GiveUp, Search!Finish, Search!Remember, Search!Count, Search!Stopped, Search!NoSearch
<1>9. ASSUME NEW stop \in Stops, Search!Accept(stop) PROVE Handed'
  <2>1. Search!IdsOf("client")' = Search!IdsOf("client") /\ Search!IdsOf("internal")' = Search!IdsOf("internal")
    BY <1>9, SameTurn DEF Search!Accept, Search!Finish
  <2> QED
    BY <1>9, <2>1 DEF Search!Accept, Search!Count, Search!Stopped, Search!NoSearch
<1>10. CASE Search!Search
  <2>1. Search!IdsOf("client")' = Search!IdsOf("client") /\ Search!IdsOf("internal")' = Search!IdsOf("internal")
    BY <1>10, SameTurn DEF Search!Search, Search!Finish
  <2> QED
    BY <1>10, <2>1 DEF Search!Search, Search!Count, Search!Count, Search!Stopped, Search!NoSearch
<1>11. CASE Search!NextTurn
  <2>1. Search!IdsOf("client")' = Search!IdsOf("client") /\ Search!IdsOf("internal")' = Search!IdsOf("internal")
    BY <1>11, SameTurn DEF Search!NextTurn, Search!Finish
  <2> QED
    BY <1>11, <2>1 DEF Search!NextTurn, Search!Count, Search!Stopped, Search!NoSearch
<1>13. CASE Search!Forget
  <2>1. Search!IdsOf("client")' = Search!IdsOf("client")
    BY <1>13, SameTurn DEF Search!Forget
  <2> QED
    BY <1>13, <2>1 DEF Search!Forget
<1>12. CASE UNCHANGED Search!vars
  <2>1. UNCHANGED search
    BY <1>12 DEF Search!vars, search
  <2>2. Search!IdsOf("client")' = Search!IdsOf("client") /\ Search!IdsOf("internal")' = Search!IdsOf("internal")
    BY <2>1, SameTurn DEF search
  <2> QED
    BY <2>1, <2>2 DEF search
<1> QED
  BY <1>1, <1>2, <1>3, <1>4, <1>5, <1>6, <1>7, <1>8, <1>9, <1>10, <1>11, <1>12, <1>13 DEF Search!Next, Stops
-----------------------------------------------------------------------------
\* The calls of a turn are numbered: as many pairs of numbers as blocks.
LEMMA CallIds ==
  ASSUME SearchTypes, NEW k
  PROVE  Search!IdsOf(k) \subseteq Nat \X Nat
<1>1. turn \in Seq(Search!Block)
  BY DEF SearchTypes
<1>2. \A n \in DOMAIN turn : turn[n] \in Search!Block
  BY <1>1
<1>3. \A b \in Search!Block : b.id \in Nat \X Nat
  BY SearchParameters DEF Search!Block, Search!Parameters
<1> QED
  BY <1>2, <1>3 DEF Search!IdsOf

LEMMA ReplayedStep == SearchInv /\ [Search!Next]_(Search!vars) => Replayed'
<1> SUFFICES ASSUME SearchInv, [Search!Next]_(Search!vars) PROVE Replayed'
  OBVIOUS
<1> DEFINE R == {r \in [calls : SUBSET (Nat \X Nat), answered : SUBSET (Nat \X Nat)] : r.calls = r.answered}
<1>1. CASE Search!Shortcut
  <2>1. [calls |-> {<<0, 1>>}, answered |-> {<<0, 1>>}] \in R
    OBVIOUS
  <2> QED
    BY <1>1, <2>1 DEF Search!Shortcut, Replayed
<1>2. CASE Search!Search
  <2>1. Search!IdsOf("client") = {} /\ Search!IdsOf("internal") \subseteq Nat \X Nat
    BY <1>2, CallIds DEF Search!Search, SearchInv, Handed
  <2>2. Search!Answered(Search!Searches) = Search!IdsOf("internal")
    BY DEF Search!Answered, Search!Searches, Search!IdsOf
  <2> DEFINE r == [calls |-> Search!IdsOf("internal") \cup Search!IdsOf("client"), answered |-> Search!Answered(Search!Searches)]
  <2>3. r \in R
    BY <2>1, <2>2
  <2>4. replayed' = Append(replayed, r)
    BY <1>2 DEF Search!Search
  <2> HIDE DEF r, R
  <2>5. replayed \in Seq(R)
    BY DEF SearchInv, Replayed, R
  <2>6. replayed' \in Seq(R)
    BY <2>3, <2>4, <2>5
  <2> QED
    BY <2>6 DEF Replayed, R
<1>3. CASE UNCHANGED replayed
  BY <1>3 DEF SearchInv, Replayed
<1> QED
  BY Zenon, <1>1, <1>2, <1>3 DEF Search!Next, Search!vars, Search!Ask, Search!OpenBlock, Search!CloseBlock, Search!Fail,
    Search!Answer, Search!HandOver, Search!GiveUp, Search!Accept, Search!Finish, Search!NextTurn, Search!Forget

-----------------------------------------------------------------------------
\* A block shown stays shown: its number is of an earlier request, or of a block of the turn.
LEMMA ShownGrows == SearchInv /\ [Search!Next]_(Search!vars) => Shown \subseteq Shown'
<1> SUFFICES ASSUME SearchInv, [Search!Next]_(Search!vars), NEW x \in Shown PROVE x \in Shown'
  OBVIOUS
<1>1. x \in Event /\ asks \in Nat /\ turn \in Seq(Search!Block) /\ Len(turn) \in Nat
  BY DEF Shown, SearchInv, SearchTypes
<1>2. x.e = "start" => x.id = None \/ (x.id[1] \in Nat /\ x.id[2] \in Nat)
  BY <1>1 DEF Event
<1>3. CASE UNCHANGED <<asks, turn>>
  BY <1>3 DEF Shown
<1>4. CASE Search!Ask
  <2>1. asks' = asks + 1
    BY <1>4 DEF Search!Ask
  <2> QED
    BY <1>1, <1>2, <2>1 DEF Shown
<1>5. ASSUME NEW k, NEW q, Search!OpenBlock(k, q) PROVE x \in Shown'
  <2> DEFINE b == [k |-> k, id |-> <<asks, Len(turn) + 1>>, q |-> q]
  <2>1. asks' = asks /\ turn' = Append(turn, b)
    BY <1>5 DEF Search!OpenBlock
  <2> HIDE DEF b
  <2>2. Len(turn') = Len(turn) + 1 /\ \A n \in 1..Len(turn) : turn'[n] = turn[n]
    BY <1>1, <2>1
  <2> QED
    BY <1>1, <1>2, <2>1, <2>2 DEF Shown
<1> QED
  BY <1>3, <1>4, <1>5 DEF Search!Next, Search!vars, Search!Shortcut, Search!CloseBlock, Search!Fail,
    Search!Answer, Search!HandOver, Search!GiveUp, Search!Accept, Search!Finish, Search!Search, Search!NextTurn, Search!Forget

\* What a search, or the text of a turn given up, shows is no block of the model's.
Own == {x \in Event : x.e = "start" => x.id = None}

LEMMA OwnEvents ==
  /\ [e |-> "message"] \in Own /\ [e |-> "error"] \in Own
  /\ \A stop \in Stops : [e |-> "end", reason |-> stop] \in Own
  /\ \A i \in Int, k \in {"json", "text", "citation"} : [e |-> "delta", i |-> i, k |-> k] \in Own
  /\ \A i \in Int : [e |-> "stop", i |-> i] \in Own
  /\ \A i \in Int, k \in {"text", "search", "result"} : [e |-> "start", i |-> i, k |-> k, id |-> None] \in Own
<1>1. [e |-> "message"] \in Own /\ [e |-> "error"] \in Own
  BY DEF Own, Event
<1>2. \A stop \in Stops : [e |-> "end", reason |-> stop] \in Own
  BY DEF Own, Event
<1>3. \A i \in Int, k \in {"json", "text", "citation"} : [e |-> "delta", i |-> i, k |-> k] \in Own
  BY DEF Own, Event
<1>4. \A i \in Int : [e |-> "stop", i |-> i] \in Own
  BY DEF Own, Event
<1>5. \A i \in Int, k \in {"text", "search", "result"} : [e |-> "start", i |-> i, k |-> k, id |-> None] \in Own
  BY DEF Own, Event
<1> QED
  BY <1>1, <1>2, <1>3, <1>4, <1>5

LEMMA NativeShown == \A i \in Int : Search!NativeEvents(i) \in Seq(Own) /\ Len(Search!NativeEvents(i)) = 5
<1> TAKE i \in Int
<1>1. /\ [e |-> "start", i |-> i, k |-> "search", id |-> None] \in Own
      /\ [e |-> "delta", i |-> i, k |-> "json"] \in Own /\ [e |-> "stop", i |-> i] \in Own
  BY Zenon, OwnEvents
<1>2. i + 1 \in Int
  OBVIOUS
<1>3. [e |-> "start", i |-> i + 1, k |-> "result", id |-> None] \in Own /\ [e |-> "stop", i |-> i + 1] \in Own
  BY Zenon, <1>2, OwnEvents
<1> QED
  BY <1>1, <1>3 DEF Search!NativeEvents

LEMMA SearchesShown == \A i, n \in Nat : Search!NativeSearches(i, n) \in Seq(Own)
<1> TAKE i, n \in Nat
<1>1. ASSUME NEW m \in 1..(5 * n)
      PROVE  Search!NativeEvents(i + 2 * ((m - 1) \div 5))[1 + ((m - 1) % 5)] \in Own
  <2>1. (m - 1) \div 5 \in Int /\ (m - 1) % 5 \in 0..4
    OBVIOUS
  <2>2. i + 2 * ((m - 1) \div 5) \in Int /\ 1 + ((m - 1) % 5) \in 1..5
    BY <2>1
  <2>3. /\ Search!NativeEvents(i + 2 * ((m - 1) \div 5)) \in Seq(Own)
        /\ Len(Search!NativeEvents(i + 2 * ((m - 1) \div 5))) = 5
    BY <2>2, NativeShown
  <2> QED
    BY <2>2, <2>3
<1>2. 5 * n \in Nat
  OBVIOUS
<1>3. Search!NativeSearches(i, n) \in [1..(5 * n) -> Own]
  BY <1>1 DEF Search!NativeSearches
<1> QED
  BY <1>2, <1>3

LEMMA TextShown == \A i \in Int : Search!TextEvents(i) \in Seq(Own)
<1> TAKE i \in Int
<1>1. /\ [e |-> "start", i |-> i, k |-> "text", id |-> None] \in Own
      /\ [e |-> "delta", i |-> i, k |-> "text"] \in Own /\ [e |-> "stop", i |-> i] \in Own
  BY Zenon, OwnEvents
<1> QED
  BY <1>1 DEF Search!TextEvents

LEMMA SentStep == SearchInv /\ [Search!Next]_(Search!vars) => (loopSent \in Seq(Shown))'
<1> SUFFICES ASSUME SearchInv, [Search!Next]_(Search!vars) PROVE loopSent' \in Seq(Shown')
  OBVIOUS
<1> DEFINE S == Shown'
<1>1. Own \subseteq S
  BY DEF Own, Shown
<1>2. loopSent \in Seq(S)
  <2>1. loopSent \in Seq(Shown) /\ Shown \subseteq S
    BY ShownGrows DEF SearchInv
  <2> HIDE DEF S
  <2> QED
    BY <2>1
<1>3. next \in Nat /\ next - 1 \in Int
  BY DEF SearchInv, SearchTypes
<1>4. CASE UNCHANGED loopSent
  BY <1>2, <1>4
<1>5. CASE Search!Ask
  <2>1. Search!NativeEvents(0) \in Seq(S)
    <3>1. Search!NativeEvents(0) \in Seq(Own)
      BY NativeShown
    <3> HIDE DEF S
    <3> QED
      BY <1>1, <3>1
  <2>2. [e |-> "message"] \in S
    BY <1>1, OwnEvents
  <2>3. CASE loopSent' = <<[e |-> "message"]>> \o (IF shortcut THEN Search!NativeEvents(0) ELSE <<>>)
    <3> HIDE DEF S
    <3>1. <<[e |-> "message"]>> \in Seq(S) /\ <<>> \in Seq(S)
      BY <2>2
    <3>2. loopSent' \in Seq(S)
      BY <2>1, <2>3, <3>1
    <3> QED
      BY <3>2 DEF S
  <2> QED
    BY <1>4, <1>5, <2>3 DEF Search!Ask
<1>6. ASSUME NEW k \in {"text", "client", "internal"}, NEW q, Search!OpenBlock(k, q) PROVE loopSent' \in Seq(Shown')
  <2> DEFINE b == [k |-> k, id |-> <<asks, Len(turn) + 1>>, q |-> q]
             x == [e |-> "start", i |-> next, id |-> b.id, k |-> IF k = "client" THEN "tool" ELSE "text"]
  <2>1. CASE k # "internal" /\ loopSent' = Append(loopSent, x)
    <3>1. asks \in Nat /\ turn \in Seq(Search!Block) /\ asks' = asks /\ turn' = Append(turn, b)
      BY <1>6 DEF Search!OpenBlock, SearchInv, SearchTypes
    <3> HIDE DEF b
    <3>2. /\ Len(turn) \in Nat /\ Len(turn') = Len(turn) + 1 /\ turn'[Len(turn) + 1] = b
      BY <3>1
    <3>3. b.id = <<asks, Len(turn) + 1>> /\ b.k = k
      BY DEF b
    <3>4. x \in Event
      BY <1>3, <3>1, <3>2, <3>3 DEF Event
    <3>5. x.id[1] = asks' /\ x.id[2] = Len(turn) + 1
      BY <3>1, <3>3
    <3>6. x \in S
      BY <2>1, <3>2, <3>3, <3>4, <3>5 DEF Shown
    <3> HIDE DEF S, x
    <3>7. loopSent' \in Seq(S)
      BY <1>2, <2>1, <3>6
    <3> QED
      BY <3>7 DEF S
  <2> QED
    BY <1>4, <1>6, <2>1 DEF Search!OpenBlock, Search!Visible, Search!OutIndex
<1>7. CASE Search!CloseBlock
  <2> DEFINE d(k) == [e |-> "delta", i |-> next - 1, k |-> k]
             z == [e |-> "stop", i |-> next - 1]
  <2>1. d("json") \in S /\ d("text") \in S /\ d("citation") \in S /\ z \in S
    BY <1>1, <1>3, OwnEvents
  <2>2. UNCHANGED loopSent \/ \E k \in {"json", "text"} : \E c \in {<<>>, <<d("citation")>>} :
          loopSent' = loopSent \o <<d(k)>> \o c \o <<z>>
    BY Zenon, <1>7 DEF Search!CloseBlock
  <2> HIDE DEF S, d, z
  <2>3. \A k \in {"json", "text"} : \A c \in {<<>>, <<d("citation")>>} :
          loopSent \o <<d(k)>> \o c \o <<z>> \in Seq(S)
    <3> TAKE k \in {"json", "text"}
    <3> TAKE c \in {<<>>, <<d("citation")>>}
    <3>1. d(k) \in S /\ z \in S
      BY <2>1
    <3>2. <<d(k)>> \in Seq(S) /\ <<z>> \in Seq(S)
      BY <3>1
    <3>3. c \in Seq(S)
      <4>1. <<>> \in Seq(S) /\ <<d("citation")>> \in Seq(S)
        BY <2>1
      <4> QED
        BY Zenon, <4>1
    <3> QED
      BY <1>2, <3>2, <3>3
  <2>4. loopSent' \in Seq(S)
    BY Zenon, <1>2, <2>2, <2>3
  <2> QED
    BY <2>4 DEF S
<1>8. CASE Search!Fail
  <2>1. [e |-> "error"] \in S
    BY <1>1, OwnEvents
  <2> HIDE DEF S
  <2>2. Append(loopSent, [e |-> "error"]) \in Seq(S)
    BY <1>2, <2>1
  <2>3. loopSent' \in Seq(S)
    BY Zenon, <1>2, <1>8, <2>2 DEF Search!Fail
  <2> QED
    BY <2>3 DEF S
<1>9. ASSUME NEW stop \in Stops, NEW l \in {<<>>, Search!TextEvents(next)}, Search!Finish(stop, l)
      PROVE  loopSent' \in Seq(Shown')
  <2> DEFINE z == [e |-> "end", reason |-> stop]
  <2>1. z \in S
    BY <1>1, OwnEvents
  <2>2. l = <<>> \/ l \in Seq(Own)
    BY <1>3, TextShown
  <2>3. UNCHANGED loopSent \/ loopSent' = loopSent \o l \o <<z>>
    BY <1>9 DEF Search!Finish
  <2> HIDE DEF S, z
  <2>4. l \in Seq(S)
    <3>1. <<>> \in Seq(S)
      OBVIOUS
    <3>2. l \in Seq(Own) => l \in Seq(S)
      BY <1>1
    <3> QED
      BY Zenon, <2>2, <3>1, <3>2
  <2>5. <<z>> \in Seq(S)
    BY <2>1
  <2>6. loopSent \o l \o <<z>> \in Seq(S)
    BY <1>2, <2>4, <2>5
  <2>7. loopSent' \in Seq(S)
    BY Zenon, <1>2, <2>3, <2>6
  <2> QED
    BY <2>7 DEF S
<1>10. CASE Search!Search
  <2> DEFINE l == Search!NativeSearches(next, Search!Cardinality(Search!Searches))
  <2>1. l \in Seq(Own)
    BY <1>3, SearchesFinite, SearchesShown DEF SearchInv
  <2>2. UNCHANGED loopSent \/ loopSent' = loopSent \o l
    BY <1>10 DEF Search!Search
  <2> HIDE DEF S, l
  <2>3. l \in Seq(S)
    BY <1>1, <2>1
  <2>4. loopSent \o l \in Seq(S)
    BY <1>2, <2>3
  <2>5. loopSent' \in Seq(S)
    BY Zenon, <1>2, <2>2, <2>4
  <2> QED
    BY <2>5 DEF S
<1> QED
  BY <1>4, <1>5, <1>6, <1>7, <1>8, <1>9, <1>10 DEF Search!Next, Search!vars, Search!shown, Search!Shortcut,
    Search!Answer, Search!HandOver, Search!GiveUp, Search!Accept, Search!NextTurn, Search!Forget, Stops

-----------------------------------------------------------------------------
LEMMA SearchInit == Search!Init => SearchInv
<1> SUFFICES ASSUME Search!Init PROVE SearchInv
  OBVIOUS
<1> USE SearchParameters DEF Search!Init, Search!Parameters
<1>1. SearchTypes
  <2>1. turn \in Seq(Search!Block) /\ Len(turn) <= MaxBlocks
    OBVIOUS
  <2>2. native \in BOOLEAN /\ shortcut \in BOOLEAN /\ stored \in BOOLEAN /\ forgotten \in BOOLEAN /\ reading \in BOOLEAN /\ texted \in BOOLEAN
    BY Zenon
  <2>3. uses \in Uses
    OBVIOUS
  <2>4. loopPhase \in {"shortcut", "ask", "read", "search", "done", "failed"}
    OBVIOUS
  <2>5. surface \in {"anthropic", "chat", "responses"} /\ loopTold \in {None} \cup Stops
    OBVIOUS
  <2>6. rounds \in Nat /\ executed \in Nat /\ asks \in Nat /\ next \in Nat
    OBVIOUS
  <2> QED
    BY ONLY <2>1, <2>2, <2>3, <2>4, <2>5, <2>6 DEF SearchTypes
<1>2. Bounded
  BY DEF Bounded
<1>3. Numbered /\ Replayed /\ loopSent \in Seq(Shown)
  BY DEF Numbered, Replayed
<1>4. Search!IdsOf("client") = {}
  BY DEF Search!IdsOf
<1>5. Handed
  BY <1>4 DEF Handed
<1> QED
  BY <1>1, <1>2, <1>3, <1>5 DEF SearchInv

\* What the invariant says of a turn.
LEMMA SearchPromises ==
  SearchInv => /\ Search!TypeOK /\ Search!SearchesBounded
               /\ Search!EveryCallAnswered /\ Search!ClientSeesItsOwnCalls
<1> SUFFICES ASSUME SearchInv
             PROVE  /\ Search!TypeOK /\ Search!SearchesBounded
                    /\ Search!EveryCallAnswered /\ Search!ClientSeesItsOwnCalls
  OBVIOUS
<1>1. Search!TypeOK
  <2>1. {None} \cup Stops = {None, "tool_use", "end_turn", "max_tokens"}
    BY DEF Stops
  <2> QED
    BY <2>1 DEF SearchInv, SearchTypes, Search!TypeOK
<1>2. Search!SearchesBounded
  BY SearchParameters DEF SearchInv, SearchTypes, Bounded, Search!SearchesBounded, Search!Parameters
<1>3. Search!EveryCallAnswered
  <2>1. \A n \in DOMAIN replayed : replayed[n].calls = replayed[n].answered
    BY DEF SearchInv, Replayed
  <2>2. loopSettled # None /\ ~ forgotten => loopSettled = Search!Kept
    BY DEF SearchInv, Handed, Search!Kept
  <2> QED
    BY <2>1, <2>2 DEF Search!EveryCallAnswered
<1>4. ASSUME NEW n \in DOMAIN loopSent, loopSent[n].e = "start", loopSent[n].id \in Search!IdsOf("internal")
      PROVE  FALSE
  <2>1. loopSent[n] \in Shown
    BY DEF SearchInv
  <2>2. turn \in Seq(Search!Block) /\ Len(turn) \in Nat /\ asks \in Nat /\ DOMAIN turn = 1..Len(turn)
    BY DEF SearchInv, SearchTypes
  <2>3. PICK m \in 1..Len(turn) : turn[m].k = "internal" /\ loopSent[n].id = turn[m].id
    BY <1>4, <2>2 DEF Search!IdsOf
  <2>4. loopSent[n].id = <<asks, m>>
    BY <2>3 DEF SearchInv, Numbered
  <2>5. loopSent[n].id # None
    <3>1. turn[m] \in Search!Block
      BY <2>2
    <3>2. \A b \in Search!Block : b.id \in (0..MaxLoops + 1) \X (1..MaxBlocks)
      BY DEF Search!Block
    <3> QED
      BY <2>3, <3>1, <3>2, SearchParameters DEF Search!Parameters
  <2> QED
    BY <1>4, <2>1, <2>2, <2>3, <2>4, <2>5 DEF Shown
<1>5. loopPhase = "done" /\ loopTold # "max_tokens" =>
          handed = Search!IdsOf("client") /\ (loopTold = "tool_use" <=> handed # {})
  BY DEF SearchInv, Handed
<1> QED
  BY <1>1, <1>2, <1>3, <1>4, <1>5 DEF Search!ClientSeesItsOwnCalls

LEMMA SearchInCalls == MCSpec => Search!Init /\ [][Search!Next]_(Search!vars)
<1>1. MCInit => Search!Init
  BY DEF MCInit
<1>2. [MCNext]_<<vars, chat, resp, search, signIn, providers, part>> => [Search!Next]_(Search!vars)
  BY DEF MCNext, search, Search!vars, Search!limits, Search!guard, Search!shown, Search!after
<1> QED
  BY <1>1, <1>2, PTL DEF MCSpec

\* However many rounds a turn takes and however the model mixes text, its own calls and
\* the client's, rounds and searches stay within their bounds; the client is shown its own
\* calls, all of them, and no other; and each call is answered, within the turn or by the
\* next one, as long as the calls behind a stored response are remembered (websearch/loop.py).
THEOREM TurnsHold == MCSpec => []TurnsAreWhole
<1>1. SearchInv /\ [Search!Next]_(Search!vars) => SearchInv'
  BY SearchTypesStep, BoundedStep, NumberedStep, ReplayedStep, HandedStep, SentStep DEF SearchInv
<1>2. SearchInv => TurnsAreWhole
  BY SearchPromises DEF TurnsAreWhole
<1> QED
  BY <1>1, <1>2, SearchInCalls, SearchInit, PTL

-----------------------------------------------------------------------------
(***************************************************************************)
(* One message: ChatStream, ResponsesStream and SearchLoop implement       *)
(* BlockStream.  The link is Writing: what a log says of the blocks begun  *)
(* and of the one open is what the converter, or the loop, counts itself.  *)
(***************************************************************************)
\* Any sequence, whatever its elements.
Listed(q) == \E S : q \in Seq(S)

LEMMA ListedLen ==
  ASSUME NEW q, Listed(q)
  PROVE  Len(q) \in Nat /\ DOMAIN q = 1..Len(q) /\ (Len(q) = 0 <=> q = <<>>)
BY DEF Listed

\* The empty one, and how one grows.
LEMMA ListedNone == Listed(<<>>) /\ Len(<<>>) = 0 /\ DOMAIN <<>> = {}
<1>1. <<>> \in Seq({})
  OBVIOUS
<1> QED
  BY <1>1 DEF Listed

LEMMA ListedAppend ==
  ASSUME NEW q, NEW x, Listed(q)
  PROVE  /\ Listed(Append(q, x)) /\ Len(Append(q, x)) = Len(q) + 1 /\ DOMAIN Append(q, x) = 1..(Len(q) + 1)
         /\ \A i \in 1..Len(q) : Append(q, x)[i] = q[i]
         /\ Append(q, x)[Len(q) + 1] = x /\ Append(q, x) # <<>>
<1>1. PICK S : q \in Seq(S)
  BY DEF Listed
<1>2. q \in Seq(S \cup {x}) /\ x \in S \cup {x}
  BY <1>1
<1>3. Append(q, x) \in Seq(S \cup {x})
  BY <1>2
<1> QED
  BY <1>2, <1>3 DEF Listed

\* The same as Append and \o, which the provers would rewrite.
Plus(l, x) == Append(l, x)
Cat(p, q) == p \o q

LEMMA Joining ==
  ASSUME NEW p, NEW q, NEW x, Listed(p), Listed(q)
  PROVE  /\ Listed(Cat(p, q)) /\ Listed(Plus(q, x)) /\ Cat(p, <<>>) = p
         /\ Cat(q, <<x>>) = Plus(q, x) /\ Cat(p, Plus(q, x)) = Plus(Cat(p, q), x)
         /\ p # <<>> => Cat(p, q) # <<>>
<1>1. PICK S : p \in Seq(S)
  BY DEF Listed
<1>2. PICK T : q \in Seq(T)
  BY DEF Listed
<1> DEFINE U == S \cup T \cup {x}
<1>3. p \in Seq(U) /\ q \in Seq(U) /\ x \in U
  BY <1>1, <1>2
<1> HIDE DEF U
<1>4. p \o q \in Seq(U) /\ Append(q, x) \in Seq(U) /\ Len(p \o q) = Len(p) + Len(q)
  BY <1>3
<1>5. p \o <<>> = p /\ q \o <<x>> = Append(q, x)
  BY <1>3
<1>6. p \o Append(q, x) = Append(p \o q, x)
  BY <1>3, <1>4
<1>7. p # <<>> => p \o q # <<>>
  BY <1>3, <1>4
<1> QED
  BY <1>4, <1>5, <1>6, <1>7 DEF Listed, Plus, Cat

\* Its beginnings, and when two are the same.
LEMMA ListedSub ==
  ASSUME NEW q, Listed(q), NEW n \in 0..Len(q)
  PROVE  /\ Listed(SubSeq(q, 1, n)) /\ Len(SubSeq(q, 1, n)) = n
         /\ \A i \in 1..n : SubSeq(q, 1, n)[i] = q[i]
<1>1. PICK S : q \in Seq(S)
  BY DEF Listed
<1>2. SubSeq(q, 1, n) \in Seq(S)
  BY <1>1
<1> QED
  BY <1>1, <1>2 DEF Listed

LEMMA ListedSame ==
  ASSUME NEW p, NEW q, Listed(p), Listed(q), Len(p) = Len(q), \A i \in 1..Len(p) : p[i] = q[i]
  PROVE  p = q
BY DEF Listed

-----------------------------------------------------------------------------
\* A log that grows from l to m sends nothing that BlockStream forbids.
Legal(l, x) == Chat!Blocks!Legal(l, x)

Sends(l, m) ==
  /\ Len(m) >= Len(l) /\ SubSeq(m, 1, Len(l)) = l
  /\ \A n \in (Len(l) + 1)..Len(m) : Legal(SubSeq(m, 1, n - 1), m[n])

LEMMA SendsItself == ASSUME NEW l, Listed(l) PROVE Sends(l, l)
<1>1. SubSeq(l, 1, Len(l)) = l
  BY DEF Listed
<1> QED
  BY <1>1, ListedLen DEF Sends

LEMMA SendsOne ==
  ASSUME NEW b, NEW l, NEW x, Listed(b), Listed(l), Sends(b, l), Legal(l, x)
  PROVE  Sends(b, Append(l, x))
<1> DEFINE m == Append(l, x)
<1>1. Len(b) \in Nat /\ Len(l) \in Nat /\ Len(b) <= Len(l)
  BY ListedLen DEF Sends
<1>2. Listed(m) /\ Len(m) = Len(l) + 1 /\ m[Len(l) + 1] = x /\ \A i \in 1..Len(l) : m[i] = l[i]
  BY ListedAppend
<1> HIDE DEF m
<1>3. ASSUME NEW n \in 0..Len(l) PROVE SubSeq(m, 1, n) = SubSeq(l, 1, n)
  <2>1. Listed(SubSeq(m, 1, n)) /\ Len(SubSeq(m, 1, n)) = n /\ \A i \in 1..n : SubSeq(m, 1, n)[i] = m[i]
    BY <1>1, <1>2, ListedSub
  <2>2. Listed(SubSeq(l, 1, n)) /\ Len(SubSeq(l, 1, n)) = n /\ \A i \in 1..n : SubSeq(l, 1, n)[i] = l[i]
    BY <1>1, ListedSub
  <2>3. \A i \in 1..n : m[i] = l[i]
    BY <1>1, <1>2
  <2> QED
    BY <2>1, <2>2, <2>3, ListedSame
<1>4. SubSeq(m, 1, Len(b)) = b
  BY <1>1, <1>3 DEF Sends
<1>5. SubSeq(m, 1, Len(l)) = l
  <2>1. SubSeq(l, 1, Len(l)) = l
    BY DEF Listed
  <2> QED
    BY <1>1, <1>3, <2>1
<1>6. ASSUME NEW n \in (Len(b) + 1)..Len(m) PROVE Legal(SubSeq(m, 1, n - 1), m[n])
  <2>1. CASE n = Len(l) + 1
    <3>1. n - 1 = Len(l)
      BY <2>1, <1>1
    <3> QED
      BY Zenon, <2>1, <3>1, <1>2, <1>5
  <2>2. CASE n # Len(l) + 1
    <3>1. n \in (Len(b) + 1)..Len(l) /\ n - 1 \in 0..Len(l)
      BY <2>2, <1>1, <1>2
    <3>2. Legal(SubSeq(l, 1, n - 1), l[n])
      BY <3>1 DEF Sends
    <3>3. m[n] = l[n] /\ SubSeq(m, 1, n - 1) = SubSeq(l, 1, n - 1)
      BY <3>1, <1>1, <1>2, <1>3
    <3> QED
      BY Zenon, <3>2, <3>3
  <2> QED
    BY <2>1, <2>2
<1>7. Len(m) >= Len(b)
  BY <1>1, <1>2
<1>8. Sends(b, m)
  BY <1>4, <1>6, <1>7 DEF Sends
<1> QED
  BY <1>8 DEF m

\* That is its Send, or no step at all.
LEMMA SendsIsSend ==
  ASSUME NEW l, NEW m, Listed(l), Listed(m), Sends(l, m)
  PROVE  \/ m = l
         \/ /\ Len(m) > Len(l) /\ SubSeq(m, 1, Len(l)) = l
            /\ \A n \in (Len(l) + 1)..Len(m) : Legal(SubSeq(m, 1, n - 1), m[n])
<1>1. Len(l) \in Nat /\ Len(m) \in Nat /\ SubSeq(m, 1, Len(m)) = m
  BY ListedLen DEF Listed
<1> QED
  BY <1>1 DEF Sends

-----------------------------------------------------------------------------
\* A log after which n blocks have begun, and one of kind k is open, or none.
Writing(l, n, k) ==
  /\ n \in Nat
  /\ \A m \in DOMAIN l : /\ l[m].e \notin {"end", "error"}
                         /\ l[m].e \in {"start", "stop"} => l[m].i \in 0..(n - 1)
  /\ \A i \in 0..(n - 1) : \E m \in DOMAIN l : l[m].e = "start" /\ l[m].i = i
  /\ \A m \in DOMAIN l : l[m].e = "start" /\ (l[m].i < n - 1 \/ k = "none")
                            => \E j \in DOMAIN l : l[j].e = "stop" /\ l[j].i = l[m].i
  /\ k # "none" => n > 0 /\ \A m \in DOMAIN l : /\ l[m].e = "stop" => l[m].i # n - 1
                                                /\ l[m].e = "start" /\ l[m].i = n - 1 => l[m].k = k

\* Such a log, sent on from b.
Goes(b, l, n, k) == Listed(b) /\ Listed(l) /\ l # <<>> /\ Sends(b, l) /\ Writing(l, n, k)

\* The open block is the last.
LEMMA OpenOne ==
  ASSUME NEW b, NEW l, NEW n, NEW k, Goes(b, l, n, k), k # "none"
  PROVE  /\ n \in Nat /\ n > 0 /\ n - 1 \in 0..(n - 1) /\ ~ Chat!Blocks!Over(l)
         /\ \E j \in Chat!Blocks!Open(l) : l[j].i = n - 1 /\ l[j].k = k
<1>1. n \in Nat /\ n > 0 /\ n - 1 \in 0..(n - 1)
  BY DEF Goes, Writing
<1>2. PICK j \in DOMAIN l : l[j].e = "start" /\ l[j].i = n - 1
  BY <1>1 DEF Goes, Writing
<1>3. l[j].k = k /\ \A i \in DOMAIN l : ~ (l[i].e = "stop" /\ l[i].i = n - 1)
  <2>1. Writing(l, n, k)
    BY DEF Goes
  <2>2. \A i \in DOMAIN l : (l[i].e = "stop" => l[i].i # n - 1) /\ (l[i].e = "start" /\ l[i].i = n - 1 => l[i].k = k)
    BY <2>1 DEF Writing
  <2> QED
    BY <1>2, <2>2
<1>4. ~ Chat!Blocks!Over(l)
  BY DEF Goes, Writing, Chat!Blocks!Over
<1>5. j \in Chat!Blocks!Open(l)
  BY <1>2, <1>3 DEF Chat!Blocks!Open, Chat!Blocks!Starts
<1> QED
  BY <1>1, <1>2, <1>3, <1>4, <1>5

\* An event is added to a log.
LEMMA OneMore ==
  ASSUME NEW b, NEW l, NEW x, NEW m, m = Plus(l, x), Listed(b), Listed(l), Sends(b, l), Legal(l, x)
  PROVE  /\ Listed(m) /\ m # <<>> /\ Sends(b, m)
         /\ \A j \in DOMAIN l : j \in DOMAIN m /\ m[j] = l[j]
         /\ \E last \in DOMAIN m : m[last] = x /\ \A j \in DOMAIN m : j \in DOMAIN l \/ j = last
<1>1. Len(l) \in Nat /\ DOMAIN l = 1..Len(l)
  BY ListedLen
<1>2. /\ Listed(m) /\ DOMAIN m = 1..(Len(l) + 1) /\ m[Len(l) + 1] = x
      /\ (\A i \in 1..Len(l) : m[i] = l[i]) /\ m # <<>>
  BY ListedAppend DEF Plus
<1>3. Sends(b, m)
  BY SendsOne DEF Plus
<1>4. \A j \in DOMAIN l : j \in DOMAIN m /\ m[j] = l[j]
  BY <1>1, <1>2
<1>5. Len(l) + 1 \in DOMAIN m /\ \A j \in DOMAIN m : j \in DOMAIN l \/ j = Len(l) + 1
  BY <1>1, <1>2
<1> QED
  BY <1>2, <1>3, <1>4, <1>5

\* A block begins when none is open.
LEMMA Starting ==
  ASSUME NEW b, NEW l, NEW n, NEW x, NEW kind, kind # "none", Goes(b, l, n, "none"),
         x.e = "start", x.i = n, x.k = kind
  PROVE  Goes(b, Plus(l, x), n + 1, kind)
<1>1. Legal(l, x)
  BY DEF Legal, Goes, Writing, Chat!Blocks!Legal, Chat!Blocks!Over, Chat!Blocks!Open, Chat!Blocks!Starts
<1>0. PICK m : m = Plus(l, x)
  OBVIOUS
<1>2. /\ Listed(b) /\ Listed(m) /\ m # <<>> /\ Sends(b, m) /\ \A j \in DOMAIN l : j \in DOMAIN m /\ m[j] = l[j]
      /\ \E last \in DOMAIN m : m[last] = x /\ \A j \in DOMAIN m : j \in DOMAIN l \/ j = last
  <2>1. Listed(b) /\ Listed(l) /\ Sends(b, l)
    BY DEF Goes
  <2>2. /\ Listed(m) /\ m # <<>> /\ Sends(b, m)
        /\ \A j \in DOMAIN l : j \in DOMAIN m /\ m[j] = l[j]
        /\ \E last \in DOMAIN m : m[last] = x /\ \A j \in DOMAIN m : j \in DOMAIN l \/ j = last
    BY <1>0, <1>1, <2>1, OneMore
  <2> QED
    BY <2>1, <2>2
<1>3. PICK last \in DOMAIN m : m[last] = x /\ \A j \in DOMAIN m : j \in DOMAIN l \/ j = last
  BY <1>2
<1>4. n \in Nat
  BY DEF Goes, Writing
<1>5. \A j \in DOMAIN m : m[j].e \notin {"end", "error"} /\ (m[j].e \in {"start", "stop"} => m[j].i \in 0..n)
  BY <1>2, <1>3, <1>4 DEF Goes, Writing
<1>6. \A i \in 0..n : \E j \in DOMAIN m : m[j].e = "start" /\ m[j].i = i
  <2>1. ASSUME NEW i \in 0..n, i # n PROVE \E j \in DOMAIN m : m[j].e = "start" /\ m[j].i = i
    <3>1. i \in 0..(n - 1)
      BY <2>1, <1>4
    <3>2. PICK j \in DOMAIN l : l[j].e = "start" /\ l[j].i = i
      BY <3>1 DEF Goes, Writing
    <3> QED
      BY <3>2, <1>2
  <2> QED
    BY <2>1, <1>3
<1>7. ASSUME NEW j \in DOMAIN m, m[j].e = "start", m[j].i < n
      PROVE  \E i \in DOMAIN m : m[i].e = "stop" /\ m[i].i = m[j].i
  <2>1. j \in DOMAIN l /\ m[j] = l[j]
    BY <1>2, <1>3, <1>4, <1>7
  <2>2. PICK i \in DOMAIN l : l[i].e = "stop" /\ l[i].i = l[j].i
    BY <2>1, <1>7 DEF Goes, Writing
  <2> QED
    BY <2>1, <2>2, <1>2
<1>8. ASSUME NEW j \in DOMAIN m
      PROVE  (m[j].e = "stop" => m[j].i # n) /\ (m[j].e = "start" /\ m[j].i = n => m[j].k = kind)
  <2>1. CASE j = last
    BY <2>1, <1>3
  <2>2. CASE j \in DOMAIN l
    <3>1. m[j] = l[j] /\ (l[j].e \in {"start", "stop"} => l[j].i \in 0..(n - 1))
      BY <2>2, <1>2 DEF Goes, Writing
    <3> QED
      BY <3>1, <1>4
  <2> QED
    BY <2>1, <2>2, <1>3
<1>9. (n + 1) - 1 = n /\ n + 1 \in Nat /\ n + 1 > 0
  BY <1>4
<1>10. Writing(m, n + 1, kind)
  BY <1>5, <1>6, <1>7, <1>8, <1>9 DEF Writing
<1>11. Goes(b, m, n + 1, kind)
  BY <1>2, <1>10 DEF Goes
<1> QED
  BY <1>0, <1>11

\* A delta goes into the open block.
LEMMA Passing ==
  ASSUME NEW b, NEW l, NEW n, NEW k, NEW x, Goes(b, l, n, k), k # "none",
         x.e = "delta", x.i = n - 1, x.k \in Chat!Blocks!Fits[k]
  PROVE  Goes(b, Plus(l, x), n, k)
<1>1. Legal(l, x)
  <2>1. ~ Chat!Blocks!Over(l) /\ \E j \in Chat!Blocks!Open(l) : l[j].i = n - 1 /\ l[j].k = k
    BY OpenOne
  <2>2. l # <<>>
    BY DEF Goes
  <2> QED
    BY <2>1, <2>2 DEF Legal, Chat!Blocks!Legal
<1>0. PICK m : m = Plus(l, x)
  OBVIOUS
<1>2. /\ Listed(b) /\ Listed(m) /\ m # <<>> /\ Sends(b, m) /\ \A j \in DOMAIN l : j \in DOMAIN m /\ m[j] = l[j]
      /\ \E last \in DOMAIN m : m[last] = x /\ \A j \in DOMAIN m : j \in DOMAIN l \/ j = last
  <2>1. Listed(b) /\ Listed(l) /\ Sends(b, l)
    BY DEF Goes
  <2>2. /\ Listed(m) /\ m # <<>> /\ Sends(b, m)
        /\ \A j \in DOMAIN l : j \in DOMAIN m /\ m[j] = l[j]
        /\ \E last \in DOMAIN m : m[last] = x /\ \A j \in DOMAIN m : j \in DOMAIN l \/ j = last
    BY <1>0, <1>1, <2>1, OneMore
  <2> QED
    BY <2>1, <2>2
<1>3. PICK last \in DOMAIN m : m[last] = x /\ \A j \in DOMAIN m : j \in DOMAIN l \/ j = last
  BY <1>2
<1>4. /\ \A j \in DOMAIN m : (j \in DOMAIN l /\ m[j] = l[j]) \/ m[j].e = "delta"
      /\ \A j \in DOMAIN l : j \in DOMAIN m /\ m[j] = l[j]
  BY <1>2, <1>3
<1>5. n \in Nat /\ n > 0
  BY OpenOne
<1>6. \A j \in DOMAIN m : m[j].e \notin {"end", "error"} /\ (m[j].e \in {"start", "stop"} => m[j].i \in 0..(n - 1))
  BY <1>4 DEF Goes, Writing
<1>7. \A i \in 0..(n - 1) : \E j \in DOMAIN m : m[j].e = "start" /\ m[j].i = i
  BY <1>4 DEF Goes, Writing
<1>8. ASSUME NEW j \in DOMAIN m, m[j].e = "start", m[j].i < n - 1
      PROVE  \E i \in DOMAIN m : m[i].e = "stop" /\ m[i].i = m[j].i
  <2>1. j \in DOMAIN l /\ m[j] = l[j]
    BY <1>4, <1>8
  <2>2. PICK i \in DOMAIN l : l[i].e = "stop" /\ l[i].i = l[j].i
    BY <2>1, <1>8 DEF Goes, Writing
  <2> QED
    BY <2>1, <2>2, <1>4
<1>9. \A j \in DOMAIN m : (m[j].e = "stop" => m[j].i # n - 1) /\ (m[j].e = "start" /\ m[j].i = n - 1 => m[j].k = k)
  <2>1. Writing(l, n, k)
    BY DEF Goes
  <2>2. \A i \in DOMAIN l : (l[i].e = "stop" => l[i].i # n - 1) /\ (l[i].e = "start" /\ l[i].i = n - 1 => l[i].k = k)
    BY <2>1 DEF Writing
  <2> QED
    BY <1>4, <2>2
<1>10. Writing(m, n, k)
  BY <1>5, <1>6, <1>7, <1>8, <1>9 DEF Writing
<1>11. Goes(b, m, n, k)
  BY <1>2, <1>10 DEF Goes
<1> QED
  BY <1>0, <1>11

\* The open block ends.
LEMMA Stopping ==
  ASSUME NEW b, NEW l, NEW n, NEW k, NEW x, Goes(b, l, n, k), k # "none",
         x.e = "stop", x.i = n - 1
  PROVE  Goes(b, Plus(l, x), n, "none")
<1>1. Legal(l, x)
  <2>1. ~ Chat!Blocks!Over(l) /\ \E j \in Chat!Blocks!Open(l) : l[j].i = n - 1 /\ l[j].k = k
    BY OpenOne
  <2>2. l # <<>>
    BY DEF Goes
  <2> QED
    BY <2>1, <2>2 DEF Legal, Chat!Blocks!Legal
<1>0. PICK m : m = Plus(l, x)
  OBVIOUS
<1>2. /\ Listed(b) /\ Listed(m) /\ m # <<>> /\ Sends(b, m) /\ \A j \in DOMAIN l : j \in DOMAIN m /\ m[j] = l[j]
      /\ \E last \in DOMAIN m : m[last] = x /\ \A j \in DOMAIN m : j \in DOMAIN l \/ j = last
  <2>1. Listed(b) /\ Listed(l) /\ Sends(b, l)
    BY DEF Goes
  <2>2. /\ Listed(m) /\ m # <<>> /\ Sends(b, m)
        /\ \A j \in DOMAIN l : j \in DOMAIN m /\ m[j] = l[j]
        /\ \E last \in DOMAIN m : m[last] = x /\ \A j \in DOMAIN m : j \in DOMAIN l \/ j = last
    BY <1>0, <1>1, <2>1, OneMore
  <2> QED
    BY <2>1, <2>2
<1>3. PICK last \in DOMAIN m : m[last] = x /\ \A j \in DOMAIN m : j \in DOMAIN l \/ j = last
  BY <1>2
<1>5. n \in Nat /\ n > 0 /\ n - 1 \in 0..(n - 1)
  BY OpenOne
<1>6. \A j \in DOMAIN m : m[j].e \notin {"end", "error"} /\ (m[j].e \in {"start", "stop"} => m[j].i \in 0..(n - 1))
  BY <1>2, <1>3, <1>5 DEF Goes, Writing
<1>7. \A i \in 0..(n - 1) : \E j \in DOMAIN m : m[j].e = "start" /\ m[j].i = i
  BY <1>2 DEF Goes, Writing
<1>8. ASSUME NEW j \in DOMAIN m, m[j].e = "start"
      PROVE  \E i \in DOMAIN m : m[i].e = "stop" /\ m[i].i = m[j].i
  <2>1. j \in DOMAIN l /\ m[j] = l[j] /\ l[j].e = "start"
    BY <1>2, <1>3, <1>8
  <2>2. l[j].i \in 0..(n - 1)
    BY <2>1 DEF Goes, Writing
  <2>3. CASE l[j].i = n - 1
    BY <2>1, <2>3, <1>3
  <2>4. CASE l[j].i < n - 1
    <3>1. PICK i \in DOMAIN l : l[i].e = "stop" /\ l[i].i = l[j].i
      BY <2>1, <2>4 DEF Goes, Writing
    <3> QED
      BY <3>1, <2>1, <1>2
  <2> QED
    BY <2>2, <2>3, <2>4, <1>5
<1>10. Writing(m, n, "none")
  BY <1>5, <1>6, <1>7, <1>8 DEF Writing
<1>11. Goes(b, m, n, "none")
  BY <1>2, <1>10 DEF Goes
<1> QED
  BY <1>0, <1>11

\* An end once no block is open, and an error at any time, are the last thing sent.
LEMMA Ending ==
  ASSUME NEW b, NEW l, NEW n, NEW k, NEW x, Goes(b, l, n, k), x.e = "error" \/ (x.e = "end" /\ k = "none")
  PROVE  Sends(b, Plus(l, x)) /\ Listed(Plus(l, x))
<1>1. Legal(l, x)
  BY DEF Legal, Goes, Writing, Chat!Blocks!Legal, Chat!Blocks!Over, Chat!Blocks!Open, Chat!Blocks!Starts
<1> QED
  BY <1>1, SendsOne, ListedAppend DEF Goes, Plus

\* An error may be all that is sent.
LEMMA NoMessage ==
  ASSUME NEW x, x.e = "error"
  PROVE  Sends(<<>>, Plus(<<>>, x)) /\ Listed(Plus(<<>>, x))
<1>1. Legal(<<>>, x)
  BY ListedNone DEF Legal, Chat!Blocks!Legal, Chat!Blocks!Over
<1> QED
  BY <1>1, SendsOne, SendsItself, ListedNone, ListedAppend DEF Plus

\* A message begins.
LEMMA Beginning ==
  ASSUME NEW x, NEW n, NEW k, x.e = "message", Writing(<<>>, n, k)
  PROVE  Goes(<<>>, <<x>>, n, k)
<1>1. Legal(<<>>, x)
  BY ListedNone DEF Legal, Chat!Blocks!Legal, Chat!Blocks!Over
<1>2. <<x>> = Append(<<>>, x)
  OBVIOUS
<1>3. Sends(<<>>, <<x>>)
  BY Zenon, <1>1, <1>2, SendsOne, SendsItself, ListedNone
<1>4. Listed(<<x>>) /\ <<x>> # <<>> /\ DOMAIN <<x>> = {1} /\ <<x>>[1] = x
  <2>0. <<x>> \in Seq({x})
    OBVIOUS
  <2>1. Listed(<<x>>)
    BY Zenon, <2>0 DEF Listed
  <2>2. Len(<<x>>) = 1 /\ DOMAIN <<x>> = 1..1 /\ <<x>>[1] = x /\ <<x>> # <<>>
    OBVIOUS
  <2>3. 1..1 = {1}
    OBVIOUS
  <2> QED
    BY <2>1, <2>2, <2>3
<1>5. n = 0 /\ k = "none"
  BY ListedNone DEF Writing
<1>6. Writing(<<x>>, n, k)
  BY <1>4, <1>5 DEF Writing
<1> QED
  BY <1>3, <1>4, <1>6, ListedNone DEF Goes

-----------------------------------------------------------------------------
\* A converter whose events of one chunk, after those of p, go on from b.
BlockKinds == {"text", "thinking", "tool"}
At(s) == IF s.open THEN s.kind ELSE "none"
Writer(s) ==
  /\ {"index", "kind", "open", "calls", "live", "deferred", "cites", "cited", "out"} \subseteq DOMAIN s
  /\ s.open \in BOOLEAN /\ (s.open => s.kind \in BlockKinds) /\ Listed(s.out)
Wrote(b, p, s) == Writer(s) /\ Listed(p) /\ Goes(b, Cat(p, s.out), s.index, At(s))

\* Steps of the writer touch nothing else.
Kept(s, r) ==
  /\ DOMAIN r = DOMAIN s
  /\ \A f \in DOMAIN s : f \notin {"index", "kind", "open", "cited", "out"} => r[f] = s[f]

\* One event is yielded.
LEMMA Yielding ==
  ASSUME NEW s, NEW x, NEW p, Writer(s), Listed(p)
  PROVE  /\ Listed(s.out \o <<x>>) /\ Cat(p, s.out \o <<x>>) = Plus(Cat(p, s.out), x)
         /\ Listed(Cat(p, s.out))
<1> DEFINE q == s.out
<1>1. Listed(q)
  BY DEF Writer
<1>2. q \o <<x>> = Cat(q, <<x>>)
  BY DEF Cat
<1> HIDE DEF q
<1>3. Listed(Cat(p, q)) /\ Listed(Plus(q, x)) /\ Cat(q, <<x>>) = Plus(q, x) /\ Cat(p, Plus(q, x)) = Plus(Cat(p, q), x)
  BY <1>1, Joining
<1> QED
  BY Zenon, <1>2, <1>3 DEF q

\* The writer's own operators: each goes on as BlockStream lets it.
LEMMA DeltaWrites ==
  ASSUME NEW b, NEW p, NEW s, NEW k, NEW d, Wrote(b, p, s), s.open, k \in Chat!Blocks!Fits[s.kind]
  PROVE  LET r == Chat!Yield(s, <<Chat!Delta(Chat!Current(s), k, d)>>)
         IN  /\ Wrote(b, p, r) /\ DOMAIN r = DOMAIN s
             /\ \A f \in DOMAIN s : f # "out" => r[f] = s[f]
<1> DEFINE x == Chat!Delta(Chat!Current(s), k, d)
           r == Chat!Yield(s, <<x>>)
<1>1. x.e = "delta" /\ x.i = s.index - 1 /\ x.k = k
  BY DEF Chat!Delta, Chat!Current
<1> HIDE DEF x
<1>2. DOMAIN r = DOMAIN s /\ r.out = s.out \o <<x>> /\ \A f \in DOMAIN s : f # "out" => r[f] = s[f]
  BY DEF Wrote, Writer, Chat!Yield
<1> HIDE DEF r
<1>3. Listed(s.out \o <<x>>) /\ Cat(p, s.out \o <<x>>) = Plus(Cat(p, s.out), x)
  BY Yielding DEF Wrote
<1>4. r.open = s.open /\ r.kind = s.kind /\ r.index = s.index /\ s.kind \in BlockKinds
  BY Zenon, <1>2 DEF Wrote, Writer
<1>5. At(s) = s.kind /\ At(r) = s.kind /\ s.kind # "none"
  BY <1>4 DEF At, BlockKinds
<1>6. Goes(b, Cat(p, s.out), s.index, s.kind)
  BY <1>5 DEF Wrote
<1>7. Goes(b, Plus(Cat(p, s.out), x), s.index, s.kind)
  BY <1>1, <1>5, <1>6, Passing
<1>8. Writer(r)
  BY <1>2, <1>3, <1>4 DEF Wrote, Writer
<1>9. Wrote(b, p, r)
  BY <1>2, <1>3, <1>4, <1>5, <1>7, <1>8 DEF Wrote
<1> QED
  BY <1>2, <1>4, <1>9 DEF r, x

LEMMA CloseWrites ==
  ASSUME NEW b, NEW p, NEW s, Wrote(b, p, s)
  PROVE  LET r == Chat!CloseBlock(s)
         IN  Wrote(b, p, r) /\ r.open = FALSE /\ r.index = s.index /\ Kept(s, r)
<1> DEFINE r == Chat!CloseBlock(s)
<1>1. CASE ~ s.open
  <2>1. r = s /\ s.open = FALSE
    BY <1>1 DEF Chat!CloseBlock, Wrote, Writer
  <2> QED
    BY <2>1 DEF Kept
<1>2. CASE s.open
  <2> DEFINE k == s.kind
             x == Chat!Stop(Chat!Current(s))
             cite == s.kind = "text" /\ s.cites /\ ~ s.cited
             y == IF k = "thinking" THEN Chat!Delta(Chat!Current(s), "signature", None)
                                    ELSE Chat!Delta(Chat!Current(s), "citation", None)
             q == IF k = "thinking" \/ cite THEN Plus(s.out, y) ELSE s.out
  <2>1. x.e = "stop" /\ x.i = s.index - 1 /\ y.e = "delta" /\ y.i = s.index - 1 /\ (y.k = "signature" \/ y.k = "citation")
        /\ (k = "thinking" => y.k = "signature") /\ (k # "thinking" => y.k = "citation")
    BY DEF Chat!Stop, Chat!Delta, Chat!Current
  <2>2. s.open = TRUE /\ k \in BlockKinds /\ Listed(s.out) /\ Listed(p) /\ At(s) = k /\ Goes(b, Cat(p, s.out), s.index, k) /\ k # "none"
    BY <1>2 DEF Wrote, Writer, At, BlockKinds
  <2>3. Plus(s.out, y) = Cat(s.out, <<y>>) /\ Listed(Plus(s.out, y)) /\ Cat(p, Plus(s.out, y)) = Plus(Cat(p, s.out), y)
    BY <2>2, Joining
  <2>4. Listed(q) /\ Cat(p, q) = IF k = "thinking" \/ cite THEN Plus(Cat(p, s.out), y) ELSE Cat(p, s.out)
    BY <2>2, <2>3
  <2>5. Goes(b, Cat(p, q), s.index, k)
    <3>1. CASE k = "thinking" \/ cite
      <4>1. y.k \in Chat!Blocks!Fits[k]
        BY <3>1, <2>1 DEF Chat!Blocks!Fits
      <4>2. Goes(b, Plus(Cat(p, s.out), y), s.index, k)
        BY <2>1, <2>2, <4>1, Passing
      <4> QED
        BY <3>1, <4>2, <2>4
    <3>2. CASE ~ (k = "thinking" \/ cite)
      BY <3>2, <2>2, <2>4
    <3> QED
      BY <3>1, <3>2
  <2>6. Cat(q, <<x>>) = Plus(q, x) /\ Listed(Plus(q, x)) /\ Cat(p, Plus(q, x)) = Plus(Cat(p, q), x)
    <3> HIDE DEF q, x
    <3> QED
      BY <2>2, <2>4, Joining
  <2>7. Goes(b, Plus(Cat(p, q), x), s.index, "none")
    <3> HIDE DEF q, x, k
    <3> QED
      BY <2>1, <2>2, <2>5, Stopping
  <2>8. DOMAIN r = DOMAIN s /\ r.open = FALSE /\ r.index = s.index /\ Kept(s, r)
    BY Zenon, <1>2 DEF Chat!CloseBlock, Chat!Yield, Kept, Wrote, Writer
  <2>9. r.out = Plus(q, x)
    <3> DEFINE tail == IF s.kind = "thinking" THEN <<Chat!Delta(Chat!Current(s), "signature", None)>>
                       ELSE IF cite THEN <<Chat!Delta(Chat!Current(s), "citation", None)>> ELSE <<>>
    <3>1. r.out = s.out \o (tail \o <<x>>)
      BY <1>2 DEF Chat!CloseBlock, Chat!Yield, Wrote, Writer
    <3>2. tail = IF k = "thinking" \/ cite THEN <<y>> ELSE <<>>
      OBVIOUS
    <3> HIDE DEF tail, x, y, cite
    <3>3. s.out \o (<<y>> \o <<x>>) = Cat(Cat(s.out, <<y>>), <<x>>) /\ s.out \o (<<>> \o <<x>>) = Cat(s.out, <<x>>)
      BY <2>2 DEF Listed, Cat
    <3>4. CASE k = "thinking" \/ cite
      <4>1. tail = <<y>> /\ q = Plus(s.out, y)
        BY <3>2, <3>4
      <4>2. r.out = Cat(Cat(s.out, <<y>>), <<x>>)
        BY Zenon, <3>1, <3>3, <4>1
      <4> HIDE DEF q, r
      <4> QED
        BY <4>1, <4>2, <2>3, <2>6
    <3>5. CASE ~ (k = "thinking" \/ cite)
      BY Zenon, <3>1, <3>2, <3>3, <3>5, <2>6
    <3> QED
      BY <3>4, <3>5
  <2> HIDE DEF r, q, x
  <2>10. Writer(r)
    BY Zenon, <2>6, <2>8, <2>9 DEF Writer, Wrote
  <2>11. At(r) = "none"
    BY <2>8 DEF At
  <2>12. Wrote(b, p, r)
    BY <2>2, <2>6, <2>7, <2>8, <2>9, <2>10, <2>11 DEF Wrote
  <2> QED
    BY <2>8, <2>12 DEF r
<1> QED
  BY Zenon, <1>1, <1>2 DEF Wrote, Writer

LEMMA OpenWrites ==
  ASSUME NEW b, NEW p, NEW s, NEW kind \in BlockKinds, NEW id, Wrote(b, p, s)
  PROVE  LET r == Chat!OpenBlock(s, kind, id)
         IN  Wrote(b, p, r) /\ r.open = TRUE /\ r.kind = kind /\ r.index = s.index + 1 /\ Kept(s, r)
<1> DEFINE c == Chat!CloseBlock(s)
           x == Chat!Start(c.index, kind, id)
           r == Chat!OpenBlock(s, kind, id)
<1>1. Wrote(b, p, c) /\ c.open = FALSE /\ c.index = s.index /\ Kept(s, c)
  BY Zenon, CloseWrites
<1>2. x.e = "start" /\ x.i = c.index /\ x.k = kind
  BY DEF Chat!Start
<1>3. r = [[c EXCEPT !.out = @ \o <<x>>] EXCEPT !.index = @ + 1, !.kind = kind, !.open = TRUE]
  BY DEF Chat!OpenBlock, Chat!Yield
<1> HIDE DEF c, x, r
<1>4. /\ DOMAIN r = DOMAIN c /\ r.out = c.out \o <<x>> /\ r.index = c.index + 1 /\ r.kind = kind /\ r.open = TRUE
      /\ Kept(c, r)
  BY Zenon, <1>1, <1>3 DEF Wrote, Writer, Kept
<1>5. Kept(s, r)
  BY <1>1, <1>4 DEF Kept
<1>6. Listed(c.out \o <<x>>) /\ Cat(p, c.out \o <<x>>) = Plus(Cat(p, c.out), x)
  BY <1>1, Yielding DEF Wrote
<1>7. Goes(b, Cat(p, c.out), c.index, "none")
  BY <1>1 DEF Wrote, At
<1>8. Goes(b, Plus(Cat(p, c.out), x), c.index + 1, kind)
  BY <1>2, <1>7, Starting DEF BlockKinds
<1>9. Writer(r) /\ At(r) = kind
  BY Zenon, <1>1, <1>4, <1>6 DEF Wrote, Writer, At
<1>10. Wrote(b, p, r)
  BY <1>1, <1>4, <1>6, <1>8, <1>9 DEF Wrote
<1> QED
  BY <1>1, <1>4, <1>5, <1>10 DEF r

\* Text waits while a call is live; else it is written, in a block of its kind.
TextKinds == {"text", "thinking"}
LEMMA ContentWrites ==
  ASSUME NEW b, NEW p, NEW s, NEW kind \in TextKinds, NEW piece, Wrote(b, p, s)
  PROVE  LET r == Chat!EmitContent(s, kind, piece)
         IN  /\ Wrote(b, p, r) /\ DOMAIN r = DOMAIN s
             /\ \A f \in DOMAIN s : f \notin {"index", "kind", "open", "cited", "out", "deferred"} => r[f] = s[f]
             /\ s.live # 0 => r.index = s.index /\ r.kind = s.kind /\ r.open = s.open /\ r.deferred = Append(s.deferred, <<kind, piece>>)
             /\ s.live = 0 => r.deferred = s.deferred
<1>1. CASE s.live # 0
  <2> DEFINE r == Chat!EmitContent(s, kind, piece)
  <2>1. /\ DOMAIN r = DOMAIN s /\ (\A f \in DOMAIN s : f # "deferred" => r[f] = s[f])
        /\ r.deferred = Append(s.deferred, <<kind, piece>>)
    BY <1>1 DEF Chat!EmitContent, Wrote, Writer
  <2> HIDE DEF r
  <2>2. r.index = s.index /\ r.open = s.open /\ r.kind = s.kind /\ r.out = s.out /\ Writer(r)
    BY <2>1 DEF Wrote, Writer
  <2>3. Wrote(b, p, r)
    BY <2>2 DEF Wrote, At
  <2> QED
    BY <1>1, <2>1, <2>2, <2>3 DEF r
<1>2. CASE s.live = 0
  <2> DEFINE o == IF s.open /\ s.kind = kind THEN s ELSE Chat!OpenBlock(s, kind, None)
             d == <<piece>>
             r == Chat!Yield(o, <<Chat!Delta(Chat!Current(o), kind, d)>>)
  <2>1. kind \in BlockKinds
    BY DEF TextKinds, BlockKinds
  <2>2. Wrote(b, p, o) /\ o.open /\ o.kind = kind /\ Kept(s, o)
    <3>1. CASE s.open /\ s.kind = kind
      <4>1. o = s
        BY <3>1
      <4> HIDE DEF o
      <4> QED
        BY <3>1, <4>1 DEF Kept
    <3>2. CASE ~ (s.open /\ s.kind = kind)
      <4>1. o = Chat!OpenBlock(s, kind, None)
        BY <3>2
      <4> HIDE DEF o
      <4>2. LET c == Chat!OpenBlock(s, kind, None)
            IN  Wrote(b, p, c) /\ c.open = TRUE /\ c.kind = kind /\ c.index = s.index + 1 /\ Kept(s, c)
        BY Zenon, <2>1, OpenWrites
      <4> QED
        BY <4>1, <4>2
    <3> QED
      BY <3>1, <3>2
  <2>3. kind \in Chat!Blocks!Fits[kind]
    BY DEF TextKinds, Chat!Blocks!Fits
  <2> HIDE DEF o, d
  <2>4. /\ Wrote(b, p, r) /\ DOMAIN r = DOMAIN o
        /\ \A f \in DOMAIN o : f # "out" => r[f] = o[f]
    BY <2>2, <2>3, DeltaWrites
  <2>5. Chat!EmitContent(s, kind, piece) = r
    BY <1>2 DEF Chat!EmitContent, o, d
  <2> HIDE DEF r
  <2>6. DOMAIN r = DOMAIN s /\ \A f \in DOMAIN s : f \notin {"index", "kind", "open", "cited", "out"} => r[f] = s[f]
    BY <2>2, <2>4 DEF Kept
  <2>7. r.deferred = s.deferred
    BY <2>6 DEF Wrote, Writer
  <2> QED
    BY <1>2, <2>4, <2>5, <2>6, <2>7
<1> QED
  BY <1>1, <1>2

LEMMA OneWrites ==
  ASSUME NEW b, NEW p, NEW s, Wrote(b, p, s), s.open = FALSE
  PROVE  Wrote(b, p, Chat!AtLeastOne(s)) /\ Chat!AtLeastOne(s).open = FALSE
<1> DEFINE o == Chat!OpenBlock(s, "text", None)
<1>1. Wrote(b, p, o)
  BY Zenon, OpenWrites DEF BlockKinds
<1> HIDE DEF o
<1>2. Wrote(b, p, Chat!CloseBlock(o)) /\ Chat!CloseBlock(o).open = FALSE
  BY Zenon, <1>1, CloseWrites
<1>3. CASE s.index = 0
  BY <1>2, <1>3 DEF Chat!AtLeastOne, o
<1>4. CASE s.index # 0
  BY <1>4 DEF Chat!AtLeastOne
<1> QED
  BY Zenon, <1>3, <1>4

-----------------------------------------------------------------------------
\* Induction on the naturals, which the library states for an operator, from the
\* order of the finite sets 1..n.
LEMMA Induction ==
  ASSUME NEW P, 0 \in P, \A n \in Nat : n \in P => n + 1 \in P
  PROVE  \A n \in Nat : n \in P
<1> SUFFICES ASSUME NEW n \in Nat, n \notin P PROVE FALSE
  OBVIOUS
<1> DEFINE Bad == {1..j : j \in {i \in 0..n : i \notin P}}
<1>1. Bad \subseteq SUBSET (1..n) /\ Bad # {}
  OBVIOUS
<1>2. IsFiniteSet(1..n)
  BY FS_Interval
<1>3. IsWellFoundedOn(StrictSubsetOrdering(1..n), SUBSET (1..n))
  BY Zenon, <1>2, FS_Subset, FS_FiniteSubsetsOfFinite, FS_StrictSubsetOrderingWellFounded
<1> HIDE DEF Bad
<1>4. PICK s \in Bad : \A r \in Bad : ~ (<<r, s>> \in StrictSubsetOrdering(1..n))
  BY Zenon, <1>1, <1>3, WFMin
<1> USE DEF Bad
<1>5. PICK m \in 0..n : m \notin P /\ s = 1..m
  BY <1>4
<1>6. m - 1 \in 0..n /\ m - 1 \notin P
  BY <1>5
<1>7. 1..(m - 1) \in Bad
  BY <1>6
<1>8. 1..(m - 1) \in SUBSET (1..n) /\ 1..m \in SUBSET (1..n) /\ 1..(m - 1) \subseteq 1..m /\ 1..(m - 1) # 1..m
  <2>1. m \in 1..m /\ m \notin 1..(m - 1)
    BY <1>6
  <2> QED
    BY <2>1
<1> HIDE DEF Bad
<1> QED
  BY Zenon, <1>4, <1>5, <1>7, <1>8 DEF StrictSubsetOrdering

\* A greatest number is the only one.
LEMMA Greatest ==
  ASSUME NEW m \in Int, NEW s \in SUBSET Int, m \in s, \A y \in s : m >= y
  PROVE  (CHOOSE x \in s : \A y \in s : x >= y) = m
<1>1. \A x \in s : (\A y \in s : x >= y) => x = m
  OBVIOUS
<1> QED
  BY Zenon, <1>1

\* A fold over a sequence, step after step.
Buffered(s, seq) == Chat!FoldLeft(Chat!EmitBuffered, s, seq)

\* The buffered calls are emitted one after another.
LEMMA BufferedInTurn ==
  ASSUME NEW base, NEW n \in Nat, NEW seq, DOMAIN seq = 1..n
  PROVE  \E f : /\ f[0] = base /\ f[n] = Buffered(base, seq)
                /\ \A j \in 1..n : f[j] = Chat!EmitBuffered(f[j - 1], seq[j])
<1> DEFINE Solves(g, m) ==
      g = [s \in SUBSET (1..m) |-> IF s = {} THEN base ELSE Chat!EmitBuffered(g[s \ {Chat!Max(s)}], seq[Chat!Max(s)])]
<1>1. \E g : Solves(g, 0)
  <2>1. SUBSET (1..0) = {{}}
    OBVIOUS
  <2>2. Solves([s \in {{}} |-> base], 0)
    BY <2>1
  <2> QED
    BY Zenon, <2>2
<1>2. ASSUME NEW m \in Nat, \E g : Solves(g, m) PROVE \E g : Solves(g, m + 1)
  <2>1. PICK g : Solves(g, m)
    BY Zenon, <1>2
  <2> DEFINE h == [s \in SUBSET (1..(m + 1)) |-> IF m + 1 \in s THEN Chat!EmitBuffered(g[s \ {m + 1}], seq[m + 1]) ELSE g[s]]
  <2>2. ASSUME NEW s \in SUBSET (1..(m + 1)), m + 1 \in s
        PROVE  h[s] = IF s = {} THEN base ELSE Chat!EmitBuffered(h[s \ {Chat!Max(s)}], seq[Chat!Max(s)])
    <3>1. Chat!Max(s) = m + 1
      BY <2>2, Greatest DEF Chat!Max
    <3>2. s \ {m + 1} \in SUBSET (1..m) /\ s \ {m + 1} \in SUBSET (1..(m + 1)) /\ m + 1 \notin s \ {m + 1}
      OBVIOUS
    <3>3. h[s \ {m + 1}] = g[s \ {m + 1}]
      BY <3>2
    <3>4. h[s] = Chat!EmitBuffered(g[s \ {m + 1}], seq[m + 1])
      BY <2>2
    <3> HIDE DEF h
    <3> QED
      BY <2>2, <3>1, <3>3, <3>4
  <2>3. ASSUME NEW s \in SUBSET (1..(m + 1)), m + 1 \notin s
        PROVE  h[s] = IF s = {} THEN base ELSE Chat!EmitBuffered(h[s \ {Chat!Max(s)}], seq[Chat!Max(s)])
    <3>1. s \in SUBSET (1..m)
      BY <2>3
    <3>2. \A x : s \ {x} \in SUBSET (1..(m + 1)) /\ h[s \ {x}] = g[s \ {x}]
      BY Zenon, <3>1, <2>3
    <3>3. h[s] = g[s]
      BY <2>3
    <3>4. g[s] = IF s = {} THEN base ELSE Chat!EmitBuffered(g[s \ {Chat!Max(s)}], seq[Chat!Max(s)])
      BY Zenon, <2>1, <3>1
    <3> HIDE DEF h
    <3> QED
      BY Zenon, <3>2, <3>3, <3>4
  <2>4. h = [s \in SUBSET (1..(m + 1)) |-> IF s = {} THEN base ELSE Chat!EmitBuffered(h[s \ {Chat!Max(s)}], seq[Chat!Max(s)])]
    <3>1. \A s \in SUBSET (1..(m + 1)) : h[s] = IF s = {} THEN base ELSE Chat!EmitBuffered(h[s \ {Chat!Max(s)}], seq[Chat!Max(s)])
      BY Zenon, <2>2, <2>3
    <3>2. h = [s \in SUBSET (1..(m + 1)) |-> h[s]]
      OBVIOUS
    <3> HIDE DEF h
    <3> QED
      BY Zenon, <3>1, <3>2
  <2> QED
    BY Zenon, <2>4
<1>3. \E g : Solves(g, n)
  <2> HIDE DEF Solves
  <2> DEFINE P == {m \in Nat : \E g : Solves(g, m)}
  <2>1. 0 \in P /\ \A m \in Nat : m \in P => m + 1 \in P
    BY <1>1, <1>2
  <2> HIDE DEF P
  <2>2. n \in P
    BY <2>1, Induction
  <2> QED
    BY <2>2 DEF P
<1> DEFINE g == CHOOSE g : Solves(g, n)
<1>4. Solves(g, n)
  BY Zenon, <1>3
<1>5. Buffered(base, seq) = g[1..n]
  BY DEF Buffered, Chat!FoldLeft, Chat!MapThenFoldSet
<1> HIDE DEF g
<1>6. ASSUME NEW j \in 1..n PROVE g[1..j] = Chat!EmitBuffered(g[1..(j - 1)], seq[j])
  <2>1. Chat!Max(1..j) = j
    BY Greatest DEF Chat!Max
  <2>2. (1..j) \ {j} = 1..(j - 1)
    OBVIOUS
  <2>3. 1..j \in SUBSET (1..n) /\ j \in 1..j
    OBVIOUS
  <2> QED
    BY Zenon, <1>4, <2>1, <2>2, <2>3
<1>7. g[1..0] = base
  <2>1. 1..0 = {} /\ {} \in SUBSET (1..n)
    OBVIOUS
  <2> QED
    BY <1>4, <2>1
<1> HIDE DEF Solves
<1> DEFINE f == [j \in 0..n |-> g[1..j]]
<1>8. f[0] = base /\ f[n] = Buffered(base, seq) /\ \A j \in 1..n : f[j] = Chat!EmitBuffered(f[j - 1], seq[j])
  <2>1. \A j \in 0..n : f[j] = g[1..j]
    OBVIOUS
  <2>2. \A j \in 1..n : j \in 0..n /\ j - 1 \in 0..n
    OBVIOUS
  <2> HIDE DEF f
  <2> QED
    BY <1>5, <1>6, <1>7, <2>1, <2>2
<1> QED
  BY Zenon, <1>8

\* So is the text that waited.
LEMMA DeferredInTurn ==
  ASSUME NEW base, NEW n \in Nat, NEW seq, DOMAIN seq = 1..n, NEW s0, seq = s0.deferred, base = [s0 EXCEPT !.deferred = <<>>]
  PROVE  \E f : /\ f[0] = base /\ f[n] = Chat!EmitDeferred(s0)
                /\ \A j \in 1..n : f[j] = Chat!EmitContent(f[j - 1], seq[j][1], seq[j][2])
<1> DEFINE Solves(g, m) ==
      g = [s \in SUBSET (1..m) |-> IF s = {} THEN base ELSE Chat!EmitContent(g[s \ {Chat!Max(s)}], seq[Chat!Max(s)][1], seq[Chat!Max(s)][2])]
<1>1. \E g : Solves(g, 0)
  <2>1. SUBSET (1..0) = {{}}
    OBVIOUS
  <2>2. Solves([s \in {{}} |-> base], 0)
    BY <2>1
  <2> QED
    BY Zenon, <2>2
<1>2. ASSUME NEW m \in Nat, \E g : Solves(g, m) PROVE \E g : Solves(g, m + 1)
  <2>1. PICK g : Solves(g, m)
    BY Zenon, <1>2
  <2> DEFINE h == [s \in SUBSET (1..(m + 1)) |-> IF m + 1 \in s THEN Chat!EmitContent(g[s \ {m + 1}], seq[m + 1][1], seq[m + 1][2]) ELSE g[s]]
  <2>2. ASSUME NEW s \in SUBSET (1..(m + 1)), m + 1 \in s
        PROVE  h[s] = IF s = {} THEN base ELSE Chat!EmitContent(h[s \ {Chat!Max(s)}], seq[Chat!Max(s)][1], seq[Chat!Max(s)][2])
    <3>1. Chat!Max(s) = m + 1
      BY <2>2, Greatest DEF Chat!Max
    <3>2. s \ {m + 1} \in SUBSET (1..m) /\ s \ {m + 1} \in SUBSET (1..(m + 1)) /\ m + 1 \notin s \ {m + 1}
      OBVIOUS
    <3>3. h[s \ {m + 1}] = g[s \ {m + 1}]
      BY <3>2
    <3>4. h[s] = Chat!EmitContent(g[s \ {m + 1}], seq[m + 1][1], seq[m + 1][2])
      BY <2>2
    <3> HIDE DEF h
    <3> QED
      BY <2>2, <3>1, <3>3, <3>4
  <2>3. ASSUME NEW s \in SUBSET (1..(m + 1)), m + 1 \notin s
        PROVE  h[s] = IF s = {} THEN base ELSE Chat!EmitContent(h[s \ {Chat!Max(s)}], seq[Chat!Max(s)][1], seq[Chat!Max(s)][2])
    <3>1. s \in SUBSET (1..m)
      BY <2>3
    <3>2. \A x : s \ {x} \in SUBSET (1..(m + 1)) /\ h[s \ {x}] = g[s \ {x}]
      BY <3>1, <2>3
    <3>3. h[s] = g[s]
      BY <2>3
    <3>4. g[s] = IF s = {} THEN base ELSE Chat!EmitContent(g[s \ {Chat!Max(s)}], seq[Chat!Max(s)][1], seq[Chat!Max(s)][2])
      BY Zenon, <2>1, <3>1
    <3> HIDE DEF h
    <3> QED
      BY Zenon, <3>2, <3>3, <3>4
  <2>4. h = [s \in SUBSET (1..(m + 1)) |-> IF s = {} THEN base ELSE Chat!EmitContent(h[s \ {Chat!Max(s)}], seq[Chat!Max(s)][1], seq[Chat!Max(s)][2])]
    <3>1. \A s \in SUBSET (1..(m + 1)) : h[s] = IF s = {} THEN base ELSE Chat!EmitContent(h[s \ {Chat!Max(s)}], seq[Chat!Max(s)][1], seq[Chat!Max(s)][2])
      BY Zenon, <2>2, <2>3
    <3>2. h = [s \in SUBSET (1..(m + 1)) |-> h[s]]
      OBVIOUS
    <3> HIDE DEF h
    <3> QED
      BY Zenon, <3>1, <3>2
  <2> QED
    BY Zenon, <2>4
<1>3. \E g : Solves(g, n)
  <2> HIDE DEF Solves
  <2> DEFINE P == {m \in Nat : \E g : Solves(g, m)}
  <2>1. 0 \in P /\ \A m \in Nat : m \in P => m + 1 \in P
    BY <1>1, <1>2
  <2> HIDE DEF P
  <2>2. n \in P
    BY <2>1, Induction
  <2> QED
    BY <2>2 DEF P
<1> DEFINE g == CHOOSE g : Solves(g, n)
<1>4. Solves(g, n)
  BY Zenon, <1>3
<1>5. Chat!EmitDeferred(s0) = g[1..n]
  BY Zenon DEF Chat!EmitDeferred, Chat!FoldLeft, Chat!MapThenFoldSet
<1> HIDE DEF g
<1>6. ASSUME NEW j \in 1..n PROVE g[1..j] = Chat!EmitContent(g[1..(j - 1)], seq[j][1], seq[j][2])
  <2>1. Chat!Max(1..j) = j
    BY Greatest DEF Chat!Max
  <2>2. (1..j) \ {j} = 1..(j - 1)
    OBVIOUS
  <2>3. 1..j \in SUBSET (1..n) /\ j \in 1..j
    OBVIOUS
  <2> QED
    BY Zenon, <1>4, <2>1, <2>2, <2>3
<1>7. g[1..0] = base
  <2>1. 1..0 = {} /\ {} \in SUBSET (1..n)
    OBVIOUS
  <2> QED
    BY <1>4, <2>1
<1> HIDE DEF Solves
<1> DEFINE f == [j \in 0..n |-> g[1..j]]
<1>8. f[0] = base /\ f[n] = Chat!EmitDeferred(s0) /\ \A j \in 1..n : f[j] = Chat!EmitContent(f[j - 1], seq[j][1], seq[j][2])
  <2>1. \A j \in 0..n : f[j] = g[1..j]
    OBVIOUS
  <2>2. \A j \in 1..n : j \in 0..n /\ j - 1 \in 0..n
    OBVIOUS
  <2> HIDE DEF f
  <2> QED
    BY <1>5, <1>6, <1>7, <2>1, <2>2
<1> QED
  BY Zenon, <1>8

-----------------------------------------------------------------------------
\* The calls a converter keeps.
CallFields == {"id", "name", "args", "block"}
CallsFit(c) == Listed(c) /\ \A j \in 1..Len(c) : CallFields \subseteq DOMAIN c[j]

\* One field of one call changes.
LEMMA CallChanges ==
  ASSUME NEW c, CallsFit(c), NEW j \in 1..Len(c), NEW e, NEW d,
         DOMAIN e = DOMAIN c[j], d = [c EXCEPT ![j] = e]
  PROVE  CallsFit(d) /\ Len(d) = Len(c) /\ d[j] = e /\ \A i \in 1..Len(c) : i # j => d[i] = c[i]
<1>1. Listed(c)
  BY DEF CallsFit
<1>2. Listed(d) /\ Len(d) = Len(c) /\ d[j] = e /\ \A i \in 1..Len(c) : i # j => d[i] = c[i]
  <2>1. PICK S : c \in Seq(S)
    BY <1>1 DEF Listed
  <2>2. c \in Seq(S \cup {e})
    BY <2>1
  <2>3. d \in Seq(S \cup {e}) /\ Len(d) = Len(c)
    BY <2>2
  <2> QED
    BY <2>2, <2>3 DEF Listed
<1> QED
  BY <1>2 DEF CallsFit

\* Fields that say nothing of what is written.
LEMMA Unwritten ==
  ASSUME NEW b, NEW p, NEW s, NEW r, Wrote(b, p, s), DOMAIN r = DOMAIN s,
         r.index = s.index, r.kind = s.kind, r.open = s.open, r.out = s.out
  PROVE  Wrote(b, p, r)
BY DEF Wrote, Writer, At

\* The chat converter: a live call has the open block, and what is remembered of calls
\* names one of them.
Waiting(q) == Listed(q) /\ \A j \in 1..Len(q) : q[j][1] \in TextKinds

ChatConv(s) ==
  /\ {"index", "kind", "open", "calls", "live", "deferred", "finish", "cites", "cited", "out", "ids", "keys"} \subseteq DOMAIN s
  /\ CallsFit(s.calls) /\ s.live \in 0..Len(s.calls)
  /\ s.live # 0 => s.open = TRUE /\ s.kind = "tool" /\ s.calls[s.live].block = s.index - 1
  /\ Waiting(s.deferred)
  /\ \A x \in DOMAIN s.ids : s.ids[x] \in 1..Len(s.calls)
  /\ \A x \in DOMAIN s.keys : s.keys[x] \in 1..Len(s.calls)

\* From s to r a tool's block opens, for one of the calls; what it has waiting is sent.
ToolOpened(b, p, s, key, r) ==
  /\ Wrote(b, p, r) /\ r.open = TRUE /\ r.kind = "tool" /\ r.index = s.index + 1
  /\ CallsFit(r.calls) /\ Len(r.calls) = Len(s.calls) /\ r.calls[key].block = r.index - 1
  /\ \A i \in 1..Len(s.calls) : i # key => r.calls[i] = s.calls[i]
  /\ DOMAIN r = DOMAIN s
  /\ \A f \in DOMAIN s : f \notin {"index", "kind", "open", "cited", "out", "calls"} => r[f] = s[f]
Flushed(b, p, s, key, r) ==
  /\ Wrote(b, p, r) /\ r.open = TRUE /\ r.kind = "tool" /\ r.index = s.index
  /\ CallsFit(r.calls) /\ Len(r.calls) = Len(s.calls) /\ r.calls[key].block = s.calls[key].block
  /\ DOMAIN r = DOMAIN s
  /\ \A f \in DOMAIN s : f \notin {"out", "calls"} => r[f] = s[f]

LEMMA ToolOpens ==
  ASSUME NEW b, NEW p, NEW s, NEW key \in 1..Len(s.calls), Wrote(b, p, s), CallsFit(s.calls)
  PROVE  ToolOpened(b, p, s, key, Chat!OpenToolBlock(s, key))
<1> DEFINE id == s.calls[key].id
           o == Chat!OpenBlock(s, "tool", id)
           r == Chat!OpenToolBlock(s, key)
<1>1. Wrote(b, p, o) /\ o.open = TRUE /\ o.kind = "tool" /\ o.index = s.index + 1 /\ Kept(s, o)
  <2> HIDE DEF id
  <2>1. LET c == Chat!OpenBlock(s, "tool", id)
        IN  Wrote(b, p, c) /\ c.open = TRUE /\ c.kind = "tool" /\ c.index = s.index + 1 /\ Kept(s, c)
    BY Zenon, OpenWrites DEF BlockKinds
  <2> QED
    BY <2>1
<1>2. r = [o EXCEPT !.calls[key].block = Chat!Current(o)]
  BY DEF Chat!OpenToolBlock
<1> HIDE DEF o, r
<1>3. o.calls = s.calls /\ DOMAIN o = DOMAIN s
  BY <1>1 DEF Kept, Wrote, Writer
<1> DEFINE e == [s.calls[key] EXCEPT !.block = o.index - 1]
           d == [s.calls EXCEPT ![key] = e]
<1>4. DOMAIN e = DOMAIN s.calls[key] /\ e.block = o.index - 1
  BY DEF CallsFit, CallFields
<1>5. DOMAIN r = DOMAIN s /\ r.calls = d /\ \A f \in DOMAIN s : f # "calls" => r[f] = o[f]
  BY <1>2, <1>3 DEF Chat!Current, Wrote, Writer
<1> HIDE DEF e
<1>6. CallsFit(d) /\ Len(d) = Len(s.calls) /\ d[key] = e /\ \A i \in 1..Len(s.calls) : i # key => d[i] = s.calls[i]
  BY <1>4, CallChanges
<1> HIDE DEF d
<1>7. r.index = o.index /\ r.kind = o.kind /\ r.open = o.open /\ r.out = o.out
  BY <1>5 DEF Wrote, Writer
<1>8. Wrote(b, p, r)
  BY <1>1, <1>3, <1>5, <1>7, Unwritten
<1>9. \A f \in DOMAIN s : f \notin {"index", "kind", "open", "cited", "out", "calls"} => r[f] = s[f]
  BY <1>1, <1>5 DEF Kept
<1> QED
  BY <1>1, <1>4, <1>5, <1>6, <1>7, <1>8, <1>9 DEF r, ToolOpened

LEMMA FlushWrites ==
  ASSUME NEW b, NEW p, NEW s, NEW key \in 1..Len(s.calls), Wrote(b, p, s), CallsFit(s.calls),
         s.open = TRUE, s.kind = "tool"
  PROVE  Flushed(b, p, s, key, Chat!Flush(s, key))
<1>1. CASE s.calls[key].args = <<>>
  <2>1. Chat!Flush(s, key) = s
    BY <1>1 DEF Chat!Flush
  <2> QED
    BY <2>1 DEF Flushed
<1>2. CASE s.calls[key].args # <<>>
  <2> DEFINE x == s.calls[key].args
             k == "json"
             y == Chat!Yield(s, <<Chat!Delta(Chat!Current(s), k, x)>>)
             r == Chat!Flush(s, key)
             e == [s.calls[key] EXCEPT !.args = <<>>]
             d == [s.calls EXCEPT ![key] = e]
  <2>1. k \in Chat!Blocks!Fits[s.kind] /\ s.open
    BY DEF Chat!Blocks!Fits
  <2>2. r = [y EXCEPT !.calls[key].args = <<>>]
    BY <1>2 DEF Chat!Flush
  <2> HIDE DEF x, k
  <2>3. Wrote(b, p, y) /\ DOMAIN y = DOMAIN s /\ \A f \in DOMAIN s : f # "out" => y[f] = s[f]
    BY <2>1, DeltaWrites
  <2> HIDE DEF y, r
  <2>4. y.calls = s.calls /\ y.index = s.index /\ y.open = s.open /\ y.kind = s.kind
    BY <2>3 DEF Wrote, Writer
  <2>5. DOMAIN r = DOMAIN s /\ r.calls = d /\ \A f \in DOMAIN s : f # "calls" => r[f] = y[f]
    BY <2>2, <2>3, <2>4 DEF Wrote, Writer
  <2>6. DOMAIN e = DOMAIN s.calls[key] /\ e.block = s.calls[key].block
    BY DEF CallsFit, CallFields
  <2> HIDE DEF e
  <2>7. CallsFit(d) /\ Len(d) = Len(s.calls) /\ d[key] = e
    BY <2>6, CallChanges
  <2> HIDE DEF d
  <2>8. r.index = y.index /\ r.kind = y.kind /\ r.open = y.open /\ r.out = y.out
    BY <2>5 DEF Wrote, Writer
  <2>9. Wrote(b, p, r)
    BY <2>3, <2>5, <2>8, Unwritten
  <2>10. \A f \in DOMAIN s : f \notin {"out", "calls"} => r[f] = s[f]
    BY <2>3, <2>5
  <2> QED
    BY <2>3, <2>4, <2>5, <2>6, <2>7, <2>8, <2>9, <2>10 DEF r, Flushed
<1> QED
  BY <1>1, <1>2

\* One more name for a call.
LEMMA Remembered ==
  ASSUME NEW f, NEW S, \A x \in DOMAIN f : f[x] \in S, NEW a, NEW k \in S
  PROVE  \A y \in DOMAIN Chat!Merge([x \in {a} |-> k], f) : Chat!Merge([x \in {a} |-> k], f)[y] \in S
BY DEF Chat!Merge

\* The call of a fragment is one of the calls, or one more; what names it is remembered.
LEMMA FragmentFound ==
  ASSUME NEW s0, NEW tc, ChatConv(s0)
  PROVE  LET found == Chat!FindCall(s0, tc)
             key == IF found = 0 THEN Len(s0.calls) + 1 ELSE found
             added == IF found # 0 THEN s0
                      ELSE [s0 EXCEPT !.calls = Append(@, [id |-> None, name |-> FALSE, args |-> <<>>, block |-> None])]
             s == [added EXCEPT !.keys = Chat!Merge([x \in {tc.index} |-> key], @),
                                !.ids = IF tc.id = None THEN @ ELSE Chat!Merge([x \in {tc.id} |-> key], @),
                                !.calls[key].id = IF @ = None THEN tc.id ELSE @,
                                !.calls[key].name = @ \/ tc.name]
         IN  /\ key \in 1..Len(s.calls) /\ ChatConv(s) /\ DOMAIN s = DOMAIN s0
             /\ \A f \in DOMAIN s0 : f \notin {"calls", "ids", "keys"} => s[f] = s0[f]
<1> DEFINE found == Chat!FindCall(s0, tc)
           key == IF found = 0 THEN Len(s0.calls) + 1 ELSE found
           new == [id |-> None, name |-> FALSE, args |-> <<>>, block |-> None]
           added == IF found # 0 THEN s0 ELSE [s0 EXCEPT !.calls = Append(@, new)]
           s == [added EXCEPT !.keys = Chat!Merge([x \in {tc.index} |-> key], @),
                              !.ids = IF tc.id = None THEN @ ELSE Chat!Merge([x \in {tc.id} |-> key], @),
                              !.calls[key].id = IF @ = None THEN tc.id ELSE @,
                              !.calls[key].name = @ \/ tc.name]
<1>1. found \in 0..Len(s0.calls) /\ Len(s0.calls) \in Nat
  <2>1. Len(s0.calls) \in Nat
    BY ListedLen DEF ChatConv, CallsFit
  <2> QED
    BY <2>1 DEF ChatConv, Chat!FindCall
<1> HIDE DEF found
<1> DEFINE grown == IF found # 0 THEN s0.calls ELSE Plus(s0.calls, new)
<1>2. CallsFit(grown) /\ Len(grown) >= Len(s0.calls) /\ key \in 1..Len(grown) /\ \A j \in 1..Len(s0.calls) : grown[j] = s0.calls[j]
  <2>1. CASE found # 0
    BY <1>1, <2>1 DEF ChatConv
  <2>2. CASE found = 0
    <3> HIDE DEF new
    <3>1. CallsFit(s0.calls) /\ CallFields \subseteq DOMAIN new
      BY DEF ChatConv, CallFields, new
    <3>2. /\ Listed(Plus(s0.calls, new)) /\ Len(Plus(s0.calls, new)) = Len(s0.calls) + 1
          /\ Plus(s0.calls, new)[Len(s0.calls) + 1] = new
          /\ \A j \in 1..Len(s0.calls) : Plus(s0.calls, new)[j] = s0.calls[j]
      BY <3>1, ListedAppend DEF Plus, CallsFit
    <3>3. CallsFit(Plus(s0.calls, new))
      BY <1>1, <3>1, <3>2 DEF CallsFit
    <3> QED
      BY <1>1, <2>2, <3>2, <3>3
  <2> QED
    BY Zenon, <2>1, <2>2
<1>3. added.calls = grown /\ DOMAIN added = DOMAIN s0 /\ \A f \in DOMAIN s0 : f # "calls" => added[f] = s0[f]
  BY DEF ChatConv, Plus
<1> HIDE DEF added, grown
<1> DEFINE c == grown[key]
           e == [[c EXCEPT !.id = IF @ = None THEN tc.id ELSE @] EXCEPT !.name = @ \/ tc.name]
           d == [grown EXCEPT ![key] = e]
<1>4. DOMAIN s = DOMAIN s0 /\ \A f \in DOMAIN s0 : f \notin {"calls", "ids", "keys"} => s[f] = s0[f]
  BY Zenon, <1>3 DEF ChatConv
<1>5. /\ s.keys = Chat!Merge([x \in {tc.index} |-> key], s0.keys)
      /\ s.ids = IF tc.id = None THEN s0.ids ELSE Chat!Merge([x \in {tc.id} |-> key], s0.ids)
  BY <1>3 DEF ChatConv
<1>6. s.calls = d
  <2>1. s.calls = [[grown EXCEPT ![key].id = IF @ = None THEN tc.id ELSE @] EXCEPT ![key].name = @ \/ tc.name]
    BY <1>3 DEF ChatConv
  <2>2. key \in DOMAIN grown
    BY <1>2, ListedLen DEF CallsFit
  <2> HIDE DEF key
  <2> QED
    BY Zenon, <2>1, <2>2
<1>7. DOMAIN e = DOMAIN c /\ e.block = c.block
  BY <1>2 DEF CallsFit, CallFields
<1> HIDE DEF key, s, e
<1>8. CallsFit(d) /\ Len(d) = Len(grown) /\ d[key] = e /\ \A i \in 1..Len(grown) : i # key => d[i] = grown[i]
  BY <1>2, <1>7, CallChanges
<1> HIDE DEF d
<1>9. Len(grown) \in Nat
  BY <1>2, ListedLen DEF CallsFit
<1>10. \A j \in 1..Len(s0.calls) : j \in 1..Len(d) /\ d[j].block = s0.calls[j].block
  BY <1>1, <1>2, <1>7, <1>8, <1>9
<1>11. /\ \A x \in DOMAIN s.keys : s.keys[x] \in 1..Len(d)
       /\ \A x \in DOMAIN s.ids : s.ids[x] \in 1..Len(d)
  <2>1. /\ \A x \in DOMAIN s0.keys : s0.keys[x] \in 1..Len(d)
        /\ \A x \in DOMAIN s0.ids : s0.ids[x] \in 1..Len(d)
    BY <1>10 DEF ChatConv
  <2>2. key \in 1..Len(d)
    BY <1>2, <1>8
  <2> QED
    BY Zenon, <1>5, <2>1, <2>2, Remembered
<1>12. ChatConv(s)
  <2>1. /\ s.live = s0.live /\ s.open = s0.open /\ s.kind = s0.kind /\ s.index = s0.index /\ s.deferred = s0.deferred
    BY <1>4 DEF ChatConv
  <2>2. s.live \in 0..Len(d) /\ (s.live # 0 => s.live \in 1..Len(s0.calls))
    BY <1>1, <1>2, <1>8, <1>9, <2>1 DEF ChatConv
  <2>3. s.live # 0 => s.open = TRUE /\ s.kind = "tool" /\ s.calls[s.live].block = s.index - 1
    BY <1>6, <1>10, <2>1, <2>2 DEF ChatConv
  <2> QED
    BY <1>4, <1>6, <1>8, <1>11, <2>1, <2>2, <2>3 DEF ChatConv
<1> QED
  BY Zenon, <1>2, <1>4, <1>6, <1>8, <1>12 DEF s, key, added, found

\* A fragment of a call, and a piece of text, leave the converter so.
LEMMA FragmentKeeps ==
  ASSUME NEW b, NEW p, NEW s0, NEW tc, Wrote(b, p, s0), ChatConv(s0)
  PROVE  Wrote(b, p, Chat!HandleToolDelta(s0, tc)) /\ ChatConv(Chat!HandleToolDelta(s0, tc))
<1> DEFINE found == Chat!FindCall(s0, tc)
           key == IF found = 0 THEN Len(s0.calls) + 1 ELSE found
           added == IF found # 0 THEN s0
                    ELSE [s0 EXCEPT !.calls = Append(@, [id |-> None, name |-> FALSE, args |-> <<>>, block |-> None])]
           s == [added EXCEPT !.keys = Chat!Merge([x \in {tc.index} |-> key], @),
                              !.ids = IF tc.id = None THEN @ ELSE Chat!Merge([x \in {tc.id} |-> key], @),
                              !.calls[key].id = IF @ = None THEN tc.id ELSE @,
                              !.calls[key].name = @ \/ tc.name]
           opens == /\ key = 1 /\ s.live = 0 /\ s.calls[key].block = None /\ s.calls[key].name
                    /\ s.calls[key].id # None \/ s.calls[key].args # <<>> \/ tc.args # <<>>
           live == IF tc.args = <<>> THEN s ELSE Chat!Yield(s, <<Chat!Delta(s.calls[key].block, "json", tc.args)>>)
           held == [s EXCEPT !.calls[key].args = @ \o tc.args]
           o == [Chat!Flush(Chat!OpenToolBlock(s, key), key) EXCEPT !.live = key]
           first == IF tc.args = <<>> THEN o ELSE Chat!Yield(o, <<Chat!Delta(Chat!Current(o), "json", tc.args)>>)
<1>1. Chat!HandleToolDelta(s0, tc) = IF key = s.live THEN live ELSE IF ~ opens THEN held ELSE first
  BY Zenon DEF Chat!HandleToolDelta
<1>2. /\ key \in 1..Len(s.calls) /\ ChatConv(s) /\ DOMAIN s = DOMAIN s0
      /\ \A f \in DOMAIN s0 : f \notin {"calls", "ids", "keys"} => s[f] = s0[f]
  BY Zenon, FragmentFound
<1> HIDE DEF key, s
<1>3. Wrote(b, p, s)
  BY <1>2, Unwritten DEF Wrote, Writer
<1>4. ChatConv(s) /\ Len(s.calls) \in Nat /\ CallsFit(s.calls)
  BY <1>2, ListedLen DEF ChatConv, CallsFit
<1> HIDE DEF opens
<1> DEFINE json == "json"
           args == tc.args
<1>5. CASE key = s.live
  <2>1. s.open = TRUE /\ s.kind = "tool" /\ s.calls[key].block = s.index - 1
    BY <1>2, <1>4, <1>5 DEF ChatConv
  <2>2. CASE args = <<>>
    BY <1>1, <1>3, <1>4, <1>5, <2>2
  <2>3. CASE args # <<>>
    <3> DEFINE y == Chat!Yield(s, <<Chat!Delta(Chat!Current(s), json, args)>>)
    <3>1. live = y
      BY <2>1, <2>3 DEF Chat!Current
    <3>2. json \in Chat!Blocks!Fits[s.kind]
      BY <2>1 DEF Chat!Blocks!Fits
    <3> HIDE DEF json, args
    <3>3. Wrote(b, p, y) /\ DOMAIN y = DOMAIN s /\ \A f \in DOMAIN s : f # "out" => y[f] = s[f]
      BY <1>3, <2>1, <3>2, DeltaWrites
    <3> HIDE DEF y
    <3>4. ChatConv(y)
      BY <1>4, <3>3 DEF ChatConv
    <3> QED
      BY <1>1, <1>5, <3>1, <3>3, <3>4
  <2> QED
    BY <2>2, <2>3
<1>6. CASE key # s.live /\ ~ opens
  <2> DEFINE e == [s.calls[key] EXCEPT !.args = @ \o tc.args]
             d == [s.calls EXCEPT ![key] = e]
  <2>1. DOMAIN held = DOMAIN s /\ held.calls = d /\ \A f \in DOMAIN s : f # "calls" => held[f] = s[f]
    BY <1>4 DEF ChatConv
  <2>2. DOMAIN e = DOMAIN s.calls[key] /\ e.block = s.calls[key].block
    BY <1>2, <1>4 DEF CallsFit, CallFields
  <2> HIDE DEF e, held
  <2>3. CallsFit(d) /\ Len(d) = Len(s.calls) /\ d[key] = e /\ \A i \in 1..Len(s.calls) : i # key => d[i] = s.calls[i]
    BY <1>2, <1>4, <2>2, CallChanges
  <2> HIDE DEF d
  <2>4. /\ held.index = s.index /\ held.kind = s.kind /\ held.open = s.open /\ held.out = s.out
        /\ held.live = s.live /\ held.deferred = s.deferred /\ held.ids = s.ids /\ held.keys = s.keys
    BY <1>4, <2>1 DEF ChatConv
  <2>5. Wrote(b, p, held)
    BY <1>3, <2>1, <2>4, Unwritten
  <2>6. s.live # 0 => s.live \in 1..Len(s.calls)
    BY <1>4 DEF ChatConv
  <2>7. ChatConv(held)
    BY <1>4, <1>6, <2>1, <2>3, <2>4, <2>6 DEF ChatConv
  <2> QED
    BY <1>1, <1>6, <2>5, <2>7
<1>7. CASE key # s.live /\ opens
  <2> DEFINE t == Chat!OpenToolBlock(s, key)
             u == Chat!Flush(t, key)
  <2>1. /\ Wrote(b, p, t) /\ t.open = TRUE /\ t.kind = "tool" /\ t.index = s.index + 1
        /\ CallsFit(t.calls) /\ Len(t.calls) = Len(s.calls) /\ t.calls[key].block = t.index - 1
        /\ DOMAIN t = DOMAIN s
        /\ \A f \in DOMAIN s : f \notin {"index", "kind", "open", "cited", "out", "calls"} => t[f] = s[f]
    <3>1. ToolOpened(b, p, s, key, t)
      BY <1>2, <1>3, <1>4, ToolOpens
    <3> HIDE DEF t
    <3> QED
      BY <3>1 DEF ToolOpened
  <2> HIDE DEF t
  <2>2. key \in 1..Len(t.calls)
    BY <1>2, <2>1
  <2>3. /\ Wrote(b, p, u) /\ u.open = TRUE /\ u.kind = "tool" /\ u.index = t.index
        /\ CallsFit(u.calls) /\ Len(u.calls) = Len(t.calls) /\ u.calls[key].block = t.calls[key].block
        /\ DOMAIN u = DOMAIN t
        /\ \A f \in DOMAIN t : f \notin {"out", "calls"} => u[f] = t[f]
    <3>1. Flushed(b, p, t, key, u)
      BY Zenon, <2>1, <2>2, FlushWrites
    <3> HIDE DEF u
    <3> QED
      BY <3>1 DEF Flushed
  <2>4. o = [u EXCEPT !.live = key]
    BY DEF t
  <2> HIDE DEF u, o
  <2>5. /\ DOMAIN o = DOMAIN s /\ o.live = key /\ o.open = TRUE /\ o.kind = "tool" /\ o.calls = u.calls
        /\ o.index = u.index /\ o.out = u.out /\ o.deferred = s.deferred /\ o.ids = s.ids /\ o.keys = s.keys
    BY Zenon, <1>4, <2>1, <2>3, <2>4 DEF ChatConv
  <2>6. Wrote(b, p, o)
    BY Zenon, <2>1, <2>3, <2>5, Unwritten
  <2>7. ChatConv(o)
    BY <1>2, <1>4, <2>1, <2>3, <2>5 DEF ChatConv
  <2>8. CASE args = <<>>
    BY <1>1, <1>7, <2>6, <2>7, <2>8
  <2>9. CASE args # <<>>
    <3> DEFINE y == Chat!Yield(o, <<Chat!Delta(Chat!Current(o), json, args)>>)
    <3>1. first = y
      BY <2>9
    <3>2. json \in Chat!Blocks!Fits[o.kind]
      BY <2>5 DEF Chat!Blocks!Fits
    <3> HIDE DEF json, args
    <3>3. Wrote(b, p, y) /\ DOMAIN y = DOMAIN o /\ \A f \in DOMAIN o : f # "out" => y[f] = o[f]
      BY <2>5, <2>6, <3>2, DeltaWrites
    <3> HIDE DEF y
    <3>4. ChatConv(y)
      BY <2>7, <3>3 DEF ChatConv
    <3> QED
      BY <1>1, <1>7, <3>1, <3>3, <3>4
  <2> QED
    BY <2>8, <2>9
<1> QED
  BY <1>5, <1>6, <1>7

LEMMA ContentKeeps ==
  ASSUME NEW b, NEW p, NEW s, NEW kind \in TextKinds, NEW piece, Wrote(b, p, s), ChatConv(s)
  PROVE  Wrote(b, p, Chat!EmitContent(s, kind, piece)) /\ ChatConv(Chat!EmitContent(s, kind, piece))
<1> DEFINE r == Chat!EmitContent(s, kind, piece)
           w == <<kind, piece>>
<1>1. /\ Wrote(b, p, r) /\ DOMAIN r = DOMAIN s
      /\ \A f \in DOMAIN s : f \notin {"index", "kind", "open", "cited", "out", "deferred"} => r[f] = s[f]
      /\ s.live # 0 => r.index = s.index /\ r.kind = s.kind /\ r.open = s.open /\ r.deferred = Append(s.deferred, w)
      /\ s.live = 0 => r.deferred = s.deferred
  BY ContentWrites
<1>2. w[1] \in TextKinds
  OBVIOUS
<1> HIDE DEF r, w
<1>3. r.live = s.live /\ r.calls = s.calls /\ r.ids = s.ids /\ r.keys = s.keys
  BY <1>1 DEF ChatConv
<1>4. Waiting(r.deferred)
  <2>1. CASE s.live = 0
    BY <1>1, <2>1 DEF ChatConv
  <2>2. CASE s.live # 0
    <3> DEFINE q == s.deferred
    <3>1. Listed(q) /\ \A j \in 1..Len(q) : q[j][1] \in TextKinds
      BY DEF ChatConv, Waiting
    <3> HIDE DEF q
    <3>2. /\ Listed(Append(q, w)) /\ Len(Append(q, w)) = Len(q) + 1 /\ Len(q) \in Nat
          /\ Append(q, w)[Len(q) + 1] = w /\ \A j \in 1..Len(q) : Append(q, w)[j] = q[j]
      BY <3>1, ListedAppend, ListedLen
    <3>3. Waiting(Append(q, w))
      BY <1>2, <3>1, <3>2 DEF Waiting
    <3> QED
      BY Zenon, <1>1, <2>2, <3>3 DEF q
  <2> QED
    BY <2>1, <2>2
<1>5. ChatConv(r)
  BY <1>1, <1>3, <1>4 DEF ChatConv
<1> QED
  BY <1>1, <1>5 DEF r

\* What ends a message keeps: no call is live, so many calls, and what waits.
Closing(b, p, n, q, s) ==
  Wrote(b, p, s) /\ CallsFit(s.calls) /\ Len(s.calls) = n /\ s.live = 0 /\ s.deferred = q

LEMMA BufferedKeeps ==
  ASSUME NEW b, NEW p, NEW n, NEW q, NEW s, Closing(b, p, n, q, s), NEW key \in 1..n
  PROVE  Closing(b, p, n, q, Chat!EmitBuffered(s, key))
<1>1. CASE s.calls[key].block # None \/ ~s.calls[key].name
  BY <1>1 DEF Chat!EmitBuffered
<1>2. CASE ~ (s.calls[key].block # None \/ ~s.calls[key].name)
  <2> DEFINE t == Chat!OpenToolBlock(s, key)
             u == Chat!Flush(t, key)
             r == Chat!CloseBlock(u)
  <2>1. ToolOpened(b, p, s, key, t)
    BY ToolOpens DEF Closing
  <2> HIDE DEF t
  <2>2. /\ Wrote(b, p, t) /\ CallsFit(t.calls) /\ Len(t.calls) = n /\ t.open = TRUE /\ t.kind = "tool"
        /\ t.live = 0 /\ t.deferred = q
    BY <2>1 DEF ToolOpened, Closing, Wrote, Writer
  <2>3. Flushed(b, p, t, key, u)
    BY Zenon, <2>2, FlushWrites
  <2> HIDE DEF u
  <2>4. Closing(b, p, n, q, u)
    BY <2>2, <2>3 DEF Flushed, Closing, Wrote, Writer
  <2>5. Wrote(b, p, r) /\ Kept(u, r)
    BY Zenon, <2>4, CloseWrites DEF Closing
  <2>6. Chat!EmitBuffered(s, key) = r
    BY <1>2 DEF Chat!EmitBuffered, t, u
  <2> HIDE DEF r
  <2>7. Closing(b, p, n, q, r)
    BY <2>4, <2>5 DEF Closing, Kept, Wrote, Writer
  <2> QED
    BY <2>6, <2>7
<1> QED
  BY <1>1, <1>2

LEMMA BufferedKept ==
  ASSUME NEW b, NEW p, NEW n, NEW q, NEW s, Closing(b, p, n, q, s)
  PROVE  Closing(b, p, n, q, Buffered(s, [key \in DOMAIN s.calls |-> key]))
<1> DEFINE seq == [key \in DOMAIN s.calls |-> key]
           end == Buffered(s, seq)
<1>1. n \in Nat /\ DOMAIN s.calls = 1..n
  BY ListedLen DEF Closing, CallsFit
<1>2. DOMAIN seq = 1..n /\ \A j \in 1..n : seq[j] = j
  BY <1>1
<1> HIDE DEF seq
<1>0. end = Buffered(s, seq)
  BY DEF seq
<1> HIDE DEF end
<1>3. PICK f : f[0] = s /\ f[n] = Buffered(s, seq) /\ \A j \in 1..n : f[j] = Chat!EmitBuffered(f[j - 1], seq[j])
  <2>1. n \in Nat
    BY <1>1
  <2>2. DOMAIN seq = 1..n
    BY <1>2
  <2>3. PICK last : last = Buffered(s, seq)
    OBVIOUS
  <2>4. \E f : f[0] = s /\ f[n] = last /\ \A j \in 1..n : f[j] = Chat!EmitBuffered(f[j - 1], seq[j])
    BY <2>1, <2>2, <2>3, BufferedInTurn
  <2> QED
    BY <2>3, <2>4
<1> DEFINE P == {j \in Nat : j <= n => Closing(b, p, n, q, f[j])}
<1>4. 0 \in P
  BY <1>3
<1>5. ASSUME NEW j \in Nat, j \in P PROVE j + 1 \in P
  <2> SUFFICES ASSUME j + 1 <= n PROVE Closing(b, p, n, q, f[j + 1])
    OBVIOUS
  <2>1. Closing(b, p, n, q, f[j]) /\ j + 1 \in 1..n
    BY <1>1, <1>5
  <2>2. f[j + 1] = Chat!EmitBuffered(f[j], j + 1)
    BY <1>1, <1>2, <1>3, <2>1
  <2> QED
    BY <2>1, <2>2, BufferedKeeps
<1> HIDE DEF P
<1>6. n \in P
  BY Zenon, <1>1, <1>4, <1>5, Induction
<1>7. Closing(b, p, n, q, end)
  BY <1>0, <1>1, <1>3, <1>6 DEF P
<1> QED
  BY <1>7 DEF end, seq

\* So does writing, one after another, the text that waited.
LEMMA WaitingWritten ==
  ASSUME NEW b, NEW p, NEW n, NEW q, NEW s, Closing(b, p, n, q, s), Waiting(q), NEW m, m = Len(q), NEW f,
         f[0] = [s EXCEPT !.deferred = <<>>],
         \A j \in 1..m : f[j] = Chat!EmitContent(f[j - 1], q[j][1], q[j][2])
  PROVE  Closing(b, p, n, <<>>, f[m])
<1> DEFINE base == [s EXCEPT !.deferred = <<>>]
<1>1. m \in Nat /\ DOMAIN q = 1..m /\ \A j \in 1..m : q[j][1] \in TextKinds
  BY ListedLen DEF Waiting
<1>2. Closing(b, p, n, <<>>, base)
  <2>1. /\ DOMAIN base = DOMAIN s /\ base.index = s.index /\ base.kind = s.kind /\ base.open = s.open
        /\ base.out = s.out /\ base.calls = s.calls /\ base.live = s.live /\ base.deferred = <<>>
    BY DEF Closing, Wrote, Writer
  <2> HIDE DEF base
  <2> QED
    BY <2>1, Unwritten DEF Closing
<1> DEFINE P == {j \in Nat : j <= m => Closing(b, p, n, <<>>, f[j])}
<1>4. 0 \in P
  BY <1>2
<1>5. ASSUME NEW j \in Nat, j \in P PROVE j + 1 \in P
  <2> SUFFICES ASSUME j + 1 <= m PROVE Closing(b, p, n, <<>>, f[j + 1])
    OBVIOUS
  <2>1. Closing(b, p, n, <<>>, f[j]) /\ j + 1 \in 1..m /\ (j + 1) - 1 = j
    BY <1>1, <1>5
  <2> DEFINE t == f[j]
             kind == q[j + 1][1]
             piece == q[j + 1][2]
             r == Chat!EmitContent(t, kind, piece)
  <2>2. f[j + 1] = r /\ kind \in TextKinds
    BY <1>1, <2>1
  <2>3. Wrote(b, p, t) /\ t.live = 0
    BY <2>1 DEF Closing
  <2> HIDE DEF t, kind, piece
  <2>4. /\ Wrote(b, p, r) /\ DOMAIN r = DOMAIN t
        /\ \A x \in DOMAIN t : x \notin {"index", "kind", "open", "cited", "out", "deferred"} => r[x] = t[x]
        /\ r.deferred = t.deferred
    BY <2>2, <2>3, ContentWrites
  <2> HIDE DEF r
  <2>5. r.calls = t.calls /\ r.live = t.live
    BY <2>3, <2>4 DEF Wrote, Writer
  <2>6. Closing(b, p, n, <<>>, r)
    BY <2>1, <2>4, <2>5 DEF Closing, t
  <2> QED
    BY <2>2, <2>6
<1> HIDE DEF P
<1>6. m \in P
  BY <1>1, <1>4, <1>5, Induction
<1> QED
  BY <1>1, <1>6 DEF P

LEMMA DeferredKept ==
  ASSUME NEW b, NEW p, NEW n, NEW q, NEW s, Closing(b, p, n, q, s), Waiting(q)
  PROVE  Closing(b, p, n, <<>>, Chat!EmitDeferred(s))
<1> DEFINE base == [s EXCEPT !.deferred = <<>>]
           end == Chat!EmitDeferred(s)
           m == Len(q)
<1>1. m \in Nat /\ DOMAIN q = 1..m
  BY ListedLen DEF Waiting
<1> HIDE DEF m
<1>3. PICK f : f[0] = base /\ f[m] = end /\ \A j \in 1..m : f[j] = Chat!EmitContent(f[j - 1], q[j][1], q[j][2])
  BY <1>1, DeferredInTurn DEF Closing
<1>4. m = Len(q)
  BY DEF m
<1> HIDE DEF end
<1>5. Closing(b, p, n, <<>>, f[m])
  BY <1>3, <1>4, WaitingWritten
<1> QED
  BY <1>3, <1>5 DEF end

\* However the blocks stand, the last is closed, and the message ended.
Finished(v) == Chat!AtLeastOne(Chat!CloseBlock(v))

LEMMA Ended ==
  ASSUME NEW b, NEW p, NEW v, NEW x, Wrote(b, p, v), x.e = "end"
  PROVE  LET u == Finished(v)
         IN  "out" \in DOMAIN u /\ Listed(Cat(p, u.out \o <<x>>)) /\ Sends(b, Cat(p, u.out \o <<x>>))
<1> DEFINE c == Chat!CloseBlock(v)
           u == Chat!AtLeastOne(c)
<1>2. Wrote(b, p, c) /\ c.open = FALSE
  BY Zenon, CloseWrites
<1> HIDE DEF c
<1>3. Wrote(b, p, u) /\ u.open = FALSE
  BY Zenon, <1>2, OneWrites
<1> HIDE DEF u
<1>4. Listed(Cat(p, u.out)) /\ Cat(p, u.out \o <<x>>) = Plus(Cat(p, u.out), x) /\ "out" \in DOMAIN u
  BY <1>3, Yielding DEF Wrote, Writer
<1>5. Goes(b, Cat(p, u.out), u.index, "none")
  BY <1>3 DEF Wrote, At
<1>6. Sends(b, Plus(Cat(p, u.out), x)) /\ Listed(Plus(Cat(p, u.out), x))
  BY <1>5, Ending
<1> QED
  BY <1>4, <1>6 DEF u, c, Finished

\* A stream that ends, ends its message.
LEMMA ChatEnds ==
  ASSUME NEW b, NEW p, NEW s, Wrote(b, p, s), ChatConv(s)
  PROVE  Listed(Cat(p, Chat!StreamEnd(s).out)) /\ Sends(b, Cat(p, Chat!StreamEnd(s).out))
<1> DEFINE c == Chat!CloseBlock(s)
           s1 == IF s.live = 0 THEN s ELSE [c EXCEPT !.live = 0]
           n == Len(s.calls)
           q == s.deferred
<1>1. Closing(b, p, n, q, s1) /\ Waiting(q)
  <2>1. Waiting(q)
    BY DEF ChatConv
  <2>2. CASE s.live = 0
    BY <2>2 DEF ChatConv, Closing
  <2>3. CASE s.live # 0
    <3>1. Wrote(b, p, c) /\ Kept(s, c)
      BY Zenon, CloseWrites
    <3>2. s1 = [c EXCEPT !.live = 0]
      BY <2>3
    <3> HIDE DEF c, s1
    <3>3. /\ DOMAIN s1 = DOMAIN c /\ s1.index = c.index /\ s1.kind = c.kind /\ s1.open = c.open
          /\ s1.out = c.out /\ s1.calls = s.calls /\ s1.live = 0 /\ s1.deferred = s.deferred
      BY <3>1, <3>2 DEF Kept, Wrote, Writer
    <3>4. Wrote(b, p, s1)
      BY <3>1, <3>3, Unwritten
    <3> QED
      BY <2>1, <3>3, <3>4 DEF Closing, ChatConv
  <2> QED
    BY <2>1, <2>2, <2>3
<1> DEFINE t == Buffered(s1, [key \in DOMAIN s1.calls |-> key])
           u == Finished(Chat!EmitDeferred(t))
           tools == \E key \in DOMAIN u.calls : u.calls[key].block # None
           reason == IF tools /\ u.finish \notin {"length", "content_filter"} THEN "tool_use"
                     ELSE CASE u.finish = "length" -> "max_tokens"
                            [] u.finish = "content_filter" -> "refusal"
                            [] OTHER -> "end_turn"
           x == [e |-> "end", reason |-> reason]
<1>2. Chat!StreamEnd(s) = [u EXCEPT !.out = @ \o <<x>>]
  BY DEF Chat!StreamEnd, Chat!Yield, Buffered, Finished
<1> HIDE DEF s1, reason
<1>3. x.e = "end"
  OBVIOUS
<1> HIDE DEF x, n, q
<1>4. Closing(b, p, n, q, t)
  BY <1>1, BufferedKept
<1> HIDE DEF t
<1>5. "out" \in DOMAIN u /\ Listed(Cat(p, u.out \o <<x>>)) /\ Sends(b, Cat(p, u.out \o <<x>>))
  <2>1. Wrote(b, p, Chat!EmitDeferred(t))
    BY <1>1, <1>4, DeferredKept DEF Closing
  <2> QED
    BY <1>3, <2>1, Ended
<1> HIDE DEF u
<1>6. [u EXCEPT !.out = @ \o <<x>>].out = u.out \o <<x>>
  BY <1>5
<1> QED
  BY <1>2, <1>5, <1>6

\* The chat converter between two chunks: what it has open is what the client was sent.
ChatInv ==
  /\ Listed(chatSent)
  /\ chatPhase = "run" =>
       /\ Writer(chatConv) /\ ChatConv(chatConv) /\ chatConv.out = <<>>
       /\ Writing(chatSent, chatConv.index, At(chatConv))
       /\ chatStarted <=> chatSent # <<>>

LEMMA ChatStarts == Chat!Init => ChatInv
<1> SUFFICES ASSUME Chat!Init PROVE ChatInv
  OBVIOUS
<1> DEFINE c == chatConv
<1>0. c = Chat!Merge(Chat!NoBlocks, [ids |-> <<>>, keys |-> <<>>])
  BY DEF Chat!Init, Chat!NewState
<1> HIDE DEF c
<1>1. /\ {"index", "kind", "open", "calls", "live", "deferred", "finish", "cites", "cited", "out", "ids", "keys"} \subseteq DOMAIN c
      /\ c.index = 0 /\ c.open = FALSE /\ c.live = 0
      /\ c.calls = <<>> /\ c.deferred = <<>> /\ c.out = <<>> /\ c.ids = <<>> /\ c.keys = <<>>
  BY <1>0 DEF Chat!Merge, Chat!NoBlocks
<1>2. CallsFit(<<>>) /\ Waiting(<<>>) /\ Listed(<<>>) /\ Len(<<>>) = 0 /\ DOMAIN <<>> = {}
  BY ListedNone DEF CallsFit, Waiting
<1>3. ChatConv(c)
  BY <1>1, <1>2 DEF ChatConv
<1>4. Writer(c)
  BY Zenon, <1>1, <1>2 DEF Writer
<1>5. At(c) = "none"
  BY <1>1 DEF At
<1>6. Writing(<<>>, 0, "none")
  BY <1>2 DEF Writing
<1>7. chatSent = <<>> /\ chatStarted = FALSE
  BY DEF Chat!Init
<1> QED
  BY <1>1, <1>2, <1>3, <1>4, <1>5, <1>6, <1>7 DEF ChatInv, c

\* Before a message's first event comes its start.
LEMMA Preceded ==
  ASSUME NEW sent, NEW first, NEW x, NEW c, x.e = "message", Listed(sent), Writer(c), c.out = <<>>,
         Writing(sent, c.index, At(c)), first = IF sent = <<>> THEN <<x>> ELSE <<>>
  PROVE  Wrote(sent, Cat(sent, first), c)
<1> DEFINE n == c.index
           k == At(c)
<1> HIDE DEF n, k
<1>1. Writing(sent, n, k) /\ Listed(<<>>)
  BY ListedNone DEF n, k
<1>2. CASE sent # <<>>
  <2>1. Goes(sent, sent, n, k)
    BY <1>1, <1>2, SendsItself DEF Goes
  <2>2. Cat(sent, first) = sent /\ Cat(sent, <<>>) = sent
    BY Zenon, <1>1, <1>2, Joining
  <2> QED
    BY <2>1, <2>2 DEF Wrote, n, k
<1>3. CASE sent = <<>>
  <2>1. Goes(<<>>, <<x>>, n, k)
    BY <1>1, <1>3, Beginning
  <2>0. Plus(<<>>, x) = <<x>>
    BY DEF Plus
  <2>2. Cat(<<>>, <<x>>) = Plus(<<>>, x) /\ Plus(<<>>, x) = <<x>> /\ Listed(Plus(<<>>, x))
    BY <1>1, <2>0, Joining
  <2>3. Cat(sent, first) = <<x>> /\ Listed(<<x>>)
    BY <1>3, <2>2
  <2>4. Cat(<<x>>, <<>>) = <<x>>
    BY <1>1, <2>3, Joining
  <2> QED
    BY <1>3, <2>1, <2>3, <2>4 DEF Wrote, n, k
<1> QED
  BY <1>2, <1>3

LEMMA ChatBegun ==
  ASSUME ChatInv, chatPhase = "run"
  PROVE  Wrote(chatSent, Cat(chatSent, Chat!Begun), chatConv)
<1> DEFINE x == [e |-> "message"]
<1>1. x.e = "message"
  OBVIOUS
<1>2. Chat!Begun = IF chatSent = <<>> THEN <<x>> ELSE <<>>
  BY DEF Chat!Begun, ChatInv
<1> HIDE DEF x
<1> QED
  BY <1>1, <1>2, Preceded DEF ChatInv

\* What each step of ChatStream is to show.
ChatSends == ChatInv' /\ [Chat!Blocks!Send]_chatSent

LEMMA ChatSent ==
  ASSUME Listed(chatSent), Listed(chatSent'), Sends(chatSent, chatSent')
  PROVE  [Chat!Blocks!Send]_chatSent
BY SendsIsSend DEF Chat!Blocks!Send, Legal

\* A chunk: its events are sent, and the converter is left without them.
LEMMA ChatChunk ==
  ASSUME NEW s, ChatInv, Wrote(chatSent, Cat(chatSent, Chat!Begun), s), ChatConv(s), Chat!Chunk(s)
  PROVE  ChatSends
<1> DEFINE p == Cat(chatSent, Chat!Begun)
           m == Cat(p, s.out)
           c == [s EXCEPT !.out = <<>>]
<1>1. chatSent' = m /\ chatConv' = c /\ chatStarted' = TRUE
  BY DEF Chat!Chunk, Cat
<1>2. Goes(chatSent, m, s.index, At(s)) /\ Writer(s)
  BY DEF Wrote
<1> HIDE DEF m
<1>3. Listed(chatSent) /\ Listed(m) /\ m # <<>> /\ Sends(chatSent, m) /\ Writing(m, s.index, At(s))
  BY <1>2 DEF Goes
<1>4. DOMAIN c = DOMAIN s /\ c.out = <<>> /\ \A f \in DOMAIN s : f # "out" => c[f] = s[f]
  BY <1>2 DEF Writer
<1> HIDE DEF c
<1>5. Writer(c) /\ At(c) = At(s) /\ c.index = s.index
  BY <1>2, <1>4, ListedNone DEF Writer, At
<1>6. ChatConv(c)
  BY <1>4 DEF ChatConv
<1>7. ChatInv'
  <2>1. Writer(chatConv') /\ ChatConv(chatConv') /\ Writing(chatSent', (chatConv').index, At(chatConv'))
    BY <1>1, <1>3, <1>5, <1>6
  <2> QED
    BY <1>1, <1>3, <1>4, <2>1 DEF ChatInv
<1> QED
  BY <1>1, <1>3, <1>7, ChatSent DEF ChatSends

\* Each action of ChatStream in turn.
LEMMA ChatContent ==
  ASSUME ChatInv, NEW kind \in {"text", "thinking"}, Chat!Content(kind)
  PROVE  ChatSends
<1> DEFINE p == Cat(chatSent, Chat!Begun)
           piece == Len(chatGiven.text) + 1
           s == Chat!EmitContent(chatConv, kind, piece)
<1>1. chatPhase = "run" /\ Chat!Chunk(s)
  BY DEF Chat!Content, Chat!Chunk
<1>2. Wrote(chatSent, p, chatConv) /\ ChatConv(chatConv)
  BY <1>1, ChatBegun DEF ChatInv
<1> HIDE DEF piece, p
<1>3. Wrote(chatSent, p, s) /\ ChatConv(s)
  BY <1>2, ContentKeeps DEF TextKinds
<1> QED
  BY <1>1, <1>3, ChatChunk DEF p

LEMMA ChatToolDelta ==
  ASSUME ChatInv, NEW c \in ToolCalls, Chat!ToolDelta(c)
  PROVE  ChatSends
<1>1. PICK tc : Chat!Chunk(Chat!HandleToolDelta(chatConv, tc))
  BY DEF Chat!ToolDelta
<1> DEFINE p == Cat(chatSent, Chat!Begun)
           s == Chat!HandleToolDelta(chatConv, tc)
<1>2. chatPhase = "run"
  BY <1>1 DEF Chat!Chunk
<1>3. Wrote(chatSent, p, chatConv) /\ ChatConv(chatConv)
  BY <1>2, ChatBegun DEF ChatInv
<1> HIDE DEF p
<1>4. Wrote(chatSent, p, s) /\ ChatConv(s)
  BY <1>3, FragmentKeeps
<1> QED
  BY <1>1, <1>4, ChatChunk DEF p

\* Fields the events do not depend on.
LEMMA ChatNoted ==
  ASSUME ChatInv, NEW s, Chat!Chunk(s), NEW field \in {"cites", "finish"}, DOMAIN s = DOMAIN chatConv,
         \A f \in DOMAIN s : f # field => s[f] = chatConv[f]
  PROVE  ChatSends
<1> DEFINE p == Cat(chatSent, Chat!Begun)
<1>1. chatPhase = "run"
  BY DEF Chat!Chunk
<1>2. Wrote(chatSent, p, chatConv) /\ ChatConv(chatConv)
  BY <1>1, ChatBegun DEF ChatInv
<1> HIDE DEF p
<1>3. /\ s.index = chatConv.index /\ s.kind = chatConv.kind /\ s.open = chatConv.open /\ s.out = chatConv.out
      /\ s.calls = chatConv.calls /\ s.live = chatConv.live /\ s.deferred = chatConv.deferred
      /\ s.ids = chatConv.ids /\ s.keys = chatConv.keys
  BY <1>2 DEF ChatConv
<1>4. ChatConv(s)
  BY <1>2, <1>3 DEF ChatConv
<1>5. Wrote(chatSent, p, s)
  BY <1>2, <1>3, Unwritten
<1> QED
  BY <1>4, <1>5, ChatChunk DEF p

LEMMA ChatNotes ==
  ASSUME ChatInv, Chat!Annotations \/ \E reason \in {"stop", "length", "content_filter"} : Chat!FinishReason(reason)
  PROVE  ChatSends
<1>1. CASE Chat!Annotations
  <2> DEFINE s == [chatConv EXCEPT !.cites = TRUE]
  <2>1. Chat!Chunk(s) /\ DOMAIN s = DOMAIN chatConv /\ \A f \in DOMAIN s : f # "cites" => s[f] = chatConv[f]
    BY <1>1 DEF Chat!Annotations
  <2> HIDE DEF s
  <2> QED
    BY <2>1, ChatNoted
<1>2. ASSUME NEW reason, Chat!FinishReason(reason) PROVE ChatSends
  <2> DEFINE s == [chatConv EXCEPT !.finish = reason]
  <2>1. Chat!Chunk(s) /\ DOMAIN s = DOMAIN chatConv /\ \A f \in DOMAIN s : f # "finish" => s[f] = chatConv[f]
    BY <1>2 DEF Chat!FinishReason
  <2> HIDE DEF s
  <2> QED
    BY <2>1, ChatNoted
<1> QED
  BY <1>1, <1>2

LEMMA ChatDone ==
  ASSUME ChatInv, Chat!Done
  PROVE  ChatSends
<1> DEFINE p == Cat(chatSent, Chat!Begun)
           r == Chat!StreamEnd(chatConv)
<1>1. chatPhase = "run" /\ chatSent' = Cat(p, r.out) /\ chatPhase' = "ended"
  BY DEF Chat!Done, Cat
<1>2. Wrote(chatSent, p, chatConv) /\ ChatConv(chatConv) /\ Listed(chatSent)
  BY <1>1, ChatBegun DEF ChatInv
<1> HIDE DEF p
<1>3. Listed(Cat(p, r.out)) /\ Sends(chatSent, Cat(p, r.out))
  BY <1>2, ChatEnds
<1> QED
  BY <1>1, <1>2, <1>3, ChatSent DEF ChatSends, ChatInv

LEMMA ChatErrorChunk ==
  ASSUME ChatInv, Chat!ErrorChunk
  PROVE  ChatSends
<1> DEFINE p == Cat(chatSent, Chat!Begun)
           x == [e |-> "error"]
<1>1. chatPhase = "run" /\ chatSent' = Cat(p, <<x>>) /\ chatPhase' = "failed" /\ x.e = "error"
  BY DEF Chat!ErrorChunk, Cat
<1>2. Wrote(chatSent, p, chatConv) /\ Listed(chatSent) /\ chatConv.out = <<>>
  BY <1>1, ChatBegun DEF ChatInv
<1> HIDE DEF p, x
<1>3. Listed(p) /\ Cat(p, <<>>) = p /\ Cat(p, <<x>>) = Plus(p, x)
  <2>1. Listed(p) /\ Listed(<<>>)
    BY <1>2, ListedNone DEF Wrote
  <2>2. p \o <<>> = p /\ p \o <<x>> = Append(p, x)
    BY <2>1 DEF Listed
  <2> QED
    BY <2>1, <2>2 DEF Cat, Plus
<1>4. Goes(chatSent, p, chatConv.index, At(chatConv))
  BY <1>2, <1>3 DEF Wrote
<1>5. Sends(chatSent, Plus(p, x)) /\ Listed(Plus(p, x))
  BY <1>1, <1>4, Ending
<1> QED
  BY <1>1, <1>2, <1>3, <1>5, ChatSent DEF ChatSends, ChatInv

LEMMA ChatQuiet ==
  ASSUME ChatInv, Chat!Retry \/ Chat!Abort
  PROVE  ChatSends
<1>1. /\ chatSent' = chatSent /\ chatConv' = chatConv /\ chatStarted' = chatStarted
      /\ chatPhase = "run" /\ chatPhase' \in {"run", "raised", "left"}
  BY DEF Chat!Retry, Chat!Abort
<1>2. ChatInv'
  <2>1. /\ Listed(chatSent) /\ Writer(chatConv) /\ ChatConv(chatConv) /\ chatConv.out = <<>>
        /\ Writing(chatSent, chatConv.index, At(chatConv)) /\ (chatStarted <=> chatSent # <<>>)
    BY <1>1 DEF ChatInv
  <2>2. /\ Listed(chatSent') /\ Writer(chatConv') /\ ChatConv(chatConv') /\ (chatConv').out = <<>>
        /\ Writing(chatSent', (chatConv').index, At(chatConv')) /\ (chatStarted' <=> chatSent' # <<>>)
    BY <1>1, <2>1
  <2> QED
    BY <2>2 DEF ChatInv
<1> QED
  BY <1>1, <1>2 DEF ChatSends

LEMMA ChatStep == ChatInv /\ Chat!Next => ChatSends
BY ChatContent, ChatNotes, ChatToolDelta, ChatDone, ChatErrorChunk, ChatQuiet DEF Chat!Next

LEMMA ChatStill == ChatInv /\ UNCHANGED chat => ChatSends
<1> SUFFICES ASSUME ChatInv, UNCHANGED chat PROVE ChatSends
  OBVIOUS
<1>1. chatSent' = chatSent /\ chatConv' = chatConv /\ chatStarted' = chatStarted /\ chatPhase' = chatPhase
  BY DEF chat
<1>2. ChatInv'
  BY <1>1 DEF ChatInv, Writer, ChatConv, Writing, At
<1> QED
  BY <1>1, <1>2 DEF ChatSends

-----------------------------------------------------------------------------
(***************************************************************************)
(* ResponsesStream.  A fragment may name no call while there is only one:  *)
(* what the upstream has mentioned and what the converter keeps are linked.*)
(***************************************************************************)
\* The Responses converter writes its blocks as the chat converter does.
LEMMA SameClose == ASSUME NEW s PROVE Resp!CloseBlock(s) = Chat!CloseBlock(s)
BY DEF Resp!CloseBlock, Chat!CloseBlock, Resp!Yield, Chat!Yield, Resp!Stop, Chat!Stop, Resp!Delta, Chat!Delta,
       Resp!Current, Chat!Current

LEMMA SameOpen == ASSUME NEW s, NEW k, NEW id PROVE Resp!OpenBlock(s, k, id) = Chat!OpenBlock(s, k, id)
BY Zenon, SameClose DEF Resp!OpenBlock, Chat!OpenBlock, Resp!Yield, Chat!Yield, Resp!Start, Chat!Start

LEMMA SameContent == ASSUME NEW s, NEW k, NEW x PROVE Resp!EmitContent(s, k, x) = Chat!EmitContent(s, k, x)
BY Zenon, SameOpen DEF Resp!EmitContent, Chat!EmitContent, Resp!Yield, Chat!Yield, Resp!Delta, Chat!Delta,
                Resp!Current, Chat!Current

LEMMA SameToolBlock == ASSUME NEW s, NEW key PROVE Resp!OpenToolBlock(s, key) = Chat!OpenToolBlock(s, key)
BY SameOpen DEF Resp!OpenToolBlock, Chat!OpenToolBlock, Resp!Current, Chat!Current

LEMMA SameFinish == ASSUME NEW v PROVE Resp!AtLeastOne(Resp!CloseBlock(v)) = Finished(v)
BY SameClose, SameOpen DEF Finished, Resp!AtLeastOne, Chat!AtLeastOne

LEMMA SameLegal == ASSUME NEW l, NEW x PROVE Resp!Blocks!Legal(l, x) <=> Chat!Blocks!Legal(l, x)
BY DEF Resp!Blocks!Legal, Chat!Blocks!Legal, Resp!Blocks!Over, Chat!Blocks!Over, Resp!Blocks!Open, Chat!Blocks!Open,
       Resp!Blocks!Starts, Chat!Blocks!Starts, Resp!Blocks!Fits, Chat!Blocks!Fits

\* The least of some positions is one of them.
LEMMA Least ==
  ASSUME NEW S \in SUBSET Nat, S # {}
  PROVE  Resp!Min(S) \in S
<1> SUFFICES ASSUME ~ \E x \in S : \A y \in S : x <= y PROVE FALSE
  BY Zenon DEF Resp!Min
<1> DEFINE P == {n \in Nat : \A m \in 0..n : m \notin S}
<1>1. 0 \in P
  OBVIOUS
<1>2. ASSUME NEW n \in Nat, n \in P PROVE n + 1 \in P
  <2>1. n + 1 \notin S
    BY <1>2
  <2> QED
    BY <1>2, <2>1
<1>3. \A n \in Nat : n \in P
  <2> HIDE DEF P
  <2> QED
    BY <1>1, <1>2, Induction
<1>4. PICK x \in S : x \in Nat
  BY Zenon
<1>5. x \in 0..x
  BY <1>4
<1> QED
  BY <1>3, <1>4, <1>5

\* The Responses converter: only the first call is ever live.
RespConv(s) ==
  /\ {"index", "kind", "open", "calls", "live", "deferred", "finish", "cites", "cited", "out",
      "alias", "refused", "error"} \subseteq DOMAIN s
  /\ CallsFit(s.calls) /\ s.live \in 0..1
  /\ s.live # 0 => s.open = TRUE /\ s.kind = "tool" /\ s.live \in 1..Len(s.calls) /\ s.calls[s.live].block = s.index - 1
  /\ \A j \in 1..Len(s.calls) : s.calls[j].block # None => s.live = j
  /\ Waiting(s.deferred)
  /\ \A x \in DOMAIN s.alias : s.alias[x] \in 1..Len(s.calls)

Good(b, p, s) == Wrote(b, p, s) /\ RespConv(s)
\* From s to r no call and no name of one is added.
Passed(b, p, s, r) == Good(b, p, r) /\ Len(r.calls) = Len(s.calls) /\ r.alias = s.alias

\* Only a call's particulars change.
LEMMA CallNoted ==
  ASSUME NEW b, NEW p, NEW s, Good(b, p, s), NEW key \in 1..Len(s.calls), NEW e, NEW r,
         DOMAIN e = DOMAIN s.calls[key], e.block = s.calls[key].block,
         DOMAIN r = DOMAIN s, r.calls = [s.calls EXCEPT ![key] = e], \A f \in DOMAIN s : f # "calls" => r[f] = s[f]
  PROVE  Passed(b, p, s, r) /\ r.calls[key].block = s.calls[key].block /\ r.live = s.live
<1> DEFINE d == [s.calls EXCEPT ![key] = e]
<1>1. CallsFit(s.calls)
  BY DEF Good, RespConv
<1>2. CallsFit(d) /\ Len(d) = Len(s.calls) /\ d[key] = e /\ \A i \in 1..Len(s.calls) : i # key => d[i] = s.calls[i]
  BY <1>1, CallChanges
<1>3. r.calls = d
  OBVIOUS
<1> HIDE DEF d
<1>4. /\ r.index = s.index /\ r.kind = s.kind /\ r.open = s.open /\ r.out = s.out /\ r.live = s.live
      /\ r.deferred = s.deferred /\ r.alias = s.alias
  BY DEF Good, RespConv
<1>5. Wrote(b, p, r)
  BY <1>4, Unwritten DEF Good
<1>6. \A j \in 1..Len(s.calls) : d[j].block = s.calls[j].block
  BY <1>2
<1>7. RespConv(r)
  BY <1>2, <1>3, <1>4, <1>6 DEF Good, RespConv
<1> QED
  BY <1>2, <1>3, <1>4, <1>5, <1>6, <1>7 DEF Passed, Good

\* What an event says of a call besides its arguments.
LEMMA Identified ==
  ASSUME NEW b, NEW p, NEW s, Good(b, p, s), NEW key \in 1..Len(s.calls), NEW item
  PROVE  Passed(b, p, s, Resp!Identify(s, key, item))
<1> DEFINE r == Resp!Identify(s, key, item)
           c == s.calls[key]
           e == [[c EXCEPT !.id = IF c.block # None THEN @ ELSE IF item.call # None THEN item.call
                                  ELSE IF @ # None THEN @ ELSE item.id] EXCEPT !.name = @ \/ item.name]
<1>1. DOMAIN e = DOMAIN c /\ e.block = c.block /\ key \in DOMAIN s.calls
  BY ListedLen DEF Good, RespConv, CallsFit, CallFields
<1>2. DOMAIN r = DOMAIN s /\ r.calls = [s.calls EXCEPT ![key] = e] /\ \A f \in DOMAIN s : f # "calls" => r[f] = s[f]
  <2> DEFINE d == [s EXCEPT !.calls[key].id = IF s.calls[key].block # None THEN @ ELSE IF item.call # None THEN item.call
                                              ELSE IF @ # None THEN @ ELSE item.id]
  <2>1. "calls" \in DOMAIN s
    BY DEF Good, RespConv
  <2>2. r = [d EXCEPT !.calls[key].name = @ \/ item.name]
    BY Zenon DEF Resp!Identify
  <2>3. /\ DOMAIN d = DOMAIN s /\ (\A f \in DOMAIN s : f # "calls" => d[f] = s[f])
        /\ d.calls = [s.calls EXCEPT ![key] = [c EXCEPT !.id = IF c.block # None THEN @ ELSE IF item.call # None THEN item.call
                                                               ELSE IF @ # None THEN @ ELSE item.id]]
    BY <2>1
  <2> HIDE DEF d, r
  <2>4. /\ DOMAIN r = DOMAIN d /\ (\A f \in DOMAIN d : f # "calls" => r[f] = d[f])
        /\ r.calls = [d.calls EXCEPT ![key] = [d.calls[key] EXCEPT !.name = @ \/ item.name]]
    BY <2>1, <2>2, <2>3
  <2> DEFINE a == [c EXCEPT !.id = IF c.block # None THEN @ ELSE IF item.call # None THEN item.call
                                   ELSE IF @ # None THEN @ ELSE item.id]
  <2>5. e = [a EXCEPT !.name = @ \/ item.name]
    OBVIOUS
  <2>6. d.calls = [s.calls EXCEPT ![key] = a]
    BY <2>3
  <2> HIDE DEF a, e
  <2>7. d.calls[key] = a
    BY <1>1, <2>6
  <2>8. r.calls = [d.calls EXCEPT ![key] = e]
    BY <2>4, <2>5, <2>7
  <2>9. r.calls = [s.calls EXCEPT ![key] = e]
    BY <2>6, <2>8
  <2> QED
    BY <2>3, <2>4, <2>9
<1> HIDE DEF r, e
<1>3. Passed(b, p, s, r)
  BY <1>1, <1>2, CallNoted
<1> QED
  BY <1>3 DEF r

\* What an event says of a call's arguments.
Given(s, key, args) == [s EXCEPT !.calls[key].args = args]

LEMMA ArgumentsNoted ==
  ASSUME NEW b, NEW p, NEW s, Good(b, p, s), NEW key \in 1..Len(s.calls), NEW args
  PROVE  LET r == Given(s, key, args)
         IN  Passed(b, p, s, r) /\ r.calls[key].block = s.calls[key].block /\ r.live = s.live
<1> DEFINE r == [s EXCEPT !.calls[key].args = args]
           e == [s.calls[key] EXCEPT !.args = args]
<1>1. DOMAIN e = DOMAIN s.calls[key] /\ e.block = s.calls[key].block
  BY DEF Good, RespConv, CallsFit, CallFields
<1>2. DOMAIN r = DOMAIN s /\ r.calls = [s.calls EXCEPT ![key] = e] /\ \A f \in DOMAIN s : f # "calls" => r[f] = s[f]
  BY DEF Good, RespConv
<1> HIDE DEF r, e
<1>3. Passed(b, p, s, r) /\ r.calls[key].block = s.calls[key].block /\ r.live = s.live
  BY <1>1, <1>2, CallNoted
<1> QED
  BY <1>3 DEF r, Given

\* That no more of them comes.
LEMMA DoneNoted ==
  ASSUME NEW b, NEW p, NEW s, Good(b, p, s), NEW key \in 1..Len(s.calls)
  PROVE  Passed(b, p, s, [s EXCEPT !.calls[key].done = TRUE])
<1> DEFINE r == [s EXCEPT !.calls[key].done = TRUE]
           e == [s.calls[key] EXCEPT !.done = TRUE]
<1>1. DOMAIN e = DOMAIN s.calls[key] /\ e.block = s.calls[key].block
  BY DEF Good, RespConv, CallsFit, CallFields
<1>2. DOMAIN r = DOMAIN s /\ r.calls = [s.calls EXCEPT ![key] = e] /\ \A f \in DOMAIN s : f # "calls" => r[f] = s[f]
  BY DEF Good, RespConv
<1> HIDE DEF r, e
<1>3. Passed(b, p, s, r)
  BY <1>1, <1>2, CallNoted
<1> QED
  BY <1>3 DEF r

\* A failure is remembered; nothing is written.
LEMMA FailNoted ==
  ASSUME NEW b, NEW p, NEW s, Good(b, p, s)
  PROVE  Passed(b, p, s, Resp!Fail(s))
<1> DEFINE r == Resp!Fail(s)
<1>1. DOMAIN r = DOMAIN s /\ \A f \in DOMAIN s : f \notin {"error", "finish"} => r[f] = s[f]
  BY Zenon DEF Resp!Fail
<1> HIDE DEF r
<1>2. /\ r.index = s.index /\ r.kind = s.kind /\ r.open = s.open /\ r.out = s.out /\ r.live = s.live
      /\ r.deferred = s.deferred /\ r.alias = s.alias /\ r.calls = s.calls
  BY <1>1 DEF Good, RespConv
<1>3. Wrote(b, p, r)
  BY <1>1, <1>2, Unwritten DEF Good
<1>4. RespConv(r)
  BY <1>1, <1>2 DEF Good, RespConv
<1> QED
  BY <1>2, <1>3, <1>4 DEF Passed, Good, r

\* Arguments for the call whose block is open.
WritesCall(s, block) == s.open = TRUE /\ s.kind = "tool" /\ block = s.index - 1
SentFor(s, block, x) == Resp!Yield(s, <<Resp!Delta(block, "json", x)>>)

Sent(b, p, s, r) == Wrote(b, p, r) /\ DOMAIN r = DOMAIN s /\ \A f \in DOMAIN s : f # "out" => r[f] = s[f]

LEMMA ArgumentsSent ==
  ASSUME NEW b, NEW p, NEW s, NEW block, NEW x, Wrote(b, p, s), WritesCall(s, block)
  PROVE  Sent(b, p, s, SentFor(s, block, x))
<1> DEFINE json == "json"
           r == Chat!Yield(s, <<Chat!Delta(Chat!Current(s), json, x)>>)
<1>1. SentFor(s, block, x) = r
  BY DEF SentFor, Resp!Yield, Chat!Yield, Resp!Delta, Chat!Delta, Chat!Current, WritesCall
<1>2. json \in Chat!Blocks!Fits[s.kind] /\ s.open
  BY DEF Chat!Blocks!Fits, WritesCall
<1> HIDE DEF json
<1>3. Wrote(b, p, r) /\ DOMAIN r = DOMAIN s /\ \A f \in DOMAIN s : f # "out" => r[f] = s[f]
  BY <1>2, DeltaWrites
<1> QED
  BY <1>1, <1>3 DEF Sent, json

LEMMA LiveSent ==
  ASSUME NEW b, NEW p, NEW s, Good(b, p, s), NEW key \in 1..Len(s.calls), NEW x, s.calls[key].block # None \/ key = s.live
  PROVE  Passed(b, p, s, SentFor(s, s.calls[key].block, x))
<1> DEFINE block == s.calls[key].block
           r == SentFor(s, block, x)
<1>1. s.live = key /\ s.live # 0 /\ s.open = TRUE /\ s.kind = "tool" /\ block = s.index - 1
  BY DEF Good, RespConv
<1> HIDE DEF block
<1>2. Wrote(b, p, r) /\ DOMAIN r = DOMAIN s /\ \A f \in DOMAIN s : f # "out" => r[f] = s[f]
  <2>1. Wrote(b, p, s) /\ WritesCall(s, block)
    BY <1>1 DEF Good, WritesCall
  <2>2. Sent(b, p, s, r)
    BY <2>1, ArgumentsSent
  <2> QED
    BY <2>2 DEF Sent
<1> HIDE DEF r
<1>3. /\ r.index = s.index /\ r.kind = s.kind /\ r.open = s.open /\ r.live = s.live
      /\ r.deferred = s.deferred /\ r.alias = s.alias /\ r.calls = s.calls
  BY <1>2 DEF Good, RespConv
<1>4. RespConv(r)
  BY <1>2, <1>3 DEF Good, RespConv
<1> QED
  BY <1>2, <1>3, <1>4 DEF Passed, Good, r, block

\* A whole that arrives for a call: noted, continued, or refused.
LEMMA SnapshotApplied ==
  ASSUME NEW b, NEW p, NEW s, Good(b, p, s), NEW key \in 1..Len(s.calls), NEW all
  PROVE  Passed(b, p, s, Resp!ApplySnapshot(s, key, all))
<1> DEFINE received == s.calls[key].args
           rest == SubSeq(all, Len(received) + 1, Len(all))
           t == Given(s, key, all)
           y == SentFor(t, s.calls[key].block, rest)
           r == Resp!ApplySnapshot(s, key, all)
<1>0. Passed(b, p, s, s)
  BY DEF Passed
<1>1. Passed(b, p, s, t) /\ t.calls[key].block = s.calls[key].block
  BY ArgumentsNoted
<1>2. r = s \/ (s.calls[key].block = None /\ r = t) \/ (s.calls[key].block # None /\ r = y) \/ r = Resp!Fail(s)
  BY DEF Resp!ApplySnapshot, Given, SentFor
<1> HIDE DEF rest, t, r
<1>3. CASE s.calls[key].block # None /\ r = y
  <2> DEFINE z == SentFor(t, t.calls[key].block, rest)
  <2>1. Good(b, p, t) /\ key \in 1..Len(t.calls) /\ t.calls[key].block # None
    BY <1>1, <1>3 DEF Passed
  <2>2. y = z
    BY <1>1
  <2>3. Passed(b, p, t, z)
    BY Zenon, <2>1, LiveSent
  <2> QED
    BY <1>1, <1>3, <2>2, <2>3 DEF Passed, r
<1> QED
  BY <1>0, <1>1, <1>2, <1>3, FailNoted DEF r

\* A call's block opens, and what came of its arguments is sent.
CallOpened(b, p, s, key, r) ==
  /\ Wrote(b, p, r) /\ r.open = TRUE /\ r.kind = "tool"
  /\ CallsFit(r.calls) /\ Len(r.calls) = Len(s.calls) /\ r.calls[key].block = r.index - 1
  /\ \A i \in 1..Len(s.calls) : i # key => r.calls[i] = s.calls[i]
  /\ DOMAIN r = DOMAIN s
  /\ \A f \in DOMAIN s : f \notin {"index", "kind", "open", "cited", "out", "calls"} => r[f] = s[f]

LEMMA CallOpens ==
  ASSUME NEW b, NEW p, NEW s, NEW key \in 1..Len(s.calls), Wrote(b, p, s), CallsFit(s.calls)
  PROVE  CallOpened(b, p, s, key, Resp!Arguments(Resp!OpenToolBlock(s, key), key))
<1> DEFINE t == Resp!OpenToolBlock(s, key)
           x == t.calls[key].args
           block == t.calls[key].block
           y == SentFor(t, block, x)
           r == Resp!Arguments(t, key)
<1>1. ToolOpened(b, p, s, key, t)
  BY ToolOpens, SameToolBlock
<1> HIDE DEF t
<1>2. CASE x = <<>>
  <2>1. r = t
    BY <1>2 DEF Resp!Arguments
  <2> QED
    BY <1>1, <2>1 DEF ToolOpened, CallOpened, t
<1>3. CASE x # <<>>
  <2>1. r = y
    BY <1>3 DEF Resp!Arguments, SentFor
  <2>2. Wrote(b, p, t) /\ WritesCall(t, block)
    BY <1>1 DEF ToolOpened, WritesCall
  <2> HIDE DEF x, block, r
  <2>0. Sent(b, p, t, y)
    BY <2>2, ArgumentsSent
  <2> HIDE DEF y
  <2>3. Wrote(b, p, y) /\ DOMAIN y = DOMAIN t /\ \A f \in DOMAIN t : f # "out" => y[f] = t[f]
    BY <2>0 DEF Sent
  <2>4. y.open = t.open /\ y.kind = t.kind /\ y.index = t.index /\ y.calls = t.calls
    BY <2>2, <2>3 DEF Wrote, Writer
  <2>5. \A f \in DOMAIN s : f \notin {"index", "kind", "open", "cited", "out", "calls"} => y[f] = s[f]
    BY <1>1, <2>3 DEF ToolOpened
  <2>6. CallOpened(b, p, s, key, y)
    BY <1>1, <2>3, <2>4, <2>5 DEF ToolOpened, CallOpened
  <2> QED
    BY <2>1, <2>6 DEF r, t
<1> QED
  BY <1>2, <1>3

LEMMA LiveOpened ==
  ASSUME NEW b, NEW p, NEW s, Good(b, p, s)
  PROVE  Passed(b, p, s, Resp!MaybeOpenLive(s))
<1> DEFINE u == Resp!Arguments(Resp!OpenToolBlock(s, 1), 1)
           r == [u EXCEPT !.live = 1]
<1>1. CASE s.live # 0 \/ s.calls = <<>> \/ s.calls[1].block # None \/ ~s.calls[1].name
  <2>1. Resp!MaybeOpenLive(s) = s
    BY <1>1 DEF Resp!MaybeOpenLive
  <2> QED
    BY <2>1 DEF Passed
<1>2. CASE ~ (s.live # 0 \/ s.calls = <<>> \/ s.calls[1].block # None \/ ~s.calls[1].name)
  <2>1. Resp!MaybeOpenLive(s) = r
    BY <1>2 DEF Resp!MaybeOpenLive
  <2>2. CallsFit(s.calls) /\ Wrote(b, p, s) /\ Len(s.calls) \in Nat /\ (s.calls = <<>> <=> Len(s.calls) = 0)
    BY ListedLen DEF Good, RespConv, CallsFit
  <2>3. 1 \in 1..Len(s.calls)
    BY <1>2, <2>2
  <2>4. CallOpened(b, p, s, 1, u)
    BY <2>2, <2>3, CallOpens
  <2>5. \A j \in 1..Len(s.calls) : s.calls[j].block = None
    BY <1>2, <2>2 DEF Good, RespConv
  <2> HIDE DEF u
  <2>6. /\ Wrote(b, p, u) /\ u.open = TRUE /\ u.kind = "tool" /\ CallsFit(u.calls) /\ Len(u.calls) = Len(s.calls)
        /\ u.calls[1].block = u.index - 1 /\ DOMAIN u = DOMAIN s
        /\ u.deferred = s.deferred /\ u.alias = s.alias
        /\ \A j \in 1..Len(s.calls) : j # 1 => u.calls[j].block = None
    BY <2>4, <2>5 DEF CallOpened, Good, RespConv
  <2>7. DOMAIN r = DOMAIN u /\ r.live = 1 /\ \A f \in DOMAIN u : f # "live" => r[f] = u[f]
    BY <2>6 DEF Good, RespConv
  <2> HIDE DEF r
  <2>8. /\ r.index = u.index /\ r.kind = u.kind /\ r.open = u.open /\ r.out = u.out
        /\ r.deferred = u.deferred /\ r.alias = u.alias /\ r.calls = u.calls
    BY <2>6, <2>7 DEF Good, RespConv
  <2>9. Wrote(b, p, r)
    BY <2>6, <2>7, <2>8, Unwritten
  <2>10. RespConv(r)
    BY <2>3, <2>6, <2>7, <2>8 DEF Good, RespConv
  <2> QED
    BY <2>1, <2>6, <2>8, <2>9, <2>10 DEF Passed, Good
<1> QED
  BY <1>1, <1>2

\* Its folds.
CallsBuffered(s, seq) == Resp!FoldLeft(Resp!EmitBuffered, s, seq)

\* The Responses converter does so one after another too: with its buffered calls,
LEMMA CallsInTurn ==
  ASSUME NEW base, NEW n \in Nat, NEW seq, DOMAIN seq = 1..n
  PROVE  \E f : /\ f[0] = base /\ f[n] = CallsBuffered(base, seq)
                /\ \A j \in 1..n : f[j] = Resp!EmitBuffered(f[j - 1], seq[j])
<1> DEFINE Solves(g, m) ==
      g = [s \in SUBSET (1..m) |-> IF s = {} THEN base ELSE Resp!EmitBuffered(g[s \ {Resp!Max(s)}], seq[Resp!Max(s)])]
<1>1. \E g : Solves(g, 0)
  <2>1. SUBSET (1..0) = {{}}
    OBVIOUS
  <2>2. Solves([s \in {{}} |-> base], 0)
    BY <2>1
  <2> QED
    BY Zenon, <2>2
<1>2. ASSUME NEW m \in Nat, \E g : Solves(g, m) PROVE \E g : Solves(g, m + 1)
  <2>1. PICK g : Solves(g, m)
    BY Zenon, <1>2
  <2> DEFINE h == [s \in SUBSET (1..(m + 1)) |-> IF m + 1 \in s THEN Resp!EmitBuffered(g[s \ {m + 1}], seq[m + 1]) ELSE g[s]]
  <2>2. ASSUME NEW s \in SUBSET (1..(m + 1)), m + 1 \in s
        PROVE  h[s] = IF s = {} THEN base ELSE Resp!EmitBuffered(h[s \ {Resp!Max(s)}], seq[Resp!Max(s)])
    <3>1. Resp!Max(s) = m + 1
      BY <2>2, Greatest DEF Resp!Max
    <3>2. s \ {m + 1} \in SUBSET (1..m) /\ s \ {m + 1} \in SUBSET (1..(m + 1)) /\ m + 1 \notin s \ {m + 1}
      OBVIOUS
    <3>3. h[s \ {m + 1}] = g[s \ {m + 1}]
      BY <3>2
    <3>4. h[s] = Resp!EmitBuffered(g[s \ {m + 1}], seq[m + 1])
      BY <2>2
    <3> HIDE DEF h
    <3> QED
      BY <2>2, <3>1, <3>3, <3>4
  <2>3. ASSUME NEW s \in SUBSET (1..(m + 1)), m + 1 \notin s
        PROVE  h[s] = IF s = {} THEN base ELSE Resp!EmitBuffered(h[s \ {Resp!Max(s)}], seq[Resp!Max(s)])
    <3>1. s \in SUBSET (1..m)
      BY <2>3
    <3>2. \A x : s \ {x} \in SUBSET (1..(m + 1)) /\ h[s \ {x}] = g[s \ {x}]
      BY Zenon, <3>1, <2>3
    <3>3. h[s] = g[s]
      BY <2>3
    <3>4. g[s] = IF s = {} THEN base ELSE Resp!EmitBuffered(g[s \ {Resp!Max(s)}], seq[Resp!Max(s)])
      BY Zenon, <2>1, <3>1
    <3> HIDE DEF h
    <3> QED
      BY Zenon, <3>2, <3>3, <3>4
  <2>4. h = [s \in SUBSET (1..(m + 1)) |-> IF s = {} THEN base ELSE Resp!EmitBuffered(h[s \ {Resp!Max(s)}], seq[Resp!Max(s)])]
    <3>1. \A s \in SUBSET (1..(m + 1)) : h[s] = IF s = {} THEN base ELSE Resp!EmitBuffered(h[s \ {Resp!Max(s)}], seq[Resp!Max(s)])
      BY Zenon, <2>2, <2>3
    <3>2. h = [s \in SUBSET (1..(m + 1)) |-> h[s]]
      OBVIOUS
    <3> HIDE DEF h
    <3> QED
      BY Zenon, <3>1, <3>2
  <2> QED
    BY Zenon, <2>4
<1>3. \E g : Solves(g, n)
  <2> HIDE DEF Solves
  <2> DEFINE P == {m \in Nat : \E g : Solves(g, m)}
  <2>1. 0 \in P /\ \A m \in Nat : m \in P => m + 1 \in P
    BY <1>1, <1>2
  <2> HIDE DEF P
  <2>2. n \in P
    BY <2>1, Induction
  <2> QED
    BY <2>2 DEF P
<1> DEFINE g == CHOOSE g : Solves(g, n)
<1>4. Solves(g, n)
  BY Zenon, <1>3
<1>5. CallsBuffered(base, seq) = g[1..n]
  BY DEF CallsBuffered, Resp!FoldLeft, Resp!MapThenFoldSet
<1> HIDE DEF g
<1>6. ASSUME NEW j \in 1..n PROVE g[1..j] = Resp!EmitBuffered(g[1..(j - 1)], seq[j])
  <2>1. Resp!Max(1..j) = j
    BY Greatest DEF Resp!Max
  <2>2. (1..j) \ {j} = 1..(j - 1)
    OBVIOUS
  <2>3. 1..j \in SUBSET (1..n) /\ j \in 1..j
    OBVIOUS
  <2> QED
    BY Zenon, <1>4, <2>1, <2>2, <2>3
<1>7. g[1..0] = base
  <2>1. 1..0 = {} /\ {} \in SUBSET (1..n)
    OBVIOUS
  <2> QED
    BY <1>4, <2>1
<1> HIDE DEF Solves
<1> DEFINE f == [j \in 0..n |-> g[1..j]]
<1>8. f[0] = base /\ f[n] = CallsBuffered(base, seq) /\ \A j \in 1..n : f[j] = Resp!EmitBuffered(f[j - 1], seq[j])
  <2>1. \A j \in 0..n : f[j] = g[1..j]
    OBVIOUS
  <2>2. \A j \in 1..n : j \in 0..n /\ j - 1 \in 0..n
    OBVIOUS
  <2> HIDE DEF f
  <2> QED
    BY <1>5, <1>6, <1>7, <2>1, <2>2
<1> QED
  BY Zenon, <1>8

\* with the text that waited,
LEMMA TextInTurn ==
  ASSUME NEW base, NEW n \in Nat, NEW seq, DOMAIN seq = 1..n, NEW s0, seq = s0.deferred, base = [s0 EXCEPT !.deferred = <<>>]
  PROVE  \E f : /\ f[0] = base /\ f[n] = Resp!EmitDeferred(s0)
                /\ \A j \in 1..n : f[j] = Resp!EmitContent(f[j - 1], seq[j][1], seq[j][2])
<1> DEFINE Solves(g, m) ==
      g = [s \in SUBSET (1..m) |-> IF s = {} THEN base ELSE Resp!EmitContent(g[s \ {Resp!Max(s)}], seq[Resp!Max(s)][1], seq[Resp!Max(s)][2])]
<1>1. \E g : Solves(g, 0)
  <2>1. SUBSET (1..0) = {{}}
    OBVIOUS
  <2>2. Solves([s \in {{}} |-> base], 0)
    BY <2>1
  <2> QED
    BY Zenon, <2>2
<1>2. ASSUME NEW m \in Nat, \E g : Solves(g, m) PROVE \E g : Solves(g, m + 1)
  <2>1. PICK g : Solves(g, m)
    BY Zenon, <1>2
  <2> DEFINE h == [s \in SUBSET (1..(m + 1)) |-> IF m + 1 \in s THEN Resp!EmitContent(g[s \ {m + 1}], seq[m + 1][1], seq[m + 1][2]) ELSE g[s]]
  <2>2. ASSUME NEW s \in SUBSET (1..(m + 1)), m + 1 \in s
        PROVE  h[s] = IF s = {} THEN base ELSE Resp!EmitContent(h[s \ {Resp!Max(s)}], seq[Resp!Max(s)][1], seq[Resp!Max(s)][2])
    <3>1. Resp!Max(s) = m + 1
      BY <2>2, Greatest DEF Resp!Max
    <3>2. s \ {m + 1} \in SUBSET (1..m) /\ s \ {m + 1} \in SUBSET (1..(m + 1)) /\ m + 1 \notin s \ {m + 1}
      OBVIOUS
    <3>3. h[s \ {m + 1}] = g[s \ {m + 1}]
      BY <3>2
    <3>4. h[s] = Resp!EmitContent(g[s \ {m + 1}], seq[m + 1][1], seq[m + 1][2])
      BY <2>2
    <3> HIDE DEF h
    <3> QED
      BY <2>2, <3>1, <3>3, <3>4
  <2>3. ASSUME NEW s \in SUBSET (1..(m + 1)), m + 1 \notin s
        PROVE  h[s] = IF s = {} THEN base ELSE Resp!EmitContent(h[s \ {Resp!Max(s)}], seq[Resp!Max(s)][1], seq[Resp!Max(s)][2])
    <3>1. s \in SUBSET (1..m)
      BY <2>3
    <3>2. \A x : s \ {x} \in SUBSET (1..(m + 1)) /\ h[s \ {x}] = g[s \ {x}]
      BY <3>1, <2>3
    <3>3. h[s] = g[s]
      BY <2>3
    <3>4. g[s] = IF s = {} THEN base ELSE Resp!EmitContent(g[s \ {Resp!Max(s)}], seq[Resp!Max(s)][1], seq[Resp!Max(s)][2])
      BY Zenon, <2>1, <3>1
    <3> HIDE DEF h
    <3> QED
      BY Zenon, <3>2, <3>3, <3>4
  <2>4. h = [s \in SUBSET (1..(m + 1)) |-> IF s = {} THEN base ELSE Resp!EmitContent(h[s \ {Resp!Max(s)}], seq[Resp!Max(s)][1], seq[Resp!Max(s)][2])]
    <3>1. \A s \in SUBSET (1..(m + 1)) : h[s] = IF s = {} THEN base ELSE Resp!EmitContent(h[s \ {Resp!Max(s)}], seq[Resp!Max(s)][1], seq[Resp!Max(s)][2])
      BY Zenon, <2>2, <2>3
    <3>2. h = [s \in SUBSET (1..(m + 1)) |-> h[s]]
      OBVIOUS
    <3> HIDE DEF h
    <3> QED
      BY Zenon, <3>1, <3>2
  <2> QED
    BY Zenon, <2>4
<1>3. \E g : Solves(g, n)
  <2> HIDE DEF Solves
  <2> DEFINE P == {m \in Nat : \E g : Solves(g, m)}
  <2>1. 0 \in P /\ \A m \in Nat : m \in P => m + 1 \in P
    BY <1>1, <1>2
  <2> HIDE DEF P
  <2>2. n \in P
    BY <2>1, Induction
  <2> QED
    BY <2>2 DEF P
<1> DEFINE g == CHOOSE g : Solves(g, n)
<1>4. Solves(g, n)
  BY Zenon, <1>3
<1>5. Resp!EmitDeferred(s0) = g[1..n]
  BY Zenon DEF Resp!EmitDeferred, Resp!FoldLeft, Resp!MapThenFoldSet
<1> HIDE DEF g
<1>6. ASSUME NEW j \in 1..n PROVE g[1..j] = Resp!EmitContent(g[1..(j - 1)], seq[j][1], seq[j][2])
  <2>1. Resp!Max(1..j) = j
    BY Greatest DEF Resp!Max
  <2>2. (1..j) \ {j} = 1..(j - 1)
    OBVIOUS
  <2>3. 1..j \in SUBSET (1..n) /\ j \in 1..j
    OBVIOUS
  <2> QED
    BY Zenon, <1>4, <2>1, <2>2, <2>3
<1>7. g[1..0] = base
  <2>1. 1..0 = {} /\ {} \in SUBSET (1..n)
    OBVIOUS
  <2> QED
    BY <1>4, <2>1
<1> HIDE DEF Solves
<1> DEFINE f == [j \in 0..n |-> g[1..j]]
<1>8. f[0] = base /\ f[n] = Resp!EmitDeferred(s0) /\ \A j \in 1..n : f[j] = Resp!EmitContent(f[j - 1], seq[j][1], seq[j][2])
  <2>1. \A j \in 0..n : f[j] = g[1..j]
    OBVIOUS
  <2>2. \A j \in 1..n : j \in 0..n /\ j - 1 \in 0..n
    OBVIOUS
  <2> HIDE DEF f
  <2> QED
    BY <1>5, <1>6, <1>7, <2>1, <2>2
<1> QED
  BY Zenon, <1>8

Completed(s, seq, final) == Resp!FoldLeft(LAMBDA t, c : Resp!Complete(t, c, final), s, seq)

\* and with the calls of the final snapshot.
LEMMA CompletedInTurn ==
  ASSUME NEW base, NEW n \in Nat, NEW seq, DOMAIN seq = 1..n, NEW final
  PROVE  \E f : /\ f[0] = base /\ f[n] = Completed(base, seq, final)
                /\ \A j \in 1..n : f[j] = Resp!Complete(f[j - 1], seq[j], final)
<1> DEFINE Solves(g, m) ==
      g = [s \in SUBSET (1..m) |-> IF s = {} THEN base ELSE Resp!Complete(g[s \ {Resp!Max(s)}], seq[Resp!Max(s)], final)]
<1>1. \E g : Solves(g, 0)
  <2>1. SUBSET (1..0) = {{}}
    OBVIOUS
  <2>2. Solves([s \in {{}} |-> base], 0)
    BY <2>1
  <2> QED
    BY Zenon, <2>2
<1>2. ASSUME NEW m \in Nat, \E g : Solves(g, m) PROVE \E g : Solves(g, m + 1)
  <2>1. PICK g : Solves(g, m)
    BY Zenon, <1>2
  <2> DEFINE h == [s \in SUBSET (1..(m + 1)) |-> IF m + 1 \in s THEN Resp!Complete(g[s \ {m + 1}], seq[m + 1], final) ELSE g[s]]
  <2>2. ASSUME NEW s \in SUBSET (1..(m + 1)), m + 1 \in s
        PROVE  h[s] = IF s = {} THEN base ELSE Resp!Complete(h[s \ {Resp!Max(s)}], seq[Resp!Max(s)], final)
    <3>1. Resp!Max(s) = m + 1
      BY <2>2, Greatest DEF Resp!Max
    <3>2. s \ {m + 1} \in SUBSET (1..m) /\ s \ {m + 1} \in SUBSET (1..(m + 1)) /\ m + 1 \notin s \ {m + 1}
      OBVIOUS
    <3>3. h[s \ {m + 1}] = g[s \ {m + 1}]
      BY <3>2
    <3>4. h[s] = Resp!Complete(g[s \ {m + 1}], seq[m + 1], final)
      BY <2>2
    <3> HIDE DEF h
    <3> QED
      BY <2>2, <3>1, <3>3, <3>4
  <2>3. ASSUME NEW s \in SUBSET (1..(m + 1)), m + 1 \notin s
        PROVE  h[s] = IF s = {} THEN base ELSE Resp!Complete(h[s \ {Resp!Max(s)}], seq[Resp!Max(s)], final)
    <3>1. s \in SUBSET (1..m)
      BY <2>3
    <3>2. \A x : s \ {x} \in SUBSET (1..(m + 1)) /\ h[s \ {x}] = g[s \ {x}]
      BY Zenon, <3>1, <2>3
    <3>3. h[s] = g[s]
      BY <2>3
    <3>4. g[s] = IF s = {} THEN base ELSE Resp!Complete(g[s \ {Resp!Max(s)}], seq[Resp!Max(s)], final)
      BY Zenon, <2>1, <3>1
    <3> HIDE DEF h
    <3> QED
      BY Zenon, <3>2, <3>3, <3>4
  <2>4. h = [s \in SUBSET (1..(m + 1)) |-> IF s = {} THEN base ELSE Resp!Complete(h[s \ {Resp!Max(s)}], seq[Resp!Max(s)], final)]
    <3>1. \A s \in SUBSET (1..(m + 1)) : h[s] = IF s = {} THEN base ELSE Resp!Complete(h[s \ {Resp!Max(s)}], seq[Resp!Max(s)], final)
      BY Zenon, <2>2, <2>3
    <3>2. h = [s \in SUBSET (1..(m + 1)) |-> h[s]]
      OBVIOUS
    <3> HIDE DEF h
    <3> QED
      BY Zenon, <3>1, <3>2
  <2> QED
    BY Zenon, <2>4
<1>3. \E g : Solves(g, n)
  <2> HIDE DEF Solves
  <2> DEFINE P == {m \in Nat : \E g : Solves(g, m)}
  <2>1. 0 \in P /\ \A m \in Nat : m \in P => m + 1 \in P
    BY <1>1, <1>2
  <2> HIDE DEF P
  <2>2. n \in P
    BY <2>1, Induction
  <2> QED
    BY <2>2 DEF P
<1> DEFINE g == CHOOSE g : Solves(g, n)
<1>4. Solves(g, n)
  BY Zenon, <1>3
<1>5. Completed(base, seq, final) = g[1..n]
  BY DEF Completed, Resp!FoldLeft, Resp!MapThenFoldSet
<1> HIDE DEF g
<1>6. ASSUME NEW j \in 1..n PROVE g[1..j] = Resp!Complete(g[1..(j - 1)], seq[j], final)
  <2>1. Resp!Max(1..j) = j
    BY Greatest DEF Resp!Max
  <2>2. (1..j) \ {j} = 1..(j - 1)
    OBVIOUS
  <2>3. 1..j \in SUBSET (1..n) /\ j \in 1..j
    OBVIOUS
  <2> QED
    BY Zenon, <1>4, <2>1, <2>2, <2>3
<1>7. g[1..0] = base
  <2>1. 1..0 = {} /\ {} \in SUBSET (1..n)
    OBVIOUS
  <2> QED
    BY <1>4, <2>1
<1> HIDE DEF Solves
<1> DEFINE f == [j \in 0..n |-> g[1..j]]
<1>8. f[0] = base /\ f[n] = Completed(base, seq, final) /\ \A j \in 1..n : f[j] = Resp!Complete(f[j - 1], seq[j], final)
  <2>1. \A j \in 0..n : f[j] = g[1..j]
    OBVIOUS
  <2>2. \A j \in 1..n : j \in 0..n /\ j - 1 \in 0..n
    OBVIOUS
  <2> HIDE DEF f
  <2> QED
    BY <1>5, <1>6, <1>7, <2>1, <2>2
<1> QED
  BY Zenon, <1>8

\* The call an event names is one of the calls, or one more; all its names are remembered.
Found(b, p, s, names, create, r) ==
  /\ Good(b, p, r.s) /\ r.key \in 0..Len(r.s.calls)
  /\ r.key = 0 => r.s = s
  /\ names # <<>> /\ create => r.key # 0
  /\ names = <<>> /\ Len(s.calls) = 1 => r.key = 1
  /\ DOMAIN s.alias \subseteq DOMAIN r.s.alias
  /\ r.key # 0 => \A n \in DOMAIN names : names[n] \in DOMAIN r.s.alias
  /\ ~ create \/ names = <<>> \/ (\E n \in DOMAIN names : names[n] \in DOMAIN s.alias) => Len(r.s.calls) = Len(s.calls)
  /\ create /\ names # <<>> /\ Len(s.calls) = 0 => Len(r.s.calls) = 1

LEMMA Resolved ==
  ASSUME NEW b, NEW p, NEW s, Good(b, p, s), NEW names, Listed(names), NEW create \in BOOLEAN
  PROVE  Found(b, p, s, names, create, Resp!Resolve(s, names, create))
<1> DEFINE known == {n \in DOMAIN names : names[n] \in DOMAIN s.alias}
           key == IF known # {} THEN s.alias[names[Resp!Min(known)]]
                  ELSE IF names = <<>> THEN IF Len(s.calls) = 1 THEN 1 ELSE 0
                  ELSE IF create THEN Len(s.calls) + 1 ELSE 0
           new == [id |-> None, name |-> FALSE, args |-> <<>>, block |-> None, done |-> FALSE]
           grown == IF key <= Len(s.calls) THEN s ELSE [s EXCEPT !.calls = Append(@, new)]
           named == [n \in Resp!ToSet(names) |-> key]
           t == [grown EXCEPT !.alias = Resp!Merge(@, named)]
           r == Resp!Resolve(s, names, create)
<1>1. r = [s |-> IF key = 0 THEN s ELSE t, key |-> key]
  BY DEF Resp!Resolve
<1>2. Len(s.calls) \in Nat /\ (s.calls = <<>> <=> Len(s.calls) = 0) /\ CallsFit(s.calls) /\ DOMAIN names \subseteq Nat
      /\ (names = <<>> => DOMAIN names = {})
  <2>1. Listed(s.calls)
    BY DEF Good, RespConv, CallsFit
  <2>2. DOMAIN names = 1..Len(names) /\ Len(names) \in Nat /\ (names = <<>> => Len(names) = 0)
    BY ListedLen
  <2> QED
    BY <2>1, <2>2, ListedLen DEF Good, RespConv
<1>3. known # {} => key \in 1..Len(s.calls)
  <2> SUFFICES ASSUME known # {} PROVE key \in 1..Len(s.calls)
    OBVIOUS
  <2>1. known \in SUBSET Nat
    BY <1>2
  <2>2. Resp!Min(known) \in known
    <3> HIDE DEF known
    <3> QED
      BY <2>1, Least
  <2>3. names[Resp!Min(known)] \in DOMAIN s.alias
    BY <2>2
  <2> QED
    BY <2>3 DEF Good, RespConv
<1>4. key \in 0..(Len(s.calls) + 1)
  BY <1>2, <1>3
<1>5. /\ names # <<>> /\ create => key # 0
      /\ names = <<>> => known = {}
      /\ names = <<>> /\ Len(s.calls) = 1 => key = 1
      /\ ~ create \/ names = <<>> \/ known # {} => key <= Len(s.calls)
      /\ create /\ names # <<>> /\ s.calls = <<>> => key = 1
  BY <1>2, <1>3
<1>6. known # {} <=> \E n \in DOMAIN names : names[n] \in DOMAIN s.alias
  OBVIOUS
<1> HIDE DEF known, key, new
<1> DEFINE c == IF key <= Len(s.calls) THEN s.calls ELSE Plus(s.calls, new)
<1>7. /\ CallsFit(c) /\ Len(c) = (IF key <= Len(s.calls) THEN Len(s.calls) ELSE Len(s.calls) + 1)
      /\ (\A j \in 1..Len(s.calls) : c[j] = s.calls[j])
      /\ \A j \in 1..Len(c) : j \in 1..Len(s.calls) \/ c[j].block = None
  <2>1. CASE key <= Len(s.calls)
    BY <1>2, <2>1
  <2>2. CASE ~ (key <= Len(s.calls))
    <3>1. CallFields \subseteq DOMAIN new /\ new.block = None
      BY DEF CallFields, new
    <3>2. /\ Listed(Plus(s.calls, new)) /\ Len(Plus(s.calls, new)) = Len(s.calls) + 1
          /\ Plus(s.calls, new)[Len(s.calls) + 1] = new
          /\ \A j \in 1..Len(s.calls) : Plus(s.calls, new)[j] = s.calls[j]
      BY <1>2, ListedAppend DEF Plus, CallsFit
    <3>3. CallsFit(Plus(s.calls, new))
      BY <1>2, <3>1, <3>2 DEF CallsFit
    <3> QED
      BY <1>2, <2>2, <3>1, <3>2, <3>3
  <2> QED
    BY <2>1, <2>2
<1>8. /\ DOMAIN grown = DOMAIN s /\ grown.calls = c /\ \A f \in DOMAIN s : f # "calls" => grown[f] = s[f]
  BY DEF Plus, Good, RespConv
<1> HIDE DEF grown, c, named
<1>9. /\ DOMAIN t = DOMAIN s /\ t.calls = c /\ t.alias = Resp!Merge(s.alias, named)
      /\ \A f \in DOMAIN s : f \notin {"calls", "alias"} => t[f] = s[f]
  BY <1>8 DEF Good, RespConv
<1> HIDE DEF t
<1>10. /\ t.index = s.index /\ t.kind = s.kind /\ t.open = s.open /\ t.out = s.out /\ t.live = s.live /\ t.deferred = s.deferred
  BY <1>9 DEF Good, RespConv
<1>11. Wrote(b, p, t)
  BY <1>9, <1>10, Unwritten DEF Good
<1>12. /\ DOMAIN t.alias = DOMAIN s.alias \cup DOMAIN named
       /\ \A x \in DOMAIN t.alias : t.alias[x] = (IF x \in DOMAIN s.alias THEN s.alias[x] ELSE named[x])
  BY <1>9 DEF Resp!Merge
<1>13. DOMAIN named = {names[n] : n \in DOMAIN names} /\ \A x \in DOMAIN named : named[x] = key
  BY DEF named, Resp!ToSet
<1>14. key # 0 => Good(b, p, t)
  <2> SUFFICES ASSUME key # 0 PROVE RespConv(t)
    BY <1>11 DEF Good
  <2>1. key \in 1..Len(c)
    BY <1>2, <1>4, <1>7
  <2>2. \A j \in 1..Len(s.calls) : j \in 1..Len(c)
    BY <1>2, <1>7
  <2>3. \A x \in DOMAIN t.alias : t.alias[x] \in 1..Len(c)
    BY <1>12, <1>13, <2>1, <2>2 DEF Good, RespConv
  <2>4. t.live # 0 => t.live \in 1..Len(c) /\ c[t.live].block = t.index - 1
    BY <1>7, <1>10, <2>2 DEF Good, RespConv
  <2>5. \A j \in 1..Len(c) : c[j].block # None => t.live = j
    BY <1>7, <1>10 DEF Good, RespConv
  <2> QED
    BY <1>7, <1>9, <1>10, <2>3, <2>4, <2>5 DEF Good, RespConv
<1>15. CASE key = 0
  <2>1. r.s = s /\ r.key = 0
    BY <1>1, <1>15
  <2> HIDE DEF r
  <2>2. ~ (names # <<>> /\ create) /\ ~ (names = <<>> /\ Len(s.calls) = 1)
    BY <1>5, <1>15
  <2>3. 0 \in 0..Len(s.calls)
    BY <1>2
  <2>4. Found(b, p, s, names, create, r)
    BY <2>1, <2>2, <2>3 DEF Found
  <2> QED
    BY <2>4 DEF r
<1>16. CASE key # 0
  <2>1. r.s = t /\ r.key = key
    BY <1>1, <1>16
  <2> HIDE DEF r
  <2>2. key \in 0..Len(c)
    BY <1>2, <1>4, <1>7
  <2>3. \A n \in DOMAIN names : names[n] \in DOMAIN t.alias
    BY <1>12, <1>13
  <2>4. ~ create \/ names = <<>> \/ (\E n \in DOMAIN names : names[n] \in DOMAIN s.alias) => Len(c) = Len(s.calls)
    BY <1>5, <1>6, <1>7
  <2>5. create /\ names # <<>> /\ Len(s.calls) = 0 => Len(c) = 1
    BY <1>2, <1>5, <1>7
  <2>6. Good(b, p, t) /\ t.calls = c /\ DOMAIN s.alias \subseteq DOMAIN t.alias
    BY <1>9, <1>12, <1>14, <1>16
  <2>7. names = <<>> /\ Len(s.calls) = 1 => key = 1
    BY <1>5
  <2>8. Found(b, p, s, names, create, r)
    BY <1>16, <2>1, <2>2, <2>3, <2>4, <2>5, <2>6, <2>7 DEF Found
  <2> QED
    BY <2>8 DEF r
<1> QED
  BY <1>15, <1>16

-----------------------------------------------------------------------------
\* Its flushes, as the chat converter's.
LEMMA CallKept ==
  ASSUME NEW b, NEW p, NEW n, NEW q, NEW s, Closing(b, p, n, q, s), NEW key \in 1..n
  PROVE  Closing(b, p, n, q, Resp!EmitBuffered(s, key))
<1>1. CASE s.calls[key].block # None \/ ~s.calls[key].name
  BY <1>1 DEF Resp!EmitBuffered
<1>2. CASE ~ (s.calls[key].block # None \/ ~s.calls[key].name)
  <2> DEFINE u == Resp!Arguments(Resp!OpenToolBlock(s, key), key)
             r == Chat!CloseBlock(u)
  <2>1. CallOpened(b, p, s, key, u)
    BY CallOpens DEF Closing
  <2>2. Resp!EmitBuffered(s, key) = r
    BY <1>2, SameClose DEF Resp!EmitBuffered
  <2> HIDE DEF u
  <2>3. Closing(b, p, n, q, u)
    BY <2>1 DEF CallOpened, Closing, Wrote, Writer
  <2>4. Wrote(b, p, r) /\ Kept(u, r)
    BY Zenon, <2>3, CloseWrites DEF Closing
  <2> HIDE DEF r
  <2>5. Closing(b, p, n, q, r)
    BY <2>3, <2>4 DEF Closing, Kept, Wrote, Writer
  <2> QED
    BY <2>2, <2>5
<1> QED
  BY <1>1, <1>2

LEMMA CallsKept ==
  ASSUME NEW b, NEW p, NEW n, NEW q, NEW s, Closing(b, p, n, q, s)
  PROVE  Closing(b, p, n, q, CallsBuffered(s, [key \in DOMAIN s.calls |-> key]))
<1> DEFINE seq == [key \in DOMAIN s.calls |-> key]
           end == CallsBuffered(s, seq)
<1>1. n \in Nat /\ DOMAIN s.calls = 1..n
  BY ListedLen DEF Closing, CallsFit
<1>2. DOMAIN seq = 1..n /\ \A j \in 1..n : seq[j] = j
  BY <1>1
<1> HIDE DEF seq
<1>0. end = CallsBuffered(s, seq)
  BY DEF seq
<1> HIDE DEF end
<1>3. PICK f : f[0] = s /\ f[n] = CallsBuffered(s, seq) /\ \A j \in 1..n : f[j] = Resp!EmitBuffered(f[j - 1], seq[j])
  <2>1. n \in Nat
    BY <1>1
  <2>2. DOMAIN seq = 1..n
    BY <1>2
  <2>3. PICK last : last = CallsBuffered(s, seq)
    OBVIOUS
  <2>4. \E f : f[0] = s /\ f[n] = last /\ \A j \in 1..n : f[j] = Resp!EmitBuffered(f[j - 1], seq[j])
    BY <2>1, <2>2, <2>3, CallsInTurn
  <2> QED
    BY <2>3, <2>4
<1> DEFINE P == {j \in Nat : j <= n => Closing(b, p, n, q, f[j])}
<1>4. 0 \in P
  BY <1>3
<1>5. ASSUME NEW j \in Nat, j \in P PROVE j + 1 \in P
  <2> SUFFICES ASSUME j + 1 <= n PROVE Closing(b, p, n, q, f[j + 1])
    OBVIOUS
  <2>1. Closing(b, p, n, q, f[j]) /\ j + 1 \in 1..n
    BY <1>1, <1>5
  <2>2. f[j + 1] = Resp!EmitBuffered(f[j], j + 1)
    BY <1>1, <1>2, <1>3, <2>1
  <2> QED
    BY <2>1, <2>2, CallKept
<1> HIDE DEF P
<1>6. n \in P
  BY Zenon, <1>1, <1>4, <1>5, Induction
<1>7. Closing(b, p, n, q, end)
  BY <1>0, <1>1, <1>3, <1>6 DEF P
<1> QED
  BY <1>7 DEF end, seq

LEMMA TextKept ==
  ASSUME NEW b, NEW p, NEW n, NEW q, NEW s, Closing(b, p, n, q, s), Waiting(q)
  PROVE  Closing(b, p, n, <<>>, Resp!EmitDeferred(s))
<1> DEFINE base == [s EXCEPT !.deferred = <<>>]
           end == Resp!EmitDeferred(s)
           m == Len(q)
<1>1. m \in Nat /\ DOMAIN q = 1..m
  BY ListedLen DEF Waiting
<1> HIDE DEF m
<1>2. PICK f : f[0] = base /\ f[m] = end /\ \A j \in 1..m : f[j] = Resp!EmitContent(f[j - 1], q[j][1], q[j][2])
  BY <1>1, TextInTurn DEF Closing
<1>3. \A j \in 1..m : f[j] = Chat!EmitContent(f[j - 1], q[j][1], q[j][2])
  BY <1>2, SameContent
<1>4. m = Len(q)
  BY DEF m
<1> HIDE DEF end
<1>5. Closing(b, p, n, <<>>, f[m])
  BY <1>2, <1>3, <1>4, WaitingWritten
<1> QED
  BY <1>2, <1>5 DEF end

LEMMA PassedOn ==
  ASSUME NEW b, NEW p, NEW s, NEW r, NEW t, Passed(b, p, s, r), Passed(b, p, r, t)
  PROVE  Passed(b, p, s, t)
BY DEF Passed

\* From s to r no call is added.
Kin(b, p, s, r) == Good(b, p, r) /\ Len(r.calls) = Len(s.calls) /\ DOMAIN s.alias \subseteq DOMAIN r.alias

\* The calls of the final snapshot, completed one after another.
LEMMA FinalNames ==
  ASSUME NEW c
  PROVE  LET names == IF respDialect = "callid" THEN << <<"call", c>> >> ELSE << <<"item", c>>, <<"call", c>> >>
         IN  Listed(names)
<1>1. << <<"call", c>> >> \in Seq({<<"call", c>>}) /\ << <<"item", c>>, <<"call", c>> >> \in Seq({<<"call", c>>, <<"item", c>>})
  OBVIOUS
<1> QED
  BY Zenon, <1>1 DEF Listed

LEMMA CompleteKeeps ==
  ASSUME NEW b, NEW p, NEW s, Good(b, p, s), NEW c, NEW final
  PROVE  Kin(b, p, s, Resp!Complete(s, c, final))
<1> DEFINE names == IF respDialect = "callid" THEN << <<"call", c>> >> ELSE << <<"item", c>>, <<"call", c>> >>
           r == Resp!Resolve(s, names, FALSE)
           all == final[c]
           t == Resp!ApplySnapshot(r.s, r.key, all)
<1>1. Listed(names)
  BY FinalNames
<1>2. Resp!Complete(s, c, final) = IF c \notin DOMAIN final \/ r.key = 0 THEN s ELSE t
  BY DEF Resp!Complete
<1> HIDE DEF names, all
<1>3. PICK create \in BOOLEAN : create = FALSE
  BY Zenon
<1>4. Found(b, p, s, names, create, r)
  BY Zenon, <1>1, <1>3, Resolved
<1> HIDE DEF r
<1>5. Good(b, p, r.s) /\ Len((r.s).calls) = Len(s.calls) /\ DOMAIN s.alias \subseteq DOMAIN (r.s).alias
      /\ (r.key # 0 => r.key \in 1..Len((r.s).calls))
  BY <1>3, <1>4 DEF Found
<1>6. r.key # 0 => Passed(b, p, r.s, t)
  BY <1>5, SnapshotApplied
<1> HIDE DEF t
<1>7. r.key # 0 => Kin(b, p, s, t)
  BY <1>5, <1>6 DEF Kin, Passed
<1>8. Kin(b, p, s, s)
  BY DEF Kin
<1> QED
  BY <1>2, <1>7, <1>8

LEMMA AllCompleted ==
  ASSUME NEW b, NEW p, NEW s, Good(b, p, s), NEW final
  PROVE  Kin(b, p, s, Resp!CompleteAll(s, final))
<1> DEFINE n == Cardinality(ToolCalls)
           seq == [i \in 1..n |-> i - 1]
           end == Resp!CompleteAll(s, final)
<1>1. n \in Nat
  <2>1. IsFiniteSet(ToolCalls)
    BY ResponsesParameters DEF Resp!Parameters, Resp!IsFiniteSet, IsFiniteSet
  <2> QED
    BY <2>1, FS_CardinalityType
<1>2. end = Completed(s, seq, final)
  BY DEF Completed, Resp!CompleteAll, Resp!FoldLeft, Resp!MapThenFoldSet, Resp!Cardinality, Cardinality
<1>3. DOMAIN seq = 1..n
  OBVIOUS
<1> HIDE DEF n, seq, end
<1>4. PICK f : f[0] = s /\ f[n] = end /\ \A j \in 1..n : f[j] = Resp!Complete(f[j - 1], seq[j], final)
  BY <1>1, <1>2, <1>3, CompletedInTurn
<1> DEFINE P == {j \in Nat : j <= n => Kin(b, p, s, f[j])}
<1>5. 0 \in P
  BY <1>4 DEF Kin
<1>6. ASSUME NEW j \in Nat, j \in P PROVE j + 1 \in P
  <2> SUFFICES ASSUME j + 1 <= n PROVE Kin(b, p, s, f[j + 1])
    OBVIOUS
  <2>1. Kin(b, p, s, f[j]) /\ f[j + 1] = Resp!Complete(f[j], seq[j + 1], final)
    BY <1>1, <1>4, <1>6
  <2>2. Kin(b, p, f[j], Resp!Complete(f[j], seq[j + 1], final))
    BY <2>1, CompleteKeeps DEF Kin
  <2> QED
    BY <2>1, <2>2 DEF Kin
<1> HIDE DEF P
<1>7. n \in P
  BY <1>1, <1>5, <1>6, Induction
<1>8. Kin(b, p, s, end)
  BY <1>1, <1>4, <1>7 DEF P
<1> QED
  BY <1>8 DEF end

-----------------------------------------------------------------------------
\* A stream that ends or failed, ends its message.
LEMMA RespEnds ==
  ASSUME NEW b, NEW p, NEW s, Good(b, p, s)
  PROVE  Listed(Cat(p, Resp!StreamEnd(s).out)) /\ Sends(b, Cat(p, Resp!StreamEnd(s).out))
<1>1. CASE s.finish = "failed"
  <2> DEFINE c == Chat!CloseBlock(s)
             x == [e |-> "error"]
  <2>1. Resp!StreamEnd(s) = [c EXCEPT !.out = @ \o <<x>>]
    BY Zenon, <1>1, SameClose DEF Resp!StreamEnd, Resp!Yield
  <2>2. Wrote(b, p, c) /\ x.e = "error"
    BY Zenon, CloseWrites DEF Good
  <2> HIDE DEF c, x
  <2>3. Listed(Cat(p, c.out)) /\ Cat(p, c.out \o <<x>>) = Plus(Cat(p, c.out), x) /\ "out" \in DOMAIN c
    BY <2>2, Yielding DEF Wrote, Writer
  <2>4. Goes(b, Cat(p, c.out), c.index, At(c))
    BY <2>2 DEF Wrote
  <2>5. Sends(b, Plus(Cat(p, c.out), x)) /\ Listed(Plus(Cat(p, c.out), x))
    BY <2>2, <2>4, Ending
  <2>6. Resp!StreamEnd(s).out = c.out \o <<x>>
    BY <2>1, <2>3
  <2> QED
    BY <2>3, <2>5, <2>6
<1>2. CASE s.finish # "failed"
  <2> DEFINE c == Chat!CloseBlock(s)
             s1 == IF s.live = 0 THEN s ELSE [c EXCEPT !.live = 0]
             n == Len(s.calls)
             q == s.deferred
  <2>1. Closing(b, p, n, q, s1) /\ Waiting(q)
    <3>1. Waiting(q)
      BY DEF Good, RespConv
    <3>2. CASE s.live = 0
      BY <3>2 DEF Good, RespConv, Closing
    <3>3. CASE s.live # 0
      <4>1. Wrote(b, p, c) /\ Kept(s, c)
        BY Zenon, CloseWrites DEF Good
      <4>2. s1 = [c EXCEPT !.live = 0]
        BY <3>3
      <4> HIDE DEF c, s1
      <4>3. /\ DOMAIN s1 = DOMAIN c /\ s1.index = c.index /\ s1.kind = c.kind /\ s1.open = c.open
            /\ s1.out = c.out /\ s1.calls = s.calls /\ s1.live = 0 /\ s1.deferred = s.deferred
        BY <4>1, <4>2 DEF Kept, Wrote, Writer
      <4>4. Wrote(b, p, s1)
        BY <4>1, <4>3, Unwritten
      <4> QED
        BY <3>1, <4>3, <4>4 DEF Closing, Good, RespConv
    <3> QED
      BY <3>1, <3>2, <3>3
  <2> DEFINE t == CallsBuffered(s1, [key \in DOMAIN s1.calls |-> key])
             v == Resp!EmitDeferred(t)
             u == Finished(v)
             tools == \E key \in DOMAIN u.calls : u.calls[key].block # None
             reason == IF u.finish = "incomplete" THEN "max_tokens"
                       ELSE IF tools THEN "tool_use" ELSE IF u.refused THEN "refusal" ELSE "end_turn"
             x == [e |-> "end", reason |-> reason]
  <2>2. Resp!StreamEnd(s) = [u EXCEPT !.out = @ \o <<x>>]
    <3> DEFINE s3 == Resp!AtLeastOne(Resp!CloseBlock(v))
    <3>1. s3 = u
      BY SameFinish
    <3>2. s1 = IF s.live = 0 THEN s ELSE [Resp!CloseBlock(s) EXCEPT !.live = 0]
      BY SameClose
    <3> HIDE DEF s1, u
    <3>3. Resp!StreamEnd(s) = [s3 EXCEPT !.out = @ \o <<[e |-> "end", reason |->
            IF s3.finish = "incomplete" THEN "max_tokens"
            ELSE IF \E key \in DOMAIN s3.calls : s3.calls[key].block # None THEN "tool_use"
            ELSE IF s3.refused THEN "refusal" ELSE "end_turn"]>>]
      BY <1>2, <3>2 DEF Resp!StreamEnd, Resp!Yield, CallsBuffered
    <3> HIDE DEF s3
    <3> QED
      BY <3>1, <3>3
  <2> HIDE DEF s1, reason
  <2>3. x.e = "end"
    OBVIOUS
  <2> HIDE DEF x, n, q
  <2>4. Closing(b, p, n, q, t)
    BY <2>1, CallsKept
  <2> HIDE DEF t
  <2>5. Wrote(b, p, v)
    BY <2>1, <2>4, TextKept DEF Closing
  <2> HIDE DEF v
  <2>6. "out" \in DOMAIN u /\ Listed(Cat(p, u.out \o <<x>>)) /\ Sends(b, Cat(p, u.out \o <<x>>))
    BY <2>3, <2>5, Ended
  <2> HIDE DEF u
  <2>7. [u EXCEPT !.out = @ \o <<x>>].out = u.out \o <<x>>
    BY <2>6
  <2> QED
    BY <2>2, <2>6, <2>7
<1> QED
  BY <1>1, <1>2

-----------------------------------------------------------------------------
\* While a fragment may name nothing there is at most one call, and its item is known.
Sole(d, c, seen) ==
  d = "anonymous" /\ ~ c.error =>
     /\ seen = {} => Len(c.calls) = 0
     /\ seen # {} => Len(c.calls) = 1 /\ \A x \in seen : <<"item", x>> \in DOMAIN c.alias

\* The Responses converter between two events: what it has open is what the client
\* was sent.
RespInv ==
  /\ Listed(respSent) /\ respSeen \subseteq ToolCalls /\ respDialect \in Resp!Dialects
  /\ respPhase \in {"run", "over"} =>
       /\ Writer(respConv) /\ RespConv(respConv) /\ respConv.out = <<>>
       /\ Writing(respSent, respConv.index, At(respConv))
       /\ Sole(respDialect, respConv, respSeen)

LEMMA RespStarts == Resp!Init => RespInv
<1> SUFFICES ASSUME Resp!Init PROVE RespInv
  OBVIOUS
<1> DEFINE c == respConv
<1>0. c = Resp!Merge(Resp!NoBlocks, [alias |-> <<>>, refused |-> FALSE, error |-> FALSE])
  BY DEF Resp!Init, Resp!NewState
<1> HIDE DEF c
<1>1. /\ {"index", "kind", "open", "calls", "live", "deferred", "finish", "cites", "cited", "out",
          "alias", "refused", "error"} \subseteq DOMAIN c
      /\ c.index = 0 /\ c.open = FALSE /\ c.live = 0
      /\ c.calls = <<>> /\ c.deferred = <<>> /\ c.out = <<>> /\ c.alias = <<>>
  BY <1>0 DEF Resp!Merge, Resp!NoBlocks
<1>2. CallsFit(<<>>) /\ Waiting(<<>>) /\ Listed(<<>>) /\ Len(<<>>) = 0 /\ DOMAIN <<>> = {}
  BY ListedNone DEF CallsFit, Waiting
<1>3. RespConv(c)
  BY <1>1, <1>2 DEF RespConv
<1>4. Writer(c)
  BY Zenon, <1>1, <1>2 DEF Writer
<1>5. At(c) = "none"
  BY <1>1 DEF At
<1>6. Writing(<<>>, 0, "none")
  BY <1>2 DEF Writing
<1>7. respSent = <<>> /\ respSeen = {} /\ respDialect \in Resp!Dialects
  BY DEF Resp!Init
<1>8. Sole(respDialect, c, respSeen)
  BY <1>1, <1>2, <1>7 DEF Sole
<1> QED
  BY <1>1, <1>2, <1>3, <1>4, <1>5, <1>6, <1>7, <1>8 DEF RespInv, c

LEMMA RespBegun ==
  ASSUME RespInv, respPhase \in {"run", "over"}
  PROVE  Good(respSent, Cat(respSent, Resp!Begun), respConv)
<1> DEFINE x == [e |-> "message"]
<1>1. x.e = "message"
  OBVIOUS
<1>2. Resp!Begun = IF respSent = <<>> THEN <<x>> ELSE <<>>
  BY DEF Resp!Begun
<1> HIDE DEF x
<1>3. Wrote(respSent, Cat(respSent, Resp!Begun), respConv)
  BY <1>1, <1>2, Preceded DEF RespInv
<1> QED
  BY <1>3 DEF RespInv, Good

\* What each step of ResponsesStream is to show.
RespSends == RespInv' /\ [Resp!Blocks!Send]_respSent

LEMMA RespSent ==
  ASSUME Listed(respSent), Listed(respSent'), Sends(respSent, respSent')
  PROVE  [Resp!Blocks!Send]_respSent
BY SendsIsSend, SameLegal DEF Resp!Blocks!Send, Legal

\* An event: what it writes is sent, unless the stream has failed.
LEMMA RespEvent ==
  ASSUME NEW s, RespInv, Resp!Event(s), respSeen' \subseteq ToolCalls,
         ~ respConv.error => Good(respSent, Cat(respSent, Resp!Begun), s) /\ Sole(respDialect, s, respSeen')
  PROVE  RespSends
<1> DEFINE t == IF respConv.error THEN respConv ELSE s
           p == Cat(respSent, Resp!Begun)
           m == Cat(p, t.out)
           c == [t EXCEPT !.out = <<>>]
<1>0. Good(respSent, p, t) /\ Sole(respDialect, t, respSeen')
  <2>1. CASE respConv.error
    <3>1. t = respConv /\ respPhase \in {"run", "over"}
      BY <2>1 DEF Resp!Event
    <3> HIDE DEF t
    <3>2. Sole(respDialect, t, respSeen')
      BY <2>1, <3>1 DEF Sole
    <3> QED
      BY <3>1, <3>2, RespBegun
  <2>2. CASE ~ respConv.error
    BY <2>2
  <2> QED
    BY <2>1, <2>2
<1>1. respSent' = m /\ respConv' = c /\ respDialect' = respDialect
  BY DEF Resp!Event, Cat
<1> HIDE DEF t
<1>2. Goes(respSent, m, t.index, At(t)) /\ Writer(t) /\ RespConv(t)
  BY <1>0 DEF Good, Wrote
<1> HIDE DEF m
<1>3. Listed(respSent) /\ Listed(m) /\ Sends(respSent, m) /\ Writing(m, t.index, At(t))
  BY <1>2 DEF Goes
<1>4. DOMAIN c = DOMAIN t /\ c.out = <<>> /\ \A f \in DOMAIN t : f # "out" => c[f] = t[f]
  BY <1>2 DEF Writer
<1> HIDE DEF c
<1>5. Writer(c) /\ At(c) = At(t) /\ c.index = t.index
  BY <1>2, <1>4, ListedNone DEF Writer, At
<1>6. RespConv(c)
  BY <1>2, <1>4 DEF RespConv
<1>7. Sole(respDialect, c, respSeen')
  <2>1. c.error = t.error /\ c.calls = t.calls /\ c.alias = t.alias
    BY <1>2, <1>4 DEF RespConv
  <2> QED
    BY <1>0, <2>1 DEF Sole
<1>8. RespInv'
  <2>1. Writer(respConv') /\ RespConv(respConv') /\ Writing(respSent', (respConv').index, At(respConv'))
        /\ Sole(respDialect', respConv', respSeen') /\ (respConv').out = <<>>
    BY <1>1, <1>3, <1>4, <1>5, <1>6, <1>7
  <2>2. Listed(respSent') /\ respDialect' \in Resp!Dialects
    BY <1>1, <1>3 DEF RespInv
  <2> QED
    BY <2>1, <2>2 DEF RespInv
<1> QED
  BY <1>1, <1>3, <1>8, RespSent DEF RespSends

\* Once a call is seen, an unnamed fragment is its.
Covers(d, s, seen) ==
  d = "anonymous" => seen # {} /\ Len(s.calls) = 1 /\ \A x \in seen : <<"item", x>> \in DOMAIN s.alias

LEMMA CoversSole ==
  ASSUME NEW d, NEW s, NEW r, NEW seen, Covers(d, s, seen), Len(r.calls) = Len(s.calls), DOMAIN s.alias \subseteq DOMAIN r.alias
  PROVE  Sole(d, r, seen)
BY DEF Covers, Sole

\* The names an event gives its call.
LEMMA ItemNamesListed ==
  ASSUME NEW c
  PROVE  /\ Listed(Resp!ItemNames(c)) /\ Resp!ItemNames(c) # <<>>
         /\ respDialect = "anonymous" => 1 \in DOMAIN Resp!ItemNames(c) /\ Resp!ItemNames(c)[1] = <<"item", c>>
<1> DEFINE i == <<"item", c>>
           k == <<"call", c>>
           o == <<"output", c>>
<1>1. Resp!ItemNames(c) = IF respDialect = "callid" THEN <<k, o>> ELSE <<i, k, o>>
  BY DEF Resp!ItemNames
<1> HIDE DEF i, k, o
<1>2. <<k, o>> \in Seq({i, k, o}) /\ <<i, k, o>> \in Seq({i, k, o}) /\ <<k, o>> # <<>> /\ <<i, k, o>> # <<>>
      /\ <<i, k, o>>[1] = i /\ 1 \in DOMAIN <<i, k, o>>
  OBVIOUS
<1>3. Listed(<<k, o>>) /\ Listed(<<i, k, o>>)
  BY Zenon, <1>2 DEF Listed
<1>4. CASE respDialect = "callid"
  BY <1>1, <1>2, <1>3, <1>4
<1>5. CASE respDialect # "callid"
  BY <1>1, <1>2, <1>3, <1>5 DEF i
<1> QED
  BY <1>4, <1>5

LEMMA DeltaNamesListed ==
  ASSUME NEW c, respDialect \in Resp!Dialects
  PROVE  /\ Listed(Resp!DeltaNames(c))
         /\ respDialect = "anonymous" => Resp!DeltaNames(c) = <<>>
         /\ respDialect # "anonymous" => Resp!DeltaNames(c) # <<>>
<1> DEFINE i == <<"item", c>>
           o == <<"output", c>>
<1>1. /\ respDialect = "anonymous" => Resp!DeltaNames(c) = <<>>
      /\ respDialect # "anonymous" => Resp!DeltaNames(c) \in {<<i>>, <<o>>}
  BY DEF Resp!DeltaNames, Resp!Dialects
<1> HIDE DEF i, o
<1>2. <<i>> \in Seq({i, o}) /\ <<o>> \in Seq({i, o}) /\ <<i>> # <<>> /\ <<o>> # <<>>
  OBVIOUS
<1>3. Listed(<<i>>) /\ Listed(<<o>>)
  BY Zenon, <1>2 DEF Listed
<1> QED
  BY <1>1, <1>2, <1>3, ListedNone

\* An item's call is found or added.
LEMMA ItemFound ==
  ASSUME NEW b, NEW p, Good(b, p, respConv), Sole(respDialect, respConv, respSeen), ~ respConv.error, NEW c,
         respDialect = "anonymous" => respSeen \subseteq {c}
  PROVE  LET r == Resp!Resolve(respConv, Resp!ItemNames(c), TRUE)
         IN  Good(b, p, r.s) /\ r.key \in 1..Len((r.s).calls) /\ Covers(respDialect, r.s, respSeen \cup {c})
<1> DEFINE names == Resp!ItemNames(c)
           r == Resp!Resolve(respConv, names, TRUE)
           i == <<"item", c>>
<1>1. Listed(names) /\ names # <<>> /\ (respDialect = "anonymous" => 1 \in DOMAIN names /\ names[1] = i)
  BY ItemNamesListed
<1> HIDE DEF names
<1>2. PICK create \in BOOLEAN : create = TRUE
  BY Zenon
<1>3. Found(b, p, respConv, names, create, r)
  BY Zenon, <1>1, <1>2, Resolved
<1> HIDE DEF r
<1>4. Good(b, p, r.s) /\ r.key # 0 /\ r.key \in 1..Len((r.s).calls)
  BY <1>1, <1>2, <1>3 DEF Found
<1>5. ASSUME respDialect = "anonymous"
      PROVE  Len((r.s).calls) = 1 /\ i \in DOMAIN (r.s).alias
  <2>1. i \in DOMAIN (r.s).alias
    BY <1>1, <1>3, <1>4, <1>5 DEF Found
  <2>2. CASE respSeen = {}
    <3>1. Len(respConv.calls) = 0
      BY <1>5, <2>2 DEF Sole
    <3> QED
      BY <1>1, <1>2, <1>3, <2>1, <3>1 DEF Found
  <2>3. CASE respSeen # {}
    <3>1. c \in respSeen
      BY <1>5, <2>3
    <3>2. Len(respConv.calls) = 1 /\ i \in DOMAIN respConv.alias
      BY <1>5, <3>1 DEF Sole
    <3>3. Len((r.s).calls) = Len(respConv.calls)
      BY <1>1, <1>3, <1>5, <3>2 DEF Found
    <3> QED
      BY <2>1, <3>2, <3>3
  <2> QED
    BY <2>2, <2>3
<1>6. Covers(respDialect, r.s, respSeen \cup {c})
  BY <1>5 DEF Covers, i
<1> QED
  BY Zenon, <1>4, <1>6 DEF r, names

\* So is the call a fragment is of.
LEMMA FragmentsCall ==
  ASSUME NEW b, NEW p, Good(b, p, respConv), Sole(respDialect, respConv, respSeen), ~ respConv.error,
         respDialect \in Resp!Dialects, NEW c \in respSeen
  PROVE  LET r == Resp!Resolve(respConv, Resp!DeltaNames(c), TRUE)
         IN  Good(b, p, r.s) /\ r.key \in 1..Len((r.s).calls) /\ Covers(respDialect, r.s, respSeen)
<1> DEFINE names == Resp!DeltaNames(c)
           r == Resp!Resolve(respConv, names, TRUE)
<1>1. /\ Listed(names) /\ (respDialect = "anonymous" => names = <<>>) /\ (respDialect # "anonymous" => names # <<>>)
  BY DeltaNamesListed
<1> HIDE DEF names
<1>2. PICK create \in BOOLEAN : create = TRUE
  BY Zenon
<1>3. Found(b, p, respConv, names, create, r)
  BY Zenon, <1>1, <1>2, Resolved
<1> HIDE DEF r
<1>4. CASE respDialect = "anonymous"
  <2>1. Len(respConv.calls) = 1 /\ \A x \in respSeen : <<"item", x>> \in DOMAIN respConv.alias
    BY <1>4 DEF Sole
  <2>2. r.key = 1 /\ Len((r.s).calls) = 1 /\ DOMAIN respConv.alias \subseteq DOMAIN (r.s).alias /\ Good(b, p, r.s)
    BY <1>1, <1>3, <1>4, <2>1 DEF Found
  <2>3. Covers(respDialect, r.s, respSeen)
    BY <2>1, <2>2 DEF Covers
  <2>4. r.key \in 1..Len((r.s).calls)
    BY <2>2
  <2> QED
    BY Zenon, <2>2, <2>3, <2>4 DEF r, names
<1>5. CASE respDialect # "anonymous"
  <2>1. r.key # 0 /\ r.key \in 1..Len((r.s).calls) /\ Good(b, p, r.s)
    BY <1>1, <1>2, <1>3, <1>5 DEF Found
  <2>2. Covers(respDialect, r.s, respSeen)
    BY <1>5 DEF Covers
  <2> QED
    BY Zenon, <2>1, <2>2 DEF r, names
<1> QED
  BY Zenon, <1>4, <1>5

-----------------------------------------------------------------------------
\* One step for each of the upstream's events.
LEMMA RespReady ==
  ASSUME RespInv, respPhase \in {"run", "over"}
  PROVE  /\ Good(respSent, Cat(respSent, Resp!Begun), respConv) /\ Sole(respDialect, respConv, respSeen)
         /\ respDialect \in Resp!Dialects /\ respSeen \subseteq ToolCalls
BY RespBegun DEF RespInv

LEMMA RespContent ==
  ASSUME RespInv, NEW kind \in {"text", "thinking"}, NEW refusal, Resp!Content(kind, refusal)
  PROVE  RespSends
<1> DEFINE p == Cat(respSent, Resp!Begun)
           piece == Len(respGiven.text) + 1
           s == [respConv EXCEPT !.refused = @ \/ refusal]
           r == Chat!EmitContent(s, kind, piece)
           w == <<kind, piece>>
<1>1. respPhase = "run" /\ Resp!Event(r) /\ respSeen' = respSeen
  BY SameContent DEF Resp!Content
<1>2. Good(respSent, p, respConv) /\ Sole(respDialect, respConv, respSeen) /\ respSeen \subseteq ToolCalls
  BY <1>1, RespReady
<1> HIDE DEF piece, p
<1>3. DOMAIN s = DOMAIN respConv /\ \A f \in DOMAIN respConv : f # "refused" => s[f] = respConv[f]
  BY DEF RespInv
<1> HIDE DEF s
<1>4. /\ s.index = respConv.index /\ s.kind = respConv.kind /\ s.open = respConv.open /\ s.out = respConv.out
      /\ s.live = respConv.live /\ s.deferred = respConv.deferred /\ s.alias = respConv.alias
      /\ s.calls = respConv.calls /\ s.error = respConv.error
  BY <1>2, <1>3 DEF Good, RespConv
<1>5. Wrote(respSent, p, s) /\ RespConv(s)
  <2>1. Wrote(respSent, p, s)
    BY <1>2, <1>3, <1>4, Unwritten DEF Good
  <2> QED
    BY <1>2, <1>3, <1>4, <2>1 DEF Good, RespConv
<1>6. /\ Wrote(respSent, p, r) /\ DOMAIN r = DOMAIN s
      /\ \A f \in DOMAIN s : f \notin {"index", "kind", "open", "cited", "out", "deferred"} => r[f] = s[f]
      /\ s.live # 0 => r.index = s.index /\ r.kind = s.kind /\ r.open = s.open /\ r.deferred = Append(s.deferred, w)
      /\ s.live = 0 => r.deferred = s.deferred
  BY <1>5, ContentWrites DEF TextKinds
<1>7. w[1] \in TextKinds
  BY DEF TextKinds
<1> HIDE DEF r, w
<1>8. r.live = s.live /\ r.calls = s.calls /\ r.alias = s.alias /\ r.error = s.error
  BY <1>5, <1>6 DEF RespConv
<1>9. Waiting(r.deferred)
  <2> DEFINE q == s.deferred
  <2>1. Listed(q) /\ Waiting(q) /\ \A j \in 1..Len(q) : q[j][1] \in TextKinds
    BY <1>5 DEF RespConv, Waiting
  <2>2. CASE s.live = 0
    BY <1>6, <2>1, <2>2
  <2>3. CASE s.live # 0
    <3> HIDE DEF q
    <3>1. /\ Listed(Append(q, w)) /\ Len(Append(q, w)) = Len(q) + 1 /\ Len(q) \in Nat
          /\ Append(q, w)[Len(q) + 1] = w /\ \A j \in 1..Len(q) : Append(q, w)[j] = q[j]
      BY <2>1, ListedAppend, ListedLen
    <3>2. Waiting(Append(q, w))
      BY <1>7, <2>1, <3>1 DEF Waiting
    <3> QED
      BY Zenon, <1>6, <2>3, <3>2 DEF q
  <2> QED
    BY <2>2, <2>3
<1>10. RespConv(r)
  BY <1>5, <1>6, <1>8, <1>9 DEF RespConv
<1>11. Sole(respDialect, r, respSeen')
  BY <1>1, <1>2, <1>4, <1>8 DEF Sole
<1> QED
  BY <1>1, <1>2, <1>6, <1>10, <1>11, RespEvent DEF Good, p

LEMMA RespItemAdded ==
  ASSUME RespInv, NEW c \in ToolCalls, NEW name, Resp!ItemAdded(c, name)
  PROVE  RespSends
<1> DEFINE p == Cat(respSent, Resp!Begun)
           r == Resp!Resolve(respConv, Resp!ItemNames(c), TRUE)
           item == Resp!Item(c, name)
           t == Resp!Identify(r.s, r.key, item)
           u == Resp!MaybeOpenLive(t)
<1>1. /\ respPhase = "run" /\ Resp!Event(u) /\ respSeen' = respSeen \cup {c}
      /\ respDialect = "anonymous" => respSeen = {}
  BY Zenon DEF Resp!ItemAdded
<1>2. Good(respSent, p, respConv) /\ Sole(respDialect, respConv, respSeen) /\ respSeen \subseteq ToolCalls
  BY <1>1, RespReady
<1> HIDE DEF p, item
<1>3. ASSUME ~ respConv.error PROVE Good(respSent, p, u) /\ Sole(respDialect, u, respSeen')
  <2>1. Good(respSent, p, r.s) /\ r.key \in 1..Len((r.s).calls) /\ Covers(respDialect, r.s, respSeen \cup {c})
    BY Zenon, <1>1, <1>2, <1>3, ItemFound
  <2> HIDE DEF r
  <2>2. Passed(respSent, p, r.s, t)
    BY <2>1, Identified
  <2> HIDE DEF t
  <2>3. Passed(respSent, p, t, u)
    BY <2>2, LiveOpened DEF Passed
  <2> HIDE DEF u
  <2>4. Passed(respSent, p, r.s, u)
    BY <2>2, <2>3, PassedOn
  <2>5. Good(respSent, p, u) /\ Len(u.calls) = Len((r.s).calls) /\ u.alias = (r.s).alias
    BY <2>4 DEF Passed
  <2> QED
    BY <1>1, <2>1, <2>5, CoversSole
<1> HIDE DEF u
<1> QED
  BY <1>1, <1>2, <1>3, RespEvent DEF p

LEMMA RespArgumentsDelta ==
  ASSUME RespInv, NEW c \in ToolCalls, Resp!ArgumentsDelta(c)
  PROVE  RespSends
<1> DEFINE p == Cat(respSent, Resp!Begun)
           r == Resp!Resolve(respConv, Resp!DeltaNames(c), TRUE)
           piece == <<Len(respGiven.calls[c]) + 1>>
           all == (r.s).calls[r.key].args \o piece
           s == Given(r.s, r.key, all)
           y == SentFor(s, s.calls[r.key].block, piece)
           u == IF respConv.calls[r.key].done THEN r.s ELSE IF r.key = (r.s).live THEN y ELSE Resp!MaybeOpenLive(s)
<1>0. [r.s EXCEPT !.calls[r.key].args = @ \o piece] = s
  BY DEF Given
<1>1. /\ respPhase = "run" /\ respSeen' = respSeen /\ c \in respSeen
      /\ Resp!Event(IF respConv.calls[r.key].done THEN r.s
                    ELSE IF r.key = s.live THEN Resp!Yield(s, <<Resp!Delta(s.calls[r.key].block, "json", piece)>>)
                    ELSE Resp!MaybeOpenLive(s))
  <2> HIDE DEF s
  <2> QED
    BY Zenon, <1>0 DEF Resp!ArgumentsDelta
<1>2. Good(respSent, p, respConv) /\ Sole(respDialect, respConv, respSeen) /\ respSeen \subseteq ToolCalls
      /\ respDialect \in Resp!Dialects
  BY Zenon, <1>1, RespReady
<1> DEFINE v == IF respConv.calls[r.key].done THEN r.s ELSE IF r.key = s.live THEN y ELSE Resp!MaybeOpenLive(s)
<1>3. Resp!Event(v)
  <2> HIDE DEF s, r
  <2> QED
    BY <1>1 DEF SentFor
<1> HIDE DEF p, piece, all
<1>4. ASSUME ~ respConv.error PROVE Good(respSent, p, v) /\ Sole(respDialect, v, respSeen')
  <2>1. Good(respSent, p, r.s) /\ r.key \in 1..Len((r.s).calls) /\ Covers(respDialect, r.s, respSeen)
    BY Zenon, <1>1, <1>2, <1>4, FragmentsCall
  <2> HIDE DEF r
  <2>2. Passed(respSent, p, r.s, s)
    BY <2>1, ArgumentsNoted
  <2> HIDE DEF s
  <2>8. Good(respSent, p, s) /\ r.key \in 1..Len(s.calls)
    BY <2>1, <2>2 DEF Passed
  <2>3. ASSUME r.key = s.live PROVE Passed(respSent, p, s, y)
    BY Zenon, <2>3, <2>8, LiveSent
  <2>4. Passed(respSent, p, s, Resp!MaybeOpenLive(s))
    BY <2>8, LiveOpened
  <2>5. Passed(respSent, p, r.s, r.s)
    BY <2>1 DEF Passed
  <2> HIDE DEF y
  <2>6. Passed(respSent, p, r.s, v)
    BY <2>2, <2>3, <2>4, <2>5, PassedOn
  <2> HIDE DEF v
  <2>7. Good(respSent, p, v) /\ Len(v.calls) = Len((r.s).calls) /\ v.alias = (r.s).alias
    BY <2>6 DEF Passed
  <2> QED
    BY <1>1, <2>1, <2>7, CoversSole
<1> HIDE DEF v
<1> QED
  BY <1>1, <1>2, <1>3, <1>4, RespEvent DEF p

\* An item or its arguments are done: what the call then has, and that no more comes.
LEMMA RespDone ==
  ASSUME RespInv, NEW c \in ToolCalls, NEW names, NEW item, Resp!Done(c, names, item), respSeen' = respSeen \cup {c},
         ASSUME NEW b, NEW p, Good(b, p, respConv), Sole(respDialect, respConv, respSeen), ~ respConv.error
         PROVE  LET r == Resp!Resolve(respConv, names, TRUE)
                IN  Good(b, p, r.s) /\ r.key \in 1..Len((r.s).calls) /\ Covers(respDialect, r.s, respSeen')
  PROVE  RespSends
<1> DEFINE p == Cat(respSent, Resp!Begun)
           r == Resp!Resolve(respConv, names, TRUE)
           i == Resp!Identify(r.s, r.key, item)
           Whole(args) == [Resp!ApplySnapshot(i, r.key, args) EXCEPT !.calls[r.key].done = TRUE]
<1>1. PICK args : Resp!Event(IF Whole(args).error THEN Whole(args) ELSE Resp!MaybeOpenLive(Whole(args)))
  BY Zenon DEF Resp!Done
<1> DEFINE s == Resp!ApplySnapshot(i, r.key, args)
           d == Whole(args)
           v == IF d.error THEN d ELSE Resp!MaybeOpenLive(d)
<1>2. Resp!Event(v) /\ respPhase = "run"
  BY Zenon, <1>1 DEF Resp!Done
<1>3. Good(respSent, p, respConv) /\ Sole(respDialect, respConv, respSeen) /\ respSeen' \subseteq ToolCalls
  BY <1>2, RespReady
<1> HIDE DEF p
<1>4. ASSUME ~ respConv.error PROVE Good(respSent, p, v) /\ Sole(respDialect, v, respSeen')
  <2>1. Good(respSent, p, r.s) /\ r.key \in 1..Len((r.s).calls) /\ Covers(respDialect, r.s, respSeen')
    BY Zenon, <1>3, <1>4
  <2> HIDE DEF r
  <2>2. Passed(respSent, p, r.s, i)
    BY <2>1, Identified
  <2> HIDE DEF i
  <2>3. Passed(respSent, p, i, s)
    BY <2>1, <2>2, SnapshotApplied DEF Passed
  <2> HIDE DEF s
  <2>4. Passed(respSent, p, s, d)
    <3>1. Good(respSent, p, s) /\ r.key \in 1..Len(s.calls)
      BY <2>1, <2>2, <2>3 DEF Passed
    <3>2. d = [s EXCEPT !.calls[r.key].done = TRUE]
      BY DEF s
    <3> HIDE DEF d
    <3> QED
      BY <3>1, <3>2, DoneNoted
  <2> HIDE DEF d
  <2>5. Passed(respSent, p, d, Resp!MaybeOpenLive(d)) /\ Passed(respSent, p, d, d)
    BY <2>4, LiveOpened DEF Passed
  <2>6. Passed(respSent, p, d, v)
    BY <2>5
  <2> HIDE DEF v
  <2>7. Good(respSent, p, v) /\ Len(v.calls) = Len((r.s).calls) /\ v.alias = (r.s).alias
    BY <2>2, <2>3, <2>4, <2>6 DEF Passed
  <2> QED
    BY <2>1, <2>7, CoversSole
<1> HIDE DEF v
<1> QED
  BY Zenon, <1>2, <1>3, <1>4, RespEvent DEF p

LEMMA RespArgumentsDone ==
  ASSUME RespInv, NEW c \in ToolCalls, Resp!ArgumentsDone(c)
  PROVE  RespSends
<1> DEFINE names == Resp!DeltaNames(c)
           item == Resp!Fragment
<1>1. c \in respSeen /\ respSeen' = respSeen /\ Resp!Done(c, names, item) /\ respDialect \in Resp!Dialects
  BY DEF Resp!ArgumentsDone, RespInv
<1>2. ASSUME NEW b, NEW p, Good(b, p, respConv), Sole(respDialect, respConv, respSeen), ~ respConv.error
      PROVE  LET r == Resp!Resolve(respConv, names, TRUE)
             IN  Good(b, p, r.s) /\ r.key \in 1..Len((r.s).calls) /\ Covers(respDialect, r.s, respSeen')
  BY Zenon, <1>1, <1>2, FragmentsCall
<1>3. respSeen' = respSeen \cup {c}
  BY <1>1
<1> HIDE DEF names, item
<1> QED
  BY Zenon, <1>1, <1>2, <1>3, RespDone

LEMMA RespItemDone ==
  ASSUME RespInv, NEW c \in ToolCalls, Resp!ItemDone(c)
  PROVE  RespSends
<1> DEFINE names == Resp!ItemNames(c)
           item == Resp!Item(c, TRUE)
<1>1. respSeen' = respSeen \cup {c} /\ Resp!Done(c, names, item) /\ (respDialect = "anonymous" => respSeen \subseteq {c})
  BY Zenon DEF Resp!ItemDone
<1>2. ASSUME NEW b, NEW p, Good(b, p, respConv), Sole(respDialect, respConv, respSeen), ~ respConv.error
      PROVE  LET r == Resp!Resolve(respConv, names, TRUE)
             IN  Good(b, p, r.s) /\ r.key \in 1..Len((r.s).calls) /\ Covers(respDialect, r.s, respSeen')
  BY Zenon, <1>1, <1>2, ItemFound
<1> HIDE DEF names, item
<1> QED
  BY Zenon, <1>1, <1>2, RespDone

LEMMA RespTerminal ==
  ASSUME RespInv, Resp!Terminal
  PROVE  RespSends
<1>1. PICK final : Resp!Event(Resp!CompleteAll(respConv, final))
  BY DEF Resp!Terminal
<1> DEFINE p == Cat(respSent, Resp!Begun)
           r == Resp!CompleteAll(respConv, final)
<1>2. respPhase = "run" /\ respSeen' = respSeen
  BY DEF Resp!Terminal
<1>3. Good(respSent, p, respConv) /\ Sole(respDialect, respConv, respSeen) /\ respSeen \subseteq ToolCalls
  BY <1>2, RespReady
<1> HIDE DEF p
<1>4. Kin(respSent, p, respConv, r)
  BY <1>3, AllCompleted
<1> HIDE DEF r
<1>5. ASSUME ~ respConv.error PROVE Good(respSent, p, r) /\ Sole(respDialect, r, respSeen')
  BY <1>2, <1>3, <1>4, <1>5 DEF Kin, Sole
<1> QED
  BY <1>1, <1>2, <1>3, <1>5, RespEvent DEF p, r

LEMMA RespFailed ==
  ASSUME RespInv, Resp!Failed
  PROVE  RespSends
<1> DEFINE p == Cat(respSent, Resp!Begun)
           r == Resp!Fail(respConv)
<1>1. respPhase = "run" /\ respSeen' = respSeen /\ Resp!Event(r)
  BY DEF Resp!Failed
<1>2. Good(respSent, p, respConv) /\ Sole(respDialect, respConv, respSeen) /\ respSeen \subseteq ToolCalls
  BY <1>1, RespReady
<1> HIDE DEF p
<1>3. Passed(respSent, p, respConv, r)
  BY <1>2, FailNoted
<1> HIDE DEF r
<1>4. ASSUME ~ respConv.error PROVE Good(respSent, p, r) /\ Sole(respDialect, r, respSeen')
  BY <1>1, <1>2, <1>3, <1>4 DEF Passed, Sole
<1> QED
  BY <1>1, <1>2, <1>4, RespEvent DEF p

LEMMA RespEnd ==
  ASSUME RespInv, Resp!End
  PROVE  RespSends
<1>1. PICK outcome : respSent' = respSent \o Resp!Begun \o Resp!StreamEnd([respConv EXCEPT !.finish = outcome]).out
  BY Zenon DEF Resp!End
<1> DEFINE p == Cat(respSent, Resp!Begun)
           s == [respConv EXCEPT !.finish = outcome]
           r == Resp!StreamEnd(s)
<1>2. /\ respSent' = Cat(p, r.out) /\ respPhase \in {"run", "over"} /\ respPhase' = "ended"
      /\ respSeen' = respSeen /\ respDialect' = respDialect
  BY Zenon, <1>1 DEF Resp!End, Cat
<1>3. Good(respSent, p, respConv) /\ respSeen \subseteq ToolCalls /\ respDialect \in Resp!Dialects
  BY <1>2, RespReady
<1>4. Listed(respSent)
  BY DEF RespInv
<1> HIDE DEF p, r
<1>5. DOMAIN s = DOMAIN respConv /\ \A f \in DOMAIN respConv : f # "finish" => s[f] = respConv[f]
  OBVIOUS
<1> HIDE DEF s
<1>6. /\ s.index = respConv.index /\ s.kind = respConv.kind /\ s.open = respConv.open /\ s.out = respConv.out
      /\ s.live = respConv.live /\ s.deferred = respConv.deferred /\ s.alias = respConv.alias
      /\ s.calls = respConv.calls
  BY <1>3, <1>5 DEF Good, RespConv
<1>7. Good(respSent, p, s)
  <2>1. Wrote(respSent, p, s)
    BY <1>3, <1>5, <1>6, Unwritten DEF Good
  <2> QED
    BY <1>3, <1>5, <1>6, <2>1 DEF Good, RespConv
<1>8. Listed(Cat(p, r.out)) /\ Sends(respSent, Cat(p, r.out))
  BY <1>7, RespEnds DEF r
<1> QED
  BY <1>2, <1>3, <1>4, <1>8, RespSent DEF RespSends, RespInv

LEMMA RespAbort ==
  ASSUME RespInv, Resp!Abort
  PROVE  RespSends
<1> DEFINE p == Cat(respSent, Resp!Begun)
           x == [e |-> "error"]
<1>1. /\ respPhase = "run" /\ respPhase' = "left" /\ (respSent' = respSent \/ respSent' = Cat(p, <<x>>))
      /\ respSeen' = respSeen /\ respDialect' = respDialect /\ x.e = "error"
  BY DEF Resp!Abort, Cat
<1>2. Wrote(respSent, p, respConv) /\ Listed(respSent) /\ respConv.out = <<>>
      /\ respSeen \subseteq ToolCalls /\ respDialect \in Resp!Dialects
  BY <1>1, RespBegun DEF RespInv, Good
<1> HIDE DEF p, x
<1>3. Listed(p) /\ Cat(p, <<>>) = p /\ Cat(p, <<x>>) = Plus(p, x)
  <2>1. Listed(p) /\ Listed(<<>>)
    BY <1>2, ListedNone DEF Wrote
  <2>2. p \o <<>> = p /\ p \o <<x>> = Append(p, x)
    BY <2>1 DEF Listed
  <2> QED
    BY <2>1, <2>2 DEF Cat, Plus
<1>4. Goes(respSent, p, respConv.index, At(respConv))
  BY <1>2, <1>3 DEF Wrote
<1>5. Sends(respSent, Plus(p, x)) /\ Listed(Plus(p, x))
  BY <1>1, <1>4, Ending
<1>6. Listed(respSent') /\ [Resp!Blocks!Send]_respSent
  BY <1>1, <1>2, <1>3, <1>5, RespSent
<1> QED
  BY <1>1, <1>2, <1>6 DEF RespSends, RespInv

LEMMA RespStep == RespInv /\ Resp!Next => RespSends
BY Zenon, RespContent, RespItemAdded, RespArgumentsDelta, RespArgumentsDone, RespItemDone, RespTerminal, RespFailed,
   RespEnd, RespAbort DEF Resp!Next

LEMMA RespStill == RespInv /\ UNCHANGED resp => RespSends
<1> SUFFICES ASSUME RespInv, UNCHANGED resp PROVE RespSends
  OBVIOUS
<1>1. respSent' = respSent /\ respConv' = respConv /\ respSeen' = respSeen /\ respDialect' = respDialect /\ respPhase' = respPhase
  BY DEF resp
<1>2. RespInv'
  BY <1>1 DEF RespInv, Writer, RespConv, Writing, At, Sole, Resp!Dialects
<1> QED
  BY <1>1, <1>2 DEF RespSends

-----------------------------------------------------------------------------
(***************************************************************************)
(* SearchLoop.  next numbers the blocks shown, across every round.         *)
(***************************************************************************)
\* What the search loop has open: the block of the model's being read, if it is shown.
KindOf(b) == IF b.k = "client" THEN "tool" ELSE "text"
LoopAt == IF reading /\ Search!Visible(turn[Len(turn)]) THEN KindOf(turn[Len(turn)]) ELSE "none"

\* Between two steps of the loop, that block is open and as many have begun as it counts.
LoopInv ==
  /\ native => surface = "anthropic"
  /\ surface # "anthropic" => loopSent = <<>>
  /\ loopPhase \notin {"read", "failed"} => ~ reading
  /\ surface = "anthropic" /\ loopPhase \notin {"done", "failed"} => Writing(loopSent, next, LoopAt)
  /\ surface = "anthropic" /\ loopPhase \in {"read", "search"} => loopSent # <<>>

LEMMA LoopStarts == Search!Init => LoopInv
<1> SUFFICES ASSUME Search!Init PROVE LoopInv
  OBVIOUS
<1>1. reading = FALSE /\ next = 0 /\ loopSent = <<>> /\ (native => surface = "anthropic")
      /\ loopPhase \in {"shortcut", "ask"}
  BY Zenon DEF Search!Init
<1>2. LoopAt = "none"
  BY <1>1 DEF LoopAt
<1>3. Writing(<<>>, 0, "none")
  BY ListedNone DEF Writing
<1> QED
  BY <1>1, <1>2, <1>3 DEF LoopInv

LEMMA LoopListed == ASSUME SearchInv PROVE Listed(loopSent)
BY DEF SearchInv, Listed

\* What a log has become when events are added one after the other.
LEMMA CatOne == ASSUME NEW l, NEW x, Listed(l) PROVE Cat(l, <<x>>) = Plus(l, x) /\ Listed(Plus(l, x)) /\ Listed(<<x>>)
<1>1. <<x>> \in Seq({x})
  OBVIOUS
<1>2. Listed(<<x>>)
  BY Zenon, <1>1 DEF Listed
<1>3. <<>> \in Seq({x}) /\ Cat(l, <<x>>) = Plus(l, x)
  BY DEF Listed, Cat, Plus
<1>4. Listed(Plus(l, x))
  BY ListedAppend DEF Plus
<1> QED
  BY <1>2, <1>3, <1>4

LEMMA CatNext ==
  ASSUME NEW l, NEW q, NEW x, Listed(l), Listed(q)
  PROVE  Cat(l, Plus(q, x)) = Plus(Cat(l, q), x) /\ Listed(Plus(q, x)) /\ Listed(Cat(l, q))
<1>1. Listed(Plus(q, x))
  BY ListedAppend DEF Plus
<1>2. PICK S : l \in Seq(S)
  BY DEF Listed
<1>3. PICK T : q \in Seq(T)
  BY DEF Listed
<1>4. l \in Seq(S \cup T \cup {x}) /\ q \in Seq(S \cup T \cup {x}) /\ x \in S \cup T \cup {x}
  BY <1>2, <1>3
<1>5. l \o q \in Seq(S \cup T \cup {x}) /\ l \o Append(q, x) = Append(l \o q, x)
  BY <1>4
<1>6. Listed(Cat(l, q)) /\ Cat(l, Plus(q, x)) = Plus(Cat(l, q), x)
  BY <1>5 DEF Listed, Cat, Plus
<1> QED
  BY <1>1, <1>6

\* A sequence is two others, one after the other.
LEMMA Halves ==
  ASSUME NEW S, NEW p \in Seq(S), NEW q \in Seq(S), NEW r \in Seq(S), Len(r) = Len(p) + Len(q),
         \A m \in 1..Len(p) : r[m] = p[m], \A m \in 1..Len(q) : r[Len(p) + m] = q[m]
  PROVE  r = p \o q
<1>1. p \o q \in Seq(S) /\ Len(p \o q) = Len(p) + Len(q) /\ Len(p) \in Nat /\ Len(q) \in Nat
  OBVIOUS
<1>2. ASSUME NEW m \in 1..Len(r) PROVE r[m] = (p \o q)[m]
  <2>1. CASE m <= Len(p)
    BY <1>1, <2>1
  <2>2. CASE m > Len(p)
    <3>1. m - Len(p) \in 1..Len(q) /\ Len(p) + (m - Len(p)) = m
      BY <1>1, <2>2
    <3>2. r[m] = q[m - Len(p)]
      BY <3>1
    <3>3. (p \o q)[m] = q[m - Len(p)]
      BY <1>1, <2>2, <3>1
    <3> QED
      BY <3>2, <3>3
  <2> QED
    BY <1>1, <2>1, <2>2
<1>3. Listed(r) /\ Listed(p \o q) /\ Len(r) = Len(p \o q)
  BY <1>1 DEF Listed
<1> QED
  BY <1>2, <1>3, ListedSame

LEMMA CatThree ==
  ASSUME NEW l, NEW a, NEW c, NEW d, Listed(l)
  PROVE  Cat(l, <<a, c, d>>) = Plus(Plus(Plus(l, a), c), d) /\ Listed(<<a, c, d>>)
<1>1. Cat(l, <<a>>) = Plus(l, a) /\ Listed(<<a>>)
  BY CatOne
<1>2. <<a, c>> = Plus(<<a>>, c) /\ <<a, c, d>> = Plus(<<a, c>>, d)
  BY DEF Plus
<1>3. Cat(l, <<a, c>>) = Plus(Plus(l, a), c) /\ Listed(<<a, c>>)
  BY <1>1, <1>2, CatNext
<1> QED
  BY <1>2, <1>3, CatNext

LEMMA CatFive ==
  ASSUME NEW l, NEW a, NEW c, NEW d, NEW f, NEW g, Listed(l)
  PROVE  Cat(l, <<a, c, d, f, g>>) = Plus(Plus(Plus(Plus(Plus(l, a), c), d), f), g) /\ Listed(<<a, c, d, f, g>>)
<1>1. Cat(l, <<a, c, d>>) = Plus(Plus(Plus(l, a), c), d) /\ Listed(<<a, c, d>>)
  BY CatThree
<1>2. <<a, c, d, f>> = Plus(<<a, c, d>>, f) /\ <<a, c, d, f, g>> = Plus(<<a, c, d, f>>, g)
  BY DEF Plus
<1>3. Cat(l, <<a, c, d, f>>) = Plus(Plus(Plus(Plus(l, a), c), d), f) /\ Listed(<<a, c, d, f>>)
  BY <1>1, <1>2, CatNext
<1> QED
  BY <1>2, <1>3, CatNext

\* A search and its result, shown as two blocks.
LEMMA NativeWrites ==
  ASSUME NEW b, NEW l, NEW n, Goes(b, l, n, "none")
  PROVE  Goes(b, Cat(l, Search!NativeEvents(n)), n + 2, "none")
<1> DEFINE s1 == [e |-> "start", i |-> n, k |-> "search", id |-> None]
           d1 == [e |-> "delta", i |-> n, k |-> "json"]
           z1 == [e |-> "stop", i |-> n]
           s2 == [e |-> "start", i |-> n + 1, k |-> "result", id |-> None]
           z2 == [e |-> "stop", i |-> n + 1]
<1>1. Search!NativeEvents(n) = <<s1, d1, z1, s2, z2>>
  BY DEF Search!NativeEvents
<1>2. /\ s1.e = "start" /\ s1.i = n /\ s1.k = "search" /\ d1.e = "delta" /\ d1.i = n /\ d1.k = "json"
      /\ z1.e = "stop" /\ z1.i = n /\ s2.e = "start" /\ s2.i = n + 1 /\ s2.k = "result"
      /\ z2.e = "stop" /\ z2.i = n + 1
  OBVIOUS
<1> HIDE DEF s1, d1, z1, s2, z2
<1>3. n \in Nat /\ Listed(l) /\ (n + 1) - 1 = n /\ (n + 2) - 1 = n + 1 /\ (n + 1) + 1 = n + 2
  BY DEF Goes, Writing
<1>4. Cat(l, <<s1, d1, z1, s2, z2>>) = Plus(Plus(Plus(Plus(Plus(l, s1), d1), z1), s2), z2)
  BY <1>3, CatFive
<1>5. Goes(b, Plus(l, s1), n + 1, "search")
  BY <1>2, Starting
<1>6. "json" \in Chat!Blocks!Fits["search"]
  BY DEF Chat!Blocks!Fits
<1>7. Goes(b, Plus(Plus(l, s1), d1), n + 1, "search")
  BY <1>2, <1>3, <1>5, <1>6, Passing
<1>8. Goes(b, Plus(Plus(Plus(l, s1), d1), z1), n + 1, "none")
  BY <1>2, <1>3, <1>7, Stopping
<1>9. Goes(b, Plus(Plus(Plus(Plus(l, s1), d1), z1), s2), n + 2, "result")
  BY <1>2, <1>3, <1>8, Starting
<1>10. Goes(b, Plus(Plus(Plus(Plus(Plus(l, s1), d1), z1), s2), z2), n + 2, "none")
  BY <1>2, <1>3, <1>9, Stopping
<1> QED
  BY <1>1, <1>4, <1>10

\* The searches of a round, one after the other.
LEMMA SearchesInTurn ==
  ASSUME NEW i \in Nat, NEW n \in Nat
  PROVE  /\ Search!NativeSearches(i, n + 1) = Cat(Search!NativeSearches(i, n), Search!NativeEvents(i + 2 * n))
         /\ Search!NativeSearches(i, 0) = <<>> /\ Listed(Search!NativeSearches(i, n)) /\ Listed(Search!NativeEvents(i + 2 * n))
<1>1. \A j, m \in Nat : Search!NativeSearches(j, m) \in Seq(Own) /\ Len(Search!NativeSearches(j, m)) = 5 * m
  <2> TAKE j, m \in Nat
  <2>1. Search!NativeSearches(j, m) \in Seq(Own) /\ 5 * m \in Nat
    BY SearchesShown
  <2>2. DOMAIN Search!NativeSearches(j, m) = 1..(5 * m)
    BY DEF Search!NativeSearches
  <2> QED
    BY <2>1, <2>2
<1>2. i + 2 * n \in Int /\ 5 * n \in Nat /\ 5 * (n + 1) = 5 * n + 5 /\ n + 1 \in Nat
  OBVIOUS
<1>3. Search!NativeEvents(i + 2 * n) \in Seq(Own) /\ Len(Search!NativeEvents(i + 2 * n)) = 5
  BY <1>2, NativeShown
<1>4. /\ Search!NativeSearches(i, n) \in Seq(Own) /\ Search!NativeSearches(i, n + 1) \in Seq(Own)
      /\ Len(Search!NativeSearches(i, n)) = 5 * n /\ Len(Search!NativeSearches(i, n + 1)) = 5 * n + 5
  BY Zenon, <1>1, <1>2
<1>5. ASSUME NEW m \in 1..(5 * n)
      PROVE  Search!NativeSearches(i, n + 1)[m] = Search!NativeSearches(i, n)[m]
  BY <1>2 DEF Search!NativeSearches
<1>6. ASSUME NEW m \in 1..5
      PROVE  Search!NativeSearches(i, n + 1)[5 * n + m] = Search!NativeEvents(i + 2 * n)[m]
  <2>1. 5 * n + m \in 1..(5 * (n + 1)) /\ ((5 * n + m) - 1) \div 5 = n /\ 1 + (((5 * n + m) - 1) % 5) = m
    BY <1>2
  <2> QED
    BY <2>1 DEF Search!NativeSearches
<1> DEFINE p == Search!NativeSearches(i, n)
           q == Search!NativeEvents(i + 2 * n)
           r == Search!NativeSearches(i, n + 1)
<1>7. r = p \o q
  <2> HIDE DEF p, q, r
  <2>1. p \in Seq(Own) /\ q \in Seq(Own) /\ r \in Seq(Own) /\ Len(p) = 5 * n /\ Len(q) = 5 /\ Len(r) = 5 * n + 5
    BY <1>3, <1>4 DEF p, q, r
  <2>2. \A m \in 1..(5 * n) : r[m] = p[m]
    BY <1>5 DEF p, r
  <2>3. \A m \in 1..5 : r[5 * n + m] = q[m]
    BY <1>6 DEF q, r
  <2> QED
    <3>1. (\A m \in 1..Len(p) : r[m] = p[m]) /\ (\A m \in 1..Len(q) : r[Len(p) + m] = q[m]) /\ Len(r) = Len(p) + Len(q)
      BY <2>1, <2>2, <2>3
    <3> QED
      BY Zenon, <2>1, <3>1, Halves
<1>8. Search!NativeSearches(i, 0) = <<>>
  <2>1. Search!NativeSearches(i, 0) \in Seq(Own) /\ Len(Search!NativeSearches(i, 0)) = 0
    BY <1>1
  <2> QED
    BY <2>1
<1> QED
  BY Zenon, <1>3, <1>4, <1>7, <1>8 DEF Cat, Listed

LEMMA CatAgain ==
  ASSUME NEW l, NEW p, NEW q, Listed(l), Listed(p), Listed(q)
  PROVE  Cat(l, Cat(p, q)) = Cat(Cat(l, p), q) /\ Cat(l, <<>>) = l
<1>1. PICK S : l \in Seq(S)
  BY DEF Listed
<1>2. PICK T : p \in Seq(T)
  BY DEF Listed
<1>3. PICK U : q \in Seq(U)
  BY DEF Listed
<1>4. l \in Seq(S \cup T \cup U) /\ p \in Seq(S \cup T \cup U) /\ q \in Seq(S \cup T \cup U)
  BY <1>1, <1>2, <1>3
<1>5. l \o (p \o q) = (l \o p) \o q /\ l \o <<>> = l
  BY <1>4
<1> QED
  BY <1>5 DEF Cat

LEMMA SearchesWrite ==
  ASSUME NEW b, NEW l, NEW i, Goes(b, l, i, "none"), NEW n \in Nat
  PROVE  Goes(b, Cat(l, Search!NativeSearches(i, n)), i + 2 * n, "none")
<1> DEFINE P == {m \in Nat : Goes(b, Cat(l, Search!NativeSearches(i, m)), i + 2 * m, "none")}
<1>1. i \in Nat /\ Listed(l)
  BY DEF Goes, Writing
<1>2. 0 \in P
  <2>1. Search!NativeSearches(i, 0) = <<>> /\ Cat(l, <<>>) = l /\ i + 2 * 0 = i
    <3>1. Search!NativeSearches(i, 0) = <<>>
      BY <1>1, SearchesInTurn
    <3>2. Cat(l, <<>>) = l
      BY <1>1, CatAgain, ListedNone
    <3> QED
      BY <1>1, <3>1, <3>2
  <2> QED
    BY <2>1
<1>3. ASSUME NEW m \in Nat, m \in P PROVE m + 1 \in P
  <2> DEFINE p == Search!NativeSearches(i, m)
             q == Search!NativeEvents(i + 2 * m)
  <2>1. Search!NativeSearches(i, m + 1) = Cat(p, q) /\ Listed(p) /\ Listed(q)
    BY Zenon, <1>1, SearchesInTurn
  <2>2. Goes(b, Cat(Cat(l, p), q), (i + 2 * m) + 2, "none")
    BY <1>3, NativeWrites
  <2>3. (i + 2 * m) + 2 = i + 2 * (m + 1) /\ m + 1 \in Nat
    BY <1>1
  <2> HIDE DEF p, q
  <2>4. Cat(l, Cat(p, q)) = Cat(Cat(l, p), q)
    BY <1>1, <2>1, CatAgain
  <2> QED
    BY <2>1, <2>2, <2>3, <2>4
<1> HIDE DEF P
<1>4. n \in P
  BY <1>2, <1>3, Induction
<1> QED
  BY <1>4 DEF P

-----------------------------------------------------------------------------
\* What each step of SearchLoop is to show.
LoopSends == LoopInv' /\ [Search!Blocks!Send]_loopSent

LEMMA LoopLegal == ASSUME NEW l, NEW x PROVE Search!Blocks!Legal(l, x) <=> Chat!Blocks!Legal(l, x)
BY DEF Search!Blocks!Legal, Chat!Blocks!Legal, Search!Blocks!Over, Chat!Blocks!Over, Search!Blocks!Open, Chat!Blocks!Open,
       Search!Blocks!Starts, Chat!Blocks!Starts, Search!Blocks!Fits, Chat!Blocks!Fits

LEMMA LoopSent ==
  ASSUME Listed(loopSent), Listed(loopSent'), Sends(loopSent, loopSent')
  PROVE  [Search!Blocks!Send]_loopSent
BY SendsIsSend, LoopLegal DEF Search!Blocks!Send, Legal

\* What has been written so far is the start of what is written next.
LEMMA LoopGoes ==
  ASSUME SearchInv, LoopInv, surface = "anthropic", loopPhase \in {"read", "search"}
  PROVE  Goes(loopSent, loopSent, next, LoopAt)
BY LoopListed, SendsItself DEF LoopInv, Goes

\* A step after which the loop is where its invariant says.
LEMMA LoopGoesOn ==
  ASSUME LoopInv, Goes(loopSent, loopSent', next', LoopAt'), surface = "anthropic", UNCHANGED <<surface, native>>,
         loopPhase' \notin {"read", "failed"} => ~ reading'
  PROVE  LoopSends
<1>1. Listed(loopSent) /\ Listed(loopSent') /\ Sends(loopSent, loopSent') /\ loopSent' # <<>> /\ Writing(loopSent', next', LoopAt')
  BY DEF Goes
<1>2. LoopInv'
  BY <1>1 DEF LoopInv
<1> QED
  BY <1>1, <1>2, LoopSent DEF LoopSends

\* One that ends the message.
LEMMA LoopEnds ==
  ASSUME LoopInv, Listed(loopSent), Listed(loopSent'), Sends(loopSent, loopSent'), surface = "anthropic",
         UNCHANGED <<surface, native>>, loopPhase' = "failed" \/ (loopPhase' = "done" /\ ~ reading')
  PROVE  LoopSends
<1>1. LoopInv'
  BY DEF LoopInv
<1> QED
  BY <1>1, LoopSent DEF LoopSends

\* One that shows the client nothing.
LEMMA LoopQuiet ==
  ASSUME LoopInv, UNCHANGED <<surface, native, loopSent>>, 
         loopPhase' \notin {"read", "failed"} => ~ reading',
         surface = "anthropic" => \/ loopPhase' \in {"done", "failed"}
                                  \/ /\ loopPhase \notin {"done", "failed"} /\ next' = next /\ LoopAt' = LoopAt
                                     /\ loopPhase' \in {"read", "search"} => loopPhase \in {"read", "search"} \/ loopSent # <<>>
  PROVE  LoopSends
<1>1. LoopInv'
  BY DEF LoopInv
<1> QED
  BY <1>1 DEF LoopSends

\* Each action of SearchLoop in turn.
LEMMA LoopAsk ==
  ASSUME SearchInv, LoopInv, Search!Ask
  PROVE  LoopSends
<1>1. /\ loopPhase = "ask" /\ loopPhase' = "read" /\ UNCHANGED <<surface, native, reading>>
      /\ ~ reading
  BY DEF Search!Ask, Search!limits, LoopInv
<1>2. LoopAt = "none" /\ LoopAt' = "none"
  BY <1>1 DEF LoopAt
<1>3. CASE surface = "anthropic" /\ loopSent = <<>>
  <2> DEFINE x == [e |-> "message"]
  <2>1. loopSent' = Cat(<<x>>, IF shortcut THEN Search!NativeEvents(0) ELSE <<>>) /\ next' = IF shortcut THEN 2 ELSE 0
    BY <1>3 DEF Search!Ask, Cat
  <2>2. x.e = "message"
    OBVIOUS
  <2> HIDE DEF x
  <2>3. Writing(<<>>, next, "none")
    BY <1>1, <1>2, <1>3 DEF LoopInv
  <2>4. next = 0
    BY <2>3 DEF Writing
  <2>5. Goes(<<>>, <<x>>, 0, "none")
    BY <2>2, <2>3, <2>4, Beginning
  <2>6. Goes(<<>>, Cat(<<x>>, Search!NativeEvents(0)), 2, "none")
    BY <2>5, NativeWrites
  <2>7. Cat(<<x>>, <<>>) = <<x>>
    BY <2>5, CatAgain, ListedNone DEF Goes
  <2>8. Goes(loopSent, loopSent', next', LoopAt')
    <3>1. CASE shortcut
      BY <1>2, <1>3, <2>1, <2>6, <3>1
    <3>2. CASE ~ shortcut
      BY <1>2, <1>3, <2>1, <2>5, <2>7, <3>2
    <3> QED
      BY <3>1, <3>2
  <2> QED
    BY <1>1, <1>3, <2>8, LoopGoesOn
<1>4. CASE ~ (surface = "anthropic" /\ loopSent = <<>>)
  <2>1. UNCHANGED <<loopSent, next>>
    BY <1>4 DEF Search!Ask
  <2> QED
    BY <1>1, <1>2, <1>4, <2>1, LoopQuiet
<1> QED
  BY <1>3, <1>4

LEMMA LoopOpens ==
  ASSUME SearchInv, LoopInv, NEW k \in {"text", "client", "internal"}, NEW q, Search!OpenBlock(k, q)
  PROVE  LoopSends
<1> DEFINE b == [k |-> k, id |-> <<asks, Len(turn) + 1>>, q |-> q]
           x == [e |-> "start", i |-> next, id |-> b.id, k |-> IF k = "client" THEN "tool" ELSE "text"]
<1>1. /\ loopPhase = "read" /\ loopPhase' = "read" /\ ~ reading /\ reading' /\ UNCHANGED <<surface, native>>
      /\ turn' = Append(turn, b) /\ b.k = k
      /\ next' = IF Search!Visible(b) THEN next + 1 ELSE next
      /\ loopSent' = IF surface = "anthropic" /\ Search!Visible(b) THEN Plus(loopSent, x) ELSE loopSent
  BY DEF Search!OpenBlock, Search!limits, Search!OutIndex, Plus
<1>2. x.e = "start" /\ x.i = next /\ x.k = KindOf(b) /\ KindOf(b) \in {"tool", "text"}
  BY DEF KindOf
<1> HIDE DEF b, x
<1>3. LoopAt = "none" /\ LoopAt' = IF Search!Visible(b) THEN KindOf(b) ELSE "none"
  <2>1. turn \in Seq(Search!Block)
    BY DEF SearchInv, SearchTypes
  <2>2. turn'[Len(turn')] = b
    BY <1>1, <2>1
  <2> QED
    BY <1>1, <2>2 DEF LoopAt, KindOf
<1>4. CASE surface = "anthropic" /\ Search!Visible(b)
  <2>1. Goes(loopSent, loopSent, next, "none")
    BY <1>1, <1>3, <1>4, LoopGoes
  <2>2. Goes(loopSent, Plus(loopSent, x), next + 1, KindOf(b))
    BY <1>2, <2>1, Starting
  <2> QED
    BY <1>1, <1>3, <1>4, <2>2, LoopGoesOn
<1>5. CASE ~ (surface = "anthropic" /\ Search!Visible(b))
  BY <1>1, <1>3, <1>5, LoopQuiet
<1> QED
  BY <1>4, <1>5

LEMMA LoopCloses ==
  ASSUME SearchInv, LoopInv, Search!CloseBlock
  PROVE  LoopSends
<1> DEFINE b == turn[Len(turn)]
           d == [e |-> "delta", i |-> next - 1, k |-> IF b.k = "client" THEN "json" ELSE "text"]
           c == [e |-> "delta", i |-> next - 1, k |-> "citation"]
           z == [e |-> "stop", i |-> next - 1]
<1>1. /\ loopPhase = "read" /\ loopPhase' = "read" /\ reading /\ reading' = FALSE /\ UNCHANGED <<surface, native, next>>
  BY DEF Search!CloseBlock, Search!limits
<1>2. CASE surface = "anthropic" /\ Search!Visible(b)
  <2>1. loopSent' = loopSent \o <<d>> \o (IF b.k = "text" /\ native /\ executed > 0 THEN <<c>> ELSE <<>>) \o <<z>>
    BY <1>2 DEF Search!CloseBlock
  <2>2. /\ d.e = "delta" /\ d.i = next - 1 /\ d.k = (IF b.k = "client" THEN "json" ELSE "text")
        /\ c.e = "delta" /\ c.i = next - 1 /\ c.k = "citation" /\ z.e = "stop" /\ z.i = next - 1
    OBVIOUS
  <2>3. LoopAt = KindOf(b) /\ KindOf(b) # "none"
    BY <1>1, <1>2 DEF LoopAt, KindOf
  <2>4. d.k \in Chat!Blocks!Fits[KindOf(b)] /\ (b.k = "text" => c.k \in Chat!Blocks!Fits[KindOf(b)])
    BY <2>2 DEF KindOf, Chat!Blocks!Fits
  <2>5. Goes(loopSent, loopSent, next, KindOf(b)) /\ Listed(loopSent)
    BY <1>1, <1>2, <2>3, LoopGoes, LoopListed
  <2> HIDE DEF d, c, z, b
  <2>6. loopSent' = Plus(Plus(loopSent, d), z) \/ (b.k = "text" /\ loopSent' = Plus(Plus(Plus(loopSent, d), c), z))
    <3>1. Cat(loopSent, <<d>>) = Plus(loopSent, d) /\ Listed(Plus(loopSent, d))
      BY <2>5, CatOne
    <3>2. Cat(Plus(loopSent, d), <<c>>) = Plus(Plus(loopSent, d), c) /\ Listed(Plus(Plus(loopSent, d), c))
      BY <3>1, CatOne
    <3>3. Cat(Plus(Plus(loopSent, d), c), <<z>>) = Plus(Plus(Plus(loopSent, d), c), z)
      BY <3>2, CatOne
    <3>4. Cat(Plus(loopSent, d), <<z>>) = Plus(Plus(loopSent, d), z)
      BY <3>1, CatOne
    <3>5. Cat(Plus(loopSent, d), <<>>) = Plus(loopSent, d)
      BY <3>1, CatAgain, ListedNone
    <3>6. loopSent' = Cat(Cat(Cat(loopSent, <<d>>), IF b.k = "text" /\ native /\ executed > 0 THEN <<c>> ELSE <<>>), <<z>>)
      BY <2>1 DEF Cat
    <3> QED
      BY <3>1, <3>2, <3>3, <3>4, <3>5, <3>6
  <2>7. Goes(loopSent, Plus(loopSent, d), next, KindOf(b))
    BY <2>2, <2>3, <2>4, <2>5, Passing
  <2>8. Goes(loopSent, Plus(Plus(loopSent, d), z), next, "none")
    BY <2>2, <2>3, <2>7, Stopping
  <2>9. ASSUME b.k = "text" PROVE Goes(loopSent, Plus(Plus(Plus(loopSent, d), c), z), next, "none")
    <3>1. Goes(loopSent, Plus(Plus(loopSent, d), c), next, KindOf(b))
      BY <2>2, <2>3, <2>4, <2>7, <2>9, Passing
    <3> QED
      BY <2>2, <2>3, <3>1, Stopping
  <2>10. LoopAt' = "none"
    BY <1>1 DEF LoopAt
  <2>11. Goes(loopSent, loopSent', next', LoopAt')
    BY <1>1, <2>6, <2>8, <2>9, <2>10
  <2> QED
    BY <1>1, <1>2, <2>11, LoopGoesOn
<1>3. CASE ~ (surface = "anthropic" /\ Search!Visible(b))
  <2>1. loopSent' = loopSent
    BY <1>3 DEF Search!CloseBlock
  <2>2. surface = "anthropic" => LoopAt = "none"
    BY <1>3 DEF LoopAt
  <2>3. LoopAt' = "none"
    BY <1>1 DEF LoopAt
  <2> QED
    BY <1>1, <2>1, <2>2, <2>3, LoopQuiet
<1> QED
  BY <1>2, <1>3

LEMMA LoopFails ==
  ASSUME SearchInv, LoopInv, Search!Fail
  PROVE  LoopSends
<1> DEFINE x == [e |-> "error"]
<1>1. /\ loopPhase \in {"ask", "read"} /\ loopPhase' = "failed" /\ UNCHANGED <<surface, native>>
      /\ (surface = "anthropic" /\ loopSent' = Plus(loopSent, x)) \/ loopSent' = loopSent
  BY DEF Search!Fail, Search!limits, Plus
<1>2. x.e = "error"
  OBVIOUS
<1> HIDE DEF x
<1>3. CASE surface = "anthropic" /\ loopSent' = Plus(loopSent, x)
  <2>1. CASE loopSent = <<>>
    BY <1>1, <1>2, <1>3, <2>1, NoMessage, LoopListed, LoopEnds
  <2>2. CASE loopSent # <<>>
    <3>1. Goes(loopSent, loopSent, next, LoopAt)
      BY <1>1, <1>3, <2>2, LoopListed, SendsItself DEF LoopInv, Goes
    <3>2. Sends(loopSent, Plus(loopSent, x)) /\ Listed(Plus(loopSent, x))
      BY <1>2, <3>1, Ending
    <3> QED
      BY <1>1, <1>3, <3>2, LoopListed, LoopEnds
  <2> QED
    BY <2>1, <2>2
<1>4. CASE loopSent' = loopSent
  BY <1>1, <1>4, LoopQuiet
<1> QED
  BY <1>1, <1>3, <1>4

\* The text of a turn given up.
LEMMA TextWrites ==
  ASSUME NEW b, NEW l, NEW n, Goes(b, l, n, "none")
  PROVE  Goes(b, Cat(l, Search!TextEvents(n)), n + 1, "none")
<1> DEFINE x == [e |-> "start", i |-> n, k |-> "text", id |-> None]
           d == [e |-> "delta", i |-> n, k |-> "text"]
           z == [e |-> "stop", i |-> n]
<1>1. Search!TextEvents(n) = <<x, d, z>>
  BY DEF Search!TextEvents
<1>2. /\ x.e = "start" /\ x.i = n /\ x.k = "text" /\ d.e = "delta" /\ d.i = n /\ d.k = "text"
      /\ z.e = "stop" /\ z.i = n
  OBVIOUS
<1> HIDE DEF x, d, z
<1>3. n \in Nat /\ Listed(l) /\ (n + 1) - 1 = n
  BY DEF Goes, Writing
<1>4. Cat(l, <<x, d, z>>) = Plus(Plus(Plus(l, x), d), z)
  BY <1>3, CatThree
<1>5. Goes(b, Plus(l, x), n + 1, "text")
  BY <1>2, Starting
<1>6. "text" \in Chat!Blocks!Fits["text"]
  BY DEF Chat!Blocks!Fits
<1>7. Goes(b, Plus(Plus(l, x), d), n + 1, "text")
  BY <1>2, <1>3, <1>5, <1>6, Passing
<1>8. Goes(b, Plus(Plus(Plus(l, x), d), z), n + 1, "none")
  BY <1>2, <1>3, <1>7, Stopping
<1> QED
  BY <1>1, <1>4, <1>8

LEMMA LoopFinishes ==
  ASSUME SearchInv, LoopInv, NEW stop, NEW last, last \in {<<>>, Search!TextEvents(next)},
         loopPhase = "read", ~ reading, Search!Finish(stop, last)
  PROVE  LoopSends
<1> DEFINE x == [e |-> "end", reason |-> stop]
<1>1. /\ loopPhase' = "done" /\ UNCHANGED <<surface, native, reading>>
      /\ loopSent' = IF surface = "anthropic" THEN Cat(Cat(loopSent, last), <<x>>) ELSE loopSent
  BY DEF Search!Finish, Search!limits, Cat
<1>2. x.e = "end"
  OBVIOUS
<1> HIDE DEF x
<1>3. CASE surface = "anthropic"
  <2>1. Goes(loopSent, loopSent, next, "none") /\ Listed(loopSent)
    BY <1>3, LoopGoes, LoopListed DEF LoopAt
  <2>2. Cat(loopSent, <<>>) = loopSent
    BY <2>1, CatAgain, ListedNone
  <2>3. Goes(loopSent, Cat(loopSent, last), next, "none") \/ Goes(loopSent, Cat(loopSent, last), next + 1, "none")
    BY <2>1, <2>2, TextWrites
  <2>4. Listed(Cat(loopSent, last))
    BY <2>3 DEF Goes
  <2>5. Cat(Cat(loopSent, last), <<x>>) = Plus(Cat(loopSent, last), x)
    BY <2>4, CatOne
  <2>6. Sends(loopSent, Plus(Cat(loopSent, last), x)) /\ Listed(Plus(Cat(loopSent, last), x))
    BY <1>2, <2>3, Ending
  <2> QED
    BY <1>1, <1>3, <2>1, <2>5, <2>6, LoopEnds
<1>4. CASE surface # "anthropic"
  BY <1>1, <1>4, LoopQuiet
<1> QED
  BY <1>3, <1>4

LEMMA LoopSearches ==
  ASSUME SearchInv, LoopInv, Search!Search
  PROVE  LoopSends
<1> DEFINE n == Search!Cardinality(Search!Searches)
<1>1. /\ loopPhase = "search" /\ loopPhase' = "ask" /\ UNCHANGED <<surface, native, reading>> /\ ~ reading
  BY DEF Search!Search, Search!limits, LoopInv
<1>2. LoopAt = "none" /\ LoopAt' = "none"
  BY <1>1 DEF LoopAt
<1>3. CASE native
  <2>1. loopSent' = Cat(loopSent, Search!NativeSearches(next, n)) /\ next' = next + 2 * n
    BY <1>3 DEF Search!Search, Cat
  <2>2. n \in Nat
    BY SearchesFinite DEF SearchInv
  <2> HIDE DEF n
  <2>3. surface = "anthropic"
    BY <1>3 DEF LoopInv
  <2>4. Goes(loopSent, loopSent, next, "none")
    BY <1>1, <1>2, <2>3, LoopGoes
  <2>5. Goes(loopSent, Cat(loopSent, Search!NativeSearches(next, n)), next + 2 * n, "none")
    BY <2>2, <2>4, SearchesWrite
  <2> QED
    BY <1>1, <1>2, <2>1, <2>3, <2>5, LoopGoesOn
<1>4. CASE ~ native
  <2>1. UNCHANGED <<loopSent, next>>
    BY <1>4 DEF Search!Search
  <2> QED
    BY <1>1, <1>2, <2>1, LoopQuiet
<1> QED
  BY <1>3, <1>4

LEMMA LoopStep == SearchInv /\ LoopInv /\ [Search!Next]_(Search!vars) => LoopSends
<1> SUFFICES ASSUME SearchInv, LoopInv, [Search!Next]_(Search!vars) PROVE LoopSends
  OBVIOUS
<1>1. CASE Search!Shortcut
  <2>1. loopPhase = "shortcut" /\ loopPhase' = "ask" /\ UNCHANGED <<surface, native, reading, turn, next, loopSent>>
    BY <1>1 DEF Search!Shortcut, Search!limits, Search!shown
  <2>2. ~ reading' /\ LoopAt' = LoopAt
    BY <2>1 DEF LoopInv, LoopAt
  <2> QED
    BY <2>1, <2>2, LoopQuiet
<1>2. ASSUME NEW stop, Search!Answer(stop) PROVE LoopSends
  BY <1>2, LoopFinishes DEF Search!Answer, Search!Stopped
<1>3. ASSUME NEW stop, Search!HandOver(stop) PROVE LoopSends
  BY <1>3, LoopFinishes DEF Search!HandOver, Search!Stopped
<1>4. ASSUME NEW stop, Search!GiveUp(stop) PROVE LoopSends
  BY <1>4, LoopFinishes DEF Search!GiveUp, Search!Stopped
<1>5. ASSUME NEW stop, Search!Accept(stop) PROVE LoopSends
  <2>1. loopPhase = "read" /\ loopPhase' = "search" /\ ~ reading /\ UNCHANGED <<surface, native, reading, turn, next, loopSent>>
    BY <1>5 DEF Search!Accept, Search!Stopped, Search!limits, Search!shown
  <2>2. LoopAt' = LoopAt
    BY <2>1 DEF LoopAt
  <2> QED
    BY <2>1, <2>2, LoopQuiet
<1>6. CASE Search!NextTurn
  <2>1. loopPhase = "done" /\ surface = "responses" /\ UNCHANGED <<surface, native, reading, loopSent, loopPhase>>
    BY <1>6 DEF Search!NextTurn, Search!limits, Search!shown
  <2> QED
    BY <2>1, LoopQuiet DEF LoopInv
<1>8. CASE Search!Forget
  <2>1. loopPhase = "done" /\ UNCHANGED <<surface, native, reading, loopSent, loopPhase>>
    BY <1>8 DEF Search!Forget, Search!limits, Search!shown
  <2> QED
    BY <2>1, LoopQuiet DEF LoopInv
<1>7. CASE UNCHANGED Search!vars
  <2>1. UNCHANGED <<surface, native, reading, turn, next, loopSent, loopPhase>>
    BY <1>7 DEF Search!vars, Search!limits, Search!shown
  <2>2. LoopAt' = LoopAt
    BY <2>1 DEF LoopAt
  <2>3. LoopInv'
    BY <2>1, <2>2 DEF LoopInv
  <2> QED
    BY <2>1, <2>3 DEF LoopSends
<1> QED
  BY <1>1, <1>2, <1>3, <1>4, <1>5, <1>6, <1>7, <1>8, LoopAsk, LoopOpens, LoopCloses, LoopFails, LoopSearches DEF Search!Next

\* ChatStream in the composition: its own step, or one that leaves it alone.
LEMMA ChatInCalls == MCSpec => Chat!WellFormedMessage
<1>1. MCInit => ChatInv /\ chatSent = <<>>
  BY ChatStarts DEF MCInit, Chat!Init
<1>2. ChatInv /\ [MCNext]_<<vars, chat, resp, search, signIn, providers, part>> => ChatInv' /\ [Chat!Blocks!Send]_chatSent
  BY ChatStep, ChatStill DEF MCNext, ChatSends
<1> QED
  BY <1>1, <1>2, PTL DEF MCSpec, Chat!WellFormedMessage, Chat!Blocks!Spec

\* ResponsesStream in the composition.
LEMMA ResponsesInCalls == MCSpec => Resp!WellFormedMessage
<1>1. MCInit => RespInv /\ respSent = <<>>
  BY RespStarts DEF MCInit, Resp!Init
<1>2. RespInv /\ [MCNext]_<<vars, chat, resp, search, signIn, providers, part>> => RespInv' /\ [Resp!Blocks!Send]_respSent
  BY RespStep, RespStill DEF MCNext, RespSends
<1> QED
  BY <1>1, <1>2, PTL DEF MCSpec, Resp!WellFormedMessage, Resp!Blocks!Spec

\* SearchLoop in the composition.
LEMMA RoundsInCalls == MCSpec => Search!OneMessage
<1>1. Search!Init => SearchInv /\ LoopInv /\ loopSent = <<>>
  BY Zenon, SearchInit, LoopStarts DEF Search!Init
<1>2. SearchInv /\ [Search!Next]_(Search!vars) => SearchInv'
  BY SearchTypesStep, BoundedStep, NumberedStep, ReplayedStep, HandedStep, SentStep DEF SearchInv
<1>3. SearchInv /\ LoopInv /\ [Search!Next]_(Search!vars) => LoopInv' /\ [Search!Blocks!Send]_loopSent
  BY LoopStep DEF LoopSends
<1> QED
  BY <1>1, <1>2, <1>3, SearchInCalls, PTL DEF Search!OneMessage, Search!Blocks!Spec

\* Whatever an upstream interleaves, however its calls are named and repeated, and however
\* many rounds of searches a turn takes: what the client is sent is one well-formed
\* message, as BlockStream specifies it (anthropic_openai.py, websearch/loop.py).
THEOREM MessagesHold == MCSpec => OneMessage
  BY ChatInCalls, ResponsesInCalls, RoundsInCalls DEF OneMessage

-----------------------------------------------------------------------------
(***************************************************************************)
(* SignIn.  IdentityKeepsItsAccount and OneIdentityEach are not inductive: *)
(* whether a request may link depends on what it read earlier.  AccountsInv*)
(* adds that an account which records a subject has that subject's link    *)
(* (Recorded), that a linked account records one (Named), and what a       *)
(* request may still believe of the row it read (Fits).                    *)
(***************************************************************************)

\* What a request that is under way holds.
Asked   == [ph : {"asked", "unlinked", "new"}, sub : Subs, email : Emails, verified : BOOLEAN]
Known   == [ph : {"known"}, sub : Subs, id : Ids, row : Accounts!Account \cup {None}]
Match   == [ph : {"match"}, sub : Subs, email : Emails, verified : BOOLEAN, id : Ids, row : Accounts!Account]
Target  == [ph : {"target"}, sub : Subs, id : Ids, row : Accounts!Account, born : 1..MaxBorn, free : BOOLEAN]
Leaving == [ph : {"leaving"}, id : Ids]
Request == {Accounts!Idle} \cup Asked \cup Known \cup Match \cup Target \cup Leaving
Token   == [kind : {"link"}, id : Ids, born : 1..MaxBorn, sub : Subs, email : Emails]
             \cup [kind : {"withdraw"}, id : Ids, born : 1..MaxBorn]

Typed ==
    /\ accounts \in [Ids -> Accounts!Account \cup {None}]
    /\ links \in [Subs -> Accounts!Identity \cup {None}]
    /\ tokens \subseteq Token
    /\ signing \in [Users -> Request]
    /\ raced \subseteq Subs
    /\ born \in 0..MaxBorn /\ begun \in 0..MaxRequests

\* No account is from the future.
Dated == \A i \in Ids : Accounts!Exists(i) => accounts[i].born <= born
\* A link is to an account that is there.
Live == \A s \in Subs : links[s] # None => Accounts!Exists(links[s].id)
\* An account that records a subject has that subject linked to it.
Recorded == \A i \in Ids, s \in Subs \ raced :
    Accounts!Exists(i) /\ accounts[i].sub = s => links[s] # None /\ links[s].id = i
\* An account with an identity records one.
Named == \A s \in Subs \ raced : links[s] # None => accounts[links[s].id].sub # None
\* No two subjects are linked to one account.
Single == \A s1 \in Subs \ raced, s2 \in Subs \ raced :
    links[s1] # None /\ links[s2] # None /\ links[s1].id = links[s2].id => s1 = s2

Linked == Dated /\ Live /\ Accounts!IdentityKeepsItsAccount /\ Recorded /\ Named /\ Single

\* What a request q read still holds, or the account it read is gone.
Fits(q) ==
    /\ q.ph = "known" => q.row = None \/ q.row.sub # None \/ q.sub \in raced
    /\ q.ph = "match" =>
         /\ q.row.born <= born
         /\ q.row.sub # None /\ q.row.sub \notin raced
              /\ Accounts!Exists(q.id) /\ accounts[q.id].born = q.row.born
            => links[q.row.sub] # None /\ links[q.row.sub].id = q.id
    /\ q.ph = "target"  => q.born = q.row.born /\ q.free

AccountsInv == Typed /\ Linked /\ \A t \in Users : Fits(signing[t])

\* What every step does to accounts and links: an account keeps its incarnation or is a
\* later one, and a link stays until its account goes.
Ages ==
    /\ born' >= born /\ raced \subseteq raced'
    /\ \A i \in Ids : accounts'[i] # None =>
         \/ accounts[i] # None /\ accounts'[i].born = accounts[i].born
         \/ accounts'[i].born > born
    /\ \A s \in Subs : links[s] # None => links'[s] = links[s] \/ accounts'[links[s].id] = None

-----------------------------------------------------------------------------
\* A request's phase says what it holds.
LEMMA Shapes == ASSUME NEW q \in Request
    PROVE /\ q.ph = "idle" => q = Accounts!Idle
          /\ q.ph \in {"asked", "unlinked", "new"} => q \in Asked
          /\ q.ph = "known" => q \in Known
          /\ q.ph = "match" => q \in Match
          /\ q.ph = "target" => q \in Target
          /\ q.ph = "leaving" => q \in Leaving
          /\ q.ph \in {"idle", "asked", "known", "unlinked", "new", "match", "target", "leaving"}
    BY DEF Request, Accounts!Idle, Asked, Known, Match, Target, Leaving

\* Idle requests and those that only know a subject and an email hold nothing that ages.
LEMMA IdleFits == Fits(Accounts!Idle) /\ \A q \in Asked : Fits(q)
    BY DEF Fits, Accounts!Idle, Asked

\* The stronger types imply those of SignIn.
LEMMA TypedIsTypeOK == Typed => Accounts!TypeOK
<1> SUFFICES ASSUME Typed PROVE Accounts!TypeOK
    OBVIOUS
<1>1. \A k \in tokens : k.kind \in {"link", "withdraw"} /\ k.id \in Ids /\ k.born \in 1..MaxBorn
    BY DEF Typed, Token
<1>2. \A t \in Users : signing[t].ph \in {"idle", "asked", "known", "unlinked", "new", "match", "target", "leaving"}
    BY Shapes DEF Typed
<1> QED
    BY <1>1, <1>2 DEF Typed, Accounts!TypeOK

\* What a request read keeps holding, whatever the others do.
LEMMA FitsOn ==
    ASSUME Accounts!Parameters, Typed, Typed', Ages, NEW q \in Request, Fits(q)
    PROVE  (Fits(q))'
<1>1. q.ph = "known" => (q.row = None \/ q.row.sub # None \/ q.sub \in raced')
    BY DEF Fits, Ages
<1>2. ASSUME q.ph = "match"
      PROVE  /\ q.row.born <= born'
             /\ q.row.sub # None /\ q.row.sub \notin raced'
                  /\ accounts'[q.id] # None /\ accounts'[q.id].born = q.row.born
                => links'[q.row.sub] # None /\ links'[q.row.sub].id = q.id
    <2>1. q \in Match /\ q.row \in Accounts!Account /\ q.id \in Ids
        BY <1>2, Shapes DEF Match
    <2>2. q.row.born \in Nat /\ q.row.born <= born /\ q.row.sub \in Subs \cup {None} /\ born \in Nat /\ born' \in Nat
        BY <1>2, <2>1 DEF Fits, Accounts!Account, Typed, Accounts!Parameters
    <2>3. q.row.born <= born'
        BY <2>2 DEF Ages
    <2>4. SUFFICES ASSUME q.row.sub # None, q.row.sub \notin raced', accounts'[q.id] # None,
                          accounts'[q.id].born = q.row.born
                   PROVE  links'[q.row.sub] # None /\ links'[q.row.sub].id = q.id
        BY <2>3
    <2>5. accounts[q.id] # None /\ accounts[q.id].born = q.row.born
        BY <2>1, <2>2, <2>4 DEF Ages
    <2>6. q.row.sub \notin raced
        BY <2>4 DEF Ages
    <2>7. links[q.row.sub] # None /\ links[q.row.sub].id = q.id
        BY <1>2, <2>4, <2>5, <2>6 DEF Fits, Accounts!Exists
    <2>8. q.row.sub \in Subs
        BY <2>2, <2>4
    <2> QED
        BY <2>4, <2>7, <2>8 DEF Ages
<1> QED
    BY <1>1, <1>2 DEF Fits, Accounts!Exists

\* Nothing linked, created or deleted: the accounts and links are as good as before.
LEMMA LinkedOn ==
    ASSUME Accounts!Parameters, Typed, Linked, UNCHANGED <<accounts, links, raced, born>>
    PROVE  Linked' /\ Ages
<1>1. born \in Nat
    BY DEF Typed, Accounts!Parameters
<1>2. Ages
    BY <1>1 DEF Ages
<1>3. Linked'
    BY DEF Linked, Dated, Live, Accounts!IdentityKeepsItsAccount, Recorded, Named, Single, Accounts!Exists
<1> QED
    BY <1>2, <1>3

\* A step of one request, given what it makes of the accounts and what it holds then.
LEMMA OneSteps ==
    ASSUME Accounts!Parameters, AccountsInv, Typed', Linked', Ages,
           NEW t \in Users, NEW q \in Request, signing' = [signing EXCEPT ![t] = q], (Fits(q))'
    PROVE  AccountsInv'
<1>1. ASSUME NEW u \in Users PROVE (Fits(signing[u]))'
    <2>1. CASE u = t
        <3>1. signing'[u] = q
            BY <2>1 DEF AccountsInv, Typed
        <3> QED
            BY <3>1 DEF Fits, Accounts!Exists
    <2>2. CASE u # t
        <3>1. PICK p \in Request : p = signing[u]
            BY DEF AccountsInv, Typed
        <3>2. Fits(p) /\ signing'[u] = p
            BY <2>2, <3>1 DEF AccountsInv, Typed
        <3>3. (Fits(p))'
            BY <3>2, FitsOn DEF AccountsInv
        <3> QED
            BY <3>2, <3>3 DEF Fits, Accounts!Exists
    <2> QED
        BY <2>1, <2>2
<1> QED
    BY <1>1 DEF AccountsInv

\* A step of no request.
LEMMA OthersStep ==
    ASSUME Accounts!Parameters, AccountsInv, Typed', Linked', Ages, signing' = signing
    PROVE  AccountsInv'
<1>1. ASSUME NEW u \in Users PROVE (Fits(signing[u]))'
    <2>1. PICK p \in Request : p = signing[u]
        BY DEF AccountsInv, Typed
    <2>2. (Fits(p))'
        BY <2>1, FitsOn DEF AccountsInv
    <2> QED
        BY <2>1, <2>2 DEF Fits, Accounts!Exists
<1> QED
    BY <1>1 DEF AccountsInv

-----------------------------------------------------------------------------
\* Init: nobody, or one account with its identity.
LEMMA InitHolds == ASSUME Accounts!Parameters, Accounts!Init PROVE AccountsInv
<1>1. Typed /\ Linked
    <2>1. CASE accounts = [i \in Ids |-> None] /\ links = [s \in Subs |-> None] /\ born = 0
        <3>1. Typed
            BY <2>1 DEF Accounts!Init, Typed, Request, Accounts!Parameters
        <3>2. \A i \in Ids : ~Accounts!Exists(i)
            BY <2>1 DEF Accounts!Exists
        <3> QED
            BY <2>1, <3>1, <3>2 DEF Linked, Dated, Live, Accounts!IdentityKeepsItsAccount, Recorded, Named, Single
    <2>2. CASE \E i \in Ids, s \in Subs, m \in Emails :
          /\ accounts = [j \in Ids |-> IF j = i THEN [born |-> 1, email |-> m, pw |-> TRUE, sub |-> s, st |-> "active"]
                                      ELSE None]
          /\ links = [q \in Subs |-> IF q = s THEN [id |-> i, born |-> 1] ELSE None]
          /\ born = 1
        <3>1. PICK i \in Ids, s \in Subs, m \in Emails :
                /\ accounts = [j \in Ids |-> IF j = i THEN [born |-> 1, email |-> m, pw |-> TRUE, sub |-> s, st |-> "active"]
                                            ELSE None]
                /\ links = [q \in Subs |-> IF q = s THEN [id |-> i, born |-> 1] ELSE None]
                /\ born = 1
            BY Zenon, <2>2
        <3>2. 1 \in 1..MaxBorn /\ born \in 0..MaxBorn
            BY <3>1 DEF Accounts!Parameters
        <3>3. [id |-> i, born |-> 1] \in Accounts!Identity
            BY <3>2 DEF Accounts!Identity
        <3>4. PICK a \in Accounts!Account : a = [born |-> 1, email |-> m, pw |-> TRUE, sub |-> s, st |-> "active"]
            BY Zenon, <3>2 DEF Accounts!Account
        <3>6. accounts = [j \in Ids |-> IF j = i THEN a ELSE None]
            BY <3>1, <3>4
        <3>7. PICK l \in Accounts!Identity : l = [id |-> i, born |-> 1]
            BY <3>3
        <3>8. links = [q \in Subs |-> IF q = s THEN l ELSE None]
            BY <3>1, <3>7
        <3>9. Typed
            <4>1. accounts \in [Ids -> Accounts!Account \cup {None}] /\ links \in [Subs -> Accounts!Identity \cup {None}]
                BY <3>6, <3>8
            <4>2. born \in 0..MaxBorn /\ begun \in 0..MaxRequests
                BY <3>1, <3>2 DEF Accounts!Init, Accounts!Parameters
            <4>3. tokens \subseteq Token /\ raced \subseteq Subs /\ signing \in [Users -> Request]
                BY DEF Accounts!Init, Request
            <4> QED
                BY <4>1, <4>2, <4>3 DEF Typed
        <3>5. /\ \A j \in Ids : Accounts!Exists(j) <=> j = i
              /\ \A q \in Subs : links[q] # None <=> q = s
              /\ accounts[i] = a /\ links[s] = l /\ s # None
            BY <3>6, <3>8 DEF Accounts!Exists, Accounts!Parameters
        <3>10. a.born = 1 /\ a.sub = s /\ l.id = i /\ l.born = 1 /\ born = 1
            BY <3>1, <3>4, <3>7
        <3> QED
            BY <3>5, <3>9, <3>10 DEF Linked, Dated, Live, Accounts!IdentityKeepsItsAccount, Recorded, Named, Single
    <2> QED
        BY <2>1, <2>2 DEF Accounts!Init
<1>2. \A t \in Users : Fits(signing[t])
    BY IdleFits DEF Accounts!Init
<1> QED
    BY <1>1, <1>2 DEF AccountsInv

\* Phases that only read, or end: one task changes, and perhaps the tokens.
LEMMA ReadStep ==
    ASSUME Accounts!Parameters, AccountsInv, UNCHANGED <<accounts, links, raced, born>>,
           NEW t \in Users, NEW q \in Request, signing' = [signing EXCEPT ![t] = q], Fits(q),
           tokens' \subseteq Token, begun' \in 0..MaxRequests
    PROVE  AccountsInv'
<1>1. Typed'
    BY DEF AccountsInv, Typed
<1>2. Linked' /\ Ages
    BY LinkedOn DEF AccountsInv
<1>3. (Fits(q))'
    BY <1>1, <1>2, FitsOn DEF AccountsInv
<1> QED
    BY Zenon, <1>1, <1>2, <1>3, OneSteps

\* zoho_callback, up to the answer of ZOHO.
LEMMA CallbackKeeps ==
    ASSUME Accounts!Parameters, AccountsInv, NEW t \in Users, NEW s \in Subs, NEW m \in Emails, NEW v \in BOOLEAN,
           Accounts!Callback(t, s, m, v)
    PROVE  AccountsInv'
<1>1. [ph |-> "asked", sub |-> s, email |-> m, verified |-> v] \in Asked
    BY DEF Asked
<1>2. begun' \in 0..MaxRequests
    BY DEF Accounts!Callback, Accounts!Begin, AccountsInv, Typed, Accounts!Parameters
<1> QED
    BY Zenon, <1>1, <1>2, IdleFits, ReadStep DEF Accounts!Callback, Accounts!Go, Request, AccountsInv, Typed

\* get_oauth_identity: what it finds links an account that is there.
LEMMA ReadIdentityKeeps == ASSUME Accounts!Parameters, AccountsInv, NEW t \in Users, Accounts!ReadIdentity(t) PROVE AccountsInv'
<1>1. PICK p \in Request : p = signing[t]
    BY DEF AccountsInv, Typed
<1>2. p \in Asked /\ p.ph = "asked" /\ p.sub \in Subs
    BY <1>1, Shapes DEF Accounts!ReadIdentity, Asked
<1>3. PICK q : /\ signing' = [signing EXCEPT ![t] = q]
               /\ IF links[p.sub] # None
                  THEN q = [ph |-> "known", sub |-> p.sub, id |-> links[p.sub].id, row |-> accounts[links[p.sub].id]]
                  ELSE q = [p EXCEPT !.ph = "unlinked"]
    BY Zenon, <1>1, <1>2 DEF Accounts!ReadIdentity, Accounts!Go
<1>4. q \in Request /\ Fits(q)
    <2>1. CASE links[p.sub] # None
        <3>1. links[p.sub] \in Accounts!Identity
            BY <1>2, <2>1 DEF AccountsInv, Typed
        <3>2. links[p.sub].id \in Ids /\ accounts[links[p.sub].id] \in Accounts!Account \cup {None}
            BY <3>1 DEF Accounts!Identity, AccountsInv, Typed
        <3>3. q \in Known
            BY <1>2, <1>3, <2>1, <3>2 DEF Known
        <3>4. accounts[links[p.sub].id].sub # None \/ p.sub \in raced
            BY <1>2, <2>1 DEF AccountsInv, Linked, Named
        <3> QED
            BY <1>3, <2>1, <3>3, <3>4 DEF Fits, Request
    <2>2. CASE links[p.sub] = None
        <3>1. q \in Asked
            BY <1>2, <1>3, <2>2 DEF Asked
        <3> QED
            BY <3>1, IdleFits DEF Request
    <2> QED
        BY <2>1, <2>2
<1> QED
    BY Zenon, <1>3, <1>4, ReadStep DEF Accounts!ReadIdentity, AccountsInv, Typed

\* A row read by email: the account records no subject that is not linked to it.
LEMMA MatchFits ==
    ASSUME AccountsInv, NEW i \in Ids, NEW s \in Subs, NEW m \in Emails, NEW v \in BOOLEAN, Accounts!Exists(i),
           NEW q, q = [ph |-> "match", sub |-> s, email |-> m, verified |-> v, id |-> i, row |-> accounts[i]]
    PROVE  q \in Request /\ Fits(q)
<1>1. accounts[i] \in Accounts!Account
    BY DEF AccountsInv, Typed, Accounts!Exists
<1>2. q \in Match
    BY <1>1 DEF Match
<1>3. q.row.born <= born
    BY DEF AccountsInv, Linked, Dated
<1>4. accounts[i].sub \in Subs \cup {None}
    BY <1>1 DEF Accounts!Account
<1>5. q.row.sub # None /\ q.row.sub \notin raced => links[q.row.sub] # None /\ links[q.row.sub].id = q.id
    BY <1>4 DEF AccountsInv, Linked, Recorded
<1> QED
    BY <1>2, <1>3, <1>5 DEF Fits, Request

\* get_user_by_email.
LEMMA ReadEmailKeeps == ASSUME Accounts!Parameters, AccountsInv, NEW t \in Users, Accounts!ReadEmail(t) PROVE AccountsInv'
<1>1. PICK p \in Request : p = signing[t]
    BY DEF AccountsInv, Typed
<1>2. p \in Asked /\ p.sub \in Subs /\ p.email \in Emails /\ p.verified \in BOOLEAN
    BY <1>1, Shapes DEF Accounts!ReadEmail, Asked
<1>3. CASE Accounts!WithEmail(p.email) = {}
    <2>1. PICK q : q = [p EXCEPT !.ph = "new"] /\ signing' = [signing EXCEPT ![t] = q]
        BY Zenon, <1>1, <1>3 DEF Accounts!ReadEmail, Accounts!Go
    <2>2. q \in Asked
        BY <1>2, <2>1 DEF Asked
    <2> QED
        BY Zenon, <2>1, <2>2, IdleFits, ReadStep DEF Accounts!ReadEmail, Request, AccountsInv, Typed
<1>4. CASE Accounts!WithEmail(p.email) # {}
    <2>1. PICK i \in Accounts!WithEmail(p.email) : signing' = [signing EXCEPT ![t] =
              [ph |-> "match", sub |-> p.sub, email |-> p.email, verified |-> p.verified, id |-> i, row |-> accounts[i]]]
        BY <1>1, <1>4 DEF Accounts!ReadEmail, Accounts!Go
    <2>2. PICK q : q = [ph |-> "match", sub |-> p.sub, email |-> p.email, verified |-> p.verified, id |-> i, row |-> accounts[i]]
        BY Zenon
    <2>3. i \in Ids /\ Accounts!Exists(i)
        BY DEF Accounts!WithEmail
    <2>4. q \in Request /\ Fits(q)
        BY <1>2, <2>2, <2>3, MatchFits
    <2> QED
        BY Zenon, <2>1, <2>2, <2>4, ReadStep DEF Accounts!ReadEmail, AccountsInv, Typed
<1> QED
    BY <1>3, <1>4

\* B: what is offered is a cookie that names the account as it was read.
LEMMA OfferLinkKeeps == ASSUME Accounts!Parameters, AccountsInv, NEW t \in Users, Accounts!OfferLink(t) PROVE AccountsInv'
<1>1. PICK p \in Request : p = signing[t]
    BY DEF AccountsInv, Typed
<1>2. p \in Match /\ p.row.born \in 1..MaxBorn
    BY <1>1, Shapes DEF Accounts!OfferLink, Match, Accounts!Account
<1>3. [kind |-> "link", id |-> p.id, born |-> p.row.born, sub |-> p.sub, email |-> p.email] \in Token
    BY <1>2 DEF Match, Token
<1>4. tokens' \subseteq Token
    BY <1>1, <1>3 DEF Accounts!OfferLink, AccountsInv, Typed
<1> QED
    BY Zenon, <1>4, IdleFits, ReadStep DEF Accounts!OfferLink, Accounts!End, Request, AccountsInv, Typed

\* _load_link_target: the cookie's account, with no identity yet.
LEMMA LoadTargetKeeps ==
    ASSUME Accounts!Parameters, AccountsInv, NEW t \in Users, NEW k \in tokens, Accounts!LoadTarget(t, k)
    PROVE  AccountsInv'
<1>1. begun' \in 0..MaxRequests
    BY DEF Accounts!LoadTarget, Accounts!Begin, AccountsInv, Typed, Accounts!Parameters
<1>2. PICK c \in Token : c = k
    BY DEF AccountsInv, Typed
<1>3. c.kind = "link" /\ c.id \in Ids /\ c.born \in 1..MaxBorn /\ c.sub \in Subs
    BY <1>2 DEF Accounts!LoadTarget, Token
<1>4. CASE Accounts!Matches(k, k.id) /\ ~Accounts!HasIdentity(k.id, accounts[k.id]) /\ signing' = [signing EXCEPT ![t] =
              [ph |-> "target", sub |-> k.sub, id |-> k.id, row |-> accounts[k.id],
               born |-> k.born, free |-> Accounts!IdentitiesOf(k.id) = {}]]
    <2>1. PICK q : q = [ph |-> "target", sub |-> c.sub, id |-> c.id, row |-> accounts[c.id], born |-> c.born, free |-> TRUE]
        BY Zenon
    <2>2. accounts[c.id] \in Accounts!Account /\ c.born = accounts[c.id].born
        BY <1>2, <1>3, <1>4 DEF Accounts!Matches, Accounts!Exists, AccountsInv, Typed
    <2>3. q \in Target
        BY <1>3, <2>1, <2>2 DEF Target
    <2>4. Fits(q)
        BY <2>1, <2>2 DEF Fits
    <2>5. signing' = [signing EXCEPT ![t] = q]
        BY Zenon, <1>2, <1>4, <2>1 DEF Accounts!HasIdentity
    <2> QED
        BY Zenon, <1>1, <2>3, <2>4, <2>5, ReadStep DEF Accounts!LoadTarget, Request, AccountsInv, Typed
<1>5. CASE signing' = [signing EXCEPT ![t] = Accounts!Idle]
    BY Zenon, <1>1, <1>5, IdleFits, ReadStep DEF Accounts!LoadTarget, Request, AccountsInv, Typed
<1> QED
    BY <1>4, <1>5 DEF Accounts!LoadTarget, Accounts!Go, Accounts!End

\* withdraw_pending_signup reads an account that is pending.
LEMMA AskToWithdrawKeeps ==
    ASSUME Accounts!Parameters, AccountsInv, NEW t \in Users, NEW i \in Ids, Accounts!AskToWithdraw(t, i)
    PROVE  AccountsInv'
<1>1. begun' \in 0..MaxRequests
    BY DEF Accounts!AskToWithdraw, Accounts!Begin, AccountsInv, Typed, Accounts!Parameters
<1>2. PICK q : q = [ph |-> "leaving", id |-> i]
    BY Zenon
<1>3. q \in Leaving
    BY <1>2 DEF Leaving
<1>4. Fits(q)
    BY <1>2, <1>3 DEF Fits
<1> QED
    BY Zenon, <1>1, <1>2, <1>3, <1>4, ReadStep DEF Accounts!AskToWithdraw, Accounts!Go, Request, AccountsInv, Typed

LEMMA ExpireTokenKeeps == ASSUME Accounts!Parameters, AccountsInv, NEW k \in tokens, Accounts!ExpireToken(k) PROVE AccountsInv'
<1>1. Typed'
    BY DEF Accounts!ExpireToken, AccountsInv, Typed
<1> QED
    BY <1>1, LinkedOn, OthersStep DEF Accounts!ExpireToken, AccountsInv

-----------------------------------------------------------------------------
\* Accounts keep their incarnation and their subject, or are given a subject that raced.
LEMMA AccountsOn ==
    ASSUME Accounts!Parameters, Typed, Linked, UNCHANGED <<links, raced, born>>,
           \A j \in Ids : /\ accounts'[j] # None <=> accounts[j] # None
                          /\ accounts[j] # None =>
                               /\ accounts'[j].born = accounts[j].born
                               /\ accounts'[j].sub = accounts[j].sub \/ accounts'[j].sub \in raced \ {None}
    PROVE  Linked' /\ Ages
<1>1. born \in Nat
    BY DEF Typed, Accounts!Parameters
<1>2. Ages
    BY <1>1 DEF Ages
<1>3. \A s \in Subs : links[s] # None => links[s].id \in Ids
    BY DEF Typed, Accounts!Identity
<1>4. Dated' /\ Live' /\ Accounts!IdentityKeepsItsAccount' /\ Single'
    BY <1>3 DEF Linked, Dated, Live, Accounts!IdentityKeepsItsAccount, Single, Accounts!Exists
<1>5. Recorded'
    BY DEF Linked, Recorded, Accounts!Exists
<1>6. Named'
    BY <1>3 DEF Linked, Live, Named, Accounts!Exists
<1> QED
    BY <1>2, <1>4, <1>5, <1>6 DEF Linked

\* An account goes, and its identities with it.
LEMMA RemoveOn ==
    ASSUME Accounts!Parameters, Typed, Linked, NEW i \in Ids, Accounts!RemoveAccount(i), born' = born, raced \subseteq raced'
    PROVE  /\ Linked' /\ Ages
           /\ accounts' \in [Ids -> Accounts!Account \cup {None}] /\ links' \in [Subs -> Accounts!Identity \cup {None}]
<1>1. born \in Nat
    BY DEF Typed, Accounts!Parameters
<1>2. \A j \in Ids : accounts'[j] = IF j = i THEN None ELSE accounts[j]
    BY DEF Accounts!RemoveAccount, Typed
<1>3. \A s \in Subs : /\ links[s] # None => links[s].id \in Ids
                      /\ links'[s] = IF links[s] # None /\ links[s].id = i THEN None ELSE links[s]
    BY DEF Accounts!RemoveAccount, Accounts!IdentitiesOf, Typed, Accounts!Identity
<1>4. Ages
    BY <1>1, <1>2, <1>3 DEF Ages
<1>5. Dated' /\ Live' /\ Single'
    BY <1>2, <1>3 DEF Linked, Dated, Live, Single, Accounts!Exists
<1>6. Accounts!IdentityKeepsItsAccount' /\ Recorded' /\ Named'
    BY <1>2, <1>3 DEF Linked, Accounts!IdentityKeepsItsAccount, Recorded, Named, Accounts!Exists
<1>7. accounts' \in [Ids -> Accounts!Account \cup {None}] /\ links' \in [Subs -> Accounts!Identity \cup {None}]
    BY DEF Accounts!RemoveAccount, Typed
<1> QED
    BY <1>4, <1>5, <1>6, <1>7 DEF Linked

\* A new account has no links but the one it is created with.
LEMMA NewOn ==
    ASSUME Accounts!Parameters, Typed, Linked, NEW i \in Ids, NEW a \in Accounts!Account, ~Accounts!Exists(i),
           born' = born + 1, a.born = born', accounts' = [accounts EXCEPT ![i] = a], raced' = raced,
           \/ a.sub = None /\ links' = links
           \/ a.sub \in Subs /\ links[a.sub] = None
                /\ links' = [links EXCEPT ![a.sub] = [id |-> i, born |-> a.born]]
    PROVE  Linked' /\ Ages
<1>1. born \in Nat
    BY DEF Typed, Accounts!Parameters
<1>2. (\A j \in Ids : accounts'[j] = IF j = i THEN a ELSE accounts[j]) /\ a # None
    BY DEF Typed, Accounts!Parameters
<1>3. \A s \in Subs : links[s] # None => links[s].id \in Ids /\ links[s].id # i
    BY DEF Linked, Live, Accounts!Exists, Typed, Accounts!Identity
<1>4. [id |-> i, born |-> a.born] \in Accounts!Identity
    BY DEF Accounts!Account, Accounts!Identity
<1>5. PICK l \in Accounts!Identity : l = [id |-> i, born |-> a.born]
    BY <1>4
<1>6. l # None /\ l.id = i /\ l.born = a.born
    BY <1>5 DEF Accounts!Parameters
<1>7. \A s \in Subs : \/ links'[s] = links[s] /\ (a.sub = s => s = None)
                      \/ s = a.sub /\ links[s] = None /\ links'[s] = l
    BY <1>5 DEF Typed, Accounts!Parameters
<1>8. Ages
    BY <1>1, <1>2, <1>3, <1>7 DEF Ages, Accounts!Exists
<1>9. Dated'
    BY <1>1, <1>2 DEF Linked, Dated, Accounts!Exists, Accounts!Account, Typed
<1>10. Live' /\ Accounts!IdentityKeepsItsAccount'
    BY <1>2, <1>3, <1>6, <1>7 DEF Linked, Live, Accounts!IdentityKeepsItsAccount, Accounts!Exists
<1>11. Recorded'
    BY <1>2, <1>6, <1>7 DEF Linked, Recorded, Accounts!Exists, Accounts!Parameters
<1>12. Named' /\ Single'
    BY <1>2, <1>3, <1>6, <1>7 DEF Linked, Named, Single, Accounts!Exists, Accounts!Parameters
<1> QED
    BY <1>8, <1>9, <1>10, <1>11, <1>12 DEF Linked

\* A free subject is linked: to an account that has none and is of the right incarnation,
\* or the subject has raced.
LEMMA LinkOn ==
    ASSUME Accounts!Parameters, Typed, Linked, NEW i \in Ids, NEW s \in Subs, NEW l \in Accounts!Identity,
           Accounts!Exists(i), links[s] = None, l.id = i, links' = [links EXCEPT ![s] = l],
           born' = born, raced' = raced \/ raced' = raced \cup {s},
           accounts' = [accounts EXCEPT ![i].sub = s] \/ (accounts' = accounts /\ s \in raced'),
           s \in raced' \/ (accounts[i].born = l.born /\ Accounts!IdentitiesOf(i) = {})
    PROVE  Linked' /\ Ages
<1>1. born \in Nat
    BY DEF Typed, Accounts!Parameters
<1>2. s # None /\ l # None
    BY DEF Accounts!Parameters
<1>3. \A q \in Subs : links'[q] = IF q = s THEN l ELSE links[q]
    BY DEF Typed
<1>4. \A q \in Subs : links[q] # None => links[q].id \in Ids
    BY DEF Typed, Accounts!Identity
<1>5. \A j \in Ids : /\ accounts'[j] # None <=> accounts[j] # None
                     /\ accounts[j] # None => accounts'[j].born = accounts[j].born
                     /\ accounts'[j].sub = accounts[j].sub \/ (j = i /\ accounts'[j].sub = s)
                     /\ (j = i /\ s \notin raced') => accounts'[j].sub = s
    <2>1. CASE accounts' = accounts /\ s \in raced'
        BY <2>1
    <2>2. CASE accounts' = [accounts EXCEPT ![i].sub = s]
        <3>1. accounts[i] \in Accounts!Account
            BY DEF Typed, Accounts!Exists
        <3>2. [accounts[i] EXCEPT !.sub = s] \in Accounts!Account
            BY <3>1 DEF Accounts!Account
        <3>3. PICK a \in Accounts!Account : a = [accounts[i] EXCEPT !.sub = s]
            BY <3>2
        <3>4. a # None /\ a.born = accounts[i].born /\ a.sub = s
            BY <3>1, <3>3 DEF Accounts!Account, Accounts!Parameters
        <3>5. \A j \in Ids : accounts'[j] = IF j = i THEN a ELSE accounts[j]
            BY <2>2, <3>3 DEF Typed
        <3> QED
            BY <3>4, <3>5 DEF Accounts!Exists
    <2> QED
        BY <2>1, <2>2
<1>6. Ages
    BY <1>1, <1>3, <1>5 DEF Ages
<1>7. Dated'
    BY <1>5 DEF Linked, Dated, Accounts!Exists
<1>8. Live'
    BY <1>3, <1>4, <1>5 DEF Linked, Live, Accounts!Exists
<1>9. Accounts!IdentityKeepsItsAccount'
    BY <1>3, <1>4, <1>5 DEF Linked, Accounts!IdentityKeepsItsAccount, Accounts!Exists
<1>10. Recorded'
    <2>1. SUFFICES ASSUME NEW j \in Ids, NEW q \in Subs \ raced', accounts'[j] # None, accounts'[j].sub = q
                   PROVE  links'[q] # None /\ links'[q].id = j
        BY DEF Recorded, Accounts!Exists
    <2>2. CASE q = s
        <3>1. CASE j = i
            BY <1>2, <1>3, <2>2, <3>1
        <3>2. CASE j # i
            BY <1>5, <2>1, <2>2, <3>2 DEF Linked, Recorded, Accounts!Exists
        <3> QED
            BY <3>1, <3>2
    <2>3. CASE q # s
        BY <1>3, <1>5, <2>1, <2>3 DEF Linked, Recorded, Accounts!Exists
    <2> QED
        BY <2>2, <2>3
<1>11. Named'
    BY <1>2, <1>3, <1>4, <1>5 DEF Linked, Named, Accounts!Exists
<1>12. Single'
    <2>1. \A q \in Subs \ raced' : links[q] # None /\ links[q].id = i => s \in raced'
        BY DEF Accounts!IdentitiesOf
    <2> QED
        BY <1>3, <2>1 DEF Linked, Single
<1> QED
    BY <1>6, <1>7, <1>8, <1>9, <1>10, <1>11, <1>12 DEF Linked

-----------------------------------------------------------------------------
\* _finish_oauth_login ends the request; a cookie names the account as it was read.
LEMMA Finishes ==
    ASSUME AccountsInv, NEW t \in Users, NEW i \in Ids, NEW row, row.born \in 1..MaxBorn, Accounts!FinishLogin(t, i, row)
    PROVE  tokens' \subseteq Token /\ signing' = [signing EXCEPT ![t] = Accounts!Idle] /\ signing' \in [Users -> Request]
    BY DEF Accounts!FinishLogin, Accounts!End, AccountsInv, Typed, Token, Request

\* The end of a request, given what became of the accounts.
LEMMA Ends ==
    ASSUME Accounts!Parameters, AccountsInv, Typed', Linked', Ages, NEW t \in Users, signing' = [signing EXCEPT ![t] = Accounts!Idle]
    PROVE  AccountsInv'
<1>1. (Fits(Accounts!Idle))'
    BY DEF Fits, Accounts!Idle
<1> QED
    BY Zenon, <1>1, OneSteps DEF Request

\* signup
LEMMA SignupKeeps == ASSUME Accounts!Parameters, AccountsInv, NEW i \in Ids, NEW m \in Emails, Accounts!Signup(i, m) PROVE AccountsInv'
<1>1. born \in Nat /\ born + 1 \in 1..MaxBorn
    BY DEF Accounts!Signup, Accounts!NewAccount, AccountsInv, Typed, Accounts!Parameters
<1>2. [born |-> born + 1, email |-> m, pw |-> TRUE, sub |-> None, st |-> "pending"] \in Accounts!Account
    BY <1>1 DEF Accounts!Account
<1>3. PICK a \in Accounts!Account : a = [born |-> born + 1, email |-> m, pw |-> TRUE, sub |-> None, st |-> "pending"]
    BY <1>2
<1>4. ~Accounts!Exists(i) /\ born' = born + 1 /\ accounts' = [accounts EXCEPT ![i] = a]
    BY <1>3 DEF Accounts!Signup, Accounts!NewAccount
<1>5. a.born = born' /\ a.sub = None
    BY <1>3, <1>4
<1>6. Linked' /\ Ages
    BY Zenon, <1>4, <1>5, NewOn DEF Accounts!Signup, AccountsInv
<1>7. Typed'
    BY <1>1, <1>4 DEF Accounts!Signup, AccountsInv, Typed
<1> QED
    BY <1>6, <1>7, OthersStep DEF Accounts!Signup

\* approve_user, activate_user, delete_user
LEMMA SetStatusKeeps ==
    ASSUME Accounts!Parameters, AccountsInv, NEW i \in Ids, NEW st \in {"active", "off"}, Accounts!SetStatus(i, st)
    PROVE  AccountsInv'
<1>1. accounts[i] \in Accounts!Account
    BY DEF Accounts!SetStatus, Accounts!Exists, AccountsInv, Typed
<1>2. [accounts[i] EXCEPT !.st = st] \in Accounts!Account
    BY <1>1 DEF Accounts!Account
<1>3. PICK a \in Accounts!Account : a = [accounts[i] EXCEPT !.st = st]
    BY <1>2
<1>4. a # None /\ a.born = accounts[i].born /\ a.sub = accounts[i].sub
    BY <1>1, <1>3 DEF Accounts!Account, Accounts!Parameters
<1>5. \A j \in Ids : accounts'[j] = IF j = i THEN a ELSE accounts[j]
    BY <1>3 DEF Accounts!SetStatus, AccountsInv, Typed
<1>6. Typed'
    BY <1>3 DEF Accounts!SetStatus, AccountsInv, Typed
<1>7. Linked' /\ Ages
    BY <1>4, <1>5, AccountsOn DEF Accounts!SetStatus, Accounts!Exists, AccountsInv
<1> QED
    BY <1>6, <1>7, OthersStep DEF Accounts!SetStatus

LEMMA DeleteAccountKeeps == ASSUME Accounts!Parameters, AccountsInv, NEW i \in Ids, Accounts!DeleteAccount(i) PROVE AccountsInv'
<1>1. Linked' /\ Ages /\ accounts' \in [Ids -> Accounts!Account \cup {None}] /\ links' \in [Subs -> Accounts!Identity \cup {None}]
    BY RemoveOn DEF Accounts!DeleteAccount, AccountsInv
<1>2. Typed'
    BY <1>1 DEF Accounts!DeleteAccount, AccountsInv, Typed
<1> QED
    BY <1>1, <1>2, OthersStep DEF Accounts!DeleteAccount

\* delete_user_account
LEMMA WithdrawKeeps == ASSUME Accounts!Parameters, AccountsInv, NEW t \in Users, Accounts!Withdraw(t) PROVE AccountsInv'
<1>1. PICK p \in Request : p = signing[t]
    BY DEF AccountsInv, Typed
<1>2. p.id \in Ids
    BY <1>1, Shapes DEF Accounts!Withdraw, Leaving
<1>3. signing' = [signing EXCEPT ![t] = Accounts!Idle] /\ signing' \in [Users -> Request]
    BY DEF Accounts!Withdraw, Accounts!End, AccountsInv, Typed, Request
<1>4. CASE Accounts!Exists(p.id)
    <2>1. Accounts!RemoveAccount(p.id) /\ born' = born /\ raced' = raced
        BY <1>1, <1>4 DEF Accounts!Withdraw
    <2>2. Linked' /\ Ages /\ accounts' \in [Ids -> Accounts!Account \cup {None}] /\ links' \in [Subs -> Accounts!Identity \cup {None}]
        BY <1>2, <2>1, RemoveOn DEF AccountsInv
    <2>3. Typed'
        BY <1>2, <1>3, <2>1, <2>2 DEF Accounts!Withdraw, AccountsInv, Typed
    <2> QED
        BY Zenon, <1>3, <2>2, <2>3, Ends
<1>5. CASE ~Accounts!Exists(p.id)
    <2>1. UNCHANGED <<accounts, links, raced, born>>
        BY <1>1, <1>5 DEF Accounts!Withdraw
    <2>2. Linked' /\ Ages
        BY <2>1, LinkedOn DEF AccountsInv
    <2>3. Typed'
        BY <1>3, <2>1 DEF Accounts!Withdraw, AccountsInv, Typed
    <2> QED
        BY Zenon, <1>3, <2>2, <2>3, Ends
<1> QED
    BY <1>4, <1>5

\* A: the subject a linked account is given, if it had none, has raced.
LEMMA SignInKnownKeeps == ASSUME Accounts!Parameters, AccountsInv, NEW t \in Users, Accounts!SignInKnown(t) PROVE AccountsInv'
<1>1. PICK p \in Request : p = signing[t]
    BY DEF AccountsInv, Typed
<1>2. /\ p \in Known /\ p.ph = "known" /\ p.id \in Ids /\ p.sub \in Subs /\ p.row \in Accounts!Account \cup {None}
      /\ Fits(p)
    BY <1>1, Shapes DEF Accounts!SignInKnown, Known, AccountsInv
<1>3. CASE p.row = None \/ (p.row.sub = None /\ ~Accounts!Exists(p.id))
    <2>1. Accounts!End(t) /\ UNCHANGED <<accounts, links, tokens, raced, born, begun>>
        BY <1>1, <1>3 DEF Accounts!SignInKnown
    <2> QED
        BY Zenon, <2>1, IdleFits, ReadStep DEF Accounts!End, Request, AccountsInv, Typed
<1>4. CASE p.row # None /\ (p.row.sub # None \/ Accounts!Exists(p.id))
    <2>1. /\ Accounts!FinishLogin(t, p.id, p.row) /\ UNCHANGED <<links, raced, born, begun>>
          /\ accounts' = IF p.row.sub = None THEN [accounts EXCEPT ![p.id].sub = p.sub] ELSE accounts
        BY <1>1, <1>4 DEF Accounts!SignInKnown
    <2>2. p.row.born \in 1..MaxBorn
        BY <1>2, <1>4 DEF Accounts!Account
    <2>3. tokens' \subseteq Token /\ signing' = [signing EXCEPT ![t] = Accounts!Idle] /\ signing' \in [Users -> Request]
        BY <1>2, <2>1, <2>2, Finishes
    <2>4. CASE p.row.sub # None
        BY Zenon, <2>1, <2>3, <2>4, IdleFits, ReadStep DEF Request, AccountsInv, Typed
    <2>5. CASE p.row.sub = None
        <3>1. Accounts!Exists(p.id) /\ p.sub \in raced
            BY <1>2, <1>4, <2>5 DEF Fits
        <3>2. accounts[p.id] \in Accounts!Account
            BY <1>2, <3>1 DEF Accounts!Exists, AccountsInv, Typed
        <3>3. [accounts[p.id] EXCEPT !.sub = p.sub] \in Accounts!Account
            BY <1>2, <3>2 DEF Accounts!Account
        <3>4. PICK a \in Accounts!Account : a = [accounts[p.id] EXCEPT !.sub = p.sub]
            BY <3>3
        <3>5. a # None /\ a.born = accounts[p.id].born /\ a.sub = p.sub /\ p.sub # None
            BY <1>2, <3>2, <3>4 DEF Accounts!Account, Accounts!Parameters
        <3>6. \A j \in Ids : accounts'[j] = IF j = p.id THEN a ELSE accounts[j]
            BY <2>1, <2>5, <3>4 DEF AccountsInv, Typed
        <3>7. Typed'
            BY <1>2, <2>1, <2>3, <2>5, <3>4 DEF AccountsInv, Typed
        <3>8. Linked' /\ Ages
            BY <2>1, <3>1, <3>5, <3>6, AccountsOn DEF Accounts!Exists, AccountsInv
        <3> QED
            BY Zenon, <2>3, <3>7, <3>8, Ends
    <2> QED
        BY <2>4, <2>5
<1> QED
    BY <1>3, <1>4

\* The identity is linked after all: whoever it is linked to is signed in.
LEMMA SignInOther ==
    ASSUME Accounts!Parameters, AccountsInv, NEW t \in Users, NEW s \in Subs, links[s] # None,
           UNCHANGED <<accounts, links, raced, born, begun>>,
           IF Accounts!Exists(links[s].id) THEN Accounts!FinishLogin(t, links[s].id, accounts[links[s].id])
           ELSE Accounts!End(t) /\ UNCHANGED tokens
    PROVE  AccountsInv'
<1>1. PICK i \in Ids : i = links[s].id
    BY DEF AccountsInv, Typed, Accounts!Identity
<1>2. PICK row \in Accounts!Account : row = accounts[i]
    BY <1>1 DEF AccountsInv, Linked, Live, Typed, Accounts!Exists
<1>3. Accounts!FinishLogin(t, i, row)
    BY <1>1, <1>2 DEF AccountsInv, Linked, Live
<1>4. tokens' \subseteq Token /\ signing' = [signing EXCEPT ![t] = Accounts!Idle]
    BY <1>3, Finishes DEF Accounts!Account
<1> QED
    BY Zenon, <1>4, IdleFits, ReadStep DEF Request, AccountsInv, Typed

\* C: create_oauth_user
LEMMA CreateAccountKeeps == ASSUME Accounts!Parameters, AccountsInv, NEW t \in Users, Accounts!CreateAccount(t) PROVE AccountsInv'
<1>1. PICK p \in Request : p = signing[t]
    BY DEF AccountsInv, Typed
<1>2. p \in Asked /\ p.sub \in Subs /\ p.email \in Emails /\ p.verified \in BOOLEAN
    BY <1>1, Shapes DEF Accounts!CreateAccount, Asked
<1>3. CASE Accounts!WithEmail(p.email) # {}
    <2>1. PICK i \in Accounts!WithEmail(p.email) : signing' = [signing EXCEPT ![t] =
              [ph |-> "match", sub |-> p.sub, email |-> p.email, verified |-> p.verified, id |-> i, row |-> accounts[i]]]
        BY Zenon, <1>1, <1>3 DEF Accounts!CreateAccount, Accounts!Go
    <2>2. PICK q : q = [ph |-> "match", sub |-> p.sub, email |-> p.email, verified |-> p.verified, id |-> i, row |-> accounts[i]]
        BY Zenon
    <2>3. i \in Ids /\ Accounts!Exists(i)
        BY DEF Accounts!WithEmail
    <2>4. q \in Request /\ Fits(q)
        BY <1>2, <2>2, <2>3, MatchFits
    <2>5. UNCHANGED <<accounts, links, tokens, raced, born, begun>>
        BY Zenon, <1>1, <1>3 DEF Accounts!CreateAccount
    <2> QED
        BY Zenon, <2>1, <2>2, <2>4, <2>5, ReadStep DEF AccountsInv, Typed
<1>4. CASE Accounts!WithEmail(p.email) = {} /\ links[p.sub] # None
    <2>1. /\ IF Accounts!Exists(links[p.sub].id) THEN Accounts!FinishLogin(t, links[p.sub].id, accounts[links[p.sub].id])
             ELSE Accounts!End(t) /\ UNCHANGED tokens
          /\ UNCHANGED <<accounts, links, raced, born, begun>>
        BY <1>1, <1>4 DEF Accounts!CreateAccount
    <2> QED
        BY <1>2, <1>4, <2>1, SignInOther
<1>5. CASE Accounts!WithEmail(p.email) = {} /\ links[p.sub] = None
    <2>1. PICK i \in Ids, st \in {"active", "pending"} :
             /\ Accounts!NewAccount(i, p.email, FALSE, p.sub, st)
             /\ links' = [links EXCEPT ![p.sub] = [id |-> i, born |-> born + 1]]
             /\ Accounts!FinishLogin(t, i, [st |-> st, born |-> born + 1])
        BY Zenon, <1>1, <1>5 DEF Accounts!CreateAccount
    <2>2. born \in Nat /\ born + 1 \in 1..MaxBorn /\ UNCHANGED <<raced, begun>>
        BY <2>1 DEF Accounts!CreateAccount, Accounts!NewAccount, AccountsInv, Typed, Accounts!Parameters
    <2>3. [born |-> born + 1, email |-> p.email, pw |-> FALSE, sub |-> p.sub, st |-> st] \in Accounts!Account
        BY <1>2, <2>2 DEF Accounts!Account
    <2>4. PICK a \in Accounts!Account : a = [born |-> born + 1, email |-> p.email, pw |-> FALSE, sub |-> p.sub, st |-> st]
        BY <2>3
    <2>5. ~Accounts!Exists(i) /\ born' = born + 1 /\ accounts' = [accounts EXCEPT ![i] = a]
        BY <2>1, <2>4 DEF Accounts!NewAccount
    <2>6. a.born = born' /\ a.sub = p.sub
        BY <2>4, <2>5
    <2>7. links' = [links EXCEPT ![a.sub] = [id |-> i, born |-> a.born]]
        BY <2>1, <2>5, <2>6
    <2>8. Linked' /\ Ages
        BY Zenon, <1>2, <1>5, <2>2, <2>5, <2>6, <2>7, NewOn DEF AccountsInv
    <2>9. tokens' \subseteq Token /\ signing' = [signing EXCEPT ![t] = Accounts!Idle] /\ signing' \in [Users -> Request]
        <3>1. PICK row : row = [st |-> st, born |-> born + 1]
            BY Zenon
        <3> QED
            BY <2>1, <2>2, <3>1, Finishes
    <2>10. [id |-> i, born |-> a.born] \in Accounts!Identity
        BY DEF Accounts!Account, Accounts!Identity
    <2>11. Typed'
        <3>1. links' \in [Subs -> Accounts!Identity \cup {None}]
            BY Zenon, <2>7, <2>10 DEF AccountsInv, Typed
        <3>2. accounts' \in [Ids -> Accounts!Account \cup {None}]
            BY <2>5 DEF AccountsInv, Typed
        <3>3. born' \in 0..MaxBorn
            BY <2>2, <2>5
        <3> QED
            BY <2>2, <2>9, <3>1, <3>2, <3>3 DEF AccountsInv, Typed
    <2> QED
        BY Zenon, <2>8, <2>9, <2>11, Ends
<1> QED
    BY <1>3, <1>4, <1>5

\* The account that recorded this subject has been replaced, or the subject is linked.
LEMMA RestoreLinkKeeps == ASSUME Accounts!Parameters, AccountsInv, NEW t \in Users, Accounts!RestoreLink(t) PROVE AccountsInv'
<1>1. PICK p \in Request : p = signing[t]
    BY DEF AccountsInv, Typed
<1>2. /\ p \in Match /\ p.ph = "match" /\ p.id \in Ids /\ p.sub \in Subs /\ p.row \in Accounts!Account
      /\ p.row.born \in 1..MaxBorn /\ p.row.sub = p.sub /\ p.sub # None /\ Fits(p)
    BY <1>1, Shapes DEF Accounts!RestoreLink, Match, Accounts!Account, AccountsInv, Accounts!Parameters
<1>3. CASE links[p.sub] # None
    <2>1. /\ IF Accounts!Exists(links[p.sub].id) THEN Accounts!FinishLogin(t, links[p.sub].id, accounts[links[p.sub].id])
             ELSE Accounts!End(t) /\ UNCHANGED tokens
          /\ UNCHANGED <<accounts, links, raced, born, begun>>
        BY <1>1, <1>3 DEF Accounts!RestoreLink
    <2> QED
        BY <1>2, <1>3, <2>1, SignInOther
<1>4. CASE links[p.sub] = None /\ ~Accounts!Exists(p.id)
    <2>1. Accounts!End(t) /\ UNCHANGED <<accounts, links, tokens, raced, born, begun>>
        BY <1>1, <1>4 DEF Accounts!RestoreLink
    <2> QED
        BY Zenon, <2>1, IdleFits, ReadStep DEF Accounts!End, Request, AccountsInv, Typed
<1>5. CASE links[p.sub] = None /\ Accounts!Exists(p.id)
    <2>1. /\ links' = [links EXCEPT ![p.sub] = [id |-> p.id, born |-> p.row.born]]
          /\ raced' = IF accounts[p.id].born = p.row.born THEN raced ELSE raced \cup {p.sub}
          /\ Accounts!FinishLogin(t, p.id, p.row) /\ UNCHANGED <<accounts, born, begun>>
        BY <1>1, <1>5 DEF Accounts!RestoreLink
    <2>2. p.sub \in raced'
        BY <1>2, <1>5, <2>1 DEF Fits
    <2>3. PICK l \in Accounts!Identity : l = [id |-> p.id, born |-> p.row.born]
        BY Zenon, <1>2 DEF Accounts!Identity
    <2>4. Linked' /\ Ages
        BY Zenon, <1>2, <1>5, <2>1, <2>2, <2>3, LinkOn DEF AccountsInv
    <2>5. tokens' \subseteq Token /\ signing' = [signing EXCEPT ![t] = Accounts!Idle] /\ signing' \in [Users -> Request]
        BY <1>2, <2>1, Finishes
    <2>6. Typed'
        BY <1>2, <2>1, <2>3, <2>5 DEF AccountsInv, Typed
    <2> QED
        BY Zenon, <2>4, <2>5, <2>6, Ends
<1> QED
    BY <1>3, <1>4, <1>5

\* link_oauth_identity: the account is the one confirmed and still has no identity, or the
\* subject has raced.
LEMMA LinkIdentityKeeps == ASSUME Accounts!Parameters, AccountsInv, NEW t \in Users, Accounts!LinkIdentity(t) PROVE AccountsInv'
<1>1. PICK p \in Request : p = signing[t]
    BY DEF AccountsInv, Typed
<1>2. /\ p \in Target /\ p.ph = "target" /\ p.id \in Ids /\ p.sub \in Subs /\ p.row \in Accounts!Account
      /\ p.row.born \in 1..MaxBorn /\ p.born \in 1..MaxBorn /\ Fits(p)
    BY <1>1, Shapes DEF Accounts!LinkIdentity, Target, Accounts!Account, AccountsInv
<1>3. p.born = p.row.born /\ p.free
    BY <1>2 DEF Fits
<1>4. CASE links[p.sub] # None \/ ~Accounts!Exists(p.id)
    <2>1. Accounts!End(t) /\ UNCHANGED <<accounts, links, tokens, raced, born, begun>>
        BY <1>1, <1>4 DEF Accounts!LinkIdentity
    <2> QED
        BY Zenon, <2>1, IdleFits, ReadStep DEF Accounts!End, Request, AccountsInv, Typed
<1>5. CASE links[p.sub] = None /\ Accounts!Exists(p.id)
    <2>1. /\ links' = [links EXCEPT ![p.sub] = [id |-> p.id, born |-> p.born]]
          /\ accounts' = [accounts EXCEPT ![p.id].sub = p.sub]
          /\ raced' = IF accounts[p.id].born # p.row.born \/ (p.free /\ Accounts!IdentitiesOf(p.id) # {})
                      THEN raced \cup {p.sub} ELSE raced
          /\ Accounts!FinishLogin(t, p.id, p.row) /\ UNCHANGED <<born, begun>>
        BY <1>1, <1>5 DEF Accounts!LinkIdentity
    <2>2. p.sub \in raced' \/ (accounts[p.id].born = p.born /\ Accounts!IdentitiesOf(p.id) = {})
        BY <1>3, <2>1
    <2>3. PICK l \in Accounts!Identity : l = [id |-> p.id, born |-> p.born]
        BY Zenon, <1>2 DEF Accounts!Identity
    <2>4. Linked' /\ Ages
        BY Zenon, <1>2, <1>5, <2>1, <2>2, <2>3, LinkOn DEF AccountsInv
    <2>5. tokens' \subseteq Token /\ signing' = [signing EXCEPT ![t] = Accounts!Idle] /\ signing' \in [Users -> Request]
        BY <1>2, <2>1, Finishes
    <2>6. accounts[p.id] \in Accounts!Account
        BY <1>2, <1>5 DEF Accounts!Exists, AccountsInv, Typed
    <2>7. [accounts[p.id] EXCEPT !.sub = p.sub] \in Accounts!Account
        BY <1>2, <2>6 DEF Accounts!Account
    <2>8. Typed'
        BY <1>2, <2>1, <2>3, <2>5, <2>7 DEF AccountsInv, Typed
    <2> QED
        BY Zenon, <2>4, <2>5, <2>8, Ends
<1> QED
    BY <1>4, <1>5

-----------------------------------------------------------------------------
LEMMA HandleKeeps == ASSUME Accounts!Parameters, AccountsInv, NEW t \in Users, Accounts!Handle(t) PROVE AccountsInv'
<1>1. CASE \E s \in Subs, m \in Emails, verified \in BOOLEAN : Accounts!Callback(t, s, m, verified)
    BY <1>1, CallbackKeeps
<1>2. CASE Accounts!ReadIdentity(t)
    BY <1>2, ReadIdentityKeeps
<1>3. CASE Accounts!SignInKnown(t)
    BY <1>3, SignInKnownKeeps
<1>4. CASE Accounts!ReadEmail(t)
    BY <1>4, ReadEmailKeeps
<1>5. CASE Accounts!CreateAccount(t)
    BY <1>5, CreateAccountKeeps
<1>6. CASE Accounts!OfferLink(t)
    BY <1>6, OfferLinkKeeps
<1>7. CASE Accounts!RestoreLink(t)
    BY <1>7, RestoreLinkKeeps
<1>8. CASE Accounts!LinkIdentity(t)
    BY <1>8, LinkIdentityKeeps
<1>9. CASE Accounts!Withdraw(t)
    BY <1>9, WithdrawKeeps
<1>10. CASE \E k \in tokens : Accounts!LoadTarget(t, k)
    BY <1>10, LoadTargetKeeps
<1>11. CASE \E i \in Ids : Accounts!AskToWithdraw(t, i)
    BY <1>11, AskToWithdrawKeeps
<1> QED
    BY <1>1, <1>2, <1>3, <1>4, <1>5, <1>6, <1>7, <1>8, <1>9, <1>10, <1>11 DEF Accounts!Handle

LEMMA StepKeeps == ASSUME Accounts!Parameters, AccountsInv, [Accounts!Next]_(Accounts!vars) PROVE AccountsInv'
<1>1. ASSUME NEW t \in Users, Accounts!Handle(t) PROVE AccountsInv'
    BY <1>1, HandleKeeps
<1>2. ASSUME NEW i \in Ids, NEW m \in Emails, Accounts!Signup(i, m) PROVE AccountsInv'
    BY <1>2, SignupKeeps
<1>3. ASSUME NEW i \in Ids, NEW st \in {"active", "off"}, Accounts!SetStatus(i, st) PROVE AccountsInv'
    BY <1>3, SetStatusKeeps
<1>4. ASSUME NEW i \in Ids, Accounts!DeleteAccount(i) PROVE AccountsInv'
    BY <1>4, DeleteAccountKeeps
<1>5. ASSUME NEW k \in tokens, Accounts!ExpireToken(k) PROVE AccountsInv'
    BY <1>5, ExpireTokenKeeps
<1>6. CASE UNCHANGED Accounts!vars
    BY <1>6, LinkedOn, OthersStep DEF Accounts!vars, AccountsInv, Typed
<1> QED
    BY <1>1, <1>2, <1>3, <1>4, <1>5, <1>6 DEF Accounts!Next

LEMMA AlwaysAccountsInv == Accounts!Spec => []AccountsInv
<1> USE AccountsParameters
<1>1. Accounts!Init => AccountsInv
    BY InitHolds
<1>2. AccountsInv /\ [Accounts!Next]_(Accounts!vars) => AccountsInv'
    BY StepKeeps
<1> QED
    BY <1>1, <1>2, PTL DEF Accounts!Spec

-----------------------------------------------------------------------------
\* Accounts, identities, cookies and requests keep their types, for any parameters.
THEOREM AccountsTyped == Accounts!Spec => []Accounts!TypeOK
<1>1. AccountsInv => Accounts!TypeOK
    BY TypedIsTypeOK DEF AccountsInv
<1> QED
    BY <1>1, AlwaysAccountsInv, PTL

LEMMA OneIdentityHolds == Accounts!Spec => []Accounts!OneIdentityEach
<1>1. ASSUME AccountsInv, NEW i \in Ids PROVE Cardinality(Accounts!IdentitiesOf(i) \ raced) <= 1
    <2>1. \A s1, s2 \in Accounts!IdentitiesOf(i) \ raced : s1 = s2
        BY <1>1 DEF Accounts!IdentitiesOf, AccountsInv, Linked, Single
    <2>2. CASE Accounts!IdentitiesOf(i) \ raced = {}
        BY <2>2, FS_EmptySet
    <2>3. CASE \E s : s \in Accounts!IdentitiesOf(i) \ raced
        <3>1. PICK s : s \in Accounts!IdentitiesOf(i) \ raced
            BY <2>3
        <3>2. Accounts!IdentitiesOf(i) \ raced = {s}
            BY <2>1, <3>1
        <3>3. Cardinality({s}) = 1
            BY FS_Singleton
        <3> QED
            BY <3>2, <3>3
    <2> QED
        BY <2>2, <2>3
<1>2. AccountsInv => Accounts!OneIdentityEach
    BY Zenon, <1>1 DEF Accounts!OneIdentityEach, Accounts!Cardinality, Cardinality
<1> QED
    BY <1>2, AlwaysAccountsInv, PTL

-----------------------------------------------------------------------------
(* The same of the composition that TLC checks.                             *)

LEMMA SignInInCalls == MCSpec => Accounts!Spec
<1>1. MCInit => Accounts!Init
    BY DEF MCInit
<1>2. [MCNext]_<<vars, chat, resp, search, signIn, providers, part>> => [Accounts!Next]_(Accounts!vars)
    BY DEF MCNext, signIn, Accounts!vars
<1> QED
    BY <1>1, <1>2, PTL DEF MCSpec, Accounts!Spec

\* An identity signs into the account that it created or that confirmed it, however
\* sign-ins, confirmations, deletions and new accounts of the same id overlap; and no two
\* identities are linked to one account, but by requests that raced (routes/auth.py).
THEOREM IdentityHolds == MCSpec => []IdentityKeepsItsAccount
<1>1. AccountsInv /\ Accounts!TypeOK /\ Accounts!OneIdentityEach => IdentityKeepsItsAccount
    BY DEF AccountsInv, Linked, IdentityKeepsItsAccount
<1> QED
    BY <1>1, SignInInCalls, AlwaysAccountsInv, AccountsTyped, OneIdentityHolds, PTL

-----------------------------------------------------------------------------
(***************************************************************************)
(* ProviderSync.  What ProviderSyncProofs proves of it by itself is carried*)
(* over to the composition, whose instance of it is the same.              *)
(***************************************************************************)
Proved == INSTANCE ProviderSyncProofs WITH Tasks <- Users, tasks <- editors

LEMMA SameInit == Providers!Init => Proved!Init
  BY DEF Providers!Init, Proved!Init, Providers!First, Proved!First, Providers!Keys, Proved!Keys, Providers!Idle, Proved!Idle

LEMMA SameNext == [Providers!Next]_(Providers!vars) => [Proved!Next]_(Proved!vars)
  BY Zenon DEF Providers!Next, Proved!Next, Providers!vars, Proved!vars, Providers!table, Proved!table, Providers!clients,
    Proved!clients, Providers!history, Proved!history, Providers!Edit, Proved!Edit, Providers!Continue, Proved!Continue,
    Providers!Save, Proved!Save, Providers!Toggle, Proved!Toggle, Providers!Delete, Proved!Delete, Providers!Remove, Proved!Remove,
    Providers!SyncAll, Proved!SyncAll, Providers!ToggleModel, Proved!ToggleModel, Providers!LoadRows, Proved!LoadRows,
    Providers!LoadFails, Proved!LoadFails, Providers!SwapRegistry, Proved!SwapRegistry, Providers!CloseOld, Proved!CloseOld,
    Providers!Close, Proved!Close, Providers!SaveByok, Proved!SaveByok, Providers!OffByok, Proved!OffByok,
    Providers!DeleteByok, Proved!DeleteByok, Providers!Drop, Proved!Drop, Providers!DropByok, Proved!DropByok,
    Providers!ReadByok, Proved!ReadByok, Providers!ReadByokFails, Proved!ReadByokFails, Providers!SwapByok, Proved!SwapByok, Providers!BuildFails, Proved!BuildFails,
    Providers!ReadStates, Proved!ReadStates, Providers!StoreListing, Proved!StoreListing, Providers!RecordSync, Proved!RecordSync,
    Providers!Gather, Proved!Gather, Providers!StoreGathered, Proved!StoreGathered, Providers!BeginFetch, Proved!BeginFetch,
    Providers!EndFetch, Proved!EndFetch, Providers!StoreFetch, Proved!StoreFetch, Providers!Slice, Proved!Slice,
    Providers!Listings, Proved!Listings, Providers!Started, Proved!Started, Providers!Begin, Proved!Begin,
    Providers!Commit, Proved!Commit, Providers!Go, Proved!Go, Providers!Superseded, Proved!Superseded,
    Providers!Routed, Proved!Routed, Providers!Live, Proved!Live, Providers!Keys, Proved!Keys, Providers!Idle, Proved!Idle

LEMMA ProvidersInCalls == MCSpec => Proved!Spec
<1>1. MCInit => Proved!Init
  BY SameInit DEF MCInit
<1>2. [MCNext]_<<vars, chat, resp, search, signIn, providers, part>> => [Providers!Next]_(Providers!vars)
  BY DEF MCNext, providers, Providers!vars, Providers!table, Providers!clients, Providers!history
<1>3. [MCNext]_<<vars, chat, resp, search, signIn, providers, part>> => [Proved!Next]_(Proved!vars)
  BY <1>2, SameNext
<1> QED
  BY <1>1, <1>3, PTL DEF MCSpec, Proved!Spec

LEMMA ProvedParameters == Proved!Parameters
  BY ProviderParameters DEF Providers!Parameters, Proved!Parameters, Providers!Keys, Proved!Keys

\* Whatever edits, refreshes and syncs overlap, once they are done the registry is what the
\* table says, but for rows that could not be read and drops that a later edit had undone; a
\* user's provider that is on and not routed has its build's error on record, and none is
\* routed without its owner; no client is leaked, and none in use
\* is closed (provider_manager.py: refresh_providers_from_database).
THEOREM RegistryHolds == MCSpec => []RegistryIsCurrent
<1>1. Proved!TypeOK => Providers!TypeOK
  BY DEF Proved!TypeOK, Providers!TypeOK, Proved!Instance, Providers!Instance, Proved!Keys, Providers!Keys
<1>2. Proved!RegistryIsCurrent => Providers!RegistryIsCurrent
  BY DEF Proved!RegistryIsCurrent, Providers!RegistryIsCurrent, Proved!Keys, Providers!Keys, Proved!Live, Providers!Live,
    Proved!Idle, Providers!Idle
<1>3. Proved!ClientsAccounted => Providers!ClientsAccounted
  BY DEF Proved!ClientsAccounted, Providers!ClientsAccounted, Proved!Routed, Providers!Routed, Proved!Keys, Providers!Keys
<1>4. Proved!TypeOK /\ Proved!RegistryIsCurrent /\ Proved!ClientsAccounted => RegistryIsCurrent
  BY <1>1, <1>2, <1>3 DEF RegistryIsCurrent
<1>5. Proved!Spec => []Proved!TypeOK /\ []Proved!RegistryIsCurrent /\ []Proved!ClientsAccounted
  BY ProvedParameters, Proved!RegistryStaysCurrent
<1> QED
  BY <1>4, <1>5, ProvidersInCalls, PTL

\* However late a fetch ends, it replaces no later one's list, but where a save's sync, an
\* administrator's or an unloading (status 0) lets it; and no sync changes a switch but one
\* that was turned while that sync was asking (provider_manager.py: _sync_superseded;
\* auto_sync.py: sync_provider_models).
THEOREM SyncsHold == MCSpec => SyncsKeepWhatIsNewer
<1>1. [Proved!SliceOrderKept]_(Proved!vars) /\ [Proved!TogglesKept]_(Proved!vars) =>
        [part = "providers" => Providers!SliceOrderKept /\ Providers!TogglesKept]_providers
  <2>1. Proved!SliceOrderKept => Providers!SliceOrderKept
    BY DEF Proved!SliceOrderKept, Providers!SliceOrderKept, Proved!Keys, Providers!Keys, Proved!Idle, Providers!Idle
  <2>2. Proved!TogglesKept => Providers!TogglesKept
    BY DEF Proved!TogglesKept, Providers!TogglesKept, Proved!Keys, Providers!Keys
  <2>3. UNCHANGED Proved!vars => UNCHANGED providers
    BY DEF Proved!vars, Proved!table, Proved!clients, Proved!history, providers
  <2> QED
    BY <2>1, <2>2, <2>3
<1>2. Proved!Spec => Proved!SlicesNeverGoBack /\ Proved!TogglesSurvive
  BY ProvedParameters, Proved!NewerIsKept
<1> QED
  BY <1>1, <1>2, ProvidersInCalls, PTL DEF Proved!SlicesNeverGoBack, Proved!TogglesSurvive, SyncsKeepWhatIsNewer
=============================================================================
