------------------------- MODULE UsageTrackerProofs -------------------------
(* Proofs about UsageTracker, for any users, labels, models, pools and     *)
(* requests.                                                               *)
EXTENDS UsageTracker, FiniteSetTheorems, TLAPS

\* What op says is consistent with where its section has got to.
OpOK ==
    /\ op.kind = "none" => op.phase = "idle"
    /\ op.kind = "flush" => op.phase \in {"snap", "write", "subtract"}
    /\ op.kind = "rename" => op.uid \in Users /\ op.new \in Labels
    /\ op.kind = "delete" => op.uid \in Users

\* An entry that has a user has that user's label: end_request builds a whole key.
BoundOK == \A r \in Reqs : reqs[r].uid # NoUser => reqs[r].label \in Labels

\* What a purge or a deletion sweeps has no rows left: the sweep sets what its
\* rows are owed to zero, and Conservation needs to know that this is right.
SweptRowsGone ==
    op.kind \in {"purge", "delete"} /\ op.phase = "sweep" => \A k \in op.scope : rows[k] = 0

\* The inductive invariant: SnapshotCovered needs the types for its arithmetic
\* and OpOK to know that no sweep runs inside a flush.
IInv == TypeOK /\ OpOK /\ BoundOK /\ SnapshotCovered /\ SweptRowsGone

-----------------------------------------------------------------------------
\* The units of a row are the pairs of a label and a number up to its count.
LEMMA UnitsAre ==
    ASSUME NEW f \in [Key -> Nat], NEW r \in RowKey
    PROVE  /\ IsFiniteSet(Units(f, r))
           /\ \A p : p \in Units(f, r) <=>
                \E l \in Labels : \E i \in 1..f[Labelled(r, l)] : p = <<l, i>>
<1> DEFINE part == [l \in Labels |-> {l} \X (1..f[Labelled(r, l)])]
           S == {{l} \X (1..f[Labelled(r, l)]) : l \in Labels}
<1>1. IsFiniteSet(S)
  <2>1. part \in [Labels -> S]
    OBVIOUS
  <2>2. \A t \in S : \E l \in Labels : part[l] = t
    OBVIOUS
  <2>3. part \in Surjection(Labels, S)
    BY <2>1, <2>2 DEF Surjection
  <2> HIDE DEF part, S
  <2> QED
    BY <2>3, UsageAssumption, FS_Surjection
<1>2. ASSUME NEW l \in Labels
      PROVE  IsFiniteSet({l} \X (1..f[Labelled(r, l)]))
  <2>1. f[Labelled(r, l)] \in Nat
    BY DEF Labelled, Key, RowKey
  <2>2. IsFiniteSet(1..f[Labelled(r, l)])
    BY <2>1, FS_Interval
  <2> QED
    BY <2>2, FS_Singleton, FS_Product
<1>3. \A T \in S : IsFiniteSet(T)
  BY <1>2
<1>4. IsFiniteSet(UNION S)
  BY <1>1, <1>3, FS_UNION
<1>5. \A p : p \in UNION S <=> \E l \in Labels : \E i \in 1..f[Labelled(r, l)] : p = <<l, i>>
  OBVIOUS
<1> QED
  BY <1>4, <1>5 DEF Units

\* A count summed over the labels (a row of the usage tables) is a natural number.
LEMMA RowTotalType ==
    ASSUME NEW f \in [Key -> Nat], NEW r \in RowKey
    PROVE  RowTotal(f, r) \in Nat
  BY UnitsAre, FS_CardinalityType DEF RowTotal

\* A row's key under a label is a key of the buffer.
LEMMA LabelledKey ==
    ASSUME NEW r \in RowKey, NEW l \in Labels
    PROVE  /\ Labelled(r, l) \in Key
           /\ Labelled(r, l).uid = r.uid /\ Labelled(r, l).label = l
           /\ RowOf(Labelled(r, l)) = r
  BY DEF Labelled, Key, RowKey, RowOf

LEMMA RowOfKey ==
    ASSUME NEW k \in Key
    PROVE  /\ RowOf(k) \in RowKey /\ k.label \in Labels
           /\ RowOf(k).uid = k.uid /\ Labelled(RowOf(k), k.label) = k
  BY DEF Labelled, Key, RowKey, RowOf

\* Only the row's own counts matter to its total.
LEMMA RowTotalSame ==
    ASSUME NEW f \in [Key -> Nat], NEW g \in [Key -> Nat], NEW r \in RowKey,
           \A l \in Labels : f[Labelled(r, l)] = g[Labelled(r, l)]
    PROVE  RowTotal(f, r) = RowTotal(g, r)
<1>1. Units(f, r) = Units(g, r)
  BY UnitsAre
<1> QED
  BY <1>1 DEF RowTotal

\* Counts that add up label by label add up in the row: the shift by f's count
\* maps g's units one to one onto the units h has and f has not.
LEMMA RowTotalAdd ==
    ASSUME NEW f \in [Key -> Nat], NEW g \in [Key -> Nat], NEW h \in [Key -> Nat],
           NEW r \in RowKey,
           \A l \in Labels : h[Labelled(r, l)] = f[Labelled(r, l)] + g[Labelled(r, l)]
    PROVE  RowTotal(h, r) = RowTotal(f, r) + RowTotal(g, r)
<1> DEFINE U == Units(f, r)
           V == Units(g, r)
           W == Units(h, r)
           shift == [p \in V |-> <<p[1], p[2] + f[Labelled(r, p[1])]>>]
<1>0. \A l \in Labels : f[Labelled(r, l)] \in Nat /\ g[Labelled(r, l)] \in Nat
  BY LabelledKey
<1>1. /\ \A p : p \in U <=> \E l \in Labels : \E i \in 1..f[Labelled(r, l)] : p = <<l, i>>
      /\ \A p : p \in V <=> \E l \in Labels : \E i \in 1..g[Labelled(r, l)] : p = <<l, i>>
      /\ \A p : p \in W <=> \E l \in Labels : \E i \in 1..h[Labelled(r, l)] : p = <<l, i>>
      /\ IsFiniteSet(U) /\ IsFiniteSet(V) /\ IsFiniteSet(W)
  BY UnitsAre
<1>2. shift \in Bijection(V, W \ U)
  <2>1. ASSUME NEW p \in V
        PROVE  shift[p] \in W /\ shift[p] \notin U
    <3>a. PICK l \in Labels : \E i \in 1..g[Labelled(r, l)] : p = <<l, i>>
      BY <1>1
    <3>1. PICK i \in 1..g[Labelled(r, l)] : p = <<l, i>>
      BY <3>a
    <3> DEFINE j == i + f[Labelled(r, l)]
    <3>2. shift[p] = <<l, j>>
      BY <3>1
    <3>3. j \in 1..h[Labelled(r, l)] /\ ~(j \in 1..f[Labelled(r, l)])
      BY <1>0, <3>1
    <3>4. <<l, j>> \in W
      BY <1>1, <3>3
    <3>5. <<l, j>> \notin U
      BY <1>1, <3>3
    <3> QED
      BY <3>2, <3>4, <3>5
  <2>2. ASSUME NEW p \in V, NEW q \in V, shift[p] = shift[q]
        PROVE  p = q
    <3>a. PICK l \in Labels : \E i \in 1..g[Labelled(r, l)] : p = <<l, i>>
      BY <1>1
    <3>1. PICK i \in 1..g[Labelled(r, l)] : p = <<l, i>>
      BY <3>a
    <3>b. PICK m \in Labels : \E j \in 1..g[Labelled(r, m)] : q = <<m, j>>
      BY <1>1
    <3>2. PICK j \in 1..g[Labelled(r, m)] : q = <<m, j>>
      BY <3>b
    <3>3. l = m /\ i + f[Labelled(r, l)] = j + f[Labelled(r, l)]
      BY <2>2, <3>1, <3>2
    <3>4. i = j
      BY <3>3, <1>0
    <3> QED
      BY <3>1, <3>2, <3>3, <3>4
  <2>3. ASSUME NEW q \in W \ U
        PROVE  \E p \in V : shift[p] = q
    <3>a. PICK l \in Labels : \E j \in 1..h[Labelled(r, l)] : q = <<l, j>>
      BY <1>1
    <3>1. PICK j \in 1..h[Labelled(r, l)] : q = <<l, j>>
      BY <3>a
    <3>2. ~(j \in 1..f[Labelled(r, l)])
      BY <1>1, <3>1
    <3>3. j - f[Labelled(r, l)] \in 1..g[Labelled(r, l)]
      BY <1>0, <3>1, <3>2
    <3>4. <<l, j - f[Labelled(r, l)]>> \in V
      BY <1>1, <3>3
    <3>5. j - f[Labelled(r, l)] + f[Labelled(r, l)] = j
      BY <1>0, <3>1
    <3>6. shift[<<l, j - f[Labelled(r, l)]>>] = q
      BY <3>1, <3>4, <3>5
    <3> QED
      BY <3>4, <3>6
  <2>4. shift \in [V -> W \ U]
    BY <2>1
  <2> HIDE DEF shift, U, V, W
  <2> QED
    BY <2>2, <2>3, <2>4 DEF Bijection, Injection, IsInjective, Surjection
<1> HIDE DEF shift, U, V, W
<1>3. Cardinality(W \ U) = Cardinality(V)
  BY <1>1, <1>2, FS_Bijection DEF ExistsBijection
<1>4. U \cap W = U
  <2> SUFFICES ASSUME NEW p \in U PROVE p \in W
    OBVIOUS
  <2>a. PICK l \in Labels : \E i \in 1..f[Labelled(r, l)] : p = <<l, i>>
    BY <1>1
  <2>1. PICK i \in 1..f[Labelled(r, l)] : p = <<l, i>>
    BY <2>a
  <2>2. i \in 1..h[Labelled(r, l)]
    BY <1>0
  <2>3. <<l, i>> \in W
    BY <1>1, <2>2
  <2> QED
    BY <2>1, <2>3
<1>5. Cardinality(W \ U) = Cardinality(W) - Cardinality(U)
  <2>1. W \cap U = U
    BY <1>4
  <2>2. IsFiniteSet(W)
    BY <1>1
  <2>3. Cardinality(W \ U) = Cardinality(W) - Cardinality(W \cap U)
    BY <2>2, FS_Difference
  <2> QED
    BY <2>1, <2>3
<1>6. Cardinality(U) \in Nat /\ Cardinality(V) \in Nat /\ Cardinality(W) \in Nat
  BY <1>1, FS_CardinalityType
<1>7. Cardinality(W) = Cardinality(U) + Cardinality(V)
  BY <1>3, <1>5, <1>6
<1> QED
  BY <1>7 DEF RowTotal, U, V, W

\* A row with nothing under any label counts nothing.
LEMMA RowTotalZero ==
    ASSUME NEW f \in [Key -> Nat], NEW r \in RowKey
    PROVE  RowTotal(f, r) = 0 <=> \A l \in Labels : f[Labelled(r, l)] = 0
<1>1. RowTotal(f, r) = 0 <=> Units(f, r) = {}
  BY UnitsAre, FS_EmptySet DEF RowTotal
<1>2. \A l \in Labels : f[Labelled(r, l)] \in Nat
  BY LabelledKey
<1>3. ASSUME NEW l \in Labels, f[Labelled(r, l)] # 0 PROVE Units(f, r) # {}
  <2>1. 1 \in 1..f[Labelled(r, l)]
    BY <1>2, <1>3
  <2>2. <<l, 1>> \in Units(f, r)
    BY <2>1, UnitsAre
  <2> QED
    BY <2>2
<1>4. ASSUME \A l \in Labels : f[Labelled(r, l)] = 0 PROVE Units(f, r) = {}
  BY <1>4, UnitsAre
<1> QED
  BY <1>1, <1>3, <1>4

\* A row with one label has that label's count.
LEMMA RowTotalOne ==
    ASSUME NEW f \in [Key -> Nat], NEW r \in RowKey, NEW l \in Labels,
           \A m \in Labels \ {l} : f[Labelled(r, m)] = 0
    PROVE  RowTotal(f, r) = f[Labelled(r, l)]
<1> DEFINE n == f[Labelled(r, l)]
           tag == [i \in 1..n |-> <<l, i>>]
<1>0. n \in Nat
  BY LabelledKey
<1>1. tag \in Bijection(1..n, Units(f, r))
  <2>1. \A p : p \in Units(f, r) <=> \E i \in 1..n : p = <<l, i>>
    BY UnitsAre
  <2> HIDE DEF n
  <2>2. \A i \in 1..n : tag[i] = <<l, i>>
    OBVIOUS
  <2>3. tag \in [1..n -> Units(f, r)]
    BY <2>1
  <2>4. \A i, j \in 1..n : tag[i] = tag[j] => i = j
    BY <2>2
  <2>5. \A p \in Units(f, r) : \E i \in 1..n : tag[i] = p
    BY <2>1, <2>2
  <2> HIDE DEF tag
  <2> QED
    BY <2>3, <2>4, <2>5 DEF Bijection, Injection, IsInjective, Surjection
<1> HIDE DEF n, tag
<1>2. IsFiniteSet(1..n) /\ Cardinality(1..n) = n
  BY <1>0, FS_Interval
<1>3. Cardinality(Units(f, r)) = n
  BY <1>1, <1>2, FS_Bijection DEF ExistsBijection
<1> QED
  BY <1>3 DEF RowTotal, n

-----------------------------------------------------------------------------
\* The tracker starts with nothing counted and nobody inside the mutex.
LEMMA InitIInv == Init => IInv
<1> SUFFICES ASSUME Init PROVE IInv
  OBVIOUS
<1>1. TypeOK
  BY UsageAssumption DEF Init, TypeOK, NewEntry, Entry, NoIdent, Empty, Idle, Op
<1> QED
  BY <1>1 DEF Init, IInv, OpOK, BoundOK, NewEntry, SnapshotCovered, SweptRowsGone, Idle

\* Steps of requests, logins and reloads: only a buffer key may grow.
LEMMA TrafficIInv == IInv /\ Traffic => IInv'
<1> SUFFICES ASSUME IInv, Traffic PROVE IInv'
  OBVIOUS
<1> USE DEF IInv
<1>0. PICK r \in Reqs :
        \/ \E m \in Models \cup {NoModel} : StartRequest(r, m)
        \/ \E u \in Users : Authenticate(r, u)
        \/ UpdateIdentity(r)
        \/ \E m \in Models : UpdateModel(r, m)
        \/ \E ok, byok \in BOOLEAN : EndRequest(r, ok, byok)
  BY DEF Traffic
<1>1. ASSUME NEW m \in Models \cup {NoModel}, StartRequest(r, m) PROVE IInv'
  <2>0. [reqs[r] EXCEPT !.state = "active", !.model = m] \in Entry
    BY DEF TypeOK, Entry
  <2>1. TypeOK'
    BY <2>0, <1>1 DEF StartRequest, TypeOK, tables, world, history
  <2>2. BoundOK'
    BY <1>1 DEF StartRequest, BoundOK, TypeOK, Entry
  <2> QED
    BY <2>1, <2>2, <1>1 DEF StartRequest, OpOK, SnapshotCovered, SweptRowsGone, tables
<1>2. ASSUME NEW u \in Users, Authenticate(r, u) PROVE IInv'
  <2>1. TypeOK'
    BY <1>2 DEF Authenticate, TypeOK, Ident, tables, world, history
  <2> QED
    BY <2>1, <1>2 DEF Authenticate, OpOK, BoundOK, SnapshotCovered, SweptRowsGone, tables
<1>3. ASSUME UpdateIdentity(r) PROVE IInv'
  <2>1. seen[r] \in Ident
    BY <1>3 DEF UpdateIdentity, TypeOK
  <2>2. [reqs[r] EXCEPT !.uid = seen[r].uid, !.label = seen[r].label] \in Entry
    <3>1. seen[r].uid \in Users /\ seen[r].label \in Labels
      BY <2>1 DEF Ident
    <3>2. reqs[r] \in Entry
      BY DEF TypeOK
    <3> QED
      BY <3>1, <3>2 DEF Entry
  <2>3. TypeOK'
    BY <2>2, <1>3 DEF UpdateIdentity, TypeOK, tables, world, history
  <2>4. BoundOK'
    BY <2>1, <1>3 DEF UpdateIdentity, BoundOK, TypeOK, Entry, Ident
  <2> QED
    BY <2>3, <2>4, <1>3 DEF UpdateIdentity, OpOK, SnapshotCovered, SweptRowsGone, tables
<1>4. ASSUME NEW m \in Models, UpdateModel(r, m) PROVE IInv'
  <2>0. [reqs[r] EXCEPT !.model = m] \in Entry
    BY DEF TypeOK, Entry
  <2>1. TypeOK'
    BY <2>0, <1>4 DEF UpdateModel, TypeOK, tables, world, history
  <2>2. BoundOK'
    BY <1>4 DEF UpdateModel, BoundOK, TypeOK, Entry
  <2> QED
    BY <2>1, <2>2, <1>4 DEF UpdateModel, OpOK, SnapshotCovered, SweptRowsGone, tables
<1>5. ASSUME NEW ok \in BOOLEAN, NEW byok \in BOOLEAN, EndRequest(r, ok, byok) PROVE IInv'
  <2> DEFINE e == reqs[r]
             k == KeyOf(e, PoolStamp(e, byok))
  <2>1. reqs' \in [Reqs -> Entry]
    BY <1>5 DEF EndRequest, TypeOK, Entry, Popped, NewEntry
  <2>a. ASSUME Counted(e, ok)
        PROVE  e.uid \in Users /\ k \in Key /\ RowOf(k) \in RowKey
    <3>1. e \in Entry /\ e.uid # NoUser /\ e.model # NoModel
      BY <2>a DEF TypeOK, Counted
    <3>2. e.uid \in Users /\ e.model \in Models
      BY <3>1 DEF Entry
    <3>3. PoolStamp(e, byok) \in Pools
      BY <3>2, UsageAssumption DEF TypeOK, PoolStamp
    <3>4. e.label \in Labels
      BY <3>1, <3>2, UsageAssumption DEF BoundOK
    <3> QED
      BY <3>2, <3>3, <3>4 DEF KeyOf, Key, RowOf, RowKey
  <2>2. /\ buffer' \in [Key -> Nat]
        /\ \A x \in Key : buffer[x] <= buffer'[x]
    BY <2>a, <1>5 DEF EndRequest, TypeOK
  <2>3. recorded' \in [RowKey -> Int] /\ tainted' \subseteq Users
    BY <2>a, <1>5 DEF EndRequest, TypeOK
  <2>4. TypeOK'
    BY <2>1, <2>2, <2>3, <1>5 DEF EndRequest, TypeOK, tables, world
  <2>5. SnapshotCovered'
    <3> SUFFICES ASSUME op.phase \in {"write", "subtract"}, NEW x \in Key
                 PROVE  snapshot[x] <= buffer'[x]
      BY <1>5 DEF EndRequest, SnapshotCovered
    <3> QED
      BY <2>2 DEF TypeOK, SnapshotCovered
  <2>6. BoundOK'
    BY <1>5 DEF EndRequest, BoundOK, TypeOK, Popped, NewEntry
  <2> QED
    BY <2>4, <2>5, <2>6, <1>5 DEF EndRequest, OpOK, SweptRowsGone, tables
<1> QED
  BY <1>0, <1>1, <1>2, <1>3, <1>4, <1>5

\* Steps of the flush, its beginning included.
LEMMA FlushIInv == IInv /\ (BeginFlush \/ Flush) => IInv'
<1> SUFFICES ASSUME IInv, BeginFlush \/ Flush PROVE IInv'
  OBVIOUS
<1> USE DEF IInv
<1>a. ASSUME op.phase \in {"snap", "write", "subtract"}, op' = AfterFlush
      PROVE  op' \in Op /\ OpOK' /\ op'.phase \in {"idle", "commit"}
  BY <1>a, UsageAssumption DEF AfterFlush, Idle, Op, OpOK, TypeOK
<1>1. CASE BeginFlush
  <2>1. op' \in Op /\ op'.kind = "flush" /\ op'.phase = "snap"
    BY <1>1, UsageAssumption DEF BeginFlush, Idle, Op
  <2>2. TypeOK'
    BY <2>1, <1>1 DEF BeginFlush, TypeOK, traffic, tables, world, history
  <2> QED
    BY <2>1, <2>2, <1>1 DEF BeginFlush, OpOK, BoundOK, SnapshotCovered, SweptRowsGone, traffic
<1>2. CASE FlushSnapshot
  <2>1. CASE buffer = Empty
    <3>1. op' = AfterFlush /\ op.phase = "snap" /\ UNCHANGED <<traffic, buffer, tables, snapshot, world, history>>
      BY <2>1, <1>2 DEF FlushSnapshot
    <3>2. op' \in Op /\ OpOK' /\ op'.phase \in {"idle", "commit"}
      BY <3>1, <1>a
    <3>3. TypeOK'
      BY <3>1, <3>2 DEF TypeOK, traffic, tables, world, history
    <3> QED
      BY <3>1, <3>2, <3>3 DEF BoundOK, SnapshotCovered, SweptRowsGone, traffic
  <2>2. CASE buffer # Empty
    <3>1. /\ op' = [op EXCEPT !.phase = "write"] /\ op.phase = "snap" /\ snapshot' = buffer
          /\ UNCHANGED <<traffic, buffer, tables, world, history>>
      BY <2>2, <1>2 DEF FlushSnapshot
    <3>2. op' \in Op /\ OpOK' /\ op'.phase = "write"
      BY <3>1 DEF TypeOK, Op, OpOK
    <3>3. TypeOK'
      BY <3>1, <3>2 DEF TypeOK, traffic, tables, world, history
    <3>4. SnapshotCovered'
      BY <3>1 DEF SnapshotCovered, TypeOK
    <3> QED
      BY <3>1, <3>2, <3>3, <3>4 DEF BoundOK, SweptRowsGone, traffic
  <2> QED
    BY <2>1, <2>2
<1>3. CASE FlushWrite
  <2>1. op' \in Op /\ OpOK' /\ op'.phase = "subtract"
    BY <1>3 DEF FlushWrite, TypeOK, Op, OpOK
  <2>2. rows' \in [Key -> Nat] /\ rowLabel' \in [RowKey -> Labels \cup {NoLabel}]
    BY <1>3 DEF FlushWrite, WriteRows, TypeOK
  <2>3. TypeOK'
    BY <2>1, <2>2, <1>3 DEF FlushWrite, TypeOK, traffic, world, history
  <2>4. SnapshotCovered'
    BY <1>3 DEF FlushWrite, SnapshotCovered
  <2> QED
    BY <2>1, <2>3, <2>4, <1>3 DEF FlushWrite, BoundOK, SweptRowsGone, traffic
<1>4. CASE FlushFail
  <2>1. op' \in Op /\ OpOK' /\ op'.phase \in {"idle", "commit"}
    BY <1>a, <1>4 DEF FlushFail
  <2>2. TypeOK'
    BY <2>1, <1>4 DEF FlushFail, TypeOK, Empty, traffic, tables, world, history
  <2> QED
    BY <2>1, <2>2, <1>4 DEF FlushFail, BoundOK, SnapshotCovered, SweptRowsGone, traffic
<1>5. CASE FlushSubtract
  <2>1. op' \in Op /\ OpOK' /\ op'.phase \in {"idle", "commit"}
    BY <1>a, <1>5 DEF FlushSubtract
  <2>2. buffer' \in [Key -> Nat]
    BY <1>5 DEF FlushSubtract, TypeOK
  <2>3. TypeOK'
    BY <2>1, <2>2, <1>5 DEF FlushSubtract, TypeOK, Empty, traffic, tables, world, history
  <2> QED
    BY <2>1, <2>3, <1>5 DEF FlushSubtract, BoundOK, SnapshotCovered, SweptRowsGone, traffic
<1> QED
  BY <1>1, <1>2, <1>3, <1>4, <1>5 DEF Flush

\* Taking the mutex for a rename, a purge or a deletion.
LEMMA BeginAdminIInv == IInv /\ BeginAdmin => IInv'
<1> SUFFICES ASSUME IInv, BeginAdmin PROVE IInv'
  OBVIOUS
<1> USE DEF IInv
<1>1. ASSUME NEW new \in Op, Begin(new), new.kind \in {"rename", "purge", "delete"},
             new.phase \in {"snap", "commit"},
             new.kind = "rename" => new.uid \in Users /\ new.new \in Labels,
             new.kind = "delete" => new.uid \in Users
      PROVE  IInv'
  <2>1. opsLeft' \in 0..MaxOps
    BY <1>1, UsageAssumption DEF Begin, TypeOK
  <2>2. TypeOK'
    BY <2>1, <1>1 DEF Begin, TypeOK, traffic, tables, history
  <2> QED
    BY <2>2, <1>1 DEF Begin, OpOK, BoundOK, SnapshotCovered, SweptRowsGone, traffic, tables
<1>2. ASSUME NEW scope \in SUBSET Key, BeginPurge(scope) PROVE IInv'
  BY <1>1, <1>2 DEF BeginPurge, Op
<1>3. ASSUME NEW u \in Users, NEW l \in Labels, BeginRename(u, l) PROVE IInv'
  BY <1>1, <1>3 DEF BeginRename, Op, KeysOfUser
<1>4. ASSUME NEW u \in Users, NEW first \in {"snap", "commit"}, BeginDelete(u, first) PROVE IInv'
  BY <1>1, <1>4 DEF BeginDelete, Op, KeysOfUser
<1> QED
  BY <1>2, <1>3, <1>4 DEF BeginAdmin, ByUser, ByModel, ByPool, KeysOfUser

\* The commit and the sweep of a rename, a purge or a deletion.
LEMMA FinishAdminIInv == IInv /\ FinishAdmin => IInv'
<1> SUFFICES ASSUME IInv, FinishAdmin PROVE IInv'
  OBVIOUS
<1> USE DEF IInv
<1>a. Idle \in Op
  BY UsageAssumption DEF Idle, Op
<1>1. CASE CommitFails
  <2>1. TypeOK'
    BY <1>a, <1>1 DEF CommitFails, TypeOK, traffic, tables, world, history
  <2> QED
    BY <2>1, <1>1 DEF CommitFails, Idle, OpOK, BoundOK, SnapshotCovered, SweptRowsGone, traffic
<1>2. CASE RenameCommit
  <2>1. op' \in Op /\ OpOK' /\ op'.kind = "rename" /\ op'.phase = "sweep"
    BY <1>2 DEF RenameCommit, TypeOK, Op, OpOK
  <2>2. op.uid \in Users /\ op.new \in Labels
    BY <1>2 DEF RenameCommit, OpOK
  <2>3. name' \in [Users -> Labels \cup {NoLabel}] /\ rowLabel' \in [RowKey -> Labels \cup {NoLabel}]
    BY <2>2, <1>2 DEF RenameCommit, TypeOK
  <2>4. late' \subseteq Reqs
    BY <1>2 DEF RenameCommit, Overtaken, TypeOK
  <2>5. TypeOK'
    BY <2>1, <2>3, <2>4, <1>2 DEF RenameCommit, TypeOK, traffic
  <2> QED
    BY <2>1, <2>5, <1>2 DEF RenameCommit, BoundOK, SnapshotCovered, SweptRowsGone, traffic
<1>b. ASSUME DeleteRows
      PROVE  /\ rows' \in [Key -> Nat] /\ \A k \in op.scope : k \in Key => rows'[k] = 0
             /\ rowLabel' \in [RowKey -> Labels \cup {NoLabel}]
             /\ recorded' \in [RowKey -> Int]
  <2>1. \A r \in RowKey : RowTotal(rows, r) \in Nat
    BY RowTotalType DEF TypeOK
  <2> QED
    BY <2>1, <1>b DEF DeleteRows, TypeOK
<1>3. CASE PurgeCommit
  <2>1. op' = [op EXCEPT !.phase = "sweep"] /\ op \in Op
    BY <1>3 DEF PurgeCommit, TypeOK
  <2>2. op' \in Op /\ OpOK' /\ op'.phase = "sweep" /\ op'.scope = op.scope /\ op.scope \subseteq Key
    BY <2>1, <1>3 DEF PurgeCommit, Op, OpOK
  <2>3. TypeOK'
    BY <2>2, <1>b, <1>3 DEF PurgeCommit, TypeOK, traffic, world
  <2> QED
    BY <2>2, <2>3, <1>b, <1>3 DEF PurgeCommit, BoundOK, SnapshotCovered, SweptRowsGone, traffic
<1>4. CASE DeleteCommit
  <2>1. op' = [op EXCEPT !.phase = "sweep"] /\ op \in Op
    BY <1>4 DEF DeleteCommit, TypeOK
  <2>2. op' \in Op /\ OpOK' /\ op'.phase = "sweep" /\ op'.scope = op.scope /\ op.scope \subseteq Key
    BY <2>1, <1>4 DEF DeleteCommit, Op, OpOK
  <2>3. name' \in [Users -> Labels \cup {NoLabel}] /\ late' \subseteq Reqs
    BY <1>4 DEF DeleteCommit, Overtaken, TypeOK
  <2>4. TypeOK'
    BY <2>2, <2>3, <1>b, <1>4 DEF DeleteCommit, TypeOK, traffic
  <2> QED
    BY <2>2, <2>4, <1>b, <1>4 DEF DeleteCommit, BoundOK, SnapshotCovered, SweptRowsGone, traffic
<1>5. CASE RenameIdentity
  <2>1. op.uid \in Users /\ op.new \in Labels
    BY <1>5 DEF RenameIdentity, OpOK
  <2>2. ASSUME NEW r \in Reqs
        PROVE  [reqs[r] EXCEPT !.label = op.new] \in Entry
    BY <2>1 DEF TypeOK, Entry
  <2>3. reqs' \in [Reqs -> Entry]
    BY <2>2, <1>5 DEF RenameIdentity, TypeOK
  <2>4. \A k \in Key : RowTotal(buffer, RowOf(k)) \in Nat
    BY RowTotalType DEF TypeOK, RowOf, Key, RowKey
  <2>5. buffer' \in [Key -> Nat]
    BY <2>4, <1>5 DEF RenameIdentity, TypeOK
  <2>6. TypeOK'
    BY <1>a, <2>3, <2>5, <1>5 DEF RenameIdentity, TypeOK, tables, world, history
  <2>7. BoundOK'
    BY <2>1, <1>5 DEF RenameIdentity, BoundOK, TypeOK, Entry
  <2> QED
    BY <2>6, <2>7, <1>5 DEF RenameIdentity, Idle, OpOK, SnapshotCovered, SweptRowsGone
<1>c. ASSUME DropBuffered
      PROVE  buffer' \in [Key -> Nat] /\ recorded' \in [RowKey -> Int]
  BY <1>c DEF DropBuffered, TypeOK
<1>6. ASSUME NEW resettle \in BOOLEAN, DropBufferedUsage(resettle) PROVE IInv'
  <2>1. op' \in Op /\ OpOK' /\ op'.kind \in {"none", "flush"} /\ op'.phase \in {"idle", "snap"}
    BY <1>a, <1>6 DEF DropBufferedUsage, Idle, Op, OpOK
  <2>2. TypeOK'
    BY <2>1, <1>c, <1>6 DEF DropBufferedUsage, TypeOK, traffic, tables, world
  <2> QED
    BY <2>1, <2>2, <1>6 DEF DropBufferedUsage, BoundOK, SnapshotCovered, SweptRowsGone, traffic
<1>7. CASE ForgetUser
  <2>1. ASSUME NEW r \in Reqs
        PROVE  [reqs[r] EXCEPT !.uid = NoUser] \in Entry
    BY DEF TypeOK, Entry
  <2>2. reqs' \in [Reqs -> Entry]
    BY <2>1, <1>7 DEF ForgetUser, TypeOK
  <2>3. TypeOK'
    BY <1>a, <2>2, <1>c, <1>7 DEF ForgetUser, TypeOK, tables, world
  <2>4. BoundOK'
    BY <1>7 DEF ForgetUser, BoundOK, TypeOK, Entry
  <2> QED
    BY <2>3, <2>4, <1>7 DEF ForgetUser, Idle, OpOK, SnapshotCovered, SweptRowsGone
<1> QED
  BY <1>1, <1>2, <1>3, <1>4, <1>5, <1>6, <1>7 DEF FinishAdmin

\* Pool reloads, registrations and crashes.
LEMMA EnvironmentIInv == IInv /\ (Environment \/ Crash) => IInv'
<1> SUFFICES ASSUME IInv, Environment \/ Crash PROVE IInv'
  OBVIOUS
<1> USE DEF IInv
<1>1. ASSUME NEW u \in Users, NEW p \in Pools, ReloadPool(u, p) PROVE IInv'
  <2>1. TypeOK'
    BY <1>1 DEF ReloadPool, TypeOK, traffic, tables, history
  <2> QED
    BY <2>1, <1>1 DEF ReloadPool, OpOK, BoundOK, SnapshotCovered, SweptRowsGone, traffic, tables
<1>2. ASSUME NEW u \in Users, NEW l \in Labels, Register(u, l) PROVE IInv'
  <2>1. opsLeft' \in 0..MaxOps /\ name' \in [Users -> Labels \cup {NoLabel}]
    BY <1>2, UsageAssumption DEF Register, TypeOK
  <2>2. TypeOK'
    BY <2>1, <1>2 DEF Register, TypeOK, traffic, tables, history
  <2> QED
    BY <2>2, <1>2 DEF Register, OpOK, BoundOK, SnapshotCovered, SweptRowsGone, traffic, tables
<1>3. CASE Crash
  <2>1. reqs' \in [Reqs -> Entry] /\ seen' \in [Reqs -> Ident \cup {NoIdent}]
    BY <1>3 DEF Crash, TypeOK, Popped, NewEntry, Entry
  <2>2. op' \in Op
    BY <1>3, UsageAssumption DEF Crash, Idle, Op
  <2>3. recorded' \in [RowKey -> Int]
    BY <1>3, RowTotalType DEF Crash, TypeOK
  <2>4. TypeOK'
    BY <2>1, <2>2, <2>3, <1>3 DEF Crash, TypeOK, Empty, tables, world
  <2>5. BoundOK'
    BY <1>3 DEF Crash, BoundOK, TypeOK, Popped, NewEntry
  <2> QED
    BY <2>4, <2>5, <1>3 DEF Crash, Idle, OpOK, SnapshotCovered, SweptRowsGone
<1> QED
  BY <1>1, <1>2, <1>3 DEF Environment

\* Every step preserves the inductive invariant.
LEMMA NextIInv == IInv /\ [Next]_vars => IInv'
<1>1. ASSUME IInv, UNCHANGED vars PROVE IInv'
  BY <1>1 DEF vars, traffic, tables, world, history, IInv, TypeOK, OpOK, BoundOK,
              SnapshotCovered, SweptRowsGone
<1> QED
  BY <1>1, TrafficIInv, FlushIInv, BeginAdminIInv, FinishAdminIInv, EnvironmentIInv DEF Next

LEMMA Invariance == Spec => []IInv
  BY InitIInv, NextIInv, PTL DEF Spec

-----------------------------------------------------------------------------
\* The buffer, the tables and the mutex only ever hold well-formed values.
THEOREM TypeCorrect == Spec => []TypeOK
<1>1. IInv => TypeOK
  BY DEF IInv
<1> QED
  BY <1>1, Invariance, PTL

\* What _flush_locked subtracts is always still in the buffer.
THEOREM SnapshotIsCovered == Spec => []SnapshotCovered
<1>1. IInv => SnapshotCovered
  BY DEF IInv
<1> QED
  BY <1>1, Invariance, PTL

\* One flush step leaves what is owed to every key unchanged: the subtraction is
\* exact because the snapshot is covered.
LEMMA FlushStep == IInv /\ [Next]_vars => (Flush => \A k \in Key : Owed(k)' = Owed(k))
<1> SUFFICES ASSUME IInv, Flush, NEW k \in Key PROVE Owed(k)' = Owed(k)
  OBVIOUS
<1>0. rows[k] \in Nat /\ buffer[k] \in Nat /\ snapshot[k] \in Nat
  BY DEF IInv, TypeOK
<1>a. AfterFlush.phase # "subtract"
  BY DEF AfterFlush, Idle, IInv, TypeOK, Op
<1>1. CASE FlushSnapshot
  BY <1>0, <1>a, <1>1 DEF FlushSnapshot, Owed, IInv, TypeOK, Op, tables
<1>2. CASE FlushWrite
  BY <1>0, <1>2 DEF FlushWrite, WriteRows, Owed, IInv, TypeOK, Op
<1>3. CASE FlushFail
  BY <1>0, <1>a, <1>3 DEF FlushFail, Owed, tables
<1>4. CASE FlushSubtract
  <2>1. snapshot[k] <= buffer[k]
    BY <1>4 DEF FlushSubtract, IInv, SnapshotCovered
  <2>2. buffer'[k] = buffer[k] - snapshot[k] /\ rows' = rows
    BY <2>1, <1>0, <1>4 DEF FlushSubtract, tables
  <2>3. op.phase = "subtract" /\ op'.phase # "subtract"
    BY <1>a, <1>4 DEF FlushSubtract
  <2> QED
    BY <2>2, <2>3, <1>0 DEF Owed
<1> QED
  BY <1>1, <1>2, <1>3, <1>4 DEF Flush

\* The exactly-once core: however often writes fail and whatever else runs beside
\* them, no flush step loses or duplicates a count of any key.
THEOREM FlushExact == Spec => FlushMovesExactly
<1>1. IInv /\ [Next]_vars => [Flush => \A k \in Key : Owed(k)' = Owed(k)]_vars
  BY FlushStep
<1> QED
  BY <1>1, Invariance, PTL DEF Spec, FlushMovesExactly
-----------------------------------------------------------------------------
(* Exactly once.  The scope of a purge or a deletion is closed under the   *)
(* label, so a row is swept whole or not at all.                           *)
ScopeOK ==
    \A r \in RowKey : \A l, m \in Labels :
        Labelled(r, l) \in op.scope => Labelled(r, m) \in op.scope

CInv == IInv /\ ScopeOK /\ Conservation

Swept(r) == \E l \in Labels : Labelled(r, l) \in op.scope

\* Outside a flush's subtraction nothing is pending.
LEMMA QuietConserves ==
    /\ Conservation
    /\ UNCHANGED <<rows, buffer, recorded>>
    /\ \/ op.phase # "subtract" /\ op'.phase # "subtract"
       \/ UNCHANGED <<snapshot, op>>
    => Conservation'
  BY DEF Conservation, Pending

LEMMA InitCInv == Init => CInv
<1> SUFFICES ASSUME Init PROVE CInv
  OBVIOUS
<1>1. IInv
  BY InitIInv
<1>2. ScopeOK
  BY DEF Init, Idle, ScopeOK
<1>3. ASSUME NEW r \in RowKey PROVE RowTotal(Empty, r) = 0
  <2>1. Empty \in [Key -> Nat] /\ \A l \in Labels : Empty[Labelled(r, l)] = 0
    BY LabelledKey DEF Empty
  <2> QED
    BY <2>1, RowTotalZero
<1>4. Conservation
  BY <1>3 DEF Init, Idle, Conservation, Pending
<1> QED
  BY <1>1, <1>2, <1>4 DEF CInv

\* A request that ends is owed by its row and buffered under its key; the other
\* steps of a request count nothing.
LEMMA TrafficConserves == CInv /\ Traffic => Conservation'
<1> SUFFICES ASSUME CInv, NEW r \in Reqs,
                    \/ \E m \in Models \cup {NoModel} : StartRequest(r, m)
                    \/ \E u \in Users : Authenticate(r, u)
                    \/ UpdateIdentity(r)
                    \/ \E m \in Models : UpdateModel(r, m)
                    \/ \E ok, byok \in BOOLEAN : EndRequest(r, ok, byok)
             PROVE  Conservation'
  BY DEF Traffic
<1> USE DEF CInv
<1>1. CASE \/ \E m \in Models \cup {NoModel} : StartRequest(r, m)
           \/ \E u \in Users : Authenticate(r, u)
           \/ UpdateIdentity(r)
           \/ \E m \in Models : UpdateModel(r, m)
  BY <1>1, QuietConserves DEF StartRequest, Authenticate, UpdateIdentity, UpdateModel, tables, history
<1>2. ASSUME NEW ok \in BOOLEAN, NEW byok \in BOOLEAN, EndRequest(r, ok, byok)
      PROVE  Conservation'
  <2> DEFINE e == reqs[r]
             k == KeyOf(e, PoolStamp(e, byok))
  <2>1. CASE ~Counted(e, ok)
    BY <2>1, <1>2, QuietConserves DEF EndRequest, tables
  <2>2. CASE Counted(e, ok)
    <3>1. k \in Key
      <4>1. e \in Entry /\ e.uid # NoUser /\ e.model # NoModel
        BY <2>2 DEF IInv, TypeOK, Counted
      <4>2. e.uid \in Users /\ e.model \in Models
        BY <4>1 DEF Entry
      <4>3. PoolStamp(e, byok) \in Pools
        BY <4>2, UsageAssumption DEF IInv, TypeOK, PoolStamp
      <4>4. e.label \in Labels
        BY <4>1 DEF IInv, BoundOK
      <4> QED
        BY <4>2, <4>3, <4>4 DEF KeyOf, Key
    <3>2. /\ buffer' = [buffer EXCEPT ![k] = @ + 1]
          /\ recorded' = [recorded EXCEPT ![RowOf(k)] = @ + 1]
          /\ UNCHANGED <<rows, op, snapshot>>
      BY <2>2, <1>2 DEF EndRequest, tables
    <3> HIDE DEF e, k
    <3> DEFINE one == [x \in Key |-> IF x = k THEN 1 ELSE 0]
    <3>3. /\ buffer \in [Key -> Nat] /\ buffer' \in [Key -> Nat] /\ one \in [Key -> Nat]
          /\ rows \in [Key -> Nat] /\ snapshot \in [Key -> Nat]
          /\ recorded \in [RowKey -> Int]
      BY <3>1, <3>2 DEF IInv, TypeOK
    <3>4. \A x \in Key : buffer'[x] = buffer[x] + one[x]
      BY <3>2, <3>3
    <3>5. ASSUME NEW q \in RowKey
          PROVE  RowTotal(buffer', q) = RowTotal(buffer, q) + RowTotal(one, q)
      <4>1. \A l \in Labels : buffer'[Labelled(q, l)] = buffer[Labelled(q, l)] + one[Labelled(q, l)]
        BY <3>4, LabelledKey
      <4> HIDE DEF one
      <4> QED
        BY <3>3, <4>1, RowTotalAdd
    <3>6. RowTotal(one, RowOf(k)) = 1
      <4>1. RowOf(k) \in RowKey /\ k.label \in Labels /\ Labelled(RowOf(k), k.label) = k
        BY <3>1, RowOfKey
      <4>2. \A m \in Labels \ {k.label} : one[Labelled(RowOf(k), m)] = 0
        BY <4>1, LabelledKey
      <4>3. one[k] = 1
        BY <3>1
      <4> HIDE DEF one
      <4> QED
        BY <3>3, <4>1, <4>2, <4>3, RowTotalOne
    <3>7. ASSUME NEW q \in RowKey, q # RowOf(k)
          PROVE  RowTotal(one, q) = 0
      <4>1. \A l \in Labels : one[Labelled(q, l)] = 0
        BY <3>7, LabelledKey
      <4> HIDE DEF one
      <4> QED
        BY <3>3, <4>1, RowTotalZero
    <3> HIDE DEF one
    <3>8. ASSUME NEW q \in RowKey
          PROVE  recorded'[q] = RowTotal(rows, q) + RowTotal(buffer', q) - Pending(snapshot, q)
      <4>1. recorded[q] = RowTotal(rows, q) + RowTotal(buffer, q) - Pending(snapshot, q)
        BY DEF Conservation
      <4>2. /\ RowTotal(rows, q) \in Nat /\ RowTotal(buffer, q) \in Nat /\ RowTotal(snapshot, q) \in Nat
        BY <3>3, RowTotalType
      <4>3. Pending(snapshot, q) \in Nat
        BY <4>2 DEF Pending
      <4>4. recorded'[q] = IF q = RowOf(k) THEN recorded[q] + 1 ELSE recorded[q]
        BY <3>2, <3>3
      <4> QED
        BY <3>5, <3>6, <3>7, <4>1, <4>2, <4>3, <4>4
    <3> QED
      BY <3>8, <3>2 DEF Conservation, Pending
  <2> QED
    BY <2>1, <2>2
<1> QED
  BY <1>1, <1>2

\* What a flush writes becomes pending, what it subtracts stops being pending.
LEMMA FlushConserves == CInv /\ (BeginFlush \/ Flush) => Conservation'
<1> SUFFICES ASSUME CInv, BeginFlush \/ Flush PROVE Conservation'
  OBVIOUS
<1> USE DEF CInv
<1>a. AfterFlush.phase # "subtract"
  BY DEF AfterFlush, Idle, IInv, TypeOK, Op
<1>b. op.kind = "none" => op.phase # "subtract"
  BY DEF IInv, OpOK
<1>c. buffer \in [Key -> Nat] /\ rows \in [Key -> Nat] /\ snapshot \in [Key -> Nat] /\ op \in Op
  BY DEF IInv, TypeOK
<1>d. ASSUME NEW r \in RowKey
      PROVE  /\ RowTotal(rows, r) \in Nat /\ RowTotal(buffer, r) \in Nat
             /\ RowTotal(snapshot, r) \in Nat
  BY <1>c, RowTotalType
<1>1. CASE BeginFlush
  BY <1>1, <1>b, QuietConserves DEF BeginFlush, Idle, tables, history
<1>2. CASE FlushSnapshot
  <2>1. op'.phase # "subtract" /\ op.phase # "subtract"
    BY <1>2, <1>a, <1>c DEF FlushSnapshot, Op
  <2> QED
    BY <2>1, <1>2, QuietConserves DEF FlushSnapshot, tables, history
<1>3. CASE FlushWrite
  <2>1. /\ rows' \in [Key -> Nat] /\ \A k \in Key : rows'[k] = rows[k] + snapshot[k]
        /\ UNCHANGED <<buffer, snapshot, recorded>>
        /\ op.phase = "write" /\ op'.phase = "subtract"
    BY <1>3, <1>c DEF FlushWrite, WriteRows, Op, history
  <2>2. ASSUME NEW r \in RowKey
        PROVE  RowTotal(rows', r) = RowTotal(rows, r) + RowTotal(snapshot, r)
    <3>1. \A l \in Labels : rows'[Labelled(r, l)] = rows[Labelled(r, l)] + snapshot[Labelled(r, l)]
      BY <2>1, LabelledKey
    <3> QED
      BY <2>1, <3>1, <1>c, RowTotalAdd
  <2>3. ASSUME NEW r \in RowKey
        PROVE  recorded[r] = RowTotal(rows', r) + RowTotal(buffer, r) - RowTotal(snapshot, r)
    BY <2>1, <2>2, <1>d DEF Conservation, Pending
  <2> QED
    BY <2>1, <2>3 DEF Conservation, Pending
<1>4. CASE FlushFail
  <2>1. op'.phase # "subtract" /\ op.phase # "subtract"
    BY <1>4, <1>a DEF FlushFail
  <2> QED
    BY <2>1, <1>4, QuietConserves DEF FlushFail, tables, history
<1>5. CASE FlushSubtract
  <2>1. \A k \in Key : snapshot[k] <= buffer[k]
    BY <1>5 DEF FlushSubtract, IInv, SnapshotCovered
  <2>2. /\ buffer' \in [Key -> Nat] /\ \A k \in Key : buffer[k] = buffer'[k] + snapshot[k]
        /\ UNCHANGED <<rows, recorded>>
        /\ op.phase = "subtract" /\ op'.phase # "subtract"
    BY <2>1, <1>5, <1>a, <1>c DEF FlushSubtract, tables, history
  <2>3. ASSUME NEW r \in RowKey
        PROVE  RowTotal(buffer, r) = RowTotal(buffer', r) + RowTotal(snapshot, r)
    <3>1. \A l \in Labels : buffer[Labelled(r, l)] = buffer'[Labelled(r, l)] + snapshot[Labelled(r, l)]
      BY <2>2, LabelledKey
    <3> QED
      BY <2>2, <3>1, <1>c, RowTotalAdd
  <2>4. ASSUME NEW r \in RowKey
        PROVE  recorded[r] = RowTotal(rows, r) + RowTotal(buffer', r)
    <3>1. RowTotal(buffer', r) \in Nat
      BY <2>2, RowTotalType
    <3> QED
      BY <3>1, <2>2, <2>3, <1>d DEF Conservation, Pending
  <2>5. \A r \in RowKey : RowTotal(buffer', r) \in Nat
    BY <2>2, RowTotalType
  <2> QED
    BY <2>2, <2>4, <2>5, <1>d DEF Conservation, Pending
<1> QED
  BY <1>1, <1>2, <1>3, <1>4, <1>5 DEF Flush

\* Sweeping a scope empties the rows it covers and leaves the others alone.
LEMMA SweptTotals ==
    ASSUME NEW f \in [Key -> Nat], NEW g \in [Key -> Nat], NEW r \in RowKey, ScopeOK,
           \A k \in Key : g[k] = IF k \in op.scope THEN 0 ELSE f[k]
    PROVE  RowTotal(g, r) = IF Swept(r) THEN 0 ELSE RowTotal(f, r)
<1>1. CASE Swept(r)
  <2>1. \A l \in Labels : g[Labelled(r, l)] = 0
    BY <1>1, LabelledKey DEF Swept, ScopeOK
  <2> QED
    BY <1>1, <2>1, RowTotalZero
<1>2. CASE ~Swept(r)
  <2>1. \A l \in Labels : g[Labelled(r, l)] = f[Labelled(r, l)]
    BY <1>2, LabelledKey DEF Swept
  <2> QED
    BY <1>2, <2>1, RowTotalSame
<1> QED
  BY <1>1, <1>2

\* Deleted rows are owed no longer; what is still buffered for them is.
LEMMA DeleteRowsConserves ==
    CInv /\ DeleteRows /\ op.phase = "commit" /\ op'.phase = "sweep" /\ UNCHANGED buffer
    => Conservation'
<1> SUFFICES ASSUME CInv, DeleteRows, op.phase = "commit", op'.phase = "sweep", UNCHANGED buffer,
                    NEW r \in RowKey
             PROVE  recorded'[r] = RowTotal(rows', r) + RowTotal(buffer, r) - 0
  BY DEF Conservation, Pending
<1>1. /\ rows \in [Key -> Nat] /\ rows' \in [Key -> Nat] /\ buffer \in [Key -> Nat]
      /\ \A k \in Key : rows'[k] = IF k \in op.scope THEN 0 ELSE rows[k]
  BY DEF CInv, IInv, TypeOK, DeleteRows
<1>2. RowTotal(rows', r) = IF Swept(r) THEN 0 ELSE RowTotal(rows, r)
  BY <1>1, SweptTotals DEF CInv
<1>3. recorded'[r] = IF Swept(r) THEN recorded[r] - RowTotal(rows, r) ELSE recorded[r]
  BY DEF DeleteRows, Swept
<1>4. recorded[r] = RowTotal(rows, r) + RowTotal(buffer, r) - 0
  BY DEF CInv, Conservation, Pending
<1>5. RowTotal(rows, r) \in Nat /\ RowTotal(buffer, r) \in Nat
  BY <1>1, RowTotalType
<1> QED
  BY <1>2, <1>3, <1>4, <1>5

\* The sweep finds its rows gone (no flush put them back) and drops the rest.
LEMMA DropBufferedConserves ==
    /\ CInv /\ DropBuffered /\ UNCHANGED rows
    /\ op.kind \in {"purge", "delete"} /\ op.phase = "sweep" /\ op'.phase # "subtract"
    => Conservation'
<1> SUFFICES ASSUME CInv, DropBuffered, UNCHANGED rows, op.phase = "sweep",
                    op.kind \in {"purge", "delete"}, op'.phase # "subtract", NEW r \in RowKey
             PROVE  recorded'[r] = RowTotal(rows, r) + RowTotal(buffer', r) - 0
  BY DEF Conservation, Pending
<1>1. /\ buffer \in [Key -> Nat] /\ buffer' \in [Key -> Nat] /\ rows \in [Key -> Nat]
      /\ \A k \in Key : buffer'[k] = IF k \in op.scope THEN 0 ELSE buffer[k]
  BY DEF CInv, IInv, TypeOK, DropBuffered
<1>2. RowTotal(buffer', r) = IF Swept(r) THEN 0 ELSE RowTotal(buffer, r)
  BY <1>1, SweptTotals DEF CInv
<1>3. Swept(r) => RowTotal(rows, r) = 0
  <2> SUFFICES ASSUME Swept(r) PROVE \A l \in Labels : rows[Labelled(r, l)] = 0
    BY <1>1, RowTotalZero
  <2>1. \A l \in Labels : Labelled(r, l) \in op.scope
    BY DEF CInv, ScopeOK, Swept
  <2> QED
    BY <2>1 DEF CInv, IInv, SweptRowsGone
<1>4. recorded'[r] = IF Swept(r) THEN 0 ELSE recorded[r]
  BY DEF DropBuffered, Swept
<1>5. recorded[r] = RowTotal(rows, r) + RowTotal(buffer, r) - 0
  BY DEF CInv, Conservation, Pending
<1> QED
  BY <1>2, <1>3, <1>4, <1>5

LEMMA FinishAdminConserves == CInv /\ FinishAdmin => Conservation'
<1> SUFFICES ASSUME CInv, FinishAdmin PROVE Conservation'
  OBVIOUS
<1>a. op \in Op
  BY DEF CInv, IInv, TypeOK
<1>1. CASE CommitFails
  BY <1>1, QuietConserves DEF CInv, CommitFails, Idle, tables, history
<1>2. CASE RenameCommit
  <2>1. op'.phase = "sweep"
    BY <1>2, <1>a DEF RenameCommit, Op
  <2> QED
    BY <1>2, <2>1, QuietConserves DEF CInv, RenameCommit
<1>3. CASE PurgeCommit
  <2>1. op'.phase = "sweep"
    BY <1>3, <1>a DEF PurgeCommit, Op
  <2> QED
    BY <1>3, <2>1, DeleteRowsConserves DEF PurgeCommit
<1>4. CASE DeleteCommit
  <2>1. op'.phase = "sweep"
    BY <1>4, <1>a DEF DeleteCommit, Op
  <2> QED
    BY <1>4, <2>1, DeleteRowsConserves DEF DeleteCommit
<1>5. CASE RenameIdentity
  <2>1. /\ buffer \in [Key -> Nat] /\ op.new \in Labels
        /\ \A k \in Key : RowTotal(buffer, RowOf(k)) \in Nat
    BY <1>5, RowTotalType, RowOfKey DEF CInv, IInv, TypeOK, OpOK, RenameIdentity
  <2>2. /\ buffer' \in [Key -> Nat]
        /\ \A k \in Key : buffer'[k] = IF k.uid # op.uid THEN buffer[k]
                                       ELSE IF k.label = op.new THEN RowTotal(buffer, RowOf(k))
                                       ELSE 0
    BY <2>1, <1>5 DEF RenameIdentity
  <2>3. ASSUME NEW r \in RowKey
        PROVE  RowTotal(buffer', r) = RowTotal(buffer, r)
    <3>1. CASE r.uid # op.uid
      <4>1. \A l \in Labels : buffer'[Labelled(r, l)] = buffer[Labelled(r, l)]
        BY <3>1, <2>2, LabelledKey
      <4> QED
        BY <4>1, <2>1, <2>2, RowTotalSame
    <3>2. CASE r.uid = op.uid
      <4>1. \A m \in Labels \ {op.new} : buffer'[Labelled(r, m)] = 0
        BY <3>2, <2>2, LabelledKey
      <4>2. buffer'[Labelled(r, op.new)] = RowTotal(buffer, r)
        BY <3>2, <2>1, <2>2, LabelledKey
      <4> QED
        BY <4>1, <4>2, <2>1, <2>2, RowTotalOne
    <3> QED
      BY <3>1, <3>2
  <2>4. UNCHANGED <<rows, recorded>> /\ op.phase # "subtract" /\ op'.phase # "subtract"
    BY <1>5 DEF RenameIdentity, Idle, tables, history
  <2> QED
    BY <2>3, <2>4 DEF CInv, Conservation, Pending
<1>6. ASSUME NEW resettle \in BOOLEAN, DropBufferedUsage(resettle) PROVE Conservation'
  <2>1. op'.phase # "subtract"
    BY <1>6 DEF DropBufferedUsage, Idle
  <2> QED
    BY <1>6, <2>1, DropBufferedConserves DEF DropBufferedUsage, tables
<1>7. CASE ForgetUser
  BY <1>7, DropBufferedConserves DEF ForgetUser, Idle, tables
<1> QED
  BY <1>1, <1>2, <1>3, <1>4, <1>5, <1>6, <1>7 DEF FinishAdmin

\* Taking the mutex, reloads and registrations count nothing; a crash writes off
\* what had not reached the tables.
LEMMA OtherConserves == CInv /\ (BeginAdmin \/ Environment \/ Crash) => Conservation'
<1> SUFFICES ASSUME CInv, BeginAdmin \/ Environment \/ Crash PROVE Conservation'
  OBVIOUS
<1>1. ASSUME NEW new, new.phase \in {"snap", "commit"}, Begin(new) PROVE Conservation'
  BY <1>1, QuietConserves DEF Begin, CInv, IInv, OpOK, tables, history
<1>2. CASE BeginAdmin
  <2>1. ASSUME NEW u \in Users, NEW l \in Labels, BeginRename(u, l) PROVE Conservation'
    BY <2>1, <1>1 DEF BeginRename
  <2>2. ASSUME NEW u \in Users, NEW first \in {"snap", "commit"}, BeginDelete(u, first)
        PROVE  Conservation'
    BY <2>2, <1>1 DEF BeginDelete
  <2>3. ASSUME NEW scope, BeginPurge(scope) PROVE Conservation'
    BY <2>3, <1>1 DEF BeginPurge
  <2> QED
    BY <1>2, <2>1, <2>2, <2>3 DEF BeginAdmin
<1>3. CASE Environment
  BY <1>3, QuietConserves DEF CInv, Environment, ReloadPool, Register, tables, history
<1>4. CASE Crash
  <2>1. ASSUME NEW r \in RowKey PROVE RowTotal(Empty, r) = 0
    <3>1. Empty \in [Key -> Nat] /\ \A l \in Labels : Empty[Labelled(r, l)] = 0
      BY LabelledKey DEF Empty
    <3> QED
      BY <3>1, RowTotalZero
  <2>2. /\ buffer' = Empty /\ rows' = rows /\ op'.phase = "idle"
        /\ recorded' = [r \in RowKey |-> RowTotal(rows, r)]
    BY <1>4 DEF Crash, Idle, tables
  <2>3. \A r \in RowKey : RowTotal(rows, r) \in Nat
    BY RowTotalType DEF CInv, IInv, TypeOK
  <2> QED
    BY <2>1, <2>2, <2>3 DEF Conservation, Pending
<1> QED
  BY <1>2, <1>3, <1>4

\* Scopes are chosen by user, by model or by pool, never by label.
LEMMA NextScopeOK == CInv /\ [Next]_vars => ScopeOK'
<1> SUFFICES ASSUME CInv, [Next]_vars PROVE ScopeOK'
  OBVIOUS
<1>a. ScopeOK /\ op \in Op
  BY DEF CInv, IInv, TypeOK
<1>b. ASSUME op'.scope = op.scope PROVE ScopeOK'
  BY <1>a, <1>b DEF ScopeOK
<1>c. ASSUME op'.scope = {} PROVE ScopeOK'
  BY <1>c DEF ScopeOK
<1>d. ASSUME NEW scope, op'.scope = scope,
             \/ \E u \in Users : scope = KeysOfUser(u)
             \/ \E m \in Models : scope = ByModel(m)
             \/ \E p \in Pools : scope = ByPool(p)
      PROVE  ScopeOK'
  BY <1>d, LabelledKey DEF ScopeOK, KeysOfUser, ByModel, ByPool, Labelled
<1>e. AfterFlush.scope \in {op.scope, {}}
  BY <1>a DEF AfterFlush, Idle, Op
<1>f. op' = [op EXCEPT !.phase = "write"] \/ op' = [op EXCEPT !.phase = "subtract"]
      \/ op' = [op EXCEPT !.phase = "sweep"] => op'.scope = op.scope
  BY <1>a DEF Op
<1>1. CASE Traffic
  <2>1. op' = op
    BY <1>1 DEF Traffic, StartRequest, Authenticate, UpdateIdentity, UpdateModel, EndRequest
  <2> QED
    BY <2>1, <1>b
<1>2. CASE BeginFlush
  BY <1>2, <1>c DEF BeginFlush, Idle
<1>3. CASE Flush
  BY <1>3, <1>b, <1>c, <1>e, <1>f DEF Flush, FlushSnapshot, FlushWrite, FlushFail, FlushSubtract
<1>4. CASE BeginAdmin
  <2>1. ASSUME NEW u \in Users, NEW l \in Labels, BeginRename(u, l) PROVE ScopeOK'
    BY <2>1, <1>d DEF BeginRename, Begin
  <2>2. ASSUME NEW u \in Users, NEW first \in {"snap", "commit"}, BeginDelete(u, first)
        PROVE  ScopeOK'
    BY <2>2, <1>d DEF BeginDelete, Begin
  <2>3. ASSUME NEW scope, BeginPurge(scope),
               \/ \E u \in Users : scope = KeysOfUser(u)
               \/ \E m \in Models : scope = ByModel(m)
               \/ \E p \in Pools : scope = ByPool(p)
        PROVE  ScopeOK'
    BY <2>3, <1>d DEF BeginPurge, Begin
  <2> QED
    BY <1>4, <2>1, <2>2, <2>3 DEF BeginAdmin, ByUser
<1>5. CASE FinishAdmin
  <2>1. ASSUME NEW resettle \in BOOLEAN, DropBufferedUsage(resettle) PROVE ScopeOK'
    BY <2>1, <1>c DEF DropBufferedUsage, Idle
  <2>2. CASE CommitFails \/ RenameIdentity \/ ForgetUser
    BY <2>2, <1>c DEF CommitFails, RenameIdentity, ForgetUser, Idle
  <2>3. CASE RenameCommit \/ PurgeCommit \/ DeleteCommit
    BY <2>3, <1>b, <1>f DEF RenameCommit, PurgeCommit, DeleteCommit
  <2> QED
    BY <1>5, <2>1, <2>2, <2>3 DEF FinishAdmin
<1>6. CASE Environment
  BY <1>6, <1>b DEF Environment, ReloadPool, Register
<1>7. CASE Crash
  BY <1>7, <1>c DEF Crash, Idle
<1>8. CASE UNCHANGED vars
  BY <1>8, <1>b DEF vars
<1> QED
  BY <1>1, <1>2, <1>3, <1>4, <1>5, <1>6, <1>7, <1>8 DEF Next

LEMMA NextCInv == CInv /\ [Next]_vars => CInv'
<1> SUFFICES ASSUME CInv, [Next]_vars PROVE CInv'
  OBVIOUS
<1>1. IInv'
  BY NextIInv DEF CInv
<1>2. ScopeOK'
  BY NextScopeOK
<1>3. Conservation'
  <2>1. CASE UNCHANGED vars
    BY <2>1, QuietConserves DEF CInv, vars, tables, history
  <2> QED
    BY <2>1, TrafficConserves, FlushConserves, OtherConserves, FinishAdminConserves DEF Next
<1> QED
  BY <1>1, <1>2, <1>3 DEF CInv

LEMMA ConservationInvariance == Spec => []CInv
  BY InitCInv, NextCInv, PTL DEF Spec

\* Exactly once: at every moment of a flush, a rename, a purge, a deletion, a
\* failed write or a crash, what the tables and the buffer hold of a row, less
\* what is written and not yet subtracted, is what its requests are owed.
THEOREM CountedExactlyOnce == Spec => []Conservation
<1>1. CInv => Conservation
  BY DEF CInv
<1> QED
  BY <1>1, ConservationInvariance, PTL

\* What a flush has snapshot is no more than what is buffered, so a row of the
\* tables never shows more requests than were made: the tables run ahead of the
\* subtraction, never of the requests (a stop during a commit is another matter).
THEOREM TablesNeverOvercount == Spec => []NeverOvercounts
<1>1. ASSUME CInv, NEW r \in RowKey PROVE RowTotal(rows, r) <= recorded[r]
  <2> DEFINE rest == [k \in Key |-> buffer[k] - snapshot[k]]
  <2>1. rows \in [Key -> Nat] /\ buffer \in [Key -> Nat] /\ snapshot \in [Key -> Nat]
    BY <1>1 DEF CInv, IInv, TypeOK
  <2>2. RowTotal(rows, r) \in Nat /\ RowTotal(buffer, r) \in Nat
    BY <2>1, RowTotalType
  <2>3. CASE op.phase = "subtract"
    <3>1. \A k \in Key : snapshot[k] <= buffer[k]
      BY <1>1, <2>3 DEF CInv, IInv, SnapshotCovered
    <3>2. rest \in [Key -> Nat] /\ \A k \in Key : buffer[k] = snapshot[k] + rest[k]
      BY <2>1, <3>1
    <3> HIDE DEF rest
    <3>3. \A l \in Labels : buffer[Labelled(r, l)] = snapshot[Labelled(r, l)] + rest[Labelled(r, l)]
      BY <3>2, LabelledKey
    <3>4. RowTotal(buffer, r) = RowTotal(snapshot, r) + RowTotal(rest, r)
      BY <2>1, <3>2, <3>3, RowTotalAdd
    <3>5. RowTotal(snapshot, r) \in Nat /\ RowTotal(rest, r) \in Nat
      BY <2>1, <3>2, RowTotalType
    <3> QED
      BY <1>1, <2>2, <2>3, <3>4, <3>5 DEF CInv, Conservation, Pending
  <2>4. CASE op.phase # "subtract"
    BY <1>1, <2>2, <2>4 DEF CInv, Conservation, Pending
  <2> QED
    BY <2>3, <2>4
<1>2. CInv => NeverOvercounts
  BY <1>1 DEF NeverOvercounts
<1> QED
  BY <1>2, ConservationInvariance, PTL

-----------------------------------------------------------------------------
(* Usage follows accounts.  Between the commit of a rename or a deletion   *)
(* and its sweep, the memory is behind the tables for that one user.       *)
Sweeping(u) == op.uid = u /\ op.phase = "sweep"

\* An identity auth has read and not reported is current unless it is late.
SeenCurrent ==
    \A r \in Reqs \ late : seen[r] # NoIdent => name[seen[r].uid] = seen[r].label

\* A request that has a user is still running.
UserIsActive == \A r \in Reqs : reqs[r].uid # NoUser => reqs[r].state = "active"

\* The account a rename or a deletion is about, before and after its commit.
OpNames ==
    /\ op.kind \notin {"rename", "delete"} => op.uid = NoUser
    /\ op.kind \in {"rename", "delete"} /\ op.phase # "sweep" => name[op.uid] # NoLabel
    /\ op.kind = "rename" /\ op.phase = "sweep" => name[op.uid] = op.new
    /\ op.kind = "delete" => op.scope = KeysOfUser(op.uid)

\* Nothing is left of a user without an account, but for the sweep under way.
Gone(u) ==
    /\ \A k \in KeysOfUser(u) : rows[k] = 0
    /\ ~Sweeping(u) => \A k \in KeysOfUser(u) : buffer[k] = 0
    /\ ~Sweeping(u) => \A r \in Reqs : reqs[r].uid = u => r \in late

\* Everything of a user with an account is under the current name, but for the
\* sweep under way.
Current(u) ==
    /\ \A r \in RowKey : r.uid = u /\ RowTotal(rows, r) > 0 => rowLabel[r] = name[u]
    /\ ~Sweeping(u) => \A k \in KeysOfUser(u) : buffer[k] > 0 => k.label = name[u]
    /\ ~Sweeping(u) => \A r \in Reqs \ late : reqs[r].uid = u => reqs[r].label = name[u]

AccountsOK ==
    \A u \in Users \ tainted : IF name[u] = NoLabel THEN Gone(u) ELSE Current(u)

AInv == CInv /\ SeenCurrent /\ UserIsActive /\ OpNames /\ AccountsOK

\* What the proofs below keep needing of the types.
LEMMA AccountTypes ==
    ASSUME CInv
    PROVE  /\ reqs \in [Reqs -> Entry] /\ seen \in [Reqs -> Ident \cup {NoIdent}]
           /\ rows \in [Key -> Nat] /\ buffer \in [Key -> Nat] /\ snapshot \in [Key -> Nat]
           /\ rowLabel \in [RowKey -> Labels \cup {NoLabel}]
           /\ op \in Op /\ name \in [Users -> Labels \cup {NoLabel}]
           /\ late \subseteq Reqs /\ tainted \subseteq Users
  BY DEF CInv, IInv, TypeOK

LEMMA InitAInv == Init => AInv
<1> SUFFICES ASSUME Init PROVE AInv
  OBVIOUS
<1>1. CInv
  BY InitCInv
<1>2. SeenCurrent /\ UserIsActive /\ OpNames
  BY DEF Init, SeenCurrent, UserIsActive, OpNames, NewEntry, Idle
<1>3. ASSUME NEW r \in RowKey PROVE ~(RowTotal(rows, r) > 0)
  <2>1. rows \in [Key -> Nat] /\ \A l \in Labels : rows[Labelled(r, l)] = 0
    BY LabelledKey DEF Init, Empty
  <2>2. RowTotal(rows, r) = 0
    BY <2>1, RowTotalZero
  <2> QED
    BY <2>2
<1>4. AccountsOK
  BY <1>3, UsageAssumption DEF Init, AccountsOK, Gone, Current, Empty, NewEntry, KeysOfUser
<1> QED
  BY <1>1, <1>2, <1>4 DEF AInv

\* Steps of requests that count nothing.
LEMMA RequestAccounts ==
    ASSUME AInv, NEW r \in Reqs,
           \/ \E m \in Models \cup {NoModel} : StartRequest(r, m)
           \/ \E u \in Users : Authenticate(r, u)
           \/ UpdateIdentity(r)
           \/ \E m \in Models : UpdateModel(r, m)
    PROVE  SeenCurrent' /\ UserIsActive' /\ OpNames' /\ AccountsOK'
<1> USE DEF AInv
<1>0. /\ reqs \in [Reqs -> Entry] /\ seen \in [Reqs -> Ident \cup {NoIdent}]
      /\ name \in [Users -> Labels \cup {NoLabel}] /\ late \subseteq Reqs
  BY AccountTypes
<1>a. UNCHANGED <<buffer, rows, rowLabel, op, snapshot, name, late, tainted>>
  BY DEF StartRequest, Authenticate, UpdateIdentity, UpdateModel, tables, world, history
<1>b. OpNames'
  BY <1>a DEF OpNames
<1>c. ASSUME \A q \in Reqs \ late : \A u \in Users :
               reqs'[q].uid = u => \/ reqs[q].uid = u /\ reqs'[q].label = reqs[q].label
                                   \/ reqs'[q].label = name[u] /\ name[u] # NoLabel
      PROVE  AccountsOK'
  <2> SUFFICES ASSUME NEW u \in Users \ tainted
               PROVE  IF name[u] = NoLabel THEN Gone(u)' ELSE Current(u)'
    BY <1>a DEF AccountsOK
  <2>1. CASE name[u] = NoLabel
    BY <2>1, <1>a, <1>c DEF AccountsOK, Gone, Sweeping
  <2>2. CASE name[u] # NoLabel
    BY <2>2, <1>a, <1>c DEF AccountsOK, Current, Sweeping
  <2> QED
    BY <2>1, <2>2
<1>1. ASSUME NEW m \in Models \cup {NoModel}, StartRequest(r, m)
      PROVE  SeenCurrent' /\ UserIsActive' /\ AccountsOK'
  <2>1. \A q \in Reqs : reqs'[q].uid = reqs[q].uid /\ reqs'[q].label = reqs[q].label
    BY <1>0, <1>1 DEF StartRequest, Entry
  <2>2. UserIsActive'
    BY <1>0, <1>1, <2>1 DEF StartRequest, UserIsActive, Entry
  <2> QED
    BY <2>1, <2>2, <1>a, <1>c, <1>1 DEF StartRequest, SeenCurrent
<1>2. ASSUME NEW u \in Users, Authenticate(r, u)
      PROVE  SeenCurrent' /\ UserIsActive' /\ AccountsOK'
  <2>1. reqs' = reqs /\ seen' = [seen EXCEPT ![r] = [uid |-> u, label |-> name[u]]]
    BY <1>2 DEF Authenticate
  <2>2. SeenCurrent'
    BY <1>0, <1>a, <2>1 DEF SeenCurrent
  <2> QED
    BY <2>1, <2>2, <1>c DEF UserIsActive
<1>3. ASSUME UpdateIdentity(r)
      PROVE  SeenCurrent' /\ UserIsActive' /\ AccountsOK'
  <2>1. seen[r] # NoIdent /\ seen[r] \in Ident /\ seen' = [seen EXCEPT ![r] = NoIdent]
    BY <1>0, <1>3 DEF UpdateIdentity
  <2>2. seen[r].uid \in Users /\ seen[r].label \in Labels /\ seen[r].label # NoLabel
    BY <2>1, UsageAssumption DEF Ident
  <2>3. SeenCurrent'
    BY <1>0, <1>a, <2>1 DEF SeenCurrent
  <2>4. reqs[r].state = "active" =>
          reqs' = [reqs EXCEPT ![r] = [@ EXCEPT !.uid = seen[r].uid, !.label = seen[r].label]]
    BY <1>3 DEF UpdateIdentity
  <2>5. reqs[r].state # "active" => reqs' = reqs
    BY <1>3 DEF UpdateIdentity
  <2>6. ASSUME NEW q \in Reqs
        PROVE  \/ q = r /\ reqs'[q].uid = seen[r].uid /\ reqs'[q].label = seen[r].label
                  /\ reqs'[q].state = "active"
               \/ reqs'[q] = reqs[q]
    BY <2>4, <2>5, <1>0, ZenonT(30) DEF Entry
  <2>7. UserIsActive'
    BY <2>6 DEF UserIsActive
  <2>8. r \notin late => name[seen[r].uid] = seen[r].label
    BY <2>1 DEF SeenCurrent
  <2> QED
    BY <2>2, <2>3, <2>6, <2>7, <2>8, <1>c
<1>4. ASSUME NEW m \in Models, UpdateModel(r, m)
      PROVE  SeenCurrent' /\ UserIsActive' /\ AccountsOK'
  <2>1. \A q \in Reqs : /\ reqs'[q].uid = reqs[q].uid /\ reqs'[q].label = reqs[q].label
                        /\ reqs'[q].state = reqs[q].state
    BY <1>0, <1>4 DEF UpdateModel, Entry
  <2> QED
    BY <2>1, <1>a, <1>c, <1>4 DEF UpdateModel, SeenCurrent, UserIsActive
<1> QED
  BY <1>b, <1>1, <1>2, <1>3, <1>4

\* A request that ends counts under the current name, or taints its user.
LEMMA EndAccounts ==
    ASSUME AInv, NEW r \in Reqs, NEW ok \in BOOLEAN, NEW byok \in BOOLEAN,
           EndRequest(r, ok, byok)
    PROVE  SeenCurrent' /\ UserIsActive' /\ OpNames' /\ AccountsOK'
<1> USE DEF AInv
<1> DEFINE e == reqs[r]
           k == KeyOf(e, PoolStamp(e, byok))
<1>0. /\ reqs \in [Reqs -> Entry] /\ buffer \in [Key -> Nat] /\ tainted \subseteq Users
  BY AccountTypes
<1>a. UNCHANGED <<seen, rows, rowLabel, op, name, late>>
  BY DEF EndRequest, tables, world
<1>b. /\ reqs' = [reqs EXCEPT ![r] = Popped] /\ Popped.uid = NoUser
      /\ tainted \subseteq tainted'
  BY DEF EndRequest, Popped, NewEntry
<1>1. SeenCurrent' /\ UserIsActive' /\ OpNames'
  BY <1>0, <1>a, <1>b DEF SeenCurrent, UserIsActive, OpNames
<1>2. \A q \in Reqs : reqs'[q] = reqs[q] \/ reqs'[q].uid = NoUser
  BY <1>0, <1>b
<1>3. ASSUME NEW x \in Key, buffer'[x] # buffer[x], x.uid \notin tainted'
      PROVE  r \notin late /\ reqs[r].uid = x.uid /\ reqs[r].label = x.label
  <2>1. Counted(e, ok) /\ x = k
    BY <1>3, <1>0 DEF EndRequest
  <2>2. x.uid = e.uid /\ x.label = e.label
    BY <2>1 DEF KeyOf
  <2> QED
    BY <2>1, <2>2, <1>3 DEF EndRequest
<1>4. ASSUME NEW u \in Users \ tainted'
      PROVE  IF name[u] = NoLabel THEN Gone(u)' ELSE Current(u)'
  <2>1. u \in Users \ tainted /\ u # NoUser
    BY <1>b, UsageAssumption
  <2>2. CASE name[u] = NoLabel
    <3>1. ASSUME ~Sweeping(u), NEW x \in KeysOfUser(u) PROVE buffer'[x] = 0
      BY <3>1, <2>1, <2>2, <1>3, <1>4 DEF AccountsOK, Gone, KeysOfUser
    <3> QED
      BY <3>1, <2>1, <2>2, <1>2, <1>a DEF AccountsOK, Gone, Sweeping
  <2>3. CASE name[u] # NoLabel
    <3>1. ASSUME ~Sweeping(u), NEW x \in KeysOfUser(u), buffer'[x] > 0 PROVE x.label = name[u]
      BY <3>1, <2>1, <2>3, <1>3, <1>4 DEF AccountsOK, Current, KeysOfUser
    <3> QED
      BY <3>1, <2>1, <2>3, <1>2, <1>a DEF AccountsOK, Current, Sweeping
  <2> QED
    BY <2>2, <2>3
<1>5. AccountsOK'
  BY <1>4, <1>a DEF AccountsOK
<1> QED
  BY <1>1, <1>5

\* A flush moves counts of a current name under that name.
LEMMA FlushAccounts ==
    ASSUME AInv, BeginFlush \/ Flush
    PROVE  SeenCurrent' /\ UserIsActive' /\ OpNames' /\ AccountsOK'
<1> USE DEF AInv
<1>0. /\ rows \in [Key -> Nat] /\ buffer \in [Key -> Nat] /\ snapshot \in [Key -> Nat]
      /\ rowLabel \in [RowKey -> Labels \cup {NoLabel}]
      /\ op \in Op /\ name \in [Users -> Labels \cup {NoLabel}]
  BY AccountTypes
<1>a. /\ UNCHANGED <<reqs, seen, name, late, tainted>>
      /\ op.phase # "sweep" /\ op'.phase # "sweep"
      /\ \/ op' = Idle \/ op' = [op EXCEPT !.phase = "write"]
         \/ op' = [op EXCEPT !.phase = "subtract"] \/ op' = [op EXCEPT !.phase = "commit"]
         \/ op' = [Idle EXCEPT !.kind = "flush", !.phase = "snap"]
  <2>1. AfterFlush.phase # "sweep" /\ (AfterFlush = Idle \/ AfterFlush = [op EXCEPT !.phase = "commit"])
    BY <1>0 DEF AfterFlush, Idle, Op
  <2>2. CASE BeginFlush
    BY <2>2 DEF BeginFlush, Idle, traffic, world, history, CInv, IInv, OpOK
  <2>3. CASE Flush
    BY <1>0, <2>1, <2>3 DEF Flush, FlushSnapshot, FlushWrite, FlushFail, FlushSubtract,
                             traffic, world, history, Op
  <2> QED
    BY <2>2, <2>3
<1>1. SeenCurrent' /\ UserIsActive'
  BY <1>a DEF SeenCurrent, UserIsActive
<1>2. OpNames'
  <2>1. CASE op' = Idle \/ op' = [Idle EXCEPT !.kind = "flush", !.phase = "snap"]
    <3>1. op'.kind \in {"none", "flush"} /\ op'.uid = NoUser
      <4>1. CASE op' = Idle
        BY <4>1 DEF Idle
      <4>2. CASE op' = [Idle EXCEPT !.kind = "flush", !.phase = "snap"]
        <5>1. op' = [kind |-> "flush", uid |-> NoUser, new |-> NoLabel, scope |-> {}, phase |-> "snap"]
          BY <4>2 DEF Idle
        <5> QED
          BY <5>1
      <4> QED
        BY <2>1, <4>1, <4>2
    <3> QED
      BY <3>1 DEF OpNames
  <2>2. CASE /\ op'.kind = op.kind /\ op'.uid = op.uid /\ op'.scope = op.scope
             /\ op.phase # "sweep" /\ op'.phase # "sweep" /\ name' = name
    BY <2>2 DEF OpNames
  <2> QED
    BY <1>0, <1>a, <2>1, <2>2 DEF Op
<1>b. \A k \in Key : buffer'[k] \in Nat /\ buffer'[k] <= buffer[k]
  <2>1. CASE FlushSubtract
    BY <1>0, <2>1 DEF FlushSubtract
  <2>2. CASE ~FlushSubtract
    BY <1>0, <2>2 DEF BeginFlush, Flush, FlushSnapshot, FlushWrite, FlushFail
  <2> QED
    BY <2>1, <2>2
<1>3. ASSUME NEW u \in Users \ tainted
      PROVE  IF name[u] = NoLabel THEN Gone(u)' ELSE Current(u)'
  <2>1. CASE ~FlushWrite
    <3>1. UNCHANGED <<rows, rowLabel>>
      BY <2>1 DEF BeginFlush, Flush, FlushSnapshot, FlushFail, FlushSubtract, tables
    <3>2. CASE name[u] = NoLabel
      BY <3>1, <3>2, <1>a, <1>b, <1>0 DEF AccountsOK, Gone, Sweeping, KeysOfUser
    <3>3. CASE name[u] # NoLabel
      BY <3>1, <3>3, <1>a, <1>b, <1>0 DEF AccountsOK, Current, Sweeping, KeysOfUser
    <3> QED
      BY <3>2, <3>3
  <2>2. CASE FlushWrite
    <3>0. ~Sweeping(u) /\ UNCHANGED buffer
      BY <1>a, <2>2 DEF Sweeping, FlushWrite
    <3>1. \A k \in Key : snapshot[k] <= buffer[k]
      BY <2>2 DEF FlushWrite, CInv, IInv, SnapshotCovered
    <3>2. \A k \in Key : rows'[k] = rows[k] + snapshot[k]
      BY <2>2 DEF FlushWrite, WriteRows
    <3>3. CASE name[u] = NoLabel
      <4>1. \A k \in KeysOfUser(u) : rows[k] = 0 /\ buffer[k] = 0
        BY <3>0, <3>3 DEF AccountsOK, Gone
      <4>2. \A k \in KeysOfUser(u) : rows'[k] = 0
        BY <4>1, <3>1, <3>2, <1>0 DEF KeysOfUser
      <4> QED
        BY <4>2, <3>0, <3>3, <1>a DEF AccountsOK, Gone, Sweeping
    <3>4. CASE name[u] # NoLabel
      <4>1. ASSUME NEW r \in RowKey, r.uid = u, RowTotal(rows', r) > 0
            PROVE  rowLabel'[r] = name[u]
        <5> DEFINE from == {l \in Labels : snapshot[Labelled(r, l)] > 0}
        <5>1. IF from = {} THEN rowLabel'[r] = rowLabel[r] ELSE rowLabel'[r] \in from
          BY <2>2 DEF FlushWrite, WriteRows
        <5>2. CASE from = {}
          <6>1. rows' \in [Key -> Nat]
            BY <2>2, <1>0 DEF FlushWrite, WriteRows
          <6>2. \A l \in Labels : rows'[Labelled(r, l)] = rows[Labelled(r, l)]
            BY <5>2, <3>2, <1>0, LabelledKey
          <6>3. RowTotal(rows, r) > 0
            BY <4>1, <6>1, <6>2, <1>0, RowTotalSame
          <6> QED
            BY <6>3, <5>1, <5>2, <4>1, <3>4 DEF AccountsOK, Current
        <5>3. CASE from # {}
          <6>1. rowLabel'[r] \in from
            BY <5>1, <5>3
          <6>2. ASSUME NEW l \in from PROVE l = name[u]
            <7>1. /\ Labelled(r, l) \in KeysOfUser(u) /\ Labelled(r, l) \in Key
                  /\ Labelled(r, l).label = l
              BY <4>1, LabelledKey DEF KeysOfUser
            <7>2. buffer[Labelled(r, l)] > 0
              BY <7>1, <3>1, <1>0
            <7> QED
              BY <7>1, <7>2, <3>0, <3>4 DEF AccountsOK, Current
          <6> QED
            BY <6>1, <6>2
        <5> QED
          BY <5>2, <5>3
      <4> QED
        BY <4>1, <3>0, <3>4, <1>a DEF AccountsOK, Current, Sweeping
    <3> QED
      BY <3>3, <3>4
  <2> QED
    BY <2>1, <2>2
<1>4. AccountsOK'
  BY <1>3, <1>a DEF AccountsOK
<1> QED
  BY <1>1, <1>2, <1>4

\* Nobody is being swept when a section takes the mutex or loses it early.
LEMMA MutexAccounts ==
    ASSUME AInv, BeginAdmin \/ CommitFails
    PROVE  SeenCurrent' /\ UserIsActive' /\ OpNames' /\ AccountsOK'
<1> USE DEF AInv
<1>a. /\ UNCHANGED <<reqs, seen, buffer, rows, rowLabel, name, late, tainted>>
      /\ op.phase # "sweep" /\ op'.phase # "sweep" /\ OpNames'
  <2>1. ASSUME NEW new, new.phase \in {"snap", "commit"}, Begin(new),
               new.kind \notin {"rename", "delete"} => new.uid = NoUser,
               new.kind \in {"rename", "delete"} => name[new.uid] # NoLabel,
               new.kind = "delete" => new.scope = KeysOfUser(new.uid)
        PROVE  /\ UNCHANGED <<reqs, seen, buffer, rows, rowLabel, name, late, tainted>>
               /\ op.phase # "sweep" /\ op'.phase # "sweep" /\ OpNames'
    BY <2>1 DEF Begin, OpNames, CInv, IInv, OpOK, traffic, tables, history
  <2>2. ASSUME NEW u \in Users, NEW l \in Labels, BeginRename(u, l)
        PROVE  /\ UNCHANGED <<reqs, seen, buffer, rows, rowLabel, name, late, tainted>>
               /\ op.phase # "sweep" /\ op'.phase # "sweep" /\ OpNames'
    BY <2>1, <2>2 DEF BeginRename
  <2>3. ASSUME NEW u \in Users, NEW first \in {"snap", "commit"}, BeginDelete(u, first)
        PROVE  /\ UNCHANGED <<reqs, seen, buffer, rows, rowLabel, name, late, tainted>>
               /\ op.phase # "sweep" /\ op'.phase # "sweep" /\ OpNames'
    BY <2>1, <2>3 DEF BeginDelete
  <2>4. ASSUME NEW scope, BeginPurge(scope)
        PROVE  /\ UNCHANGED <<reqs, seen, buffer, rows, rowLabel, name, late, tainted>>
               /\ op.phase # "sweep" /\ op'.phase # "sweep" /\ OpNames'
    BY <2>1, <2>4 DEF BeginPurge
  <2>5. CASE CommitFails
    BY <2>5 DEF CommitFails, Idle, OpNames, traffic, tables, world, history
  <2> QED
    BY <2>2, <2>3, <2>4, <2>5 DEF BeginAdmin
<1>1. AccountsOK'
  BY <1>a DEF AccountsOK, Gone, Current, Sweeping
<1> QED
  BY <1>a, <1>1 DEF SeenCurrent, UserIsActive

\* The commit of a rename: the rows take the new name at once, the memory and
\* whoever read the old name are accounted for.
LEMMA RenameCommitAccounts ==
    ASSUME AInv, RenameCommit
    PROVE  SeenCurrent' /\ UserIsActive' /\ OpNames' /\ AccountsOK'
<1> USE DEF AInv
<1>0. /\ op \in Op /\ name \in [Users -> Labels \cup {NoLabel}] /\ late \subseteq Reqs
      /\ rowLabel \in [RowKey -> Labels \cup {NoLabel}] /\ seen \in [Reqs -> Ident \cup {NoIdent}]
  BY AccountTypes
<1>1. /\ op.uid \in Users /\ op.new \in Labels /\ op.new # NoLabel /\ op.kind = "rename"
      /\ name[op.uid] # NoLabel /\ op.phase = "commit"
  BY UsageAssumption DEF RenameCommit, CInv, IInv, OpOK, OpNames
<1>2. /\ UNCHANGED <<reqs, seen, buffer, rows, tainted>>
      /\ op'.kind = "rename" /\ op'.uid = op.uid /\ op'.new = op.new /\ op'.phase = "sweep"
      /\ name' = [name EXCEPT ![op.uid] = op.new]
      /\ late' = late \cup {r \in Reqs : seen[r].uid = op.uid}
  BY <1>0 DEF RenameCommit, traffic, Overtaken, Op
<1>3. SeenCurrent' /\ UserIsActive' /\ OpNames'
  <2>1. SeenCurrent'
    <3> SUFFICES ASSUME NEW r \in Reqs \ late', seen[r] # NoIdent
                 PROVE  name'[seen[r].uid] = seen[r].label
      BY <1>2 DEF SeenCurrent
    <3>1. r \in Reqs \ late /\ seen[r].uid # op.uid /\ seen[r].uid \in Users
      BY <1>0, <1>2 DEF Ident
    <3> QED
      BY <3>1, <1>0, <1>1, <1>2 DEF SeenCurrent
  <2> QED
    BY <2>1, <1>0, <1>1, <1>2 DEF UserIsActive, OpNames
<1>4. ASSUME NEW u \in Users \ tainted
      PROVE  IF name'[u] = NoLabel THEN Gone(u)' ELSE Current(u)'
  <2>1. \A r \in RowKey : rowLabel'[r] = IF r.uid = op.uid /\ rowLabel[r] # NoLabel
                                         THEN op.new ELSE rowLabel[r]
    BY DEF RenameCommit
  <2>2. CASE u = op.uid
    <3>1. ASSUME NEW r \in RowKey, r.uid = u, RowTotal(rows, r) > 0
          PROVE  rowLabel'[r] = op.new
      <4>1. rowLabel[r] = name[u] /\ name[u] # NoLabel
        BY <3>1, <2>2, <1>1 DEF AccountsOK, Current
      <4> QED
        BY <4>1, <3>1, <2>1, <2>2
    <3>2. name'[u] = op.new /\ Sweeping(u)'
      BY <2>2, <1>0, <1>1, <1>2 DEF Sweeping
    <3> QED
      BY <3>1, <3>2, <1>1, <1>2 DEF Current
  <2>3. CASE u # op.uid
    <3>1. name'[u] = name[u] /\ ~Sweeping(u) /\ ~Sweeping(u)'
      BY <2>3, <1>0, <1>2 DEF Sweeping
    <3>2. CASE name[u] = NoLabel
      BY <3>1, <3>2, <1>2 DEF AccountsOK, Gone
    <3>3. CASE name[u] # NoLabel
      BY <2>1, <2>3, <3>1, <3>3, <1>2 DEF AccountsOK, Current
    <3> QED
      BY <3>1, <3>2, <3>3
  <2> QED
    BY <2>2, <2>3
<1>5. AccountsOK'
  BY <1>4, <1>2 DEF AccountsOK
<1> QED
  BY <1>3, <1>5

\* Rows a purge deletes take their label with them.
LEMMA DeleteRowsLabels ==
    ASSUME AInv, DeleteRows, NEW r \in RowKey
    PROVE  RowTotal(rows', r) > 0 => RowTotal(rows', r) = RowTotal(rows, r) /\ rowLabel'[r] = rowLabel[r]
<1>1. /\ rows \in [Key -> Nat] /\ rows' \in [Key -> Nat]
      /\ \A k \in Key : rows'[k] = IF k \in op.scope THEN 0 ELSE rows[k]
  BY AccountTypes DEF AInv, DeleteRows
<1>2. RowTotal(rows', r) = IF Swept(r) THEN 0 ELSE RowTotal(rows, r)
  BY <1>1, SweptTotals DEF AInv, CInv
<1>3. ~Swept(r) => rowLabel'[r] = rowLabel[r]
  BY DEF DeleteRows, Swept
<1> QED
  BY <1>2, <1>3

LEMMA PurgeCommitAccounts ==
    ASSUME AInv, PurgeCommit
    PROVE  SeenCurrent' /\ UserIsActive' /\ OpNames' /\ AccountsOK'
<1> USE DEF AInv
<1>0. op \in Op /\ rows \in [Key -> Nat]
  BY AccountTypes
<1>1. /\ UNCHANGED <<reqs, seen, buffer, name, late, tainted>>
      /\ op'.kind = "purge" /\ op'.uid = op.uid /\ op'.phase = "sweep" /\ op.phase = "commit"
  BY <1>0 DEF PurgeCommit, traffic, world, Op
<1>2. op.uid = NoUser /\ DeleteRows
  BY DEF PurgeCommit, OpNames
<1>3. ASSUME NEW u \in Users PROVE ~Sweeping(u) /\ ~Sweeping(u)'
  BY <1>1, <1>2, UsageAssumption DEF Sweeping
<1>4. \A k \in Key : rows[k] = 0 => rows'[k] = 0
  BY <1>2 DEF DeleteRows
<1>5. ASSUME NEW u \in Users \ tainted
      PROVE  IF name[u] = NoLabel THEN Gone(u)' ELSE Current(u)'
  <2>1. CASE name[u] = NoLabel
    BY <2>1, <1>1, <1>3, <1>4 DEF AccountsOK, Gone, KeysOfUser
  <2>2. CASE name[u] # NoLabel
    <3>1. ASSUME NEW r \in RowKey, r.uid = u, RowTotal(rows', r) > 0
          PROVE  rowLabel'[r] = name[u]
      BY <3>1, <2>2, <1>2, DeleteRowsLabels DEF AccountsOK, Current
    <3> QED
      BY <3>1, <2>2, <1>1, <1>3 DEF AccountsOK, Current
  <2> QED
    BY <2>1, <2>2
<1>6. AccountsOK'
  BY <1>5, <1>1 DEF AccountsOK
<1> QED
  BY <1>1, <1>2, <1>6 DEF SeenCurrent, UserIsActive, OpNames

LEMMA DeleteCommitAccounts ==
    ASSUME AInv, DeleteCommit
    PROVE  SeenCurrent' /\ UserIsActive' /\ OpNames' /\ AccountsOK'
<1> USE DEF AInv
<1>0. /\ op \in Op /\ name \in [Users -> Labels \cup {NoLabel}] /\ late \subseteq Reqs
      /\ seen \in [Reqs -> Ident \cup {NoIdent}]
  BY AccountTypes
<1>1. /\ op.uid \in Users /\ op.kind = "delete" /\ op.phase = "commit" /\ DeleteRows
      /\ op.scope = KeysOfUser(op.uid)
  BY DEF DeleteCommit, CInv, IInv, OpOK, OpNames
<1>2. /\ UNCHANGED <<reqs, seen, buffer, tainted>>
      /\ op'.kind = "delete" /\ op'.uid = op.uid /\ op'.phase = "sweep" /\ op'.scope = op.scope
      /\ name' = [name EXCEPT ![op.uid] = NoLabel]
      /\ late' = late \cup {r \in Reqs : seen[r].uid = op.uid}
  BY <1>0 DEF DeleteCommit, traffic, Overtaken, Op
<1>3. SeenCurrent'
  <2> SUFFICES ASSUME NEW r \in Reqs \ late', seen[r] # NoIdent
               PROVE  name'[seen[r].uid] = seen[r].label
    BY <1>2 DEF SeenCurrent
  <2>1. r \in Reqs \ late /\ seen[r].uid # op.uid /\ seen[r].uid \in Users
    BY <1>0, <1>2 DEF Ident
  <2> QED
    BY <2>1, <1>0, <1>2 DEF SeenCurrent
<1>4. ASSUME NEW u \in Users \ tainted
      PROVE  IF name'[u] = NoLabel THEN Gone(u)' ELSE Current(u)'
  <2>1. CASE u = op.uid
    <3>1. \A k \in KeysOfUser(u) : rows'[k] = 0
      BY <2>1, <1>1 DEF DeleteRows, KeysOfUser
    <3>2. name'[u] = NoLabel /\ Sweeping(u)'
      BY <2>1, <1>0, <1>1, <1>2 DEF Sweeping
    <3> QED
      BY <3>1, <3>2 DEF Gone
  <2>2. CASE u # op.uid
    <3>1. name'[u] = name[u] /\ ~Sweeping(u) /\ ~Sweeping(u)'
      BY <2>2, <1>0, <1>2 DEF Sweeping
    <3>2. CASE name[u] = NoLabel
      <4>1. \A k \in KeysOfUser(u) : rows'[k] = 0
        BY <3>2, <1>1 DEF AccountsOK, Gone, DeleteRows, KeysOfUser
      <4> QED
        BY <4>1, <3>1, <3>2, <1>2 DEF AccountsOK, Gone
    <3>3. CASE name[u] # NoLabel
      <4>1. ASSUME NEW r \in RowKey, r.uid = u, RowTotal(rows', r) > 0
            PROVE  rowLabel'[r] = name[u]
        BY <4>1, <3>3, <1>1, DeleteRowsLabels DEF AccountsOK, Current
      <4> QED
        BY <4>1, <3>1, <3>3, <1>2 DEF AccountsOK, Current
    <3> QED
      BY <3>1, <3>2, <3>3
  <2> QED
    BY <2>1, <2>2
<1>5. AccountsOK'
  BY <1>4, <1>2 DEF AccountsOK
<1> QED
  BY <1>0, <1>1, <1>2, <1>3, <1>5 DEF UserIsActive, OpNames

\* rename_identity brings the memory to the new name.
LEMMA RenameIdentityAccounts ==
    ASSUME AInv, RenameIdentity
    PROVE  SeenCurrent' /\ UserIsActive' /\ OpNames' /\ AccountsOK'
<1> USE DEF AInv
<1>0. /\ reqs \in [Reqs -> Entry] /\ name \in [Users -> Labels \cup {NoLabel}]
      /\ buffer \in [Key -> Nat]
  BY AccountTypes
<1>1. /\ UNCHANGED <<seen, rows, rowLabel, name, late, tainted>>
      /\ op.kind = "rename" /\ op.phase = "sweep" /\ op' = Idle
      /\ op.uid \in Users /\ op.new \in Labels /\ op.new # NoLabel
      /\ name[op.uid] = op.new
  BY UsageAssumption DEF RenameIdentity, tables, world, history, CInv, IInv, OpOK, OpNames
<1>2. \A q \in Reqs : /\ reqs'[q].uid = reqs[q].uid /\ reqs'[q].state = reqs[q].state
                      /\ reqs'[q].label = IF reqs[q].state = "active" /\ reqs[q].uid = op.uid
                                          THEN op.new ELSE reqs[q].label
  BY <1>0 DEF RenameIdentity, Entry
<1>3. SeenCurrent' /\ UserIsActive' /\ OpNames'
  BY <1>1, <1>2 DEF SeenCurrent, UserIsActive, OpNames, Idle
<1>4. ASSUME NEW u \in Users \ tainted
      PROVE  IF name[u] = NoLabel THEN Gone(u)' ELSE Current(u)'
  <2>1. CASE u = op.uid
    <3>1. ASSUME NEW k \in KeysOfUser(u), buffer'[k] > 0 PROVE k.label = name[u]
      BY <3>1, <2>1, <1>1 DEF RenameIdentity, KeysOfUser
    <3>2. ASSUME NEW q \in Reqs \ late, reqs'[q].uid = u PROVE reqs'[q].label = name[u]
      <4>1. reqs[q].uid = u /\ u # NoUser
        BY <3>2, <1>2, UsageAssumption
      <4>2. reqs[q].state = "active"
        BY <4>1 DEF UserIsActive
      <4> QED
        BY <4>1, <4>2, <2>1, <1>1, <1>2
    <3>3. Current(u)'
      BY <3>1, <3>2, <2>1, <1>1 DEF AccountsOK, Current
    <3> QED
      BY <3>3, <2>1, <1>1
  <2>2. CASE u # op.uid
    <3>1. ~Sweeping(u) /\ \A k \in KeysOfUser(u) : buffer'[k] = buffer[k]
      BY <2>2 DEF Sweeping, RenameIdentity, KeysOfUser
    <3>2. \A q \in Reqs : reqs'[q].uid = u => reqs[q].uid = u /\ reqs'[q].label = reqs[q].label
      BY <2>2, <1>2
    <3>3. CASE name[u] = NoLabel
      BY <3>1, <3>2, <3>3, <1>1 DEF AccountsOK, Gone
    <3>4. CASE name[u] # NoLabel
      BY <3>1, <3>2, <3>4, <1>1 DEF AccountsOK, Current
    <3> QED
      BY <3>3, <3>4
  <2> QED
    BY <2>1, <2>2
<1>5. AccountsOK'
  BY <1>4, <1>1 DEF AccountsOK
<1> QED
  BY <1>3, <1>5

\* A purge's sweep only takes counts away.
LEMMA DropBufferedAccounts ==
    ASSUME AInv, NEW resettle \in BOOLEAN, DropBufferedUsage(resettle)
    PROVE  SeenCurrent' /\ UserIsActive' /\ OpNames' /\ AccountsOK'
<1> USE DEF AInv
<1>0. buffer \in [Key -> Nat]
  BY AccountTypes
<1>1. /\ UNCHANGED <<reqs, seen, rows, rowLabel, name, late, tainted>>
      /\ op.uid = NoUser /\ op'.uid = NoUser /\ op'.kind \in {"none", "flush"}
  BY DEF DropBufferedUsage, traffic, tables, world, OpNames, Idle
<1>2. ASSUME NEW u \in Users PROVE ~Sweeping(u) /\ ~Sweeping(u)'
  BY <1>1, UsageAssumption DEF Sweeping
<1>3. \A k \in Key : buffer'[k] = 0 \/ buffer'[k] = buffer[k]
  BY DEF DropBufferedUsage, DropBuffered
<1>4. ASSUME NEW u \in Users \ tainted
      PROVE  IF name[u] = NoLabel THEN Gone(u)' ELSE Current(u)'
  <2>1. CASE name[u] = NoLabel
    BY <2>1, <1>1, <1>2, <1>3 DEF AccountsOK, Gone, KeysOfUser
  <2>2. CASE name[u] # NoLabel
    BY <2>2, <1>1, <1>2, <1>3 DEF AccountsOK, Current, KeysOfUser
  <2> QED
    BY <2>1, <2>2
<1>5. AccountsOK'
  BY <1>4, <1>1 DEF AccountsOK
<1> QED
  BY <1>1, <1>5 DEF SeenCurrent, UserIsActive, OpNames

\* forget_user leaves nothing of the account in memory.
LEMMA ForgetUserAccounts ==
    ASSUME AInv, ForgetUser
    PROVE  SeenCurrent' /\ UserIsActive' /\ OpNames' /\ AccountsOK'
<1> USE DEF AInv
<1>0. /\ reqs \in [Reqs -> Entry] /\ buffer \in [Key -> Nat]
  BY AccountTypes
<1>1. /\ UNCHANGED <<seen, rows, rowLabel, name, late, tainted>>
      /\ op.kind = "delete" /\ op.phase = "sweep" /\ op' = Idle /\ op.uid \in Users
      /\ op.scope = KeysOfUser(op.uid)
  BY DEF ForgetUser, tables, world, CInv, IInv, OpOK, OpNames
<1>2. \A q \in Reqs : /\ reqs'[q].label = reqs[q].label /\ reqs'[q].state = reqs[q].state
                      /\ reqs'[q].uid = IF reqs[q].state = "active" /\ reqs[q].uid = op.uid
                                        THEN NoUser ELSE reqs[q].uid
  BY <1>0 DEF ForgetUser, Entry
<1>3. SeenCurrent' /\ UserIsActive' /\ OpNames'
  BY <1>1, <1>2 DEF SeenCurrent, UserIsActive, OpNames, Idle
<1>4. ASSUME NEW u \in Users \ tainted
      PROVE  IF name[u] = NoLabel THEN Gone(u)' ELSE Current(u)'
  <2>0. \A k \in Key : buffer'[k] = IF k \in op.scope THEN 0 ELSE buffer[k]
    BY DEF ForgetUser, DropBuffered
  <2>1. CASE u = op.uid
    <3>1. ASSUME NEW k \in KeysOfUser(u) PROVE buffer'[k] = 0
      BY <3>1, <2>0, <2>1, <1>1 DEF KeysOfUser
    <3>2. ASSUME NEW q \in Reqs PROVE reqs'[q].uid # u
      <4>1. reqs[q].uid = u => reqs[q].state = "active"
        BY UsageAssumption DEF UserIsActive
      <4> QED
        BY <4>1, <2>1, <1>2, UsageAssumption
    <3>3. CASE name[u] = NoLabel
      BY <3>1, <3>2, <3>3, <1>1 DEF AccountsOK, Gone
    <3>4. CASE name[u] # NoLabel
      BY <3>1, <3>2, <3>4, <1>1, UsageAssumption DEF AccountsOK, Current, KeysOfUser
    <3> QED
      BY <3>3, <3>4
  <2>2. CASE u # op.uid
    <3>1. ~Sweeping(u) /\ \A k \in KeysOfUser(u) : buffer'[k] = buffer[k]
      BY <2>0, <2>2, <1>1 DEF Sweeping, KeysOfUser
    <3>2. \A q \in Reqs : reqs'[q].uid = u => reqs[q].uid = u /\ reqs'[q].label = reqs[q].label
      BY <1>2, UsageAssumption
    <3>3. CASE name[u] = NoLabel
      BY <3>1, <3>2, <3>3, <1>1 DEF AccountsOK, Gone
    <3>4. CASE name[u] # NoLabel
      BY <3>1, <3>2, <3>4, <1>1 DEF AccountsOK, Current
    <3> QED
      BY <3>3, <3>4
  <2> QED
    BY <2>1, <2>2
<1>5. AccountsOK'
  BY <1>4, <1>1 DEF AccountsOK
<1> QED
  BY <1>3, <1>5

\* A registration takes an id nothing is left of, but for what a sweep under way
\* will take; reloads touch no account; a crash empties the memory.
LEMMA EnvironmentAccounts ==
    ASSUME AInv, Environment \/ Crash
    PROVE  SeenCurrent' /\ UserIsActive' /\ OpNames' /\ AccountsOK'
<1> USE DEF AInv
<1>0. /\ reqs \in [Reqs -> Entry] /\ name \in [Users -> Labels \cup {NoLabel}]
      /\ rows \in [Key -> Nat] /\ buffer \in [Key -> Nat] /\ seen \in [Reqs -> Ident \cup {NoIdent}]
  BY AccountTypes
<1>1. ASSUME NEW u \in Users, NEW p \in Pools, ReloadPool(u, p)
      PROVE  SeenCurrent' /\ UserIsActive' /\ OpNames' /\ AccountsOK'
  <2>1. UNCHANGED <<reqs, seen, buffer, rows, rowLabel, op, name, late, tainted>>
    BY <1>1 DEF ReloadPool, traffic, tables, history
  <2> QED
    BY <2>1 DEF SeenCurrent, UserIsActive, OpNames, AccountsOK, Gone, Current, Sweeping
<1>2. ASSUME NEW v \in Users, NEW l \in Labels, Register(v, l)
      PROVE  SeenCurrent' /\ UserIsActive' /\ OpNames' /\ AccountsOK'
  <2>1. /\ UNCHANGED <<reqs, seen, buffer, rows, rowLabel, op, late, tainted>>
        /\ name[v] = NoLabel /\ l # NoLabel
        /\ name' = [name EXCEPT ![v] = l]
    BY <1>2, UsageAssumption DEF Register, traffic, tables, history
  <2>2. SeenCurrent'
    <3> SUFFICES ASSUME NEW r \in Reqs \ late, seen[r] # NoIdent
                 PROVE  name'[seen[r].uid] = seen[r].label
      BY <2>1 DEF SeenCurrent
    <3>1. /\ seen[r].uid \in Users /\ seen[r].label \in Labels
          /\ name[seen[r].uid] = seen[r].label
      BY <1>0 DEF Ident, SeenCurrent
    <3>2. seen[r].uid # v
      BY <3>1, <2>1, UsageAssumption
    <3> QED
      BY <3>1, <3>2, <1>0, <2>1
  <2>3. UserIsActive'
    BY <2>1 DEF UserIsActive
  <2>4. OpNames'
    <3>1. op.kind = "rename" /\ op.phase = "sweep" => op.uid # v
      BY <2>1, UsageAssumption DEF OpNames, CInv, IInv, OpOK
    <3>2. op.kind \in {"rename", "delete"} => op.uid \in Users
      BY DEF CInv, IInv, OpOK
    <3>3. \A w \in Users : name'[w] = IF w = v THEN l ELSE name[w]
      BY <1>0, <2>1
    <3> QED
      BY <3>1, <3>2, <3>3, <2>1 DEF OpNames
  <2>5. ASSUME NEW u \in Users \ tainted
        PROVE  IF name'[u] = NoLabel THEN Gone(u)' ELSE Current(u)'
    <3>1. CASE u = v
      <4>1. Gone(u)
        BY <3>1, <2>1 DEF AccountsOK
      <4>2. name'[u] = l
        BY <3>1, <1>0, <2>1
      <4>3. ASSUME NEW r \in RowKey, r.uid = u PROVE ~(RowTotal(rows, r) > 0)
        <5>1. \A m \in Labels : rows[Labelled(r, m)] = 0
          BY <4>1, <4>3, LabelledKey DEF Gone, KeysOfUser
        <5>2. RowTotal(rows, r) = 0
          BY <5>1, <1>0, RowTotalZero
        <5> QED
          BY <5>2
      <4>4. Current(u)'
        <5>1. \A r \in RowKey : r.uid = u /\ RowTotal(rows, r) > 0 => rowLabel[r] = name'[u]
          BY <4>3
        <5>2. ~Sweeping(u) => /\ \A k \in KeysOfUser(u) : buffer[k] = 0
                              /\ \A r \in Reqs : reqs[r].uid = u => r \in late
          BY <4>1 DEF Gone
        <5> QED
          BY <5>1, <5>2, <2>1 DEF Current, Sweeping, KeysOfUser
      <4> QED
        BY <4>2, <4>4, <2>1
    <3>2. CASE u # v
      <4>1. name'[u] = name[u]
        BY <3>2, <1>0, <2>1
      <4>2. CASE name[u] = NoLabel
        BY <4>1, <4>2, <2>1 DEF AccountsOK, Gone, Sweeping
      <4>3. CASE name[u] # NoLabel
        BY <4>1, <4>3, <2>1 DEF AccountsOK, Current, Sweeping
      <4> QED
        BY <4>1, <4>2, <4>3
    <3> QED
      BY <3>1, <3>2
  <2>6. AccountsOK'
    BY <2>5, <2>1 DEF AccountsOK
  <2> QED
    BY <2>2, <2>3, <2>4, <2>6
<1>3. CASE Crash
  <2>1. /\ UNCHANGED <<rows, rowLabel, name, late, tainted>> /\ op' = Idle
        /\ seen' = [r \in Reqs |-> NoIdent] /\ buffer' = Empty
        /\ \A q \in Reqs : reqs'[q].uid = NoUser
    BY <1>3, <1>0 DEF Crash, tables, world, Popped, NewEntry, UserIsActive
  <2>2. SeenCurrent' /\ UserIsActive' /\ OpNames'
    BY <2>1 DEF SeenCurrent, UserIsActive, OpNames, Idle
  <2>3. \A k \in Key : buffer'[k] = 0
    BY <2>1 DEF Empty
  <2>4. AccountsOK'
    BY <2>1, <2>3, UsageAssumption DEF AccountsOK, Gone, Current, KeysOfUser
  <2> QED
    BY <2>2, <2>4
<1> QED
  BY <1>1, <1>2, <1>3 DEF Environment

LEMMA NextAInv == AInv /\ [Next]_vars => AInv'
<1> SUFFICES ASSUME AInv, [Next]_vars PROVE AInv'
  OBVIOUS
<1>1. CInv'
  BY NextCInv DEF AInv
<1>2. SeenCurrent' /\ UserIsActive' /\ OpNames' /\ AccountsOK'
  <2>1. CASE Traffic
    BY <2>1, RequestAccounts, EndAccounts DEF Traffic
  <2>2. CASE BeginFlush \/ Flush
    BY <2>2, FlushAccounts
  <2>3. CASE BeginAdmin
    BY <2>3, MutexAccounts
  <2>4. CASE FinishAdmin
    BY <2>4, MutexAccounts, RenameCommitAccounts, PurgeCommitAccounts, DeleteCommitAccounts,
       RenameIdentityAccounts, DropBufferedAccounts, ForgetUserAccounts DEF FinishAdmin
  <2>5. CASE Environment \/ Crash
    BY <2>5, EnvironmentAccounts
  <2>6. CASE UNCHANGED vars
    BY <2>6 DEF vars, traffic, tables, world, history, AInv, SeenCurrent, UserIsActive, OpNames,
                AccountsOK, Gone, Current, Sweeping
  <2> QED
    BY <2>1, <2>2, <2>3, <2>4, <2>5, <2>6 DEF Next
<1> QED
  BY <1>1, <1>2 DEF AInv

LEMMA AccountInvariance == Spec => []AInv
  BY InitAInv, NextAInv, PTL DEF Spec

\* Usage follows its account: after a rename everything of the user is under the
\* new name, after a deletion nothing of the user is left for the next holder of
\* the id, whatever requests, flushes and crashes run beside them.
THEOREM UsageFollows == Spec => []UsageFollowsAccounts
<1>1. ASSUME AInv PROVE DeletedLeavesNothing
  BY <1>1 DEF AInv, AccountsOK, Gone, Sweeping, DeletedLeavesNothing
<1>2. ASSUME AInv PROVE LabelsCurrent
  BY <1>2 DEF AInv, AccountsOK, Current, Sweeping, LabelsCurrent
<1>3. AInv => UsageFollowsAccounts
  BY <1>1, <1>2 DEF UsageFollowsAccounts
<1> QED
  BY <1>3, AccountInvariance, PTL
=============================================================================
