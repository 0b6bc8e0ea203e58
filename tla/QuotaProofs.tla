---------------------------- MODULE QuotaProofs ----------------------------
(***************************************************************************)
(* What MCQuota checks on small instances, for any users, tiers, limits and*)
(* pools.                                                                  *)
(*                                                                         *)
(* RequestLimits: a bucket of the running minute shows the grants made     *)
(* against it, and no user gets more of them than their limit.  The        *)
(* argument: a call suspended between check and increment holds its        *)
(* caller's lock (Awaits, Locked), so the room it found in the bucket, if  *)
(* that is still the bucket in the dictionary, is still there (Room).  And *)
(* whoever is refused for the day has reached a limit: a cached count never*)
(* exceeds the rows it was read from (CachedLags).                         *)
(*                                                                         *)
(* PoolSettlement: nobody is charged for what a pool used before they came,*)
(* and each change of members leaves everyone charged their own use (Safe);*)
(* what is charged is all there is and in proportion (Dealt); and moving   *)
(* between pools neither creates nor wipes quota (MoveSpares, UseKept).    *)
(*                                                                         *)
(* PoolLocks: nobody waits in a circle, and what is settled stays guarded  *)
(* to the commit, as what each task has still to do fits what it has.      *)
(*                                                                         *)
(* The first two add up over the members of a pool: sums come first.       *)
(***************************************************************************)
EXTENDS MCQuota, FiniteSetTheorems, SequenceTheorems, WellFoundedInduction, TLAPS

-----------------------------------------------------------------------------
(* A function that calls itself on a smaller set exists: two solutions on   *)
(* the subsets of one set agree, as they would first differ on a smallest;  *)
(* and a smallest set without a solution would have one.                    *)

Families(M) == SUBSET (SUBSET M)

LEMMA Smallest ==
    ASSUME NEW M, IsFiniteSet(M)
    PROVE  \A Bad \in Families(M) :
              Bad # {} => \E s \in Bad : \A r \in Bad : ~ (r \subseteq s /\ r # s)
<1> SUFFICES ASSUME NEW Bad \in Families(M), Bad # {}
             PROVE  \E s \in Bad : \A r \in Bad : ~ (r \subseteq s /\ r # s)
  BY Zenon
<1>1. FiniteSubsetsOf(M) = SUBSET M
  BY FS_Subset, FS_FiniteSubsetsOfFinite
<1>2. IsWellFoundedOn(StrictSubsetOrdering(M), SUBSET M)
  BY <1>1, FS_StrictSubsetOrderingWellFounded
<1>3. PICK s \in Bad : \A r \in Bad : ~ (<<r, s>> \in StrictSubsetOrdering(M))
  BY <1>2, WFMin DEF Families
<1>4. ASSUME NEW r \in Bad PROVE ~ (r \subseteq s /\ r # s)
  <2>1. r \in SUBSET M /\ s \in SUBSET M
    BY DEF Families
  <2>2. SUFFICES ASSUME r \subseteq s, r # s PROVE <<r, s>> \in StrictSubsetOrdering(M)
    BY <1>3
  <2> QED
    BY <2>1, <2>2 DEF StrictSubsetOrdering
<1> QED
  BY <1>4

\* h solves the equation: a value on the sets Stops, elsewhere what comb makes of the
\* value on the next smaller set.
Solves(h, A, Stops, base, next, comb) ==
    \A B \in SUBSET A : h[B] = IF B \in Stops THEN base[B] ELSE comb[<<B, h[next[B]]>>]

LEMMA Recursion ==
    ASSUME NEW M, IsFiniteSet(M), NEW V, NEW Stops,
           NEW base \in [SUBSET M -> V], NEW next \in [SUBSET M -> SUBSET M],
           NEW comb \in [(SUBSET M) \X V -> V],
           \A A \in SUBSET M : A \notin Stops => next[A] \subseteq A /\ next[A] # A
    PROVE  \E h \in [SUBSET M -> V] : Solves(h, M, Stops, base, next, comb)
<1> DEFINE Sol(g, A) == g \in [SUBSET A -> V] /\ Solves(g, A, Stops, base, next, comb)
           Val(A) == CHOOSE v : \E g : Sol(g, A) /\ v = g[A]
           Has(A) == \E g : Sol(g, A)
<1>1. ASSUME NEW A \in SUBSET M, NEW B \in SUBSET M, NEW f, NEW g, Sol(f, A), Sol(g, B)
      PROVE  \A C \in SUBSET M : C \subseteq A /\ C \subseteq B => f[C] = g[C]
  <2> DEFINE Bad == {C \in SUBSET M : C \subseteq A /\ C \subseteq B /\ f[C] # g[C]}
  <2>1. SUFFICES ASSUME Bad # {} PROVE FALSE
    OBVIOUS
  <2>2. Bad \in Families(M)
    BY DEF Families
  <2>3. PICK C \in Bad : \A r \in Bad : ~ (r \subseteq C /\ r # C)
    <3> HIDE DEF Bad
    <3> QED
      BY <2>1, <2>2, Smallest
  <2>4. C \in SUBSET M /\ C \in SUBSET A /\ C \in SUBSET B
    OBVIOUS
  <2>5. /\ f[C] = IF C \in Stops THEN base[C] ELSE comb[<<C, f[next[C]]>>]
        /\ g[C] = IF C \in Stops THEN base[C] ELSE comb[<<C, g[next[C]]>>]
    BY <1>1, <2>4 DEF Solves
  <2>6. C \notin Stops
    BY <2>5
  <2>7. next[C] \subseteq C /\ next[C] # C
    BY <2>4, <2>6
  <2>8. f[next[C]] = g[next[C]]
    BY <2>3, <2>4, <2>7
  <2> QED
    BY <2>5, <2>6, <2>8
<1> HIDE DEF Sol
<1>2. ASSUME NEW A \in SUBSET M, NEW g, Sol(g, A) PROVE Val(A) = g[A]
  <2>1. PICK f : Sol(f, A) /\ Val(A) = f[A]
    BY <1>2
  <2> QED
    BY <1>1, <1>2, <2>1
<1> HIDE DEF Val
<1>3. ASSUME NEW A \in SUBSET M, \A B \in SUBSET M : B \subseteq A /\ B # A => Has(B),
             NEW B \in SUBSET M, B \subseteq A, B # A
      PROVE  /\ Val(B) \in V
             /\ Val(B) = IF B \in Stops THEN base[B] ELSE comb[<<B, Val(next[B])>>]
  <2>1. PICK g : Sol(g, B)
    BY <1>3
  <2>2. Val(B) = g[B]
    BY <1>2, <2>1
  <2>3. g \in [SUBSET B -> V] /\ g[B] = IF B \in Stops THEN base[B] ELSE comb[<<B, g[next[B]]>>]
    BY <2>1 DEF Sol, Solves
  <2>4. ASSUME B \notin Stops PROVE g[next[B]] = Val(next[B])
    <3>1. next[B] \in SUBSET M /\ next[B] \subseteq B /\ next[B] # B
      BY <2>4
    <3>2. next[B] \subseteq A /\ next[B] # A
      BY <1>3, <3>1
    <3>3. PICK f : Sol(f, next[B])
      BY <1>3, <3>1, <3>2
    <3>4. Val(next[B]) = f[next[B]]
      BY <1>2, <3>1, <3>3
    <3>5. \A C \in SUBSET M : C \subseteq next[B] /\ C \subseteq B => f[C] = g[C]
      <4> DEFINE D == next[B]
      <4>1. D \in SUBSET M /\ Sol(f, D)
        BY <3>1, <3>3
      <4> HIDE DEF D
      <4>2. \A C \in SUBSET M : C \subseteq D /\ C \subseteq B => f[C] = g[C]
        BY <1>1, <1>3, <2>1, <4>1
      <4> QED
        BY <4>2 DEF D
    <3>6. f[next[B]] = g[next[B]]
      BY <3>1, <3>5
    <3> QED
      BY <3>4, <3>6
  <2> QED
    BY <2>2, <2>3, <2>4
<1>4. \A A \in SUBSET M : Has(A)
  <2> DEFINE Bad == {A \in SUBSET M : ~ Has(A)}
  <2>1. SUFFICES ASSUME Bad # {} PROVE FALSE
    OBVIOUS
  <2>2. Bad \in Families(M)
    BY DEF Families
  <2>3. PICK A \in Bad : \A r \in Bad : ~ (r \subseteq A /\ r # A)
    <3> HIDE DEF Bad
    <3> QED
      BY <2>1, <2>2, Smallest
  <2>4. A \in SUBSET M /\ \A B \in SUBSET M : B \subseteq A /\ B # A => Has(B)
    BY <2>3
  <2> DEFINE top == IF A \in Stops THEN base[A] ELSE comb[<<A, Val(next[A])>>]
             g == [B \in SUBSET A |-> IF B = A THEN top ELSE Val(B)]
  <2> HIDE DEF Has
  <2>5. \A B \in SUBSET M : B \subseteq A /\ B # A =>
           /\ Val(B) \in V
           /\ Val(B) = IF B \in Stops THEN base[B] ELSE comb[<<B, Val(next[B])>>]
    BY <1>3, <2>4
  <2>6. top \in V
    <3>1. CASE A \in Stops
      BY <2>4, <3>1
    <3>2. CASE A \notin Stops
      <4>1. next[A] \in SUBSET M /\ next[A] \subseteq A /\ next[A] # A
        BY <2>4, <3>2
      <4>2. Val(next[A]) \in V
        BY <2>5, <4>1
      <4>3. <<A, Val(next[A])>> \in (SUBSET M) \X V
        BY <2>4, <4>2
      <4> QED
        BY <3>2, <4>3
    <3> QED
      BY <3>1, <3>2
  <2>7. g \in [SUBSET A -> V]
    <3> HIDE DEF top
    <3> QED
      BY <2>4, <2>5, <2>6
  <2>8. ASSUME NEW B \in SUBSET A
        PROVE  g[B] = IF B \in Stops THEN base[B] ELSE comb[<<B, g[next[B]]>>]
    <3>1. B \in SUBSET M
      BY <2>4
    <3>2. ASSUME B \notin Stops PROVE g[next[B]] = Val(next[B])
      <4>1. next[B] \in SUBSET M /\ next[B] \subseteq B /\ next[B] # B
        BY <3>1, <3>2
      <4>2. next[B] \in SUBSET A /\ next[B] # A
        BY <4>1
      <4> HIDE DEF top
      <4> QED
        BY <4>2
    <3>3. g[B] = IF B \in Stops THEN base[B] ELSE comb[<<B, Val(next[B])>>]
      <4>1. CASE B = A
        BY <4>1
      <4>2. CASE B # A
        BY <2>5, <3>1, <4>2
      <4> QED
        BY <4>1, <4>2
    <3> HIDE DEF g
    <3> QED
      BY <3>2, <3>3
  <2>9. Sol(g, A)
    <3> HIDE DEF g
    <3> QED
      BY <2>7, <2>8 DEF Sol, Solves
  <2> HIDE DEF g
  <2>10. Has(A)
    BY <2>9 DEF Has
  <2> QED
    BY <2>10
<1> QED
  <2>1. PICK g : Sol(g, M)
    BY <1>4
  <2> QED
    BY <2>1 DEF Sol

-----------------------------------------------------------------------------
(* Sums over a finite set, in any order.                                    *)

Sum(f, A) == Settlement!SumFunctionOnSet(f, A)

One(s) == CHOOSE x \in s : TRUE

Adds(h, f, A) == h = [s \in SUBSET A |-> IF s = {} THEN 0 ELSE f[One(s)] + h[s \ {One(s)}]]

\* h is the sum of f over every part of D.
Sums(h, f, D) ==
    /\ h \in [SUBSET D -> Int]
    /\ \A A \in SUBSET D : h[A] = IF A = {} THEN 0 ELSE f[One(A)] + h[A \ {One(A)}]

LEMMA SumsAgree ==
    ASSUME NEW D, IsFiniteSet(D), NEW f, NEW h, Sums(h, f, D), NEW A \in SUBSET D,
           NEW k, Adds(k, f, A)
    PROVE  k[A] = h[A]
<1>0. \A B : B # {} => One(B) \in B
  BY DEF One
<1>1. \A s \in SUBSET A : k[s] = IF s = {} THEN 0 ELSE f[One(s)] + k[s \ {One(s)}]
  BY DEF Adds
<1> DEFINE Bad == {s \in SUBSET D : s \subseteq A /\ k[s] # h[s]}
<1>2. SUFFICES ASSUME Bad # {} PROVE FALSE
  OBVIOUS
<1>3. Bad \in Families(D)
  BY DEF Families
<1>4. PICK s \in Bad : \A r \in Bad : ~ (r \subseteq s /\ r # s)
  <2> HIDE DEF Bad
  <2> QED
    BY <1>2, <1>3, Smallest
<1>5. s \in SUBSET D /\ s \in SUBSET A /\ k[s] # h[s]
  OBVIOUS
<1>6. h[s] = IF s = {} THEN 0 ELSE f[One(s)] + h[s \ {One(s)}]
  BY <1>5 DEF Sums
<1>7. s # {}
  BY <1>1, <1>5, <1>6
<1>8. k[s \ {One(s)}] = h[s \ {One(s)}]
  BY <1>0, <1>4, <1>5, <1>7
<1> QED
  BY <1>1, <1>5, <1>6, <1>7, <1>8

SumsOf(h, f, D) ==
    /\ h \in [SUBSET D -> Int]
    /\ \A A \in SUBSET D :
          /\ Sum(f, A) = h[A]
          /\ h[A] = IF A = {} THEN 0 ELSE f[One(A)] + h[A \ {One(A)}]

LEMMA SumIsFold ==
    ASSUME NEW D, IsFiniteSet(D), NEW f \in [D -> Int]
    PROVE  \E h : SumsOf(h, f, D)
<1>0. \A A : A # {} => One(A) \in A
  BY DEF One
<1> DEFINE base == [A \in SUBSET D |-> 0]
           next == [A \in SUBSET D |-> A \ {One(A)}]
           comb == [q \in (SUBSET D) \X Int |-> IF q[1] = {} THEN 0 ELSE f[One(q[1])] + q[2]]
<1>1. base \in [SUBSET D -> Int] /\ next \in [SUBSET D -> SUBSET D]
  OBVIOUS
<1>2. comb \in [(SUBSET D) \X Int -> Int]
  <2> SUFFICES ASSUME NEW q \in (SUBSET D) \X Int
               PROVE  (IF q[1] = {} THEN 0 ELSE f[One(q[1])] + q[2]) \in Int
    OBVIOUS
  <2>1. q[1] \in SUBSET D /\ q[2] \in Int
    OBVIOUS
  <2>2. q[1] # {} => One(q[1]) \in D
    BY <1>0, <2>1
  <2> QED
    BY <2>1, <2>2
<1>3. \A A \in SUBSET D : A \notin {{}} => next[A] \subseteq A /\ next[A] # A
  BY <1>0
<1> HIDE DEF base, next, comb
<1>4. PICK h \in [SUBSET D -> Int] : Solves(h, D, {{}}, base, next, comb)
  BY <1>1, <1>2, <1>3, Recursion
<1>5. ASSUME NEW A \in SUBSET D
      PROVE  h[A] = IF A = {} THEN 0 ELSE f[One(A)] + h[A \ {One(A)}]
  <2>1. h[A] = IF A \in {{}} THEN base[A] ELSE comb[<<A, h[next[A]]>>]
    BY <1>4 DEF Solves
  <2>2. base[A] = 0 /\ next[A] = A \ {One(A)}
    BY DEF base, next
  <2>3. A \ {One(A)} \in SUBSET D
    OBVIOUS
  <2>4. h[A \ {One(A)}] \in Int
    BY <2>3
  <2> DEFINE q == <<A, h[A \ {One(A)}]>>
  <2>5. q \in (SUBSET D) \X Int /\ q[1] = A /\ q[2] = h[A \ {One(A)}]
    BY <2>4
  <2> HIDE DEF q
  <2>6. comb[q] = IF A = {} THEN 0 ELSE f[One(A)] + h[A \ {One(A)}]
    BY <2>5 DEF comb
  <2> QED
    BY <2>1, <2>2, <2>6 DEF q
<1>6. ASSUME NEW A \in SUBSET D PROVE Sum(f, A) = h[A]
  <2> DEFINE k == CHOOSE k : Adds(k, f, A)
             g == [s \in SUBSET A |-> h[s]]
  <2>1. Sum(f, A) = k[A]
    BY Zenon DEF Sum, Settlement!SumFunctionOnSet, Settlement!FoldFunctionOnSet, Settlement!MapThenFoldSet, One, Adds
  <2>2. Adds(g, f, A)
    <3>1. ASSUME NEW s \in SUBSET A
          PROVE  g[s] = IF s = {} THEN 0 ELSE f[One(s)] + g[s \ {One(s)}]
      <4>1. s \in SUBSET D /\ s \ {One(s)} \in SUBSET A
        OBVIOUS
      <4>2. g[s] = h[s] /\ g[s \ {One(s)}] = h[s \ {One(s)}]
        BY <4>1
      <4> QED
        BY <1>5, <4>1, <4>2
    <3> HIDE DEF g
    <3>2. g = [s \in SUBSET A |-> g[s]]
      BY DEF g
    <3> QED
      BY <3>1, <3>2 DEF Adds
  <2> HIDE DEF g
  <2>3. Adds(k, f, A)
    BY <2>2
  <2> HIDE DEF k
  <2>4. Sums(h, f, D)
    BY <1>4, <1>5 DEF Sums
  <2> QED
    BY <2>1, <2>3, <2>4, SumsAgree
<1> QED
  BY <1>5, <1>6 DEF SumsOf

\* The sum of what is left is less by whoever is taken out first.
LEMMA SumTake ==
    ASSUME NEW D, IsFiniteSet(D), NEW f \in [D -> Int]
    PROVE  /\ Sum(f, {}) = 0
           /\ \A A \in SUBSET D : Sum(f, A) \in Int
           /\ \A A \in SUBSET D : \A u \in A : Sum(f, A) = f[u] + Sum(f, A \ {u})
<1>0. \A A : A # {} => One(A) \in A
  BY DEF One
<1>a. PICK h : SumsOf(h, f, D)
  BY SumIsFold
<1>1. /\ h \in [SUBSET D -> Int]
      /\ \A A \in SUBSET D :
            /\ Sum(f, A) = h[A]
            /\ h[A] = IF A = {} THEN 0 ELSE f[One(A)] + h[A \ {One(A)}]
  BY <1>a DEF SumsOf
<1>2. ASSUME NEW A \in SUBSET D, NEW u \in A PROVE h[A] = f[u] + h[A \ {u}]
  <2> DEFINE Bad == {s \in SUBSET D : \E v \in s : h[s] # f[v] + h[s \ {v}]}
  <2>1. SUFFICES ASSUME Bad # {} PROVE FALSE
    OBVIOUS
  <2>2. Bad \in Families(D)
    BY DEF Families
  <2>3. PICK s \in Bad : \A r \in Bad : ~ (r \subseteq s /\ r # s)
    <3> HIDE DEF Bad
    <3> QED
      BY <2>1, <2>2, Smallest
  <2>4. PICK v \in s : h[s] # f[v] + h[s \ {v}]
    OBVIOUS
  <2> DEFINE x == One(s)
             sx == s \ {x}
             sv == s \ {v}
             svx == s \ {v, x}
  <2>5. x \in s /\ s \in SUBSET D
    BY <1>0
  <2>6. h[s] = f[x] + h[sx]
    BY <1>1, <2>5
  <2>7. x # v
    BY <2>4, <2>6
  <2>8. /\ sx \in SUBSET D /\ sx \subseteq s /\ sx # s /\ v \in sx /\ sx \ {v} = svx
        /\ sv \in SUBSET D /\ sv \subseteq s /\ sv # s /\ x \in sv /\ sv \ {x} = svx
        /\ svx \in SUBSET D
    BY <2>5, <2>7
  <2>9. h[sx] = f[v] + h[svx] /\ h[sv] = f[x] + h[svx]
    BY <2>3, <2>8
  <2>10. f[v] \in Int /\ f[x] \in Int /\ h[svx] \in Int
    <3>1. v \in D /\ x \in D
      BY <2>5
    <3>2. svx \in SUBSET D
      BY <2>8
    <3> HIDE DEF x, svx
    <3> QED
      BY <1>1, <3>1, <3>2
  <2> HIDE DEF x, sx, svx
  <2> QED
    BY <2>4, <2>6, <2>9, <2>10
<1>3. Sum(f, {}) = 0
  <2>1. {} \in SUBSET D
    OBVIOUS
  <2> QED
    BY <1>1, <2>1
<1>4. ASSUME NEW A \in SUBSET D PROVE Sum(f, A) \in Int
  <2>1. h[A] \in Int
    BY <1>1
  <2> QED
    BY <1>1, <2>1
<1>5. ASSUME NEW A \in SUBSET D, NEW u \in A PROVE Sum(f, A) = f[u] + Sum(f, A \ {u})
  BY <1>1, <1>2
<1> QED
  BY <1>3, <1>4, <1>5

\* What holds for no element, and for one more where it holds without it.
LEMMA SetInduction ==
    ASSUME NEW D, IsFiniteSet(D), NEW P, {} \in P,
           \A A \in SUBSET D : \A u \in A : A \ {u} \in P => A \in P
    PROVE  \A A \in SUBSET D : A \in P
<1> DEFINE Bad == {s \in SUBSET D : s \notin P}
<1>1. SUFFICES ASSUME Bad # {} PROVE FALSE
  OBVIOUS
<1>2. Bad \in Families(D)
  BY DEF Families
<1>3. PICK s \in Bad : \A r \in Bad : ~ (r \subseteq s /\ r # s)
  <2> HIDE DEF Bad
  <2> QED
    BY <1>1, <1>2, Smallest
<1>4. PICK u \in s : TRUE
  OBVIOUS
<1>5. s \in SUBSET D /\ s \ {u} \in SUBSET D /\ s \ {u} \subseteq s /\ s \ {u} # s
  OBVIOUS
<1>6. s \ {u} \in P
  BY <1>3, <1>5
<1> QED
  BY <1>5, <1>6

LEMMA SumLe ==
    ASSUME NEW D, IsFiniteSet(D), NEW f \in [D -> Int], NEW g \in [D -> Int], NEW A \in SUBSET D,
           \A u \in A : f[u] <= g[u]
    PROVE  Sum(f, A) <= Sum(g, A)
<1> DEFINE P == {s \in SUBSET D : s \subseteq A => Sum(f, s) <= Sum(g, s)}
<1>1. Sum(f, {}) = 0 /\ Sum(g, {}) = 0
  BY SumTake
<1>2. {} \in P
  BY <1>1
<1>3. ASSUME NEW s \in SUBSET D, NEW u \in s, s \ {u} \in P PROVE s \in P
  <2> SUFFICES ASSUME s \subseteq A PROVE Sum(f, s) <= Sum(g, s)
    OBVIOUS
  <2>1. /\ Sum(f, s) = f[u] + Sum(f, s \ {u}) /\ Sum(g, s) = g[u] + Sum(g, s \ {u})
        /\ Sum(f, s \ {u}) \in Int /\ Sum(g, s \ {u}) \in Int
    BY SumTake
  <2>2. Sum(f, s \ {u}) <= Sum(g, s \ {u})
    BY <1>3
  <2>3. f[u] <= g[u] /\ f[u] \in Int /\ g[u] \in Int
    OBVIOUS
  <2> QED
    BY <2>1, <2>2, <2>3
<1> HIDE DEF P
<1>4. \A s \in SUBSET D : s \in P
  BY <1>2, <1>3, SetInduction
<1> QED
  BY <1>4 DEF P

Alike(f, D, g, E, A) ==
    /\ f \in [D -> Int] /\ g \in [E -> Int] /\ A \subseteq D /\ A \subseteq E
    /\ \A u \in A : f[u] = g[u]

LEMMA SumSame ==
    ASSUME NEW D, IsFiniteSet(D), NEW f, NEW E, IsFiniteSet(E), NEW g, NEW A, Alike(f, D, g, E, A)
    PROVE  Sum(f, A) = Sum(g, A)
<1> USE DEF Alike
<1> DEFINE P == {s \in SUBSET D : s \subseteq A => Sum(f, s) = Sum(g, s)}
<1>1. Sum(f, {}) = 0 /\ Sum(g, {}) = 0
  BY SumTake
<1>2. {} \in P
  BY <1>1
<1>3. ASSUME NEW s \in SUBSET D, NEW u \in s, s \ {u} \in P PROVE s \in P
  <2> SUFFICES ASSUME s \subseteq A PROVE Sum(f, s) = Sum(g, s)
    OBVIOUS
  <2>1. Sum(f, s) = f[u] + Sum(f, s \ {u})
    BY SumTake
  <2>2. s \in SUBSET E
    OBVIOUS
  <2>3. Sum(g, s) = g[u] + Sum(g, s \ {u})
    BY <2>2, SumTake
  <2>4. Sum(f, s \ {u}) = Sum(g, s \ {u}) /\ f[u] = g[u]
    BY <1>3
  <2> QED
    BY <2>1, <2>3, <2>4
<1> HIDE DEF P
<1>4. \A s \in SUBSET D : s \in P
  BY <1>2, <1>3, SetInduction
<1> QED
  BY <1>4 DEF P

Scaled(f, g, D, c) ==
    /\ f \in [D -> Int] /\ g \in [D -> Int] /\ c \in Int
    /\ \A u \in D : g[u] = c * f[u]

LEMMA SumScaled ==
    ASSUME NEW D, IsFiniteSet(D), NEW f, NEW g, NEW c, Scaled(f, g, D, c), NEW A \in SUBSET D
    PROVE  Sum(g, A) = c * Sum(f, A)
<1> USE DEF Scaled
<1> DEFINE P == {s \in SUBSET D : Sum(g, s) = c * Sum(f, s)}
<1>1. Sum(f, {}) = 0 /\ Sum(g, {}) = 0
  BY SumTake
<1>2. {} \in P
  BY <1>1
<1>3. ASSUME NEW s \in SUBSET D, NEW u \in s, s \ {u} \in P PROVE s \in P
  <2> DEFINE x == Sum(f, s \ {u})
             y == Sum(g, s \ {u})
  <2>1. Sum(f, s) = f[u] + x /\ x \in Int
    BY SumTake
  <2>2. Sum(g, s) = g[u] + y
    BY SumTake
  <2>3. y = c * x
    BY <1>3
  <2>4. g[u] = c * f[u] /\ f[u] \in Int
    OBVIOUS
  <2> HIDE DEF x, y
  <2>5. c * (f[u] + x) = c * f[u] + c * x
    <3> DEFINE v == f[u]
    <3>1. v \in Int
      BY <2>4
    <3> HIDE DEF v
    <3>2. c * (v + x) = c * v + c * x
      BY <2>1, <3>1
    <3> QED
      BY <3>2 DEF v
  <2>6. Sum(g, s) = c * Sum(f, s)
    BY <2>1, <2>2, <2>3, <2>4, <2>5
  <2> QED
    BY <2>6
<1> HIDE DEF P
<1>4. \A s \in SUBSET D : s \in P
  BY <1>2, <1>3, SetInduction
<1> QED
  BY <1>4 DEF P

\* One more for each of C.
OneMore(f, g, D, C) ==
    /\ f \in [D -> Int] /\ g \in [D -> Int] /\ C \in SUBSET D
    /\ \A u \in D : g[u] = IF u \in C THEN f[u] + 1 ELSE f[u]

LEMMA SumOneMore ==
    ASSUME NEW D, IsFiniteSet(D), NEW f, NEW g, NEW C, OneMore(f, g, D, C), NEW A \in SUBSET D
    PROVE  Sum(g, A) = Sum(f, A) + Cardinality(A \cap C)
<1> USE DEF OneMore
<1> DEFINE P == {s \in SUBSET D : Sum(g, s) = Sum(f, s) + Cardinality(s \cap C)}
<1>0. ASSUME NEW s \in SUBSET D PROVE IsFiniteSet(s \cap C) /\ Cardinality(s \cap C) \in Nat
  BY FS_Subset, FS_CardinalityType
<1>1. Sum(f, {}) = 0 /\ Sum(g, {}) = 0 /\ Cardinality({}) = 0
  BY SumTake, FS_EmptySet
<1>2. {} \in P
  <2>1. {} \cap C = {}
    OBVIOUS
  <2> QED
    BY <1>1, <2>1
<1>3. ASSUME NEW s \in SUBSET D, NEW u \in s, s \ {u} \in P PROVE s \in P
  <2> DEFINE n == Cardinality((s \ {u}) \cap C)
  <2>1. /\ Sum(f, s) = f[u] + Sum(f, s \ {u}) /\ Sum(g, s) = g[u] + Sum(g, s \ {u})
        /\ Sum(f, s \ {u}) \in Int /\ f[u] \in Int
    BY SumTake
  <2>2. Sum(g, s \ {u}) = Sum(f, s \ {u}) + n /\ n \in Nat
    BY <1>0, <1>3
  <2>3. Cardinality(s \cap C) = IF u \in C THEN n + 1 ELSE n
    <3>1. CASE u \in C
      <4>1. s \cap C = ((s \ {u}) \cap C) \cup {u} /\ u \notin (s \ {u}) \cap C
        BY <3>1
      <4>2. IsFiniteSet((s \ {u}) \cap C)
        BY <1>0
      <4> QED
        BY <3>1, <4>1, <4>2, FS_AddElement
    <3>2. CASE u \notin C
      <4>1. s \cap C = (s \ {u}) \cap C
        BY <3>2
      <4> QED
        BY <3>2, <4>1
    <3> QED
      BY <3>1, <3>2
  <2>4. g[u] = IF u \in C THEN f[u] + 1 ELSE f[u]
    OBVIOUS
  <2> HIDE DEF n
  <2>5. Sum(g, s) = Sum(f, s) + Cardinality(s \cap C)
    BY <2>1, <2>2, <2>3, <2>4
  <2> QED
    BY <2>5
<1> HIDE DEF P
<1>4. \A s \in SUBSET D : s \in P
  BY <1>2, <1>3, SetInduction
<1> QED
  BY <1>4 DEF P

Within(B, A, D) == B \subseteq A /\ A \subseteq D

LEMMA SumSplit ==
    ASSUME NEW D, IsFiniteSet(D), NEW f \in [D -> Int], NEW A, NEW B, Within(B, A, D)
    PROVE  Sum(f, A) = Sum(f, B) + Sum(f, A \ B)
<1> USE DEF Within
<1> DEFINE P == {s \in SUBSET D : s \subseteq B => Sum(f, (A \ B) \cup s) = Sum(f, s) + Sum(f, A \ B)}
<1>1. Sum(f, {}) = 0 /\ \A s \in SUBSET D : Sum(f, s) \in Int
  BY SumTake
<1>2. {} \in P
  <2>1. (A \ B) \cup {} = A \ B
    OBVIOUS
  <2> QED
    BY <1>1, <2>1
<1>3. ASSUME NEW s \in SUBSET D, NEW u \in s, s \ {u} \in P PROVE s \in P
  <2> SUFFICES ASSUME s \subseteq B PROVE Sum(f, (A \ B) \cup s) = Sum(f, s) + Sum(f, A \ B)
    OBVIOUS
  <2> DEFINE big == (A \ B) \cup s
             small == (A \ B) \cup (s \ {u})
  <2>1. u \in big /\ big \in SUBSET D /\ big \ {u} = small /\ s \ {u} \in SUBSET D /\ A \ B \in SUBSET D
    OBVIOUS
  <2>2. Sum(f, small) = Sum(f, s \ {u}) + Sum(f, A \ B)
    BY <1>3
  <2> HIDE DEF big, small
  <2>3. Sum(f, big) = f[u] + Sum(f, small) /\ Sum(f, s) = f[u] + Sum(f, s \ {u})
    BY <2>1, SumTake
  <2>4. f[u] \in Int /\ Sum(f, s \ {u}) \in Int /\ Sum(f, A \ B) \in Int
    BY <1>1, <2>1
  <2> QED
    BY <2>2, <2>3, <2>4 DEF big
<1> HIDE DEF P
<1>4. \A s \in SUBSET D : s \in P
  BY <1>2, <1>3, SetInduction
<1>5. (A \ B) \cup B = A
  OBVIOUS
<1> QED
  BY <1>4, <1>5 DEF P

\* Without negative ones, no element and no part is above the whole.
LEMMA SumParts ==
    ASSUME NEW D, IsFiniteSet(D), NEW f \in [D -> Nat], NEW A \in SUBSET D
    PROVE  /\ Sum(f, A) \in Nat
           /\ \A B \in SUBSET A : Sum(f, B) <= Sum(f, A)
           /\ \A u \in A : f[u] <= Sum(f, A)
<1>0. f \in [D -> Int]
  OBVIOUS
<1> DEFINE P == {s \in SUBSET D : Sum(f, s) \in Nat}
<1>1. {} \in P
  BY <1>0, SumTake
<1>2. ASSUME NEW s \in SUBSET D, NEW u \in s, s \ {u} \in P PROVE s \in P
  <2>1. Sum(f, s) = f[u] + Sum(f, s \ {u})
    BY <1>0, SumTake
  <2>2. Sum(f, s \ {u}) \in Nat /\ f[u] \in Nat
    BY <1>2
  <2> QED
    BY <2>1, <2>2
<1> HIDE DEF P
<1>3. \A s \in SUBSET D : s \in P
  BY <1>1, <1>2, SetInduction
<1>4. \A s \in SUBSET D : Sum(f, s) \in Nat
  BY <1>3 DEF P
<1>5. ASSUME NEW B \in SUBSET A PROVE Sum(f, B) <= Sum(f, A)
  <2>0. Within(B, A, D)
    BY DEF Within
  <2>1. Sum(f, A) = Sum(f, B) + Sum(f, A \ B)
    BY <1>0, <2>0, SumSplit
  <2>2. Sum(f, B) \in Nat /\ Sum(f, A \ B) \in Nat
    <3>1. B \in SUBSET D /\ A \ B \in SUBSET D
      OBVIOUS
    <3> QED
      BY <1>4, <3>1
  <2> QED
    BY <2>1, <2>2
<1>6. ASSUME NEW u \in A PROVE f[u] <= Sum(f, A)
  <2>1. Sum(f, A) = f[u] + Sum(f, A \ {u})
    BY <1>0, SumTake
  <2>2. Sum(f, A \ {u}) \in Nat /\ f[u] \in Nat
    BY <1>4
  <2> QED
    BY <2>1, <2>2
<1> QED
  BY <1>4, <1>5, <1>6

\* A sum is of the values on its set, whatever else the function is defined on.
LEMMA SumRestricted ==
    ASSUME NEW A, NEW f, NEW g, \A u \in A : f[u] = g[u]
    PROVE  Sum(f, A) = Sum(g, A)
<1>0. \A B : B # {} => One(B) \in B
  BY DEF One
<1>1. ASSUME NEW k PROVE Adds(k, f, A) <=> Adds(k, g, A)
  <2>1. \A s \in SUBSET A : (IF s = {} THEN 0 ELSE f[One(s)] + k[s \ {One(s)}])
                            = (IF s = {} THEN 0 ELSE g[One(s)] + k[s \ {One(s)}])
    <3> TAKE s \in SUBSET A
    <3>1. s # {} => f[One(s)] = g[One(s)]
      BY <1>0
    <3> QED
      BY <3>1
  <2>2. [s \in SUBSET A |-> IF s = {} THEN 0 ELSE f[One(s)] + k[s \ {One(s)}]]
        = [s \in SUBSET A |-> IF s = {} THEN 0 ELSE g[One(s)] + k[s \ {One(s)}]]
    BY <2>1
  <2> QED
    BY Zenon, <2>2 DEF Adds
<1>2. (CHOOSE k : Adds(k, f, A)) = (CHOOSE k : Adds(k, g, A))
  BY <1>1
<1>3. Sum(f, A) = (CHOOSE k : Adds(k, f, A))[A] /\ Sum(g, A) = (CHOOSE k : Adds(k, g, A))[A]
  BY Zenon DEF Sum, Settlement!SumFunctionOnSet, Settlement!FoldFunctionOnSet, Settlement!MapThenFoldSet, One, Adds
<1> QED
  BY Zenon, <1>2, <1>3

Nought(f, A, D) == IsFiniteSet(D) /\ f \in [D -> Int] /\ A \subseteq D /\ \A u \in A : f[u] = 0

LEMMA SumNone ==
    ASSUME NEW D, NEW f, NEW A, Nought(f, A, D)
    PROVE  Sum(f, A) = 0
<1> DEFINE P == {s \in SUBSET D : s \subseteq A => Sum(f, s) = 0}
<1>0. IsFiniteSet(D) /\ f \in [D -> Int] /\ A \subseteq D /\ \A u \in A : f[u] = 0
  BY DEF Nought
<1>1. {} \in P
  BY <1>0, SumTake
<1>2. ASSUME NEW s \in SUBSET D, NEW u \in s, s \ {u} \in P PROVE s \in P
  <2>1. Sum(f, s) = f[u] + Sum(f, s \ {u})
    BY <1>0, SumTake
  <2> QED
    BY <1>0, <1>2, <2>1
<1> HIDE DEF P
<1>3. \A s \in SUBSET D : s \in P
  BY <1>0, <1>1, <1>2, SetInduction
<1> QED
  BY <1>0, <1>3 DEF P

\* A sum of sums.
Together(f, g, h, D) ==
    /\ f \in [D -> Int] /\ g \in [D -> Int] /\ h \in [D -> Int]
    /\ \A u \in D : h[u] = f[u] + g[u]

LEMMA SumTogether ==
    ASSUME NEW D, IsFiniteSet(D), NEW f, NEW g, NEW h, Together(f, g, h, D), NEW A \in SUBSET D
    PROVE  Sum(h, A) = Sum(f, A) + Sum(g, A)
<1> USE DEF Together
<1> DEFINE P == {s \in SUBSET D : Sum(h, s) = Sum(f, s) + Sum(g, s)}
<1>1. Sum(f, {}) = 0 /\ Sum(g, {}) = 0 /\ Sum(h, {}) = 0
  BY SumTake
<1>2. {} \in P
  BY <1>1
<1>3. ASSUME NEW s \in SUBSET D, NEW u \in s, s \ {u} \in P PROVE s \in P
  <2>1. Sum(f, s) = f[u] + Sum(f, s \ {u}) /\ Sum(f, s \ {u}) \in Int
    BY SumTake
  <2>2. Sum(g, s) = g[u] + Sum(g, s \ {u}) /\ Sum(g, s \ {u}) \in Int
    BY SumTake
  <2>3. Sum(h, s) = h[u] + Sum(h, s \ {u})
    BY SumTake
  <2>4. Sum(h, s \ {u}) = Sum(f, s \ {u}) + Sum(g, s \ {u})
    BY <1>3
  <2>5. f[u] \in Int /\ g[u] \in Int /\ h[u] = f[u] + g[u]
    OBVIOUS
  <2>6. Sum(h, s) = Sum(f, s) + Sum(g, s)
    BY <2>1, <2>2, <2>3, <2>4, <2>5
  <2> QED
    BY <2>6
<1> HIDE DEF P
<1>4. \A s \in SUBSET D : s \in P
  BY <1>2, <1>3, SetInduction
<1> QED
  BY <1>4 DEF P

\* At most c for each of P and nothing for the others is at most c times as many as P has.
LEMMA SumAtMost ==
    ASSUME NEW D, IsFiniteSet(D), NEW f \in [D -> Int], NEW c \in Int, NEW P \in SUBSET D,
           \A u \in D : f[u] <= IF u \in P THEN c ELSE 0
    PROVE  Sum(f, D) <= c * Cardinality(P)
<1> DEFINE zero == [u \in D |-> 0]
           one == [u \in D |-> IF u \in P THEN 1 ELSE 0]
           cs == [u \in D |-> c * one[u]]
<1>0. D \in SUBSET D /\ D \cap P = P
  OBVIOUS
<1>1. zero \in [D -> Int] /\ one \in [D -> Int] /\ \A u \in D : zero[u] = 0 /\ one[u] = IF u \in P THEN 1 ELSE 0
  OBVIOUS
<1> HIDE DEF zero, one
<1>2. OneMore(zero, one, D, P) /\ Scaled(zero, zero, D, 0)
  BY <1>1 DEF OneMore, Scaled
<1>3. Sum(zero, D) = 0 * Sum(zero, D) /\ Sum(zero, D) \in Int
  BY <1>0, <1>1, <1>2, SumScaled, SumTake
<1>4. Sum(one, D) = Sum(zero, D) + Cardinality(P)
  BY <1>0, <1>2, SumOneMore
<1>5. cs \in [D -> Int] /\ \A u \in D : cs[u] = c * one[u] /\ f[u] <= cs[u]
  <2>1. ASSUME NEW u \in D PROVE c * one[u] \in Int /\ f[u] <= c * one[u]
    <3>1. CASE u \in P
      <4>1. one[u] = 1 /\ f[u] <= c /\ f[u] \in Int
        BY <1>1, <3>1
      <4> QED
        BY <4>1
    <3>2. CASE u \notin P
      <4>1. one[u] = 0 /\ f[u] <= 0 /\ f[u] \in Int
        BY <1>1, <3>2
      <4> QED
        BY <4>1
    <3> QED
      BY <3>1, <3>2
  <2> QED
    BY <2>1
<1> HIDE DEF cs
<1>6. Sum(cs, D) = c * Sum(one, D)
  BY <1>0, <1>1, <1>5, SumScaled DEF Scaled
<1>7. Sum(f, D) <= Sum(cs, D)
  BY <1>0, <1>5, SumLe
<1>8. Sum(one, D) = Cardinality(P)
  <2>1. Cardinality(P) \in Nat
    BY FS_Subset, FS_CardinalityType
  <2> QED
    BY <1>3, <1>4, <2>1
<1> QED
  BY <1>6, <1>7, <1>8

-----------------------------------------------------------------------------
(* RequestLimits                                                           *)

Callers == \A c \in Calls : at[c] # "idle" => caller[c] \in Users

Suspended(c) == at[c] \in {"scope", "own"}

Awaits == \A c \in Calls : Suspended(c) => lock[caller[c]] = c

Locked == \A u \in Users : lock[u] # NoCall => Suspended(lock[u]) /\ caller[lock[u]] = u

Room == \A c \in Calls :
    kept[c] => /\ Suspended(c)
               /\ bucket[Key(c)].age = 0 /\ Rpm[tier[c]] # None
                     => bucket[Key(c)].count < Rpm[tier[c]]

IInv == TypeOK /\ Callers /\ Awaits /\ Locked /\ Room /\ BucketsCountGrants /\ MinuteLimitKept

-----------------------------------------------------------------------------
LEMMA CountsAreNat == (0..(2 * MaxUsed * Cardinality(Users))) \subseteq Nat
<1>1. Cardinality(Users) \in Nat
  BY ChargeAssumption, FS_CardinalityType
<1> QED
  BY <1>1, ChargeAssumption

LEMMA LimitTypes == \A t \in Tiers : Rpm[t] # None => Rpm[t] \in Nat
  BY ChargeAssumption

LEMMA BucketType == ASSUME TypeOK, NEW k \in Keys
    PROVE  /\ Current(k) \in [age : {0}, count : Nat]
           /\ bucket[k] \in [age : 0..Old, count : Nat]
  BY DEF TypeOK, Current, Fresh

LEMMA InitInv == Init => IInv
  BY ChargeAssumption DEF Init, IInv, TypeOK, Callers, Suspended, Awaits, Locked, Room, BucketsCountGrants,
    MinuteLimitKept, Keys, Empty, Old

\* A call that stands for the lock, or holds it, is its caller's only suspended one.
LEMMA LockType == ASSUME TypeOK, Callers, NEW c \in Calls, at[c] # "idle"
    PROVE  /\ caller[c] \in Users /\ tier[c] \in Tiers /\ Key(c) \in Keys
           /\ caller[c] # NoUser /\ c # NoCall
  BY ChargeAssumption DEF TypeOK, Callers, Key, Keys

LEMMA OwnScope == ASSUME TypeOK, Callers, NEW c \in Calls, at[c] # "idle"
    PROVE  Scope(caller[c]) \in Scopes /\ {caller[c]} \in Scopes
  BY LockType DEF Scope, Scopes

LEMMA OthersApart == ASSUME IInv, NEW c \in Calls, lock[caller[c]] \in {NoCall, c}
    PROVE  \A d \in Calls \ {c} : Suspended(d) => caller[d] # caller[c] /\ Key(d) # Key(c)
  BY ChargeAssumption DEF IInv, Awaits, Key

-----------------------------------------------------------------------------
(* What a grant keeps, whatever led to it.                                 *)

CacheTyped == cached \in [Scopes \X Tiers -> Nat] /\ crossed \subseteq Scopes \X Tiers

LEMMA GrantKeeps ==
    ASSUME IInv, NEW c \in Calls, at[c] # "idle", lock[caller[c]] \in {NoCall, c},
           NEW b \in [age : 0..Old, count : Nat], Grant(c, b),
           b.age = 0 => /\ b.count = granted[Key(c)] + 1
                        /\ Rpm[tier[c]] # None => b.count <= Rpm[tier[c]],
           b.age # 0 => granted[Key(c)] = 0,
           CacheTyped'
    PROVE  IInv'
<1> USE DEF IInv
<1>1. caller[c] \in Users /\ tier[c] \in Tiers /\ Key(c) \in Keys /\ c # NoCall
  BY LockType
<1>2. \A d \in Calls \ {c} : Suspended(d) => caller[d] # caller[c] /\ Key(d) # Key(c)
  BY OthersApart
<1>3. /\ at' = [at EXCEPT ![c] = "passed"]
      /\ bucket' = [bucket EXCEPT ![Key(c)] = b]
      /\ lock' = [lock EXCEPT ![caller[c]] = NoCall]
      /\ kept' = [kept EXCEPT ![c] = FALSE]
      /\ UNCHANGED <<share, caller, tier, used>>
  BY DEF Grant
<1>4. granted' = IF b.age = 0 THEN [granted EXCEPT ![Key(c)] = @ + 1] ELSE granted
  BY DEF Grant
<1>5. \A d \in Calls : Key(d)' = Key(d)
  BY <1>3 DEF Key
<1>6. TypeOK'
  BY <1>1, <1>3, <1>4 DEF TypeOK, CacheTyped
<1>7. Callers'
  BY <1>1, <1>3 DEF Callers, TypeOK
<1>8. \A d \in Calls : Suspended(d)' <=> Suspended(d) /\ d # c
  BY <1>3 DEF Suspended, TypeOK
<1>9. Awaits'
  BY <1>1, <1>2, <1>3, <1>8 DEF Awaits, TypeOK, Callers, Suspended
<1>10. Locked'
  <2> SUFFICES ASSUME NEW u \in Users, lock'[u] # NoCall
               PROVE  Suspended(lock[u])' /\ caller'[lock'[u]] = u /\ lock'[u] = lock[u]
    BY <1>3 DEF Locked, Suspended
  <2>1. u # caller[c] /\ lock'[u] = lock[u] /\ lock[u] \in Calls
    BY <1>1, <1>3 DEF TypeOK
  <2>2. caller[lock[u]] = u /\ Suspended(lock[u])
    BY <2>1 DEF Locked
  <2> QED
    BY <2>1, <2>2, <1>3, <1>8
<1>11. Room'
  <2> SUFFICES ASSUME NEW d \in Calls, kept'[d]
               PROVE  /\ Suspended(d)'
                      /\ bucket'[Key(d)].age = 0 /\ Rpm[tier[d]] # None
                            => bucket'[Key(d)].count < Rpm[tier[d]]
    BY <1>3, <1>5 DEF Room
  <2>1. d # c /\ kept[d] /\ Suspended(d)
    BY <1>3 DEF TypeOK, Room
  <2>2. Key(d) # Key(c) /\ Key(d) \in Keys
    BY <2>1, <1>2, LockType DEF Suspended
  <2>3. bucket'[Key(d)] = bucket[Key(d)]
    BY <2>2, <1>3 DEF TypeOK
  <2> QED
    BY <2>1, <2>3, <1>8 DEF Room
<1>12. \A k \in Keys : /\ bucket'[k] = IF k = Key(c) THEN b ELSE bucket[k]
                       /\ granted'[k] = IF k = Key(c) /\ b.age = 0 THEN granted[k] + 1 ELSE granted[k]
  BY <1>1, <1>3, <1>4 DEF TypeOK
<1>13. BucketsCountGrants'
  BY <1>12 DEF BucketsCountGrants
<1>14. MinuteLimitKept'
  <2> SUFFICES ASSUME NEW u \in Users, NEW t \in Tiers, Rpm[t] # None
               PROVE  granted'[<<u, t>>] <= Rpm[t]
    BY DEF MinuteLimitKept
  <2>1. <<u, t>> \in Keys /\ granted[<<u, t>>] <= Rpm[t]
    BY DEF Keys, MinuteLimitKept
  <2>2. <<u, t>> = Key(c) => t = tier[c]
    BY DEF Key
  <2> QED
    BY <2>1, <2>2, <1>12
<1> QED
  BY <1>6, <1>7, <1>9, <1>10, <1>11, <1>13, <1>14

\* A refusal, or the end of the call: the lock and the bucket are left as they are.
LEMMA LeaveKeeps ==
    ASSUME IInv, NEW c \in Calls, at[c] # "idle",
           NEW step \in {"refused", "idle"}, at' = [at EXCEPT ![c] = step],
           caller' \in [Calls -> Users \cup {NoUser}],
           \A d \in Calls : d # c \/ step # "idle" => caller'[d] = caller[d],
           kept' = [kept EXCEPT ![c] = FALSE],
           lock' = [u \in Users |-> IF lock[u] = c THEN NoCall ELSE lock[u]],
           used' \in [Keys -> Nat], CacheTyped',
           UNCHANGED <<share, tier, bucket, granted>>
    PROVE  IInv'
<1> USE DEF IInv
<1>1. TypeOK'
  BY DEF TypeOK, CacheTyped
<1>2. Callers'
  BY DEF TypeOK, Callers
<1>3. \A d \in Calls : Suspended(d)' <=> Suspended(d) /\ d # c
  BY DEF Suspended, TypeOK
<1>4. \A d \in Calls \ {c} : caller'[d] = caller[d] /\ Key(d)' = Key(d)
  BY DEF Key
<1>5. Awaits'
  BY <1>3, <1>4 DEF Awaits, Callers, Suspended
<1>6. Locked'
  BY <1>3, <1>4 DEF Locked, TypeOK
<1>7. Room'
  BY <1>3, <1>4 DEF Room, TypeOK
<1>8. BucketsCountGrants' /\ MinuteLimitKept'
  BY DEF BucketsCountGrants, MinuteLimitKept
<1> QED
  BY <1>1, <1>2, <1>5, <1>6, <1>7, <1>8

-----------------------------------------------------------------------------
(* The steps.                                                              *)

LEMMA ArriveStep ==
    ASSUME IInv, NEW c \in Calls, NEW u \in Users, NEW t \in Tiers, Arrive(c, u, t)
    PROVE  IInv'
<1> USE DEF IInv, Arrive
<1>1. TypeOK'
  BY DEF TypeOK
<1>2. Callers'
  BY DEF TypeOK, Callers
<1>3. \A d \in Calls : Suspended(d)' <=> Suspended(d)
  BY DEF Suspended, TypeOK
<1>4. ~ Suspended(c) /\ \A d \in Calls \ {c} : caller'[d] = caller[d] /\ Key(d)' = Key(d) /\ tier'[d] = tier[d]
  BY DEF Suspended, Key, TypeOK
<1>5. Awaits'
  BY <1>3, <1>4 DEF Awaits
<1>6. Locked'
  BY <1>3, <1>4 DEF Locked, TypeOK
<1>7. Room'
  BY <1>3, <1>4 DEF Room
<1>8. BucketsCountGrants' /\ MinuteLimitKept'
  BY DEF BucketsCountGrants, MinuteLimitKept
<1> QED
  BY <1>1, <1>2, <1>5, <1>6, <1>7, <1>8

\* The bucket is renewed, if it is of another minute; the call may go on to await.
LEMMA RenewKeeps ==
    ASSUME IInv, NEW c \in Calls, GetsLock(c), DenyMinute(c) \/ Enter(c)
    PROVE  IInv'
<1> USE DEF IInv
<1>1. at[c] = "waits" /\ lock[caller[c]] = NoCall
  BY DEF GetsLock
<1>2. caller[c] \in Users /\ tier[c] \in Tiers /\ Key(c) \in Keys /\ c # NoCall
  BY <1>1, LockType
<1>3. \A d \in Calls \ {c} : Suspended(d) => caller[d] # caller[c] /\ Key(d) # Key(c)
  BY <1>1, OthersApart
<1>4. bucket' = [bucket EXCEPT ![Key(c)] = Current(Key(c))] /\ UNCHANGED <<share, caller, tier, used, cached, crossed, granted>>
  BY DEF DenyMinute, Enter
<1>5. \A k \in Keys : bucket'[k] = IF k = Key(c) THEN Current(k) ELSE bucket[k]
  BY <1>2, <1>4 DEF TypeOK
<1>6. bucket' \in [Keys -> [age : 0..Old, count : Nat]]
  BY <1>2, <1>4, BucketType DEF TypeOK, Old
<1>7. BucketsCountGrants' /\ MinuteLimitKept'
  BY <1>4, <1>5 DEF BucketsCountGrants, MinuteLimitKept, Current, Fresh
<1>8. ~ Suspended(c) /\ ~ kept[c] /\ \A d \in Calls : Key(d)' = Key(d)
  BY <1>1, <1>4 DEF Suspended, Room, Key
<1>9. \A d \in Calls \ {c} : kept[d] => bucket'[Key(d)] = bucket[Key(d)]
  BY <1>3, <1>5, LockType DEF Room, Suspended
<1>10. CASE DenyMinute(c)
  <2>1. at' = [at EXCEPT ![c] = "refused"] /\ UNCHANGED <<kept, lock>>
    BY <1>10 DEF DenyMinute
  <2>2. \A d \in Calls : Suspended(d)' <=> Suspended(d)
    BY <2>1, <1>1 DEF Suspended, TypeOK
  <2>3. TypeOK' /\ Callers'
    BY <2>1, <1>2, <1>4, <1>6 DEF TypeOK, Callers
  <2>4. Awaits' /\ Locked'
    BY <2>1, <2>2, <1>4 DEF Awaits, Locked, TypeOK
  <2>5. Room'
    BY <2>1, <2>2, <1>4, <1>8, <1>9 DEF Room
  <2> QED
    BY <2>3, <2>4, <2>5, <1>7
<1>11. CASE Enter(c)
  <2>1. /\ at' = [at EXCEPT ![c] = "scope"]
        /\ kept' = [kept EXCEPT ![c] = TRUE]
        /\ lock' = [lock EXCEPT ![caller[c]] = c]
        /\ ~ Spent(Key(c))
    BY <1>11 DEF Enter
  <2>2. \A d \in Calls : Suspended(d)' <=> Suspended(d) \/ d = c
    BY <2>1 DEF Suspended, TypeOK
  <2>3. TypeOK' /\ Callers'
    BY <2>1, <1>2, <1>4, <1>6 DEF TypeOK, Callers
  <2>4. Awaits'
    BY <2>1, <2>2, <1>2, <1>3, <1>4 DEF Awaits, TypeOK
  <2>5. Locked'
    <3> SUFFICES ASSUME NEW u \in Users, lock'[u] # NoCall
                 PROVE  /\ lock'[u] \in Calls
                        /\ Suspended(lock'[u]) \/ lock'[u] = c
                        /\ caller[lock'[u]] = u
      BY <2>1, <2>2, <1>4 DEF Locked, Suspended, TypeOK
    <3>1. CASE u = caller[c]
      BY <3>1, <2>1, <1>2 DEF TypeOK
    <3>2. CASE u # caller[c]
      <4>1. lock'[u] = lock[u] /\ lock[u] \in Calls
        BY <3>2, <2>1, <1>2 DEF TypeOK
      <4> QED
        BY <4>1, <2>2, <1>4 DEF Locked
    <3> QED
      BY <3>1, <3>2
  <2>6. Key(c)[2] = tier[c]
    BY DEF Key
  <2>7. Rpm[tier[c]] # None => bucket'[Key(c)].count < Rpm[tier[c]]
    BY <2>1, <2>6, <1>2, <1>5, LimitTypes, BucketType DEF Spent
  <2>8. Room'
    BY <2>1, <2>2, <2>7, <1>4, <1>8, <1>9 DEF Room, TypeOK
  <2> QED
    BY <2>3, <2>4, <2>5, <2>8, <1>7
<1> QED
  BY <1>10, <1>11

LEMMA GrantAtOnceStep == ASSUME IInv, NEW c \in Calls, GrantAtOnce(c) PROVE IInv'
<1> USE DEF IInv
<1> DEFINE k == Key(c)
           b == [Current(k) EXCEPT !.count = @ + 1]
<1>1. at[c] = "waits" /\ lock[caller[c]] = NoCall /\ ~ Spent(k) /\ Grant(c, b) /\ UNCHANGED <<cached, crossed>>
  BY DEF GrantAtOnce, GetsLock
<1>2. k \in Keys /\ tier[c] \in Tiers /\ k[2] = tier[c]
  BY <1>1, LockType DEF Key
<1>3. Current(k) \in [age : {0}, count : Nat] /\ Current(k).count = granted[k]
  BY <1>2, BucketType DEF Current, Fresh, BucketsCountGrants
<1>4. b \in [age : 0..Old, count : Nat] /\ b.age = 0 /\ b.count = granted[k] + 1
  BY <1>3 DEF Old
<1>5. Rpm[tier[c]] # None => b.count <= Rpm[tier[c]]
  BY <1>1, <1>2, <1>3, <1>4, LimitTypes DEF Spent
<1>6. CacheTyped'
  BY <1>1 DEF TypeOK, CacheTyped
<1> HIDE DEF k, b, IInv
<1> QED
  BY <1>1, <1>4, <1>5, <1>6, GrantKeeps DEF k

\* Inside the lock, after an answer: the grant, or the refusal.
LEMMA GrantAfterAwaitStep ==
    ASSUME IInv, NEW c \in Calls, Suspended(c), GrantAfterAwait(c),
           CacheTyped'
    PROVE  IInv'
<1> USE DEF IInv
<1>1. lock[caller[c]] = c /\ at[c] # "idle" /\ caller[c] \in Users /\ tier[c] \in Tiers /\ Key(c) \in Keys
  BY LockType DEF Awaits, Suspended
<1>2. CASE kept[c]
  <2> DEFINE b == [bucket[Key(c)] EXCEPT !.count = @ + 1]
  <2>1. Grant(c, b)
    BY <1>2 DEF GrantAfterAwait
  <2>2. bucket[Key(c)] \in [age : 0..Old, count : Nat]
    BY <1>1, BucketType
  <2>3. b \in [age : 0..Old, count : Nat] /\ b.age = bucket[Key(c)].age /\ b.count = bucket[Key(c)].count + 1
    BY <2>2
  <2>4. /\ b.age = 0 => b.count = granted[Key(c)] + 1
        /\ b.age # 0 => granted[Key(c)] = 0
    BY <2>3, <1>1 DEF BucketsCountGrants
  <2>5. b.age = 0 /\ Rpm[tier[c]] # None => b.count <= Rpm[tier[c]]
    BY <2>2, <2>3, <1>1, <1>2, LimitTypes DEF Room
  <2> HIDE DEF b, IInv
  <2> QED
    BY <2>1, <2>3, <2>4, <2>5, <1>1, GrantKeeps
<1>3. CASE ~ kept[c]
  <2>1. /\ at' = [at EXCEPT ![c] = "passed"]
        /\ lock' = [lock EXCEPT ![caller[c]] = NoCall]
        /\ UNCHANGED <<share, caller, tier, kept, bucket, used, granted>>
    BY <1>3 DEF GrantAfterAwait
  <2>2. \A d \in Calls : Suspended(d)' <=> Suspended(d) /\ d # c
    BY <2>1 DEF Suspended, TypeOK
  <2>3. \A d \in Calls \ {c} : Suspended(d) => caller[d] # caller[c]
    BY <1>1, OthersApart
  <2>4. TypeOK' /\ Callers'
    BY <2>1, <1>1 DEF TypeOK, CacheTyped, Callers
  <2>5. Awaits'
    BY <2>1, <2>2, <2>3 DEF Awaits, TypeOK, Callers, Suspended
  <2>6. Locked'
    <3>1. \A u \in Users : lock'[u] # NoCall => u # caller[c] /\ lock'[u] = lock[u]
      BY <2>1, <1>1 DEF TypeOK
    <3> QED
      BY <3>1, <2>1, <2>2 DEF Locked, TypeOK
  <2>7. Room'
    BY <2>1, <2>2, <1>3 DEF Room, Key
  <2>8. BucketsCountGrants' /\ MinuteLimitKept'
    BY <2>1 DEF BucketsCountGrants, MinuteLimitKept
  <2> QED
    BY <2>4, <2>5, <2>6, <2>7, <2>8
<1> QED
  BY <1>2, <1>3

LEMMA DenyDayStep ==
    ASSUME IInv, NEW c \in Calls, Suspended(c), DenyDay(c),
           CacheTyped'
    PROVE  IInv'
<1>1. lock[caller[c]] = c /\ at[c] # "idle" /\ caller[c] \in Users /\ c # NoCall
  BY LockType DEF IInv, Awaits, Suspended
<1>2. \A u \in Users : lock[u] = c => u = caller[c]
  BY <1>1 DEF IInv, Locked
<1>3. lock' = [u \in Users |-> IF lock[u] = c THEN NoCall ELSE lock[u]]
  BY <1>1, <1>2 DEF DenyDay, IInv, TypeOK
<1>4. /\ at' = [at EXCEPT ![c] = "refused"]
      /\ kept' = [kept EXCEPT ![c] = FALSE]
      /\ UNCHANGED <<share, caller, tier, bucket, used, granted>>
  BY DEF DenyDay
<1>5. caller' \in [Calls -> Users \cup {NoUser}] /\ used' \in [Keys -> Nat]
  BY <1>4 DEF IInv, TypeOK
<1> QED
  BY <1>1, <1>3, <1>4, <1>5, LeaveKeeps

LEMMA AnsweredStep == ASSUME IInv, NEW c \in Calls, Answered(c) PROVE IInv'
<1>1. PICK n \in 0..(2 * MaxUsed * Cardinality(Users)) : ScopeAnswered(c, n) \/ OwnAnswered(c, n)
  BY DEF Answered
<1>2. n \in Nat
  BY CountsAreNat
<1>3. Suspended(c)
  BY <1>1 DEF ScopeAnswered, OwnAnswered, Suspended
<1>4. PICK S \in Scopes, t \in Tiers : Answer(S, t, n)
  BY <1>1, <1>3, OwnScope, LockType DEF ScopeAnswered, OwnAnswered, IInv, Suspended
<1>5. CacheTyped'
  BY <1>2, <1>4 DEF Answer, CacheTyped, IInv, TypeOK
<1>6. \/ DenyDay(c) \/ GrantAfterAwait(c)
      \/ at' = [at EXCEPT ![c] = "own"] /\ UNCHANGED <<share, caller, tier, kept, bucket, lock, used, granted>>
  BY <1>1 DEF ScopeAnswered, OwnAnswered
<1>7. CASE at' = [at EXCEPT ![c] = "own"] /\ UNCHANGED <<share, caller, tier, kept, bucket, lock, used, granted>>
  <2>1. \A d \in Calls : Suspended(d)' <=> Suspended(d)
    BY <1>3, <1>7 DEF Suspended, IInv, TypeOK
  <2>2. TypeOK' /\ Callers'
    BY <1>3, <1>5, <1>7 DEF IInv, TypeOK, CacheTyped, Callers, Suspended
  <2>3. Awaits' /\ Locked' /\ Room'
    BY <2>1, <1>7 DEF IInv, Awaits, Locked, Room, Key, TypeOK
  <2>4. BucketsCountGrants' /\ MinuteLimitKept'
    BY <1>7 DEF IInv, BucketsCountGrants, MinuteLimitKept
  <2> QED
    BY <2>2, <2>3, <2>4 DEF IInv
<1> QED
  BY <1>3, <1>5, <1>6, <1>7, DenyDayStep, GrantAfterAwaitStep

LEMMA EndStep == ASSUME IInv, NEW c \in Calls, NEW counts \in BOOLEAN, End(c, counts) PROVE IInv'
<1>1. at[c] # "idle" /\ Key(c) \in Keys
  BY LockType DEF End, IInv
<1>2. /\ at' = [at EXCEPT ![c] = "idle"]
      /\ caller' = [caller EXCEPT ![c] = NoUser]
      /\ kept' = [kept EXCEPT ![c] = FALSE]
      /\ lock' = [u \in Users |-> IF lock[u] = c THEN NoCall ELSE lock[u]]
      /\ UNCHANGED <<share, tier, bucket, cached, crossed, granted>>
      /\ used' = IF counts THEN [used EXCEPT ![Key(c)] = @ + 1] ELSE used
  BY DEF End
<1>3. used' \in [Keys -> Nat] /\ CacheTyped'
  BY <1>1, <1>2 DEF IInv, TypeOK, CacheTyped
<1>4. caller' \in [Calls -> Users \cup {NoUser}] /\ \A d \in Calls : d # c => caller'[d] = caller[d]
  BY <1>2 DEF IInv, TypeOK
<1> QED
  BY <1>1, <1>2, <1>3, <1>4, LeaveKeeps

LEMMA TickStep == ASSUME IInv, Tick PROVE IInv'
<1> USE DEF IInv
<1>1. /\ bucket' = [k \in Keys |-> [bucket[k] EXCEPT !.age = IF bucket[k].age < Old THEN bucket[k].age + 1 ELSE Old]]
      /\ granted' = [k \in Keys |-> 0]
      /\ UNCHANGED <<share, at, caller, tier, kept, lock, used, cached, crossed>>
  BY DEF Tick, calls
<1>2. \A k \in Keys : bucket[k].age \in 0..2 /\ bucket[k].count \in Nat /\ bucket[k] \in [age : 0..2, count : Nat]
  BY DEF TypeOK, Old
<1>3. \A k \in Keys : bucket'[k].age \in 1..Old /\ bucket'[k].count = bucket[k].count /\ granted'[k] = 0
  BY <1>1, <1>2 DEF Old
<1>4. bucket' \in [Keys -> [age : 0..Old, count : Nat]] /\ granted' \in [Keys -> Nat]
  BY <1>1, <1>2 DEF Old
<1>5. TypeOK' /\ Callers'
  BY <1>1, <1>4 DEF TypeOK, Callers
<1>6. \A d \in Calls : Suspended(d)' <=> Suspended(d)
  BY <1>1 DEF Suspended
<1>7. Awaits' /\ Locked'
  BY <1>1, <1>6 DEF Awaits, Locked, TypeOK
<1>8. \A d \in Calls : Key(d)' = Key(d) /\ tier'[d] = tier[d]
  BY <1>1 DEF Key
<1>9. Room'
  <2> SUFFICES ASSUME NEW d \in Calls, kept'[d]
               PROVE  Suspended(d)' /\ bucket'[Key(d)].age # 0
    BY <1>8 DEF Room
  <2>1. kept[d] /\ Suspended(d)
    BY <1>1 DEF Room
  <2> QED
    BY <2>1, <1>3, <1>6, LockType DEF Suspended, Old
<1>10. BucketsCountGrants'
  BY <1>3 DEF BucketsCountGrants
<1>11. MinuteLimitKept'
  BY <1>3, LimitTypes DEF MinuteLimitKept, Keys
<1> QED
  BY <1>5, <1>7, <1>9, <1>10, <1>11

\* Dropped buckets of this minute start over in the history as well.
LEMMA DropKeeps ==
    ASSUME IInv, NEW K \in SUBSET Keys, NEW C, Drop(K, C),
           granted' \in [Keys -> Nat],
           \A k \in K : granted'[k] = 0,
           \A k \in Keys \ K : granted'[k] = granted[k]
    PROVE  IInv'
<1> USE DEF IInv, Drop, calls
<1>1. \A k \in Keys : bucket'[k] = IF k \in K THEN Empty ELSE bucket[k]
  OBVIOUS
<1>2. TypeOK' /\ Callers'
  BY DEF TypeOK, Callers, Empty, Old
<1>3. \A d \in Calls : Suspended(d)' <=> Suspended(d)
  BY DEF Suspended
<1>4. Awaits' /\ Locked'
  BY <1>3 DEF Awaits, Locked, TypeOK
<1>5. \A d \in Calls : kept'[d] => kept[d] /\ Key(d) \notin K /\ Key(d)' = Key(d)
  BY DEF Key
<1>6. Room'
  BY <1>1, <1>3, <1>5, LockType DEF Room, Suspended
<1>7. BucketsCountGrants'
  BY <1>1 DEF BucketsCountGrants, Empty, Old
<1>8. MinuteLimitKept'
  BY LimitTypes DEF MinuteLimitKept, Keys
<1> QED
  BY <1>2, <1>4, <1>6, <1>7, <1>8

LEMMA EvictStep == ASSUME IInv, NEW C, Evict(C) PROVE IInv'
<1> DEFINE K == {k \in Keys : bucket[k].age = Old}
<1>1. Drop(K, C) /\ granted' = granted
  BY DEF Evict
<1>2. \A k \in K : granted[k] = 0
  BY DEF IInv, BucketsCountGrants, Old
<1>3. granted' \in [Keys -> Nat]
  BY <1>1 DEF IInv, TypeOK
<1> QED
  BY <1>1, <1>2, <1>3, DropKeeps

LEMMA InvalidateStep == ASSUME IInv, NEW t \in Tiers, InvalidateGroup(t) PROVE IInv'
<1> DEFINE K == Users \X {t}
<1>1. Drop(K, Scopes \X {t}) /\ granted' = [k \in Keys |-> IF k[2] = t THEN 0 ELSE granted[k]]
  BY DEF InvalidateGroup
<1>2. K \in SUBSET Keys /\ \A k \in Keys : k \in K <=> k[2] = t
  BY DEF Keys
<1>3. granted' \in [Keys -> Nat]
  BY <1>1 DEF IInv, TypeOK
<1> HIDE DEF K
<1> QED
  BY <1>1, <1>2, <1>3, DropKeeps

LEMMA NextInv == IInv /\ [Next]_vars => IInv'
<1> SUFFICES ASSUME IInv, [Next]_vars PROVE IInv'
  OBVIOUS
<1>1. ASSUME NEW c \in Calls, NEW u \in Users, NEW t \in Tiers, Arrive(c, u, t) PROVE IInv'
  BY <1>1, ArriveStep
<1>2. ASSUME NEW c \in Calls, TakeLock(c) PROVE IInv'
  <2>1. CASE GrantAtOnce(c)
    BY <2>1, GrantAtOnceStep
  <2>2. CASE DenyMinute(c) \/ Enter(c)
    BY <2>2, RenewKeeps DEF DenyMinute, Enter
  <2> QED
    BY <1>2, <2>1, <2>2 DEF TakeLock
<1>3. ASSUME NEW c \in Calls, Answered(c) PROVE IInv'
  BY <1>3, AnsweredStep
<1>4. ASSUME NEW c \in Calls, NEW counts \in BOOLEAN, End(c, counts) PROVE IInv'
  BY <1>4, EndStep
<1>5. CASE Tick
  BY <1>5, TickStep
<1>6. ASSUME NEW C, Evict(C) PROVE IInv'
  BY <1>6, EvictStep
<1>7. ASSUME NEW t \in Tiers, InvalidateGroup(t) PROVE IInv'
  BY <1>7, InvalidateStep
<1>8. CASE UNCHANGED vars
  BY <1>8 DEF vars, IInv, TypeOK, Callers, Suspended, Awaits, Locked, Room, BucketsCountGrants,
    MinuteLimitKept, Key
<1> QED
  BY <1>1, <1>2, <1>3, <1>4, <1>5, <1>6, <1>7, <1>8 DEF Next

LEMMA Invariance == Spec => []IInv
  BY InitInv, NextInv, PTL DEF Spec

-----------------------------------------------------------------------------
(* Calls, buckets, locks and counts are well-formed.                       *)
THEOREM TypeCorrect == Spec => []TypeOK
  BY Invariance, PTL DEF IInv

(* However many calls wait, are cancelled, or are overtaken by the minute, *)
(* the sweep or invalidate_group between check_and_increment's check and   *)
(* its increment, a bucket of this minute counts exactly its grants.       *)
THEOREM BucketsExact == Spec => []BucketsCountGrants
  BY Invariance, PTL DEF IInv

(* No user gets more grants out of a minute than their limit.              *)
THEOREM MinuteLimit == Spec => []MinuteLimitKept
  BY Invariance, PTL DEF IInv

-----------------------------------------------------------------------------
(* The rows of a scope for the day are a sum over its members.             *)

\* Used over the counts f.
CountsOf(f, S, t) == MapThenSumSet(LAMBDA u : f[<<u, t>>], S)

Column(f, t) == [u \in Users |-> f[<<u, t>>]]

CountsAdd(h, f, S, t) ==
    h = [s \in SUBSET S |-> IF s = {} THEN 0 ELSE f[<<One(s), t>>] + h[s \ {One(s)}]]

LEMMA CountsAreSum ==
    ASSUME NEW f \in [Keys -> Nat], NEW t \in Tiers, NEW S \in SUBSET Users
    PROVE  /\ Column(f, t) \in [Users -> Nat] /\ Column(f, t) \in [Users -> Int]
           /\ CountsOf(f, S, t) = Sum(Column(f, t), S)
<1> DEFINE c == Column(f, t)
           k == CHOOSE h : CountsAdd(h, f, S, t)
<1>0. \A s : s # {} => One(s) \in s
  BY DEF One
<1>1. c \in [Users -> Nat] /\ c \in [Users -> Int] /\ \A u \in Users : c[u] = f[<<u, t>>]
  BY DEF Column, Keys
<1>2. CountsOf(f, S, t) = k[S]
  BY Zenon DEF CountsOf, MapThenSumSet, MapThenFoldSet, One, CountsAdd
<1> HIDE DEF c
<1>3. PICK h : SumsOf(h, c, Users)
  BY <1>1, ChargeAssumption, SumIsFold
<1>4. Sums(h, c, Users) /\ Sum(c, S) = h[S]
  BY <1>3 DEF Sums, SumsOf
<1> DEFINE g == [s \in SUBSET S |-> h[s]]
<1>5. CountsAdd(g, f, S, t)
  <2>1. ASSUME NEW s \in SUBSET S
        PROVE  g[s] = IF s = {} THEN 0 ELSE f[<<One(s), t>>] + g[s \ {One(s)}]
    <3>1. s \in SUBSET Users /\ s \ {One(s)} \in SUBSET S
      OBVIOUS
    <3>2. g[s] = h[s] /\ g[s \ {One(s)}] = h[s \ {One(s)}]
      BY <3>1
    <3>3. h[s] = IF s = {} THEN 0 ELSE c[One(s)] + h[s \ {One(s)}]
      BY <1>4, <3>1 DEF Sums
    <3>4. s # {} => c[One(s)] = f[<<One(s), t>>]
      BY <1>0, <1>1
    <3> HIDE DEF g
    <3> QED
      BY <3>2, <3>3, <3>4
  <2> HIDE DEF g
  <2>2. g = [s \in SUBSET S |-> g[s]]
    BY DEF g
  <2> QED
    BY <2>1, <2>2 DEF CountsAdd
<1> HIDE DEF g
<1>6. CountsAdd(k, f, S, t)
  BY <1>5
<1> HIDE DEF k
<1>7. Adds(k, c, S)
  <2>1. \A s \in SUBSET S : k[s] = IF s = {} THEN 0 ELSE c[One(s)] + k[s \ {One(s)}]
    <3>1. \A s \in SUBSET S : k[s] = IF s = {} THEN 0 ELSE f[<<One(s), t>>] + k[s \ {One(s)}]
      BY <1>6 DEF CountsAdd
    <3>2. \A s \in SUBSET S : s # {} => c[One(s)] = f[<<One(s), t>>]
      BY <1>0, <1>1
    <3> QED
      BY <3>1, <3>2
  <2>2. k = [s \in SUBSET S |-> k[s]]
    BY <1>6 DEF CountsAdd
  <2> QED
    BY <2>1, <2>2 DEF Adds
<1>8. k[S] = h[S]
  BY <1>4, <1>7, ChargeAssumption, SumsAgree
<1> QED
  BY <1>1, <1>2, <1>4, <1>8 DEF c

\* Counts only grow, and with them the sum.
LEMMA SumGrows ==
    ASSUME NEW f \in [Keys -> Nat], NEW g \in [Keys -> Nat], \A k \in Keys : f[k] <= g[k],
           NEW t \in Tiers, NEW S \in SUBSET Users
    PROVE  CountsOf(f, S, t) \in Nat /\ CountsOf(f, S, t) <= CountsOf(g, S, t)
<1>1. PICK c : c = Column(f, t)
  OBVIOUS
<1>2. PICK d : d = Column(g, t)
  OBVIOUS
<1>3. /\ c \in [Users -> Nat] /\ c \in [Users -> Int] /\ d \in [Users -> Int]
      /\ CountsOf(f, S, t) = Sum(c, S) /\ CountsOf(g, S, t) = Sum(d, S)
  BY <1>1, <1>2, CountsAreSum
<1>4. \A u \in S : c[u] <= d[u]
  BY <1>1, <1>2 DEF Column, Keys
<1>5. IsFiniteSet(Users)
  BY ChargeAssumption
<1>6. Sum(c, S) \in Nat /\ Sum(c, S) <= Sum(d, S)
  BY <1>3, <1>4, <1>5, SumParts, SumLe
<1> QED
  BY <1>3, <1>6

LEMMA ScopeType == \A S \in Scopes : S \in SUBSET Users
  BY ChargeAssumption DEF Scopes

LEMMA UsedGrows ==
    ASSUME used \in [Keys -> Nat], used' \in [Keys -> Nat], \A k \in Keys : used[k] <= used'[k],
           NEW t \in Tiers, NEW S \in Scopes
    PROVE  Used(S, t) \in Nat /\ Used(S, t)' \in Nat /\ Used(S, t) <= Used(S, t)'
<1>1. Used(S, t) = CountsOf(used, S, t) /\ Used(S, t)' = CountsOf(used', S, t)
  BY Zenon DEF Used, CountsOf, MapThenSumSet, MapThenFoldSet
<1>2. S \in SUBSET Users
  BY ScopeType
<1>3. PICK f \in [Keys -> Nat] : f = used
  OBVIOUS
<1>4. PICK g \in [Keys -> Nat] : g = used'
  OBVIOUS
<1>5. CountsOf(f, S, t) \in Nat /\ CountsOf(g, S, t) \in Nat /\ CountsOf(f, S, t) <= CountsOf(g, S, t)
  <2>1. (\A k \in Keys : f[k] <= g[k]) /\ (\A k \in Keys : g[k] <= g[k])
    BY <1>3, <1>4
  <2> QED
    BY <1>2, <2>1, SumGrows
<1> QED
  BY <1>1, <1>3, <1>4, <1>5

LEMMA UsedOfOne ==
    ASSUME used \in [Keys -> Nat], NEW u \in Users, NEW t \in Tiers
    PROVE  Used({u}, t) = used[<<u, t>>]
<1>1. Used({u}, t) = CountsOf(used, {u}, t)
  BY DEF Used, CountsOf
<1>2. PICK f \in [Keys -> Nat] : f = used
  OBVIOUS
<1>3. CountsOf(f, {u}, t) = f[<<u, t>>]
  <2>1. PICK c : c = Column(f, t)
    OBVIOUS
  <2>2. c \in [Users -> Int] /\ CountsOf(f, {u}, t) = Sum(c, {u}) /\ IsFiniteSet(Users)
    BY <2>1, CountsAreSum, ChargeAssumption
  <2>3. {u} \in SUBSET Users /\ u \in {u} /\ {u} \ {u} = {}
    OBVIOUS
  <2>4. Sum(c, {u}) = c[u] + Sum(c, {}) /\ Sum(c, {}) = 0
    BY <2>2, <2>3, SumTake
  <2> QED
    BY <2>1, <2>2, <2>4 DEF Column
<1> QED
  BY <1>1, <1>2, <1>3

-----------------------------------------------------------------------------
(* A denial for the day.  A cached count may lag, so it is at most the true *)
(* one, or at most twice that where a flush crossed it.                     *)

Lags(n, S, t) == n <= IF <<S, t>> \in crossed THEN 2 * Used(S, t) ELSE Used(S, t)

CachedLags == \A S \in Scopes, t \in Tiers : Lags(cached[<<S, t>>], S, t)

AwaitsADay == \A c \in Calls : Suspended(c) => Rpd[tier[c]] # None

DInv == IInv /\ CachedLags /\ AwaitsADay

LEMMA UsedIsNat == ASSUME TypeOK, NEW S \in Scopes, NEW t \in Tiers PROVE Used(S, t) \in Nat
<1>1. PICK f \in [Keys -> Nat] : f = used
  BY DEF TypeOK
<1>2. CountsOf(f, S, t) \in Nat
  BY ScopeType, SumGrows
<1>3. Used(S, t) = CountsOf(used, S, t)
  BY DEF Used, CountsOf
<1> QED
  BY <1>1, <1>2, <1>3

LEMMA AnswerLags ==
    ASSUME TypeOK, CachedLags, NEW S \in Scopes, NEW t \in Tiers, NEW n, Answer(S, t, n)
    PROVE  /\ n \in Nat /\ Used(S, t) \in Nat
           /\ n <= Used(S, t) \/ (<<S, t>> \in crossed' /\ n <= 2 * Used(S, t))
<1>1. cached[<<S, t>>] \in Nat
  BY DEF TypeOK
<1>2. Used(S, t) \in Nat
  BY UsedIsNat
<1>3. CASE n = cached[<<S, t>>] /\ UNCHANGED <<cached, crossed>>
  BY <1>1, <1>2, <1>3 DEF CachedLags, Lags
<1>4. CASE n \in 0..Used(S, t)
  BY <1>2, <1>4
<1>5. CASE n \in (Used(S, t) + 1)..(2 * Used(S, t)) /\ crossed' = crossed \cup {<<S, t>>}
  BY <1>2, <1>5
<1> QED
  BY <1>3, <1>4, <1>5 DEF Answer

\* Where counts only grow and a cached count is kept, lost or answered, it still lags.
LEMMA StillLags ==
    ASSUME TypeOK, TypeOK', CachedLags, \A k \in Keys : used[k] <= used'[k],
           \A S \in Scopes, t \in Tiers :
               \/ cached'[<<S, t>>] = 0
               \/ cached'[<<S, t>>] <= Used(S, t)
               \/ <<S, t>> \in crossed' /\ cached'[<<S, t>>] <= 2 * Used(S, t)
               \/ cached'[<<S, t>>] = cached[<<S, t>>] /\ (<<S, t>> \in crossed => <<S, t>> \in crossed')
    PROVE  CachedLags'
<1> SUFFICES ASSUME NEW S \in Scopes, NEW t \in Tiers PROVE Lags(cached[<<S, t>>], S, t)'
  BY Zenon DEF CachedLags
<1>1. cached[<<S, t>>] \in Nat /\ cached'[<<S, t>>] \in Nat
  BY DEF TypeOK
<1>2. Used(S, t) \in Nat /\ Used(S, t)' \in Nat /\ Used(S, t) <= Used(S, t)'
  BY UsedGrows DEF TypeOK
<1>3. cached[<<S, t>>] <= IF <<S, t>> \in crossed THEN 2 * Used(S, t) ELSE Used(S, t)
  BY DEF CachedLags, Lags
<1>4. cached'[<<S, t>>] <= IF <<S, t>> \in crossed' THEN 2 * Used(S, t)' ELSE Used(S, t)'
  BY <1>1, <1>2, <1>3
<1> QED
  BY <1>4 DEF Lags

LEMMA UsedSame == ASSUME TypeOK, used' = used PROVE \A k \in Keys : used[k] <= used'[k]
  BY DEF TypeOK

LEMMA AnswerKeepsLag ==
    ASSUME TypeOK, TypeOK', CachedLags, NEW S \in Scopes, NEW t \in Tiers, NEW n, Answer(S, t, n), used' = used
    PROVE  CachedLags'
<1>1. n <= Used(S, t) \/ (<<S, t>> \in crossed' /\ n <= 2 * Used(S, t))
  BY AnswerLags
<1>2. CASE UNCHANGED <<cached, crossed>>
  BY <1>2, UsedSame, StillLags
<1>3. CASE ~ UNCHANGED <<cached, crossed>>
  <2>1. /\ cached' = [cached EXCEPT ![<<S, t>>] = n]
        /\ crossed' \in {crossed \ {<<S, t>>}, crossed \cup {<<S, t>>}}
    BY <1>3 DEF Answer
  <2>2. ASSUME NEW R \in Scopes, NEW r \in Tiers
        PROVE  \/ cached'[<<R, r>>] <= Used(R, r)
               \/ <<R, r>> \in crossed' /\ cached'[<<R, r>>] <= 2 * Used(R, r)
               \/ cached'[<<R, r>>] = cached[<<R, r>>] /\ (<<R, r>> \in crossed => <<R, r>> \in crossed')
    <3>1. cached \in [Scopes \X Tiers -> Nat]
      BY DEF TypeOK
    <3>2. CASE R = S /\ r = t
      BY <1>1, <2>1, <3>1, <3>2
    <3>3. CASE ~ (R = S /\ r = t)
      BY <2>1, <3>1, <3>3
    <3> QED
      BY <3>2, <3>3
  <2> QED
    BY <2>2, UsedSame, StillLags
<1> QED
  BY <1>2, <1>3

LEMMA LagKept ==
    ASSUME TypeOK, TypeOK', CachedLags, used' = used,
           \A k \in Scopes \X Tiers : \/ cached'[k] = 0
                                      \/ cached'[k] = cached[k] /\ (k \in crossed => k \in crossed')
    PROVE  CachedLags'
  BY UsedSame, StillLags

LEMMA ScopeAnsweredLags ==
    ASSUME DInv, TypeOK', NEW c \in Calls, NEW n, ScopeAnswered(c, n) \/ OwnAnswered(c, n)
    PROVE  CachedLags'
<1>1. TypeOK /\ Callers /\ CachedLags
  BY DEF DInv, IInv
<1>2. at[c] # "idle" /\ used' = used
  BY DEF ScopeAnswered, OwnAnswered, DenyDay, GrantAfterAwait, Grant
<1>3. PICK t \in Tiers : t = tier[c]
  BY <1>1, <1>2, LockType
<1>4. CASE ScopeAnswered(c, n)
  <2>1. PICK S \in Scopes : S = Scope(caller[c])
    BY <1>1, <1>2, OwnScope
  <2>2. Answer(S, t, n)
    BY <1>3, <1>4, <2>1 DEF ScopeAnswered
  <2> QED
    BY <1>1, <1>2, <2>2, AnswerKeepsLag
<1>5. CASE OwnAnswered(c, n)
  <2>1. PICK S \in Scopes : S = {caller[c]}
    BY <1>1, <1>2, OwnScope
  <2>2. Answer(S, t, n)
    BY <1>3, <1>5, <2>1 DEF OwnAnswered
  <2> QED
    BY <1>1, <1>2, <2>2, AnswerKeepsLag
<1> QED
  BY <1>4, <1>5

LEMMA InitDays == Init => DInv
<1> SUFFICES ASSUME Init PROVE DInv
  OBVIOUS
<1>1. IInv
  BY InitInv
<1>2. CachedLags
  <2> SUFFICES ASSUME NEW S \in Scopes, NEW t \in Tiers PROVE Lags(cached[<<S, t>>], S, t)
    BY Zenon DEF CachedLags
  <2>1. cached[<<S, t>>] = 0
    BY DEF Init
  <2>2. Used(S, t) \in Nat
    BY <1>1, UsedIsNat DEF IInv
  <2> QED
    BY <2>1, <2>2 DEF Lags
<1>3. AwaitsADay
  BY DEF Init, AwaitsADay, Suspended
<1> QED
  BY <1>1, <1>2, <1>3 DEF DInv

LEMMA DaysStep == DInv /\ [Next]_vars => DInv'
<1> SUFFICES ASSUME DInv, [Next]_vars PROVE DInv'
  OBVIOUS
<1>1. IInv /\ CachedLags /\ AwaitsADay /\ TypeOK /\ IInv' /\ TypeOK'
  BY NextInv DEF DInv, IInv
<1>2. ASSUME NEW c \in Calls, NEW u \in Users, NEW t \in Tiers, Arrive(c, u, t) PROVE DInv'
  <2>1. CachedLags'
    BY <1>1, <1>2, LagKept DEF Arrive
  <2>2. AwaitsADay'
    BY <1>1, <1>2 DEF Arrive, AwaitsADay, Suspended, TypeOK
  <2> QED
    BY <1>1, <2>1, <2>2 DEF DInv
<1>3. ASSUME NEW c \in Calls, TakeLock(c) PROVE DInv'
  <2>1. used' = used /\ cached' = cached /\ crossed' = crossed
    BY <1>3 DEF TakeLock, DenyMinute, GrantAtOnce, Grant, Enter
  <2>2. CachedLags'
    BY <1>1, <2>1, LagKept
  <2>3. AwaitsADay'
    BY <1>1, <1>3 DEF TakeLock, DenyMinute, GrantAtOnce, Grant, Enter, AwaitsADay, Suspended, TypeOK
  <2> QED
    BY <1>1, <2>2, <2>3 DEF DInv
<1>4. ASSUME NEW c \in Calls, Answered(c) PROVE DInv'
  <2>1. PICK n \in 0..(2 * MaxUsed * Cardinality(Users)) : ScopeAnswered(c, n) \/ OwnAnswered(c, n)
    BY <1>4 DEF Answered
  <2>2. CachedLags'
    BY <1>1, <2>1, ScopeAnsweredLags
  <2>3. Suspended(c) /\ tier' = tier /\ \A d \in Calls : d # c => at'[d] = at[d]
    BY <1>1, <2>1 DEF ScopeAnswered, OwnAnswered, DenyDay, GrantAfterAwait, Grant, Suspended, TypeOK
  <2>4. AwaitsADay'
    BY <1>1, <2>3 DEF AwaitsADay, Suspended
  <2> QED
    BY <1>1, <2>2, <2>4 DEF DInv
<1>5. ASSUME NEW c \in Calls, NEW counts \in BOOLEAN, End(c, counts) PROVE DInv'
  <2>1. cached' = cached /\ crossed' = crossed /\ used' = IF counts THEN [used EXCEPT ![Key(c)] = @ + 1] ELSE used
    BY <1>5 DEF End
  <2>2. \A k \in Keys : used[k] <= used'[k]
    BY <1>1, <2>1 DEF TypeOK
  <2>4. CachedLags'
    BY <1>1, <2>1, <2>2, StillLags
  <2>5. AwaitsADay'
    BY <1>1, <1>5 DEF End, AwaitsADay, Suspended, TypeOK
  <2> QED
    BY <1>1, <2>4, <2>5 DEF DInv
<1>6. ASSUME UNCHANGED calls, used' = used,
             \A k \in Scopes \X Tiers : \/ cached'[k] = 0
                                        \/ cached'[k] = cached[k] /\ (k \in crossed => k \in crossed')
      PROVE  DInv'
  <2>1. CachedLags'
    BY <1>1, <1>6, LagKept
  <2>2. AwaitsADay'
    BY <1>1, <1>6 DEF calls, AwaitsADay, Suspended
  <2> QED
    BY <1>1, <2>1, <2>2 DEF DInv
<1>7. CASE Tick
  BY <1>6, <1>7 DEF Tick
<1>8. ASSUME NEW C, Evict(C) PROVE DInv'
  BY <1>6, <1>8 DEF Evict, Drop
<1>9. ASSUME NEW t \in Tiers, InvalidateGroup(t) PROVE DInv'
  BY <1>6, <1>9 DEF InvalidateGroup, Drop
<1>10. CASE UNCHANGED vars
  BY <1>6, <1>10 DEF vars, calls
<1> QED
  BY <1>2, <1>3, <1>4, <1>5, <1>7, <1>8, <1>9, <1>10 DEF Next

LEMMA DayInvariance == Spec => []DInv
  BY InitDays, DaysStep, PTL DEF Spec

\* member_share_cap never falls below the member's own limit.
LEMMA ShareCapFloor ==
    ASSUME TypeOK, NEW t \in Tiers, Rpd[t] # None
    PROVE  ShareCap(Pool, t) \in Nat /\ ShareCap(Pool, t) >= Rpd[t]
<1> DEFINE portion == (ScopeRpd(Pool, t) * share) \div 100
<1>1. Rpd[t] \in Nat
  BY ChargeAssumption
<1>2. portion \in Nat
  <2>1. Cardinality(Pool) \in Nat
    BY ChargeAssumption, FS_Subset, FS_CardinalityType
  <2>2. share \in Nat
    BY ChargeAssumption DEF TypeOK
  <2>3. ScopeRpd(Pool, t) \in Nat
    BY <1>1, <2>1 DEF ScopeRpd
  <2>4. ScopeRpd(Pool, t) * share \in Nat
    BY <2>2, <2>3
  <2> QED
    BY <2>4
<1>3. ShareCap(Pool, t) = Max({Rpd[t], portion})
  BY DEF ShareCap
<1> HIDE DEF portion
<1>4. \E x \in {Rpd[t], portion} : \A y \in {Rpd[t], portion} : x >= y
  BY <1>1, <1>2
<1>5. ShareCap(Pool, t) \in {Rpd[t], portion} /\ \A y \in {Rpd[t], portion} : ShareCap(Pool, t) >= y
  BY <1>3, <1>4 DEF Max
<1> QED
  BY <1>1, <1>2, <1>5

\* An answer that reaches a limit has it reached.
LEMMA AnswerReaches ==
    ASSUME TypeOK, CachedLags, NEW S \in Scopes, NEW t \in Tiers, NEW n, Answer(S, t, n),
           NEW most \in Nat, n >= most
    PROVE  Reached(S, t, most)
<1>1. /\ n \in Nat /\ Used(S, t) \in Nat
      /\ n <= Used(S, t) \/ (<<S, t>> \in crossed' /\ n <= 2 * Used(S, t))
  BY AnswerLags
<1> QED
  BY <1>1 DEF Reached

Due(c) == LET S == Scope(caller[c]) t == tier[c] IN
    /\ at[c] = "scope" => Reached(S, t, ScopeRpd(S, t))
    /\ at[c] = "own" => Reached({caller[c]}, t, Rpd[t])

LEMMA ScopeDenialDue ==
    ASSUME DInv, NEW c \in Calls, NEW n, ScopeAnswered(c, n), at'[c] = "refused"
    PROVE  Due(c)
<1>1. TypeOK /\ Callers /\ CachedLags /\ at[c] = "scope"
  BY DEF DInv, IInv, ScopeAnswered
<1>2. PICK t \in Tiers : t = tier[c]
  BY <1>1, LockType
<1>3. PICK S \in Scopes : S = Scope(caller[c])
  BY <1>1, OwnScope
<1>4. Answer(S, t, n)
  BY <1>2, <1>3 DEF ScopeAnswered
<1>5. n \in Nat
  BY <1>1, <1>4, AnswerLags
<1>6. n >= ScopeRpd(S, t)
  BY <1>1, <1>2, <1>3 DEF ScopeAnswered, GrantAfterAwait, Grant, TypeOK
<1>7. ScopeRpd(S, t) \in Nat
  <2>1. Rpd[t] \in Nat
    BY <1>1, <1>2, ChargeAssumption DEF DInv, AwaitsADay, ScopeAnswered, Suspended
  <2>2. Cardinality(S) \in Nat
    BY ScopeType, ChargeAssumption, FS_Subset, FS_CardinalityType
  <2> QED
    BY <2>1, <2>2 DEF ScopeRpd
<1>8. Reached(S, t, ScopeRpd(S, t))
  BY <1>1, <1>4, <1>6, <1>7, AnswerReaches
<1> QED
  BY <1>1, <1>2, <1>3, <1>8 DEF Due

LEMMA OwnDenialDue ==
    ASSUME DInv, NEW c \in Calls, NEW n, OwnAnswered(c, n), at'[c] = "refused"
    PROVE  Due(c)
<1>1. TypeOK /\ Callers /\ CachedLags /\ at[c] = "own"
  BY DEF DInv, IInv, OwnAnswered
<1>2. PICK t \in Tiers : t = tier[c]
  BY <1>1, LockType
<1>3. PICK u \in Users : u = caller[c]
  BY <1>1, LockType
<1>4. Answer({u}, t, n) /\ {u} \in Scopes
  BY <1>2, <1>3 DEF OwnAnswered, Scopes
<1>5. n \in Nat
  BY <1>1, <1>4, AnswerLags
<1>6. n >= ShareCap(Pool, t)
  BY <1>1, <1>2 DEF OwnAnswered, GrantAfterAwait, Grant, TypeOK
<1>7. Rpd[t] # None /\ Rpd[t] \in Nat
  BY <1>2, ChargeAssumption DEF DInv, AwaitsADay, OwnAnswered, Suspended
<1>8. n >= Rpd[t]
  BY <1>1, <1>5, <1>6, <1>7, ShareCapFloor
<1>9. Reached({u}, t, Rpd[t])
  BY <1>1, <1>4, <1>7, <1>8, AnswerReaches
<1> QED
  BY <1>1, <1>2, <1>3, <1>9 DEF Due

LEMMA DenialStep ==
    ASSUME DInv, [Next]_vars, NEW c \in Calls, at[c] \in {"scope", "own"}, at'[c] = "refused"
    PROVE  Due(c)
<1>0. TypeOK /\ Suspended(c)
  BY DEF DInv, IInv, Suspended
<1>1. ~ UNCHANGED vars /\ ~ Tick /\ ~ (\E C : Evict(C)) /\ ~ (\E t \in Tiers : InvalidateGroup(t))
  BY DEF vars, calls, Tick, Evict, InvalidateGroup, Drop
<1>2. ASSUME NEW d \in Calls, NEW u \in Users, NEW t \in Tiers, Arrive(d, u, t) PROVE FALSE
  BY <1>0, <1>2 DEF Arrive, TypeOK
<1>3. ASSUME NEW d \in Calls, TakeLock(d) PROVE FALSE
  BY <1>0, <1>3 DEF TakeLock, DenyMinute, GrantAtOnce, Grant, Enter, GetsLock, TypeOK
<1>4. ASSUME NEW d \in Calls, NEW counts \in BOOLEAN, End(d, counts) PROVE FALSE
  BY <1>0, <1>4 DEF End, TypeOK
<1>5. PICK d \in Calls : Answered(d)
  BY <1>1, <1>2, <1>3, <1>4 DEF Next
<1>6. PICK n \in 0..(2 * MaxUsed * Cardinality(Users)) : ScopeAnswered(d, n) \/ OwnAnswered(d, n)
  BY <1>5 DEF Answered
<1>7. d = c
  BY <1>0, <1>6 DEF ScopeAnswered, OwnAnswered, DenyDay, GrantAfterAwait, Grant, TypeOK
<1> QED
  BY <1>6, <1>7, ScopeDenialDue, OwnDenialDue

(* A call refused for the day was refused on a limit reached: its scope's,  *)
(* or its own; a pool's member is never refused below their own limit while *)
(* the pool has room (check_group_limit, member_share_cap).  A count that a *)
(* flush crossed refuses early, but not before half of the limit is used.   *)
THEOREM DayDenials == Spec => DayDenialsAreDue
<1>1. DInv /\ [Next]_vars
      => [\A c \in Calls : at[c] \in {"scope", "own"} /\ at'[c] = "refused" => Due(c)]_vars
  BY DenialStep
<1>2. [\A c \in Calls : at[c] \in {"scope", "own"} /\ at'[c] = "refused" => Due(c)]_vars
      => [\A c \in Calls : LET S == Scope(caller[c]) t == tier[c] IN
            at'[c] = "refused"
               => /\ at[c] = "scope" => Reached(S, t, ScopeRpd(S, t))
                  /\ at[c] = "own" => Reached({caller[c]}, t, Rpd[t])]_vars
  BY DEF Due
<1> QED
  BY DayInvariance, <1>1, <1>2, PTL DEF Spec, DayDenialsAreDue

-----------------------------------------------------------------------------
(* PoolSettlement                                                          *)

(* One pass of apportion(): together they get what there is, each of them   *)
(* within one request of their part of it.                                  *)

Before(A, fraction, sent, u) == {v \in A : Settlement!Ahead(fraction, sent, v, u)}

Foremost(A, fraction, sent, n) == {u \in A : Cardinality(Before(A, fraction, sent, u)) < n}

\* Of the members, exactly n have fewer than n before them.
LEMMA Ranked ==
    ASSUME NEW A \in SUBSET Nat, IsFiniteSet(A), NEW fraction, \A u \in A : fraction[u] \in Nat,
           NEW sent, \A u \in A : sent[u] \in Nat, NEW n \in Nat
    PROVE  /\ IsFiniteSet(Foremost(A, fraction, sent, n))
           /\ Cardinality(Foremost(A, fraction, sent, n)) <= n
           /\ n <= Cardinality(A) => Cardinality(Foremost(A, fraction, sent, n)) = n
           /\ \A Z \in SUBSET A :
                 n <= Cardinality(A \ Z) /\ (\A u \in Z : \A v \in A \ Z : fraction[u] < fraction[v])
                    => Foremost(A, fraction, sent, n) \cap Z = {}
<1> DEFINE B(u) == Before(A, fraction, sent, u)
           place(u) == Cardinality(B(u))
           C == {u \in A : place(u) < n}
           D == A \ C
           f == [u \in C |-> place(u)]
           g == [u \in D |-> place(u)]
<1>1. \A u \in A : IsFiniteSet(B(u)) /\ place(u) \in Nat /\ place(u) < Cardinality(A)
  <2>1. \A u \in A : B(u) \in SUBSET (A \ {u})
    BY DEF Before, Settlement!Ahead
  <2> HIDE DEF B
  <2>2. Cardinality(A) \in Nat
    BY FS_CardinalityType
  <2>3. ASSUME NEW u \in A
        PROVE  IsFiniteSet(B(u)) /\ place(u) \in Nat /\ place(u) < Cardinality(A)
    <3>1. IsFiniteSet(A \ {u}) /\ Cardinality(A \ {u}) = Cardinality(A) - 1
      BY FS_RemoveElement
    <3>2. IsFiniteSet(B(u)) /\ place(u) <= Cardinality(A \ {u})
      BY <2>1, <3>1, FS_Subset
    <3>3. place(u) \in Nat
      BY <3>2, FS_CardinalityType
    <3> QED
      BY <2>2, <3>1, <3>2, <3>3
  <2> QED
    BY <2>3
<1>2. ASSUME NEW u \in A, NEW v \in A, Settlement!Ahead(fraction, sent, v, u) PROVE place(v) < place(u)
  <2>1. v \in B(u) /\ v \notin B(v)
    BY <1>2 DEF Before, Settlement!Ahead
  <2>2. ASSUME NEW x \in B(v) PROVE x \in B(u)
    <3>1. x \in A /\ Settlement!Ahead(fraction, sent, x, v)
      BY DEF Before
    <3>2. Settlement!Ahead(fraction, sent, x, u)
      BY <1>2, <3>1 DEF Settlement!Ahead
    <3> QED
      BY <3>1, <3>2 DEF Before
  <2> HIDE DEF B
  <2>3. B(v) \in SUBSET B(u) /\ B(v) # B(u)
    BY <2>1, <2>2
  <2>4. place(v) <= place(u) /\ place(v) # place(u)
    BY <1>1, <2>3, FS_Subset
  <2> QED
    BY <1>1, <2>4
<1>3. ASSUME NEW u \in A, NEW v \in A, u # v PROVE place(u) # place(v)
  <2>1. Settlement!Ahead(fraction, sent, u, v) \/ Settlement!Ahead(fraction, sent, v, u)
    BY <1>3 DEF Settlement!Ahead
  <2>2. place(u) \in Nat /\ place(v) \in Nat
    BY <1>1
  <2>3. place(u) < place(v) \/ place(v) < place(u)
    BY <1>2, <2>1
  <2> QED
    BY <2>2, <2>3
<1>z. ASSUME NEW Z \in SUBSET A, n <= Cardinality(A \ Z), \A u \in Z : \A v \in A \ Z : fraction[u] < fraction[v]
      PROVE  C \cap Z = {}
  <2> SUFFICES ASSUME NEW u \in Z PROVE ~ (place(u) < n)
    OBVIOUS
  <2>1. A \ Z \in SUBSET B(u)
    BY <1>z DEF Before, Settlement!Ahead
  <2> HIDE DEF B
  <2>2. IsFiniteSet(B(u)) /\ place(u) \in Nat /\ IsFiniteSet(A \ Z)
    BY <1>1, FS_Subset
  <2>3. Cardinality(A \ Z) <= place(u) /\ Cardinality(A \ Z) \in Nat
    BY <2>1, <2>2, FS_Subset, FS_CardinalityType
  <2> QED
    BY <1>z, <2>2, <2>3
<1> HIDE DEF B, place
<1>4. f \in Injection(C, 0..(n - 1))
  <2>1. \A u \in C : place(u) \in 0..(n - 1)
    BY <1>1
  <2>2. f \in [C -> 0..(n - 1)]
    BY <2>1
  <2>3. \A u, v \in C : f[u] = f[v] => u = v
    BY <1>3
  <2> HIDE DEF f, C
  <2> QED
    BY <2>2, <2>3 DEF Injection, IsInjective
<1>5. IsFiniteSet(0..(n - 1)) /\ Cardinality(0..(n - 1)) = n
  <2>1. IsFiniteSet(0..(n - 1)) /\ Cardinality(0..(n - 1)) = IF 0 > n - 1 THEN 0 ELSE (n - 1) - 0 + 1
    BY FS_Interval
  <2> QED
    BY <2>1
<1>6. IsFiniteSet(C) /\ Cardinality(C) <= n
  <2> HIDE DEF f, C
  <2> QED
    BY <1>4, <1>5, FS_Injection
<1>7. ASSUME n <= Cardinality(A) PROVE Cardinality(C) = n
  <2> DEFINE m == Cardinality(A)
  <2>0. m \in Nat
    BY FS_CardinalityType
  <2>1. \A u \in A : place(u) \in Nat /\ place(u) < m
    BY <1>1
  <2> HIDE DEF m
  <2>2. \A u \in D : place(u) \in n..(m - 1)
    BY <2>0, <2>1
  <2>3. g \in [D -> n..(m - 1)]
    BY <2>2
  <2>4. \A u, v \in D : g[u] = g[v] => u = v
    BY <1>3
  <2>5. IsFiniteSet(n..(m - 1)) /\ Cardinality(n..(m - 1)) = m - n
    <3>1. IsFiniteSet(n..(m - 1)) /\ Cardinality(n..(m - 1)) = IF n > m - 1 THEN 0 ELSE (m - 1) - n + 1
      BY <2>0, FS_Interval
    <3>2. n <= m
      BY <1>7 DEF m
    <3> QED
      BY <2>0, <3>1, <3>2
  <2>6. C \in SUBSET A /\ A \ D = C
    OBVIOUS
  <2> HIDE DEF g, D, C
  <2>7. IsFiniteSet(D) /\ Cardinality(D) <= m - n
    <3>1. g \in Injection(D, n..(m - 1))
      BY <2>3, <2>4 DEF Injection, IsInjective
    <3> QED
      BY <2>5, <3>1, FS_Injection
  <2>8. Cardinality(D) = m - Cardinality(C)
    <3>1. A \cap C = C
      BY <2>6
    <3> QED
      BY <3>1, FS_Difference DEF D, m
  <2>9. Cardinality(C) \in Nat
    BY <1>6, FS_CardinalityType
  <2> QED
    BY <1>6, <2>0, <2>7, <2>8, <2>9
<1>8. C = Foremost(A, fraction, sent, n)
  BY DEF C, place, B, Foremost
<1> HIDE DEF f, C
<1>9. \A Z \in SUBSET A :
         n <= Cardinality(A \ Z) /\ (\A u \in Z : \A v \in A \ Z : fraction[u] < fraction[v])
            => C \cap Z = {}
  BY <1>z
<1> QED
  BY Zenon, <1>6, <1>7, <1>8, <1>9

LEMMA Division ==
    ASSUME NEW a \in Nat, NEW W \in Nat, W # 0
    PROVE  a \div W \in Nat /\ W * (a \div W) + (a % W) = a /\ a % W \in Nat /\ a % W < W
OBVIOUS

LEMMA Cancels ==
    ASSUME NEW W \in Nat, W # 0, NEW x \in Int, NEW y \in Int, W * x <= W * y
    PROVE  x <= y
<1> SUFFICES ASSUME y < x PROVE FALSE
  OBVIOUS
<1>1. x - y >= 1 /\ W >= 1 /\ x - y \in Nat
  OBVIOUS
<1>2. W * (x - y) = W * x - W * y
  OBVIOUS
<1>3. W * (x - y) >= 1
  BY <1>1
<1> QED
  BY <1>2, <1>3

\* All that there is is split, everyone within one request of their part of it, and nothing without
\* weight: there are never more requests left over than members who have a remainder.
LEMMA PassShares ==
    ASSUME NEW M \in SUBSET Nat, IsFiniteSet(M), NEW A \in SUBSET M, NEW R \in Nat,
           NEW w \in [M -> Nat], Sum(w, A) # 0, NEW sent, \A u \in M : sent[u] \in Nat
    PROVE  LET s == Settlement!Pass(A, R, w, sent)
               W == Sum(w, A)
           IN  /\ s \in [A -> Nat] /\ Sum(s, A) = R
               /\ \A u \in A : /\ W * s[u] < R * w[u] + W /\ R * w[u] < W * s[u] + W
                               /\ w[u] = 0 => s[u] = 0
<1> DEFINE W == Sum(w, A)
           floor == [u \in A |-> (R * w[u]) \div W]
           fraction == [u \in A |-> (R * w[u]) % W]
           leftover == R - Sum(floor, A)
           C == Foremost(A, fraction, sent, leftover)
           s == [u \in A |-> IF u \in C THEN floor[u] + 1 ELSE floor[u]]
<1>a. IsFiniteSet(A)
  BY FS_Subset
<1>0. IsFiniteSet(A) /\ A \in SUBSET Nat /\ A \in SUBSET A /\ w \in [M -> Int]
  BY <1>a
<1>1. W \in Nat /\ W # 0
  BY SumParts
<1>2. Settlement!Pass(A, R, w, sent) = s
  BY Zenon DEF Settlement!Pass, Before, Foremost, Sum, Settlement!SumFunction,
     Settlement!Cardinality, Cardinality
<1> HIDE DEF W
<1>3. \A u \in A : R * w[u] \in Nat
  OBVIOUS
<1>4. ASSUME NEW u \in A
      PROVE  /\ floor[u] \in Nat /\ fraction[u] \in Nat /\ fraction[u] < W
             /\ W * floor[u] + fraction[u] = R * w[u]
  <2> DEFINE a == R * w[u]
  <2>1. a \in Nat
    BY <1>3
  <2>2. floor[u] = a \div W /\ fraction[u] = a % W
    OBVIOUS
  <2> HIDE DEF a
  <2>3. a \div W \in Nat /\ W * (a \div W) + (a % W) = a /\ a % W \in Nat /\ a % W < W
    BY <1>1, <2>1, Division
  <2> HIDE DEF floor, fraction
  <2> QED
    BY <2>2, <2>3 DEF a
<1>5. floor \in [A -> Nat] /\ floor \in [A -> Int] /\ fraction \in [A -> Nat] /\ fraction \in [A -> Int]
  BY <1>4
<1> HIDE DEF floor, fraction
<1>6. Sum(floor, A) \in Nat /\ Sum(fraction, A) \in Nat /\ R * W = W * Sum(floor, A) + Sum(fraction, A)
  <2> DEFINE up == [u \in A |-> W * floor[u]]
             wA == [u \in A |-> w[u]]
             due == [u \in A |-> R * wA[u]]
  <2>1. Sum(floor, A) \in Nat /\ Sum(fraction, A) \in Nat
    BY <1>0, <1>5, SumParts
  <2>2. wA \in [A -> Int] /\ \A u \in A : wA[u] = w[u]
    OBVIOUS
  <2>3. up \in [A -> Int] /\ due \in [A -> Int] /\ \A u \in A : due[u] = up[u] + fraction[u]
    <3>1. \A u \in A : up[u] = W * floor[u] /\ due[u] = R * w[u]
      OBVIOUS
    <3>2. \A u \in A : W * floor[u] \in Int /\ R * w[u] \in Int
      BY <1>1, <1>3, <1>5
    <3> QED
      BY <1>4, <3>1, <3>2
  <2>4. Sum(up, A) = W * Sum(floor, A)
    <3>1. W \in Int /\ \A u \in A : up[u] = W * floor[u]
      BY <1>1
    <3>2. Scaled(floor, up, A, W)
      BY <1>5, <2>3, <3>1 DEF Scaled
    <3> HIDE DEF up
    <3> QED
      BY <1>0, <3>2, SumScaled
  <2>5. Sum(wA, A) = W
    <3> HIDE DEF wA
    <3>0. Alike(w, M, wA, A, A)
      BY <1>0, <2>2 DEF Alike
    <3>1. Sum(w, A) = Sum(wA, A)
      BY <1>0, <3>0, SumSame
    <3> QED
      BY <3>1 DEF W
  <2>6. Sum(due, A) = R * W
    <3>0. R \in Int /\ \A u \in A : due[u] = R * wA[u]
      OBVIOUS
    <3>a. Scaled(wA, due, A, R)
      BY <2>2, <2>3, <3>0 DEF Scaled
    <3> HIDE DEF wA, due
    <3>1. Sum(due, A) = R * Sum(wA, A)
      BY <1>0, <3>a, SumScaled
    <3> QED
      BY <2>5, <3>1
  <2> HIDE DEF up, due, wA
  <2>7. Together(up, fraction, due, A)
    BY <1>5, <2>3 DEF Together
  <2>8. Sum(due, A) = Sum(up, A) + Sum(fraction, A)
    BY <1>0, <2>7, SumTogether
  <2> QED
    BY <2>1, <2>4, <2>6, <2>8
<1>7. leftover \in Nat /\ Sum(fraction, A) = W * leftover
  <2> DEFINE x == Sum(floor, A)
             y == Sum(fraction, A)
  <2>1. x \in Nat /\ y \in Nat /\ R * W = W * x + y
    BY <1>6
  <2> HIDE DEF x, y
  <2>2. R * W = W * R /\ W * R - W * x = W * (R - x)
    BY <1>1, <2>1
  <2>3. W * x <= W * R
    BY <1>1, <2>1, <2>2
  <2>4. x <= R
    BY <1>1, <2>1, <2>3, Cancels
  <2>5. y = W * (R - x)
    BY <1>1, <2>1, <2>2
  <2> QED
    BY <2>1, <2>4, <2>5 DEF x, y
<1> DEFINE Z == {u \in A : fraction[u] = 0}
<1>8. Z \in SUBSET A /\ IsFiniteSet(A \ Z) /\ Cardinality(A \ Z) \in Nat /\ Cardinality(A) \in Nat
      /\ Cardinality(A \ Z) <= Cardinality(A)
  BY <1>0, FS_Subset, FS_CardinalityType
<1> HIDE DEF leftover
<1>9. leftover <= Cardinality(A \ Z)
  <2>1. \A u \in A : fraction[u] <= IF u \in A \ Z THEN W ELSE 0
    BY <1>1, <1>4
  <2>2. A \ Z \in SUBSET A /\ W \in Int
    BY <1>1
  <2> DEFINE P == A \ Z
  <2> HIDE DEF P
  <2>3. Sum(fraction, A) <= W * Cardinality(P)
    BY <1>0, <1>5, <2>1, <2>2, SumAtMost DEF P
  <2> QED
    BY <1>1, <1>7, <1>8, <2>3, Cancels DEF P
<1>10. C \in SUBSET A /\ IsFiniteSet(C) /\ Cardinality(C) = leftover /\ C \cap Z = {}
  <2>1. \A u \in A : sent[u] \in Nat /\ fraction[u] \in Nat
    BY <1>5
  <2>2. C \in SUBSET A
    BY DEF Foremost
  <2>3. \A u \in Z : \A v \in A \ Z : fraction[u] < fraction[v]
    BY <2>1
  <2>4. leftover <= Cardinality(A)
    BY <1>7, <1>8, <1>9
  <2> HIDE DEF Z
  <2> QED
    BY <1>0, <1>7, <1>8, <1>9, <2>1, <2>2, <2>3, <2>4, Ranked
<1> HIDE DEF C
<1>11. s \in [A -> Nat] /\ s \in [A -> Int]
  BY <1>5
<1>12. \A u \in A : s[u] = IF u \in C THEN floor[u] + 1 ELSE floor[u]
  OBVIOUS
<1> HIDE DEF s
<1>13. Sum(s, A) = R
  <2>1. OneMore(floor, s, A, C)
    BY <1>5, <1>10, <1>11, <1>12 DEF OneMore
  <2>2. Sum(s, A) = Sum(floor, A) + Cardinality(A \cap C)
    BY <1>0, <2>1, SumOneMore
  <2>3. A \cap C = C
    BY <1>10
  <2> QED
    BY <1>6, <1>10, <2>2, <2>3 DEF leftover
<1>14. ASSUME NEW u \in A
       PROVE  /\ W * s[u] < R * w[u] + W /\ R * w[u] < W * s[u] + W
              /\ w[u] = 0 => s[u] = 0
  <2> DEFINE x == floor[u]
             y == fraction[u]
             z == w[u]
  <2>1. x \in Nat /\ y \in Nat /\ y < W /\ W * x + y = R * z /\ z \in Nat
    BY <1>4
  <2>2. u \in C => y # 0
    BY <1>10
  <2>3. s[u] = IF u \in C THEN x + 1 ELSE x
    BY <1>12
  <2> HIDE DEF x, y, z
  <2>4. W * (x + 1) = W * x + W
    BY <1>1, <2>1
  <2>5. W * s[u] < R * z + W /\ R * z < W * s[u] + W
    BY <1>1, <2>1, <2>2, <2>3, <2>4
  <2>6. z = 0 => s[u] = 0
    <3> SUFFICES ASSUME z = 0 PROVE s[u] = 0
      OBVIOUS
    <3>1. R * z = 0
      OBVIOUS
    <3>2. W * x \in Nat
      BY <1>1, <2>1
    <3>3. y = 0 /\ W * x <= W * 0
      BY <1>1, <2>1, <3>1, <3>2
    <3>4. x <= 0
      BY <1>1, <2>1, <3>3, Cancels
    <3> QED
      BY <2>1, <2>2, <2>3, <3>3, <3>4
  <2> QED
    BY <2>5, <2>6 DEF z
<1> QED
  BY <1>2, <1>11, <1>13, <1>14 DEF W

-----------------------------------------------------------------------------
(* apportion(): what is called shares there is a function that calls itself *)
(* on the members nobody has pinned yet; it exists, and what is left for    *)
(* them never falls below nothing.                                          *)

Total(delta) == IF delta < 0 THEN -delta ELSE delta

RoomFor(delta, M, w, charge) ==
    [u \in M |-> IF delta < 0 THEN charge[u] ELSE Settlement!Max0(w[u] - charge[u])]

OrPinned(M, room, A, s) == [u \in M |-> IF u \in A THEN s[u] ELSE room[u]]

Left(total, M, room, A) == total - Sum(room, M \ A)

Split(total, M, room, w, A) == Settlement!Pass(A, Left(total, M, room, A), w, rows)

Over(total, M, room, w, A) ==
    {u \in A : Split(total, M, room, w, A)[u] > room[u]}

\* h is what Apportion calls shares.
Shares(h, total, M, room, w) ==
    h = [A \in SUBSET M |->
            IF Sum(w, A) = 0 THEN OrPinned(M, room, A, Settlement!Zero)
            ELSE IF Over(total, M, room, w, A) = {}
                 THEN OrPinned(M, room, A, Split(total, M, room, w, A))
                 ELSE h[A \ Over(total, M, room, w, A)]]

LEMMA SharesExist ==
    ASSUME NEW M, IsFiniteSet(M), NEW total, NEW room, NEW w
    PROVE  \E h : Shares(h, total, M, room, w)
<1> DEFINE over(A) == Over(total, M, room, w, A)
           stop(A) == Sum(w, A) = 0 \/ over(A) = {}
           end(A) == IF Sum(w, A) = 0 THEN OrPinned(M, room, A, Settlement!Zero)
                     ELSE OrPinned(M, room, A, Split(total, M, room, w, A))
           V == {end(A) : A \in SUBSET M}
           Stops == {A \in SUBSET M : stop(A)}
           base == [A \in SUBSET M |-> end(A)]
           next == [A \in SUBSET M |-> A \ over(A)]
           comb == [q \in (SUBSET M) \X V |-> q[2]]
<1>0. \A A : over(A) \subseteq A
  BY DEF Over
<1> HIDE DEF over, end
<1>1. base \in [SUBSET M -> V] /\ next \in [SUBSET M -> SUBSET M] /\ comb \in [(SUBSET M) \X V -> V]
  <2>1. \A A \in SUBSET M : end(A) \in V
    OBVIOUS
  <2>2. base \in [SUBSET M -> V]
    BY <2>1
  <2>3. next \in [SUBSET M -> SUBSET M]
    OBVIOUS
  <2> HIDE DEF V
  <2>4. comb \in [(SUBSET M) \X V -> V]
    OBVIOUS
  <2> QED
    BY <2>2, <2>3, <2>4
<1>2. \A A \in SUBSET M : A \notin Stops => next[A] \subseteq A /\ next[A] # A
  BY <1>0
<1> HIDE DEF V, Stops, base, next, comb
<1>3. PICK h \in [SUBSET M -> V] : Solves(h, M, Stops, base, next, comb)
  BY <1>1, <1>2, Recursion
<1>4. ASSUME NEW A \in SUBSET M
      PROVE  h[A] = IF Sum(w, A) = 0 THEN OrPinned(M, room, A, Settlement!Zero)
                    ELSE IF over(A) = {}
                         THEN OrPinned(M, room, A, Split(total, M, room, w, A))
                         ELSE h[A \ over(A)]
  <2>1. h[A] = IF A \in Stops THEN base[A] ELSE comb[<<A, h[next[A]]>>]
    BY <1>3 DEF Solves
  <2>2. /\ A \in Stops <=> Sum(w, A) = 0 \/ over(A) = {}
        /\ base[A] = end(A) /\ next[A] = A \ over(A)
    BY DEF Stops, base, next
  <2>3. A \ over(A) \in SUBSET M
    BY <1>0
  <2> DEFINE v == h[A \ over(A)]
  <2>4. v \in V
    BY <2>3
  <2> HIDE DEF v
  <2>5. comb[<<A, v>>] = v
    BY <2>4 DEF comb
  <2>6. h[A] = IF A \in Stops THEN end(A) ELSE v
    BY <2>1, <2>2, <2>5 DEF v
  <2>7. CASE Sum(w, A) = 0
    BY <2>2, <2>6, <2>7 DEF end
  <2>8. CASE Sum(w, A) # 0 /\ over(A) = {}
    BY <2>2, <2>6, <2>8 DEF end
  <2>9. CASE Sum(w, A) # 0 /\ over(A) # {}
    BY <2>2, <2>6, <2>9 DEF v
  <2> QED
    BY <2>7, <2>8, <2>9
<1>5. Shares(h, total, M, room, w)
  <2>1. h = [A \in SUBSET M |-> h[A]]
    OBVIOUS
  <2> QED
    BY Zenon, <1>4, <2>1 DEF Shares, over
<1> QED
  BY <1>5

Pins(C, A, D, f) == IsFiniteSet(D) /\ f \in [D -> Nat] /\ A \subseteq D /\ C \subseteq A

\* Whoever is pinned takes all of their room.
LEMMA SumPinned ==
    ASSUME NEW D, NEW f, NEW A, NEW C, Pins(C, A, D, f)
    PROVE  Sum(f, D \ (A \ C)) = Sum(f, D \ A) + Sum(f, C)
<1> USE DEF Pins
<1> DEFINE big == D \ (A \ C)
           small == D \ A
<1>1. Within(small, big, D) /\ big \ small = C
  BY DEF Within
<1>2. f \in [D -> Int]
  OBVIOUS
<1> HIDE DEF big, small
<1>3. Sum(f, big) = Sum(f, small) + Sum(f, big \ small)
  BY <1>1, <1>2, SumSplit
<1> QED
  BY <1>1, <1>3 DEF big, small

LEMMA SumUnpinned ==
    ASSUME NEW D, NEW f, NEW A, NEW C, Pins(C, A, D, f)
    PROVE  Sum(f, A) = Sum(f, C) + Sum(f, A \ C)
<1>1. f \in [D -> Int] /\ IsFiniteSet(D) /\ Within(C, A, D)
  BY DEF Pins, Within
<1> QED
  BY <1>1, SumSplit

\* A pass that pins members leaves the others something to split, or nothing.
LEMMA PinningLeaves ==
    ASSUME NEW M \in SUBSET Nat, IsFiniteSet(M), NEW total \in Nat, NEW room \in [M -> Nat],
           NEW w \in [M -> Nat], \A u \in M : rows[u] \in Nat,
           NEW A \in SUBSET M, Left(total, M, room, A) >= 0, Sum(w, A) # 0
    PROVE  /\ Split(total, M, room, w, A) \in [A -> Nat]
           /\ \A u \in A : Split(total, M, room, w, A)[u] <= total
           /\ Left(total, M, room, A \ Over(total, M, room, w, A)) >= 0
<1> DEFINE R == Left(total, M, room, A)
           s == Split(total, M, room, w, A)
           over == Over(total, M, room, w, A)
<1>0. IsFiniteSet(A) /\ A \in SUBSET A /\ room \in [M -> Int]
  <2>1. IsFiniteSet(A)
    BY FS_Subset
  <2> QED
    BY <2>1
<1>1. Sum(room, M \ A) \in Nat
  <2>1. M \ A \in SUBSET M
    OBVIOUS
  <2> QED
    BY <2>1, SumParts
<1>2. R \in Nat /\ R <= total
  BY <1>1 DEF Left
<1>3. s \in [A -> Nat] /\ Sum(s, A) = R
  <2> HIDE DEF R
  <2>1. PICK r : r = R
    OBVIOUS
  <2>2. PICK sent : sent = rows
    OBVIOUS
  <2>3. r \in Nat /\ \A u \in M : sent[u] \in Nat
    BY <1>2, <2>1, <2>2
  <2> DEFINE t == Settlement!Pass(A, r, w, sent)
  <2>4. t \in [A -> Nat] /\ Sum(t, A) = r
    BY <2>3, PassShares
  <2>5. s = t
    BY <2>1, <2>2 DEF Split, R
  <2> HIDE DEF s, t
  <2> QED
    BY <2>1, <2>4, <2>5
<1>4. over \in SUBSET A /\ \A u \in over : room[u] <= s[u]
  <2>1. \A u \in over : u \in A /\ s[u] > room[u] /\ s[u] \in Nat /\ room[u] \in Nat
    BY <1>3 DEF Over
  <2> QED
    BY <2>1
<1> HIDE DEF s, over, R
<1>5. PICK t : t = s
  OBVIOUS
<1>6. PICK o : o = over
  OBVIOUS
<1>7. /\ t \in [A -> Nat] /\ t \in [A -> Int] /\ Sum(t, A) = R
      /\ o \in SUBSET A /\ o \in SUBSET M /\ \A u \in o : room[u] <= t[u]
  BY <1>3, <1>4, <1>5, <1>6
<1>8. Sum(t, A) \in Nat /\ Sum(t, o) <= Sum(t, A) /\ \A u \in A : t[u] <= Sum(t, A)
  BY <1>0, <1>7, SumParts
<1>9. \A u \in A : t[u] <= total
  <2> TAKE u \in A
  <2>1. t[u] \in Nat /\ t[u] <= Sum(t, A)
    BY <1>7, <1>8
  <2> QED
    BY <1>2, <1>7, <1>8, <2>1
<1>10. Sum(room, o) <= Sum(t, o)
  <2> DEFINE g == [u \in A |-> room[u]]
  <2>1. g \in [A -> Int] /\ \A u \in A : g[u] = room[u]
    BY <1>0
  <2> HIDE DEF g
  <2>2. Alike(room, M, g, A, o)
    BY <1>0, <1>7, <2>1 DEF Alike
  <2>3. Sum(room, o) = Sum(g, o)
    BY <1>0, <2>2, SumSame
  <2>4. \A u \in o : g[u] <= t[u]
    BY <1>7, <2>1
  <2>5. Sum(g, o) <= Sum(t, o)
    BY <1>0, <1>7, <2>1, <2>4, SumLe
  <2> QED
    BY <2>3, <2>5
<1>11. Sum(room, M \ (A \ o)) = Sum(room, M \ A) + Sum(room, o)
  <2>1. Pins(o, A, M, room)
    BY <1>7 DEF Pins
  <2> QED
    BY <2>1, SumPinned
<1>12. Sum(room, o) \in Nat /\ Sum(t, o) \in Nat
  BY <1>0, <1>7, SumParts
<1>13. Left(total, M, room, A \ o) = R - Sum(room, o)
  BY <1>1, <1>11, <1>12 DEF Left, R
<1>14. Left(total, M, room, A \ o) >= 0
  BY <1>2, <1>7, <1>8, <1>10, <1>12, <1>13
<1> QED
  BY <1>5, <1>6, <1>7, <1>9, <1>14 DEF s, over

\* Nobody takes more than their room, nor more than there is.
LEMMA SharesFit ==
    ASSUME NEW M \in SUBSET Nat, IsFiniteSet(M), M \subseteq People,
           NEW total \in Nat, NEW room \in [M -> Nat], NEW w \in [M -> Nat],
           \A u \in M : rows[u] \in Nat,
           NEW h, Shares(h, total, M, room, w), NEW u \in M
    PROVE  h[M][u] \in 0..room[u] /\ h[M][u] <= total
<1> DEFINE left(A) == Left(total, M, room, A)
           split(A) == Split(total, M, room, w, A)
           over(A) == Over(total, M, room, w, A)
           good(A) == left(A) >= 0 => \A v \in M : h[A][v] \in 0..room[v] /\ h[A][v] <= total
           Bad == {A \in SUBSET M : ~ good(A)}
<1>1. \A A \in SUBSET M :
          h[A] = IF Sum(w, A) = 0 THEN OrPinned(M, room, A, Settlement!Zero)
                 ELSE IF over(A) = {} THEN OrPinned(M, room, A, split(A))
                 ELSE h[A \ over(A)]
  BY Zenon DEF Shares
<1>2. ASSUME NEW A \in SUBSET M, left(A) >= 0, NEW v \in M, v \notin A
      PROVE  room[v] <= total
  <2>1. M \ A \in SUBSET M /\ v \in M \ A
    BY <1>2
  <2>2. Sum(room, M \ A) \in Nat /\ room[v] <= Sum(room, M \ A)
    BY <2>1, SumParts
  <2> QED
    BY <1>2, <2>2 DEF Left
<1>3. Bad = {}
  <2>1. SUFFICES ASSUME Bad # {} PROVE FALSE
    OBVIOUS
  <2>2. Bad \in Families(M)
    BY DEF Families
  <2> HIDE DEF Bad
  <2>a. PICK bad : bad = Bad
    OBVIOUS
  <2>3. PICK A \in Bad : \A r \in Bad : ~ (r \subseteq A /\ r # A)
    BY <2>1, <2>2, <2>a, Smallest
  <2>4. A \in SUBSET M /\ left(A) >= 0 /\ ~ good(A)
    BY DEF Bad
  <2> HIDE DEF left, split, over
  <2>5. CASE Sum(w, A) = 0
    <3>1. h[A] = OrPinned(M, room, A, Settlement!Zero)
      BY <1>1, <2>4, <2>5
    <3>2. ASSUME NEW v \in M PROVE h[A][v] \in 0..room[v] /\ h[A][v] <= total
      <4>1. h[A][v] = IF v \in A THEN 0 ELSE room[v]
        BY <3>1 DEF OrPinned, Settlement!Zero
      <4>2. room[v] \in Nat
        OBVIOUS
      <4>3. v \notin A => room[v] <= total
        BY <1>2, <2>4
      <4> QED
        BY <4>1, <4>2, <4>3
    <3> QED
      BY <2>4, <3>2
  <2>6. CASE Sum(w, A) # 0
    <3>1. /\ split(A) \in [A -> Nat]
          /\ \A v \in A : split(A)[v] <= total
          /\ left(A \ over(A)) >= 0
      BY <2>4, <2>6, PinningLeaves DEF left, split, over
    <3>2. over(A) = {v \in A : split(A)[v] > room[v]}
      BY Zenon DEF over, Over, split
    <3>3. CASE over(A) = {}
      <4>1. h[A] = OrPinned(M, room, A, split(A))
        BY <1>1, <2>4, <2>6, <3>3
      <4>2. ASSUME NEW v \in M PROVE h[A][v] \in 0..room[v] /\ h[A][v] <= total
        <5>1. h[A][v] = IF v \in A THEN split(A)[v] ELSE room[v]
          BY <4>1 DEF OrPinned
        <5>2. room[v] \in Nat
          OBVIOUS
        <5>3. CASE v \in A
          <6>1. split(A)[v] \in Nat /\ split(A)[v] <= total /\ ~ (split(A)[v] > room[v])
            BY <3>1, <3>2, <3>3, <5>3
          <6> QED
            BY <5>1, <5>2, <5>3, <6>1
        <5>4. CASE v \notin A
          <6>1. room[v] <= total
            BY <1>2, <2>4, <5>4
          <6> QED
            BY <5>1, <5>2, <5>4, <6>1
        <5> QED
          BY <5>3, <5>4
      <4> QED
        BY <2>4, <4>2
    <3>4. CASE over(A) # {}
      <4> DEFINE B == A \ over(A)
      <4>1. B \in SUBSET M /\ B \subseteq A /\ B # A
        BY <2>4, <3>2, <3>4
      <4>2. h[A] = h[B]
        BY <1>1, <2>4, <2>6, <3>4
      <4>3. good(B)
        <5> HIDE DEF B
        <5>1. B \notin Bad
          BY <2>3, <4>1
        <5> QED
          BY <4>1, <5>1 DEF Bad
      <4> QED
        BY <2>4, <3>1, <4>2, <4>3
    <3> QED
      BY <3>3, <3>4
  <2> QED
    BY <2>5, <2>6
<1>4. left(M) = total
  <2>1. M \ M = {}
    OBVIOUS
  <2>2. room \in [M -> Int]
    OBVIOUS
  <2>3. Sum(room, {}) = 0
    BY <2>2, SumTake
  <2> QED
    BY <2>1, <2>3 DEF Left
<1>5. M \in SUBSET M /\ M \notin Bad
  BY <1>3
<1>6. good(M)
  BY <1>5
<1> QED
  BY <1>4, <1>6

\* apportion(): what is charged is no more than there is nor than there is room for,
\* and what is refunded no more than was charged.
LEMMA ApportionFits ==
    ASSUME NEW M \in SUBSET Nat, IsFiniteSet(M), M \subseteq People, NEW delta \in Int,
           NEW w \in [M -> Nat], NEW charge, \A u \in M : charge[u] \in Nat,
           \A u \in M : rows[u] \in Nat, NEW u \in M
    PROVE  LET x == Settlement!Apportion(delta, M, w, charge)[u]
           IN  /\ x \in Int
               /\ delta >= 0 => 0 <= x /\ x <= delta
               /\ delta < 0 => -x \in 0..charge[u]
<1> DEFINE total == Total(delta)
           room == RoomFor(delta, M, w, charge)
           h == CHOOSE k : Shares(k, total, M, room, w)
           x == Settlement!Apportion(delta, M, w, charge)[u]
<1>1. total \in Nat /\ room \in [M -> Nat]
  <2>1. total \in Nat
    BY DEF Total
  <2>2. \A v \in M : w[v] \in Nat /\ charge[v] \in Nat
    OBVIOUS
  <2>3. \A v \in M : (IF delta < 0 THEN charge[v] ELSE Settlement!Max0(w[v] - charge[v])) \in Nat
    BY <2>2 DEF Settlement!Max0
  <2> QED
    BY <2>1, <2>3 DEF RoomFor
<1>2. Settlement!Apportion(delta, M, w, charge) = [v \in M |-> IF delta < 0 THEN -(h[M][v]) ELSE h[M][v]]
  BY Zenon DEF Settlement!Apportion, Shares, OrPinned, Left, Split, Over, Sum, Total, RoomFor
<1>3. room[u] = IF delta < 0 THEN charge[u] ELSE Settlement!Max0(w[u] - charge[u])
  BY DEF RoomFor
<1> HIDE DEF total, room
<1>4. Shares(h, total, M, room, w)
  <2>1. \E k : Shares(k, total, M, room, w)
    BY SharesExist
  <2> QED
    BY Zenon, <2>1
<1> HIDE DEF h
<1>5. h[M][u] \in 0..room[u] /\ h[M][u] <= total
  BY <1>1, <1>4, SharesFit
<1>6. x = IF delta < 0 THEN -(h[M][u]) ELSE h[M][u]
  BY <1>2
<1> HIDE DEF x
<1>7. room[u] \in Nat
  BY <1>1
<1>8. CASE delta < 0
  BY <1>3, <1>5, <1>6, <1>7, <1>8 DEF x
<1>9. CASE ~ (delta < 0)
  BY <1>5, <1>6, <1>7, <1>9 DEF total, Total, x
<1> QED
  BY <1>8, <1>9

-----------------------------------------------------------------------------
(* Whom a pass pins has room for no more than their part of what it split,  *)
(* so pinning leaves the others no less for their weight than they had      *)
(* (EvenStays).  In the end those pinned have no more than their part, and  *)
(* those with room left are within one request of theirs: the shares are in *)
(* proportion; and they are all there is, or all there is room for (Dealt). *)

LEMMA TimesLe ==
    ASSUME NEW a \in Int, NEW b \in Int, a <= b, NEW c \in Nat
    PROVE  a * c <= b * c
<1>1. b - a \in Nat
  OBVIOUS
<1>2. (b - a) * c \in Nat /\ (b - a) * c = b * c - a * c
  BY <1>1
<1> QED
  BY <1>2

LEMMA TimesLess ==
    ASSUME NEW a \in Int, NEW b \in Int, a < b, NEW c \in Nat, c # 0
    PROVE  a * c < b * c
<1>1. (a + 1) * c <= b * c
  BY TimesLe
<1>2. (a + 1) * c = a * c + c
  OBVIOUS
<1> QED
  BY <1>1, <1>2

\* If x for i is no more than R for W, and R for W no more than r for v, x for i is no more than r for v.
LEMMA RateRises ==
    ASSUME NEW x \in Nat, NEW i \in Nat, NEW R \in Nat, NEW W \in Nat, W # 0, NEW r \in Nat, NEW v \in Nat,
           x * W <= R * i, R * v <= W * r
    PROVE  x * v <= r * i
<1>1. (x * W) * v <= (R * i) * v
  BY TimesLe
<1>2. (R * v) * i <= (W * r) * i
  BY TimesLe
<1>3. (x * W) * v = W * (x * v) /\ (R * i) * v = (R * v) * i /\ (W * r) * i = W * (r * i)
  OBVIOUS
<1>4. W * (x * v) <= W * (r * i)
  BY <1>1, <1>2, <1>3
<1> QED
  BY <1>4, Cancels

\* Two members x and y whose shares are within one of their part of R for W are within one of each other.
LEMMA Close ==
    ASSUME NEW x \in Nat, NEW y \in Nat, NEW i \in Nat, NEW j \in Nat, NEW R \in Nat, NEW W \in Nat, W # 0,
           W * x < R * i + W, R * j < W * y + W, i + j > 0
    PROVE  x * j < y * i + i + j
<1> DEFINE a == W * x
           b == W * y
           p == R * i
           q == R * j
<1>1. a \in Nat /\ b \in Nat /\ p \in Nat /\ q \in Nat
  OBVIOUS
<1>2. a * j = W * (x * j) /\ b * i = W * (y * i) /\ p * j = q * i
  OBVIOUS
<1>3. (p + W) * j = p * j + W * j /\ (b + W) * i = b * i + W * i
  BY <1>1
<1> HIDE DEF a, b, p, q
<1>4. a * j <= (p + W) * j /\ (j # 0 => a * j < (p + W) * j)
  BY <1>1, TimesLe, TimesLess DEF a, p
<1>5. q * i <= (b + W) * i /\ (i # 0 => q * i < (b + W) * i)
  BY <1>1, TimesLe, TimesLess DEF b, q
<1>6. a * j \in Int /\ q * i \in Int /\ b * i \in Int /\ W * i \in Int /\ W * j \in Int
  BY <1>1
<1>7. a * j < b * i + W * i + W * j
  BY <1>2, <1>3, <1>4, <1>5, <1>6
<1>8. b * i + W * i + W * j = W * (y * i + i + j)
  <2>1. W * (y * i + i + j) = W * (y * i) + W * i + W * j
    OBVIOUS
  <2> QED
    BY <1>2, <2>1
<1> DEFINE c == x * j
           d == y * i + i + j
<1>9. c \in Int /\ d \in Int
  OBVIOUS
<1>10. W * c < W * d
  BY <1>2, <1>7, <1>8
<1> HIDE DEF c, d
<1>11. ~ (d <= c)
  <2> SUFFICES ASSUME d <= c PROVE FALSE
    OBVIOUS
  <2>1. d * W <= c * W
    BY <1>9, TimesLe
  <2>2. d * W = W * d /\ c * W = W * c /\ W * d \in Int /\ W * c \in Int
    BY <1>9
  <2> QED
    BY <1>10, <2>1, <2>2
<1> QED
  BY <1>9, <1>11 DEF c, d

\* Where the passes have come to, with the members A not pinned: there is something left for
\* them, or nothing; and whoever is pinned has weight, and room for no more than their part of it.
Even(total, M, room, w, A) ==
    /\ Left(total, M, room, A) >= 0
    /\ \A u \in M \ A : w[u] # 0 /\ room[u] * Sum(w, A) <= Left(total, M, room, A) * w[u]

\* Pinning leaves the others no less for their weight than they had.
LEMMA EvenStays ==
    ASSUME NEW M \in SUBSET Nat, IsFiniteSet(M), NEW total \in Nat, NEW room \in [M -> Nat],
           NEW w \in [M -> Nat], \A u \in M : rows[u] \in Nat,
           NEW A \in SUBSET M, Even(total, M, room, w, A), Sum(w, A) # 0
    PROVE  /\ Split(total, M, room, w, A) \in [A -> Nat]
           /\ Sum(Split(total, M, room, w, A), A) = Left(total, M, room, A)
           /\ \A u \in A : LET x == Split(total, M, room, w, A)[u]
                               R == Left(total, M, room, A)
                               W == Sum(w, A)
                           IN  /\ W * x < R * w[u] + W /\ R * w[u] < W * x + W
                               /\ w[u] = 0 => x = 0
           /\ Even(total, M, room, w, A \ Over(total, M, room, w, A))
<1> DEFINE R == Left(total, M, room, A)
           W == Sum(w, A)
           s == Split(total, M, room, w, A)
           over == Over(total, M, room, w, A)
<1>0. IsFiniteSet(A) /\ A \in SUBSET A /\ room \in [M -> Int] /\ w \in [M -> Int]
  <2>1. IsFiniteSet(A)
    BY FS_Subset
  <2> QED
    BY <2>1
<1>1. R \in Nat /\ W \in Nat /\ W # 0
  <2>1. M \ A \in SUBSET M
    OBVIOUS
  <2>2. Sum(room, M \ A) \in Nat /\ Sum(w, A) \in Nat
    BY <2>1, SumParts
  <2> QED
    BY <2>2 DEF Even, Left
<1>2. /\ s \in [A -> Nat] /\ Sum(s, A) = R
      /\ \A u \in A : /\ W * s[u] < R * w[u] + W /\ R * w[u] < W * s[u] + W
                      /\ w[u] = 0 => s[u] = 0
  <2> HIDE DEF R
  <2>1. PICK r : r = R
    OBVIOUS
  <2>2. PICK sent : sent = rows
    OBVIOUS
  <2>3. r \in Nat /\ \A u \in M : sent[u] \in Nat
    BY <1>1, <2>1, <2>2
  <2> DEFINE t == Settlement!Pass(A, r, w, sent)
  <2>4. /\ t \in [A -> Nat] /\ Sum(t, A) = r
        /\ \A u \in A : /\ W * t[u] < r * w[u] + W /\ r * w[u] < W * t[u] + W
                        /\ w[u] = 0 => t[u] = 0
    BY <2>3, PassShares
  <2>5. s = t
    BY <2>1, <2>2 DEF Split, R
  <2> HIDE DEF s, t, W
  <2> QED
    BY <2>1, <2>4, <2>5
<1>3. over \in SUBSET A /\ \A u \in over : s[u] \in Nat /\ s[u] >= room[u] + 1
  <2>1. \A u \in over : u \in A /\ s[u] > room[u] /\ s[u] \in Nat /\ room[u] \in Nat
    BY <1>2 DEF Over
  <2> HIDE DEF s, over
  <2>2. \A u \in over : s[u] \in Nat /\ s[u] >= room[u] + 1
    BY <2>1
  <2> QED
    BY <2>1, <2>2
<1>4. \A u \in M \ A : w[u] # 0 /\ room[u] * W <= R * w[u]
  BY DEF Even
<1>5. M \ (A \ over) = (M \ A) \cup over /\ A \ over \in SUBSET M /\ over \in SUBSET M
  BY <1>3
<1> HIDE DEF R, W, s, over
<1>6. ASSUME NEW u \in over PROVE w[u] # 0 /\ room[u] * W <= R * w[u]
  <2> DEFINE x == s[u]
             y == room[u]
             i == w[u]
  <2>1. x \in Nat /\ y \in Nat /\ i \in Nat /\ x >= y + 1 /\ W * x < R * i + W /\ (i = 0 => x = 0)
    BY <1>2, <1>3
  <2> HIDE DEF x, y, i
  <2>2. (y + 1) * W <= x * W
    BY <1>1, <2>1, TimesLe
  <2>3. (y + 1) * W = y * W + W /\ x * W = W * x /\ y * W \in Int /\ R * i \in Int
    BY <1>1, <2>1
  <2>4. i # 0 /\ y * W <= R * i
    BY <1>1, <2>1, <2>2, <2>3
  <2> QED
    BY <2>4 DEF y, i
<1> DEFINE r == Left(total, M, room, A \ over)
           v == Sum(w, A \ over)
<1>7. r = R - Sum(room, over) /\ v = W - Sum(w, over) /\ Sum(room, over) \in Nat /\ Sum(w, over) \in Nat /\ v \in Nat
  <2>1. Pins(over, A, M, room)
    BY <1>3 DEF Pins
  <2>2. Sum(room, M \ (A \ over)) = Sum(room, M \ A) + Sum(room, over)
    BY <2>1, SumPinned
  <2>3. Pins(over, A, M, w)
    BY <1>3 DEF Pins
  <2>4. Sum(w, A) = Sum(w, over) + Sum(w, A \ over)
    BY <2>3, SumUnpinned
  <2>5. Sum(room, over) \in Nat /\ Sum(w, over) \in Nat /\ Sum(w, A \ over) \in Nat
    BY <1>5, SumParts
  <2>6. Sum(room, M \ A) \in Nat
    <3>1. M \ A \in SUBSET M
      OBVIOUS
    <3> QED
      BY <3>1, SumParts
  <2>7. r = total - Sum(room, M \ (A \ over)) /\ R = total - Sum(room, M \ A) /\ v = Sum(w, A \ over) /\ W = Sum(w, A)
    BY Zenon DEF R, W, Left
  <2> HIDE DEF r, v
  <2> QED
    BY <2>2, <2>4, <2>5, <2>6, <2>7
<1>8. W * Sum(room, over) <= R * Sum(w, over)
  <2> DEFINE up == [u \in M |-> W * room[u]]
             due == [u \in M |-> R * w[u]]
  <2>1. /\ up \in [M -> Int] /\ due \in [M -> Int]
        /\ \A u \in M : up[u] = W * room[u] /\ due[u] = R * w[u]
    <3>1. \A u \in M : W * room[u] \in Int /\ R * w[u] \in Int
      BY <1>1
    <3> QED
      BY <3>1
  <2> HIDE DEF up, due
  <2>2. \A u \in over : up[u] <= due[u]
    <3>1. \A u \in over : room[u] * W = W * room[u]
      BY <1>0, <1>1, <1>5
    <3> QED
      BY <1>5, <1>6, <2>1, <3>1
  <2>3. Scaled(room, up, M, W) /\ Scaled(w, due, M, R)
    BY <1>0, <1>1, <2>1 DEF Scaled
  <2>4. Sum(up, over) = W * Sum(room, over) /\ Sum(due, over) = R * Sum(w, over)
    BY <1>5, <2>3, SumScaled
  <2>5. Sum(up, over) <= Sum(due, over)
    BY <1>5, <2>1, <2>2, SumLe
  <2> QED
    BY <2>4, <2>5
<1>9. R * v <= W * r /\ r >= 0
  <2> DEFINE a == Sum(room, over)
             b == Sum(w, over)
  <2>1. a \in Nat /\ b \in Nat /\ r = R - a /\ v = W - b /\ W * a <= R * b /\ v \in Nat
    BY <1>7, <1>8
  <2> HIDE DEF a, b, r, v
  <2>2. W * r = W * R - W * a /\ R * v = R * W - R * b /\ R * W = W * R /\ W * R \in Int /\ W * a \in Int /\ R * b \in Int
    BY <1>1, <2>1
  <2>3. R * v <= W * r
    BY <2>1, <2>2
  <2>4. R * v \in Nat /\ W * 0 = 0
    BY <1>1, <2>1
  <2>5. W * 0 <= W * r
    BY <1>1, <2>1, <2>3, <2>4
  <2>6. r \in Int /\ 0 <= r
    BY <1>1, <2>1, <2>5, Cancels
  <2> QED
    BY <2>3, <2>6
<1>10. r \in Nat
  BY <1>1, <1>7, <1>9
<1>11. ASSUME NEW u \in M \ (A \ over) PROVE w[u] # 0 /\ room[u] * v <= r * w[u]
  <2> DEFINE y == room[u]
             i == w[u]
  <2>1. i # 0 /\ y * W <= R * i /\ y \in Nat /\ i \in Nat
    BY <1>4, <1>5, <1>6
  <2> HIDE DEF y, i, r, v
  <2>2. v \in Nat
    BY <1>7
  <2>3. y * v <= r * i
    BY <1>1, <1>9, <1>10, <2>1, <2>2, RateRises
  <2> QED
    BY <2>1, <2>3 DEF y, i
<1>12. Even(total, M, room, w, A \ over)
  BY <1>9, <1>11 DEF Even
<1> QED
  BY <1>2, <1>12 DEF s, R, W, over

\* All there is, or all who have weight have room for; and of two members one who has room left
\* has no more than one less than their part of what the other has.
Takers(M, room, w) == Sum(room, {u \in M : w[u] # 0})

InProportion(x, M, room, w) ==
    \A u, v \in M : x[v] < room[v] /\ w[u] + w[v] > 0 => x[u] * w[v] < x[v] * w[u] + w[u] + w[v]

Dealt(x, total, M, room, w) ==
    /\ x \in [M -> Nat]
    /\ Sum(x, M) = IF total < Takers(M, room, w) THEN total ELSE Takers(M, room, w)
    /\ InProportion(x, M, room, w)

\* What those not pinned get, and the others' room.
Fills(t, s, A, room, M) ==
    /\ IsFiniteSet(M) /\ A \subseteq M /\ room \in [M -> Nat]
    /\ t \in [A -> Nat] /\ \A u \in A : t[u] = s[u]

Filled(x, t, A, room, M) ==
    /\ x \in [M -> Nat] /\ \A u \in M : x[u] = IF u \in A THEN t[u] ELSE room[u]
    /\ Sum(x, M) = Sum(t, A) + Sum(room, M \ A)

LEMMA SumOrPinned ==
    ASSUME NEW M, NEW room, NEW A, NEW s, NEW t, Fills(t, s, A, room, M)
    PROVE  Filled(OrPinned(M, room, A, s), t, A, room, M)
<1> USE DEF Fills
<1> DEFINE x == OrPinned(M, room, A, s)
<1>1. x \in [M -> Nat] /\ \A u \in M : x[u] = IF u \in A THEN s[u] ELSE room[u]
  BY DEF OrPinned
<1> HIDE DEF x
<1>2. x \in [M -> Int] /\ t \in [A -> Int] /\ room \in [M -> Int] /\ IsFiniteSet(A)
  <2>1. IsFiniteSet(A)
    BY FS_Subset
  <2> QED
    BY <1>1, <2>1
<1>3. Pins(A, M, M, x)
  BY <1>1 DEF Pins
<1>4. Sum(x, M) = Sum(x, A) + Sum(x, M \ A)
  BY <1>3, SumUnpinned
<1>5. Alike(x, M, t, A, A) /\ Alike(x, M, room, M, M \ A)
  BY <1>1, <1>2 DEF Alike
<1>6. Sum(x, A) = Sum(t, A)
  BY <1>2, <1>5, SumSame
<1>7. Sum(x, M \ A) = Sum(room, M \ A)
  BY <1>2, <1>5, SumSame
<1> QED
  BY <1>1, <1>4, <1>6, <1>7 DEF x, Filled

\* Without any weight left, what is left is dropped: all with weight are pinned.
LEMMA DealtWhenPinned ==
    ASSUME NEW M \in SUBSET Nat, IsFiniteSet(M), NEW total \in Nat, NEW room \in [M -> Nat],
           NEW w \in [M -> Nat], M \subseteq People,
           NEW A \in SUBSET M, Even(total, M, room, w, A), Sum(w, A) = 0
    PROVE  Dealt(OrPinned(M, room, A, Settlement!Zero), total, M, room, w)
<1> DEFINE x == OrPinned(M, room, A, Settlement!Zero)
           t == [u \in A |-> 0]
<1>0. room \in [M -> Int] /\ IsFiniteSet(A)
  <2>1. IsFiniteSet(A)
    BY FS_Subset
  <2> QED
    BY <2>1
<1>1. \A u \in A : Settlement!Zero[u] = 0
  BY DEF Settlement!Zero
<1>2. t \in [A -> Nat] /\ t \in [A -> Int] /\ \A u \in A : t[u] = 0
  OBVIOUS
<1> HIDE DEF t
<1>3. Fills(t, Settlement!Zero, A, room, M)
  BY <1>1, <1>2 DEF Fills
<1>4. Filled(x, t, A, room, M)
  BY Zenon, <1>3, SumOrPinned
<1> HIDE DEF x
<1>a. /\ x \in [M -> Nat] /\ \A u \in M : x[u] = IF u \in A THEN 0 ELSE room[u]
      /\ Sum(x, M) = Sum(t, A) + Sum(room, M \ A)
  BY <1>2, <1>4 DEF Filled
<1>5. Sum(t, A) = 0
  <2>1. Nought(t, A, A)
    BY <1>0, <1>2 DEF Nought
  <2> QED
    BY <2>1, SumNone
<1>6. \A u \in A : w[u] = 0
  <2>1. \A u \in A : w[u] <= Sum(w, A)
    BY SumParts
  <2>2. \A u \in A : w[u] \in Nat /\ w[u] <= 0
    BY <2>1
  <2> QED
    BY <2>2
<1>7. {u \in M : w[u] # 0} = M \ A
  BY <1>6 DEF Even
<1>8. Sum(room, M \ A) \in Int /\ Sum(room, M \ A) <= total
  <2>1. M \ A \in SUBSET M
    OBVIOUS
  <2>2. Sum(room, M \ A) \in Int
    BY <1>0, <2>1, SumTake
  <2> QED
    BY <2>2 DEF Even, Left
<1>9. Sum(x, M) = IF total < Takers(M, room, w) THEN total ELSE Takers(M, room, w)
  BY <1>a, <1>5, <1>7, <1>8 DEF Takers
<1>10. ASSUME NEW u \in M, NEW v \in M, x[v] < room[v], w[u] + w[v] > 0
       PROVE  x[u] * w[v] < x[v] * w[u] + w[u] + w[v]
  <2>1. x[v] = 0 /\ w[v] = 0
    <3>1. room[v] \in Nat
      OBVIOUS
    <3>2. v \in A
      BY <1>a, <1>10, <3>1
    <3> QED
      BY <1>a, <1>6, <3>2
  <2>2. w[u] \in Nat /\ x[u] \in Int
    <3>1. room[u] \in Nat
      OBVIOUS
    <3> QED
      BY <1>a, <3>1
  <2> DEFINE i == w[u]
             y == x[u]
  <2>3. i \in Nat /\ y \in Int /\ i + 0 > 0
    BY <1>10, <2>1, <2>2
  <2> HIDE DEF i, y
  <2>4. y * 0 < 0 * i + i + 0
    BY <2>3
  <2> QED
    BY <2>1, <2>4 DEF i, y
<1>11. InProportion(x, M, room, w)
  BY <1>10 DEF InProportion
<1> QED
  BY <1>a, <1>9, <1>11 DEF Dealt, x

\* Where nobody is above their room, all is dealt out.
LEMMA DealtWhenFitting ==
    ASSUME NEW M \in SUBSET Nat, IsFiniteSet(M), NEW total \in Nat, NEW room \in [M -> Nat],
           NEW w \in [M -> Nat], \A u \in M : rows[u] \in Nat,
           NEW A \in SUBSET M, Even(total, M, room, w, A), Sum(w, A) # 0,
           Over(total, M, room, w, A) = {}
    PROVE  Dealt(OrPinned(M, room, A, Split(total, M, room, w, A)), total, M, room, w)
<1> DEFINE R == Left(total, M, room, A)
           W == Sum(w, A)
           s == Split(total, M, room, w, A)
           x == OrPinned(M, room, A, s)
           T == {u \in M : w[u] # 0}
<1>1. /\ s \in [A -> Nat] /\ Sum(s, A) = R
      /\ \A u \in A : /\ W * s[u] < R * w[u] + W /\ R * w[u] < W * s[u] + W
                      /\ w[u] = 0 => s[u] = 0
  BY EvenStays
<1>2. \A u \in A : s[u] <= room[u]
  <2>1. \A u \in A : ~ (s[u] > room[u]) /\ s[u] \in Nat /\ room[u] \in Nat
    BY <1>1 DEF Over
  <2> HIDE DEF s
  <2> QED
    BY <2>1
<1>3. R \in Nat /\ W \in Nat /\ W # 0 /\ Sum(room, M \ A) \in Nat /\ R = total - Sum(room, M \ A)
  <2>1. M \ A \in SUBSET M
    OBVIOUS
  <2>2. Sum(room, M \ A) \in Nat /\ Sum(w, A) \in Nat
    BY <2>1, SumParts
  <2> QED
    BY <2>2 DEF Even, Left
<1>4. \A u \in M \ A : w[u] # 0 /\ room[u] * W <= R * w[u]
  BY DEF Even
<1> HIDE DEF R, W, s
<1>5. /\ x \in [M -> Nat] /\ \A u \in M : x[u] = IF u \in A THEN s[u] ELSE room[u]
      /\ Sum(x, M) = Sum(s, A) + Sum(room, M \ A)
  <2>1. Fills(s, s, A, room, M)
    BY <1>1 DEF Fills
  <2>2. Filled(x, s, A, room, M)
    BY Zenon, <2>1, SumOrPinned
  <2> HIDE DEF x
  <2> QED
    BY <2>2 DEF Filled
<1> HIDE DEF x
<1>6. Sum(x, M) = total
  BY <1>1, <1>3, <1>5
<1>7. \A u \in M : x[u] <= room[u] /\ (u \notin T => x[u] = 0)
  <2> TAKE u \in M
  <2>1. room[u] \in Nat
    OBVIOUS
  <2> QED
    BY <1>1, <1>2, <1>4, <1>5, <2>1
<1>8. total <= Takers(M, room, w) /\ Takers(M, room, w) \in Int
  <2>0. T \in SUBSET M /\ M \ T \in SUBSET M /\ x \in [M -> Int] /\ room \in [M -> Int] /\ \A u \in M : u \in T \/ u \in M \ T
    BY <1>5
  <2>z. \A u \in M \ T : x[u] = 0
    BY <1>7
  <2>t. Takers(M, room, w) = Sum(room, T)
    BY DEF Takers
  <2> HIDE DEF T
  <2>1. Pins(T, M, M, x)
    BY <1>5, <2>0 DEF Pins
  <2>2. Sum(x, M) = Sum(x, T) + Sum(x, M \ T)
    BY <2>1, SumUnpinned
  <2>3. Sum(x, T) <= Sum(room, T)
    <3>1. \A u \in T : x[u] <= room[u]
      BY <1>7, <2>0
    <3> QED
      BY <2>0, <3>1, SumLe
  <2>4. Sum(x, M \ T) = 0
    <3>1. Nought(x, M \ T, M)
      BY <2>0, <2>z DEF Nought
    <3> QED
      BY <3>1, SumNone
  <2>5. Sum(x, T) \in Int /\ Sum(room, T) \in Int
    BY <2>0, SumTake
  <2> QED
    BY <1>6, <2>2, <2>3, <2>4, <2>5, <2>t
<1>9. Sum(x, M) = IF total < Takers(M, room, w) THEN total ELSE Takers(M, room, w)
  BY <1>6, <1>8
<1>10. ASSUME NEW u \in M, NEW v \in M, x[v] < room[v], w[u] + w[v] > 0
       PROVE  x[u] * w[v] < x[v] * w[u] + w[u] + w[v]
  <2> DEFINE a == x[u]
             b == x[v]
             i == w[u]
             j == w[v]
             r == room[u]
  <2>0. a \in Nat /\ b \in Nat /\ i \in Nat /\ j \in Nat /\ r \in Nat /\ i + j > 0
    BY <1>5, <1>10
  <2>1. R * j < W * b + W
    <3>1. room[v] \in Nat
      OBVIOUS
    <3>2. v \in A
      BY <1>5, <1>10, <3>1
    <3> QED
      BY <1>1, <1>5, <3>2
  <2>2. u \in A => W * a < R * i + W
    BY <1>1, <1>5
  <2>3. u \notin A => a = r /\ r * W <= R * i
    BY <1>4, <1>5
  <2> HIDE DEF a, b, i, j, r
  <2>4. W * a < R * i + W
    <3>1. CASE u \in A
      BY <2>2, <3>1
    <3>2. CASE u \notin A
      <4>1. a * W <= R * i /\ a * W = W * a /\ R * i \in Int /\ W * a \in Int
        BY <1>3, <2>0, <2>3, <3>2
      <4> QED
        BY <1>3, <4>1
    <3> QED
      BY <3>1, <3>2
  <2>5. a * j < b * i + i + j
    BY <1>3, <2>0, <2>1, <2>4, Close
  <2> QED
    BY <2>5 DEF a, b, i, j
<1>11. InProportion(x, M, room, w)
  BY <1>10 DEF InProportion
<1> QED
  BY <1>5, <1>9, <1>11 DEF Dealt, x, s

\* However many passes it takes, together they deal out all there is or all who have weight have
\* room for, and in proportion.
LEMMA SharesDealt ==
    ASSUME NEW M \in SUBSET Nat, IsFiniteSet(M), M \subseteq People,
           NEW total \in Nat, NEW room \in [M -> Nat], NEW w \in [M -> Nat],
           \A u \in M : rows[u] \in Nat,
           NEW h, Shares(h, total, M, room, w)
    PROVE  Dealt(h[M], total, M, room, w)
<1> DEFINE split(A) == Split(total, M, room, w, A)
           over(A) == Over(total, M, room, w, A)
           good(A) == Even(total, M, room, w, A) => Dealt(h[A], total, M, room, w)
           Bad == {A \in SUBSET M : ~ good(A)}
<1>1. \A A \in SUBSET M :
          h[A] = IF Sum(w, A) = 0 THEN OrPinned(M, room, A, Settlement!Zero)
                 ELSE IF over(A) = {} THEN OrPinned(M, room, A, split(A))
                 ELSE h[A \ over(A)]
  BY Zenon DEF Shares
<1>2. Bad = {}
  <2>1. SUFFICES ASSUME Bad # {} PROVE FALSE
    OBVIOUS
  <2>2. Bad \in Families(M)
    BY DEF Families
  <2> HIDE DEF Bad
  <2>a. PICK bad : bad = Bad
    OBVIOUS
  <2>3. PICK A \in Bad : \A r \in Bad : ~ (r \subseteq A /\ r # A)
    BY <2>1, <2>2, <2>a, Smallest
  <2>4. A \in SUBSET M /\ Even(total, M, room, w, A) /\ ~ Dealt(h[A], total, M, room, w)
    BY DEF Bad
  <2>5. CASE Sum(w, A) = 0
    <3>1. h[A] = OrPinned(M, room, A, Settlement!Zero)
      BY <1>1, <2>4, <2>5
    <3>2. Dealt(OrPinned(M, room, A, Settlement!Zero), total, M, room, w)
      BY <2>4, <2>5, DealtWhenPinned
    <3> QED
      BY <2>4, <3>1, <3>2
  <2>6. CASE Sum(w, A) # 0 /\ over(A) = {}
    <3>1. h[A] = OrPinned(M, room, A, split(A))
      BY <1>1, <2>4, <2>6
    <3>2. Dealt(OrPinned(M, room, A, split(A)), total, M, room, w)
      BY <2>4, <2>6, DealtWhenFitting
    <3> QED
      BY <2>4, <3>1, <3>2
  <2>7. CASE Sum(w, A) # 0 /\ over(A) # {}
    <3> DEFINE B == A \ over(A)
    <3>1. B \in SUBSET M /\ B \subseteq A /\ B # A
      BY <2>4, <2>7 DEF Over
    <3>2. Even(total, M, room, w, B)
      BY <2>4, <2>7, EvenStays
    <3> HIDE DEF over
    <3>3. h[A] = h[B]
      BY <1>1, <2>4, <2>7
    <3> HIDE DEF B
    <3>4. B \notin Bad
      BY <2>3, <3>1
    <3>5. Dealt(h[B], total, M, room, w)
      BY <3>1, <3>2, <3>4 DEF Bad
    <3> QED
      BY <2>4, <3>3, <3>5
  <2> QED
    BY <2>5, <2>6, <2>7
<1>3. Even(total, M, room, w, M)
  <2>1. M \ M = {} /\ room \in [M -> Int]
    OBVIOUS
  <2>2. Sum(room, {}) = 0
    BY <2>1, SumTake
  <2>3. Left(total, M, room, M) = total
    BY <2>1, <2>2 DEF Left
  <2>4. \A u : u \notin M \ M
    OBVIOUS
  <2> QED
    BY <2>3, <2>4 DEF Even
<1>4. M \in SUBSET M /\ M \notin Bad
  BY <1>2
<1>5. good(M)
  BY <1>4
<1> QED
  BY <1>3, <1>5

\* What apportion() charges or refunds, without its sign.
Sized(delta, M, shares) == [u \in M |-> IF delta < 0 THEN -shares[u] ELSE shares[u]]

LEMMA ApportionDealt ==
    ASSUME NEW M \in SUBSET Nat, IsFiniteSet(M), M \subseteq People, NEW delta \in Int,
           NEW w \in [M -> Nat], NEW charge, \A u \in M : charge[u] \in Nat,
           \A u \in M : rows[u] \in Nat
    PROVE  /\ \A u \in M : Sized(delta, M, Settlement!Apportion(delta, M, w, charge))[u] \in 0..RoomFor(delta, M, w, charge)[u]
           /\ Dealt(Sized(delta, M, Settlement!Apportion(delta, M, w, charge)), Total(delta), M, RoomFor(delta, M, w, charge), w)
<1> DEFINE total == Total(delta)
           room == RoomFor(delta, M, w, charge)
           h == CHOOSE k : Shares(k, total, M, room, w)
           x == Settlement!Apportion(delta, M, w, charge)
<1>1. total \in Nat /\ room \in [M -> Nat]
  <2>1. total \in Nat
    BY DEF Total
  <2>2. \A v \in M : w[v] \in Nat /\ charge[v] \in Nat
    OBVIOUS
  <2>3. \A v \in M : (IF delta < 0 THEN charge[v] ELSE Settlement!Max0(w[v] - charge[v])) \in Nat
    BY <2>2 DEF Settlement!Max0
  <2> QED
    BY <2>1, <2>3 DEF RoomFor
<1>2. x = [v \in M |-> IF delta < 0 THEN -(h[M][v]) ELSE h[M][v]]
  BY Zenon DEF Settlement!Apportion, Shares, OrPinned, Left, Split, Over, Sum, Total, RoomFor
<1> HIDE DEF total, room
<1>3. Shares(h, total, M, room, w)
  <2>1. \E k : Shares(k, total, M, room, w)
    BY SharesExist
  <2> QED
    BY Zenon, <2>1
<1> HIDE DEF h, x
<1>4. Dealt(h[M], total, M, room, w)
  BY <1>1, <1>3, SharesDealt
<1>5. \A u \in M : h[M][u] \in 0..room[u]
  BY <1>1, <1>3, SharesFit
<1>6. h[M] \in [M -> Nat]
  BY <1>4 DEF Dealt
<1>7. Sized(delta, M, x) = h[M]
  <2>1. \A u \in M : Sized(delta, M, x)[u] = h[M][u]
    <3> TAKE u \in M
    <3>1. x[u] = (IF delta < 0 THEN -(h[M][u]) ELSE h[M][u]) /\ h[M][u] \in Nat
      BY <1>2, <1>6
    <3> QED
      BY <3>1 DEF Sized
  <2>2. Sized(delta, M, x) = [u \in M |-> Sized(delta, M, x)[u]]
    BY DEF Sized
  <2> QED
    BY <1>6, <2>1, <2>2
<1> QED
  BY <1>4, <1>5, <1>7 DEF total, room, x

-----------------------------------------------------------------------------
(* The inductive invariant.  What the members A of a pool have used (e) and *)
(* are charged (c) since the interval was opened: nobody is charged more    *)
(* than their use, and even if all that is open fell on one member, that    *)
(* member would be charged for nothing older than their bound b.            *)

Open(e, c, A) == Sum(e, A) - Sum(c, A)

OwedBy(e, c, A, b) == \A u \in A : c[u] <= e[u] /\ c[u] + Open(e, c, A) <= b[u]

Bound == [u \in People |-> opening[u] + since[u]]

Safe(p) == OwedBy(Settlement!UsedBy, charged, Settlement!Members(p), Bound)

SInv == Settlement!TypeOK /\ (~purged => \A p \in Pools : Safe(p))

Numbers(e, c, b, D) == e \in [D -> Int] /\ c \in [D -> Int] /\ b \in [D -> Int]

\* What a settlement has closed, and what else is of the same use and charges.
LEMMA OwedClosed ==
    ASSUME NEW D, IsFiniteSet(D), NEW e, NEW c, NEW b, Numbers(e, c, b, D), NEW A \in SUBSET D,
           \A u \in A : e[u] = c[u] /\ c[u] <= b[u]
    PROVE  OwedBy(e, c, A, b)
<1> USE DEF Numbers
<1>1. Alike(e, D, c, D, A)
  BY DEF Alike
<1>2. Sum(e, A) = Sum(c, A)
  BY <1>1, SumSame
<1>3. Sum(e, A) \in Int
  BY SumTake
<1>4. Open(e, c, A) = 0
  BY <1>2, <1>3 DEF Open
<1> SUFFICES ASSUME NEW u \in A PROVE c[u] <= e[u] /\ c[u] + Open(e, c, A) <= b[u]
  BY DEF OwedBy
<1>5. c[u] \in Int /\ e[u] = c[u] /\ c[u] <= b[u]
  OBVIOUS
<1> QED
  BY <1>4, <1>5

SameFor(e, c, b, f, d, a, A) == \A u \in A : e[u] = f[u] /\ c[u] = d[u] /\ b[u] = a[u]

LEMMA OwedSame ==
    ASSUME NEW D, IsFiniteSet(D), NEW A \in SUBSET D,
           NEW e, NEW c, NEW b, Numbers(e, c, b, D), OwedBy(e, c, A, b),
           NEW f, NEW d, NEW a, Numbers(f, d, a, D), SameFor(e, c, b, f, d, a, A)
    PROVE  OwedBy(f, d, A, a)
<1>1. Alike(e, D, f, D, A) /\ Alike(c, D, d, D, A)
  BY DEF Alike, Numbers, SameFor
<1>2. Sum(e, A) = Sum(f, A) /\ Sum(c, A) = Sum(d, A)
  BY <1>1, SumSame
<1>3. Open(f, d, A) = Open(e, c, A)
  BY <1>2 DEF Open
<1> SUFFICES ASSUME NEW u \in A PROVE d[u] <= f[u] /\ d[u] + Open(f, d, A) <= a[u]
  BY DEF OwedBy
<1>4. f[u] = e[u] /\ d[u] = c[u] /\ a[u] = b[u] /\ c[u] <= e[u] /\ c[u] + Open(e, c, A) <= b[u]
  BY DEF SameFor, OwedBy
<1> QED
  BY <1>3, <1>4

\* x uses one more: the bound of every member grows with what is open.
UsesOne(e, b, f, a, A, x) ==
    \A u \in A : f[u] = (IF u = x THEN e[u] + 1 ELSE e[u]) /\ a[u] = b[u] + 1

LEMMA OwedUsed ==
    ASSUME NEW D, IsFiniteSet(D), NEW A \in SUBSET D, NEW x \in A,
           NEW e, NEW c, NEW b, Numbers(e, c, b, D), OwedBy(e, c, A, b),
           NEW f, NEW a, Numbers(f, c, a, D), UsesOne(e, b, f, a, A, x)
    PROVE  OwedBy(f, c, A, a)
<1> USE DEF Numbers
<1> DEFINE eA == [u \in A |-> e[u]]
           fA == [u \in A |-> f[u]]
<1>0. IsFiniteSet(A) /\ A \in SUBSET A
  <2>1. IsFiniteSet(A)
    BY FS_Subset
  <2> QED
    BY <2>1
<1>1. OneMore(eA, fA, A, {x})
  BY DEF OneMore, UsesOne
<1>2. Alike(e, D, eA, A, A) /\ Alike(f, D, fA, A, A)
  BY DEF Alike
<1> HIDE DEF eA, fA
<1>3. Sum(fA, A) = Sum(eA, A) + Cardinality(A \cap {x})
  BY <1>0, <1>1, SumOneMore
<1>4. A \cap {x} = {x} /\ Cardinality({x}) = 1
  BY FS_Singleton
<1>5. Sum(e, A) = Sum(eA, A) /\ Sum(f, A) = Sum(fA, A)
  BY <1>0, <1>2, SumSame
<1>6. Sum(e, A) \in Int /\ Sum(c, A) \in Int
  BY SumTake
<1>7. Open(f, c, A) = Open(e, c, A) + 1 /\ Open(e, c, A) \in Int
  BY <1>3, <1>4, <1>5, <1>6 DEF Open
<1> SUFFICES ASSUME NEW u \in A PROVE c[u] <= f[u] /\ c[u] + Open(f, c, A) <= a[u]
  BY DEF OwedBy
<1>8. /\ c[u] \in Int /\ e[u] \in Int /\ b[u] \in Int
      /\ c[u] <= e[u] /\ c[u] + Open(e, c, A) <= b[u]
  BY DEF OwedBy
<1>9. f[u] = (IF u = x THEN e[u] + 1 ELSE e[u]) /\ a[u] = b[u] + 1
  BY DEF UsesOne
<1> QED
  BY <1>7, <1>8, <1>9

\* What is open is not negative, and covers what any member is short of their use.
LEMMA OwedMeans ==
    ASSUME NEW D, IsFiniteSet(D), NEW A \in SUBSET D,
           NEW e, NEW c, NEW b, Numbers(e, c, b, D), OwedBy(e, c, A, b), NEW u \in A
    PROVE  /\ Open(e, c, A) \in Nat
           /\ c[u] <= b[u] /\ e[u] <= b[u]
           /\ Open(e, c, A) = 0 => e[u] = c[u]
<1> USE DEF Numbers
<1>1. \A v \in A : c[v] <= e[v] /\ c[v] + Open(e, c, A) <= b[v]
  BY DEF OwedBy
<1>2. Sum(c, A) <= Sum(e, A)
  BY <1>1, SumLe
<1>3. Sum(e, A) \in Int /\ Sum(c, A) \in Int
  BY SumTake
<1>4. Open(e, c, A) \in Nat
  BY <1>2, <1>3 DEF Open
<1>5. e[u] - c[u] <= Open(e, c, A)
  <2> DEFINE R == A \ {u}
  <2>1. R \in SUBSET D
    OBVIOUS
  <2>2. Sum(e, A) = e[u] + Sum(e, R) /\ Sum(c, A) = c[u] + Sum(c, R)
    BY SumTake
  <2>3. Sum(e, R) \in Int /\ Sum(c, R) \in Int
    BY <2>1, SumTake
  <2>4. Sum(c, R) <= Sum(e, R)
    <3>1. \A v \in R : c[v] <= e[v]
      BY <1>1
    <3> HIDE DEF R
    <3> QED
      BY <2>1, <3>1, SumLe
  <2>5. e[u] \in Int /\ c[u] \in Int
    OBVIOUS
  <2> HIDE DEF R
  <2> QED
    BY <2>2, <2>3, <2>4, <2>5 DEF Open
<1>6. e[u] \in Int /\ c[u] \in Int /\ b[u] \in Int /\ c[u] <= e[u] /\ c[u] + Open(e, c, A) <= b[u]
  BY <1>1
<1>7. Open(e, c, A) = 0 => e[u] = c[u]
  BY <1>5, <1>6
<1> QED
  BY <1>4, <1>5, <1>6, <1>7

-----------------------------------------------------------------------------
(* settle_pool: afterwards each member is charged their effective use, which *)
(* is no more than their bound.                                              *)

LEMMA Typed ==
    ASSUME Settlement!SettlementAssumption, Settlement!TypeOK
    PROVE  /\ IsFiniteSet(People) /\ People \in SUBSET Nat
           /\ rows \in [People -> Nat] /\ carry \in [People -> Int] /\ charged \in [People -> Nat]
           /\ Settlement!UsedBy \in [People -> Int] /\ \A u \in People : Settlement!UsedBy[u] = Settlement!Effective(u)
           /\ Bound \in [People -> Nat] /\ \A u \in People : Bound[u] = opening[u] + since[u]
           /\ \A p : Settlement!Members(p) \in SUBSET People /\ IsFiniteSet(Settlement!Members(p))
           /\ \A p : Settlement!Delta(p) = Open(Settlement!UsedBy, charged, Settlement!Members(p)) /\ Settlement!Delta(p) \in Int
<1>1. /\ rows \in [People -> Nat] /\ carry \in [People -> Int] /\ charged \in [People -> Nat]
      /\ opening \in [People -> Nat] /\ since \in [People -> Nat]
  BY DEF Settlement!TypeOK
<1>2. Settlement!UsedBy \in [People -> Int] /\ \A u \in People : Settlement!UsedBy[u] = Settlement!Effective(u)
  BY <1>1 DEF Settlement!UsedBy, Settlement!Effective
<1>3. Bound \in [People -> Nat] /\ \A u \in People : Bound[u] = opening[u] + since[u]
  BY <1>1 DEF Bound
<1>4. IsFiniteSet(People) /\ People \in SUBSET Nat
  BY DEF Settlement!SettlementAssumption, Settlement!IsFiniteSet, IsFiniteSet
<1>5. \A p : Settlement!Members(p) \in SUBSET People
  BY DEF Settlement!Members
<1>6. \A p : IsFiniteSet(Settlement!Members(p))
  BY <1>4, <1>5, FS_Subset
<1>7. ASSUME NEW p PROVE Settlement!Delta(p) = Open(Settlement!UsedBy, charged, Settlement!Members(p)) /\ Settlement!Delta(p) \in Int
  <2>1. PICK e : e = Settlement!UsedBy
    OBVIOUS
  <2>2. PICK c : c = charged
    OBVIOUS
  <2>3. PICK A : A = Settlement!Members(p)
    OBVIOUS
  <2>4. e \in [People -> Int] /\ c \in [People -> Int] /\ A \in SUBSET People
    BY <1>1, <1>2, <1>5, <2>1, <2>2, <2>3
  <2>5. Sum(e, A) \in Int /\ Sum(c, A) \in Int
    BY <1>4, <2>4, SumTake
  <2>6. Settlement!Delta(p) = Sum(e, A) - Sum(c, A)
    BY <2>1, <2>2, <2>3 DEF Settlement!Delta, Settlement!Used, Settlement!Ledger, Sum
  <2> QED
    BY <2>1, <2>2, <2>3, <2>5, <2>6 DEF Open
<1> QED
  BY <1>1, <1>2, <1>3, <1>4, <1>5, <1>6, <1>7

LEMMA ClampedType ==
    ASSUME Settlement!SettlementAssumption, Settlement!TypeOK, NEW u \in People
    PROVE  Settlement!Clamped(u) \in Nat /\ (Settlement!Effective(u) >= 0 => Settlement!Clamped(u) <= Settlement!Effective(u))
<1>1. Settlement!Effective(u) \in Int
  BY DEF Settlement!TypeOK, Settlement!Effective
<1>2. limit[u] \in Nat \/ limit[u] = Unlimited
  BY DEF Settlement!TypeOK, Settlement!SettlementAssumption
<1> DEFINE n == Settlement!Max0(Settlement!Effective(u))
<1>3. n \in Nat /\ (Settlement!Effective(u) >= 0 => n = Settlement!Effective(u))
  BY <1>1 DEF Settlement!Max0
<1> HIDE DEF n
<1>4. Settlement!Clamped(u) = IF limit[u] = Unlimited \/ limit[u] > n THEN n ELSE limit[u]
  BY DEF Settlement!Clamped, Settlement!UpTo, n
<1>5. CASE limit[u] = Unlimited
  BY <1>3, <1>4, <1>5
<1>6. CASE limit[u] # Unlimited
  <2>1. limit[u] \in Nat
    BY <1>2, <1>6
  <2> QED
    BY <1>3, <1>4, <1>6, <2>1
<1> QED
  BY <1>5, <1>6

\* What a settlement charges in a pool that is safe: no more than the member's bound.
LEMMA ChargeFits ==
    ASSUME Settlement!SettlementAssumption, Settlement!TypeOK, NEW p
    PROVE  /\ DOMAIN Settlement!Charge(p) = Settlement!Members(p)
           /\ \A u \in Settlement!Members(p) : Settlement!Charge(p)[u] \in Nat
           /\ Safe(p) => \A u \in Settlement!Members(p) : Settlement!Charge(p)[u] <= Bound[u]
<1>0. /\ IsFiniteSet(People) /\ People \in SUBSET Nat
      /\ rows \in [People -> Nat] /\ carry \in [People -> Int] /\ charged \in [People -> Nat]
      /\ Settlement!UsedBy \in [People -> Int] /\ \A u \in People : Settlement!UsedBy[u] = Settlement!Effective(u)
      /\ Bound \in [People -> Nat]
      /\ Settlement!Members(p) \in SUBSET People /\ IsFiniteSet(Settlement!Members(p))
      /\ Settlement!Delta(p) = Open(Settlement!UsedBy, charged, Settlement!Members(p)) /\ Settlement!Delta(p) \in Int
  BY Typed
<1>1. ASSUME Safe(p), NEW u \in Settlement!Members(p)
      PROVE  Settlement!Delta(p) \in Nat /\ charged[u] + Settlement!Delta(p) <= Bound[u] /\ Settlement!UsedBy[u] <= Bound[u]
             /\ charged[u] <= Settlement!UsedBy[u]
  <2>1. PICK e : e = Settlement!UsedBy
    OBVIOUS
  <2>2. PICK c : c = charged
    OBVIOUS
  <2>3. PICK A : A = Settlement!Members(p)
    OBVIOUS
  <2>4. PICK b : b = Bound
    OBVIOUS
  <2>5. Numbers(e, c, b, People) /\ OwedBy(e, c, A, b) /\ A \in SUBSET People /\ u \in A
    BY <1>0, <1>1, <2>1, <2>2, <2>3, <2>4 DEF Numbers, Safe
  <2>6. Open(e, c, A) \in Nat /\ e[u] <= b[u]
    BY <1>0, <2>5, OwedMeans
  <2>7. c[u] <= e[u] /\ c[u] + Open(e, c, A) <= b[u]
    BY <2>5 DEF OwedBy
  <2> QED
    BY <1>0, <2>1, <2>2, <2>3, <2>4, <2>6, <2>7
<1>2. CASE Settlement!UnlimitedPool(p)
  <2>1. Settlement!Charge(p) = [u \in Settlement!Members(p) |-> Settlement!Clamped(u)]
    BY <1>2 DEF Settlement!Charge
  <2>2. \A u \in Settlement!Members(p) : Settlement!Clamped(u) \in Nat /\ (Settlement!Effective(u) >= 0 => Settlement!Clamped(u) <= Settlement!Effective(u))
    BY <1>0, ClampedType
  <2>3. ASSUME Safe(p), NEW u \in Settlement!Members(p) PROVE Settlement!Clamped(u) <= Bound[u]
    <3>1. u \in People /\ Settlement!UsedBy[u] = Settlement!Effective(u) /\ charged[u] \in Nat /\ Bound[u] \in Nat
          /\ Settlement!UsedBy[u] \in Int
      BY <1>0
    <3>2. Settlement!UsedBy[u] <= Bound[u] /\ charged[u] <= Settlement!UsedBy[u]
      BY <1>1, <2>3
    <3>3. Settlement!Clamped(u) \in Nat /\ (Settlement!Effective(u) >= 0 => Settlement!Clamped(u) <= Settlement!Effective(u))
      BY <2>2
    <3> QED
      BY <3>1, <3>2, <3>3
  <2> QED
    BY <2>1, <2>2, <2>3
<1>3. CASE ~Settlement!UnlimitedPool(p)
  <2> DEFINE weight == [u \in Settlement!Members(p) |-> Settlement!Weight(u)]
             given == Settlement!Apportion(Settlement!Delta(p), Settlement!Members(p), weight, charged)
  <2>1. Settlement!Charge(p) = [u \in Settlement!Members(p) |-> charged[u] + given[u]]
    BY <1>3 DEF Settlement!Charge
  <2>2. weight \in [Settlement!Members(p) -> Nat]
    <3> SUFFICES ASSUME NEW u \in Settlement!Members(p) PROVE Settlement!Weight(u) \in Nat
      OBVIOUS
    <3>1. u \in People /\ limit[u] \in Limits /\ charged[u] \in Nat
      BY <1>0 DEF Settlement!TypeOK
    <3>2. active[u] => limit[u] # Unlimited
      BY <1>3 DEF Settlement!UnlimitedPool
    <3>3. active[u] => limit[u] \in Nat
      BY <3>1, <3>2 DEF Settlement!SettlementAssumption
    <3> QED
      BY <3>1, <3>3 DEF Settlement!Weight
  <2> HIDE DEF weight
  <2>3. ASSUME NEW u \in Settlement!Members(p)
        PROVE  /\ given[u] \in Int
               /\ Settlement!Delta(p) >= 0 => 0 <= given[u] /\ given[u] <= Settlement!Delta(p)
               /\ Settlement!Delta(p) < 0 => -given[u] \in 0..charged[u]
    <3>1. PICK M : M = Settlement!Members(p)
      OBVIOUS
    <3>2. PICK delta : delta = Settlement!Delta(p)
      OBVIOUS
    <3>3. PICK w : w = weight
      OBVIOUS
    <3>4. PICK charge : charge = charged
      OBVIOUS
    <3>5. /\ M \in SUBSET Nat /\ IsFiniteSet(M) /\ M \subseteq People /\ delta \in Int
          /\ w \in [M -> Nat] /\ u \in M
      BY <1>0, <2>2, <3>1, <3>2, <3>3
    <3>6. (\A v \in M : charge[v] \in Nat) /\ \A v \in M : rows[v] \in Nat
      BY <1>0, <3>1, <3>4
    <3> DEFINE x == Settlement!Apportion(delta, M, w, charge)[u]
    <3>7. /\ x \in Int
          /\ delta >= 0 => 0 <= x /\ x <= delta
          /\ delta < 0 => -x \in 0..charge[u]
      BY <3>5, <3>6, ApportionFits
    <3>8. x = given[u]
      BY <3>1, <3>2, <3>3, <3>4
    <3> HIDE DEF x, given
    <3> QED
      BY <3>2, <3>4, <3>7, <3>8
  <2> HIDE DEF given
  <2>4. ASSUME NEW u \in Settlement!Members(p)
        PROVE  Settlement!Charge(p)[u] \in Nat /\ (Safe(p) => Settlement!Charge(p)[u] <= Bound[u])
    <3> DEFINE x == given[u]
    <3>1. Settlement!Charge(p)[u] = charged[u] + x
      BY <2>1
    <3>2. u \in People /\ charged[u] \in Nat /\ Bound[u] \in Nat
      BY <1>0
    <3>3. /\ x \in Int
          /\ Settlement!Delta(p) >= 0 => 0 <= x /\ x <= Settlement!Delta(p)
          /\ Settlement!Delta(p) < 0 => -x \in 0..charged[u]
      BY <2>3
    <3>4. Safe(p) => Settlement!Delta(p) \in Nat /\ charged[u] + Settlement!Delta(p) <= Bound[u]
      BY <1>1
    <3> HIDE DEF x
    <3>5. Settlement!Charge(p)[u] \in Nat
      BY <1>0, <3>1, <3>2, <3>3
    <3>6. Safe(p) => Settlement!Charge(p)[u] <= Bound[u]
      BY <1>0, <3>1, <3>2, <3>3, <3>4
    <3> QED
      BY <3>5, <3>6
  <2> QED
    BY <2>1, <2>4
<1> QED
  BY <1>2, <1>3

LEMMA SettledFits ==
    ASSUME Settlement!SettlementAssumption, Settlement!TypeOK, NEW p, NEW dissolving \in BOOLEAN
    PROVE  LET s == Settlement!Settled(p, dissolving)
           IN  /\ s.charged \in [People -> Nat] /\ s.carry \in [People -> Int]
               /\ \A u \in People \ Settlement!Members(p) : s.charged[u] = charged[u] /\ s.carry[u] = carry[u]
               /\ Safe(p) => \A u \in Settlement!Members(p) : /\ rows[u] + s.carry[u] = s.charged[u]
                                                   /\ s.charged[u] <= Bound[u]
<1> DEFINE s == Settlement!Settled(p, dissolving)
<1>0. /\ IsFiniteSet(People)
      /\ rows \in [People -> Nat] /\ carry \in [People -> Int] /\ charged \in [People -> Nat]
      /\ Settlement!UsedBy \in [People -> Int] /\ \A u \in People : Settlement!UsedBy[u] = Settlement!Effective(u)
      /\ Bound \in [People -> Nat]
      /\ Settlement!Members(p) \in SUBSET People
      /\ Settlement!Delta(p) = Open(Settlement!UsedBy, charged, Settlement!Members(p)) /\ Settlement!Delta(p) \in Int
  BY Typed
<1>1. CASE Settlement!Nothing(p, dissolving)
  <2>1. s.charged = charged /\ s.carry = carry /\ Settlement!Delta(p) = 0
    BY <1>1 DEF Settlement!Settled, Settlement!Nothing
  <2>2. ASSUME Safe(p), NEW u \in Settlement!Members(p)
        PROVE  rows[u] + carry[u] = charged[u] /\ charged[u] <= Bound[u]
    <3>1. PICK e : e = Settlement!UsedBy
      OBVIOUS
    <3>2. PICK c : c = charged
      OBVIOUS
    <3>3. PICK A : A = Settlement!Members(p)
      OBVIOUS
    <3>4. PICK b : b = Bound
      OBVIOUS
    <3>5. Numbers(e, c, b, People) /\ OwedBy(e, c, A, b) /\ A \in SUBSET People /\ u \in A
      BY <1>0, <2>2, <3>1, <3>2, <3>3, <3>4 DEF Numbers, Safe
    <3>6. c[u] <= b[u] /\ (Open(e, c, A) = 0 => e[u] = c[u])
      BY <1>0, <3>5, OwedMeans
    <3>7. e[u] = rows[u] + carry[u]
      BY <1>0, <3>1, <3>3, <3>5 DEF Settlement!Effective
    <3> QED
      BY <1>0, <2>1, <3>1, <3>2, <3>3, <3>4, <3>6, <3>7
  <2> HIDE DEF s
  <2> QED
    BY <1>0, <2>1, <2>2 DEF s
<1>2. CASE ~Settlement!Nothing(p, dissolving)
  <2>1. PICK new : new = Settlement!Charge(p)
    OBVIOUS
  <2>2. /\ DOMAIN new = Settlement!Members(p) /\ \A u \in Settlement!Members(p) : new[u] \in Nat
        /\ Safe(p) => \A u \in Settlement!Members(p) : new[u] <= Bound[u]
    BY <2>1, ChargeFits
  <2>3. s = Settlement!Written(new)
    BY <1>2, <2>1 DEF Settlement!Settled
  <2>4. /\ s.charged = [u \in People |-> IF u \in Settlement!Members(p) THEN new[u] ELSE charged[u]]
        /\ s.carry = [u \in People |-> IF u \in Settlement!Members(p) THEN new[u] - rows[u] ELSE carry[u]]
    BY <2>2, <2>3 DEF Settlement!Written, Settlement!Replaced
  <2> HIDE DEF s
  <2>5. s.charged \in [People -> Nat] /\ s.carry \in [People -> Int]
    <3>1. \A u \in People : rows[u] \in Nat /\ carry[u] \in Int /\ charged[u] \in Nat
      BY <1>0
    <3> QED
      BY <2>2, <2>4, <3>1
  <2>6. \A u \in People \ Settlement!Members(p) : s.charged[u] = charged[u] /\ s.carry[u] = carry[u]
    BY <2>4
  <2>7. ASSUME Safe(p), NEW u \in Settlement!Members(p)
        PROVE  rows[u] + s.carry[u] = s.charged[u] /\ s.charged[u] <= Bound[u]
    <3>1. u \in People /\ rows[u] \in Nat /\ new[u] \in Nat /\ new[u] <= Bound[u]
      BY <1>0, <2>2, <2>7
    <3>2. s.charged[u] = new[u] /\ s.carry[u] = new[u] - rows[u]
      BY <2>4, <3>1
    <3> QED
      BY <3>1, <3>2
  <2> QED
    BY <2>5, <2>6, <2>7 DEF s
<1> QED
  BY <1>1, <1>2

-----------------------------------------------------------------------------
(* The steps.                                                               *)

LEMMA InitSafe == ASSUME Settlement!SettlementAssumption PROVE Settlement!Init => SInv
<1> SUFFICES ASSUME Settlement!Init PROVE SInv
  OBVIOUS
<1>1. Settlement!TypeOK
  <2>1. Settlement!Zero \in [People -> Nat] /\ Settlement!Zero \in [People -> Int]
    BY DEF Settlement!Zero
  <2>2. limit \in [People -> Limits] /\ 0 \in 0..MaxChanges
    BY DEF Settlement!Init, Settlement!SettlementAssumption
  <2> QED
    BY <2>1, <2>2 DEF Settlement!Init, Settlement!TypeOK, Settlement!Zero
<1>2. ASSUME NEW p \in Pools PROVE Safe(p)
  <2>1. PICK e : e = Settlement!UsedBy
    OBVIOUS
  <2>2. PICK c : c = charged
    OBVIOUS
  <2>3. PICK A : A = Settlement!Members(p)
    OBVIOUS
  <2>4. PICK b : b = Bound
    OBVIOUS
  <2>5. \A u \in People : Settlement!UsedBy[u] = 0 /\ charged[u] = 0 /\ Bound[u] = 0
    BY DEF Settlement!Init, Settlement!UsedBy, Bound, Settlement!Zero
  <2>6. /\ IsFiniteSet(People) /\ Numbers(e, c, b, People) /\ A \in SUBSET People
        /\ \A u \in A : e[u] = c[u] /\ c[u] <= b[u]
    <3>1. \A u \in A : e[u] = c[u] /\ c[u] <= b[u]
      BY <1>1, <2>1, <2>2, <2>3, <2>4, <2>5, Typed
    <3> QED
      BY <1>1, <2>1, <2>2, <2>3, <2>4, <3>1, Typed DEF Numbers
  <2>7. OwedBy(e, c, A, b)
    BY <2>6, OwedClosed
  <2> QED
    BY <2>1, <2>2, <2>3, <2>4, <2>7 DEF Safe
<1> QED
  BY <1>1, <1>2 DEF SInv

\* The types of the next state, as constants can be picked from.
LEMMA TypedNext ==
    ASSUME Settlement!SettlementAssumption, Settlement!TypeOK'
    PROVE  /\ IsFiniteSet(People)
           /\ rows' \in [People -> Nat] /\ carry' \in [People -> Int] /\ charged' \in [People -> Nat]
           /\ Settlement!UsedBy' \in [People -> Int] /\ \A u \in People : Settlement!UsedBy'[u] = rows'[u] + carry'[u]
           /\ Bound' \in [People -> Nat] /\ \A u \in People : Bound'[u] = opening'[u] + since'[u]
           /\ \A p : Settlement!Members(p)' \in SUBSET People
<1>1. /\ rows' \in [People -> Nat] /\ carry' \in [People -> Int] /\ charged' \in [People -> Nat]
      /\ opening' \in [People -> Nat] /\ since' \in [People -> Nat]
  BY DEF Settlement!TypeOK
<1>2. Settlement!UsedBy' \in [People -> Int] /\ \A u \in People : Settlement!UsedBy'[u] = rows'[u] + carry'[u]
  BY <1>1 DEF Settlement!UsedBy
<1>3. Bound' \in [People -> Nat] /\ \A u \in People : Bound'[u] = opening'[u] + since'[u]
  BY <1>1 DEF Bound
<1> QED
  BY <1>1, <1>2, <1>3 DEF Settlement!SettlementAssumption, Settlement!Members,
     Settlement!IsFiniteSet, IsFiniteSet

LEMMA SafeWhenClosed ==
    ASSUME Settlement!SettlementAssumption, Settlement!TypeOK', NEW p,
           \A u \in Settlement!Members(p)' : /\ rows'[u] + carry'[u] = charged'[u]
                                  /\ charged'[u] <= opening'[u] + since'[u]
    PROVE  Safe(p)'
<1>1. PICK e : e = Settlement!UsedBy'
  OBVIOUS
<1>2. PICK c : c = charged'
  OBVIOUS
<1>3. PICK A : A = Settlement!Members(p)'
  OBVIOUS
<1>4. PICK b : b = Bound'
  OBVIOUS
<1>5. /\ IsFiniteSet(People) /\ Numbers(e, c, b, People) /\ A \in SUBSET People
  BY <1>1, <1>2, <1>3, <1>4, TypedNext DEF Numbers
<1>6. \A u \in A : e[u] = c[u] /\ c[u] <= b[u]
  BY <1>1, <1>2, <1>3, <1>4, TypedNext
<1>7. OwedBy(e, c, A, b)
  BY <1>5, <1>6, OwedClosed
<1> QED
  BY <1>1, <1>2, <1>3, <1>4, <1>7 DEF Safe

LEMMA SafeWhenSame ==
    ASSUME Settlement!SettlementAssumption, Settlement!TypeOK, Settlement!TypeOK', NEW p, Safe(p), Settlement!Members(p)' = Settlement!Members(p),
           \A u \in Settlement!Members(p) : /\ rows'[u] + carry'[u] = rows[u] + carry[u]
                                 /\ charged'[u] = charged[u]
                                 /\ opening'[u] + since'[u] = opening[u] + since[u]
    PROVE  Safe(p)'
<1>1. PICK f : f = Settlement!UsedBy'
  OBVIOUS
<1>2. PICK d : d = charged'
  OBVIOUS
<1>3. PICK A : A = Settlement!Members(p)
  OBVIOUS
<1>4. PICK a : a = Bound'
  OBVIOUS
<1>5. PICK e : e = Settlement!UsedBy
  OBVIOUS
<1>6. PICK c : c = charged
  OBVIOUS
<1>7. PICK b : b = Bound
  OBVIOUS
<1>8. /\ IsFiniteSet(People) /\ A \in SUBSET People
      /\ Numbers(e, c, b, People) /\ \A u \in People : e[u] = rows[u] + carry[u] /\ b[u] = opening[u] + since[u]
  BY <1>3, <1>5, <1>6, <1>7, Typed DEF Numbers, Settlement!Effective
<1>9. Numbers(f, d, a, People)
      /\ \A u \in People : f[u] = rows'[u] + carry'[u] /\ a[u] = opening'[u] + since'[u]
  BY <1>1, <1>2, <1>4, TypedNext DEF Numbers
<1>10. SameFor(e, c, b, f, d, a, A)
  BY <1>2, <1>3, <1>6, <1>8, <1>9 DEF SameFor
<1>11. OwedBy(e, c, A, b)
  BY <1>3, <1>5, <1>6, <1>7 DEF Safe
<1>12. OwedBy(f, d, A, a)
  BY <1>8, <1>9, <1>10, <1>11, OwedSame
<1> QED
  BY <1>1, <1>2, <1>3, <1>4, <1>12 DEF Safe

LEMMA UseSafe == ASSUME Settlement!SettlementAssumption, SInv, NEW u \in People, Settlement!Use(u) PROVE SInv'
<1>0. Settlement!TypeOK /\ (~purged => \A p \in Pools : Safe(p))
  BY DEF SInv
<1>1. Settlement!TypeOK'
  BY <1>0 DEF Settlement!TypeOK, Settlement!Use, Settlement!profile
<1>2. ASSUME ~purged', NEW p \in Pools PROVE Safe(p)'
  <2>1. Safe(p) /\ Settlement!Members(p)' = Settlement!Members(p)
    BY <1>0, <1>2 DEF Settlement!Use, Settlement!Members
  <2>2. CASE poolOf[u] = p
    <3>1. PICK f : f = Settlement!UsedBy'
      OBVIOUS
    <3>2. PICK A : A = Settlement!Members(p)
      OBVIOUS
    <3>3. PICK a : a = Bound'
      OBVIOUS
    <3>4. PICK e : e = Settlement!UsedBy
      OBVIOUS
    <3>5. PICK c : c = charged
      OBVIOUS
    <3>6. PICK b : b = Bound
      OBVIOUS
    <3>7. /\ IsFiniteSet(People) /\ A \in SUBSET People /\ u \in A
          /\ Numbers(e, c, b, People)
          /\ \A v \in People : e[v] = rows[v] + carry[v] /\ b[v] = opening[v] + since[v]
      BY <1>0, <2>2, <3>2, <3>4, <3>5, <3>6, Typed DEF Numbers, Settlement!Effective, Settlement!Members
    <3>8. c = charged' /\ Numbers(f, c, a, People)
          /\ \A v \in People : f[v] = rows'[v] + carry'[v] /\ a[v] = opening'[v] + since'[v]
      BY <1>1, <3>1, <3>3, <3>5, TypedNext DEF Numbers, Settlement!Use
    <3>9. ASSUME NEW v \in A PROVE f[v] = (IF v = u THEN e[v] + 1 ELSE e[v]) /\ a[v] = b[v] + 1
      <4>1. v \in People /\ poolOf[v] = p
        BY <3>2 DEF Settlement!Members
      <4>2. /\ rows'[v] = (IF v = u THEN rows[v] + 1 ELSE rows[v]) /\ carry'[v] = carry[v]
            /\ since'[v] = since[v] + 1 /\ opening'[v] = opening[v]
        <5>1. p # NoPool
          BY DEF Settlement!SettlementAssumption
        <5> QED
          BY <1>0, <2>2, <4>1, <5>1 DEF Settlement!Use, Settlement!TypeOK
      <4>3. rows[v] \in Nat /\ carry[v] \in Int /\ opening[v] \in Nat /\ since[v] \in Nat
        BY <1>0, <4>1 DEF Settlement!TypeOK
      <4> QED
        BY <3>7, <3>8, <4>1, <4>2, <4>3
    <3>10. UsesOne(e, b, f, a, A, u)
      BY <3>9 DEF UsesOne
    <3>11. OwedBy(e, c, A, b)
      BY <2>1, <3>2, <3>4, <3>5, <3>6 DEF Safe
    <3>12. OwedBy(f, c, A, a)
      BY <3>7, <3>8, <3>10, <3>11, OwedUsed
    <3> QED
      BY <2>1, <3>1, <3>2, <3>3, <3>8, <3>12 DEF Safe
  <2>3. CASE poolOf[u] # p
    <3>1. ASSUME NEW v \in Settlement!Members(p)
          PROVE  /\ rows'[v] + carry'[v] = rows[v] + carry[v] /\ charged'[v] = charged[v]
                 /\ opening'[v] + since'[v] = opening[v] + since[v]
      <4>1. v \in People /\ v # u /\ poolOf[v] # poolOf[u]
        BY <2>3 DEF Settlement!Members
      <4> QED
        BY <1>0, <4>1 DEF Settlement!Use, Settlement!TypeOK
    <3> QED
      BY <1>0, <1>1, <2>1, <3>1, SafeWhenSame
  <2> QED
    BY <2>2, <2>3
<1> QED
  BY <1>1, <1>2 DEF SInv

\* Joining: the old members are closed, and u comes in at their own use.
LEMMA JoinCloses ==
    ASSUME Settlement!SettlementAssumption, SInv, NEW u \in People, NEW p \in Pools, Settlement!Join(u, p)
    PROVE  /\ SInv'
           /\ ~purged => \A v \in Settlement!Members(p)' : charged'[v] = rows'[v] + carry'[v]
<1>0. Settlement!TypeOK /\ (~purged => \A q \in Pools : Safe(q)) /\ p # NoPool
  BY DEF SInv, Settlement!SettlementAssumption
<1> DEFINE old == Settlement!Settled(p, FALSE)
<1>1. /\ old.charged \in [People -> Nat] /\ old.carry \in [People -> Int]
      /\ \A v \in People \ Settlement!Members(p) : old.charged[v] = charged[v] /\ old.carry[v] = carry[v]
      /\ Safe(p) => \A v \in Settlement!Members(p) : /\ rows[v] + old.carry[v] = old.charged[v]
                                          /\ old.charged[v] <= Bound[v]
  BY <1>0, SettledFits
<1>2. /\ charged' = [old.charged EXCEPT ![u] = Settlement!Clamped(u)]
      /\ carry' = [old.carry EXCEPT ![u] = Settlement!Clamped(u) - rows[u]]
  BY DEF Settlement!Join
<1> HIDE DEF old
<1>3. Settlement!Clamped(u) \in Nat /\ rows[u] \in Nat /\ poolOf[u] = NoPool
  BY <1>0, ClampedType DEF Settlement!TypeOK, Settlement!Join
<1>4. Settlement!TypeOK'
  <2>1. charged' \in [People -> Nat] /\ carry' \in [People -> Int]
    BY <1>1, <1>2, <1>3
  <2>2. /\ rows' \in [People -> Nat] /\ poolOf' \in [People -> Pools \cup {NoPool}]
        /\ limit' \in [People -> Limits] /\ active' \in [People -> BOOLEAN]
        /\ opening' \in [People -> Nat] /\ since' \in [People -> Nat]
        /\ changes' \in 0..MaxChanges /\ purged' \in BOOLEAN
    BY <1>0, <1>3 DEF Settlement!TypeOK, Settlement!Join, Settlement!profile, Settlement!SettlementAssumption
  <2>3. ASSUME NEW v \in People, poolOf'[v] = NoPool PROVE charged'[v] = 0
    <3>1. v # u /\ poolOf[v] = NoPool
      BY <1>0, <2>3 DEF Settlement!Join, Settlement!TypeOK
    <3>2. v \notin Settlement!Members(p)
      BY <1>0, <3>1 DEF Settlement!Members
    <3> QED
      BY <1>0, <1>1, <1>2, <3>1, <3>2 DEF Settlement!TypeOK
  <2> QED
    BY <2>1, <2>2, <2>3 DEF Settlement!TypeOK
<1>5. ASSUME NEW v \in People, v # u
      PROVE  /\ rows'[v] = rows[v] /\ charged'[v] = old.charged[v] /\ carry'[v] = old.carry[v]
             /\ opening'[v] = opening[v] /\ since'[v] = since[v] /\ poolOf'[v] = poolOf[v]
  BY <1>0, <1>1, <1>2, <1>5 DEF Settlement!TypeOK, Settlement!Join
<1>6. /\ rows'[u] = rows[u] /\ charged'[u] = Settlement!Clamped(u) /\ carry'[u] = Settlement!Clamped(u) - rows[u]
      /\ opening'[u] = Settlement!Clamped(u) /\ since'[u] = 0 /\ poolOf'[u] = p
  BY <1>0, <1>1, <1>2 DEF Settlement!TypeOK, Settlement!Join
<1>7. ASSUME ~purged, NEW v \in Settlement!Members(p)'
      PROVE  /\ rows'[v] + carry'[v] = charged'[v]
             /\ charged'[v] <= opening'[v] + since'[v]
  <2>1. CASE v = u
    BY <1>3, <1>6, <2>1
  <2>2. CASE v # u
    <3>1. v \in Settlement!Members(p) /\ v \in People
      BY <1>5, <1>7, <2>2 DEF Settlement!Members
    <3>2. Bound[v] = opening[v] + since[v]
      BY <3>1 DEF Bound
    <3> QED
      BY <1>0, <1>1, <1>5, <1>7, <2>2, <3>1, <3>2
  <2> QED
    BY <2>1, <2>2
<1>8. ASSUME ~purged, NEW q \in Pools PROVE Safe(q)'
  <2>1. CASE q = p
    BY <1>4, <1>7, <1>8, <2>1, SafeWhenClosed
  <2>2. CASE q # p
    <3>1. ASSUME NEW v \in Settlement!Members(q) PROVE v \in People /\ v # u /\ v \notin Settlement!Members(p)
      BY <1>0, <1>3, <2>2 DEF Settlement!Members, Settlement!SettlementAssumption
    <3>2. Settlement!Members(q)' = Settlement!Members(q)
      BY <1>3, <1>5, <1>6, <2>2 DEF Settlement!Members, Settlement!SettlementAssumption
    <3>3. ASSUME NEW v \in Settlement!Members(q)
          PROVE  /\ rows'[v] + carry'[v] = rows[v] + carry[v] /\ charged'[v] = charged[v]
                 /\ opening'[v] + since'[v] = opening[v] + since[v]
      BY <1>1, <1>5, <3>1
    <3> QED
      BY <1>0, <1>4, <1>8, <3>2, <3>3, SafeWhenSame
  <2> QED
    BY <2>1, <2>2
<1>9. purged' = purged
  BY DEF Settlement!Join
<1>10. ASSUME ~purged, NEW v \in Settlement!Members(p)' PROVE charged'[v] = rows'[v] + carry'[v]
  BY <1>7, <1>10
<1> QED
  BY <1>4, <1>8, <1>9, <1>10 DEF SInv

LEMMA LeaveCloses ==
    ASSUME Settlement!SettlementAssumption, SInv, NEW u \in People, NEW p, p = poolOf[u], Settlement!Leave(u)
    PROVE  /\ SInv'
           /\ ~purged => \A v \in Settlement!Members(p)' : charged'[v] = rows'[v] + carry'[v]
<1> DEFINE old == Settlement!Settled(p, FALSE)
<1>0. Settlement!TypeOK /\ (~purged => \A q \in Pools : Safe(q)) /\ p \in Pools /\ p # NoPool
  BY DEF SInv, Settlement!TypeOK, Settlement!Leave
<1>1. /\ old.charged \in [People -> Nat] /\ old.carry \in [People -> Int]
      /\ \A v \in People \ Settlement!Members(p) : old.charged[v] = charged[v] /\ old.carry[v] = carry[v]
      /\ Safe(p) => \A v \in Settlement!Members(p) : /\ rows[v] + old.carry[v] = old.charged[v]
                                          /\ old.charged[v] <= Bound[v]
  BY <1>0, SettledFits
<1>2. charged' = [old.charged EXCEPT ![u] = 0] /\ carry' = old.carry
  BY DEF Settlement!Leave
<1> HIDE DEF old
<1>3. Settlement!TypeOK'
  <2>1. charged' \in [People -> Nat] /\ carry' \in [People -> Int]
    BY <1>1, <1>2
  <2>2. /\ rows' \in [People -> Nat] /\ poolOf' \in [People -> Pools \cup {NoPool}]
        /\ limit' \in [People -> Limits] /\ active' \in [People -> BOOLEAN]
        /\ opening' \in [People -> Nat] /\ since' \in [People -> Nat]
        /\ changes' \in 0..MaxChanges /\ purged' \in BOOLEAN
    BY <1>0 DEF Settlement!TypeOK, Settlement!Leave, Settlement!profile, Settlement!SettlementAssumption
  <2>3. ASSUME NEW v \in People, poolOf'[v] = NoPool PROVE charged'[v] = 0
    <3>1. CASE v = u
      BY <1>1, <1>2, <3>1
    <3>2. CASE v # u
      <4>1. poolOf[v] = NoPool
        BY <1>0, <2>3, <3>2 DEF Settlement!Leave, Settlement!TypeOK
      <4>2. v \notin Settlement!Members(p)
        BY <1>0, <4>1 DEF Settlement!Members
      <4> QED
        BY <1>0, <1>1, <1>2, <3>2, <4>1, <4>2 DEF Settlement!TypeOK
    <3> QED
      BY <3>1, <3>2
  <2> QED
    BY <2>1, <2>2, <2>3 DEF Settlement!TypeOK
<1>4. ASSUME NEW v \in People, v # u
      PROVE  /\ rows'[v] = rows[v] /\ charged'[v] = old.charged[v] /\ carry'[v] = old.carry[v]
             /\ opening'[v] = opening[v] /\ since'[v] = since[v] /\ poolOf'[v] = poolOf[v]
  BY <1>0, <1>1, <1>2, <1>4 DEF Settlement!TypeOK, Settlement!Leave
<1>5. poolOf'[u] = NoPool /\ NoPool \notin Pools
  BY <1>0 DEF Settlement!TypeOK, Settlement!Leave, Settlement!SettlementAssumption
<1>6. ASSUME ~purged, NEW v \in People, poolOf'[v] = p
      PROVE  /\ rows'[v] + carry'[v] = charged'[v]
             /\ charged'[v] <= opening'[v] + since'[v]
  <2>1. v # u
    BY <1>0, <1>5, <1>6
  <2>2. v \in Settlement!Members(p)
    BY <1>4, <1>6, <2>1 DEF Settlement!Members
  <2>3. Bound[v] = opening[v] + since[v]
    BY DEF Bound
  <2> QED
    BY <1>0, <1>1, <1>4, <1>6, <2>1, <2>2, <2>3
<1>7. ASSUME ~purged, NEW q \in Pools PROVE Safe(q)'
  <2>1. CASE q = p
    <3>1. \A v \in Settlement!Members(q)' : /\ rows'[v] + carry'[v] = charged'[v]
                                 /\ charged'[v] <= opening'[v] + since'[v]
      BY <1>6, <1>7, <2>1 DEF Settlement!Members
    <3> QED
      BY <1>3, <3>1, SafeWhenClosed
  <2>2. CASE q # p
    <3>1. ASSUME NEW v \in Settlement!Members(q) PROVE v \in People /\ v # u /\ v \notin Settlement!Members(p)
      BY <2>2 DEF Settlement!Members
    <3>2. Settlement!Members(q)' = Settlement!Members(q)
      BY <1>4, <1>5, <2>2 DEF Settlement!Members
    <3>3. ASSUME NEW v \in Settlement!Members(q)
          PROVE  /\ rows'[v] + carry'[v] = rows[v] + carry[v] /\ charged'[v] = charged[v]
                 /\ opening'[v] + since'[v] = opening[v] + since[v]
      BY <1>1, <1>4, <3>1
    <3> QED
      BY <1>0, <1>3, <1>7, <3>2, <3>3, SafeWhenSame
  <2> QED
    BY <2>1, <2>2
<1>8. purged' = purged
  BY DEF Settlement!Leave
<1>9. ASSUME ~purged, NEW v \in Settlement!Members(p)' PROVE charged'[v] = rows'[v] + carry'[v]
  BY <1>6, <1>9 DEF Settlement!Members
<1> QED
  BY <1>3, <1>7, <1>8, <1>9 DEF SInv

LEMMA DissolveCloses ==
    ASSUME Settlement!SettlementAssumption, SInv, NEW p \in Pools, Settlement!Dissolve(p)
    PROVE  SInv' /\ Settlement!Members(p)' = {}
<1> DEFINE old == Settlement!Settled(p, TRUE)
<1>0. Settlement!TypeOK /\ (~purged => \A q \in Pools : Safe(q)) /\ p # NoPool /\ NoPool \notin Pools
  BY DEF SInv, Settlement!SettlementAssumption
<1>1. /\ old.carry \in [People -> Int]
      /\ \A v \in People \ Settlement!Members(p) : old.carry[v] = carry[v]
  BY <1>0, SettledFits
<1>2. carry' = old.carry
  BY DEF Settlement!Dissolve
<1> HIDE DEF old
<1>3. ASSUME NEW v \in People
      PROVE  /\ rows'[v] = rows[v]
             /\ v \in Settlement!Members(p) => charged'[v] = 0 /\ poolOf'[v] = NoPool
             /\ v \notin Settlement!Members(p) =>
                   /\ charged'[v] = charged[v] /\ carry'[v] = carry[v]
                   /\ poolOf'[v] = poolOf[v] /\ opening'[v] = opening[v] /\ since'[v] = since[v]
  BY <1>1, <1>2 DEF Settlement!Dissolve
<1>4. Settlement!TypeOK'
  <2>1. /\ rows' \in [People -> Nat] /\ poolOf' \in [People -> Pools \cup {NoPool}]
        /\ limit' \in [People -> Limits] /\ active' \in [People -> BOOLEAN]
        /\ changes' \in 0..MaxChanges /\ purged' \in BOOLEAN
    BY <1>0 DEF Settlement!TypeOK, Settlement!Dissolve, Settlement!profile, Settlement!SettlementAssumption
  <2>2. charged' \in [People -> Nat] /\ opening' \in [People -> Nat] /\ since' \in [People -> Nat]
    BY <1>0 DEF Settlement!TypeOK, Settlement!Dissolve
  <2>3. \A v \in People : poolOf'[v] = NoPool => charged'[v] = 0
    BY <1>0, <1>3 DEF Settlement!TypeOK
  <2> QED
    BY <1>1, <1>2, <2>1, <2>2, <2>3 DEF Settlement!TypeOK
<1>5. Settlement!Members(p)' = {}
  BY <1>0, <1>3 DEF Settlement!Members
<1>6. ASSUME ~purged, NEW q \in Pools PROVE Safe(q)'
  <2>1. CASE q = p
    BY <1>4, <1>5, <2>1, SafeWhenClosed
  <2>2. CASE q # p
    <3>1. \A v \in Settlement!Members(q) : v \in People /\ v \notin Settlement!Members(p)
      BY <2>2 DEF Settlement!Members
    <3>2. Settlement!Members(q)' = Settlement!Members(q)
      BY <1>0, <1>3, <2>2 DEF Settlement!Members
    <3>3. \A v \in Settlement!Members(q) :
             /\ rows'[v] + carry'[v] = rows[v] + carry[v] /\ charged'[v] = charged[v]
             /\ opening'[v] + since'[v] = opening[v] + since[v]
      BY <1>3, <3>1
    <3> QED
      BY <1>0, <1>4, <1>6, <3>2, <3>3, SafeWhenSame
  <2> QED
    BY <2>1, <2>2
<1>7. purged' = purged
  BY DEF Settlement!Dissolve
<1> QED
  BY <1>4, <1>5, <1>6, <1>7 DEF SInv

LEMMA ResettleCloses ==
    ASSUME Settlement!SettlementAssumption, SInv, NEW p \in Pools, Settlement!Resettle(p)
    PROVE  SInv'
<1> DEFINE old == Settlement!Settled(p, FALSE)
<1>0. Settlement!TypeOK /\ (~purged => \A q \in Pools : Safe(q)) /\ p # NoPool
  BY DEF SInv, Settlement!SettlementAssumption
<1>1. /\ old.charged \in [People -> Nat] /\ old.carry \in [People -> Int]
      /\ \A v \in People \ Settlement!Members(p) : old.charged[v] = charged[v] /\ old.carry[v] = carry[v]
      /\ Safe(p) => \A v \in Settlement!Members(p) : /\ rows[v] + old.carry[v] = old.charged[v]
                                          /\ old.charged[v] <= Bound[v]
  BY <1>0, SettledFits
<1>2. charged' = old.charged /\ carry' = old.carry
  BY DEF Settlement!Resettle
<1> HIDE DEF old
<1>3. /\ rows' = rows /\ poolOf' = poolOf /\ opening' = opening /\ since' = since /\ purged' = purged
      /\ \A q : Settlement!Members(q)' = Settlement!Members(q)
  BY DEF Settlement!Resettle, Settlement!Members
<1>4. Settlement!TypeOK'
  <2>1. limit' \in [People -> Limits] /\ active' \in [People -> BOOLEAN] /\ changes' \in 0..MaxChanges
    BY <1>0 DEF Settlement!TypeOK, Settlement!Resettle, Settlement!profile, Settlement!SettlementAssumption
  <2>2. \A v \in People : poolOf'[v] = NoPool => charged'[v] = 0
    BY <1>0, <1>1, <1>2, <1>3 DEF Settlement!TypeOK, Settlement!Members
  <2> QED
    BY <1>0, <1>1, <1>2, <1>3, <2>1, <2>2 DEF Settlement!TypeOK
<1>5. ASSUME ~purged, NEW q \in Pools PROVE Safe(q)'
  <2>1. CASE q = p
    <3>1. \A v \in Settlement!Members(q)' : /\ rows'[v] + carry'[v] = charged'[v]
                                 /\ charged'[v] <= opening'[v] + since'[v]
      BY <1>0, <1>1, <1>2, <1>3, <1>5, <2>1 DEF Bound, Settlement!Members
    <3> QED
      BY <1>4, <3>1, SafeWhenClosed
  <2>2. CASE q # p
    <3>1. \A v \in Settlement!Members(q) :
             /\ rows'[v] + carry'[v] = rows[v] + carry[v] /\ charged'[v] = charged[v]
             /\ opening'[v] + since'[v] = opening[v] + since[v]
      BY <1>1, <1>2, <1>3, <2>2 DEF Settlement!Members
    <3> QED
      BY <1>0, <1>3, <1>4, <1>5, <3>1, SafeWhenSame
  <2> QED
    BY <2>1, <2>2
<1> QED
  BY <1>3, <1>4, <1>5 DEF SInv

LEMMA NextSafe == ASSUME Settlement!SettlementAssumption, SInv, [Settlement!Next]_(Settlement!vars) PROVE SInv'
<1>0. Settlement!TypeOK /\ (~purged => \A q \in Pools : Safe(q))
  BY DEF SInv
<1>1. ASSUME rows' = rows, carry' = carry, charged' = charged, poolOf' = poolOf,
             opening' = opening, since' = since, purged' = purged, Settlement!TypeOK'
      PROVE  SInv'
  <2>1. ASSUME NEW q \in Pools, Safe(q) PROVE Safe(q)'
    <3>1. Settlement!Members(q)' = Settlement!Members(q)
      BY <1>1 DEF Settlement!Members
    <3> QED
      BY <1>0, <1>1, <2>1, <3>1, SafeWhenSame
  <2> QED
    BY <1>0, <1>1, <2>1 DEF SInv
<1>2. ASSUME NEW u \in People, Settlement!Use(u) PROVE SInv'
  BY <1>2, UseSafe
<1>3. ASSUME NEW u \in People, Settlement!Leave(u) PROVE SInv'
  <2>1. PICK p : p = poolOf[u]
    OBVIOUS
  <2> QED
    BY <1>3, <2>1, LeaveCloses
<1>4. ASSUME NEW u \in People, Settlement!SetActive(u) PROVE SInv'
  <2>1. Settlement!TypeOK'
    BY <1>0, <1>4 DEF Settlement!TypeOK, Settlement!SetActive, Settlement!store, Settlement!SettlementAssumption
  <2> QED
    BY <1>1, <1>4, <2>1 DEF Settlement!SetActive, Settlement!store
<1>5. ASSUME NEW u \in People, NEW p \in Pools, Settlement!Join(u, p) PROVE SInv'
  BY <1>5, JoinCloses
<1>6. ASSUME NEW p \in Pools, Settlement!Dissolve(p) PROVE SInv'
  BY <1>6, DissolveCloses
<1>7. ASSUME NEW p \in Pools, Settlement!Resettle(p) PROVE SInv'
  BY <1>7, ResettleCloses
<1>8. ASSUME NEW u \in People, NEW l \in Limits, Settlement!SetLimit(u, l) PROVE SInv'
  <2>1. Settlement!TypeOK'
    BY <1>0, <1>8 DEF Settlement!TypeOK, Settlement!SetLimit, Settlement!store, Settlement!SettlementAssumption
  <2> QED
    BY <1>1, <1>8, <2>1 DEF Settlement!SetLimit, Settlement!store
<1>9. ASSUME NEW remaining \in [People -> 0..MaxRows], Settlement!Purge(remaining) PROVE SInv'
  <2>1. Settlement!TypeOK' /\ purged' = TRUE
    BY <1>0, <1>9 DEF Settlement!TypeOK, Settlement!Purge, Settlement!profile, Settlement!SettlementAssumption
  <2> QED
    BY <2>1 DEF SInv
<1>10. ASSUME Settlement!Midnight PROVE SInv'
  <2>1. Settlement!Zero \in [People -> Nat] /\ Settlement!Zero \in [People -> Int] /\ \A v \in People : Settlement!Zero[v] = 0
    BY DEF Settlement!Zero
  <2>2. Settlement!TypeOK'
    BY <1>0, <1>10, <2>1 DEF Settlement!TypeOK, Settlement!Midnight, Settlement!profile
  <2>3. ASSUME NEW q \in Pools PROVE Safe(q)'
    <3>1. \A v \in Settlement!Members(q)' : v \in People
      BY DEF Settlement!Members
    <3>2. \A v \in Settlement!Members(q)' : /\ rows'[v] + carry'[v] = charged'[v]
                                 /\ charged'[v] <= opening'[v] + since'[v]
      BY <1>10, <2>1, <3>1 DEF Settlement!Midnight
    <3> QED
      BY <2>2, <3>2, SafeWhenClosed
  <2> QED
    BY <2>2, <2>3 DEF SInv
<1>11. CASE UNCHANGED Settlement!vars
  <2>1. Settlement!TypeOK'
    BY <1>0, <1>11 DEF Settlement!TypeOK, Settlement!vars, Settlement!store, Settlement!profile
  <2> QED
    BY <1>1, <1>11, <2>1 DEF Settlement!vars, Settlement!store
<1>12. CASE Settlement!Next
  BY <1>2, <1>3, <1>4, <1>5, <1>6, <1>7, <1>8, <1>9, <1>10, <1>12 DEF Settlement!Next
<1> QED
  BY <1>11, <1>12

LEMMA SettlementInvariance == Settlement!Spec => []SInv
<1> USE LedgerAssumption
<1>1. Settlement!Init => SInv
  BY InitSafe
<1>2. SInv /\ [Settlement!Next]_(Settlement!vars) => SInv'
  BY NextSafe
<1> QED
  BY <1>1, <1>2, PTL DEF Settlement!Spec

-----------------------------------------------------------------------------
\* Rows, carries and the ledger have their types: whatever is purged, edited, split and
\* pinned, no ledger row ever goes below nothing.
THEOREM SettlementTypes == Settlement!Spec => []Settlement!TypeOK
<1>1. SInv => Settlement!TypeOK
  BY DEF SInv
<1> QED
  BY <1>1, SettlementInvariance, PTL

LEMMA LedgerOwnTime == Settlement!Spec => []Settlement!NeverChargedForThePast
<1>1. ASSUME SInv PROVE Settlement!NeverChargedForThePast
  <2> SUFFICES ASSUME ~purged, NEW u \in People, poolOf[u] # NoPool
               PROVE  charged[u] <= opening[u] + since[u]
    BY DEF Settlement!NeverChargedForThePast
  <2>1. PICK p : p = poolOf[u]
    OBVIOUS
  <2>2. Settlement!TypeOK /\ p \in Pools /\ u \in Settlement!Members(p) /\ Safe(p)
    BY <1>1, <2>1 DEF SInv, Settlement!TypeOK, Settlement!Members
  <2>3. PICK e : e = Settlement!UsedBy
    OBVIOUS
  <2>4. PICK c : c = charged
    OBVIOUS
  <2>5. PICK A : A = Settlement!Members(p)
    OBVIOUS
  <2>6. PICK b : b = Bound
    OBVIOUS
  <2>7. /\ IsFiniteSet(People) /\ A \in SUBSET People /\ u \in A
        /\ Numbers(e, c, b, People) /\ OwedBy(e, c, A, b) /\ b[u] = opening[u] + since[u]
    BY <2>2, <2>3, <2>4, <2>5, <2>6, Typed, LedgerAssumption DEF Numbers, Safe
  <2>8. c[u] <= b[u]
    BY <2>7, OwedMeans
  <2> QED
    BY <2>4, <2>7, <2>8
<1>2. SInv => Settlement!NeverChargedForThePast
  BY <1>1
<1> QED
  BY <1>2, SettlementInvariance, PTL

LEMMA LedgerIsUse == Settlement!Spec => Settlement!ChargesAreUse
<1> USE LedgerAssumption
<1> DEFINE A == \A p \in Pools : Settlement!Members(p)' # Settlement!Members(p) /\ ~purged =>
                    \A u \in Settlement!Members(p)' : charged'[u] = Settlement!Effective(u)'
<1>1. ASSUME SInv, [Settlement!Next]_(Settlement!vars) PROVE A
  <2> SUFFICES ASSUME NEW p \in Pools, Settlement!Members(p)' # Settlement!Members(p), ~purged, NEW u \in Settlement!Members(p)'
               PROVE  charged'[u] = rows'[u] + carry'[u]
    BY DEF Settlement!Effective
  <2>1. ASSUME NEW v \in People, NEW q \in Pools, Settlement!Join(v, q) PROVE charged'[u] = rows'[u] + carry'[u]
    <3>1. q = p
      <4>1. v \in People /\ poolOf[v] = NoPool /\ p # NoPool
        BY <2>1 DEF Settlement!Join, Settlement!SettlementAssumption
      <4>2. q # p => Settlement!Members(p)' = Settlement!Members(p)
        BY <1>1, <2>1, <4>1 DEF Settlement!Members, Settlement!Join, SInv, Settlement!TypeOK
      <4> QED
        BY <4>2
    <3> QED
      BY <1>1, <2>1, <3>1, JoinCloses
  <2>2. ASSUME NEW v \in People, Settlement!Leave(v) PROVE charged'[u] = rows'[u] + carry'[u]
    <3>1. p = poolOf[v]
      <4>1. p # NoPool
        BY DEF Settlement!SettlementAssumption
      <4>2. p # poolOf[v] => Settlement!Members(p)' = Settlement!Members(p)
        BY <1>1, <2>2, <4>1 DEF Settlement!Members, Settlement!Leave, SInv, Settlement!TypeOK
      <4> QED
        BY <4>2
    <3> QED
      BY <1>1, <2>2, <3>1, LeaveCloses
  <2>3. ASSUME NEW q \in Pools, Settlement!Dissolve(q) PROVE charged'[u] = rows'[u] + carry'[u]
    <3>1. CASE q = p
      BY <1>1, <2>3, <3>1, DissolveCloses
    <3>2. CASE q # p
      <4>1. p # NoPool
        BY DEF Settlement!SettlementAssumption
      <4>2. Settlement!Members(p)' = Settlement!Members(p)
        BY <2>3, <3>2, <4>1 DEF Settlement!Members, Settlement!Dissolve
      <4> QED
        BY <4>2
    <3> QED
      BY <3>1, <3>2
  <2>4. CASE poolOf' = poolOf
    BY <2>4 DEF Settlement!Members
  <2>5. CASE Settlement!Next
    <3>1. ASSUME NEW v \in People, Settlement!Use(v) \/ Settlement!SetActive(v) PROVE poolOf' = poolOf
      BY <3>1 DEF Settlement!Use, Settlement!SetActive
    <3>2. ASSUME NEW q \in Pools, Settlement!Resettle(q) PROVE poolOf' = poolOf
      BY <3>2 DEF Settlement!Resettle
    <3>3. ASSUME NEW v \in People, NEW l \in Limits, Settlement!SetLimit(v, l) PROVE poolOf' = poolOf
      BY <3>3 DEF Settlement!SetLimit
    <3>4. ASSUME NEW remaining \in [People -> 0..MaxRows], Settlement!Purge(remaining) PROVE poolOf' = poolOf
      BY <3>4 DEF Settlement!Purge
    <3>5. ASSUME Settlement!Midnight PROVE poolOf' = poolOf
      BY <3>5 DEF Settlement!Midnight
    <3> QED
      BY <2>1, <2>2, <2>3, <2>4, <2>5, <3>1, <3>2, <3>3, <3>4, <3>5 DEF Settlement!Next
  <2> QED
    BY <1>1, <2>4, <2>5 DEF Settlement!vars
<1>2. SInv /\ [Settlement!Next]_(Settlement!vars) => A
  BY <1>1
<1>3. Settlement!Spec => [][A]_(Settlement!vars)
  BY <1>2, SettlementInvariance, PTL DEF Settlement!Spec
<1> QED
  BY <1>3 DEF Settlement!ChargesAreUse

-----------------------------------------------------------------------------
(* Fair, whatever is to be charged or refunded.                             *)

LEMMA FairWhenDealt ==
    ASSUME Settlement!SettlementAssumption, Settlement!TypeOK, NEW p \in Pools, ~Settlement!UnlimitedPool(p)
    PROVE  Settlement!Fair(p, Settlement!Delta(p),
                           Settlement!Apportion(Settlement!Delta(p), Settlement!Members(p),
                               [u \in Settlement!Members(p) |-> Settlement!Weight(u)], charged))
<1>1. PICK M : M = Settlement!Members(p)
  OBVIOUS
<1>2. PICK delta : delta = Settlement!Delta(p)
  OBVIOUS
<1>3. PICK w : w = [u \in M |-> Settlement!Weight(u)]
  OBVIOUS
<1>4. PICK charge : charge = charged
  OBVIOUS
<1>5. /\ IsFiniteSet(M) /\ M \in SUBSET Nat /\ M \subseteq People /\ delta \in Int
      /\ (\A u \in M : charge[u] \in Nat) /\ \A u \in M : rows[u] \in Nat
  <2>1. /\ IsFiniteSet(M) /\ M \in SUBSET People /\ People \in SUBSET Nat /\ delta \in Int
        /\ rows \in [People -> Nat] /\ charged \in [People -> Nat]
    BY <1>1, <1>2, Typed
  <2> QED
    BY <1>4, <2>1
<1>6. w \in [M -> Nat]
  <2> SUFFICES ASSUME NEW u \in M PROVE Settlement!Weight(u) \in Nat
    BY <1>3
  <2>1. u \in People /\ limit[u] \in Limits /\ charged[u] \in Nat
    BY <1>5 DEF Settlement!TypeOK
  <2>2. active[u] => limit[u] # Unlimited
    BY <1>1 DEF Settlement!UnlimitedPool
  <2>3. active[u] => limit[u] \in Nat
    BY <2>1, <2>2 DEF Settlement!SettlementAssumption
  <2> QED
    BY <2>1, <2>3 DEF Settlement!Weight
<1> DEFINE shares == Settlement!Apportion(delta, M, w, charge)
           size == Sized(delta, M, shares)
           room == RoomFor(delta, M, w, charge)
<1>7. (\A u \in M : size[u] \in 0..room[u]) /\ Dealt(size, Total(delta), M, room, w)
  BY <1>5, <1>6, ApportionDealt
<1> HIDE DEF shares
<1>8. DOMAIN size = M
  BY DEF Sized
<1>9. Settlement!SumFunction(size) = Sum(size, M) /\ Takers(M, room, w) = Settlement!SumFunctionOnSet(room, {u \in M : w[u] > 0})
  <2>1. {u \in M : w[u] > 0} = {u \in M : w[u] # 0}
    BY <1>6
  <2> HIDE DEF size, room
  <2> QED
    BY Zenon, <1>8, <2>1 DEF Takers, Sum, Settlement!SumFunction
<1>10. Settlement!Fair(p, delta, shares)
  BY Zenon, <1>1, <1>3, <1>4, <1>7, <1>9 DEF Settlement!Fair, Dealt, InProportion, Sized, RoomFor, Total
<1> QED
  BY <1>1, <1>2, <1>3, <1>4, <1>10 DEF shares

-----------------------------------------------------------------------------
(* Moving is neutral.  What a settlement leaves of the uses of a limited    *)
(* pool adds up to its use or its limits, whichever is less (LimitedUse);   *)
(* so what may still be sent afterwards, limits less uses (PartSettled), is *)
(* what could be sent before, and nobody else is concerned (SpareKept).     *)

\* Users D with limits l and uses e, who are in the pools pl of Q or in none; what they may
\* still send, alone and in each pool.
In(pl, q, D) == {u \in D : pl[u] = q}

OwnSpare(l, e, pl, no, D) ==
    [u \in D |-> IF pl[u] = no THEN Settlement!Max0(l[u] - Settlement!Max0(e[u])) ELSE 0]

PoolSpare(l, e, pl, D, Q) ==
    [q \in Q |-> Settlement!Max0(Sum(l, In(pl, q, D)) - Sum(e, In(pl, q, D)))]

World(l, e, pl, no, D, Q) ==
    /\ IsFiniteSet(D) /\ IsFiniteSet(Q) /\ no \notin Q
    /\ l \in [D -> Nat] /\ e \in [D -> Int] /\ pl \in [D -> Q \cup {no}]

\* Those whom a change concerns, each in pool p or in none, with all that are in p.
Around(X, p, pl, no, D, Q) ==
    X \subseteq D /\ p \in Q /\ In(pl, p, D) \subseteq X /\ \A u \in X : pl[u] \in {p, no}

PartOf(X, p, l, e, pl, no, D, Q) == Sum(OwnSpare(l, e, pl, no, D), X) + PoolSpare(l, e, pl, D, Q)[p]

LEMMA SpareTypes ==
    ASSUME NEW l, NEW e, NEW pl, NEW no, NEW D, NEW Q, World(l, e, pl, no, D, Q)
    PROVE  /\ OwnSpare(l, e, pl, no, D) \in [D -> Nat] /\ OwnSpare(l, e, pl, no, D) \in [D -> Int]
           /\ \A u \in D : pl[u] = no /\ e[u] \in 0..l[u] => OwnSpare(l, e, pl, no, D)[u] = l[u] - e[u]
           /\ \A u \in D : pl[u] # no => OwnSpare(l, e, pl, no, D)[u] = 0
           /\ PoolSpare(l, e, pl, D, Q) \in [Q -> Nat] /\ PoolSpare(l, e, pl, D, Q) \in [Q -> Int]
           /\ \A q \in Q : In(pl, q, D) \in SUBSET D
<1>0. IsFiniteSet(D) /\ l \in [D -> Nat] /\ l \in [D -> Int] /\ e \in [D -> Int]
  BY DEF World
<1>1. \A n \in Int : Settlement!Max0(n) \in Nat /\ (n >= 0 => Settlement!Max0(n) = n)
  BY DEF Settlement!Max0
<1>2. ASSUME NEW u \in D
      PROVE  /\ Settlement!Max0(l[u] - Settlement!Max0(e[u])) \in Nat
             /\ e[u] \in 0..l[u] => Settlement!Max0(l[u] - Settlement!Max0(e[u])) = l[u] - e[u]
  <2>1. l[u] \in Nat /\ e[u] \in Int
    BY <1>0
  <2> QED
    BY <1>1, <2>1
<1>3. \A q : In(pl, q, D) \in SUBSET D
  BY DEF In
<1>4. \A q : Sum(l, In(pl, q, D)) \in Int /\ Sum(e, In(pl, q, D)) \in Int
  BY <1>0, <1>3, SumTake
<1>5. \A q : Settlement!Max0(Sum(l, In(pl, q, D)) - Sum(e, In(pl, q, D))) \in Nat
  BY <1>1, <1>4
<1>6. PoolSpare(l, e, pl, D, Q) \in [Q -> Nat]
  BY <1>5 DEF PoolSpare
<1>7. OwnSpare(l, e, pl, no, D) \in [D -> Nat]
  BY <1>2 DEF OwnSpare
<1>8. /\ \A u \in D : pl[u] = no /\ e[u] \in 0..l[u] => OwnSpare(l, e, pl, no, D)[u] = l[u] - e[u]
      /\ \A u \in D : pl[u] # no => OwnSpare(l, e, pl, no, D)[u] = 0
  BY <1>2 DEF OwnSpare
<1>9. \A E : (\A f \in [E -> Nat] : f \in [E -> Int])
  OBVIOUS
<1> QED
  BY <1>3, <1>6, <1>7, <1>8, <1>9

\* Where everyone's use is within their limit, what is to spare is what is not used of the limits.
LEMMA PartSettled ==
    ASSUME NEW l, NEW e, NEW pl, NEW no, NEW D, NEW Q, World(l, e, pl, no, D, Q),
           NEW X, NEW p, Around(X, p, pl, no, D, Q), \A u \in X : e[u] \in 0..l[u]
    PROVE  PartOf(X, p, l, e, pl, no, D, Q) = Sum(l, X) - Sum(e, X)
<1> DEFINE a == OwnSpare(l, e, pl, no, D)
           B == In(pl, p, D)
           d == [u \in D |-> l[u] - e[u]]
<1>0. IsFiniteSet(D) /\ l \in [D -> Int] /\ e \in [D -> Int] /\ X \in SUBSET D /\ p \in Q /\ p # no
  BY DEF World, Around
<1>1. /\ a \in [D -> Nat] /\ a \in [D -> Int]
      /\ \A u \in D : pl[u] = no /\ e[u] \in 0..l[u] => a[u] = l[u] - e[u]
      /\ \A u \in D : pl[u] # no => a[u] = 0
  BY SpareTypes
<1> HIDE DEF a
<1>2. /\ B \in SUBSET D /\ B \subseteq X /\ X \ B \in SUBSET D
      /\ \A u \in B : pl[u] # no
      /\ \A u \in X \ B : pl[u] = no
  BY <1>0 DEF Around, In
<1>3. d \in [D -> Int] /\ Together(d, e, l, D) /\ \A u \in D : d[u] = l[u] - e[u]
  <2>1. \A u \in D : l[u] \in Int /\ e[u] \in Int
    BY <1>0
  <2>2. \A u \in D : d[u] = l[u] - e[u] /\ l[u] = d[u] + e[u]
    BY <2>1
  <2>3. d \in [D -> Int]
    BY <2>1
  <2> HIDE DEF d
  <2> QED
    BY <1>0, <2>2, <2>3 DEF Together
<1>4. PoolSpare(l, e, pl, D, Q)[p] = Settlement!Max0(Sum(l, B) - Sum(e, B))
  BY <1>0 DEF PoolSpare
<1> HIDE DEF B, d
<1>5. Sum(a, X) = Sum(a, X \ B)
  <2>1. Pins(B, X, D, a) /\ Nought(a, B, D)
    BY <1>0, <1>1, <1>2 DEF Pins, Nought
  <2>2. Sum(a, X) = Sum(a, B) + Sum(a, X \ B) /\ Sum(a, B) = 0
    BY <2>1, SumUnpinned, SumNone
  <2>3. Sum(a, X \ B) \in Int
    BY <1>0, <1>1, <1>2, SumTake
  <2> QED
    BY <2>2, <2>3
<1>6. Sum(a, X \ B) = Sum(d, X \ B)
  <2>1. Alike(a, D, d, D, X \ B)
    BY <1>1, <1>2, <1>3 DEF Alike
  <2> QED
    BY <1>0, <2>1, SumSame
<1>7. /\ Sum(l, B) = Sum(d, B) + Sum(e, B) /\ Sum(l, X) = Sum(d, X) + Sum(e, X)
      /\ Sum(d, B) \in Int /\ Sum(e, B) \in Int /\ Sum(d, X) \in Int /\ Sum(e, X) \in Int
      /\ Sum(d, X \ B) \in Int
  <2>1. Sum(l, B) = Sum(d, B) + Sum(e, B)
    BY <1>0, <1>2, <1>3, SumTogether
  <2>2. Sum(l, X) = Sum(d, X) + Sum(e, X)
    BY <1>0, <1>3, SumTogether
  <2> QED
    BY <1>0, <1>2, <1>3, <2>1, <2>2, SumTake
<1>8. Sum(e, B) <= Sum(l, B)
  <2>1. \A u \in B : e[u] <= l[u]
    <3> TAKE u \in B
    <3>1. u \in D /\ e[u] \in 0..l[u] /\ l[u] \in Int
      BY <1>0, <1>2
    <3> QED
      BY <3>1
  <2> QED
    BY <1>0, <1>2, <2>1, SumLe
<1>9. Sum(d, X) = Sum(d, B) + Sum(d, X \ B)
  <2>1. Within(B, X, D)
    BY <1>0, <1>2 DEF Within
  <2> QED
    BY <1>0, <1>3, <2>1, SumSplit
<1>10. PoolSpare(l, e, pl, D, Q)[p] = Sum(d, B)
  BY <1>4, <1>7, <1>8 DEF Settlement!Max0
<1> QED
  BY <1>5, <1>6, <1>7, <1>9, <1>10 DEF PartOf, a

Spares(l, e, pl, no, D, Q) == Sum(OwnSpare(l, e, pl, no, D), D) + Sum(PoolSpare(l, e, pl, D, Q), Q)

\* A change that concerns X and p only, and leaves their part, leaves the whole.
LEMMA SpareKept ==
    ASSUME NEW l, NEW e, NEW pl, NEW no, NEW D, NEW Q, World(l, e, pl, no, D, Q),
           NEW f, NEW ql, World(l, f, ql, no, D, Q),
           NEW X, NEW p, Around(X, p, pl, no, D, Q), Around(X, p, ql, no, D, Q),
           \A u \in D \ X : pl[u] = ql[u] /\ e[u] = f[u],
           PartOf(X, p, l, e, pl, no, D, Q) = PartOf(X, p, l, f, ql, no, D, Q)
    PROVE  Spares(l, e, pl, no, D, Q) = Spares(l, f, ql, no, D, Q)
<1> DEFINE a == OwnSpare(l, e, pl, no, D)
           b == OwnSpare(l, f, ql, no, D)
           s == PoolSpare(l, e, pl, D, Q)
           t == PoolSpare(l, f, ql, D, Q)
<1>0. /\ IsFiniteSet(D) /\ IsFiniteSet(Q) /\ l \in [D -> Int] /\ e \in [D -> Int] /\ f \in [D -> Int]
      /\ X \in SUBSET D /\ p \in Q /\ D \ X \in SUBSET D
  BY DEF World, Around
<1>1. a \in [D -> Nat] /\ a \in [D -> Int] /\ s \in [Q -> Int] /\ b \in [D -> Nat] /\ b \in [D -> Int] /\ t \in [Q -> Int]
  BY SpareTypes
<1>2. Alike(a, D, b, D, D \ X)
  <2>1. \A u \in D \ X : a[u] = b[u]
    BY DEF OwnSpare
  <2> HIDE DEF a, b
  <2> QED
    BY <1>0, <1>1, <2>1 DEF Alike
<1>3. Alike(s, Q, t, Q, Q \ {p})
  <2>1. ASSUME NEW q \in Q, q # p PROVE s[q] = t[q]
    <3>1. In(pl, q, D) = In(ql, q, D) /\ In(pl, q, D) \subseteq D \ X
      BY <2>1 DEF In, Around, World
    <3> DEFINE A == In(pl, q, D)
    <3>2. Alike(e, D, f, D, A)
      BY <1>0, <3>1 DEF Alike
    <3>3. Sum(e, A) = Sum(f, A)
      BY <1>0, <3>2, SumSame
    <3> QED
      BY <2>1, <3>1, <3>3 DEF PoolSpare
  <2> HIDE DEF s, t
  <2> QED
    BY <1>0, <1>1, <2>1 DEF Alike
<1>4. Sum(a, X) + s[p] = Sum(b, X) + t[p]
  BY DEF PartOf
<1> HIDE DEF a, b, s, t
<1>5. Sum(a, D \ X) = Sum(b, D \ X) /\ Sum(s, Q \ {p}) = Sum(t, Q \ {p})
  BY <1>0, <1>2, <1>3, SumSame
<1>6. Sum(a, D) = Sum(a, X) + Sum(a, D \ X) /\ Sum(b, D) = Sum(b, X) + Sum(b, D \ X)
  <2>1. Pins(X, D, D, a) /\ Pins(X, D, D, b)
    BY <1>0, <1>1 DEF Pins
  <2> QED
    BY <2>1, SumUnpinned
<1>7. Sum(s, Q) = s[p] + Sum(s, Q \ {p}) /\ Sum(t, Q) = t[p] + Sum(t, Q \ {p})
  BY <1>0, <1>1, SumTake
<1>8. /\ Sum(a, X) \in Int /\ Sum(a, D \ X) \in Int /\ Sum(b, X) \in Int /\ Sum(b, D \ X) \in Int
      /\ Sum(s, Q \ {p}) \in Int /\ Sum(t, Q \ {p}) \in Int /\ s[p] \in Int /\ t[p] \in Int
  BY <1>0, <1>1, SumTake
<1> QED
  BY <1>4, <1>5, <1>6, <1>7, <1>8 DEF Spares, a, b, s, t

\* The members M are charged y after their shares of delta, by weights w, within their room.
Deal(M, delta, w, charge, y, room) ==
    /\ M \in SUBSET Nat /\ IsFiniteSet(M) /\ M \subseteq People /\ delta \in Int
    /\ w \in [M -> Nat] /\ (\A u \in M : charge[u] \in Nat) /\ \A u \in M : rows[u] \in Nat
    /\ y = [u \in M |-> charge[u] + Settlement!Apportion(delta, M, w, charge)[u]]
    /\ room = RoomFor(delta, M, w, charge)

\* What they are charged then, together.
LEMMA DealSums ==
    ASSUME NEW M, NEW delta, NEW w, NEW charge, NEW y, NEW room, Deal(M, delta, w, charge, y, room)
    PROVE  /\ y \in [M -> Nat] /\ room \in [M -> Nat]
           /\ Sum(y, M) \in Int /\ Sum(charge, M) \in Int /\ Takers(M, room, w) \in Int
           /\ delta >= 0 => /\ \A u \in M : y[u] <= charge[u] + room[u]
                            /\ Sum(y, M) = Sum(charge, M) + (IF delta < Takers(M, room, w) THEN delta ELSE Takers(M, room, w))
           /\ delta < 0 => Sum(y, M) >= Sum(charge, M) + delta
<1> USE DEF Deal
<1> DEFINE x == Settlement!Apportion(delta, M, w, charge)
           size == Sized(delta, M, x)
           c == [u \in M |-> charge[u]]
           t == [u \in M |-> x[u]]
           takers == Takers(M, room, w)
<1>1. (\A u \in M : size[u] \in 0..room[u]) /\ Dealt(size, Total(delta), M, room, w)
  BY ApportionDealt
<1>2. ASSUME NEW u \in M
      PROVE  /\ x[u] \in Int /\ (delta < 0 => -x[u] \in 0..charge[u])
             /\ (delta >= 0 => 0 <= x[u])
  BY ApportionFits
<1> HIDE DEF x
<1>3. \A u \in M : size[u] = IF delta < 0 THEN -x[u] ELSE x[u]
  BY DEF Sized
<1> HIDE DEF size
<1>4. y \in [M -> Nat] /\ \A u \in M : y[u] = charge[u] + x[u]
  <2>1. \A u \in M : y[u] = charge[u] + x[u] /\ charge[u] + x[u] \in Nat
    <3> TAKE u \in M
    <3>1. charge[u] \in Nat
      OBVIOUS
    <3> QED
      BY <1>2, <3>1 DEF x
  <2> QED
    BY <2>1
<1>5. room \in [M -> Nat]
  <2>1. \A v \in M : w[v] \in Nat /\ charge[v] \in Nat
    OBVIOUS
  <2>2. \A v \in M : (IF delta < 0 THEN charge[v] ELSE Settlement!Max0(w[v] - charge[v])) \in Nat
    BY <2>1 DEF Settlement!Max0
  <2> QED
    BY <2>2 DEF RoomFor
<1>6. c \in [M -> Int] /\ t \in [M -> Int] /\ \A u \in M : c[u] = charge[u] /\ t[u] = x[u]
  BY <1>2
<1> HIDE DEF c, t
<1>7. Sum(c, M) = Sum(charge, M)
  BY <1>6, SumRestricted
<1>8. size \in [M -> Nat] /\ size \in [M -> Int] /\ y \in [M -> Int] /\ room \in [M -> Int]
  <2>1. size \in [M -> Nat]
    BY <1>1 DEF Dealt
  <2> QED
    BY <1>4, <1>5, <2>1
<1>9. Sum(y, M) = Sum(c, M) + Sum(t, M)
  <2>1. Together(c, t, y, M)
    BY <1>4, <1>6, <1>8 DEF Together
  <2>2. M \in SUBSET M
    OBVIOUS
  <2> QED
    BY <2>1, <2>2, SumTogether
<1>10. takers \in Int
  <2>1. {u \in M : w[u] # 0} \in SUBSET M
    OBVIOUS
  <2> QED
    BY <1>8, <2>1, SumTake DEF Takers
<1>11. Sum(size, M) = IF Total(delta) < takers THEN Total(delta) ELSE takers
  BY <1>1 DEF Dealt
<1> HIDE DEF takers
<1>12. M \in SUBSET M
  OBVIOUS
<1>13. Sum(c, M) \in Int /\ Sum(t, M) \in Int /\ Sum(y, M) \in Int /\ Sum(size, M) \in Int
  BY <1>6, <1>8, <1>12, SumTake
<1>14. CASE delta >= 0
  <2>1. \A u \in M : size[u] = t[u]
    BY <1>3, <1>6, <1>14
  <2>2. Sum(size, M) = Sum(t, M)
    BY <2>1, SumRestricted
  <2>3. Total(delta) = delta
    BY <1>14 DEF Total
  <2>4. Sum(y, M) = Sum(c, M) + (IF delta < takers THEN delta ELSE takers)
    BY <1>9, <1>11, <2>2, <2>3
  <2>5. \A u \in M : y[u] <= charge[u] + room[u]
    <3> TAKE u \in M
    <3>1. x[u] \in 0..room[u] /\ room[u] \in Nat /\ charge[u] \in Nat
      BY <1>1, <1>3, <1>5, <1>14
    <3> QED
      BY <1>4, <3>1
  <2> QED
    BY <1>4, <1>5, <1>7, <1>10, <1>13, <1>14, <2>4, <2>5 DEF takers
<1>15. CASE delta < 0
  <2>1. Scaled(size, t, M, -1)
    <3>1. \A u \in M : t[u] = (-1) * size[u]
      <4> TAKE u \in M
      <4>1. size[u] = -x[u] /\ t[u] = x[u] /\ x[u] \in Int
        BY <1>2, <1>3, <1>6, <1>15
      <4> QED
        BY <4>1
    <3> QED
      BY <1>6, <1>8, <3>1 DEF Scaled
  <2>2. Sum(t, M) = (-1) * Sum(size, M)
    BY <1>12, <2>1, SumScaled
  <2>3. Sum(size, M) <= -delta
    BY <1>10, <1>11, <1>15 DEF Total
  <2>4. Sum(y, M) >= Sum(c, M) + delta
    BY <1>9, <1>13, <2>2, <2>3
  <2> QED
    BY <1>4, <1>5, <1>7, <1>10, <1>13, <1>15, <2>4 DEF takers
<1> QED
  BY <1>14, <1>15

\* A sum over some is the sum over all of what is nothing for the others.
Trims(g, f, T, M) ==
    /\ IsFiniteSet(M) /\ T \subseteq M /\ g \in [M -> Nat]
    /\ (\A u \in T : g[u] = f[u]) /\ \A u \in M \ T : g[u] = 0

LEMMA SumTrimmed ==
    ASSUME NEW M, NEW T, NEW f, NEW g, Trims(g, f, T, M)
    PROVE  Sum(f, T) = Sum(g, M)
<1> USE DEF Trims
<1>0. g \in [M -> Int] /\ M \in SUBSET M /\ M \ T \in SUBSET M
  OBVIOUS
<1>1. Sum(f, T) = Sum(g, T)
  BY SumRestricted
<1>2. Pins(T, M, M, g) /\ Nought(g, M \ T, M)
  BY <1>0 DEF Pins, Nought
<1>3. Sum(g, M) = Sum(g, T) + Sum(g, M \ T)
  BY <1>2, SumUnpinned
<1>4. Sum(g, M \ T) = 0
  BY <1>2, SumNone
<1>5. Sum(g, T) \in Int
  BY <1>0, SumTake
<1> QED
  BY <1>1, <1>3, <1>4, <1>5

\* What a member is charged at most: what they are charged, and their room if they have weight.
Reach(charge, w, room, u) == charge[u] + (IF w[u] # 0 THEN room[u] ELSE 0)

\* A pool that used more since the last settlement is charged all of it or all its limits.
LEMMA DealReaches ==
    ASSUME NEW M, NEW delta, NEW w, NEW charge, NEW y, NEW room, Deal(M, delta, w, charge, y, room),
           delta >= 0, NEW l \in [M -> Nat], \A u \in M : l[u] <= Reach(charge, w, room, u)
    PROVE  /\ Sum(charge, M) \in Int /\ Sum(l, M) \in Int /\ Sum(y, M) \in Int
           /\ Sum(y, M) >= Sum(charge, M) + delta \/ Sum(y, M) >= Sum(l, M)
           /\ (\A u \in M : l[u] = Reach(charge, w, room, u)) =>
                 Sum(y, M) = IF Sum(charge, M) + delta < Sum(l, M) THEN Sum(charge, M) + delta ELSE Sum(l, M)
<1> DEFINE Some == {u \in M : w[u] # 0}
           extra == [u \in M |-> IF u \in Some THEN room[u] ELSE 0]
           c == [u \in M |-> charge[u]]
           k == [u \in M |-> c[u] + extra[u]]
           takers == Takers(M, room, w)
<1>1. /\ y \in [M -> Nat] /\ room \in [M -> Nat]
      /\ Sum(y, M) \in Int /\ Sum(charge, M) \in Int /\ takers \in Int
      /\ Sum(y, M) = Sum(charge, M) + (IF delta < takers THEN delta ELSE takers)
  BY DealSums
<1>d. M \in SUBSET Nat /\ IsFiniteSet(M) /\ M \subseteq People /\ delta \in Int /\ w \in [M -> Nat] /\ \A u \in M : charge[u] \in Nat
  BY DEF Deal
<1>2. Some \in SUBSET M /\ takers = Sum(room, Some) /\ \A u \in M : u \in Some <=> w[u] # 0
  BY DEF Takers
<1> HIDE DEF Some, takers
<1>3. extra \in [M -> Nat] /\ (\A u \in Some : extra[u] = room[u]) /\ \A u \in M \ Some : extra[u] = 0
  BY <1>1, <1>2
<1>4. c \in [M -> Nat] /\ \A u \in M : c[u] = charge[u]
  BY <1>d
<1> HIDE DEF extra, c
<1>5. Sum(extra, M) = takers
  <2>1. Trims(extra, room, Some, M)
    BY <1>d, <1>2, <1>3 DEF Trims
  <2> HIDE DEF Trims
  <2>2. \A A, B, f, g : Trims(g, f, A, B) => Sum(f, A) = Sum(g, B)
    BY SumTrimmed
  <2> QED
    BY <1>2, <2>1, <2>2
<1>6. Sum(c, M) = Sum(charge, M)
  BY <1>4, SumRestricted
<1>7. \A u \in M : k[u] \in Nat /\ k[u] = c[u] + extra[u] /\ k[u] = Reach(charge, w, room, u)
  <2> TAKE u \in M
  <2>1. c[u] = charge[u] /\ extra[u] = IF w[u] # 0 THEN room[u] ELSE 0
    BY <1>2, <1>3, <1>4
  <2>2. c[u] \in Nat /\ extra[u] \in Nat
    BY <1>3, <1>4
  <2> QED
    BY <2>1, <2>2 DEF Reach
<1>8. k \in [M -> Int]
  BY <1>7
<1> HIDE DEF k
<1>9. c \in [M -> Int] /\ extra \in [M -> Int] /\ l \in [M -> Int] /\ M \in SUBSET M
  BY <1>3, <1>4
<1>10. Together(c, extra, k, M)
  BY <1>7, <1>8, <1>9 DEF Together
<1>11. Sum(k, M) = Sum(c, M) + Sum(extra, M)
  BY <1>d, <1>9, <1>10, SumTogether
<1>12. Sum(l, M) <= Sum(k, M)
  <2>1. \A u \in M : l[u] <= k[u]
    BY <1>7
  <2> QED
    BY <1>d, <1>8, <1>9, <2>1, SumLe
<1>13. ASSUME \A u \in M : l[u] = Reach(charge, w, room, u) PROVE Sum(l, M) = Sum(k, M)
  <2>1. \A u \in M : l[u] = k[u]
    BY <1>7, <1>13
  <2> QED
    BY <2>1, SumRestricted
<1>14. Sum(l, M) \in Int
  BY <1>d, <1>9, SumTake
<1> QED
  BY <1>d, <1>1, <1>5, <1>6, <1>11, <1>12, <1>13, <1>14

\* A member keeps, of the use they had, as much as their limit lets them.
LEMMA ClampedKeeps ==
    ASSUME Settlement!SettlementAssumption, Settlement!TypeOK, NEW u \in People
    PROVE  /\ Settlement!Clamped(u) >= Settlement!UpTo(limit[u], Settlement!Effective(u))
           /\ Settlement!UpTo(limit[u], Settlement!Effective(u)) \in Int
           /\ Settlement!Effective(u) >= Settlement!UpTo(limit[u], Settlement!Effective(u))
           /\ limit[u] # Unlimited =>
                 /\ limit[u] \in Nat /\ Settlement!Clamped(u) \in 0..limit[u]
                 /\ limit[u] - Settlement!Clamped(u) = Settlement!Max0(limit[u] - Settlement!Max0(Settlement!Effective(u)))
<1> DEFINE e == Settlement!Effective(u)
           n == Settlement!Max0(e)
           l == limit[u]
<1>1. e \in Int
  BY DEF Settlement!TypeOK, Settlement!Effective
<1>2. l \in Nat \/ l = Unlimited
  BY DEF Settlement!TypeOK, Settlement!SettlementAssumption
<1>3. Settlement!Clamped(u) = (IF l = Unlimited \/ l > n THEN n ELSE l)
      /\ Settlement!UpTo(l, e) = IF l = Unlimited \/ l > e THEN e ELSE l
  BY DEF Settlement!Clamped, Settlement!UpTo
<1> HIDE DEF e, l
<1>4. n \in Nat /\ n >= e /\ (e >= 0 => n = e) /\ (e < 0 => n = 0)
  BY <1>1 DEF Settlement!Max0
<1> HIDE DEF n
<1>5. CASE l = Unlimited
  BY <1>1, <1>3, <1>4, <1>5 DEF l, e
<1>6. CASE l # Unlimited
  <2>1. l \in Nat
    BY <1>2, <1>6
  <2>2. Settlement!Max0(l - n) = IF l - n > 0 THEN l - n ELSE 0
    BY DEF Settlement!Max0
  <2>3. /\ Settlement!Clamped(u) >= Settlement!UpTo(l, e) /\ Settlement!UpTo(l, e) \in Int
        /\ e >= Settlement!UpTo(l, e)
        /\ Settlement!Clamped(u) \in 0..l
        /\ l - Settlement!Clamped(u) = Settlement!Max0(l - n)
    BY <1>1, <1>3, <1>4, <1>6, <2>1, <2>2
  <2> QED
    BY <2>1, <2>3 DEF l, e, n
<1> QED
  BY <1>5, <1>6

\* What the active members bring into a pool.
Brings(M) == [u \in M |-> IF active[u] THEN limit[u] ELSE 0]

LEMMA Donations ==
    ASSUME Settlement!SettlementAssumption, Settlement!TypeOK, NEW p, ~Settlement!UnlimitedPool(p),
           NEW M, M = Settlement!Members(p), NEW l, l = Brings(M)
    PROVE  /\ l \in [M -> Nat] /\ \A u \in M : l[u] = IF active[u] THEN limit[u] ELSE 0
           /\ Settlement!Donated(p) = Sum(l, M) /\ Settlement!Donated(p) \in Nat
<1>0. IsFiniteSet(M) /\ M \in SUBSET Nat /\ M \subseteq People
  <2>1. IsFiniteSet(M) /\ M \in SUBSET People /\ People \in SUBSET Nat
    BY Typed
  <2> QED
    BY <2>1
<1>1. \A u \in M : (IF active[u] THEN limit[u] ELSE 0) \in Nat
  <2> TAKE u \in M
  <2>1. u \in People /\ limit[u] \in Limits
    BY <1>0 DEF Settlement!TypeOK
  <2>2. active[u] => limit[u] # Unlimited
    BY DEF Settlement!UnlimitedPool
  <2> QED
    BY <2>1, <2>2 DEF Settlement!SettlementAssumption
<1>2. l \in [M -> Nat] /\ \A u \in M : l[u] = IF active[u] THEN limit[u] ELSE 0
  BY <1>1 DEF Brings
<1> DEFINE on == {u \in M : active[u]}
<1>3. Settlement!Donated(p) = Sum(limit, on)
  BY Zenon DEF Settlement!Donated, Sum
<1>4. Trims(l, limit, on, M)
  <2>1. on \subseteq M /\ (\A u \in on : l[u] = limit[u]) /\ \A u \in M \ on : l[u] = 0
    BY <1>2
  <2> HIDE DEF on
  <2> QED
    BY <1>0, <1>2, <2>1 DEF Trims
<1> HIDE DEF on, Trims
<1>5. \A A, B, f, g : Trims(g, f, A, B) => Sum(f, A) = Sum(g, B)
  BY SumTrimmed
<1>6. Sum(limit, on) = Sum(l, M)
  BY <1>4, <1>5
<1>7. Settlement!Donated(p) = Sum(l, M)
  BY Zenon, <1>3, <1>6
<1>8. Sum(l, M) \in Nat
  BY <1>0, <1>2, SumParts
<1> QED
  BY <1>2, <1>7, <1>8

\* The uses that a settlement of p leaves.
UseAfter(p, dissolving) == [v \in People |-> rows[v] + Settlement!Settled(p, dissolving).carry[v]]

\* What the settlement of a limited pool leaves of its use.
LEMMA LimitedUse ==
    ASSUME Settlement!SettlementAssumption, Settlement!TypeOK, NEW p, ~Settlement!UnlimitedPool(p),
           NEW M, M = Settlement!Members(p), NEW e \in [People -> Int],
           \A v \in M : e[v] = Settlement!Charge(p)[v]
    PROVE  /\ Sum(e, M) >= Settlement!UpTo(Settlement!Donated(p), Settlement!Used(p))
           /\ Settlement!Regular /\ Safe(p) =>
                 /\ \A v \in M : e[v] \in 0..limit[v]
                 /\ Sum(e, M) = IF Settlement!Used(p) < Sum(limit, M) THEN Settlement!Used(p) ELSE Sum(limit, M)
<1>1. PICK delta : delta = Settlement!Delta(p)
  OBVIOUS
<1>2. PICK w : w = [u \in M |-> Settlement!Weight(u)]
  OBVIOUS
<1>3. PICK charge : charge = charged
  OBVIOUS
<1>4. /\ IsFiniteSet(M) /\ M \in SUBSET Nat /\ M \subseteq People /\ delta \in Int
      /\ (\A u \in M : charge[u] \in Nat) /\ (\A u \in M : rows[u] \in Nat) /\ charge \in [People -> Nat]
  <2>1. /\ IsFiniteSet(M) /\ M \in SUBSET People /\ People \in SUBSET Nat /\ delta \in Int
        /\ rows \in [People -> Nat] /\ charged \in [People -> Nat]
    BY <1>1, Typed
  <2> QED
    BY <1>3, <2>1
<1>5. \A u \in M : /\ u \in People /\ limit[u] \in Limits /\ active[u] \in BOOLEAN
                   /\ active[u] => limit[u] \in Nat
                   /\ w[u] = IF active[u] THEN limit[u] ELSE charge[u]
  <2> SUFFICES ASSUME NEW u \in M
               PROVE  /\ u \in People /\ limit[u] \in Limits /\ active[u] \in BOOLEAN
                      /\ active[u] => limit[u] \in Nat
                      /\ w[u] = IF active[u] THEN limit[u] ELSE charge[u]
    BY Zenon
  <2>1. u \in People /\ limit[u] \in Limits /\ active[u] \in BOOLEAN
    BY <1>4 DEF Settlement!TypeOK
  <2>2. active[u] => limit[u] # Unlimited
    BY DEF Settlement!UnlimitedPool
  <2>3. active[u] => limit[u] \in Nat
    BY <2>1, <2>2 DEF Settlement!SettlementAssumption
  <2> QED
    BY <1>2, <1>3, <2>1, <2>3 DEF Settlement!Weight
<1>6. w \in [M -> Nat]
  <2>1. \A u \in M : w[u] \in Nat
    BY <1>4, <1>5
  <2> QED
    BY <1>2, <2>1
<1> DEFINE y == [u \in M |-> charge[u] + Settlement!Apportion(delta, M, w, charge)[u]]
           room == RoomFor(delta, M, w, charge)
<1>7. Settlement!Charge(p) = y
  BY Zenon, <1>1, <1>2, <1>3 DEF Settlement!Charge
<1>8. Sum(e, M) = Sum(y, M)
  <2>1. \A v \in M : e[v] = y[v]
    BY <1>7
  <2> HIDE DEF y
  <2> QED
    BY <2>1, SumRestricted
<1>9. Settlement!Used(p) \in Int /\ Sum(charge, M) \in Int /\ Settlement!Used(p) = Sum(charge, M) + delta
  <2>1. PICK f : f = Settlement!UsedBy
    OBVIOUS
  <2>2. f \in [People -> Int] /\ IsFiniteSet(People) /\ charge \in [People -> Int] /\ M \in SUBSET People
    BY <1>3, <1>4, <2>1, Typed
  <2>3. Sum(f, M) \in Int /\ Sum(charge, M) \in Int
    BY <2>2, SumTake
  <2>4. Settlement!Used(p) = Sum(f, M) /\ delta = Sum(f, M) - Sum(charge, M)
    BY <1>1, <1>3, <2>1 DEF Settlement!Delta, Settlement!Used, Settlement!Ledger, Sum
  <2> QED
    BY <2>3, <2>4
<1>10. \A u \in M : room[u] = IF delta < 0 THEN charge[u] ELSE Settlement!Max0(w[u] - charge[u])
  BY DEF RoomFor
<1>l. PICK l : l = Brings(M)
  OBVIOUS
<1>11. l \in [M -> Nat] /\ (\A u \in M : l[u] = IF active[u] THEN limit[u] ELSE 0) /\ Settlement!Donated(p) = Sum(l, M)
  BY <1>l, Donations
<1> HIDE DEF y, room
<1>y. PICK z : z = y
  OBVIOUS
<1>r. PICK r : r = room
  OBVIOUS
<1>z. Deal(M, delta, w, charge, z, r)
  BY Zenon, <1>4, <1>6, <1>y, <1>r DEF y, room, Deal
<1>13. Sum(l, M) \in Nat
  BY <1>4, <1>11, SumParts
<1>14. Settlement!UpTo(Settlement!Donated(p), Settlement!Used(p)) =
          IF Sum(l, M) > Settlement!Used(p) THEN Settlement!Used(p) ELSE Sum(l, M)
  BY <1>11, <1>13 DEF Settlement!UpTo, Settlement!SettlementAssumption
<1>15. CASE delta < 0
  <2>1. Sum(z, M) >= Sum(charge, M) + delta /\ Sum(z, M) \in Int
    BY <1>15, <1>z, DealSums
  <2>2. ~Safe(p)
    <3> SUFFICES ASSUME Safe(p) PROVE FALSE
      OBVIOUS
    <3>1. PICK f : f = Settlement!UsedBy
      OBVIOUS
    <3>2. f \in [People -> Int] /\ IsFiniteSet(People) /\ charge \in [People -> Int] /\ M \in SUBSET People
          /\ delta = Sum(f, M) - Sum(charge, M) /\ \A u \in M : charge[u] <= f[u]
      BY <1>1, <1>3, <1>4, <3>1, Typed DEF Safe, OwedBy, Open
    <3>3. Sum(charge, M) <= Sum(f, M)
      BY <3>2, SumLe
    <3>4. Sum(charge, M) \in Int /\ Sum(f, M) \in Int
      BY <3>2, SumTake
    <3> QED
      BY <1>15, <3>2, <3>3, <3>4
  <2> QED
    BY <1>8, <1>9, <1>13, <1>14, <1>y, <2>1, <2>2
<1>16. CASE delta >= 0
  <2>1. \A u \in M : l[u] <= Reach(charge, w, r, u)
    <3> TAKE u \in M
    <3> DEFINE c == charge[u]
               m == limit[u]
    <3>1. c \in Nat /\ (active[u] => m \in Nat) /\ w[u] = (IF active[u] THEN m ELSE c) /\ l[u] = (IF active[u] THEN m ELSE 0)
          /\ r[u] = Settlement!Max0(w[u] - c) /\ active[u] \in BOOLEAN
      BY <1>4, <1>5, <1>10, <1>11, <1>16, <1>r
    <3>2. Reach(charge, w, r, u) = c + (IF w[u] # 0 THEN r[u] ELSE 0)
      BY DEF Reach
    <3> HIDE DEF c, m
    <3> QED
      BY <3>1, <3>2 DEF Settlement!Max0
  <2>2. /\ Sum(charge, M) \in Int /\ Sum(l, M) \in Int /\ Sum(z, M) \in Int
        /\ Sum(z, M) >= Sum(charge, M) + delta \/ Sum(z, M) >= Sum(l, M)
        /\ (\A u \in M : l[u] = Reach(charge, w, r, u)) =>
              Sum(z, M) = IF Sum(charge, M) + delta < Sum(l, M) THEN Sum(charge, M) + delta ELSE Sum(l, M)
    BY <1>11, <1>16, <1>z, <2>1, DealReaches
  <2>3. ASSUME Settlement!Regular
        PROVE  /\ \A v \in M : e[v] \in 0..limit[v]
               /\ Sum(e, M) = IF Settlement!Used(p) < Sum(limit, M) THEN Settlement!Used(p) ELSE Sum(limit, M)
    <3>1. \A u \in M : active[u] /\ charge[u] <= limit[u]
      BY <1>3, <1>4, <2>3 DEF Settlement!Regular
    <3>2. ASSUME NEW u \in M
          PROVE  /\ l[u] = limit[u] /\ l[u] = Reach(charge, w, r, u)
                 /\ charge[u] + r[u] = limit[u] /\ limit[u] \in Nat
      <4> DEFINE c == charge[u]
                 m == limit[u]
      <4>1. c \in Nat /\ m \in Nat /\ c <= m /\ w[u] = m /\ l[u] = m /\ r[u] = Settlement!Max0(w[u] - c)
        BY <1>4, <1>5, <1>10, <1>11, <1>16, <1>r, <3>1
      <4>2. Reach(charge, w, r, u) = c + (IF w[u] # 0 THEN r[u] ELSE 0)
        BY DEF Reach
      <4> HIDE DEF c, m
      <4>3. l[u] = m /\ l[u] = Reach(charge, w, r, u) /\ c + r[u] = m
        BY <4>1, <4>2 DEF Settlement!Max0
      <4> QED
        BY <4>1, <4>3 DEF c, m
    <3>3. Sum(l, M) = Sum(limit, M)
      BY <3>2, SumRestricted
    <3>4. Sum(z, M) = IF Settlement!Used(p) < Sum(limit, M) THEN Settlement!Used(p) ELSE Sum(limit, M)
      BY <1>9, <2>2, <3>2, <3>3
    <3>5. z \in [M -> Nat] /\ \A u \in M : z[u] <= charge[u] + r[u]
      BY <1>16, <1>z, DealSums
    <3>6. \A v \in M : e[v] \in 0..limit[v]
      <4> TAKE v \in M
      <4>1. e[v] = z[v] /\ z[v] \in Nat /\ z[v] <= limit[v] /\ limit[v] \in Nat
        BY <1>7, <1>y, <3>2, <3>5
      <4> QED
        BY <4>1
    <3> QED
      BY <1>8, <1>y, <3>4, <3>6
  <2> QED
    BY <1>8, <1>9, <1>13, <1>14, <1>y, <2>2, <2>3
<1> QED
  BY <1>4, <1>15, <1>16

\* What a settlement leaves of everyone's use: of the others all; of each member of an unlimited
\* pool what their own limit leaves; of the members of a limited pool together, up to its limit.
LEMMA SettledUse ==
    ASSUME Settlement!SettlementAssumption, Settlement!TypeOK, NEW p, NEW dissolving \in BOOLEAN,
           NEW M, M = Settlement!Members(p), NEW e, e = UseAfter(p, dissolving)
    PROVE  /\ e \in [People -> Int] /\ \A v \in People \ M : e[v] = Settlement!Effective(v)
           /\ Settlement!UnlimitedPool(p) => \A v \in M : e[v] = Settlement!Clamped(v)
           /\ ~Settlement!UnlimitedPool(p) => Sum(e, M) >= Settlement!UpTo(Settlement!Donated(p), Settlement!Used(p))
           /\ ~Settlement!UnlimitedPool(p) /\ Settlement!Regular /\ Safe(p) =>
                 /\ \A v \in M : e[v] \in 0..limit[v]
                 /\ Sum(e, M) = IF Settlement!Used(p) < Sum(limit, M) THEN Settlement!Used(p) ELSE Sum(limit, M)
<1>0. /\ IsFiniteSet(People) /\ IsFiniteSet(M) /\ M \in SUBSET People
      /\ rows \in [People -> Nat] /\ carry \in [People -> Int] /\ charged \in [People -> Nat]
      /\ Settlement!UsedBy \in [People -> Int] /\ \A u \in People : Settlement!UsedBy[u] = Settlement!Effective(u)
  BY Typed
<1>1. PICK s : s = Settlement!Settled(p, dissolving)
  OBVIOUS
<1>2. s.carry \in [People -> Int] /\ \A u \in People \ M : s.carry[u] = carry[u]
  BY <1>1, SettledFits
<1>3. e \in [People -> Int] /\ \A v \in People : e[v] = rows[v] + s.carry[v]
  <2>1. \A v \in People : rows[v] + s.carry[v] \in Int
    BY <1>0, <1>2
  <2> QED
    BY <1>1, <2>1 DEF UseAfter
<1>4. \A v \in People \ M : e[v] = Settlement!Effective(v)
  BY <1>2, <1>3 DEF Settlement!Effective
<1>5. CASE Settlement!Nothing(p, dissolving)
  <2>1. s.carry = carry /\ Settlement!Delta(p) = 0 /\ ~Settlement!UnlimitedPool(p)
    BY <1>1, <1>5 DEF Settlement!Settled, Settlement!Nothing
  <2>2. PICK f : f = Settlement!UsedBy
    OBVIOUS
  <2>3. f \in [People -> Int] /\ \A v \in M : e[v] = f[v]
    BY <1>0, <1>3, <2>1, <2>2 DEF Settlement!Effective
  <2>4. Sum(e, M) = Settlement!Used(p)
    <3>1. Sum(e, M) = Sum(f, M)
      BY <2>3, SumRestricted
    <3> QED
      BY <2>2, <3>1 DEF Settlement!Used, Sum
  <2>5. Sum(e, M) \in Int
    BY <1>0, <1>3, SumTake
  <2>6. Sum(e, M) >= Settlement!UpTo(Settlement!Donated(p), Settlement!Used(p))
    <3>1. PICK l : l = Brings(M)
      OBVIOUS
    <3>2. Settlement!Donated(p) \in Nat
      BY <2>1, <3>1, Donations
    <3> QED
      BY <2>4, <2>5, <3>2 DEF Settlement!UpTo
  <2>7. ASSUME Settlement!Regular, Safe(p)
        PROVE  /\ \A v \in M : e[v] \in 0..limit[v]
               /\ Sum(e, M) = IF Settlement!Used(p) < Sum(limit, M) THEN Settlement!Used(p) ELSE Sum(limit, M)
    <3>1. PICK l : l = limit
      OBVIOUS
    <3>2. l \in [People -> Nat] /\ \A v \in People : charged[v] <= l[v]
      <4>1. \A v \in People : l[v] \in Limits /\ l[v] # Unlimited /\ charged[v] <= l[v]
        BY <2>7, <3>1 DEF Settlement!Regular, Settlement!TypeOK
      <4>2. l \in [People -> Limits]
        BY <3>1 DEF Settlement!TypeOK
      <4> QED
        BY <4>1, <4>2 DEF Settlement!SettlementAssumption
    <3>3. ASSUME NEW v \in M PROVE e[v] \in 0..l[v] /\ e[v] <= l[v]
      <4>1. PICK c : c = charged
        OBVIOUS
      <4>2. PICK b : b = Bound
        OBVIOUS
      <4>3. Numbers(f, c, b, People) /\ OwedBy(f, c, M, b) /\ Open(f, c, M) = 0
        BY <2>1, <2>2, <2>7, <4>1, <4>2, Typed DEF Numbers, Safe
      <4>4. Open(f, c, M) = 0 => f[v] = c[v]
        BY <1>0, <4>3, OwedMeans
      <4>5. c[v] \in Nat /\ c[v] <= l[v] /\ l[v] \in Nat
        BY <1>0, <3>2, <4>1
      <4>6. e[v] = c[v]
        BY <2>3, <4>3, <4>4
      <4> QED
        BY <4>5, <4>6
    <3>4. Sum(e, M) <= Sum(l, M) /\ Sum(l, M) \in Int
      <4>1. l \in [People -> Int]
        BY <3>2
      <4> QED
        BY <1>0, <1>3, <3>3, <4>1, SumLe, SumTake
    <3> QED
      BY <2>4, <2>5, <3>1, <3>3, <3>4
  <2> QED
    BY <1>3, <1>4, <2>1, <2>6, <2>7
<1>6. CASE ~Settlement!Nothing(p, dissolving)
  <2>1. PICK new : new = Settlement!Charge(p)
    OBVIOUS
  <2>2. DOMAIN new = M /\ \A u \in M : new[u] \in Nat
    BY <2>1, ChargeFits
  <2>3. s = Settlement!Written(new)
    BY <1>1, <1>6, <2>1 DEF Settlement!Settled
  <2>4. s.carry = [u \in People |-> IF u \in M THEN new[u] - rows[u] ELSE carry[u]]
    BY <2>2, <2>3 DEF Settlement!Written, Settlement!Replaced
  <2>5. \A v \in M : e[v] = new[v]
    <3> TAKE v \in M
    <3>1. v \in People /\ rows[v] \in Nat /\ new[v] \in Nat /\ s.carry[v] = new[v] - rows[v]
      BY <1>0, <2>2, <2>4
    <3> QED
      BY <1>3, <3>1
  <2>6. Settlement!UnlimitedPool(p) => \A v \in M : e[v] = Settlement!Clamped(v)
    BY <2>1, <2>5 DEF Settlement!Charge
  <2>7. CASE ~Settlement!UnlimitedPool(p)
    <3>1. \A v \in M : e[v] = Settlement!Charge(p)[v]
      BY <2>1, <2>5
    <3>2. /\ Sum(e, M) >= Settlement!UpTo(Settlement!Donated(p), Settlement!Used(p))
          /\ Settlement!Regular /\ Safe(p) =>
                /\ \A v \in M : e[v] \in 0..limit[v]
                /\ Sum(e, M) = IF Settlement!Used(p) < Sum(limit, M) THEN Settlement!Used(p) ELSE Sum(limit, M)
      BY <1>3, <2>7, <3>1, LimitedUse
    <3> QED
      BY <1>3, <1>4, <2>7, <3>2
  <2>8. CASE Settlement!UnlimitedPool(p)
    BY <1>3, <1>4, <2>6, <2>8
  <2> QED
    BY <2>7, <2>8
<1> QED
  BY <1>5, <1>6

\* A move settles p; of the others, whoever moves has their use clamped, in no pool before.
Moved(p, dissolving, M, X, f) ==
    /\ p \in Pools /\ dissolving \in BOOLEAN /\ M = Settlement!Members(p)
    /\ M \subseteq X /\ X \subseteq People /\ \A u \in X \ M : poolOf[u] = NoPool
    /\ f \in [People -> Int]
    /\ \A v \in M : f[v] = UseAfter(p, dissolving)[v]
    /\ \A v \in X \ M : f[v] = Settlement!Clamped(v)
    /\ \A v \in People \ X : f[v] = Settlement!Effective(v)

LEMMA UseKept ==
    ASSUME Settlement!SettlementAssumption, Settlement!TypeOK,
           NEW p, NEW dissolving, NEW M, NEW X, NEW f, Moved(p, dissolving, M, X, f)
    PROVE  /\ \A u \in People : poolOf[u] = NoPool \/ Settlement!UnlimitedPool(poolOf[u]) =>
                 f[u] >= Settlement!UpTo(limit[u], Settlement!Effective(u))
           /\ \A q \in Pools : ~Settlement!UnlimitedPool(q) =>
                 Sum(f, Settlement!Members(q)) >= Settlement!UpTo(Settlement!Donated(q), Settlement!Used(q))
<1> USE DEF Moved
<1>1. PICK e : e = UseAfter(p, dissolving)
  OBVIOUS
<1>2. /\ e \in [People -> Int] /\ \A v \in People \ M : e[v] = Settlement!Effective(v)
      /\ Settlement!UnlimitedPool(p) => \A v \in M : e[v] = Settlement!Clamped(v)
      /\ ~Settlement!UnlimitedPool(p) => Sum(e, M) >= Settlement!UpTo(Settlement!Donated(p), Settlement!Used(p))
  BY <1>1, SettledUse
<1>3. ASSUME NEW u \in People, poolOf[u] = NoPool \/ Settlement!UnlimitedPool(poolOf[u])
      PROVE  f[u] >= Settlement!UpTo(limit[u], Settlement!Effective(u))
  <2>1. CASE u \in M
    <3>1. poolOf[u] = p /\ p # NoPool
      BY <2>1 DEF Settlement!Members, Settlement!SettlementAssumption
    <3>2. f[u] = Settlement!Clamped(u)
      BY <1>1, <1>2, <1>3, <2>1, <3>1
    <3> QED
      BY <3>2, ClampedKeeps
  <2>2. CASE u \in X \ M
    BY <2>2, ClampedKeeps
  <2>3. CASE u \notin X
    BY <2>3, ClampedKeeps
  <2> QED
    BY <2>1, <2>2, <2>3
<1>4. ASSUME NEW q \in Pools, ~Settlement!UnlimitedPool(q)
      PROVE  Sum(f, Settlement!Members(q)) >= Settlement!UpTo(Settlement!Donated(q), Settlement!Used(q))
  <2>1. CASE q = p
    <3>1. \A v \in M : f[v] = e[v]
      BY <1>1
    <3>2. Sum(f, M) = Sum(e, M)
      BY <3>1, SumRestricted
    <3> QED
      BY <1>2, <1>4, <2>1, <3>2
  <2>2. CASE q # p
    <3>1. PICK A : A = Settlement!Members(q)
      OBVIOUS
    <3>2. PICK g : g = Settlement!UsedBy
      OBVIOUS
    <3>3. A \in SUBSET People /\ IsFiniteSet(People) /\ g \in [People -> Int] /\ \A u \in People : g[u] = Settlement!Effective(u)
      BY <3>1, <3>2, Typed
    <3>4. \A v \in A : v \in People /\ v \notin X
      <4>1. q # NoPool
        BY DEF Settlement!SettlementAssumption
      <4> QED
        BY <2>2, <3>1, <4>1 DEF Settlement!Members
    <3>5. \A v \in A : f[v] = g[v]
      BY <3>3, <3>4
    <3>6. Sum(f, A) = Sum(g, A)
      BY <3>5, SumRestricted
    <3>7. Sum(g, A) = Settlement!Used(q)
      BY <3>1, <3>2 DEF Settlement!Used, Sum
    <3>8. Sum(g, A) \in Int
      BY <3>3, SumTake
    <3>9. PICK l : l = Brings(A)
      OBVIOUS
    <3>10. Settlement!Donated(q) \in Nat
      BY <1>4, <3>1, <3>9, Donations
    <3> QED
      BY <3>1, <3>6, <3>7, <3>8, <3>10 DEF Settlement!UpTo
  <2> QED
    BY <2>1, <2>2
<1> QED
  BY <1>3, <1>4

\* With no member unlimited, off or charged past their limit, a move leaves what is to spare: after
\* it the uses of those it concerns fit their limits, and only what went beyond is forgotten.
LEMMA MoveSpares ==
    ASSUME Settlement!SettlementAssumption, Settlement!TypeOK, Settlement!Regular,
           NEW p, NEW dissolving, NEW M, NEW X, NEW f, Moved(p, dissolving, M, X, f), Safe(p),
           NEW l, l = limit, NEW e, e = Settlement!UsedBy, NEW pl, pl = poolOf,
           NEW ql \in [People -> Pools \cup {NoPool}], Around(X, p, ql, NoPool, People, Pools),
           \A u \in People \ X : ql[u] = pl[u]
    PROVE  Spares(l, e, pl, NoPool, People, Pools) = Spares(l, f, ql, NoPool, People, Pools)
<1>0. /\ p \in Pools /\ dissolving \in BOOLEAN /\ M = Settlement!Members(p)
      /\ M \subseteq X /\ X \subseteq People /\ \A u \in X \ M : poolOf[u] = NoPool
      /\ f \in [People -> Int]
      /\ \A v \in M : f[v] = UseAfter(p, dissolving)[v]
      /\ \A v \in X \ M : f[v] = Settlement!Clamped(v)
      /\ \A v \in People \ X : f[v] = Settlement!Effective(v)
  BY DEF Moved
<1>1. /\ IsFiniteSet(People) /\ e \in [People -> Int] /\ \A u \in People : e[u] = Settlement!Effective(u)
  BY Typed
<1>2. l \in [People -> Nat] /\ l \in [People -> Int]
  <2>1. \A v \in People : l[v] \in Limits /\ l[v] # Unlimited
    BY DEF Settlement!Regular, Settlement!TypeOK
  <2>2. l \in [People -> Limits]
    BY DEF Settlement!TypeOK
  <2>3. l \in [People -> Nat]
    BY <2>1, <2>2 DEF Settlement!SettlementAssumption
  <2> QED
    BY <2>3
<1>3. World(l, e, pl, NoPool, People, Pools) /\ World(l, f, ql, NoPool, People, Pools)
  <2>1. IsFiniteSet(Pools) /\ NoPool \notin Pools /\ pl \in [People -> Pools \cup {NoPool}]
    BY DEF Settlement!SettlementAssumption, Settlement!TypeOK, Settlement!IsFiniteSet, IsFiniteSet
  <2> QED
    BY <1>0, <1>1, <1>2, <2>1 DEF World
<1>4. Around(X, p, pl, NoPool, People, Pools)
      /\ M = In(pl, p, People) /\ (\A u \in M : pl[u] # NoPool) /\ \A u \in X \ M : pl[u] = NoPool
  <2>1. p # NoPool
    BY <1>0 DEF Settlement!SettlementAssumption
  <2>2. M = In(pl, p, People)
    BY <1>0 DEF In, Settlement!Members
  <2>3. \A u \in M : pl[u] = p
    BY <2>2 DEF In
  <2> QED
    BY <1>0, <2>1, <2>2, <2>3 DEF Around
<1>5. /\ \A v \in M : f[v] \in 0..l[v]
      /\ Sum(f, M) = IF Sum(e, M) < Sum(l, M) THEN Sum(e, M) ELSE Sum(l, M)
  <2>1. PICK g : g = UseAfter(p, dissolving)
    OBVIOUS
  <2>2. ~Settlement!UnlimitedPool(p)
    <3>1. \A u \in People : limit[u] # Unlimited
      BY DEF Settlement!Regular
    <3> QED
      BY <3>1 DEF Settlement!UnlimitedPool, Settlement!Members
  <2>3. /\ \A v \in M : g[v] \in 0..limit[v]
        /\ Sum(g, M) = IF Settlement!Used(p) < Sum(limit, M) THEN Settlement!Used(p) ELSE Sum(limit, M)
    BY <1>0, <2>1, <2>2, SettledUse
  <2>4. \A v \in M : f[v] = g[v]
    BY <1>0, <2>1
  <2>5. Sum(f, M) = Sum(g, M)
    BY <2>4, SumRestricted
  <2>6. Settlement!Used(p) = Sum(e, M)
    BY <1>0 DEF Settlement!Used, Sum
  <2> QED
    BY <2>3, <2>4, <2>5, <2>6
<1>6. \A v \in X \ M : /\ f[v] \in 0..l[v]
                       /\ l[v] - f[v] = Settlement!Max0(l[v] - Settlement!Max0(e[v]))
  <2> TAKE v \in X \ M
  <2>1. v \in People /\ limit[v] # Unlimited /\ f[v] = Settlement!Clamped(v) /\ e[v] = Settlement!Effective(v)
    BY <1>0, <1>1 DEF Settlement!Regular
  <2> QED
    BY <2>1, ClampedKeeps
<1>7. PartOf(X, p, l, f, ql, NoPool, People, Pools) = Sum(l, X) - Sum(f, X)
  <2>1. \A u \in X : f[u] \in 0..l[u]
    BY <1>5, <1>6
  <2> QED
    BY <1>3, <2>1, PartSettled
<1> DEFINE a == OwnSpare(l, e, pl, NoPool, People)
           d == [u \in People |-> l[u] - f[u]]
<1>8. /\ a \in [People -> Int] /\ (\A u \in M : a[u] = 0)
      /\ \A u \in X \ M : a[u] = Settlement!Max0(l[u] - Settlement!Max0(e[u]))
  <2>1. a \in [People -> Int] /\ \A u \in People : pl[u] # NoPool => a[u] = 0
    BY <1>3, SpareTypes
  <2>2. \A u \in X \ M : a[u] = Settlement!Max0(l[u] - Settlement!Max0(e[u]))
    BY <1>0, <1>4 DEF OwnSpare
  <2> HIDE DEF a
  <2> QED
    BY <1>0, <1>4, <2>1, <2>2
<1>9. PoolSpare(l, e, pl, People, Pools)[p] = Settlement!Max0(Sum(l, M) - Sum(e, M))
  BY <1>0, <1>4 DEF PoolSpare
<1>10. d \in [People -> Int] /\ Together(d, f, l, People) /\ \A u \in People : d[u] = l[u] - f[u]
  <2>1. \A u \in People : l[u] \in Int /\ f[u] \in Int
    BY <1>0, <1>2
  <2>2. d \in [People -> Int] /\ \A u \in People : d[u] = l[u] - f[u] /\ l[u] = d[u] + f[u]
    BY <2>1
  <2> HIDE DEF d
  <2> QED
    BY <1>0, <1>2, <2>2 DEF Together
<1>p. PICK alone : alone = a
  OBVIOUS
<1>q. PICK rest : rest = X \ M
  OBVIOUS
<1> HIDE DEF d, a
<1>11. /\ Sum(l, X) = Sum(d, X) + Sum(f, X) /\ Sum(l, M) = Sum(d, M) + Sum(f, M)
       /\ Sum(d, X) \in Int /\ Sum(f, X) \in Int /\ Sum(d, M) \in Int /\ Sum(f, M) \in Int
       /\ Sum(l, M) \in Int /\ Sum(e, M) \in Int /\ Sum(d, rest) \in Int /\ Sum(alone, rest) \in Int
  <2>0. X \in SUBSET People /\ M \in SUBSET People /\ rest \in SUBSET People
    BY <1>0, <1>q
  <2>1. Sum(l, X) = Sum(d, X) + Sum(f, X)
    BY <1>1, <1>10, <2>0, SumTogether
  <2>2. Sum(l, M) = Sum(d, M) + Sum(f, M)
    BY <1>1, <1>10, <2>0, SumTogether
  <2>3. alone \in [People -> Int]
    BY <1>8, <1>p
  <2> QED
    BY <1>0, <1>1, <1>2, <1>10, <2>0, <2>1, <2>2, <2>3, SumTake
<1>12. Sum(d, X) = Sum(d, M) + Sum(d, rest)
  <2>1. Within(M, X, People)
    BY <1>0 DEF Within
  <2> QED
    BY <1>1, <1>10, <1>q, <2>1, SumSplit
<1>13. Sum(alone, X) = Sum(d, rest)
  <2>1. Within(M, X, People) /\ Nought(alone, M, People)
    BY <1>0, <1>1, <1>8, <1>p DEF Within, Nought
  <2>2. alone \in [People -> Int]
    BY <1>8, <1>p
  <2>3. Sum(alone, X) = Sum(alone, M) + Sum(alone, X \ M)
    BY <1>1, <2>1, <2>2, SumSplit
  <2>4. Sum(alone, M) = 0
    BY <2>1, SumNone
  <2>5. \A u \in rest : alone[u] = d[u]
    BY <1>0, <1>6, <1>8, <1>10, <1>p, <1>q
  <2>6. Sum(alone, rest) = Sum(d, rest)
    BY <2>5, SumRestricted
  <2> QED
    BY <1>11, <1>q, <2>3, <2>4, <2>6
<1>14. PartOf(X, p, l, e, pl, NoPool, People, Pools) = PartOf(X, p, l, f, ql, NoPool, People, Pools)
  <2>1. PartOf(X, p, l, e, pl, NoPool, People, Pools) = Sum(alone, X) + Settlement!Max0(Sum(l, M) - Sum(e, M))
    BY <1>9, <1>p DEF PartOf, a
  <2>2. Settlement!Max0(Sum(l, M) - Sum(e, M)) = Sum(d, M)
    BY <1>5, <1>11 DEF Settlement!Max0
  <2> QED
    BY <1>7, <1>11, <1>12, <1>13, <2>1, <2>2
<1>15. \A u \in People \ X : pl[u] = ql[u] /\ e[u] = f[u]
  BY <1>0, <1>1
<1> QED
  BY <1>3, <1>4, <1>14, <1>15, SpareKept

LEMMA SpareIs ==
    /\ Settlement!Spare = Spares(limit, Settlement!UsedBy, poolOf, NoPool, People, Pools)
    /\ Settlement!Spare' = Spares(limit', Settlement!UsedBy', poolOf', NoPool, People, Pools)
<1> DEFINE a == OwnSpare(limit, Settlement!UsedBy, poolOf, NoPool, People)
           s == PoolSpare(limit, Settlement!UsedBy, poolOf, People, Pools)
<1>1. /\ a = [u \in People |-> IF poolOf[u] = NoPool THEN Settlement!Max0(limit[u] - Settlement!Max0(Settlement!Effective(u))) ELSE 0]
      /\ DOMAIN a = People
  BY DEF OwnSpare, Settlement!UsedBy, Settlement!Effective
<1>2. /\ s = [q \in Pools |-> Settlement!Max0(Settlement!SumFunctionOnSet(limit, Settlement!Members(q)) - Settlement!Used(q))]
      /\ DOMAIN s = Pools
  BY DEF PoolSpare, In, Sum, Settlement!Used, Settlement!Members
<1>3. /\ a' = [u \in People |-> IF poolOf'[u] = NoPool THEN Settlement!Max0(limit'[u] - Settlement!Max0(Settlement!Effective(u)')) ELSE 0]
      /\ DOMAIN a' = People
  BY DEF OwnSpare, Settlement!UsedBy, Settlement!Effective
<1>4. /\ s' = [q \in Pools |-> Settlement!Max0(Settlement!SumFunctionOnSet(limit', Settlement!Members(q)') - Settlement!Used(q)')]
      /\ DOMAIN s' = Pools
  BY DEF PoolSpare, In, Sum, Settlement!Used, Settlement!Members
<1>5. Spares(limit, Settlement!UsedBy, poolOf, NoPool, People, Pools) = Settlement!SumFunctionOnSet(a, People) + Settlement!SumFunctionOnSet(s, Pools)
  BY DEF Spares, Sum
<1>6. Spares(limit', Settlement!UsedBy', poolOf', NoPool, People, Pools) = Settlement!SumFunctionOnSet(a', People) + Settlement!SumFunctionOnSet(s', Pools)
  BY DEF Spares, Sum
<1> HIDE DEF a, s
<1>7. Settlement!Spare = Settlement!SumFunctionOnSet(a, People) + Settlement!SumFunctionOnSet(s, Pools)
  BY Zenon, <1>1, <1>2 DEF Settlement!Spare, Settlement!SumFunction
<1>8. Settlement!Spare' = Settlement!SumFunctionOnSet(a', People) + Settlement!SumFunctionOnSet(s', Pools)
  BY Zenon, <1>3, <1>4 DEF Settlement!Spare, Settlement!SumFunction
<1> QED
  BY <1>5, <1>6, <1>7, <1>8

\* A step that moves somebody settles one pool, and concerns only its members and who joins it.
MovesAround(p, dissolving, M, X) ==
    /\ Moved(p, dissolving, M, X, Settlement!UsedBy')
    /\ Around(X, p, poolOf', NoPool, People, Pools)
    /\ poolOf' \in [People -> Pools \cup {NoPool}]
    /\ \A u \in People \ X : poolOf'[u] = poolOf[u]
    /\ rows' = rows /\ limit' = limit

LEMMA JoinMoves ==
    ASSUME Settlement!SettlementAssumption, Settlement!TypeOK, NEW u \in People, NEW p \in Pools, Settlement!Join(u, p)
    PROVE  MovesAround(p, FALSE, Settlement!Members(p), Settlement!Members(p) \cup {u})
<1>1. PICK M : M = Settlement!Members(p)
  OBVIOUS
<1>2. PICK e : e = UseAfter(p, FALSE)
  OBVIOUS
<1>3. PICK s : s = Settlement!Settled(p, FALSE)
  OBVIOUS
<1>4. /\ e \in [People -> Int] /\ (\A v \in People \ M : e[v] = Settlement!Effective(v))
      /\ s.carry \in [People -> Int] /\ rows \in [People -> Nat] /\ M \in SUBSET People
      /\ \A v \in People : e[v] = rows[v] + s.carry[v]
  <2>1. rows \in [People -> Nat] /\ M \in SUBSET People
    BY <1>1, Typed
  <2>2. s.carry \in [People -> Int]
    BY <1>3, SettledFits
  <2>3. e \in [People -> Int] /\ \A v \in People \ M : e[v] = Settlement!Effective(v)
    <3>1. PICK no \in BOOLEAN : no = FALSE
      OBVIOUS
    <3>2. e = UseAfter(p, no)
      BY <1>2, <3>1
    <3> QED
      BY <1>1, <3>2, SettledUse
  <2>4. \A v \in People : e[v] = rows[v] + s.carry[v]
    BY <1>2, <1>3 DEF UseAfter
  <2> QED
    BY <2>1, <2>2, <2>3, <2>4
<1>5. /\ poolOf[u] = NoPool /\ poolOf' = [poolOf EXCEPT ![u] = p] /\ rows' = rows /\ limit' = limit
      /\ carry' = [s.carry EXCEPT ![u] = Settlement!Clamped(u) - rows[u]]
  BY <1>3 DEF Settlement!Join, Settlement!profile
<1>6. p # NoPool /\ poolOf \in [People -> Pools \cup {NoPool}] /\ Settlement!Clamped(u) \in Nat
  BY ClampedType DEF Settlement!SettlementAssumption, Settlement!TypeOK
<1>7. u \notin M /\ \A v \in M : v \in People /\ poolOf[v] = p
  BY <1>1, <1>5, <1>6 DEF Settlement!Members
<1>8. PICK f : f = Settlement!UsedBy'
  OBVIOUS
<1>9. f = [v \in People |-> rows[v] + carry'[v]]
  BY <1>5, <1>8 DEF Settlement!UsedBy
<1>10. f \in [People -> Int] /\ f[u] = Settlement!Clamped(u) /\ \A v \in People \ {u} : f[v] = e[v]
  <2>1. ASSUME NEW v \in People PROVE rows[v] + carry'[v] \in Int /\ rows[v] + carry'[v] = IF v = u THEN Settlement!Clamped(u) ELSE e[v]
    <3>1. rows[v] \in Nat /\ s.carry[v] \in Int /\ e[v] = rows[v] + s.carry[v]
      BY <1>4
    <3>2. carry'[v] = IF v = u THEN Settlement!Clamped(u) - rows[u] ELSE s.carry[v]
      BY <1>4, <1>5
    <3> QED
      BY <1>6, <3>1, <3>2
  <2>2. f \in [People -> Int] /\ \A v \in People : f[v] = IF v = u THEN Settlement!Clamped(u) ELSE e[v]
    BY <1>9, <2>1
  <2> QED
    BY <2>2
<1>11. Moved(p, FALSE, M, M \cup {u}, f)
  BY <1>1, <1>2, <1>4, <1>5, <1>7, <1>10 DEF Moved
<1>12. /\ Around(M \cup {u}, p, poolOf', NoPool, People, Pools)
       /\ poolOf' \in [People -> Pools \cup {NoPool}]
       /\ \A v \in People \ (M \cup {u}) : poolOf'[v] = poolOf[v]
  <2>1. \A v \in People : poolOf'[v] = IF v = u THEN p ELSE poolOf[v]
    BY <1>5, <1>6
  <2>2. poolOf' \in [People -> Pools \cup {NoPool}]
    BY <1>5, <1>6
  <2>3. In(poolOf', p, People) \subseteq M \cup {u}
    BY <1>1, <2>1 DEF In, Settlement!Members
  <2> QED
    BY <1>4, <1>7, <2>1, <2>2, <2>3 DEF Around
<1> QED
  BY <1>1, <1>5, <1>8, <1>11, <1>12 DEF MovesAround

\* A leave and a dissolution: of the members of p, who are left by or who leave their pool.
LEMMA DepartureMoves ==
    ASSUME Settlement!SettlementAssumption, Settlement!TypeOK, NEW p \in Pools, NEW dissolving \in BOOLEAN,
           NEW Out \in SUBSET Settlement!Members(p),
           poolOf' = [v \in People |-> IF v \in Out THEN NoPool ELSE poolOf[v]],
           carry' = Settlement!Settled(p, dissolving).carry, rows' = rows, limit' = limit
    PROVE  MovesAround(p, dissolving, Settlement!Members(p), Settlement!Members(p))
<1>1. PICK M : M = Settlement!Members(p)
  OBVIOUS
<1>2. PICK e : e = UseAfter(p, dissolving)
  OBVIOUS
<1>3. e \in [People -> Int] /\ (\A v \in People \ M : e[v] = Settlement!Effective(v)) /\ M \in SUBSET People
  BY <1>1, <1>2, SettledUse, Typed
<1>4. Settlement!UsedBy' = e
  BY <1>2 DEF Settlement!UsedBy, UseAfter
<1>5. Moved(p, dissolving, M, M, e)
  BY <1>1, <1>2, <1>3 DEF Moved
<1>6. p # NoPool /\ poolOf \in [People -> Pools \cup {NoPool}]
  BY DEF Settlement!SettlementAssumption, Settlement!TypeOK
<1>7. /\ Around(M, p, poolOf', NoPool, People, Pools)
      /\ poolOf' \in [People -> Pools \cup {NoPool}]
      /\ \A v \in People \ M : poolOf'[v] = poolOf[v]
  BY <1>1, <1>3, <1>6 DEF Around, In, Settlement!Members
<1> QED
  BY <1>1, <1>4, <1>5, <1>7 DEF MovesAround

\* What both properties say of one step.
Conserves ==
    poolOf' # poolOf =>
        /\ Settlement!Regular /\ ~purged => Settlement!Spare' = Settlement!Spare
        /\ \A u \in People :
               poolOf[u] = NoPool \/ Settlement!UnlimitedPool(poolOf[u]) =>
                   Settlement!Effective(u)' >= Settlement!UpTo(limit[u], Settlement!Effective(u))
        /\ \A p \in Pools : ~Settlement!UnlimitedPool(p) =>
               Settlement!SumFunctionOnSet(Settlement!UsedBy', Settlement!Members(p))
                   >= Settlement!UpTo(Settlement!Donated(p), Settlement!Used(p))

LEMMA MoveConserves ==
    ASSUME Settlement!SettlementAssumption, SInv, NEW p \in Pools, NEW dissolving \in BOOLEAN, NEW M, NEW X,
           MovesAround(p, dissolving, M, X)
    PROVE  Conserves
<1>1. PICK f : f = Settlement!UsedBy'
  OBVIOUS
<1>2. PICK ql : ql = poolOf'
  OBVIOUS
<1>3. /\ Moved(p, dissolving, M, X, f) /\ Around(X, p, ql, NoPool, People, Pools)
      /\ ql \in [People -> Pools \cup {NoPool}] /\ (\A u \in People \ X : ql[u] = poolOf[u])
      /\ rows' = rows /\ limit' = limit /\ Settlement!TypeOK
  BY <1>1, <1>2 DEF MovesAround, SInv
<1>4. ASSUME Settlement!Regular, ~purged PROVE Settlement!Spare' = Settlement!Spare
  <2>1. PICK l : l = limit
    OBVIOUS
  <2>2. PICK e : e = Settlement!UsedBy
    OBVIOUS
  <2>3. PICK pl : pl = poolOf
    OBVIOUS
  <2>4. Safe(p) /\ \A u \in People \ X : ql[u] = pl[u]
    BY <1>3, <1>4, <2>3 DEF SInv
  <2>5. Spares(l, e, pl, NoPool, People, Pools) = Spares(l, f, ql, NoPool, People, Pools)
    BY <1>3, <1>4, <2>1, <2>2, <2>3, <2>4, MoveSpares
  <2> QED
    BY <1>1, <1>2, <1>3, <2>1, <2>2, <2>3, <2>5, SpareIs
<1>5. /\ \A u \in People : poolOf[u] = NoPool \/ Settlement!UnlimitedPool(poolOf[u]) =>
               f[u] >= Settlement!UpTo(limit[u], Settlement!Effective(u))
      /\ \A q \in Pools : ~Settlement!UnlimitedPool(q) =>
               Sum(f, Settlement!Members(q)) >= Settlement!UpTo(Settlement!Donated(q), Settlement!Used(q))
  BY <1>3, UseKept
<1>6. \A u \in People : f[u] = Settlement!Effective(u)'
  BY <1>1 DEF Settlement!UsedBy, Settlement!Effective
<1> QED
  BY <1>1, <1>4, <1>5, <1>6 DEF Conserves, Sum

LEMMA StepConserves ==
    ASSUME Settlement!SettlementAssumption, SInv, [Settlement!Next]_(Settlement!vars)
    PROVE  Conserves
<1>0. Settlement!TypeOK
  BY DEF SInv
<1>1. ASSUME NEW u \in People, NEW p \in Pools, Settlement!Join(u, p) PROVE Conserves
  BY <1>0, <1>1, JoinMoves, MoveConserves
<1>2. ASSUME NEW u \in People, Settlement!Leave(u) PROVE Conserves
  <2>1. PICK p : p = poolOf[u]
    OBVIOUS
  <2>2. poolOf \in [People -> Pools \cup {NoPool}] /\ poolOf[u] # NoPool
    BY <1>0, <1>2 DEF Settlement!Leave, Settlement!TypeOK
  <2>3. p \in Pools /\ {u} \in SUBSET Settlement!Members(p)
    BY <2>1, <2>2 DEF Settlement!Members
  <2>4. carry' = Settlement!Settled(p, FALSE).carry /\ rows' = rows /\ limit' = limit
        /\ poolOf' = [poolOf EXCEPT ![u] = NoPool]
    BY <1>2, <2>1 DEF Settlement!Leave, Settlement!profile
  <2>5. poolOf' = [v \in People |-> IF v \in {u} THEN NoPool ELSE poolOf[v]]
    BY <2>2, <2>4
  <2>6. MovesAround(p, FALSE, Settlement!Members(p), Settlement!Members(p))
    BY <1>0, <2>3, <2>4, <2>5, DepartureMoves
  <2> QED
    BY <2>3, <2>6, MoveConserves
<1>3. ASSUME NEW p \in Pools, Settlement!Dissolve(p) PROVE Conserves
  <2>1. /\ carry' = Settlement!Settled(p, TRUE).carry /\ rows' = rows /\ limit' = limit
        /\ poolOf' = [v \in People |-> IF v \in Settlement!Members(p) THEN NoPool ELSE poolOf[v]]
    BY <1>3 DEF Settlement!Dissolve, Settlement!profile
  <2>2. MovesAround(p, TRUE, Settlement!Members(p), Settlement!Members(p))
    BY <1>0, <2>1, DepartureMoves
  <2> QED
    BY <2>2, MoveConserves
<1>4. CASE poolOf' = poolOf
  BY <1>4 DEF Conserves
<1>5. CASE Settlement!Next
  <2>1. ASSUME NEW v \in People, Settlement!Use(v) \/ Settlement!SetActive(v) PROVE poolOf' = poolOf
    BY <2>1 DEF Settlement!Use, Settlement!SetActive
  <2>2. ASSUME NEW q \in Pools, Settlement!Resettle(q) PROVE poolOf' = poolOf
    BY <2>2 DEF Settlement!Resettle
  <2>3. ASSUME NEW v \in People, NEW l \in Limits, Settlement!SetLimit(v, l) PROVE poolOf' = poolOf
    BY <2>3 DEF Settlement!SetLimit
  <2>4. ASSUME NEW remaining \in [People -> 0..MaxRows], Settlement!Purge(remaining) PROVE poolOf' = poolOf
    BY <2>4 DEF Settlement!Purge
  <2>5. ASSUME Settlement!Midnight PROVE poolOf' = poolOf
    BY <2>5 DEF Settlement!Midnight
  <2> QED
    BY <1>1, <1>2, <1>3, <1>4, <1>5, <2>1, <2>2, <2>3, <2>4, <2>5 DEF Settlement!Next
<1> QED
  BY <1>4, <1>5 DEF Settlement!vars

LEMMA LedgerConserves == Settlement!Spec => Settlement!QuotaConserved /\ Settlement!UseSurvives
<1> USE LedgerAssumption
<1> DEFINE A == poolOf' # poolOf /\ Settlement!Regular /\ ~purged => Settlement!Spare' = Settlement!Spare
           B == poolOf' # poolOf =>
                  /\ \A u \in People :
                        poolOf[u] = NoPool \/ Settlement!UnlimitedPool(poolOf[u]) =>
                            Settlement!Effective(u)' >= Settlement!UpTo(limit[u], Settlement!Effective(u))
                  /\ \A p \in Pools : ~Settlement!UnlimitedPool(p) =>
                        Settlement!SumFunctionOnSet(Settlement!UsedBy', Settlement!Members(p))
                            >= Settlement!UpTo(Settlement!Donated(p), Settlement!Used(p))
<1>1. SInv /\ [Settlement!Next]_(Settlement!vars) => A /\ B
  BY StepConserves DEF Conserves
<1>2. Settlement!Spec => [][A]_(Settlement!vars) /\ [][B]_(Settlement!vars)
  BY <1>1, SettlementInvariance, PTL DEF Settlement!Spec
<1> QED
  BY <1>2 DEF Settlement!QuotaConserved, Settlement!UseSurvives

-----------------------------------------------------------------------------
(* The same of the composition that TLC checks.                            *)

LEMMA LedgerInQuota == MCSpec => Settlement!Spec
<1>1. MCInit => Settlement!Init
  BY DEF MCInit
<1>2. [MCNext]_<<vars, settlement, locking, part>> => [Settlement!Next]_(Settlement!vars)
  BY DEF MCNext, settlement, Settlement!vars, Settlement!store, Settlement!profile
<1> QED
  BY <1>1, <1>2, PTL DEF MCSpec, Settlement!Spec

\* For any users, pools and limits: until rows are purged, what a member is charged beyond
\* what they came in with was used by their pool since, whoever joined, left, was edited or
\* was pinned at their room meanwhile (settle_pool, admit_member, clear_member_settlement).
THEOREM ChargedForOwnTime == MCSpec => []NeverChargedForThePast
<1>1. Settlement!TypeOK /\ Settlement!NeverChargedForThePast => NeverChargedForThePast
  BY DEF NeverChargedForThePast
<1> QED
  BY <1>1, LedgerInQuota, SettlementTypes, LedgerOwnTime, PTL

\* For any users, pools and limits: until rows are purged, a join, a leave or a dissolution
\* leaves everyone in the pool charged exactly their effective use, member by member.
THEOREM ChargesFollowUse == MCSpec => ChargesAreUse
  BY LedgerInQuota, LedgerIsUse, PTL DEF ChargesAreUse

\* For any members, limits, uses and charges: what a settlement deals out is all that was used since
\* the last, or all there is room for; nobody gets more than their room; and who has room left has
\* at most a request less than their limit's proportion of what another has (apportion).
THEOREM SettlementIsFair == MCSpec => []SharesAreFair
<1>1. ASSUME Settlement!TypeOK PROVE SharesAreFair
  BY <1>1, FairWhenDealt, LedgerAssumption DEF SharesAreFair, Settlement!SharesAreFair
<1>2. Settlement!TypeOK => SharesAreFair
  BY <1>1
<1> QED
  BY <1>2, LedgerInQuota, SettlementTypes, PTL

\* For any users, pools and limits: where nobody is unlimited, off or charged past a lowered limit, a
\* join, a leave or a dissolution leaves what all may still send together as it was; and whatever the
\* limits it never wipes the use that their own limit, or their pool's, lets anyone keep.
THEOREM MovingIsNeutral == MCSpec => QuotaConserved
  BY LedgerInQuota, LedgerConserves, PTL DEF QuotaConserved

-----------------------------------------------------------------------------
(* PoolLocks.  What a task has still to do, and what it has locked, fit:    *)
(* dropping what it drops, and taking what it takes, it ends with nothing   *)
(* (Level); it settles only pools it has or takes the guards of (Uses); it  *)
(* has no step that takes guards behind another but a first write (NoTake); *)
(* whatever it writes it commits before it drops a guard (Commits); and the *)
(* guards it takes come after those it has (Climbs).  Plans are taken apart *)
(* at their first step, Cons(step, rest).                                   *)
Ending == {"commit", "join", "leave", "gone"}
Kinds == {"take", "drop", "flush", "write", "settle", "depart", "resettle"} \cup Ending
Steps == [do : Kinds, on : SUBSET Locking!Locks, who : SUBSET Users]
Plans == Seq(Steps)

Cons(e, s) == <<e>> \o s

LEMMA ConsFacts ==
    ASSUME NEW e \in Steps, NEW s \in Plans
    PROVE  /\ Cons(e, s) \in Plans /\ Cons(e, s) # <<>>
           /\ Len(Cons(e, s)) = Len(s) + 1 /\ Len(s) \in Nat
           /\ Cons(e, s)[1] = e
           /\ \A i \in 1..Len(s) : Cons(e, s)[i + 1] = s[i]
           /\ Head(Cons(e, s)) = e /\ Tail(Cons(e, s)) = s
<1>1. <<e>> \in Seq(Steps) /\ Len(<<e>>) = 1 /\ <<e>>[1] = e
    OBVIOUS
<1>2. /\ Cons(e, s) \in Plans /\ Len(Cons(e, s)) = Len(s) + 1 /\ Len(s) \in Nat
      /\ \A i \in 1..1 + Len(s) : Cons(e, s)[i] = IF i <= 1 THEN e ELSE s[i - 1]
    BY <1>1, ConcatProperties, LenProperties DEF Cons, Plans
<1>3. Cons(e, s) # <<>>
    BY <1>2, EmptySeq DEF Plans
<1>4. Cons(e, s)[1] = e /\ \A i \in 1..Len(s) : Cons(e, s)[i + 1] = s[i]
    BY <1>2
<1>5. Head(Cons(e, s)) = e
    BY <1>4, <1>3 DEF Plans
<1>6. /\ Tail(Cons(e, s)) \in Plans /\ Len(Tail(Cons(e, s))) = Len(s)
      /\ \A i \in 1..Len(s) : Tail(Cons(e, s))[i] = s[i]
    BY <1>2, <1>3, <1>4, HeadTailProperties DEF Plans
<1>7. Tail(Cons(e, s)) = s
    BY <1>6, SeqEqual DEF Plans
<1> QED
    BY <1>2, <1>3, <1>4, <1>5, <1>7

LEMMA Uncons ==
    ASSUME NEW s \in Plans, s # <<>>
    PROVE  Head(s) \in Steps /\ Tail(s) \in Plans /\ s = Cons(Head(s), Tail(s))
<1> DEFINE e == Head(s)
           r == Tail(s)
<1>1. e \in Steps /\ r \in Plans /\ Len(r) = Len(s) - 1 /\ e = s[1] /\ Len(s) \in Nat \ {0}
      /\ \A i \in 1..Len(r) : r[i] = s[i + 1]
    BY HeadTailProperties, EmptySeq DEF Plans
<1> HIDE DEF e, r
<1>2. /\ Cons(e, r) \in Plans /\ Len(Cons(e, r)) = Len(s) /\ Cons(e, r)[1] = s[1]
      /\ \A i \in 1..Len(r) : Cons(e, r)[i + 1] = s[i + 1]
    <2>1. e \in Steps /\ r \in Plans
        BY <1>1
    <2>2. /\ Cons(e, r) \in Plans /\ Len(Cons(e, r)) = Len(r) + 1 /\ Len(r) \in Nat
          /\ Cons(e, r)[1] = e /\ \A i \in 1..Len(r) : Cons(e, r)[i + 1] = r[i]
        BY <2>1, ConsFacts
    <2> QED
        BY <2>2, <1>1
<1>3. ASSUME NEW i \in 1..Len(s) PROVE Cons(e, r)[i] = s[i]
    <2>1. CASE i = 1
        BY <2>1, <1>2
    <2>2. CASE i # 1
        <3>1. i - 1 \in 1..Len(r) /\ (i - 1) + 1 = i
            BY <2>2, <1>1
        <3> QED
            BY <3>1, <1>2
    <2> QED
        BY <2>1, <2>2
<1>4. s = Cons(e, r)
    BY <1>1, <1>2, <1>3, SeqEqual DEF Plans
<1> QED
    BY <1>1, <1>4 DEF e, r

-----------------------------------------------------------------------------
TakesGuards(e) == e.do = "take" /\ e.on # {Locking!Mutex}
DropsGuards(e) == e.do = "drop" /\ e.on # {Locking!Mutex}
Blank(e)       == e.do = "write" /\ e.on = {}
MustCommit(e)  == e.do \in {"write", "settle", "depart"}

\* What a step is about.
Form(e) ==
    /\ e.do \in {"take", "drop"} => e.on # {} /\ (e.on = {Locking!Mutex} \/ e.on \subseteq Guards)
    /\ e.do \in {"write", "settle"} => e.on \subseteq Guards
    /\ e.do = "settle" => e.on # {}
    /\ e.do = "join" => \E p \in Guards : e.on = {p}

NoTake(s)   == \A j \in 1..Len(s) : ~TakesGuards(s[j])
AllDrops(s) == \A j \in 1..Len(s) : s[j].do = "drop"
Commits(s)  == \E c \in 1..Len(s) : s[c].do \in Ending /\ \A j \in 1..c : ~DropsGuards(s[j])
Uses(s, X)  == \A j \in 1..Len(s) : s[j].do \in {"write", "settle"} => s[j].on \subseteq X
Climbs(s, own) == \A j \in 1..Len(s) : TakesGuards(s[j]) =>
                     \A q \in s[j].on : q \in own \/ \A m \in own : m \in Guards /\ m < q
Taken(s) == {p \in Guards : \E j \in 1..Len(s) : TakesGuards(s[j]) /\ p \in s[j].on}

Fits(e, s) ==
    /\ Form(e)
    /\ Blank(e) \/ NoTake(s)
    /\ MustCommit(e) => Commits(s)
    /\ DropsGuards(e) \/ e.do = "resettle" => AllDrops(s)

Rest(s, i) == SubSeq(s, i + 1, Len(s))
Sound(s) == s \in Plans /\ \A i \in 1..Len(s) : Fits(s[i], Rest(s, i))

Delta(e, l) == IF l \notin e.on THEN 0 ELSE IF e.do = "drop" THEN 1 ELSE IF e.do = "take" THEN 0 - 1 ELSE 0
LevelBound(e, l, d) ==
    /\ e.do \in {"settle", "depart"} /\ l = Locking!Mutex => d <= 1
    /\ e.do = "resettle" => IF l = Locking!Mutex THEN d = 1 ELSE d <= 1
Levels(s, l, d, h) ==
    /\ h \in [1..(Len(s) + 1) -> 0..2] /\ h[1] = d /\ h[Len(s) + 1] = 0
    /\ \A i \in 1..Len(s) : h[i] = h[i + 1] + Delta(s[i], l) /\ LevelBound(s[i], l, h[i])
Level(s, l, d) == \E h \in [1..(Len(s) + 1) -> 0..2] : Levels(s, l, d, h)

LEMMA ConsAll ==
    ASSUME NEW e \in Steps, NEW s \in Plans
    PROVE  /\ NoTake(Cons(e, s)) <=> ~TakesGuards(e) /\ NoTake(s)
           /\ AllDrops(Cons(e, s)) <=> e.do = "drop" /\ AllDrops(s)
           /\ Commits(Cons(e, s)) <=> ~DropsGuards(e) /\ (e.do \in Ending \/ Commits(s))
           /\ \A X : Uses(Cons(e, s), X) <=> (e.do \in {"write", "settle"} => e.on \subseteq X) /\ Uses(s, X)
           /\ \A own : Climbs(Cons(e, s), own) <=>
                 /\ TakesGuards(e) => \A q \in e.on : q \in own \/ \A m \in own : m \in Guards /\ m < q
                 /\ Climbs(s, own)
           /\ Taken(Cons(e, s)) = Taken(s) \cup (IF TakesGuards(e) THEN e.on \cap Guards ELSE {})
           /\ Sound(Cons(e, s)) <=> Fits(e, s) /\ Sound(s)
<1> DEFINE c == Cons(e, s)
<1>1. /\ c \in Plans /\ Len(c) = Len(s) + 1 /\ Len(s) \in Nat /\ c[1] = e
      /\ \A i \in 1..Len(s) : c[i + 1] = s[i]
    BY ConsFacts
<1> HIDE DEF c
<1>2. \A i \in 1..Len(c) : i = 1 \/ (i - 1 \in 1..Len(s) /\ c[i] = s[i - 1])
    <2>1. SUFFICES ASSUME NEW i \in 1..Len(c), i # 1 PROVE i - 1 \in 1..Len(s) /\ c[i] = s[i - 1]
        OBVIOUS
    <2>2. i - 1 \in 1..Len(s) /\ (i - 1) + 1 = i
        BY <1>1, <2>1
    <2> QED
        BY <2>2, <1>1
<1>3. \A i \in 1..Len(s) : i + 1 \in 1..Len(c)
    BY <1>1
<1>a. 1 \in 1..Len(c)
    BY <1>1
<1>4. NoTake(c) <=> ~TakesGuards(e) /\ NoTake(s)
    BY <1>1, <1>2, <1>3, <1>a DEF NoTake
<1>5. AllDrops(c) <=> e.do = "drop" /\ AllDrops(s)
    BY <1>1, <1>2, <1>3, <1>a DEF AllDrops
<1>6. \A X : Uses(c, X) <=> (e.do \in {"write", "settle"} => e.on \subseteq X) /\ Uses(s, X)
    BY <1>1, <1>2, <1>3, <1>a DEF Uses
<1>7. \A own : Climbs(c, own) <=>
                 /\ TakesGuards(e) => \A q \in e.on : q \in own \/ \A m \in own : m \in Guards /\ m < q
                 /\ Climbs(s, own)
    BY <1>1, <1>2, <1>3, <1>a DEF Climbs
<1>8. Taken(c) = Taken(s) \cup (IF TakesGuards(e) THEN e.on \cap Guards ELSE {})
    BY <1>1, <1>2, <1>3, <1>a DEF Taken
<1>9. Commits(c) <=> ~DropsGuards(e) /\ (e.do \in Ending \/ Commits(s))
    <2>1. ASSUME Commits(c) PROVE ~DropsGuards(e) /\ (e.do \in Ending \/ Commits(s))
        <3>1. PICK k \in 1..Len(c) : c[k].do \in Ending /\ \A j \in 1..k : ~DropsGuards(c[j])
            BY <2>1 DEF Commits
        <3>2. 1 \in 1..k
            BY <3>1, <1>1
        <3>3. ~DropsGuards(e)
            BY <3>1, <3>2, <1>1
        <3>4. CASE k # 1
            <4>1. k - 1 \in 1..Len(s) /\ s[k - 1].do \in Ending
                BY <3>4, <3>1, <1>2
            <4>2. ASSUME NEW j \in 1..(k - 1) PROVE ~DropsGuards(s[j])
                <5>1. j \in 1..Len(s) /\ j + 1 \in 1..k
                    BY <4>1, <1>1
                <5> QED
                    BY <5>1, <3>1, <1>1
            <4> QED
                BY <3>3, <4>1, <4>2 DEF Commits
        <3> QED
            BY <3>1, <3>3, <3>4, <1>1
    <2>2. ASSUME ~DropsGuards(e), e.do \in Ending PROVE Commits(c)
        BY <2>2, <1>1, <1>a DEF Commits
    <2>3. ASSUME ~DropsGuards(e), Commits(s) PROVE Commits(c)
        <3>1. PICK k \in 1..Len(s) : s[k].do \in Ending /\ \A j \in 1..k : ~DropsGuards(s[j])
            BY <2>3 DEF Commits
        <3>2. k + 1 \in 1..Len(c) /\ c[k + 1].do \in Ending
            BY <3>1, <1>1, <1>3
        <3>3. ASSUME NEW j \in 1..(k + 1) PROVE ~DropsGuards(c[j])
            <4>1. CASE j = 1
                BY <4>1, <1>1, <2>3
            <4>2. CASE j # 1
                <5>1. j \in 1..Len(c) /\ j - 1 \in 1..k
                    BY <4>2, <3>1, <1>1
                <5> QED
                    BY <5>1, <4>2, <1>2, <3>1
            <4> QED
                BY <4>1, <4>2
        <3> QED
            BY <3>2, <3>3 DEF Commits
    <2> QED
        BY <2>1, <2>2, <2>3
<1>10. Sound(c) <=> Fits(e, s) /\ Sound(s)
    <2>1. ASSUME NEW i \in 1..Len(c) PROVE Rest(c, i) = IF i = 1 THEN s ELSE Rest(s, i - 1)
        <3>1. /\ Rest(c, i) \in Plans /\ Len(Rest(c, i)) = Len(c) - i
              /\ \A j \in 1..Len(c) - i : Rest(c, i)[j] = c[i + j]
            <4>1. \A j \in (i + 1)..Len(c) : c[j] \in Steps
                BY <1>1, ElementOfSeq DEF Plans
            <4>2. i + 1 \in Int /\ Len(c) \in Int
                BY <1>1
            <4>3. /\ Rest(c, i) \in Seq(Steps) /\ Len(Rest(c, i)) = IF i + 1 <= Len(c) THEN Len(c) - (i + 1) + 1 ELSE 0
                  /\ \A j \in 1..(Len(c) - (i + 1) + 1) : Rest(c, i)[j] = c[(i + 1) + j - 1]
                BY <4>1, <4>2, SubSeqProperties DEF Rest
            <4>4. Len(Rest(c, i)) = Len(c) - i
                BY <4>3, <1>1
            <4>5. ASSUME NEW j \in 1..Len(c) - i PROVE Rest(c, i)[j] = c[i + j]
                <5>1. j \in 1..(Len(c) - (i + 1) + 1) /\ (i + 1) + j - 1 = i + j
                    BY <1>1
                <5> QED
                    BY <5>1, <4>3
            <4> QED
                BY <4>3, <4>4, <4>5 DEF Plans
        <3>2. CASE i = 1
            <4>1. Len(Rest(c, i)) = Len(s) /\ \A j \in 1..Len(s) : Rest(c, i)[j] = s[j]
                BY <3>1, <3>2, <1>1
            <4> QED
                BY <4>1, <3>1, <3>2, SeqEqual DEF Plans
        <3>3. CASE i # 1
            <4>1. i - 1 \in 1..Len(s)
                BY <3>3, <1>1
            <4>2. \A j \in (i - 1 + 1)..Len(s) : s[j] \in Steps
                BY <4>1, ElementOfSeq, <1>1 DEF Plans
            <4>3. /\ Rest(s, i - 1) \in Seq(Steps)
                  /\ Len(Rest(s, i - 1)) = IF i - 1 + 1 <= Len(s) THEN Len(s) - (i - 1 + 1) + 1 ELSE 0
                  /\ \A j \in 1..(Len(s) - (i - 1 + 1) + 1) : Rest(s, i - 1)[j] = s[(i - 1 + 1) + j - 1]
                <5>1. i - 1 + 1 \in Int /\ Len(s) \in Int
                    BY <1>1
                <5> QED
                    BY <4>2, <5>1, SubSeqProperties DEF Rest
            <4>4. Len(Rest(s, i - 1)) = Len(c) - i
                <5>1. /\ i - 1 + 1 <= Len(s) => Len(s) - (i - 1 + 1) + 1 = Len(c) - i
                      /\ ~(i - 1 + 1 <= Len(s)) => 0 = Len(c) - i
                    BY <1>1
                <5> QED
                    BY <4>3, <5>1
            <4>5. ASSUME NEW j \in 1..Len(c) - i PROVE Rest(s, i - 1)[j] = Rest(c, i)[j]
                <5>1. /\ j \in 1..(Len(s) - (i - 1 + 1) + 1) /\ (i - 1 + 1) + j - 1 = i + j - 1
                      /\ i + j \in 1..Len(c) /\ i + j # 1
                    BY <1>1, <4>1
                <5>2. Rest(s, i - 1)[j] = s[i + j - 1]
                    BY <5>1, <4>3
                <5> QED
                    BY <5>1, <5>2, <3>1, <1>2
            <4> QED
                BY <3>1, <3>3, <4>3, <4>4, <4>5, SeqEqual DEF Plans
        <3> QED
            BY <3>2, <3>3
    <2>2. ASSUME Sound(c) PROVE Fits(e, s) /\ Sound(s)
        <3>1. Fits(e, s)
            BY <2>2, <2>1, <1>1, <1>a DEF Sound
        <3>2. ASSUME NEW i \in 1..Len(s) PROVE Fits(s[i], Rest(s, i))
            <4>1. i + 1 \in 1..Len(c) /\ i + 1 # 1 /\ (i + 1) - 1 = i
                BY <1>3
            <4>2. Fits(c[i + 1], Rest(c, i + 1))
                BY <4>1, <2>2 DEF Sound
            <4> QED
                BY <4>1, <4>2, <2>1, <1>1
        <3> QED
            BY <3>1, <3>2 DEF Sound
    <2>3. ASSUME Fits(e, s), Sound(s) PROVE Sound(c)
        <3>1. ASSUME NEW i \in 1..Len(c) PROVE Fits(c[i], Rest(c, i))
            <4>1. CASE i = 1
                BY <4>1, <2>1, <2>3, <1>1
            <4>2. CASE i # 1
                BY <4>2, <2>1, <2>3, <1>2 DEF Sound
            <4> QED
                BY <4>1, <4>2
        <3> QED
            BY <3>1, <1>1 DEF Sound
    <2> QED
        BY <2>2, <2>3
<1> QED
    BY <1>4, <1>5, <1>6, <1>7, <1>8, <1>9, <1>10 DEF c

LEMMA EmptyAll ==
    /\ <<>> \in Plans /\ NoTake(<<>>) /\ AllDrops(<<>>) /\ ~Commits(<<>>) /\ Sound(<<>>) /\ Taken(<<>>) = {}
    /\ \A X : Uses(<<>>, X)
    /\ \A own : Climbs(<<>>, own)
    /\ \A l, d : Level(<<>>, l, d) <=> d = 0
<1>1. <<>> \in Plans /\ Len(<<>>) = 0
    BY EmptySeq DEF Plans
<1>2. ASSUME NEW l, NEW d PROVE Level(<<>>, l, d) <=> d = 0
    <2>1. Level(<<>>, l, d) => d = 0
        BY <1>1 DEF Level, Levels
    <2>2. ASSUME d = 0 PROVE Levels(<<>>, l, d, [i \in 1..(Len(<<>>) + 1) |-> 0])
        BY <1>1, <2>2 DEF Levels
    <2> QED
        BY <2>1, <2>2, <1>1 DEF Level
<1> QED
    BY <1>1, <1>2 DEF NoTake, AllDrops, Commits, Sound, Taken, Uses, Climbs

LEMMA ConsLevel ==
    ASSUME NEW e \in Steps, NEW s \in Plans, NEW l, NEW d
    PROVE  Level(Cons(e, s), l, d) <=>
              d \in 0..2 /\ LevelBound(e, l, d) /\ Level(s, l, d - Delta(e, l))
<1> DEFINE c == Cons(e, s)
<1>1. /\ c \in Plans /\ Len(c) = Len(s) + 1 /\ Len(s) \in Nat /\ c[1] = e
      /\ \A i \in 1..Len(s) : c[i + 1] = s[i]
    BY ConsFacts
<1>2. Delta(e, l) \in {0 - 1, 0, 1}
    BY DEF Delta
<1> HIDE DEF c
<1>3. ASSUME Level(c, l, d) PROVE d \in 0..2 /\ LevelBound(e, l, d) /\ Level(s, l, d - Delta(e, l))
    <2>1. PICK h \in [1..(Len(c) + 1) -> 0..2] : Levels(c, l, d, h)
        BY <1>3 DEF Level
    <2> DEFINE g == [i \in 1..(Len(s) + 1) |-> h[i + 1]]
    <2>2. 1 \in 1..Len(c) /\ 1 \in 1..(Len(c) + 1) /\ Len(c) + 1 = (Len(s) + 1) + 1
        BY <1>1
    <2>3. d \in 0..2 /\ LevelBound(e, l, d) /\ d = h[2] + Delta(e, l) /\ h[2] \in 0..2
        BY <2>1, <2>2, <1>1 DEF Levels
    <2>4. g \in [1..(Len(s) + 1) -> 0..2] /\ g[1] = h[2] /\ g[Len(s) + 1] = 0
        BY <2>1, <2>2, <1>1 DEF Levels
    <2>5. ASSUME NEW i \in 1..Len(s) PROVE g[i] = g[i + 1] + Delta(s[i], l) /\ LevelBound(s[i], l, g[i])
        <3>1. i + 1 \in 1..Len(c) /\ c[i + 1] = s[i] /\ i \in 1..(Len(s) + 1) /\ i + 1 \in 1..(Len(s) + 1)
            BY <1>1
        <3>2. g[i] = h[i + 1] /\ g[i + 1] = h[(i + 1) + 1]
            BY <3>1
        <3> QED
            BY <3>1, <3>2, <2>1 DEF Levels
    <2>6. h[2] = d - Delta(e, l)
        BY <2>3, <1>2
    <2>7. Levels(s, l, d - Delta(e, l), g)
        BY <2>4, <2>5, <2>6 DEF Levels
    <2> QED
        BY <2>3, <2>4, <2>7 DEF Level
<1>4. ASSUME d \in 0..2, LevelBound(e, l, d), Level(s, l, d - Delta(e, l)) PROVE Level(c, l, d)
    <2>1. PICK g \in [1..(Len(s) + 1) -> 0..2] : Levels(s, l, d - Delta(e, l), g)
        BY <1>4 DEF Level
    <2> DEFINE h == [i \in 1..(Len(c) + 1) |-> IF i = 1 THEN d ELSE g[i - 1]]
    <2>2. Len(c) + 1 = (Len(s) + 1) + 1 /\ 1 \in 1..(Len(c) + 1)
        BY <1>1
    <2>3. ASSUME NEW i \in 1..(Len(c) + 1), i # 1 PROVE i - 1 \in 1..(Len(s) + 1) /\ h[i] = g[i - 1]
        BY <2>2, <2>3, <1>1
    <2>4. h \in [1..(Len(c) + 1) -> 0..2] /\ h[1] = d
        BY <2>2, <2>3, <2>1, <1>4
    <2>5. h[Len(c) + 1] = 0
        <3>1. Len(c) + 1 \in 1..(Len(c) + 1) /\ Len(c) + 1 # 1 /\ (Len(c) + 1) - 1 = Len(s) + 1
            BY <1>1
        <3> QED
            BY <3>1, <2>3, <2>1 DEF Levels
    <2>6. ASSUME NEW i \in 1..Len(c) PROVE h[i] = h[i + 1] + Delta(c[i], l) /\ LevelBound(c[i], l, h[i])
        <3>1. CASE i = 1
            <4>1. i + 1 \in 1..(Len(c) + 1) /\ i + 1 # 1 /\ (i + 1) - 1 = 1
                BY <3>1, <1>1
            <4>2. h[i + 1] = g[1] /\ g[1] = d - Delta(e, l)
                BY <4>1, <2>3, <2>1 DEF Levels
            <4>3. h[i] = d /\ c[i] = e
                BY <3>1, <2>4, <1>1
            <4> QED
                BY <4>2, <4>3, <1>4, <1>2
        <3>2. CASE i # 1
            <4>1. /\ i \in 1..(Len(c) + 1) /\ i + 1 \in 1..(Len(c) + 1) /\ i + 1 # 1 /\ (i + 1) - 1 = (i - 1) + 1
                  /\ i - 1 \in 1..Len(s) /\ (i - 1) + 1 = i
                BY <3>2, <1>1
            <4>2. h[i] = g[i - 1] /\ h[i + 1] = g[(i - 1) + 1] /\ c[i] = s[i - 1]
                BY <4>1, <3>2, <2>3, <1>1
            <4> QED
                BY <4>1, <4>2, <2>1 DEF Levels
        <3> QED
            BY <3>1, <3>2
    <2>7. Levels(c, l, d, h)
        BY <2>4, <2>5, <2>6 DEF Levels
    <2> QED
        BY <2>4, <2>7 DEF Level
<1> QED
    BY <1>3, <1>4 DEF c

-----------------------------------------------------------------------------
Ready(s, D, X) == Sound(s) /\ (\A l \in Locking!Locks : Level(s, l, D[l])) /\ Uses(s, X \cup Taken(s))
Held(s, D, X)  == Ready(s, D, X) /\ NoTake(s)

LEMMA Kept ==
    ASSUME NEW s \in Plans, NEW X
    PROVE  /\ NoTake(s) => Taken(s) = {} /\ \A own : Climbs(s, own)
           /\ AllDrops(s) => Uses(s, X) /\ NoTake(s)
           /\ Climbs(s, {})
           /\ \A Y : Uses(s, X) /\ X \subseteq Y => Uses(s, Y)
           /\ Sound(s) => Uses(s, Guards)
           /\ \A Y : Sound(s) /\ Uses(s, X) /\ X \cap Guards \subseteq Y => Uses(s, Y)
<1>1. ASSUME Sound(s) PROVE \A j \in 1..Len(s) : s[j].do \in {"write", "settle"} => s[j].on \subseteq Guards
    BY <1>1 DEF Sound, Fits, Form
<1> QED
    BY <1>1 DEF NoTake, Taken, Climbs, AllDrops, Uses, TakesGuards

LEMMA LevelRange ==
    ASSUME NEW s \in Plans, NEW l, NEW d, Level(s, l, d)
    PROVE  d \in 0..2
<1>1. PICK h \in [1..(Len(s) + 1) -> 0..2] : Levels(s, l, d, h)
    BY DEF Level
<1>2. 1 \in 1..(Len(s) + 1)
    BY LenProperties DEF Plans
<1> QED
    BY <1>1, <1>2 DEF Levels

\* A step that neither takes nor drops.
LEMMA AddsOne ==
    ASSUME NEW e \in Steps, NEW s \in Plans, NEW D \in [Locking!Locks -> 0..2], NEW X, Held(s, D, X),
           e.do \notin {"take", "drop"}, Form(e),
           MustCommit(e) => Commits(s),
           e.do = "resettle" => AllDrops(s),
           e.do \in {"write", "settle"} => e.on \subseteq X,
           e.do \in {"settle", "depart"} => D[Locking!Mutex] <= 1,
           e.do = "resettle" => D[Locking!Mutex] = 1 /\ \A l \in Locking!Locks : D[l] <= 1
    PROVE  /\ Cons(e, s) \in Plans /\ Held(Cons(e, s), D, X)
           /\ Commits(Cons(e, s)) <=> e.do \in Ending \/ Commits(s)
<1>1. ~TakesGuards(e) /\ ~DropsGuards(e)
    BY DEF TakesGuards, DropsGuards
<1>2. Cons(e, s) \in Plans
    BY ConsFacts
<1>3. Sound(Cons(e, s)) /\ NoTake(Cons(e, s)) /\ Taken(Cons(e, s)) = Taken(s)
    <2>1. Fits(e, s) /\ Sound(s)
        BY <1>1 DEF Held, Ready, Fits
    <2> QED
        BY <2>1, <1>1, ConsAll DEF Held, Ready
<1>4. Uses(Cons(e, s), X \cup Taken(Cons(e, s)))
    <2>1. (e.do \in {"write", "settle"} => e.on \subseteq X \cup Taken(s)) /\ Uses(s, X \cup Taken(s))
        BY DEF Held, Ready
    <2> QED
        BY <2>1, <1>3, ConsAll
<1>5. ASSUME NEW l \in Locking!Locks PROVE Level(Cons(e, s), l, D[l])
    <2>1. Delta(e, l) = 0 /\ D[l] \in 0..2 /\ D[l] - Delta(e, l) = D[l]
        BY DEF Delta
    <2>2. LevelBound(e, l, D[l])
        BY DEF LevelBound
    <2>3. Level(s, l, D[l] - Delta(e, l))
        BY <2>1 DEF Held, Ready
    <2> QED
        BY <2>1, <2>2, <2>3, ConsLevel
<1>6. Commits(Cons(e, s)) <=> e.do \in Ending \/ Commits(s)
    BY <1>1, ConsAll
<1> QED
    BY <1>2, <1>3, <1>4, <1>5, <1>6 DEF Held, Ready

\* A step that drops S.
LEMMA AddsDrop ==
    ASSUME NEW S \in SUBSET Locking!Locks, NEW s \in Plans, NEW D \in [Locking!Locks -> 0..2], NEW X, NEW E \in [Locking!Locks -> 0..2],
           Held(s, D, X), S # {}, S = {Locking!Mutex} \/ (S \subseteq Guards /\ AllDrops(s)),
           \A l \in Locking!Locks : E[l] = IF l \in S THEN D[l] + 1 ELSE D[l]
    PROVE  LET c == Cons(Locking!Step("drop", S, {}), s)
           IN /\ c \in Plans /\ Held(c, E, X)
              /\ AllDrops(s) => AllDrops(c)
              /\ S = {Locking!Mutex} => (Commits(c) <=> Commits(s))
<1> DEFINE e == Locking!Step("drop", S, {})
<1>1. e \in Steps /\ e.do = "drop" /\ e.on = S /\ Locking!Mutex \notin Guards
    BY LockParameters DEF Locking!Step, Steps, Kinds, Ending, Locking!Parameters, Locking!Mutex
<1> HIDE DEF e
<1>2. ~TakesGuards(e) /\ (DropsGuards(e) <=> S # {Locking!Mutex}) /\ Form(e) /\ ~Blank(e) /\ ~MustCommit(e)
    BY <1>1 DEF TakesGuards, DropsGuards, Form, Blank, MustCommit
<1>3. Sound(Cons(e, s)) /\ NoTake(Cons(e, s)) /\ Taken(Cons(e, s)) = Taken(s) /\ Cons(e, s) \in Plans
    <2>1. Fits(e, s) /\ Sound(s)
        BY <1>1, <1>2 DEF Held, Ready, Fits
    <2>2. Sound(Cons(e, s)) /\ Cons(e, s) \in Plans
        BY <2>1, <1>1, ConsAll, ConsFacts
    <2>3. NoTake(Cons(e, s))
        BY <1>1, <1>2, ConsAll DEF Held
    <2>4. Taken(Cons(e, s)) = Taken(s) \cup (IF TakesGuards(e) THEN e.on \cap Guards ELSE {})
        BY <1>1, ConsAll
    <2> QED
        BY <2>2, <2>3, <2>4, <1>2
<1>4. Uses(Cons(e, s), X \cup Taken(Cons(e, s)))
    BY <1>1, <1>3, ConsAll DEF Held, Ready
<1>5. ASSUME NEW l \in Locking!Locks PROVE Level(Cons(e, s), l, E[l])
    <2>1. E[l] \in 0..2 /\ D[l] \in 0..2 /\ E[l] - Delta(e, l) = D[l] /\ LevelBound(e, l, E[l])
        BY <1>1 DEF Delta, LevelBound
    <2>2. Level(s, l, E[l] - Delta(e, l))
        BY <2>1 DEF Held, Ready
    <2> QED
        BY <1>1, <2>1, <2>2, ConsLevel
<1>6. (AllDrops(s) => AllDrops(Cons(e, s))) /\ (S = {Locking!Mutex} => (Commits(Cons(e, s)) <=> Commits(s)))
    BY <1>1, <1>2, ConsAll DEF Ending
<1> QED
    BY <1>3, <1>4, <1>5, <1>6 DEF Held, Ready, e

\* A step that takes S.
LEMMA AddsTake ==
    ASSUME NEW S \in SUBSET Locking!Locks, NEW s \in Plans, NEW D \in [Locking!Locks -> 0..2], NEW X, NEW E \in [Locking!Locks -> 0..2],
           NEW Y, Y \subseteq X \cup (S \cap Guards),
           Held(s, D, Y), S # {}, S = {Locking!Mutex} \/ S \subseteq Guards,
           \A l \in Locking!Locks : D[l] = IF l \in S THEN E[l] + 1 ELSE E[l]
    PROVE  LET c == Cons(Locking!Step("take", S, {}), s)
           IN /\ c \in Plans /\ Ready(c, E, X)
              /\ Commits(c) <=> Commits(s)
              /\ S = {Locking!Mutex} => NoTake(c)
              /\ \A own : (\A q \in S : q \in own \/ \A m \in own : m \in Guards /\ m < q) => Climbs(c, own)
<1> DEFINE e == Locking!Step("take", S, {})
<1>1. e \in Steps /\ e.do = "take" /\ e.on = S /\ Locking!Mutex \notin Guards
    BY LockParameters DEF Locking!Step, Steps, Kinds, Ending, Locking!Parameters, Locking!Mutex
<1> HIDE DEF e
<1>2. (TakesGuards(e) <=> S # {Locking!Mutex}) /\ ~DropsGuards(e) /\ Form(e) /\ ~MustCommit(e)
    BY <1>1 DEF TakesGuards, DropsGuards, Form, MustCommit
<1>3. Sound(Cons(e, s)) /\ Taken(Cons(e, s)) = S \cap Guards /\ Cons(e, s) \in Plans
    <2>1. Fits(e, s) /\ Sound(s)
        BY <1>1, <1>2 DEF Held, Ready, Fits
    <2>2. Taken(s) = {}
        BY Kept DEF Held
    <2>3. Sound(Cons(e, s)) /\ Cons(e, s) \in Plans
        BY <2>1, <1>1, ConsAll, ConsFacts
    <2>4. Taken(Cons(e, s)) = Taken(s) \cup (IF TakesGuards(e) THEN e.on \cap Guards ELSE {})
        BY <1>1, ConsAll
    <2>5. S = {Locking!Mutex} => S \cap Guards = {}
        BY <1>1
    <2> QED
        BY <2>2, <2>3, <2>4, <2>5, <1>1, <1>2
<1>4. Uses(Cons(e, s), X \cup Taken(Cons(e, s)))
    <2>1. Uses(s, Y)
        BY Kept DEF Held, Ready
    <2>2. Uses(s, X \cup Taken(Cons(e, s)))
        BY <2>1, <1>3, Kept
    <2> QED
        BY <1>1, <2>2, ConsAll
<1>5. ASSUME NEW l \in Locking!Locks PROVE Level(Cons(e, s), l, E[l])
    <2>1. E[l] \in 0..2 /\ D[l] \in 0..2 /\ E[l] - Delta(e, l) = D[l] /\ LevelBound(e, l, E[l])
        BY <1>1 DEF Delta, LevelBound
    <2>2. Level(s, l, E[l] - Delta(e, l))
        BY <2>1 DEF Held, Ready
    <2> QED
        BY <1>1, <2>1, <2>2, ConsLevel
<1>6. (Commits(Cons(e, s)) <=> Commits(s)) /\ (S = {Locking!Mutex} => NoTake(Cons(e, s)))
    BY <1>1, <1>2, ConsAll DEF Ending, Held
<1>7. ASSUME NEW own, \A q \in S : q \in own \/ \A m \in own : m \in Guards /\ m < q
      PROVE  Climbs(Cons(e, s), own)
    <2>1. Climbs(s, own)
        BY Kept DEF Held
    <2> QED
        BY <2>1, <1>1, <1>7, ConsAll
<1> QED
    BY <1>3, <1>4, <1>5, <1>6, <1>7 DEF Ready, e

-----------------------------------------------------------------------------
Own(t)    == {l \in Locking!Locks : locks[l].owner = t}
Depths(t) == [l \in Locking!Locks |-> IF locks[l].owner = t THEN locks[l].depth ELSE 0]
Covered(t) == IF t \in strayed THEN Guards ELSE Own(t)

Alone(t) ==
    /\ \E S \in SUBSET Users : todo[t] = <<Locking!Step("resettle", {}, S)>>
    /\ Own(t) = {} /\ writer # t

Orderly(t) ==
    /\ Ready(todo[t], Depths(t), Covered(t))
    /\ writer = t => Commits(todo[t])
    /\ t \notin strayed => Climbs(todo[t], Own(t))

LocksOk ==
    /\ locks \in [Locking!Locks -> [owner : Calls \cup {None}, depth : 0..2]]
    /\ \A l \in Locking!Locks : locks[l].owner = None <=> locks[l].depth = 0

SettledOk == \A p \in settled : writer \in Calls /\ (writer \in strayed \/ locks[p].owner = writer)

LockInv ==
    /\ memberOf \in [Users -> Guards \cup {None}] /\ writer \in Calls \cup {None}
    /\ settled \subseteq Guards /\ strayed \subseteq Calls /\ todo \in [Calls -> Plans]
    /\ LocksOk /\ SettledOk
    /\ \A t \in Calls : Alone(t) \/ Orderly(t)

LEMMA DepthsType ==
    ASSUME LocksOk, NEW t
    PROVE  Depths(t) \in [Locking!Locks -> 0..2] /\ \A l \in Locking!Locks : Depths(t)[l] = IF l \in Own(t) THEN locks[l].depth ELSE 0
    BY DEF LocksOk, Depths, Own

\* What a task has to do next, and then.
LEMMA AtHead ==
    ASSUME LockInv, NEW t \in Calls, todo[t] # <<>>, Head(todo[t]).do # "resettle"
    PROVE  LET e == Head(todo[t])
               r == Tail(todo[t])
           IN /\ e \in Steps /\ r \in Plans /\ todo[t] = Cons(e, r)
              /\ Form(e) /\ Sound(r) /\ (Blank(e) \/ NoTake(r))
              /\ MustCommit(e) => Commits(r)
              /\ DropsGuards(e) => AllDrops(r)
              /\ \A l \in Locking!Locks : Level(r, l, Depths(t)[l] - Delta(e, l)) /\ LevelBound(e, l, Depths(t)[l])
              /\ writer = t => ~DropsGuards(e) /\ (e.do \in Ending \/ Commits(r))
              /\ t \notin strayed => Climbs(todo[t], Own(t)) /\ Climbs(r, Own(t))
              /\ e.do \in {"write", "settle"} => e.on \subseteq Covered(t) \cup Taken(r)
              /\ Uses(r, Covered(t) \cup Taken(todo[t]))
<1> DEFINE e == Head(todo[t])
           r == Tail(todo[t])
<1>1. todo[t] \in Plans
    BY DEF LockInv
<1>2. e \in Steps /\ r \in Plans /\ todo[t] = Cons(e, r)
    BY <1>1, Uncons
<1>3. ~Alone(t)
    <2>1. ASSUME NEW S \in SUBSET Users, todo[t] = <<Locking!Step("resettle", {}, S)>> PROVE FALSE
        <3>1. e = Locking!Step("resettle", {}, S)
            BY <2>1
        <3> QED
            BY <3>1 DEF Locking!Step
    <2> QED
        BY <2>1 DEF Alone
<1>4. Orderly(t)
    BY <1>3 DEF LockInv
<1> HIDE DEF e, r
<1>5. e.do # "resettle"
    BY DEF e
<1>6. Sound(r) /\ Fits(e, r)
    BY <1>2, <1>4, ConsAll DEF Orderly, Ready
<1>7. Form(e) /\ (Blank(e) \/ NoTake(r)) /\ (MustCommit(e) => Commits(r)) /\ (DropsGuards(e) => AllDrops(r))
    BY <1>6 DEF Fits
<1>8. ASSUME NEW l \in Locking!Locks PROVE Level(r, l, Depths(t)[l] - Delta(e, l)) /\ LevelBound(e, l, Depths(t)[l])
    <2>1. Level(Cons(e, r), l, Depths(t)[l])
        BY <1>2, <1>4 DEF Orderly, Ready
    <2> QED
        BY <2>1, <1>2, ConsLevel
<1>9. writer = t => ~DropsGuards(e) /\ (e.do \in Ending \/ Commits(r))
    <2>1. writer = t => Commits(Cons(e, r))
        BY <1>2, <1>4 DEF Orderly
    <2> QED
        BY <2>1, <1>2, ConsAll
<1>10. t \notin strayed => Climbs(todo[t], Own(t)) /\ Climbs(r, Own(t))
    <2>1. t \notin strayed => Climbs(Cons(e, r), Own(t))
        BY <1>2, <1>4 DEF Orderly
    <2> QED
        BY <2>1, <1>2, ConsAll
<1>11. Uses(Cons(e, r), Covered(t) \cup Taken(Cons(e, r)))
    BY <1>2, <1>4 DEF Orderly, Ready
<1>12. (e.do \in {"write", "settle"} => e.on \subseteq Covered(t) \cup Taken(Cons(e, r))) /\ Uses(r, Covered(t) \cup Taken(Cons(e, r)))
    BY <1>11, <1>2, ConsAll
<1>13. e.do \in {"write", "settle"} => Taken(Cons(e, r)) = Taken(r)
    <2>1. ~TakesGuards(e) \/ e.do = "take"
        BY DEF TakesGuards
    <2> QED
        BY <2>1, <1>2, ConsAll
<1>14. e.do \in {"write", "settle"} => e.on \subseteq Covered(t) \cup Taken(r)
    BY <1>12, <1>13
<1> QED
    BY <1>2, <1>7, <1>6, <1>8, <1>9, <1>10, <1>12, <1>14 DEF e, r

\* What others have to do is not disturbed.
LEMMA Undisturbed ==
    ASSUME LockInv, NEW t \in Calls, NEW s \in Plans, todo' = [todo EXCEPT ![t] = s],
           \A l \in Locking!Locks : locks'[l] = locks[l] \/ (locks[l].owner \in {None, t} /\ locks'[l].owner \in {None, t}),
           writer' \in {None, t, writer}, strayed' \ {t} = strayed \ {t}
    PROVE  /\ todo' \in [Calls -> Plans] /\ todo'[t] = s
           /\ \A u \in Calls \ {t} : (Alone(u) \/ Orderly(u))'
<1>1. todo \in [Calls -> Plans] /\ None \notin Calls
    BY LockParameters DEF LockInv, Locking!Parameters
<1>2. ASSUME NEW u \in Calls \ {t} PROVE (Alone(u) \/ Orderly(u))'
    <2>1. todo'[u] = todo[u] /\ (writer' = u => writer = u) /\ (u \in strayed' <=> u \in strayed)
        BY <1>1, <1>2
    <2>2. \A l \in Locking!Locks : (locks'[l].owner = u <=> locks[l].owner = u) /\ (locks[l].owner = u => locks'[l] = locks[l])
        BY <1>1
    <2>3. Own(u)' = Own(u) /\ Depths(u)' = Depths(u) /\ Covered(u)' = Covered(u)
        <3>1. Own(u)' = Own(u)
            BY <2>2 DEF Own
        <3>2. Depths(u)' = Depths(u)
            BY <2>2 DEF Depths
        <3> QED
            BY <3>1, <3>2, <2>1 DEF Covered
    <2>4. CASE Alone(u)
        BY <2>4, <2>1, <2>3 DEF Alone
    <2>5. CASE Orderly(u)
        BY <2>5, <2>1, <2>3 DEF Orderly
    <2> QED
        BY <2>4, <2>5, <1>2 DEF LockInv
<1> QED
    BY <1>1, <1>2

-----------------------------------------------------------------------------
Zero == [l \in Locking!Locks |-> 0]
Raised(D, S) == [l \in Locking!Locks |-> IF l \in S THEN D[l] + 1 ELSE D[l]]

LEMMA Pair ==
    ASSUME NEW a \in Steps, NEW b \in Steps
    PROVE  <<a, b>> = <<a>> \o <<b>>
<1>1. <<a, b>> \in Plans /\ <<a>> \in Plans /\ <<b>> \in Plans
    BY DEF Plans
<1>2. Len(<<a, b>>) = 2 /\ <<a, b>>[1] = a /\ <<a, b>>[2] = b /\ Len(<<b>>) = 1 /\ <<b>>[1] = b
    OBVIOUS
<1>3. /\ Cons(a, <<b>>) \in Plans /\ Len(Cons(a, <<b>>)) = 2
      /\ Cons(a, <<b>>)[1] = a /\ Cons(a, <<b>>)[2] = b
    <2> DEFINE y == <<b>>
    <2>1. y \in Plans /\ Len(y) = 1 /\ y[1] = b
        BY <1>1, <1>2
    <2> HIDE DEF y
    <2>2. /\ Cons(a, y) \in Plans /\ Len(Cons(a, y)) = Len(y) + 1 /\ Cons(a, y)[1] = a
          /\ \A i \in 1..Len(y) : Cons(a, y)[i + 1] = y[i]
        BY <2>1, ConsFacts
    <2>3. Cons(a, y) \in Plans /\ Len(Cons(a, y)) = 2 /\ Cons(a, y)[1] = a /\ Cons(a, y)[2] = b
        BY <2>1, <2>2
    <2> QED
        BY <2>3 DEF y
<1>4. \A i \in 1..Len(<<a, b>>) : <<a, b>>[i] = Cons(a, <<b>>)[i]
    <2> DEFINE x == <<a, b>>
               y == Cons(a, <<b>>)
    <2>1. Len(x) = 2 /\ x[1] = y[1] /\ x[2] = y[2]
        BY <1>2, <1>3
    <2> HIDE DEF x, y
    <2>2. \A i \in 1..Len(x) : x[i] = y[i]
        BY <2>1
    <2> QED
        BY <2>2 DEF x, y
<1> QED
    BY <1>1, <1>2, <1>3, <1>4, SeqEqual DEF Cons, Plans

\* A step before the rest of a plan.
LEMMA Onto ==
    ASSUME NEW e \in Steps, NEW x \in Plans, NEW s \in Plans
    PROVE  (<<e>> \o x) \o s = Cons(e, x \o s)
<1>1. <<e>> \in Seq(Steps) /\ x \in Seq(Steps) /\ s \in Seq(Steps)
    BY DEF Plans
<1> QED
    BY <1>1, ConcatAssociative DEF Cons

LEMMA JoinedTwo ==
    ASSUME NEW a \in Steps, NEW b \in Steps, NEW s \in Plans
    PROVE  <<a, b>> \in Plans /\ <<a, b>> \o s = Cons(a, Cons(b, s))
<1>1. <<a, b>> \in Plans /\ <<b>> \in Plans
    BY DEF Plans
<1>2. <<a, b>> \o s = Cons(a, <<b>> \o s)
    <2> DEFINE x == <<b>>
               y == <<a, b>>
    <2>1. x \in Plans /\ y = <<a>> \o x
        BY <1>1, Pair
    <2> HIDE DEF x, y
    <2>2. y \o s = Cons(a, x \o s)
        BY <2>1, Onto
    <2> QED
        BY <2>2 DEF x, y
<1> QED
    BY <1>1, <1>2 DEF Cons

LEMMA JoinedThree ==
    ASSUME NEW a \in Steps, NEW b \in Steps, NEW c \in Steps, NEW s \in Plans
    PROVE  <<a, b, c>> \in Plans /\ <<a, b, c>> \o s = Cons(a, Cons(b, Cons(c, s)))
<1>1. <<a, b, c>> \in Plans /\ <<b, c>> \in Plans
    BY DEF Plans
<1>2. <<a, b, c>> = <<a>> \o <<b, c>>
    OBVIOUS
<1>3. <<a, b, c>> \o s = Cons(a, <<b, c>> \o s)
    <2> DEFINE x == <<b, c>>
               y == <<a, b, c>>
    <2>1. x \in Plans /\ y = <<a>> \o x
        BY <1>1, <1>2
    <2> HIDE DEF x, y
    <2>2. y \o s = Cons(a, x \o s)
        BY <2>1, Onto
    <2> QED
        BY <2>2 DEF x, y
<1>4. <<b, c>> \o s = Cons(b, Cons(c, s))
    BY JoinedTwo
<1> QED
    BY <1>1, <1>3, <1>4

LEMMA JoinedFour ==
    ASSUME NEW a \in Steps, NEW b \in Steps, NEW c \in Steps, NEW d \in Steps, NEW s \in Plans
    PROVE  <<a, b, c, d>> \in Plans /\ <<a, b, c, d>> \o s = Cons(a, Cons(b, Cons(c, Cons(d, s))))
<1>1. <<a, b, c, d>> \in Plans /\ <<b, c, d>> \in Plans
    BY DEF Plans
<1>2. <<a, b, c, d>> = <<a>> \o <<b, c, d>>
    OBVIOUS
<1>3. <<a, b, c, d>> \o s = Cons(a, <<b, c, d>> \o s)
    <2> DEFINE x == <<b, c, d>>
               y == <<a, b, c, d>>
    <2>1. x \in Plans /\ y = <<a>> \o x
        BY <1>1, <1>2
    <2> HIDE DEF x, y
    <2>2. y \o s = Cons(a, x \o s)
        BY <2>1, Onto
    <2> QED
        BY <2>2 DEF x, y
<1>4. <<b, c, d>> \o s = Cons(b, Cons(c, Cons(d, s)))
    BY JoinedThree
<1> QED
    BY <1>1, <1>3, <1>4

LEMMA NoneJoined ==
    ASSUME NEW s \in Plans
    PROVE  <<>> \o s = s /\ s \o <<>> = s
    BY ConcatEmptySeq DEF Plans

LEMMA RaisedType ==
    ASSUME NEW D \in [Locking!Locks -> 0..2], NEW S \in SUBSET Locking!Locks, \A l \in S : D[l] <= 1
    PROVE  /\ Raised(D, S) \in [Locking!Locks -> 0..2]
           /\ \A l \in Locking!Locks : Raised(D, S)[l] = IF l \in S THEN D[l] + 1 ELSE D[l]
    BY DEF Raised

\* What is done under locks that are given back at the end.
LEMMA Encloses ==
    ASSUME NEW S \in SUBSET Locking!Locks, S # {}, NEW body \in Plans, NEW s \in Plans
    PROVE  /\ Locking!Guarded(S, body) \in Plans
           /\ Locking!Guarded(S, body) \o s = Cons(Locking!Step("take", S, {}), body \o Cons(Locking!Step("drop", S, {}), s))
           /\ Cons(Locking!Step("drop", S, {}), s) \in Plans /\ body \o Cons(Locking!Step("drop", S, {}), s) \in Plans
<1> DEFINE a == Locking!Step("take", S, {})
           b == Locking!Step("drop", S, {})
<1>1. a \in Steps /\ b \in Steps
    BY DEF Locking!Step, Steps, Kinds, Ending
<1>2. Locking!Guarded(S, body) = <<a>> \o body \o <<b>>
    BY DEF Locking!Guarded
<1> HIDE DEF a, b
<1>3. <<a>> \in Seq(Steps) /\ <<b>> \in Seq(Steps) /\ body \in Seq(Steps) /\ s \in Seq(Steps)
    BY <1>1 DEF Plans
<1>4. <<a>> \o body \in Seq(Steps) /\ <<b>> \o s \in Seq(Steps)
    BY <1>3, ConcatProperties
<1>5. (<<a>> \o body) \o <<b>> \in Seq(Steps) /\ body \o (<<b>> \o s) \in Seq(Steps)
    BY <1>3, <1>4, ConcatProperties
<1>6. ((<<a>> \o body) \o <<b>>) \o s = (<<a>> \o body) \o (<<b>> \o s)
    BY <1>3, <1>4, ConcatAssociative
<1>7. (<<a>> \o body) \o (<<b>> \o s) = <<a>> \o (body \o (<<b>> \o s))
    BY <1>3, <1>4, ConcatAssociative
<1> QED
    BY <1>2, <1>4, <1>5, <1>6, <1>7 DEF Cons, Plans, a, b

LEMMA Least ==
    ASSUME NEW S \in SUBSET Nat, S # {}
    PROVE  Locking!Min(S) \in S /\ \A x \in S : Locking!Min(S) <= x
<1>1. PICK n \in S : TRUE
    OBVIOUS
<1> DEFINE Bad == {0..x : x \in {y \in S : y <= n}}
<1>2. IsFiniteSet(0..n)
    BY FS_Interval
<1>3. Bad \in Families(0..n) /\ Bad # {}
    BY <1>1 DEF Families
<1> HIDE DEF Bad
<1>4. PICK s \in Bad : \A r \in Bad : ~ (r \subseteq s /\ r # s)
    BY <1>2, <1>3, Smallest
<1> USE DEF Bad
<1>5. PICK m \in S : m <= n /\ s = 0..m
    BY <1>4
<1>6. ASSUME NEW x \in S PROVE m <= x
    <2>1. SUFFICES ASSUME x < m PROVE FALSE
        BY <1>5
    <2>2. 0..x \in Bad /\ 0..x \subseteq s /\ 0..x # s
        <3>1. x <= n /\ m \in 0..m /\ m \notin 0..x
            BY <2>1, <1>5, <1>1
        <3> QED
            BY <2>1, <3>1, <1>5
    <2> QED
        BY <2>2, <1>4
<1> QED
    BY <1>6 DEF Locking!Min

-----------------------------------------------------------------------------
(* The parts of requests keep their promises.                              *)

LEMMA Things ==
    /\ Locking!Flush \in Steps /\ Locking!Write \in Steps /\ Locking!Commit \in Steps
    /\ \A S \in SUBSET Locking!Locks : Locking!Settle(S) \in Steps /\ Locking!Step("take", S, {}) \in Steps /\ Locking!Step("drop", S, {}) \in Steps
                               /\ Locking!Step("write", S, {}) \in Steps
    /\ \A S \in SUBSET Locking!Locks, V \in SUBSET Users : Locking!Step("join", S, V) \in Steps /\ Locking!Step("leave", S, V) \in Steps
    /\ \A V \in SUBSET Users : Locking!Step("depart", {}, V) \in Steps /\ Locking!Step("gone", {}, V) \in Steps /\ Locking!Step("resettle", {}, V) \in Steps
    /\ Locking!Mutex \in Locking!Locks /\ Guards \subseteq Locking!Locks /\ Locking!Mutex \notin Guards /\ {} \in SUBSET Locking!Locks
    BY LockParameters DEF Locking!Flush, Locking!Write, Locking!Commit, Locking!Settle, Locking!Step, Steps, Kinds, Ending, Locking!Locks, Locking!Parameters, Locking!Mutex

\* Held of an extended plan, at once for a step of each kind.
LEMMA AddsFlush ==
    ASSUME NEW s \in Plans, NEW D \in [Locking!Locks -> 0..2], NEW X, Held(s, D, X)
    PROVE  /\ Cons(Locking!Flush, s) \in Plans /\ Held(Cons(Locking!Flush, s), D, X)
           /\ Commits(Cons(Locking!Flush, s)) <=> Commits(s)
<1>1. /\ Locking!Flush \in Steps /\ Locking!Flush.do = "flush"
    BY Things DEF Locking!Flush, Locking!Step
<1>2. Form(Locking!Flush) /\ ~MustCommit(Locking!Flush) /\ Locking!Flush.do \notin Ending
    BY <1>1 DEF Form, MustCommit, Ending
<1> QED
    BY <1>1, <1>2, AddsOne

LEMMA AddsWrite ==
    ASSUME NEW s \in Plans, NEW D \in [Locking!Locks -> 0..2], NEW X, Held(s, D, X), Commits(s),
           NEW S \in SUBSET Guards, S \subseteq X, NEW k \in {"write", "settle"}, k = "settle" => S # {} /\ D[Locking!Mutex] <= 1
    PROVE  LET c == Cons(Locking!Step(k, S, {}), s) IN c \in Plans /\ Held(c, D, X) /\ Commits(c)
<1> DEFINE e == Locking!Step(k, S, {})
<1>1. e \in Steps /\ e.do = k /\ e.on = S
    <2>1. S \in SUBSET Locking!Locks
        BY Things
    <2> QED
        BY <2>1 DEF Locking!Step, Steps, Kinds
<1> HIDE DEF e
<1>2. Form(e) /\ e.do \notin Ending
    BY <1>1 DEF Form, Ending
<1> QED
    BY <1>1, <1>2, AddsOne DEF e

LEMMA AddsDepart ==
    ASSUME NEW s \in Plans, NEW D \in [Locking!Locks -> 0..2], NEW X, Held(s, D, X), Commits(s), NEW V \in SUBSET Users, D[Locking!Mutex] <= 1
    PROVE  LET c == Cons(Locking!Step("depart", {}, V), s) IN c \in Plans /\ Held(c, D, X) /\ Commits(c)
<1> DEFINE e == Locking!Step("depart", {}, V)
<1>1. e \in Steps /\ e.do = "depart"
    BY Things DEF Locking!Step
<1> HIDE DEF e
<1>2. Form(e) /\ e.do \notin Ending
    BY <1>1 DEF Form, Ending
<1> QED
    BY <1>1, <1>2, AddsOne DEF e

LEMMA AddsResettle ==
    ASSUME NEW s \in Plans, NEW D \in [Locking!Locks -> 0..2], NEW X, Held(s, D, X), AllDrops(s), NEW V \in SUBSET Users,
           D[Locking!Mutex] = 1, \A l \in Locking!Locks : D[l] <= 1
    PROVE  LET c == Cons(Locking!Step("resettle", {}, V), s) IN c \in Plans /\ Held(c, D, X)
<1> DEFINE e == Locking!Step("resettle", {}, V)
<1>1. e \in Steps /\ e.do = "resettle"
    BY Things DEF Locking!Step
<1> HIDE DEF e
<1>2. Form(e) /\ ~MustCommit(e)
    BY <1>1 DEF Form, MustCommit
<1> QED
    BY <1>1, <1>2, AddsOne DEF e

LEMMA AddsEnd ==
    ASSUME NEW s \in Plans, NEW D \in [Locking!Locks -> 0..2], NEW X, Held(s, D, X), NEW V \in SUBSET Users, NEW S \in SUBSET Guards,
           NEW k \in Ending, k = "join" => \E p \in Guards : S = {p}
    PROVE  LET c == Cons(Locking!Step(k, S, V), s) IN c \in Plans /\ Held(c, D, X) /\ Commits(c)
<1> DEFINE e == Locking!Step(k, S, V)
<1>1. e \in Steps /\ e.do = k /\ e.on = S
    <2>1. S \in SUBSET Locking!Locks
        BY Things
    <2> QED
        BY <2>1 DEF Locking!Step, Steps, Kinds
<1> HIDE DEF e
<1>2. Form(e) /\ ~MustCommit(e)
    BY <1>1 DEF Form, MustCommit, Ending
<1>3. e.do \in Ending /\ e.do \notin {"take", "drop", "resettle", "write", "settle", "depart"}
    BY <1>1 DEF Ending
<1> QED
    BY <1>1, <1>2, <1>3, AddsOne DEF e

\* With the flush held off.
LEMMA Pauses ==
    ASSUME NEW body \in Plans, NEW s \in Plans, NEW D \in [Locking!Locks -> 0..2], NEW X, D[Locking!Mutex] <= 1, Held(s, D, X),
           LET d == Cons(Locking!Step("drop", {Locking!Mutex}, {}), s)
           IN d \in Plans /\ Held(d, Raised(D, {Locking!Mutex}), X) /\ (Commits(d) <=> Commits(s))
              => Held(body \o d, Raised(D, {Locking!Mutex}), X)
    PROVE  LET d == Cons(Locking!Step("drop", {Locking!Mutex}, {}), s)
           IN /\ Locking!Paused(body) \in Plans /\ Locking!Paused(body) \o s \in Plans /\ Held(Locking!Paused(body) \o s, D, X)
              /\ Commits(Locking!Paused(body) \o s) <=> Commits(body \o d)
<1> DEFINE d == Cons(Locking!Step("drop", {Locking!Mutex}, {}), s)
           E == Raised(D, {Locking!Mutex})
<1>1. E \in [Locking!Locks -> 0..2] /\ \A l \in Locking!Locks : E[l] = IF l \in {Locking!Mutex} THEN D[l] + 1 ELSE D[l]
    BY RaisedType, Things
<1>2. {Locking!Mutex} \in SUBSET Locking!Locks /\ {Locking!Mutex} # {} /\ {Locking!Mutex} \cap Guards = {}
    BY Things
<1> HIDE DEF E
<1>3. d \in Plans /\ Held(d, E, X) /\ (Commits(d) <=> Commits(s))
    BY <1>1, <1>2, AddsDrop
<1>4. Held(body \o d, E, X)
    BY <1>3 DEF E
<1>5. /\ Locking!Paused(body) \in Plans /\ body \o d \in Plans
      /\ Locking!Paused(body) \o s = Cons(Locking!Step("take", {Locking!Mutex}, {}), body \o d)
    BY <1>2, Encloses DEF Locking!Paused
<1> HIDE DEF d
<1>6. LET c == Cons(Locking!Step("take", {Locking!Mutex}, {}), body \o d)
      IN c \in Plans /\ Ready(c, D, X) /\ (Commits(c) <=> Commits(body \o d)) /\ NoTake(c)
    <2> DEFINE b == body \o d
    <2>1. b \in Plans /\ Held(b, E, X) /\ X \subseteq X \cup ({Locking!Mutex} \cap Guards)
        BY <1>4, <1>5
    <2> HIDE DEF b
    <2>2. LET c == Cons(Locking!Step("take", {Locking!Mutex}, {}), b)
          IN c \in Plans /\ Ready(c, D, X) /\ (Commits(c) <=> Commits(b)) /\ NoTake(c)
        BY <1>1, <1>2, <2>1, AddsTake
    <2> QED
        BY <2>2 DEF b
<1> QED
    BY <1>5, <1>6 DEF d, Held

\* settle_pool's steps.
LEMMA Settles ==
    ASSUME NEW s \in Plans, NEW D \in [Locking!Locks -> 0..2], NEW X, Held(s, D, X), D[Locking!Mutex] <= 1, Commits(s),
           NEW p \in Guards, p \in X
    PROVE  /\ Locking!SettleSteps(p) \in Plans /\ Locking!SettleSteps(p) \o s \in Plans
           /\ Held(Locking!SettleSteps(p) \o s, D, X) /\ Commits(Locking!SettleSteps(p) \o s)
<1> DEFINE d == Cons(Locking!Step("drop", {Locking!Mutex}, {}), s)
           E == Raised(D, {Locking!Mutex})
           w == Locking!Step("write", {p}, {})
           body == <<Locking!Flush, w>>
<1>1. E \in [Locking!Locks -> 0..2]
    BY RaisedType, Things
<1>2. w \in Steps /\ Locking!Flush \in Steps
    BY Things
<1>3. body \in Plans
    BY <1>2, EmptyAll, JoinedTwo
<1>4. ASSUME d \in Plans, Held(d, E, X), Commits(d) <=> Commits(s)
      PROVE  Held(body \o d, E, X) /\ Commits(body \o d)
    <2> HIDE DEF w, d
    <2>1. body \o d = Cons(Locking!Flush, Cons(w, d))
        BY <1>2, <1>4, JoinedTwo
    <2> USE DEF w
    <2>2. Cons(w, d) \in Plans /\ Held(Cons(w, d), E, X) /\ Commits(Cons(w, d))
        BY <1>1, <1>4, AddsWrite
    <2>3. Held(Cons(Locking!Flush, Cons(w, d)), E, X) /\ Commits(Cons(Locking!Flush, Cons(w, d)))
        BY <1>1, <2>2, AddsFlush
    <2> QED
        BY <2>1, <2>3
<1> HIDE DEF body, E
<1>5. /\ Locking!Paused(body) \in Plans /\ Locking!Paused(body) \o s \in Plans /\ Held(Locking!Paused(body) \o s, D, X)
      /\ Commits(Locking!Paused(body) \o s) <=> Commits(body \o d)
    BY <1>3, <1>4, Pauses DEF E
<1>6. d \in Plans /\ Held(d, E, X) /\ (Commits(d) <=> Commits(s))
    <2>1. \A l \in Locking!Locks : E[l] = IF l \in {Locking!Mutex} THEN D[l] + 1 ELSE D[l]
        BY RaisedType, Things DEF E
    <2>2. {Locking!Mutex} \in SUBSET Locking!Locks /\ {Locking!Mutex} # {}
        BY Things
    <2> QED
        BY <1>1, <2>1, <2>2, AddsDrop
<1>7. Locking!SettleSteps(p) = Locking!Paused(body)
    BY DEF Locking!SettleSteps, body
<1> QED
    BY <1>4, <1>5, <1>6, <1>7

-----------------------------------------------------------------------------
(* Requests begin with a plan that fits a task without any lock.           *)

\* What is done under the guards S commits, and leaves the locks as they were.
Promise(body, S) ==
    \A s \in Plans, D \in [Locking!Locks -> 0..2] :
       Held(s, D, S) /\ AllDrops(s) /\ D[Locking!Mutex] = 0 /\ (\A l \in Locking!Locks : D[l] <= 1)
       => Held(body \o s, D, S) /\ Commits(body \o s)

LEMMA ZeroHeld ==
    /\ Zero \in [Locking!Locks -> 0..2] /\ \A l \in Locking!Locks : Zero[l] = 0
    /\ \A X : Held(<<>>, Zero, X)
<1>1. Zero \in [Locking!Locks -> 0..2] /\ \A l \in Locking!Locks : Zero[l] = 0
    BY DEF Zero
<1> QED
    BY <1>1, EmptyAll DEF Held, Ready

LEMMA Outer ==
    ASSUME NEW S \in SUBSET Guards, NEW body \in Plans, Promise(body, S)
    PROVE  /\ Locking!Guarded(S, body) \in Plans /\ Ready(Locking!Guarded(S, body), Zero, {})
           /\ Commits(Locking!Guarded(S, body))
<1>1. CASE S = {}
    <2>1. Held(body \o <<>>, Zero, S) /\ Commits(body \o <<>>)
        <3>1. Zero[Locking!Mutex] = 0 /\ \A l \in Locking!Locks : Zero[l] <= 1
            BY ZeroHeld, Things
        <3> QED
            BY <3>1, ZeroHeld, EmptyAll DEF Promise
    <2> QED
        BY <1>1, <2>1, NoneJoined DEF Locking!Guarded, Held
<1>2. CASE S # {}
    <2> DEFINE E == Raised(Zero, S)
               d == Cons(Locking!Step("drop", S, {}), <<>>)
    <2>1. S \in SUBSET Locking!Locks /\ Locking!Mutex \notin S
        BY Things
    <2>2. E \in [Locking!Locks -> 0..2] /\ \A l \in Locking!Locks : E[l] = IF l \in S THEN Zero[l] + 1 ELSE Zero[l]
        <3>1. \A l \in S : Zero[l] <= 1
            BY <2>1, ZeroHeld
        <3> QED
            BY <2>1, <3>1, RaisedType, ZeroHeld
    <2> HIDE DEF E
    <2>3. d \in Plans /\ Held(d, E, S) /\ AllDrops(d)
        BY <1>2, <2>1, <2>2, ZeroHeld, EmptyAll, AddsDrop
    <2>4. E[Locking!Mutex] = 0 /\ \A l \in Locking!Locks : E[l] <= 1
        BY <2>1, <2>2, ZeroHeld, Things
    <2>5. Held(body \o d, E, S) /\ Commits(body \o d)
        BY <2>2, <2>3, <2>4 DEF Promise
    <2>6. /\ Locking!Guarded(S, body) \in Plans /\ body \o d \in Plans
          /\ Locking!Guarded(S, body) \o <<>> = Cons(Locking!Step("take", S, {}), body \o d)
        BY <1>2, <2>1, EmptyAll, Encloses
    <2> DEFINE b == body \o d
    <2>7. b \in Plans /\ Held(b, E, S) /\ Commits(b) /\ S \subseteq {} \cup (S \cap Guards)
        BY <2>5, <2>6
    <2> HIDE DEF b
    <2>8. LET c == Cons(Locking!Step("take", S, {}), b) IN c \in Plans /\ Ready(c, Zero, {}) /\ Commits(c)
        <3>1. ASSUME NEW X, S \subseteq X \cup (S \cap Guards)
              PROVE  LET c == Cons(Locking!Step("take", S, {}), b)
                     IN c \in Plans /\ Ready(c, Zero, X) /\ (Commits(c) <=> Commits(b))
            <4>1. \A l \in Locking!Locks : E[l] = IF l \in S THEN Zero[l] + 1 ELSE Zero[l]
                BY <2>2
            <4>2. S \in SUBSET Locking!Locks /\ (S = {Locking!Mutex} \/ S \subseteq Guards) /\ b \in Plans /\ Held(b, E, S)
                BY <2>1, <2>7
            <4>3. Zero \in [Locking!Locks -> 0..2] /\ E \in [Locking!Locks -> 0..2]
                BY <2>2, ZeroHeld
            <4> QED
                BY <1>2, <3>1, <4>1, <4>2, <4>3, AddsTake
        <3> QED
            BY <3>1, <2>7
    <2>9. Locking!Guarded(S, body) = Cons(Locking!Step("take", S, {}), b)
        BY <2>6, NoneJoined DEF b
    <2> QED
        BY <2>8, <2>9
<1> QED
    BY <1>1, <1>2

LEMMA Idle ==
    ASSUME LockInv, NEW t \in Calls, todo[t] = <<>>
    PROVE  Own(t) = {} /\ Depths(t) = Zero /\ writer # t
<1>1. ~Alone(t)
    BY DEF Alone
<1>2. Orderly(t)
    BY <1>1 DEF LockInv
<1>3. \A l \in Locking!Locks : Depths(t)[l] = 0
    BY <1>2, EmptyAll DEF Orderly, Ready
<1>4. \A l \in Locking!Locks : locks[l].owner # t
    <2>1. None \notin Calls
        BY LockParameters DEF Locking!Parameters
    <2> QED
        BY <1>3, <2>1 DEF LockInv, LocksOk, Depths
<1>5. Depths(t) = Zero
    BY <1>4 DEF Depths, Zero
<1>6. writer # t
    BY <1>2, EmptyAll DEF Orderly
<1> QED
    BY <1>4, <1>5, <1>6 DEF Own

LEMMA Begins ==
    ASSUME LockInv, NEW t \in Calls, NEW c \in Plans, Locking!Begin(t, c),
           Ready(c, Zero, {}) \/ \E S \in SUBSET Users : c = <<Locking!Step("resettle", {}, S)>>
    PROVE  LockInv'
<1>1. todo[t] = <<>> /\ todo' = [todo EXCEPT ![t] = c] /\ strayed' = strayed \ {t}
      /\ UNCHANGED <<memberOf, locks, writer, settled>>
    BY DEF Locking!Begin
<1>2. Own(t) = {} /\ Depths(t) = Zero /\ writer # t
    BY <1>1, Idle
<1>3. /\ todo' \in [Calls -> Plans] /\ todo'[t] = c
      /\ \A u \in Calls \ {t} : (Alone(u) \/ Orderly(u))'
    <2>1. strayed' \ {t} = strayed \ {t}
        BY <1>1
    <2> QED
        BY <1>1, <2>1, Undisturbed
<1>4. Own(t)' = {} /\ Depths(t)' = Zero /\ Covered(t)' = {} /\ writer' # t
    BY <1>1, <1>2 DEF Own, Depths, Covered
<1>5. (Alone(t) \/ Orderly(t))'
    <2>1. CASE Ready(c, Zero, {})
        <3>1. Climbs(c, {})
            BY Kept
        <3>2. Ready(todo'[t], Depths(t)', Covered(t)')
            BY <1>3, <1>4, <2>1
        <3> QED
            BY <1>3, <1>4, <3>1, <3>2 DEF Orderly
    <2>2. CASE \E S \in SUBSET Users : c = <<Locking!Step("resettle", {}, S)>>
        BY <2>2, <1>3, <1>4 DEF Alone
    <2> QED
        BY <2>1, <2>2
<1>6. LocksOk' /\ memberOf' = memberOf /\ writer' = writer /\ settled' = settled /\ strayed' \subseteq Calls
    BY <1>1 DEF LockInv, LocksOk
<1>7. SettledOk'
    <2>1. writer' \in Calls => (writer' \in strayed' <=> writer \in strayed)
        BY <1>1, <1>2
    <2> QED
        BY <2>1, <1>1 DEF LockInv, SettledOk
<1> QED
    BY <1>3, <1>5, <1>6, <1>7 DEF LockInv

-----------------------------------------------------------------------------
(* What each request does under its guards.                                *)

LEMMA AcceptFits ==
    ASSUME NEW p \in Guards, NEW u \in Users
    PROVE  LET body == <<Locking!Settle({p}), Locking!Write>> \o Locking!SettleSteps(p) \o <<Locking!Step("join", {p}, {u})>>
           IN body \in Plans /\ Promise(body, {p})
<1> DEFINE j == Locking!Step("join", {p}, {u})
           a == <<Locking!Settle({p}), Locking!Write>>
           b == Locking!SettleSteps(p)
           body == a \o b \o <<j>>
<1>1. j \in Steps /\ Locking!Settle({p}) \in Steps /\ Locking!Write \in Steps /\ {p} \in SUBSET Guards /\ {u} \in SUBSET Users
    BY Things
<1>2. a \in Plans /\ <<j>> \in Plans /\ b \in Plans
    <2>1. \A l \in Locking!Locks : Zero[l] <= 1
        BY ZeroHeld
    <2>2. LET c == Cons(j, <<>>) IN c \in Plans /\ Held(c, Zero, {p}) /\ Commits(c)
        BY <1>1, ZeroHeld, EmptyAll, AddsEnd DEF Ending
    <2>3. b \in Plans
        BY <2>1, <2>2, ZeroHeld, Things, Settles
    <2> QED
        BY <1>1, <2>3, EmptyAll, JoinedTwo DEF Plans
<1> HIDE DEF j, a, b
<1>3. body \in Plans /\ a \o b \in Plans
    BY <1>2, ConcatProperties DEF Plans
<1>4. ASSUME NEW s \in Plans, NEW D \in [Locking!Locks -> 0..2], Held(s, D, {p}), AllDrops(s), D[Locking!Mutex] = 0
      PROVE  Held(body \o s, D, {p}) /\ Commits(body \o s)
    <2> DEFINE r == Cons(j, s)
               q == b \o r
               w == Cons(Locking!Write, q)
    <2>1. r \in Plans /\ Held(r, D, {p}) /\ Commits(r)
        BY <1>1, <1>4, AddsEnd DEF Ending, j
    <2>a. <<j>> \o s = r
        BY DEF Cons
    <2> HIDE DEF r
    <2>2. q \in Plans /\ Held(q, D, {p}) /\ Commits(q)
        BY <2>1, <1>4, Settles DEF b
    <2> HIDE DEF q
    <2>3. w \in Plans /\ Held(w, D, {p}) /\ Commits(w)
        BY <2>2, AddsWrite DEF Locking!Write
    <2> HIDE DEF w
    <2>4. Held(Cons(Locking!Settle({p}), w), D, {p}) /\ Commits(Cons(Locking!Settle({p}), w))
        BY <2>3, <1>1, <1>4, AddsWrite DEF Locking!Settle
    <2>5. body \o s = a \o (b \o (<<j>> \o s))
        <3>1. body \o s = (a \o b) \o (<<j>> \o s)
            BY <1>2, <1>3, ConcatAssociative DEF Plans
        <3>2. <<j>> \o s \in Plans
            BY <2>a, <2>1
        <3> QED
            BY <3>1, <3>2, <1>2, ConcatAssociative DEF Plans
    <2>6. a \o q = Cons(Locking!Settle({p}), Cons(Locking!Write, q))
        BY <1>1, <2>2, JoinedTwo DEF a
    <2> QED
        BY <2>4, <2>5, <2>6, <2>a DEF q, w
<1>5. Promise(body, {p})
    BY <1>4 DEF Promise
<1> QED
    BY <1>3, <1>5 DEF j, a, b

LEMMA CreateFits ==
    ASSUME NEW p \in Guards, NEW u \in Users
    PROVE  LET body == <<Locking!Write>> \o Locking!SettleSteps(p) \o <<Locking!Step("join", {p}, {u})>>
           IN body \in Plans /\ Promise(body, {p})
<1> DEFINE j == Locking!Step("join", {p}, {u})
           b == Locking!SettleSteps(p)
           body == <<Locking!Write>> \o b \o <<j>>
<1>1. j \in Steps /\ Locking!Write \in Steps /\ {p} \in SUBSET Guards /\ {u} \in SUBSET Users
    BY Things
<1>2. <<Locking!Write>> \in Plans /\ <<j>> \in Plans /\ b \in Plans
    <2>1. LET c == Cons(j, <<>>) IN c \in Plans /\ Held(c, Zero, {p}) /\ Commits(c)
        BY <1>1, ZeroHeld, EmptyAll, AddsEnd DEF Ending
    <2>2. b \in Plans
        BY <2>1, ZeroHeld, Things, Settles
    <2> QED
        BY <1>1, <2>2 DEF Plans
<1> HIDE DEF j, b
<1>3. body \in Plans /\ <<Locking!Write>> \o b \in Plans
    BY <1>2, ConcatProperties DEF Plans
<1>4. ASSUME NEW s \in Plans, NEW D \in [Locking!Locks -> 0..2], Held(s, D, {p}), AllDrops(s), D[Locking!Mutex] = 0
      PROVE  Held(body \o s, D, {p}) /\ Commits(body \o s)
    <2> DEFINE r == Cons(j, s)
               q == b \o r
    <2>1. r \in Plans /\ Held(r, D, {p}) /\ Commits(r)
        BY <1>1, <1>4, AddsEnd DEF Ending, j
    <2>2. <<j>> \o s = r
        BY DEF Cons
    <2> HIDE DEF r
    <2>3. q \in Plans /\ Held(q, D, {p}) /\ Commits(q)
        BY <2>1, <1>4, Settles DEF b
    <2> HIDE DEF q
    <2>4. Held(Cons(Locking!Write, q), D, {p}) /\ Commits(Cons(Locking!Write, q))
        BY <2>3, AddsWrite DEF Locking!Write
    <2>5. body \o s = <<Locking!Write>> \o (b \o (<<j>> \o s))
        <3>1. body \o s = (<<Locking!Write>> \o b) \o (<<j>> \o s)
            BY <1>2, <1>3, ConcatAssociative DEF Plans
        <3>2. <<j>> \o s \in Plans
            BY <2>2, <2>1
        <3> QED
            BY <3>1, <3>2, <1>2, ConcatAssociative DEF Plans
    <2> QED
        BY <2>2, <2>4, <2>5 DEF q, Cons
<1>5. Promise(body, {p})
    BY <1>4 DEF Promise
<1> QED
    BY <1>3, <1>5 DEF j, b

LEMMA LeaveFits ==
    ASSUME NEW p \in Guards, NEW V \in SUBSET Users
    PROVE  LET body == <<Locking!Settle({p}), Locking!Write, Locking!Step("leave", {p}, V)>>
           IN body \in Plans /\ Promise(body, {p})
<1> DEFINE e == Locking!Step("leave", {p}, V)
           f == Locking!Settle({p})
           body == <<f, Locking!Write, e>>
<1>1. e \in Steps /\ f \in Steps /\ Locking!Write \in Steps /\ {p} \in SUBSET Guards
    BY Things
<1> HIDE DEF e, f
<1>2. body \in Plans
    BY <1>1, EmptyAll, JoinedThree
<1>3. ASSUME NEW s \in Plans, NEW D \in [Locking!Locks -> 0..2], Held(s, D, {p}), D[Locking!Mutex] = 0
      PROVE  Held(body \o s, D, {p}) /\ Commits(body \o s)
    <2> DEFINE q == Cons(e, s)
               w == Cons(Locking!Write, q)
    <2>1. q \in Plans /\ Held(q, D, {p}) /\ Commits(q)
        BY <1>1, <1>3, AddsEnd DEF Ending, e
    <2> HIDE DEF q
    <2>2. w \in Plans /\ Held(w, D, {p}) /\ Commits(w)
        BY <2>1, AddsWrite DEF Locking!Write
    <2> HIDE DEF w
    <2>3. Held(Cons(f, w), D, {p}) /\ Commits(Cons(f, w))
        <3>1. f = Locking!Step("settle", {p}, {})
            BY DEF Locking!Settle, f
        <3> QED
            BY <3>1, <2>2, <1>1, <1>3, AddsWrite
    <2>4. body \o s = Cons(f, Cons(Locking!Write, Cons(e, s)))
        BY <1>1, JoinedThree
    <2> QED
        BY <2>3, <2>4 DEF q, w
<1>4. Promise(body, {p})
    BY <1>3 DEF Promise
<1> QED
    BY <1>2, <1>4 DEF e, f

LEMMA LimitsFit ==
    ASSUME NEW p \in Guards
    PROVE  /\ <<Locking!Write, Locking!Commit>> \in Plans /\ Promise(<<Locking!Write, Locking!Commit>>, {p})
           /\ <<Locking!Settle({p}), Locking!Commit>> \in Plans /\ Promise(<<Locking!Settle({p}), Locking!Commit>>, {p})
<1>1. Locking!Settle({p}) \in Steps /\ Locking!Write \in Steps /\ Locking!Commit \in Steps /\ {p} \in SUBSET Guards /\ {} \in SUBSET Users
    BY Things
<1>2. <<Locking!Write, Locking!Commit>> \in Plans /\ <<Locking!Settle({p}), Locking!Commit>> \in Plans
    BY <1>1, EmptyAll, JoinedTwo
<1>3. ASSUME NEW s \in Plans, NEW D \in [Locking!Locks -> 0..2], Held(s, D, {p}), D[Locking!Mutex] = 0
      PROVE  /\ Held(<<Locking!Write, Locking!Commit>> \o s, D, {p}) /\ Commits(<<Locking!Write, Locking!Commit>> \o s)
             /\ Held(<<Locking!Settle({p}), Locking!Commit>> \o s, D, {p}) /\ Commits(<<Locking!Settle({p}), Locking!Commit>> \o s)
    <2> DEFINE q == Cons(Locking!Commit, s)
    <2>1. q \in Plans /\ Held(q, D, {p}) /\ Commits(q)
        BY <1>1, <1>3, AddsEnd DEF Ending, Locking!Commit
    <2> HIDE DEF q
    <2>2. Held(Cons(Locking!Write, q), D, {p}) /\ Commits(Cons(Locking!Write, q))
        BY <2>1, AddsWrite DEF Locking!Write
    <2>3. Held(Cons(Locking!Settle({p}), q), D, {p}) /\ Commits(Cons(Locking!Settle({p}), q))
        BY <2>1, <1>1, <1>3, AddsWrite DEF Locking!Settle
    <2>4. /\ <<Locking!Write, Locking!Commit>> \o s = Cons(Locking!Write, Cons(Locking!Commit, s))
          /\ <<Locking!Settle({p}), Locking!Commit>> \o s = Cons(Locking!Settle({p}), Cons(Locking!Commit, s))
        BY <1>1, JoinedTwo
    <2> QED
        BY <2>2, <2>3, <2>4 DEF q
<1>4. Promise(<<Locking!Write, Locking!Commit>>, {p}) /\ Promise(<<Locking!Settle({p}), Locking!Commit>>, {p})
    BY <1>3 DEF Promise
<1> QED
    BY <1>2, <1>4

LEMMA DeleteFits ==
    ASSUME NEW S \in SUBSET Guards, NEW V \in SUBSET Users
    PROVE  LET body == Locking!Paused(<<Locking!Step("depart", {}, V), Locking!Write, Locking!Step("gone", {}, V)>>)
           IN body \in Plans /\ Promise(body, S)
<1> DEFINE a == Locking!Step("depart", {}, V)
           g == Locking!Step("gone", {}, V)
           b == <<a, Locking!Write, g>>
<1>1. a \in Steps /\ g \in Steps /\ Locking!Write \in Steps
    BY Things
<1> HIDE DEF a, g
<1>2. b \in Plans
    BY <1>1, EmptyAll, JoinedThree
<1>3. ASSUME NEW s \in Plans, NEW E \in [Locking!Locks -> 0..2], NEW X, Held(s, E, X), E[Locking!Mutex] <= 1
      PROVE  Held(b \o s, E, X) /\ Commits(b \o s)
    <2> DEFINE q == Cons(g, s)
               w == Cons(Locking!Write, q)
    <2>1. q \in Plans /\ Held(q, E, X) /\ Commits(q)
        BY <1>3, AddsEnd DEF Ending, g
    <2> HIDE DEF q
    <2>2. w \in Plans /\ Held(w, E, X) /\ Commits(w)
        BY <2>1, <1>3, AddsWrite DEF Locking!Write
    <2> HIDE DEF w
    <2>3. Held(Cons(a, w), E, X) /\ Commits(Cons(a, w))
        BY <2>2, <1>3, AddsDepart DEF a
    <2>4. b \o s = Cons(a, Cons(Locking!Write, Cons(g, s)))
        BY <1>1, JoinedThree
    <2> QED
        BY <2>3, <2>4 DEF q, w
<1> HIDE DEF b
<1>4. Locking!Paused(b) \in Plans
    BY <1>2, EmptyAll, Encloses, Things DEF Locking!Paused
<1>5. ASSUME NEW s \in Plans, NEW D \in [Locking!Locks -> 0..2], Held(s, D, S), D[Locking!Mutex] = 0
      PROVE  Held(Locking!Paused(b) \o s, D, S) /\ Commits(Locking!Paused(b) \o s)
    <2> DEFINE d == Cons(Locking!Step("drop", {Locking!Mutex}, {}), s)
               E == Raised(D, {Locking!Mutex})
    <2>1. E \in [Locking!Locks -> 0..2] /\ E[Locking!Mutex] = 1 /\ \A l \in Locking!Locks : E[l] = IF l \in {Locking!Mutex} THEN D[l] + 1 ELSE D[l]
        BY <1>5, RaisedType, Things
    <2>2. {Locking!Mutex} \in SUBSET Locking!Locks /\ {Locking!Mutex} # {}
        BY Things
    <2> HIDE DEF E
    <2>3. d \in Plans /\ Held(d, E, S)
        BY <1>5, <2>1, <2>2, AddsDrop
    <2> HIDE DEF d
    <2>4. Held(b \o d, E, S) /\ Commits(b \o d)
        BY <1>3, <2>1, <2>3
    <2> USE DEF d, E
    <2>5. Held(Locking!Paused(b) \o s, D, S) /\ (Commits(Locking!Paused(b) \o s) <=> Commits(b \o d))
        BY <1>2, <1>5, <2>4, Pauses
    <2> QED
        BY <2>4, <2>5
<1>6. Promise(Locking!Paused(b), S)
    BY <1>5 DEF Promise
<1> QED
    BY <1>4, <1>6 DEF b, a, g

LEMMA PurgeFits ==
    ASSUME NEW S \in SUBSET Guards, NEW V \in SUBSET Users
    PROVE  LET body == Locking!Paused(<<Locking!Flush, Locking!Write, Locking!Commit, Locking!Step("resettle", {}, V)>>)
           IN body \in Plans /\ Promise(body, S)
<1> DEFINE g == Locking!Step("resettle", {}, V)
           b == <<Locking!Flush, Locking!Write, Locking!Commit, g>>
<1>1. Locking!Flush \in Steps /\ Locking!Commit \in Steps /\ g \in Steps /\ Locking!Write \in Steps /\ {} \in SUBSET Users /\ {} \in SUBSET Guards
    BY Things
<1> HIDE DEF g
<1>2. b \in Plans
    BY <1>1, EmptyAll, JoinedFour
<1>3. ASSUME NEW s \in Plans, NEW E \in [Locking!Locks -> 0..2], NEW X, Held(s, E, X), AllDrops(s), E[Locking!Mutex] = 1,
             \A l \in Locking!Locks : E[l] <= 1
      PROVE  Held(b \o s, E, X) /\ Commits(b \o s)
    <2> DEFINE q == Cons(g, s)
               c == Cons(Locking!Commit, q)
               w == Cons(Locking!Write, c)
    <2>1. q \in Plans /\ Held(q, E, X)
        BY <1>3, AddsResettle DEF g
    <2> HIDE DEF q
    <2>2. c \in Plans /\ Held(c, E, X) /\ Commits(c)
        BY <1>1, <2>1, <1>3, AddsEnd DEF Locking!Commit, Ending
    <2> HIDE DEF c
    <2>3. w \in Plans /\ Held(w, E, X) /\ Commits(w)
        BY <2>2, <1>3, AddsWrite DEF Locking!Write
    <2> HIDE DEF w
    <2>4. Held(Cons(Locking!Flush, w), E, X) /\ Commits(Cons(Locking!Flush, w))
        BY <2>3, <1>3, AddsFlush
    <2>5. b \o s = Cons(Locking!Flush, Cons(Locking!Write, Cons(Locking!Commit, Cons(g, s))))
        BY <1>1, JoinedFour
    <2> QED
        BY <2>4, <2>5 DEF q, c, w
<1> HIDE DEF b
<1>4. Locking!Paused(b) \in Plans
    BY <1>2, EmptyAll, Encloses, Things DEF Locking!Paused
<1>5. ASSUME NEW s \in Plans, NEW D \in [Locking!Locks -> 0..2], Held(s, D, S), AllDrops(s), D[Locking!Mutex] = 0, \A l \in Locking!Locks : D[l] <= 1
      PROVE  Held(Locking!Paused(b) \o s, D, S) /\ Commits(Locking!Paused(b) \o s)
    <2> DEFINE d == Cons(Locking!Step("drop", {Locking!Mutex}, {}), s)
               E == Raised(D, {Locking!Mutex})
    <2>1. E \in [Locking!Locks -> 0..2] /\ E[Locking!Mutex] = 1 /\ \A l \in Locking!Locks : E[l] = IF l \in {Locking!Mutex} THEN D[l] + 1 ELSE D[l]
        BY <1>5, RaisedType, Things
    <2>2. {Locking!Mutex} \in SUBSET Locking!Locks /\ {Locking!Mutex} # {}
        BY Things
    <2> HIDE DEF E
    <2>3. d \in Plans /\ Held(d, E, S) /\ AllDrops(d)
        BY <1>5, <2>1, <2>2, AddsDrop
    <2> HIDE DEF d
    <2>4. Held(b \o d, E, S) /\ Commits(b \o d)
        <3>1. \A l \in Locking!Locks : E[l] <= 1
            BY <2>1, <1>5
        <3> QED
            BY <1>3, <2>1, <2>3, <3>1
    <2> USE DEF d, E
    <2>5. Held(Locking!Paused(b) \o s, D, S) /\ (Commits(Locking!Paused(b) \o s) <=> Commits(b \o d))
        BY <1>2, <1>5, <2>4, Pauses
    <2> QED
        BY <2>4, <2>5
<1>6. Promise(Locking!Paused(b), S)
    BY <1>5 DEF Promise
<1> QED
    BY <1>4, <1>6 DEF b, g

LEMMA FlushFits ==
    ASSUME NEW b \in {<<Locking!Flush>>, <<Locking!Flush, Locking!Write, Locking!Commit>>}
    PROVE  Locking!Paused(b) \in Plans /\ Ready(Locking!Paused(b), Zero, {})
<1>1. Locking!Flush \in Steps /\ Locking!Commit \in Steps /\ Locking!Write \in Steps /\ {} \in SUBSET Users /\ {} \in SUBSET Guards
    BY Things
<1>2. b \in Plans
    <2>1. <<Locking!Flush>> \in Plans
        BY <1>1 DEF Plans
    <2>2. <<Locking!Flush, Locking!Write, Locking!Commit>> \in Plans
        BY <1>1, EmptyAll, JoinedThree
    <2> QED
        BY <2>1, <2>2
<1>3. ASSUME NEW s \in Plans, NEW E \in [Locking!Locks -> 0..2], NEW X, Held(s, E, X)
      PROVE  Held(b \o s, E, X)
    <2> DEFINE c == Cons(Locking!Commit, s)
               w == Cons(Locking!Write, c)
    <2>1. c \in Plans /\ Held(c, E, X) /\ Commits(c)
        BY <1>1, <1>3, AddsEnd DEF Locking!Commit, Ending
    <2> HIDE DEF c
    <2>2. w \in Plans /\ Held(w, E, X)
        BY <2>1, AddsWrite DEF Locking!Write
    <2> HIDE DEF w
    <2>3. Held(Cons(Locking!Flush, w), E, X) /\ Held(Cons(Locking!Flush, s), E, X)
        <3>1. Held(Cons(Locking!Flush, w), E, X)
            BY <2>2, AddsFlush
        <3>2. Held(Cons(Locking!Flush, s), E, X)
            BY <1>3, AddsFlush
        <3> QED
            BY <3>1, <3>2
    <2>4. <<Locking!Flush, Locking!Write, Locking!Commit>> \o s = Cons(Locking!Flush, Cons(Locking!Write, Cons(Locking!Commit, s)))
        BY <1>1, JoinedThree
    <2>5. <<Locking!Flush>> \o s = Cons(Locking!Flush, s)
        BY DEF Cons
    <2> QED
        BY <2>3, <2>4, <2>5 DEF c, w
<1>4. Held(Locking!Paused(b) \o <<>>, Zero, {}) /\ Locking!Paused(b) \in Plans
    <2> DEFINE d == Cons(Locking!Step("drop", {Locking!Mutex}, {}), <<>>)
               E == Raised(Zero, {Locking!Mutex})
    <2>1. E \in [Locking!Locks -> 0..2] /\ Zero[Locking!Mutex] = 0
        BY RaisedType, Things, ZeroHeld
    <2> HIDE DEF E
    <2>2. ASSUME d \in Plans, Held(d, E, {}) PROVE Held(b \o d, E, {})
        BY <1>3, <2>1, <2>2
    <2> DEFINE z == <<>>
    <2>3. z \in Plans /\ Held(z, Zero, {}) /\ Zero \in [Locking!Locks -> 0..2] /\ Zero[Locking!Mutex] <= 1
        BY <2>1, ZeroHeld, EmptyAll
    <2>4. ASSUME Cons(Locking!Step("drop", {Locking!Mutex}, {}), z) \in Plans, Held(Cons(Locking!Step("drop", {Locking!Mutex}, {}), z), Raised(Zero, {Locking!Mutex}), {})
          PROVE  Held(b \o Cons(Locking!Step("drop", {Locking!Mutex}, {}), z), Raised(Zero, {Locking!Mutex}), {})
        BY <2>2, <2>4 DEF E
    <2> HIDE DEF z
    <2>5. Locking!Paused(b) \in Plans /\ Held(Locking!Paused(b) \o z, Zero, {})
        BY <1>2, <2>3, <2>4, Pauses
    <2> QED
        BY <2>5 DEF z
<1> QED
    BY <1>4, NoneJoined DEF Held

LEMMA RequestKeeps ==
    ASSUME LockInv, NEW t \in Calls, Locking!Request(t)
    PROVE  LockInv'
<1>1. /\ \A u \in Users : memberOf[u] # None => memberOf[u] \in Guards
      /\ \A S \in SUBSET Users : Locking!PoolsOf(S) \in SUBSET Guards
    BY DEF LockInv, Locking!PoolsOf
<1>2. ASSUME NEW u \in Users, NEW p \in Guards, Locking!Accept(t, u, p) PROVE LockInv'
    <2> DEFINE body == <<Locking!Settle({p}), Locking!Write>> \o Locking!SettleSteps(p) \o <<Locking!Step("join", {p}, {u})>>
    <2>1. body \in Plans /\ Promise(body, {p})
        BY AcceptFits
    <2>2. Locking!Begin(t, Locking!Guarded({p}, body))
        BY <1>2 DEF Locking!Accept
    <2> HIDE DEF body
    <2>3. Locking!Guarded({p}, body) \in Plans /\ Ready(Locking!Guarded({p}, body), Zero, {})
        BY <2>1, Outer
    <2> QED
        BY <2>2, <2>3, Begins
<1>3. ASSUME NEW u \in Users, NEW p \in Guards, Locking!Create(t, u, p) PROVE LockInv'
    <2> DEFINE body == <<Locking!Write>> \o Locking!SettleSteps(p) \o <<Locking!Step("join", {p}, {u})>>
               c == Locking!Guarded({p}, body)
    <2>1. body \in Plans /\ Promise(body, {p})
        BY CreateFits
    <2>2. Locking!Begin(t, Cons(Locking!Write, c))
        BY <1>3 DEF Locking!Create, Cons
    <2> HIDE DEF body
    <2>3. c \in Plans /\ Ready(c, Zero, {}) /\ Commits(c)
        BY <2>1, Outer
    <2> HIDE DEF c
    <2>4. Locking!Write \in Steps /\ Locking!Write.do = "write" /\ Locking!Write.on = {}
        BY Things DEF Locking!Write, Locking!Step
    <2>5. Fits(Locking!Write, c)
        <3>1. Form(Locking!Write) /\ Blank(Locking!Write) /\ ~DropsGuards(Locking!Write)
            BY <2>4 DEF Form, Blank, DropsGuards
        <3> QED
            BY <3>1, <2>3, <2>4 DEF Fits
    <2>6. Cons(Locking!Write, c) \in Plans /\ Sound(Cons(Locking!Write, c)) /\ Taken(Cons(Locking!Write, c)) = Taken(c)
        <3>1. ~TakesGuards(Locking!Write)
            BY <2>4 DEF TakesGuards
        <3>2. Taken(Cons(Locking!Write, c)) = Taken(c) \cup (IF TakesGuards(Locking!Write) THEN Locking!Write.on \cap Guards ELSE {})
            BY <2>3, <2>4, ConsAll
        <3>3. Cons(Locking!Write, c) \in Plans
            BY <2>3, <2>4, ConsFacts
        <3>4. Sound(Cons(Locking!Write, c)) <=> Fits(Locking!Write, c) /\ Sound(c)
            BY <2>3, <2>4, ConsAll
        <3> QED
            BY <3>1, <3>2, <3>3, <3>4, <2>3, <2>5 DEF Ready
    <2>7. Uses(Cons(Locking!Write, c), {} \cup Taken(Cons(Locking!Write, c)))
        <3>1. Uses(c, {} \cup Taken(c))
            BY <2>3 DEF Ready
        <3> QED
            BY <3>1, <2>3, <2>4, <2>6, ConsAll
    <2>8. ASSUME NEW l \in Locking!Locks PROVE Level(Cons(Locking!Write, c), l, Zero[l])
        <3>1. Zero[l] = 0 /\ Delta(Locking!Write, l) = 0 /\ LevelBound(Locking!Write, l, 0)
            BY <2>4, ZeroHeld DEF Delta, LevelBound
        <3>2. Level(c, l, 0)
            BY <2>3, <3>1 DEF Ready
        <3> QED
            BY <2>3, <2>4, <3>1, <3>2, ConsLevel
    <2> QED
        BY <2>2, <2>6, <2>7, <2>8, Begins DEF Ready
<1>4. ASSUME NEW u \in Users, Locking!RemoveMember(t, u) PROVE LockInv'
    <2> DEFINE p == memberOf[u]
               body == <<Locking!Settle({p}), Locking!Write, Locking!Step("leave", {p}, {u})>>
    <2>1. p \in Guards
        BY <1>1, <1>4 DEF Locking!RemoveMember
    <2>2. Locking!Begin(t, Locking!Guarded({p}, body))
        BY <1>4 DEF Locking!RemoveMember
    <2> HIDE DEF p
    <2>3. body \in Plans /\ Promise(body, {p})
        BY <2>1, LeaveFits
    <2> HIDE DEF body
    <2>4. Locking!Guarded({p}, body) \in Plans /\ Ready(Locking!Guarded({p}, body), Zero, {})
        BY <2>1, <2>3, Outer
    <2> QED
        BY <2>2, <2>4, Begins
<1>5. ASSUME NEW p \in Guards, Locking!Dissolve(t, p) PROVE LockInv'
    <2> DEFINE body == <<Locking!Settle({p}), Locking!Write, Locking!Step("leave", {p}, Users)>>
    <2>1. body \in Plans /\ Promise(body, {p})
        BY LeaveFits
    <2>2. Locking!Begin(t, Locking!Guarded({p}, body))
        BY <1>5 DEF Locking!Dissolve
    <2> HIDE DEF body
    <2>3. Locking!Guarded({p}, body) \in Plans /\ Ready(Locking!Guarded({p}, body), Zero, {})
        BY <2>1, Outer
    <2> QED
        BY <2>2, <2>3, Begins
<1>6. ASSUME NEW p \in Guards, Locking!SetLimits(t, p) PROVE LockInv'
    <2> DEFINE body == <<Locking!Write, Locking!Commit>>
    <2>1. body \in Plans /\ Promise(body, {p})
        BY LimitsFit
    <2>2. Locking!Begin(t, Locking!Guarded({p}, body))
        BY <1>6 DEF Locking!SetLimits
    <2> HIDE DEF body
    <2>3. Locking!Guarded({p}, body) \in Plans /\ Ready(Locking!Guarded({p}, body), Zero, {})
        BY <2>1, Outer
    <2> QED
        BY <2>2, <2>3, Begins
<1>7. ASSUME NEW u \in Users, Locking!Preview(t, u) PROVE LockInv'
    <2> DEFINE p == memberOf[u]
               body == <<Locking!Settle({p}), Locking!Commit>>
    <2>1. p \in Guards
        BY <1>1, <1>7 DEF Locking!Preview
    <2>2. Locking!Begin(t, Locking!Guarded({p}, body))
        BY <1>7 DEF Locking!Preview
    <2> HIDE DEF p
    <2>3. body \in Plans /\ Promise(body, {p})
        BY <2>1, LimitsFit
    <2> HIDE DEF body
    <2>4. Locking!Guarded({p}, body) \in Plans /\ Ready(Locking!Guarded({p}, body), Zero, {})
        BY <2>1, <2>3, Outer
    <2> QED
        BY <2>2, <2>4, Begins
<1>8. ASSUME NEW u \in Users, Locking!DeleteUser(t, u) PROVE LockInv'
    <2> DEFINE body == Locking!Paused(<<Locking!Step("depart", {}, {u}), Locking!Write, Locking!Step("gone", {}, {u})>>)
               S == Locking!PoolsOf({u})
    <2>1. S \in SUBSET Guards
        BY <1>1
    <2>2. Locking!Begin(t, Locking!Guarded(S, body))
        BY <1>8 DEF Locking!DeleteUser
    <2> HIDE DEF S
    <2>3. body \in Plans /\ Promise(body, S)
        BY <2>1, DeleteFits
    <2> HIDE DEF body
    <2>4. Locking!Guarded(S, body) \in Plans /\ Ready(Locking!Guarded(S, body), Zero, {})
        BY <2>1, <2>3, Outer
    <2> QED
        BY <2>2, <2>4, Begins
<1>9. ASSUME NEW V \in SUBSET Users, Locking!Purge(t, V) PROVE LockInv'
    <2> DEFINE body == Locking!Paused(<<Locking!Flush, Locking!Write, Locking!Commit, Locking!Step("resettle", {}, V)>>)
               S == Locking!PoolsOf(V)
    <2>1. S \in SUBSET Guards
        BY <1>1
    <2>2. Locking!Begin(t, Locking!Guarded(S, body))
        BY <1>9 DEF Locking!Purge
    <2> HIDE DEF S
    <2>3. body \in Plans /\ Promise(body, S)
        BY <2>1, PurgeFits
    <2> HIDE DEF body
    <2>4. Locking!Guarded(S, body) \in Plans /\ Ready(Locking!Guarded(S, body), Zero, {})
        BY <2>1, <2>3, Outer
    <2> QED
        BY <2>2, <2>4, Begins
<1>10. ASSUME NEW V \in SUBSET Users, Locking!Edit(t, V) PROVE LockInv'
    <2> DEFINE c == <<Locking!Step("resettle", {}, V)>>
    <2>1. Locking!Begin(t, c)
        BY <1>10 DEF Locking!Edit
    <2>2. c \in Plans
        BY Things DEF Plans
    <2>3. \E S \in SUBSET Users : c = <<Locking!Step("resettle", {}, S)>>
        OBVIOUS
    <2> HIDE DEF c
    <2> QED
        BY <2>1, <2>2, <2>3, Begins
<1>11. ASSUME Locking!Rename(t) \/ Locking!FlushCycle(t) PROVE LockInv'
    <2>1. PICK b \in {<<Locking!Flush>>, <<Locking!Flush, Locking!Write, Locking!Commit>>} : Locking!Begin(t, Locking!Paused(b))
        BY <1>11 DEF Locking!Rename, Locking!FlushCycle
    <2>2. Locking!Paused(b) \in Plans /\ Ready(Locking!Paused(b), Zero, {})
        BY FlushFits
    <2> QED
        BY <2>1, <2>2, Begins
<1> QED
    BY <1>2, <1>3, <1>4, <1>5, <1>6, <1>7, <1>8, <1>9, <1>10, <1>11 DEF Locking!Request

-----------------------------------------------------------------------------
(* The steps of requests.                                                  *)

\* A task that has taken its next step, or given up, is still orderly, and everyone else.
LEMMA Goes ==
    ASSUME LockInv, NEW t \in Calls, NEW c \in Plans, todo' = [todo EXCEPT ![t] = c],
           \A l \in Locking!Locks : locks'[l] = locks[l] \/ (locks[l].owner \in {None, t} /\ locks'[l].owner \in {None, t}),
           writer' \in {None, t, writer}, strayed' \ {t} = strayed \ {t}, strayed' \subseteq Calls,
           memberOf' \in [Users -> Guards \cup {None}], settled' \subseteq Guards, LocksOk', SettledOk',
           Ready(c, Depths(t)', Covered(t)'),
           writer' = t => Commits(c),
           t \notin strayed' => Climbs(c, Own(t)')
    PROVE  LockInv'
<1>1. /\ todo' \in [Calls -> Plans] /\ todo'[t] = c
      /\ \A u \in Calls \ {t} : (Alone(u) \/ Orderly(u))'
    BY Undisturbed
<1>2. Orderly(t)'
    BY <1>1 DEF Orderly
<1>3. writer' \in Calls \cup {None}
    BY DEF LockInv
<1> QED
    BY <1>1, <1>2, <1>3 DEF LockInv

\* A task that gives everything back.
LEMMA RaiseKeeps ==
    ASSUME LockInv, NEW t \in Calls, Locking!Raise(t)
    PROVE  LockInv'
<1>1. /\ locks' = [l \in Locking!Locks |-> IF locks[l].owner = t THEN Locking!Unowned ELSE locks[l]]
      /\ writer' = IF writer = t THEN None ELSE writer
      /\ settled' = IF writer = t THEN {} ELSE settled
      /\ todo' = [todo EXCEPT ![t] = <<>>]
      /\ memberOf' = memberOf /\ strayed' = strayed
    BY DEF Locking!Raise
<1>2. None \notin Calls
    BY LockParameters DEF Locking!Parameters
<1>3. LocksOk'
    BY <1>1 DEF LockInv, LocksOk, Locking!Unowned
<1>4. \A l \in Locking!Locks : locks'[l] = locks[l] \/ (locks[l].owner \in {None, t} /\ locks'[l].owner \in {None, t})
    BY <1>1 DEF Locking!Unowned
<1>5. SettledOk'
    BY <1>1, Things DEF LockInv, SettledOk
<1>6. Depths(t)' = Zero /\ Own(t)' = {} /\ writer' # t
    BY <1>1, <1>2 DEF Depths, Own, Zero, Locking!Unowned
<1>7. Ready(<<>>, Zero, Covered(t)')
    BY ZeroHeld, EmptyAll DEF Held, Ready
<1>8. writer' \in {None, t, writer} /\ strayed' \ {t} = strayed \ {t} /\ strayed' \subseteq Calls
      /\ memberOf' \in [Users -> Guards \cup {None}] /\ settled' \subseteq Guards
    BY <1>1 DEF LockInv
<1> QED
    BY <1>1, <1>3, <1>4, <1>5, <1>6, <1>7, <1>8, EmptyAll, Goes

LEMMA TakeKeeps ==
    ASSUME LockInv, NEW t \in Calls, Locking!TakeLock(t)
    PROVE  LockInv'
<1> DEFINE e == Head(todo[t])
           r == Tail(todo[t])
           m == Locking!First(t)
           f == [e EXCEPT !.on = @ \ {m}]
           c == Locking!Others(t) \o r
<1>1. /\ e.do = "take" /\ todo[t] # <<>> /\ locks[m].owner \in {None, t}
      /\ locks' = [locks EXCEPT ![m] = [owner |-> t, depth |-> @.depth + 1]]
      /\ todo' = [todo EXCEPT ![t] = c]
      /\ UNCHANGED <<memberOf, writer, settled, strayed>>
    <2>1. todo' = [todo EXCEPT ![t] = Locking!Others(t) \o Tail(@)] /\ todo \in [Calls -> Plans]
        BY DEF Locking!TakeLock, Locking!Instead, LockInv
    <2> QED
        BY <2>1 DEF Locking!TakeLock, Locking!At
<1>2. /\ e \in Steps /\ r \in Plans /\ todo[t] = Cons(e, r)
      /\ Form(e) /\ Sound(r) /\ NoTake(r)
      /\ \A l \in Locking!Locks : Level(r, l, Depths(t)[l] - Delta(e, l))
      /\ writer = t => Commits(r)
      /\ t \notin strayed => Climbs(Cons(e, r), Own(t))
      /\ Uses(r, Covered(t) \cup Taken(Cons(e, r)))
    <2>1. ~Blank(e) /\ e.do \notin Ending
        BY <1>1 DEF Blank, Ending
    <2>2. e.do # "resettle"
        BY <1>1
    <2>3. /\ e \in Steps /\ r \in Plans /\ todo[t] = Cons(e, r)
          /\ Form(e) /\ Sound(r) /\ (Blank(e) \/ NoTake(r))
          /\ \A l \in Locking!Locks : Level(r, l, Depths(t)[l] - Delta(e, l)) /\ LevelBound(e, l, Depths(t)[l])
          /\ writer = t => ~DropsGuards(e) /\ (e.do \in Ending \/ Commits(r))
          /\ t \notin strayed => Climbs(todo[t], Own(t)) /\ Climbs(r, Own(t))
          /\ Uses(r, Covered(t) \cup Taken(todo[t]))
        BY <1>1, <2>2, AtHead
    <2> QED
        BY <2>1, <2>3
<1>3. e.on \in SUBSET Locking!Locks /\ e.on # {} /\ (e.on = {Locking!Mutex} \/ e.on \subseteq Guards) /\ e.on \subseteq Nat
    <2>1. e.on \in SUBSET Locking!Locks /\ e.on # {} /\ (e.on = {Locking!Mutex} \/ e.on \subseteq Guards)
        BY <1>1, <1>2 DEF Form, Steps
    <2>2. Locking!Locks \subseteq Nat
        BY LockParameters DEF Locking!Parameters, Locking!Locks, Locking!Mutex
    <2> QED
        BY <2>1, <2>2
<1>4. m \in e.on /\ \A x \in e.on : m <= x
    BY <1>3, Least DEF Locking!First, Locking!On
<1>5. Locking!Others(t) = IF e.on = {m} THEN <<>> ELSE <<f>>
    BY DEF Locking!Others, Locking!On
<1> HIDE DEF e, r, m
<1>a. f = [do |-> "take", on |-> e.on \ {m}, who |-> e.who]
    <2>1. e \in [do : Kinds, on : SUBSET Locking!Locks, who : SUBSET Users] /\ e.do = "take"
        BY <1>1, <1>2 DEF Steps
    <2> QED
        BY <2>1
<1> HIDE DEF f
<1>6. NoTake(r) /\ Taken(r) = {} /\ \A own : Climbs(r, own)
    BY <1>2, Kept
<1>7. None \notin Calls /\ m \in Locking!Locks
    BY <1>3, <1>4, LockParameters DEF Locking!Parameters
<1>8. /\ \A l \in Locking!Locks : Depths(t)[l] \in 0..2
      /\ \A l \in Locking!Locks : Depths(t)'[l] = IF l = m THEN Depths(t)[l] + 1 ELSE Depths(t)[l]
      /\ Own(t)' = Own(t) \cup {m}
    <2>1. locks \in [Locking!Locks -> [owner : Calls \cup {None}, depth : 0..2]] /\ \A l \in Locking!Locks : locks[l].owner = None <=> locks[l].depth = 0
        BY DEF LockInv, LocksOk
    <2>2. locks'[m] = [owner |-> t, depth |-> locks[m].depth + 1] /\ \A l \in Locking!Locks \ {m} : locks'[l] = locks[l]
        BY <1>1, <1>7, <2>1
    <2>3. locks[m].owner = t \/ (locks[m].owner = None /\ locks[m].depth = 0)
        BY <1>1, <1>7, <2>1
    <2>4. \A l \in Locking!Locks : Depths(t)[l] = IF locks[l].owner = t THEN locks[l].depth ELSE 0
        BY DEF Depths
    <2>5. \A l \in Locking!Locks : Depths(t)'[l] = IF locks'[l].owner = t THEN locks'[l].depth ELSE 0
        BY DEF Depths
    <2>6. Own(t)' = Own(t) \cup {m}
        BY <1>7, <2>2 DEF Own
    <2>7. \A l \in Locking!Locks : Depths(t)[l] \in 0..2
        BY <2>1, <2>4
    <2>8. Depths(t)'[m] = Depths(t)[m] + 1
        BY <1>7, <2>2, <2>3, <2>4, <2>5
    <2>9. \A l \in Locking!Locks \ {m} : Depths(t)'[l] = Depths(t)[l]
        BY <2>2, <2>4, <2>5
    <2> QED
        BY <2>6, <2>7, <2>8, <2>9
<1>9. Depths(t)[m] + 1 \in 0..2
    <2>1. Delta(e, m) = 0 - 1
        BY <1>1, <1>4 DEF Delta
    <2>2. Depths(t)[m] - Delta(e, m) \in 0..2
        BY <1>2, <1>7, LevelRange
    <2> QED
        BY <2>1, <2>2, <1>7, <1>8
<1>10. LocksOk'
    <2>1. locks \in [Locking!Locks -> [owner : Calls \cup {None}, depth : 0..2]] /\ \A l \in Locking!Locks : locks[l].owner = None <=> locks[l].depth = 0
        BY DEF LockInv, LocksOk
    <2>2. locks[m].depth + 1 \in 1..2
        <3>1. locks[m].depth = Depths(t)[m]
            BY <1>1, <1>7, <2>1 DEF Depths
        <3> QED
            BY <3>1, <1>9, <1>8, <1>7
    <2>3. locks' \in [Locking!Locks -> [owner : Calls \cup {None}, depth : 0..2]]
        BY <1>1, <1>7, <2>1, <2>2
    <2>4. locks'[m] = [owner |-> t, depth |-> locks[m].depth + 1] /\ \A l \in Locking!Locks \ {m} : locks'[l] = locks[l]
        BY <1>1, <1>7, <2>1
    <2>5. \A l \in Locking!Locks : locks'[l].owner = None <=> locks'[l].depth = 0
        BY <2>1, <2>2, <2>4, <1>7
    <2> QED
        BY <2>3, <2>5 DEF LocksOk
<1>11. SettledOk'
    <2>1. \A l \in Locking!Locks : locks'[l].owner = IF l = m THEN t ELSE locks[l].owner
        BY <1>1, <1>7 DEF LockInv, LocksOk
    <2>2. ASSUME NEW p \in settled, writer \in Calls, locks[p].owner = writer PROVE locks'[p].owner = writer
        <3>1. p \in Locking!Locks
            BY Things DEF LockInv
        <3> QED
            BY <2>1, <2>2, <3>1, <1>1, <1>7
    <2> QED
        BY <1>1, <2>2 DEF LockInv, SettledOk
<1>12. Covered(t)' = IF t \in strayed THEN Guards ELSE Own(t) \cup {m}
    BY <1>1, <1>8 DEF Covered
<1>13. /\ c \in Plans /\ Ready(c, Depths(t)', Covered(t)') /\ (writer' = t => Commits(c))
       /\ t \notin strayed' => Climbs(c, Own(t)')
    <2>1. CASE e.on = {m}
        <3>1. c = r
            BY <2>1, <1>2, <1>5, NoneJoined
        <3>2. ASSUME NEW l \in Locking!Locks PROVE Level(r, l, Depths(t)'[l])
            <4>1. Depths(t)'[l] = Depths(t)[l] - Delta(e, l)
                BY <2>1, <1>1, <1>8 DEF Delta
            <4> QED
                BY <4>1, <1>2
        <3>3. Uses(r, Covered(t)')
            <4>1. (Covered(t) \cup Taken(Cons(e, r))) \cap Guards \subseteq Covered(t)'
                <5>1. Taken(Cons(e, r)) = Taken(r) \cup (IF TakesGuards(e) THEN e.on \cap Guards ELSE {})
                    BY <1>2, ConsAll
                <5> QED
                    BY <5>1, <1>6, <1>12, <2>1 DEF Covered
            <4> QED
                BY <4>1, <1>2, Kept
        <3> QED
            BY <3>1, <3>2, <3>3, <1>1, <1>2, <1>6 DEF Ready
    <2>2. CASE e.on # {m}
        <3>1. e.on \subseteq Guards /\ f.do = "take" /\ f.on = e.on \ {m} /\ f.on # {} /\ f.on # {Locking!Mutex} /\ f \in Steps
            <4>1. e.on \subseteq Guards
                BY <2>2, <1>3, <1>4
            <4>2. f.do = "take" /\ f.on = e.on \ {m}
                BY <1>a
            <4>3. f \in Steps
                BY <1>a, <1>2, <1>3 DEF Steps, Kinds
            <4> QED
                BY <4>1, <4>2, <4>3, <2>2, <1>4, Things
        <3>2. c = Cons(f, r)
            BY <2>2, <1>5 DEF Cons
        <3>3. TakesGuards(f) /\ ~DropsGuards(f) /\ ~MustCommit(f) /\ Form(f) /\ TakesGuards(e)
            BY <3>1, <1>1, Things DEF TakesGuards, DropsGuards, MustCommit, Form
        <3>4. Cons(f, r) \in Plans /\ Sound(Cons(f, r)) /\ (writer = t => Commits(Cons(f, r)))
            <4>1. Fits(f, r)
                BY <3>1, <3>3, <1>6 DEF Fits
            <4>2. Cons(f, r) \in Plans
                BY <3>1, <1>2, ConsFacts
            <4>3. Sound(Cons(f, r))
                BY <4>1, <3>1, <1>2, ConsAll
            <4>4. Commits(r) => Commits(Cons(f, r))
                BY <3>1, <3>3, <1>2, ConsAll
            <4> QED
                BY <4>2, <4>3, <4>4, <1>2
        <3>5. ASSUME NEW l \in Locking!Locks PROVE Level(Cons(f, r), l, Depths(t)'[l])
            <4>1. /\ Depths(t)'[l] - Delta(f, l) = Depths(t)[l] - Delta(e, l)
                  /\ Depths(t)'[l] \in 0..2 /\ LevelBound(f, l, Depths(t)'[l])
                BY <3>1, <1>1, <1>4, <1>8, <1>9 DEF Delta, LevelBound
            <4>2. Level(r, l, Depths(t)'[l] - Delta(f, l))
                BY <4>1, <1>2
            <4> QED
                BY <4>1, <4>2, <3>1, <1>2, ConsLevel
        <3>6. Uses(Cons(f, r), Covered(t)' \cup Taken(Cons(f, r)))
            <4>1. Taken(Cons(e, r)) = e.on /\ Taken(Cons(f, r)) = f.on
                <5>1. Taken(Cons(e, r)) = Taken(r) \cup (IF TakesGuards(e) THEN e.on \cap Guards ELSE {})
                    BY <1>2, ConsAll
                <5>2. Taken(Cons(f, r)) = Taken(r) \cup (IF TakesGuards(f) THEN f.on \cap Guards ELSE {})
                    BY <3>1, <1>2, ConsAll
                <5> QED
                    BY <5>1, <5>2, <3>1, <3>3, <1>6
            <4>2. (Covered(t) \cup e.on) \cap Guards \subseteq Covered(t)' \cup f.on
                BY <1>12, <3>1 DEF Covered
            <4>3. Uses(r, Covered(t)' \cup f.on)
                BY <4>1, <4>2, <1>2, Kept
            <4>4. Uses(r, Covered(t)' \cup Taken(Cons(f, r))) /\ f.do \notin {"write", "settle"}
                BY <4>1, <4>3, <3>1
            <4> QED
                BY <4>4, <3>1, <1>2, ConsAll
        <3>7. ASSUME t \notin strayed PROVE Climbs(Cons(f, r), Own(t)')
            <4>1. \A q \in e.on : q \in Own(t) \/ \A x \in Own(t) : x \in Guards /\ x < q
                BY <3>7, <3>3, <1>2, ConsAll
            <4>2. \A q \in f.on : q \in Own(t)' \/ \A x \in Own(t)' : x \in Guards /\ x < q
                <5>1. SUFFICES ASSUME NEW q \in f.on, q \notin Own(t), NEW x \in Own(t)' PROVE x \in Guards /\ x < q
                    BY <1>8
                <5>2. CASE x = m
                    <6>1. m <= q /\ m # q /\ m \in Guards /\ m \in Nat /\ q \in Nat
                        BY <3>1, <1>3, <1>4, <5>1
                    <6> QED
                        BY <5>2, <6>1
                <5>3. CASE x # m
                    BY <5>3, <5>1, <4>1, <3>1, <1>8
                <5> QED
                    BY <5>2, <5>3
            <4> QED
                BY <4>2, <3>1, <1>2, <1>6, ConsAll
        <3> QED
            BY <3>2, <3>4, <3>5, <3>6, <3>7, <1>1 DEF Ready
    <2> QED
        BY <2>1, <2>2
<1>14. \A l \in Locking!Locks : locks'[l] = locks[l] \/ (locks[l].owner \in {None, t} /\ locks'[l].owner \in {None, t})
    BY <1>1, <1>7 DEF LockInv, LocksOk
<1>15. writer' \in {None, t, writer} /\ strayed' \ {t} = strayed \ {t} /\ strayed' \subseteq Calls
       /\ memberOf' \in [Users -> Guards \cup {None}] /\ settled' \subseteq Guards
    BY <1>1 DEF LockInv
<1> HIDE DEF c
<1> QED
    BY <1>1, <1>10, <1>11, <1>13, <1>14, <1>15, Goes

LEMMA DropLockKeeps ==
    ASSUME LockInv, NEW t \in Calls, Locking!DropLock(t)
    PROVE  LockInv'
<1> DEFINE e == Head(todo[t])
           r == Tail(todo[t])
<1>1. /\ e.do = "drop" /\ todo[t] # <<>>
      /\ locks' = [l \in Locking!Locks |-> IF l \notin e.on THEN locks[l]
                               ELSE IF locks[l].depth = 1 THEN Locking!Unowned
                               ELSE [locks[l] EXCEPT !.depth = @ - 1]]
      /\ todo' = [todo EXCEPT ![t] = <<>> \o r]
      /\ UNCHANGED <<memberOf, writer, settled, strayed>>
    <2>1. todo' = [todo EXCEPT ![t] = <<>> \o Tail(@)] /\ todo \in [Calls -> Plans]
        BY DEF Locking!DropLock, Locking!Done, Locking!Instead, LockInv
    <2> QED
        BY <2>1 DEF Locking!DropLock, Locking!At, Locking!On
<1>2. /\ e \in Steps /\ r \in Plans /\ todo[t] = Cons(e, r)
      /\ Form(e) /\ Sound(r) /\ NoTake(r)
      /\ DropsGuards(e) => AllDrops(r)
      /\ \A l \in Locking!Locks : Level(r, l, Depths(t)[l] - Delta(e, l))
      /\ writer = t => ~DropsGuards(e) /\ Commits(r)
      /\ Uses(r, Covered(t) \cup Taken(Cons(e, r)))
    <2>1. ~Blank(e) /\ e.do \notin Ending /\ e.do # "resettle"
        BY <1>1 DEF Blank, Ending
    <2>2. /\ e \in Steps /\ r \in Plans /\ todo[t] = Cons(e, r)
          /\ Form(e) /\ Sound(r) /\ (Blank(e) \/ NoTake(r))
          /\ DropsGuards(e) => AllDrops(r)
          /\ \A l \in Locking!Locks : Level(r, l, Depths(t)[l] - Delta(e, l)) /\ LevelBound(e, l, Depths(t)[l])
          /\ writer = t => ~DropsGuards(e) /\ (e.do \in Ending \/ Commits(r))
          /\ Uses(r, Covered(t) \cup Taken(todo[t]))
        BY <1>1, <2>1, AtHead
    <2> QED
        BY <2>1, <2>2
<1>3. e.on \in SUBSET Locking!Locks /\ (e.on = {Locking!Mutex} \/ (e.on \subseteq Guards /\ DropsGuards(e)))
    BY <1>1, <1>2, Things DEF Form, Steps, DropsGuards
<1> HIDE DEF e, r
<1>4. NoTake(r) /\ Taken(r) = {} /\ \A own : Climbs(r, own)
    BY <1>2, Kept
<1>5. None \notin Calls
    BY LockParameters DEF Locking!Parameters
<1>6. locks \in [Locking!Locks -> [owner : Calls \cup {None}, depth : 0..2]] /\ \A l \in Locking!Locks : locks[l].owner = None <=> locks[l].depth = 0
    BY DEF LockInv, LocksOk
<1>7. \A l \in Locking!Locks : Depths(t)[l] = IF locks[l].owner = t THEN locks[l].depth ELSE 0
    BY DEF Depths
<1>8. ASSUME NEW l \in e.on PROVE locks[l].owner = t /\ locks[l].depth \in {1, 2}
    <2>1. Delta(e, l) = 1 /\ l \in Locking!Locks
        BY <1>1, <1>3 DEF Delta
    <2>2. Depths(t)[l] - Delta(e, l) \in 0..2
        BY <1>2, <2>1, LevelRange
    <2> QED
        BY <2>1, <2>2, <1>6, <1>7
<1>9. /\ \A l \in Locking!Locks \ e.on : locks'[l] = locks[l]
      /\ \A l \in e.on : locks'[l] = IF locks[l].depth = 1 THEN Locking!Unowned ELSE [owner |-> t, depth |-> 1]
    <2>1. ASSUME NEW l \in e.on, locks[l].depth # 1 PROVE [locks[l] EXCEPT !.depth = @ - 1] = [owner |-> t, depth |-> 1]
        <3>1. locks[l] \in [owner : Calls \cup {None}, depth : 0..2]
            BY <1>3, <1>6
        <3> QED
            BY <2>1, <3>1, <1>8
    <2> QED
        BY <2>1, <1>1, <1>3
<1>10. LocksOk'
    <2>1. \A l \in Locking!Locks : locks'[l] \in [owner : Calls \cup {None}, depth : 0..2] /\ (locks'[l].owner = None <=> locks'[l].depth = 0)
        BY <1>5, <1>6, <1>9 DEF Locking!Unowned
    <2>2. locks' \in [Locking!Locks -> [owner : Calls \cup {None}, depth : 0..2]]
        BY <1>1, <2>1
    <2> QED
        BY <2>1, <2>2 DEF LocksOk
<1>11. \A l \in Locking!Locks : Depths(t)'[l] = Depths(t)[l] - Delta(e, l)
    <2>1. \A l \in Locking!Locks : Depths(t)'[l] = IF locks'[l].owner = t THEN locks'[l].depth ELSE 0
        BY DEF Depths
    <2>2. ASSUME NEW l \in Locking!Locks \ e.on PROVE Depths(t)'[l] = Depths(t)[l] - Delta(e, l)
        <3>1. Delta(e, l) = 0 /\ Depths(t)'[l] = Depths(t)[l] /\ Depths(t)[l] \in Nat
            BY <2>1, <1>6, <1>7, <1>9, <2>2 DEF Delta
        <3> QED
            BY <3>1
    <2>3. ASSUME NEW l \in e.on PROVE Depths(t)'[l] = Depths(t)[l] - Delta(e, l)
        <3>1. Delta(e, l) = 1 /\ l \in Locking!Locks
            BY <1>1, <1>3 DEF Delta
        <3>2. Depths(t)[l] = locks[l].depth
            BY <3>1, <1>7, <1>8
        <3>3. Depths(t)'[l] = locks[l].depth - 1
            BY <3>1, <2>1, <1>5, <1>8, <1>9 DEF Locking!Unowned
        <3> QED
            BY <3>1, <3>2, <3>3
    <2> QED
        BY <2>2, <2>3
<1>12. Own(t) \cap Guards \subseteq Own(t)' \/ DropsGuards(e)
    BY <1>3, <1>9, Things DEF Own
<1>13. \A X : Uses(r, Covered(t)' \cup X)
    <2>1. SUFFICES ASSUME NEW X PROVE Uses(r, Covered(t)' \cup X)
        OBVIOUS
    <2>2. CASE DropsGuards(e)
        BY <2>2, <1>2, Kept
    <2>3. CASE ~DropsGuards(e)
        <3>1. Taken(Cons(e, r)) = {}
            <4>1. ~TakesGuards(e)
                BY <1>1 DEF TakesGuards
            <4>2. Taken(Cons(e, r)) = Taken(r) \cup (IF TakesGuards(e) THEN e.on \cap Guards ELSE {})
                BY <1>2, ConsAll
            <4> QED
                BY <4>1, <4>2, <1>4
        <3>2. Uses(r, Covered(t)) /\ Covered(t) \cap Guards \subseteq Covered(t)' \cup X
            <4>1. Covered(t)' = IF t \in strayed THEN Guards ELSE Own(t)'
                BY <1>1 DEF Covered
            <4>2. Covered(t) \cap Guards \subseteq Covered(t)' \cup X
                BY <4>1, <1>12, <2>3 DEF Covered
            <4>3. Covered(t) \cup Taken(Cons(e, r)) = Covered(t)
                BY <3>1
            <4> QED
                BY <4>2, <4>3, <1>2
        <3> QED
            BY <3>2, <1>2, Kept
    <2> QED
        BY <2>2, <2>3
<1>14. Ready(r, Depths(t)', Covered(t)')
    BY <1>2, <1>11, <1>13 DEF Ready
<1>15. SettledOk'
    <2>1. ASSUME NEW p \in settled, writer \in Calls, locks[p].owner = writer PROVE locks'[p].owner = writer
        <3>1. p \in Guards /\ p \in Locking!Locks
            BY Things DEF LockInv
        <3>2. CASE p \in e.on
            BY <3>1, <3>2, <1>2, <1>3, <1>8, <2>1, Things
        <3>3. CASE p \notin e.on
            BY <3>1, <3>3, <1>9, <2>1
        <3> QED
            BY <3>2, <3>3
    <2> QED
        BY <1>1, <2>1 DEF LockInv, SettledOk
<1>16. \A l \in Locking!Locks : locks'[l] = locks[l] \/ (locks[l].owner \in {None, t} /\ locks'[l].owner \in {None, t})
    BY <1>8, <1>9 DEF Locking!Unowned
<1>17. writer' \in {None, t, writer} /\ strayed' \ {t} = strayed \ {t} /\ strayed' \subseteq Calls
       /\ memberOf' \in [Users -> Guards \cup {None}] /\ settled' \subseteq Guards
    BY <1>1 DEF LockInv
<1>18. todo' = [todo EXCEPT ![t] = r]
    BY <1>1, <1>2, NoneJoined
<1> QED
    BY <1>1, <1>2, <1>4, <1>10, <1>14, <1>15, <1>16, <1>17, <1>18, Goes

\* What is left when a step is done that takes and drops nothing.
LEMMA RestReady ==
    ASSUME LockInv, NEW t \in Calls, todo[t] # <<>>, Head(todo[t]).do \notin {"take", "drop", "resettle"}
    PROVE  LET e == Head(todo[t])
               r == Tail(todo[t])
           IN /\ e \in Steps /\ r \in Plans /\ Form(e) /\ Ready(r, Depths(t), Covered(t))
              /\ Blank(e) \/ NoTake(r)
              /\ MustCommit(e) => Commits(r)
              /\ writer = t => e.do \in Ending \/ Commits(r)
              /\ t \notin strayed => Climbs(r, Own(t))
              /\ e.do \in {"write", "settle"} => e.on \subseteq Guards /\ e.on \subseteq Covered(t)
              /\ e.do \in {"settle", "depart"} => Depths(t)[Locking!Mutex] <= 1
<1> DEFINE e == Head(todo[t])
           r == Tail(todo[t])
<1>1. e.do # "take" /\ e.do # "drop" /\ e.do # "resettle"
    OBVIOUS
<1>2. /\ e \in Steps /\ r \in Plans /\ todo[t] = Cons(e, r)
      /\ Form(e) /\ Sound(r) /\ (Blank(e) \/ NoTake(r))
      /\ MustCommit(e) => Commits(r)
      /\ \A l \in Locking!Locks : Level(r, l, Depths(t)[l] - Delta(e, l)) /\ LevelBound(e, l, Depths(t)[l])
      /\ writer = t => ~DropsGuards(e) /\ (e.do \in Ending \/ Commits(r))
      /\ t \notin strayed => Climbs(todo[t], Own(t)) /\ Climbs(r, Own(t))
      /\ e.do \in {"write", "settle"} => e.on \subseteq Covered(t) \cup Taken(r)
      /\ Uses(r, Covered(t) \cup Taken(todo[t]))
    BY <1>1, AtHead
<1> HIDE DEF e, r
<1>3. Taken(todo[t]) = Taken(r)
    <2>1. ~TakesGuards(e)
        BY <1>1 DEF TakesGuards
    <2>2. Taken(Cons(e, r)) = Taken(r) \cup (IF TakesGuards(e) THEN e.on \cap Guards ELSE {})
        BY <1>2, ConsAll
    <2> QED
        BY <2>1, <2>2, <1>2
<1>4. ASSUME NEW l \in Locking!Locks PROVE Level(r, l, Depths(t)[l])
    <2>1. Delta(e, l) = 0 /\ Depths(t)[l] \in Nat
        BY <1>1 DEF Delta, Depths, LockInv, LocksOk
    <2>2. Depths(t)[l] - Delta(e, l) = Depths(t)[l]
        BY <2>1
    <2> QED
        BY <2>2, <1>2
<1>5. Ready(r, Depths(t), Covered(t))
    BY <1>2, <1>3, <1>4 DEF Ready
<1>6. e.do \in {"write", "settle"} => e.on \subseteq Guards /\ e.on \subseteq Covered(t)
    <2>1. Blank(e) => e.on = {}
        BY DEF Blank
    <2>2. NoTake(r) => Taken(r) = {}
        BY <1>2, Kept
    <2> QED
        BY <2>1, <2>2, <1>2 DEF Form
<1>7. e.do \in {"settle", "depart"} => Depths(t)[Locking!Mutex] <= 1
    BY <1>2, Things DEF LevelBound
<1> QED
    BY <1>2, <1>5, <1>6, <1>7 DEF e, r

\* Steps that leave the locks alone and end with what was left to do.
LEMMA DoneKeeps ==
    ASSUME LockInv, NEW t \in Calls, todo[t] # <<>>, Head(todo[t]).do \notin {"take", "drop", "resettle"},
           Locking!Done(t), locks' = locks, strayed' = strayed, writer' \in {None, t, writer},
           memberOf' \in [Users -> Guards \cup {None}], settled' \subseteq Guards, SettledOk',
           writer' = t => Commits(Tail(todo[t]))
    PROVE  LockInv'
<1> DEFINE r == Tail(todo[t])
<1>1. /\ r \in Plans /\ Ready(r, Depths(t), Covered(t))
      /\ t \notin strayed => Climbs(r, Own(t))
    BY RestReady
<1>2. todo' = [todo EXCEPT ![t] = r]
    <2>1. todo' = [todo EXCEPT ![t] = <<>> \o Tail(@)] /\ todo \in [Calls -> Plans]
        BY DEF Locking!Done, Locking!Instead, LockInv
    <2> QED
        BY <1>1, <2>1, NoneJoined
<1>3. Depths(t)' = Depths(t) /\ Own(t)' = Own(t) /\ Covered(t)' = Covered(t)
    BY DEF Depths, Own, Covered
<1>4. LocksOk'
    BY DEF LockInv, LocksOk
<1>5. strayed' \ {t} = strayed \ {t} /\ strayed' \subseteq Calls
    BY DEF LockInv
<1>6. \A l \in Locking!Locks : locks'[l] = locks[l]
    OBVIOUS
<1> HIDE DEF r
<1>7. Ready(r, Depths(t)', Covered(t)') /\ (t \notin strayed' => Climbs(r, Own(t)'))
    BY <1>1, <1>3
<1>8. writer' = t => Commits(r)
    BY DEF r
<1> QED
    BY <1>1, <1>2, <1>4, <1>5, <1>6, <1>7, <1>8, Goes

LEMMA FlushKeeps ==
    ASSUME LockInv, NEW t \in Calls, Locking!FlushBuffer(t)
    PROVE  LockInv'
<1>1. /\ todo[t] # <<>> /\ Head(todo[t]).do = "flush" /\ Locking!Done(t)
      /\ locks' = locks /\ strayed' = strayed /\ writer' = writer /\ memberOf' = memberOf /\ settled' = settled
    BY DEF Locking!FlushBuffer, Locking!At
<1>2. Head(todo[t]).do \notin Ending
    BY <1>1 DEF Ending
<1>3. writer' = t => Commits(Tail(todo[t]))
    BY <1>1, <1>2, RestReady
<1>4. SettledOk' /\ memberOf' \in [Users -> Guards \cup {None}] /\ settled' \subseteq Guards
    BY <1>1 DEF LockInv, SettledOk
<1> QED
    BY <1>1, <1>3, <1>4, DoneKeeps

LEMMA WriteKeeps ==
    ASSUME LockInv, NEW t \in Calls, Locking!WriteRows(t)
    PROVE  LockInv'
<1>1. /\ todo[t] # <<>> /\ Head(todo[t]).do = "write" /\ Locking!Done(t) /\ writer \in {None, t}
      /\ locks' = locks /\ strayed' = strayed /\ writer' = t /\ memberOf' = memberOf
      /\ settled' = settled \cup Head(todo[t]).on
    BY DEF Locking!WriteRows, Locking!At, Locking!On
<1>2. /\ Commits(Tail(todo[t])) /\ Head(todo[t]).on \subseteq Guards /\ Head(todo[t]).on \subseteq Covered(t)
    <2>1. MustCommit(Head(todo[t]))
        BY <1>1 DEF MustCommit
    <2> QED
        BY <1>1, <2>1, RestReady
<1>3. SettledOk'
    <2>1. ASSUME NEW p \in settled PROVE t \in strayed \/ locks[p].owner = t
        <3>1. writer \in Calls /\ (writer \in strayed \/ locks[p].owner = writer)
            BY DEF LockInv, SettledOk
        <3>2. None \notin Calls
            BY LockParameters DEF Locking!Parameters
        <3> QED
            BY <1>1, <3>1, <3>2
    <2>2. ASSUME NEW p \in Head(todo[t]).on PROVE t \in strayed \/ locks[p].owner = t
        BY <1>2 DEF Covered, Own
    <2> QED
        BY <1>1, <2>1, <2>2 DEF SettledOk
<1>4. memberOf' \in [Users -> Guards \cup {None}] /\ settled' \subseteq Guards
    BY <1>1, <1>2 DEF LockInv
<1> QED
    BY <1>1, <1>2, <1>3, <1>4, DoneKeeps

LEMMA EndsKeep ==
    ASSUME LockInv, NEW t \in Calls, todo[t] # <<>>, Head(todo[t]).do \in Ending,
           NEW members \in [Users -> Guards \cup {None}], Locking!Ends(t, members)
    PROVE  LockInv'
<1>1. /\ Locking!Done(t) /\ locks' = locks /\ strayed' = strayed /\ memberOf' = members
      /\ writer' = IF writer = t THEN None ELSE writer
      /\ settled' = IF writer = t THEN {} ELSE settled
    BY DEF Locking!Ends
<1>2. writer' # t /\ writer' \in {None, t, writer}
    BY <1>1, LockParameters DEF Locking!Parameters
<1>3. SettledOk' /\ settled' \subseteq Guards
    BY <1>1 DEF LockInv, SettledOk
<1>4. Head(todo[t]).do \notin {"take", "drop", "resettle"}
    BY DEF Ending
<1> QED
    BY <1>1, <1>2, <1>3, <1>4, DoneKeeps

LEMMA EndingsKeep ==
    ASSUME LockInv, NEW t \in Calls, Locking!CommitRows(t) \/ Locking!Joins(t) \/ Locking!Leaves(t) \/ Locking!Vanishes(t)
    PROVE  LockInv'
<1>1. memberOf \in [Users -> Guards \cup {None}]
    BY DEF LockInv
<1>2. CASE Locking!CommitRows(t)
    BY <1>1, <1>2, EndsKeep DEF Locking!CommitRows, Locking!At, Ending
<1>3. CASE Locking!Joins(t)
    <2>1. todo[t] # <<>> /\ Head(todo[t]).do = "join"
        BY <1>3 DEF Locking!Joins, Locking!At
    <2>2. PICK u \in Locking!Who(t) : IF memberOf[u] = None THEN Locking!Ends(t, [memberOf EXCEPT ![u] = Locking!First(t)]) ELSE Locking!Raise(t)
        BY <1>3 DEF Locking!Joins
    <2>3. Locking!First(t) \in Guards
        <3>1. Form(Head(todo[t]))
            BY <2>1, RestReady
        <3>2. PICK p \in Guards : Locking!On(t) = {p}
            BY <2>1, <3>1 DEF Form, Locking!On
        <3>3. {p} \in SUBSET Nat
            BY LockParameters DEF Locking!Parameters
        <3>4. Locking!Min({p}) \in {p}
            BY <3>3, Least
        <3> QED
            BY <3>2, <3>4 DEF Locking!First
    <2>4. CASE memberOf[u] = None
        <3>1. [memberOf EXCEPT ![u] = Locking!First(t)] \in [Users -> Guards \cup {None}]
            BY <1>1, <2>3
        <3> QED
            BY <2>1, <2>2, <2>4, <3>1, EndsKeep DEF Ending
    <2>5. CASE memberOf[u] # None
        BY <2>2, <2>5, RaiseKeeps
    <2> QED
        BY <2>4, <2>5
<1>4. CASE Locking!Leaves(t)
    <2> DEFINE members == [u \in Users |-> IF u \in Locking!Who(t) /\ memberOf[u] \in Locking!On(t) THEN None ELSE memberOf[u]]
    <2>1. members \in [Users -> Guards \cup {None}]
        BY <1>1
    <2>2. todo[t] # <<>> /\ Head(todo[t]).do \in Ending /\ Locking!Ends(t, members)
        BY <1>4 DEF Locking!Leaves, Locking!At, Ending
    <2> HIDE DEF members
    <2> QED
        BY <2>1, <2>2, EndsKeep
<1>5. CASE Locking!Vanishes(t)
    <2> DEFINE members == [u \in Users |-> IF u \in Locking!Who(t) THEN None ELSE memberOf[u]]
    <2>1. members \in [Users -> Guards \cup {None}]
        BY <1>1
    <2>2. todo[t] # <<>> /\ Head(todo[t]).do \in Ending /\ Locking!Ends(t, members)
        BY <1>5 DEF Locking!Vanishes, Locking!At, Ending
    <2> HIDE DEF members
    <2> QED
        BY <2>1, <2>2, EndsKeep
<1> QED
    BY <1>2, <1>3, <1>4, <1>5

\* Steps that put others before the rest of a plan.
LEMMA InsteadKeeps ==
    ASSUME LockInv, NEW t \in Calls, NEW c \in Plans, todo' = [todo EXCEPT ![t] = c],
           locks' = locks, writer' = writer, memberOf' = memberOf, settled' = settled,
           strayed' \in {strayed, strayed \cup {t}},
           Ready(c, Depths(t), Covered(t)'),
           writer = t => Commits(c),
           t \notin strayed' => Climbs(c, Own(t))
    PROVE  LockInv'
<1>1. Depths(t)' = Depths(t) /\ Own(t)' = Own(t)
    BY DEF Depths, Own
<1>2. LocksOk' /\ SettledOk'
    <2>1. strayed \subseteq strayed'
        OBVIOUS
    <2> QED
        BY <2>1 DEF LockInv, LocksOk, SettledOk
<1>3. strayed' \ {t} = strayed \ {t} /\ strayed' \subseteq Calls
      /\ memberOf' \in [Users -> Guards \cup {None}] /\ settled' \subseteq Guards /\ writer' \in {None, t, writer}
    BY DEF LockInv
<1>4. \A l \in Locking!Locks : locks'[l] = locks[l]
    OBVIOUS
<1>5. Ready(c, Depths(t)', Covered(t)') /\ (writer' = t => Commits(c)) /\ (t \notin strayed' => Climbs(c, Own(t)'))
    BY <1>1
<1> QED
    BY <1>2, <1>3, <1>4, <1>5, Goes

LEMMA SettleKeeps ==
    ASSUME LockInv, NEW t \in Calls, Locking!SettlePool(t)
    PROVE  LockInv'
<1> DEFINE e == Head(todo[t])
           r == Tail(todo[t])
           m == Locking!First(t)
           f == [e EXCEPT !.on = @ \ {m}]
           q == Locking!Others(t) \o r
           b == IF m \in Locking!PoolsOf(Users) THEN Locking!SettleSteps(m) ELSE <<>>
<1>1. /\ todo[t] # <<>> /\ e.do = "settle"
      /\ todo' = [todo EXCEPT ![t] = (b \o Locking!Others(t)) \o r]
      /\ UNCHANGED <<memberOf, locks, writer, settled, strayed>>
    <2>1. todo' = [todo EXCEPT ![t] = (b \o Locking!Others(t)) \o Tail(@)] /\ todo \in [Calls -> Plans]
        BY DEF Locking!SettlePool, Locking!Instead, LockInv
    <2> QED
        BY <2>1 DEF Locking!SettlePool, Locking!At
<1>2. /\ e \in Steps /\ r \in Plans /\ Form(e) /\ Held(r, Depths(t), Covered(t)) /\ Commits(r)
      /\ e.on \subseteq Guards /\ e.on # {} /\ e.on \subseteq Covered(t) /\ Depths(t)[Locking!Mutex] <= 1
    <2>1. ~Blank(e) /\ MustCommit(e) /\ e.do \notin {"take", "drop", "resettle"}
        BY <1>1 DEF Blank, MustCommit
    <2>2. /\ e \in Steps /\ r \in Plans /\ Form(e) /\ Ready(r, Depths(t), Covered(t))
          /\ Blank(e) \/ NoTake(r)
          /\ MustCommit(e) => Commits(r)
          /\ e.do \in {"write", "settle"} => e.on \subseteq Guards /\ e.on \subseteq Covered(t)
          /\ e.do \in {"settle", "depart"} => Depths(t)[Locking!Mutex] <= 1
        BY <1>1, <2>1, RestReady
    <2>3. e.on # {}
        BY <2>2, <1>1 DEF Form
    <2> QED
        BY <1>1, <2>1, <2>2, <2>3 DEF Held
<1>3. m \in e.on
    <2>1. Guards \subseteq Nat
        BY LockParameters DEF Locking!Parameters
    <2> QED
        BY <1>2, <2>1, Least DEF Locking!First, Locking!On
<1>4. Locking!Others(t) = IF e.on = {m} THEN <<>> ELSE <<f>>
    BY DEF Locking!Others, Locking!On
<1> HIDE DEF e, r, m
<1>5. f = Locking!Step("settle", e.on \ {m}, e.who)
    <2>1. e \in [do : Kinds, on : SUBSET Locking!Locks, who : SUBSET Users] /\ e.do = "settle"
        BY <1>1, <1>2 DEF Steps
    <2> QED
        BY <2>1 DEF Locking!Step
<1>6. Depths(t) \in [Locking!Locks -> 0..2]
    BY DepthsType DEF LockInv
<1>7. /\ q \in Plans /\ Held(q, Depths(t), Covered(t)) /\ Commits(q)
      /\ Locking!Others(t) \in Plans
    <2>1. CASE e.on = {m}
        BY <2>1, <1>2, <1>4, NoneJoined, EmptyAll
    <2>2. CASE e.on # {m}
        <3>1. f \in Steps /\ f.do = "settle" /\ f.on = e.on \ {m} /\ f.on # {}
            BY <2>2, <1>2, <1>3, <1>5 DEF Steps, Locking!Step, Kinds
        <3>2. q = Cons(f, r) /\ Locking!Others(t) \in Plans
            BY <2>2, <1>4, <3>1 DEF Cons, Plans
        <3> HIDE DEF f, q
        <3>3. Form(f) /\ f.do \notin Ending
            BY <3>1, <1>2 DEF Form, Ending
        <3>4. Cons(f, r) \in Plans /\ Held(Cons(f, r), Depths(t), Covered(t)) /\ (Commits(Cons(f, r)) <=> f.do \in Ending \/ Commits(r))
            BY <1>2, <1>6, <3>1, <3>3, AddsOne
        <3> QED
            BY <3>2, <3>4, <1>2
    <2> QED
        BY <2>1, <2>2
<1> HIDE DEF f
<1>8. (b \o Locking!Others(t)) \o r = b \o q /\ b \o q \in Plans /\ Held(b \o q, Depths(t), Covered(t)) /\ Commits(b \o q)
    <2>1. m \in Guards /\ m \in Covered(t)
        BY <1>2, <1>3
    <2> DEFINE g == q
               o == Locking!Others(t)
    <2>2. g \in Plans /\ Held(g, Depths(t), Covered(t)) /\ Commits(g) /\ o \in Plans /\ g = o \o r
        BY <1>7
    <2> HIDE DEF g, o
    <2>3. /\ Locking!SettleSteps(m) \in Plans /\ Locking!SettleSteps(m) \o g \in Plans
          /\ Held(Locking!SettleSteps(m) \o g, Depths(t), Covered(t)) /\ Commits(Locking!SettleSteps(m) \o g)
        BY <1>2, <1>6, <2>1, <2>2, Settles
    <2>4. b \in Plans /\ b \o g \in Plans /\ Held(b \o g, Depths(t), Covered(t)) /\ Commits(b \o g)
        BY <2>2, <2>3, NoneJoined, EmptyAll
    <2>5. (b \o o) \o r = b \o (o \o r)
        <3> DEFINE z == b
        <3>1. z \in Seq(Steps) /\ o \in Seq(Steps) /\ r \in Seq(Steps)
            BY <2>2, <2>4, <1>2 DEF Plans
        <3> HIDE DEF z
        <3>2. (z \o o) \o r = z \o (o \o r)
            BY <3>1, ConcatAssociative
        <3> QED
            BY <3>2 DEF z
    <2> QED
        BY <2>2, <2>4, <2>5 DEF g, o
<1> DEFINE c == b \o q
<1>9. /\ c \in Plans /\ todo' = [todo EXCEPT ![t] = c] /\ Held(c, Depths(t), Covered(t)) /\ Commits(c)
    BY <1>1, <1>8
<1> HIDE DEF c
<1>10. Covered(t)' = Covered(t)
    BY <1>1 DEF Covered, Own
<1>11. Ready(c, Depths(t), Covered(t)') /\ Climbs(c, Own(t))
    BY <1>9, <1>10, Kept DEF Held
<1> QED
    BY <1>1, <1>9, <1>11, InsteadKeeps

\* Nobody who has not strayed settles a pool whose guard they have not got.
LEMMA StraysCover ==
    ASSUME LockInv, NEW t \in Calls, NEW S \in SUBSET Guards, Locking!Strays(t, S), locks' = locks
    PROVE  /\ strayed' \in {strayed, strayed \cup {t}}
           /\ S \subseteq Covered(t)' /\ (t \notin strayed' => S \subseteq Own(t))
           /\ Covered(t) \cap Guards \subseteq Covered(t)'
<1>1. strayed' = IF \E p \in S : locks[p].owner # t THEN strayed \cup {t} ELSE strayed
    BY DEF Locking!Strays
<1>2. Own(t)' = Own(t) /\ S \subseteq Locking!Locks
    BY Things DEF Own
<1>3. t \notin strayed' => S \subseteq Own(t)
    BY <1>1, <1>2 DEF Own
<1> QED
    BY <1>1, <1>2, <1>3 DEF Covered

LEMMA DepartKeeps ==
    ASSUME LockInv, NEW t \in Calls, Locking!Departs(t)
    PROVE  LockInv'
<1> DEFINE e == Head(todo[t])
           r == Tail(todo[t])
           S == Locking!PoolsOf(Locking!Who(t))
           b == IF S = {} THEN <<>> ELSE <<Locking!Settle(S)>>
<1>1. /\ todo[t] # <<>> /\ e.do = "depart"
      /\ todo' = [todo EXCEPT ![t] = b \o r]
      /\ Locking!Strays(t, S) /\ UNCHANGED <<memberOf, locks, writer, settled>>
    <2>1. todo' = [todo EXCEPT ![t] = b \o Tail(@)] /\ todo \in [Calls -> Plans]
        BY DEF Locking!Departs, Locking!Instead, LockInv
    <2> QED
        BY <2>1 DEF Locking!Departs, Locking!At
<1>2. /\ e \in Steps /\ r \in Plans /\ Held(r, Depths(t), Covered(t)) /\ Commits(r) /\ Depths(t)[Locking!Mutex] <= 1
    <2>1. ~Blank(e) /\ MustCommit(e)
        BY <1>1 DEF Blank, MustCommit
    <2>2. /\ e \in Steps /\ r \in Plans /\ Ready(r, Depths(t), Covered(t))
          /\ Blank(e) \/ NoTake(r)
          /\ MustCommit(e) => Commits(r)
          /\ e.do \in {"settle", "depart"} => Depths(t)[Locking!Mutex] <= 1
        BY <1>1, RestReady
    <2> QED
        BY <1>1, <2>1, <2>2 DEF Held
<1>3. S \in SUBSET Guards
    <2>1. Locking!Who(t) \in SUBSET Users
        BY <1>2 DEF Locking!Who, Steps
    <2> QED
        BY <2>1 DEF LockInv, Locking!PoolsOf
<1>4. Depths(t) \in [Locking!Locks -> 0..2]
    BY DepthsType DEF LockInv
<1> HIDE DEF e, r, S
<1>5. /\ strayed' \in {strayed, strayed \cup {t}}
      /\ S \subseteq Covered(t)' /\ (t \notin strayed' => S \subseteq Own(t))
      /\ Covered(t) \cap Guards \subseteq Covered(t)'
    BY <1>1, <1>3, StraysCover
<1>6. Held(r, Depths(t), Covered(t)')
    <2>1. Taken(r) = {} /\ Uses(r, Covered(t)) /\ Sound(r)
        <3>1. Taken(r) = {}
            BY <1>2, Kept DEF Held
        <3>2. Covered(t) \cup Taken(r) = Covered(t)
            BY <3>1
        <3> QED
            BY <1>2, <3>1, <3>2 DEF Held, Ready
    <2>2. Uses(r, Covered(t)' \cup Taken(r))
        <3>1. Covered(t) \cap Guards \subseteq Covered(t)' \cup Taken(r)
            BY <1>5
        <3> QED
            BY <2>1, <3>1, <1>2, Kept
    <2> QED
        BY <2>2, <1>2 DEF Held, Ready
<1>7. b \o r \in Plans /\ Held(b \o r, Depths(t), Covered(t)') /\ Commits(b \o r)
    <2>1. CASE S = {}
        BY <2>1, <1>2, <1>6, NoneJoined
    <2>2. CASE S # {}
        <3>1. b \o r = Cons(Locking!Step("settle", S, {}), r)
            BY <2>2 DEF Cons, Locking!Settle
        <3>2. LET c == Cons(Locking!Step("settle", S, {}), r) IN c \in Plans /\ Held(c, Depths(t), Covered(t)') /\ Commits(c)
            BY <2>2, <1>2, <1>3, <1>4, <1>5, <1>6, AddsWrite
        <3> QED
            BY <3>1, <3>2
    <2> QED
        BY <2>1, <2>2
<1> DEFINE c == b \o r
<1>8. c \in Plans /\ todo' = [todo EXCEPT ![t] = c] /\ Held(c, Depths(t), Covered(t)') /\ Commits(c)
    BY <1>1, <1>7
<1> HIDE DEF c
<1>9. Ready(c, Depths(t), Covered(t)') /\ Climbs(c, Own(t))
    BY <1>8, Kept DEF Held
<1> QED
    BY <1>1, <1>5, <1>8, <1>9, InsteadKeeps

\* resettle_pools, alone or inside a purge.
LEMMA ResettleFits ==
    ASSUME NEW s \in Plans, NEW D \in [Locking!Locks -> 0..2], NEW X, Held(s, D, X), AllDrops(s), NEW S \in SUBSET Guards, S # {},
           \A l \in Locking!Locks : D[l] <= 1
    PROVE  LET c == Locking!Resettle(S) \o s
           IN /\ c \in Plans /\ Ready(c, D, X) /\ Commits(c)
              /\ \A own : (\A q \in S : q \in own \/ \A m \in own : m \in Guards /\ m < q) => Climbs(c, own)
<1> DEFINE E == Raised(D, S)
           d == Cons(Locking!Step("drop", S, {}), s)
           k == Cons(Locking!Commit, d)
           w == Cons(Locking!Settle(S), k)
<1>1. S \in SUBSET Locking!Locks /\ Locking!Mutex \notin S /\ Locking!Commit \in Steps /\ Locking!Settle(S) \in Steps /\ {} \in SUBSET Users
    BY Things
<1>2. E \in [Locking!Locks -> 0..2] /\ \A l \in Locking!Locks : E[l] = IF l \in S THEN D[l] + 1 ELSE D[l]
    <2>1. \A l \in S : D[l] <= 1
        BY <1>1
    <2> QED
        BY <2>1, <1>1, RaisedType
<1> HIDE DEF E
<1>3. Held(s, D, S)
    <2>1. Uses(s, S \cup Taken(s))
        BY Kept
    <2> QED
        BY <2>1 DEF Held, Ready
<1>4. d \in Plans /\ Held(d, E, S)
    BY <1>1, <1>2, <1>3, AddsDrop
<1> HIDE DEF d
<1>5. k \in Plans /\ Held(k, E, S) /\ Commits(k)
    BY <1>1, <1>2, <1>4, AddsEnd DEF Locking!Commit, Ending
<1> HIDE DEF k
<1>6. w \in Plans /\ Held(w, E, S) /\ Commits(w)
    <2>1. E[Locking!Mutex] <= 1
        BY <1>1, <1>2, Things
    <2> QED
        BY <1>2, <1>5, <2>1, AddsWrite DEF Locking!Settle
<1>7. Locking!Resettle(S) \o s = Cons(Locking!Step("take", S, {}), w)
    <2>1. <<Locking!Settle(S), Locking!Commit>> \in Plans
        BY <1>1, EmptyAll, JoinedTwo
    <2>2. Locking!Resettle(S) \o s = Cons(Locking!Step("take", S, {}), <<Locking!Settle(S), Locking!Commit>> \o d)
        BY <1>1, <2>1, Encloses DEF Locking!Resettle, d
    <2>3. <<Locking!Settle(S), Locking!Commit>> \o d = Cons(Locking!Settle(S), Cons(Locking!Commit, d))
        BY <1>1, <1>4, JoinedTwo
    <2> QED
        BY <2>2, <2>3 DEF k
<1> HIDE DEF w
<1>8. LET c == Cons(Locking!Step("take", S, {}), w)
      IN /\ c \in Plans /\ Ready(c, D, X) /\ (Commits(c) <=> Commits(w))
         /\ \A own : (\A q \in S : q \in own \/ \A m \in own : m \in Guards /\ m < q) => Climbs(c, own)
    <2>1. S \subseteq X \cup (S \cap Guards)
        OBVIOUS
    <2> QED
        BY <1>1, <1>2, <1>6, <2>1, AddsTake
<1> QED
    BY <1>6, <1>7, <1>8

LEMMA ResettleKeeps ==
    ASSUME LockInv, NEW t \in Calls, Locking!ResettlePools(t)
    PROVE  LockInv'
<1> DEFINE e == Head(todo[t])
           r == Tail(todo[t])
           S == Locking!PoolsOf(Locking!Who(t))
           b == IF S = {} THEN <<>> ELSE Locking!Resettle(S)
           c == b \o r
<1>1. /\ todo[t] # <<>> /\ e.do = "resettle"
      /\ todo' = [todo EXCEPT ![t] = c]
      /\ IF locks[Locking!Mutex].owner = t THEN Locking!Strays(t, S) ELSE strayed' = strayed
      /\ UNCHANGED <<memberOf, locks, writer, settled>>
    <2>1. todo' = [todo EXCEPT ![t] = b \o Tail(@)] /\ todo \in [Calls -> Plans]
        BY DEF Locking!ResettlePools, Locking!Instead, LockInv
    <2> QED
        BY <2>1 DEF Locking!ResettlePools, Locking!At
<1>2. e \in Steps /\ r \in Plans /\ todo[t] = Cons(e, r)
    <2>1. todo[t] \in Plans
        BY DEF LockInv
    <2> QED
        BY <1>1, <2>1, Uncons
<1>3. S \in SUBSET Guards
    <2>1. Locking!Who(t) \in SUBSET Users
        BY <1>2 DEF Locking!Who, Steps
    <2> QED
        BY <2>1 DEF LockInv, Locking!PoolsOf
<1>4. Depths(t) \in [Locking!Locks -> 0..2]
    BY DepthsType DEF LockInv
<1>a. Alone(t) => r = <<>>
    <2>1. ASSUME NEW V \in SUBSET Users, todo[t] = <<Locking!Step("resettle", {}, V)>> PROVE r = <<>>
        BY <2>1
    <2> QED
        BY <2>1 DEF Alone
<1> HIDE DEF e, r, S
<1>5. CASE Alone(t)
    <2>1. r = <<>> /\ Own(t) = {} /\ writer # t
        BY <1>5, <1>a DEF Alone
    <2>2. strayed' = strayed
        BY <2>1, <1>1, Things DEF Own
    <2>3. Depths(t) = Zero
        BY <2>1 DEF Depths, Own, Zero
    <2>4. c \in Plans /\ Ready(c, Zero, Covered(t)') /\ Climbs(c, {})
        <3>1. CASE S = {}
            BY <3>1, <2>1, NoneJoined, EmptyAll, ZeroHeld DEF Held
        <3>2. CASE S # {}
            <4>1. c = Locking!Resettle(S) \o r
                BY <3>2
            <4>2. r \in Plans /\ Held(r, Zero, Covered(t)') /\ AllDrops(r) /\ \A l \in Locking!Locks : Zero[l] <= 1
                BY <2>1, EmptyAll, ZeroHeld
            <4>3. Locking!Resettle(S) \o r \in Plans /\ Ready(Locking!Resettle(S) \o r, Zero, Covered(t)')
                BY <3>2, <4>2, <1>3, ZeroHeld, ResettleFits
            <4> QED
                BY <4>1, <4>3, Kept
        <3> QED
            BY <3>1, <3>2
    <2> HIDE DEF c
    <2> QED
        BY <1>1, <2>1, <2>2, <2>3, <2>4, InsteadKeeps
<1>6. CASE ~Alone(t)
    <2>1. Orderly(t)
        BY <1>6 DEF LockInv
    <2>2. /\ Sound(r) /\ Fits(e, r) /\ (writer = t => Commits(r))
          /\ Uses(r, Covered(t) \cup Taken(Cons(e, r)))
        <3>1. Sound(Cons(e, r)) /\ (writer = t => Commits(Cons(e, r)))
              /\ Uses(Cons(e, r), Covered(t) \cup Taken(Cons(e, r)))
            BY <2>1, <1>2 DEF Orderly, Ready
        <3>2. e.do \notin Ending
            BY <1>1 DEF Ending
        <3>3. Sound(r) /\ Fits(e, r)
            BY <3>1, <1>2, ConsAll
        <3>4. writer = t => Commits(r)
            BY <3>1, <3>2, <1>2, ConsAll
        <3> QED
            BY <3>1, <3>3, <3>4, <1>2, ConsAll
    <2>3. AllDrops(r) /\ NoTake(r)
        <3>1. AllDrops(r)
            BY <2>2, <1>1 DEF Fits
        <3> QED
            BY <3>1, <1>2, Kept
    <2>4. ASSUME NEW l \in Locking!Locks PROVE Level(r, l, Depths(t)[l]) /\ LevelBound(e, l, Depths(t)[l])
        <3>1. Level(Cons(e, r), l, Depths(t)[l])
            BY <2>1, <1>2 DEF Orderly, Ready
        <3>2. LevelBound(e, l, Depths(t)[l]) /\ Level(r, l, Depths(t)[l] - Delta(e, l))
            BY <3>1, <1>2, ConsLevel
        <3>3. Depths(t)[l] - Delta(e, l) = Depths(t)[l]
            <4>1. Delta(e, l) = 0 /\ Depths(t)[l] \in 0..2
                BY <1>1, <1>4 DEF Delta
            <4> QED
                BY <4>1
        <3> QED
            BY <3>2, <3>3
    <2>5. Depths(t)[Locking!Mutex] = 1 /\ \A l \in Locking!Locks : Depths(t)[l] <= 1
        <3>1. \A l \in Locking!Locks : IF l = Locking!Mutex THEN Depths(t)[l] = 1 ELSE Depths(t)[l] <= 1
            BY <2>4, <1>1 DEF LevelBound
        <3> QED
            BY <3>1, <1>4, Things
    <2>6. locks[Locking!Mutex].owner = t
        BY <2>5, Things DEF Depths
    <2>7. /\ strayed' \in {strayed, strayed \cup {t}} /\ (t \notin strayed' => S \subseteq Own(t))
        BY <2>6, <1>1, <1>3, StraysCover
    <2>8. Held(r, Depths(t), Covered(t)')
        <3>1. Uses(r, Covered(t)' \cup Taken(r))
            BY <2>3, <1>2, Kept
        <3> QED
            BY <3>1, <2>2, <2>3, <2>4 DEF Held, Ready
    <2>9. c \in Plans /\ Ready(c, Depths(t), Covered(t)') /\ (writer = t => Commits(c)) /\ (t \notin strayed' => Climbs(c, Own(t)))
        <3>1. CASE S = {}
            <4>1. c = r
                BY <3>1, <1>2, NoneJoined
            <4>2. Climbs(r, Own(t))
                BY <2>3, <1>2, Kept
            <4> QED
                BY <4>1, <4>2, <2>2, <2>8, <1>2 DEF Held
        <3>2. CASE S # {}
            <4>1. c = Locking!Resettle(S) \o r
                BY <3>2
            <4>2. /\ Locking!Resettle(S) \o r \in Plans /\ Ready(Locking!Resettle(S) \o r, Depths(t), Covered(t)') /\ Commits(Locking!Resettle(S) \o r)
                  /\ \A own : (\A q \in S : q \in own \/ \A m \in own : m \in Guards /\ m < q) => Climbs(Locking!Resettle(S) \o r, own)
                BY <3>2, <2>3, <2>5, <2>8, <1>2, <1>3, <1>4, ResettleFits
            <4> QED
                BY <4>1, <4>2, <2>7
        <3> QED
            BY <3>1, <3>2
    <2> HIDE DEF c
    <2> QED
        BY <1>1, <2>7, <2>9, InsteadKeeps
<1> QED
    BY <1>5, <1>6

-----------------------------------------------------------------------------
LEMMA LockInvHolds == Locking!Spec => []LockInv
<1>1. Locking!Init => LockInv
    <2>1. SUFFICES ASSUME Locking!Init PROVE LockInv
        OBVIOUS
    <2>2. LocksOk
        BY <2>1 DEF Locking!Init, LocksOk, Locking!Unowned
    <2>3. todo \in [Calls -> Plans] /\ \A t \in Calls : todo[t] = <<>>
        BY <2>1, EmptyAll DEF Locking!Init
    <2>4. ASSUME NEW t \in Calls PROVE Orderly(t)
        <3>1. None \notin Calls
            BY LockParameters DEF Locking!Parameters
        <3>2. Depths(t) = Zero /\ Own(t) = {} /\ writer # t
            BY <2>1, <3>1 DEF Locking!Init, Depths, Own, Zero, Locking!Unowned
        <3>3. Ready(<<>>, Zero, Covered(t)) /\ Climbs(<<>>, {})
            BY ZeroHeld, EmptyAll DEF Held
        <3> QED
            BY <2>3, <3>2, <3>3 DEF Orderly
    <2>5. SettledOk
        BY <2>1 DEF Locking!Init, SettledOk
    <2> QED
        BY <2>1, <2>2, <2>3, <2>4, <2>5 DEF Locking!Init, LockInv
<1>2. LockInv /\ [Locking!Next]_(Locking!vars) => LockInv'
    <2>1. SUFFICES ASSUME LockInv, [Locking!Next]_(Locking!vars) PROVE LockInv'
        OBVIOUS
    <2>2. CASE UNCHANGED Locking!vars
        BY <2>1, <2>2 DEF Locking!vars, LockInv, LocksOk, SettledOk, Alone, Orderly, Ready, Own, Depths, Covered
    <2>3. ASSUME NEW t \in Calls, Locking!Request(t) PROVE LockInv'
        BY <2>1, <2>3, RequestKeeps
    <2>4. ASSUME NEW t \in Calls, Locking!Proceed(t) PROVE LockInv'
        <3>1. CASE Locking!TakeLock(t)
            BY <2>1, <3>1, TakeKeeps
        <3>2. CASE Locking!DropLock(t)
            BY <2>1, <3>2, DropLockKeeps
        <3>3. CASE Locking!FlushBuffer(t)
            BY <2>1, <3>3, FlushKeeps
        <3>4. CASE Locking!WriteRows(t)
            BY <2>1, <3>4, WriteKeeps
        <3>5. CASE Locking!Busy(t)
            BY <2>1, <3>5, RaiseKeeps DEF Locking!Busy
        <3>6. CASE Locking!CommitRows(t) \/ Locking!Joins(t) \/ Locking!Leaves(t) \/ Locking!Vanishes(t)
            BY <2>1, <3>6, EndingsKeep
        <3>7. CASE Locking!SettlePool(t)
            BY <2>1, <3>7, SettleKeeps
        <3>8. CASE Locking!Departs(t)
            BY <2>1, <3>8, DepartKeeps
        <3>9. CASE Locking!ResettlePools(t)
            BY <2>1, <3>9, ResettleKeeps
        <3> QED
            BY <2>4, <3>1, <3>2, <3>3, <3>4, <3>5, <3>6, <3>7, <3>8, <3>9 DEF Locking!Proceed
    <2> QED
        BY <2>1, <2>2, <2>3, <2>4 DEF Locking!Next
<1> QED
    BY <1>1, <1>2, PTL DEF Locking!Spec

LEMMA NoCircle ==
    ASSUME LockInv, strayed = {}, Locking!Deadlock
    PROVE  FALSE
<1>1. PICK S \in (SUBSET Calls) \ {{}} : \A t \in S : Locking!Awaits(t) \in S
    BY DEF Locking!Deadlock
<1>2. None \notin S /\ IsFiniteSet(S)
    <2>1. IsFiniteSet(S)
        <3>1. IsFiniteSet(Calls)
            BY LockParameters DEF Locking!Parameters, Locking!IsFiniteSet, IsFiniteSet
        <3> QED
            BY <1>1, <3>1, FS_Subset
    <2> QED
        BY <1>1, <2>1, LockParameters DEF Locking!Parameters
\* What someone in the circle waits for.
<1>3. ASSUME NEW t \in S
      PROVE  LET on == Head(todo[t]).on
                 m == Locking!First(t)
             IN /\ m \in Locking!Locks /\ locks[m].owner = Locking!Awaits(t) /\ Locking!Awaits(t) \in S /\ Locking!Awaits(t) # t /\ m \in on
                /\ on = {Locking!Mutex} \/ \A q \in Own(t) : q \in Guards /\ q < m
    <2> DEFINE e == Head(todo[t])
               m == Locking!First(t)
               r == Tail(todo[t])
    <2>1. t \in Calls /\ Locking!Awaits(t) # None
        BY <1>1, <1>2
    <2>2. Locking!At(t, "take") /\ locks[m].owner \notin {None, t} /\ Locking!Awaits(t) = locks[m].owner
        BY <2>1 DEF Locking!Awaits
    <2>3. e.do = "take" /\ todo[t] # <<>>
        BY <2>2 DEF Locking!At
    <2>4. e \in Steps /\ r \in Plans /\ todo[t] = Cons(e, r) /\ Form(e) /\ Climbs(todo[t], Own(t))
        <3>1. e.do # "resettle"
            BY <2>3
        <3> QED
            BY <2>1, <2>3, <3>1, AtHead
    <2>5. e.on \in SUBSET Locking!Locks /\ e.on # {} /\ (e.on = {Locking!Mutex} \/ e.on \subseteq Guards)
        BY <2>3, <2>4 DEF Form, Steps
    <2>6. m \in e.on
        <3>1. Locking!Locks \subseteq Nat
            BY LockParameters DEF Locking!Parameters, Locking!Locks, Locking!Mutex
        <3>2. e.on \in SUBSET Nat
            BY <3>1, <2>5
        <3> QED
            BY <2>5, <3>2, Least DEF Locking!First, Locking!On
    <2> HIDE DEF e, m, r
    <2>7. e.on # {Locking!Mutex} => \A q \in e.on : q \in Own(t) \/ \A x \in Own(t) : x \in Guards /\ x < q
        <3>1. e.on # {Locking!Mutex} => TakesGuards(e)
            BY <2>3 DEF TakesGuards
        <3>2. Climbs(Cons(e, r), Own(t))
            BY <2>4
        <3> QED
            BY <3>1, <3>2, <2>4, ConsAll
    <2>8. m \notin Own(t)
        BY <2>2 DEF Own
    <2>9. e.on # {Locking!Mutex} => \A q \in Own(t) : q \in Guards /\ q < m
        BY <2>6, <2>7, <2>8
    <2> QED
        BY <1>1, <2>2, <2>5, <2>6, <2>9 DEF e, m
\* Nobody in it waits for the mutex, whose owner would have to wait for a guard.
<1>4. ASSUME NEW t \in S PROVE \A q \in Own(t) : q \in Guards /\ q < Locking!First(t)
    <2>1. CASE Head(todo[t]).on = {Locking!Mutex}
        <3> DEFINE u == Locking!Awaits(t)
        <3>1. Locking!First(t) = Locking!Mutex /\ locks[Locking!Mutex].owner = u /\ u \in S /\ u # t
            BY <2>1, <1>3
        <3>2. Locking!Mutex \in Own(u) /\ Locking!Mutex \notin Guards
            BY <3>1, Things DEF Own
        <3>3. Head(todo[u]).on = {Locking!Mutex}
            BY <3>1, <3>2, <1>3
        <3>4. Locking!First(u) = Locking!Mutex /\ locks[Locking!First(u)].owner = Locking!Awaits(u) /\ Locking!Awaits(u) # u
            BY <3>1, <3>3, <1>3
        <3> QED
            BY <3>1, <3>4
    <2>2. CASE Head(todo[t]).on # {Locking!Mutex}
        BY <2>2, <1>3
    <2> QED
        BY <2>1, <2>2
<1>5. ASSUME NEW t \in S PROVE Locking!First(t) \in Int /\ Locking!First(t) < Locking!First(Locking!Awaits(t))
    <2>1. Locking!Locks \subseteq Int
        BY LockParameters DEF Locking!Parameters, Locking!Locks, Locking!Mutex
    <2>2. Locking!First(t) \in Own(Locking!Awaits(t)) /\ Locking!Awaits(t) \in S
        BY <1>3 DEF Own
    <2> QED
        BY <2>1, <2>2, <1>3, <1>4
\* The one that waits for the last guard waits for one that waits for a later guard.
<1> DEFINE After(t) == {v \in S : Locking!First(t) < Locking!First(v)}
           Bad == {After(t) : t \in S}
<1>6. Bad \in Families(S) /\ Bad # {}
    <2>1. S # {} /\ \A t \in S : After(t) \in SUBSET S
        BY <1>1
    <2> QED
        BY <2>1 DEF Families
<1> HIDE DEF Bad
<1>7. PICK s \in Bad : \A r \in Bad : ~ (r \subseteq s /\ r # s)
    BY <1>2, <1>6, Smallest
<1> USE DEF Bad
<1>8. PICK t \in S : s = After(t)
    BY <1>7
<1>9. Locking!Awaits(t) \in S /\ Locking!First(t) < Locking!First(Locking!Awaits(t)) /\ Locking!First(t) \in Int /\ Locking!First(Locking!Awaits(t)) \in Int
    <2>1. Locking!Awaits(t) \in S
        BY <1>3
    <2> QED
        BY <2>1, <1>5
<1>10. After(Locking!Awaits(t)) \subseteq s /\ Locking!Awaits(t) \in s /\ Locking!Awaits(t) \notin After(Locking!Awaits(t))
    BY <1>5, <1>8, <1>9
<1> QED
    BY <1>7, <1>9, <1>10

-----------------------------------------------------------------------------
LEMMA LocksInQuota == MCSpec => Locking!Spec
<1>1. MCInit => Locking!Init
  BY DEF MCInit
<1>2. [MCNext]_<<vars, settlement, locking, part>> => [Locking!Next]_(Locking!vars)
  BY DEF MCNext, locking, Locking!vars
<1> QED
  BY <1>1, <1>2, PTL DEF MCSpec, Locking!Spec

\* For any number of requests, users and pools: tasks wait for each other in a circle only
\* after one met a pool whose guard it had not taken (pool_guard, pause_flush,
\* resettle_pools); and every lock is owned exactly while its depth is above 0, at most 2.
THEOREM WaitsInOrder == MCSpec => []DeadlockOnlyByStraying
<1>1. LockInv => Locking!TypeOK /\ Locking!DeadlockOnlyByStraying
  BY NoCircle DEF LockInv, LocksOk, Locking!TypeOK, Locking!DeadlockOnlyByStraying
<1>2. LockInv => DeadlockOnlyByStraying
  BY <1>1 DEF DeadlockOnlyByStraying
<1> QED
  BY <1>2, LocksInQuota, LockInvHolds, PTL

\* For any number of requests, users and pools: what a transaction has settled is still under
\* its pool's guard until the commit, unless its task met a pool it had not guarded.
THEOREM GuardedUntilCommit == MCSpec => []SettledUnderGuard
<1>1. LockInv => SettledUnderGuard
  BY DEF LockInv, SettledOk, Locking!SettledUnderGuard, SettledUnderGuard
<1> QED
  BY <1>1, LocksInQuota, LockInvHolds, PTL
=============================================================================
