-------------------------- MODULE ParaReviewProofs ---------------------------
(***************************************************************************)
(* Proofs about ParaReview for any set of lines and texts of any length:   *)
(* whatever edit script the diff library answers, the segments made of it  *)
(* merge to the proposed text when all is accepted and to the old          *)
(* paragraphs when nothing is, and the pane shows what merging stores.     *)
(*                                                                         *)
(* Induction is by least elements: the library's theorem that a non-empty  *)
(* set of numbers has one is of first order, unlike its induction rules.   *)
(***************************************************************************)
EXTENDS ParaReview, SequenceTheorems, FiniteSetTheorems, WellFoundedInduction, TLAPS

-----------------------------------------------------------------------------
\* Induction and least elements.
LEMMA LeastElement ==
    ASSUME NEW T, T \subseteq Nat, T # {}
    PROVE  \E n \in T : \A k \in T : n <= k
<1> DEFINE R == OpToRel(<, Nat)
<1>1. \A x, y \in Nat : x < y => <<x, y>> \in R
  BY DEF OpToRel
<1>2. IsWellFoundedOn(R, Nat)
  BY NatLessThanWellFounded
<1> HIDE DEF R
<1>3. PICK n \in T : \A k \in T : ~(<<k, n>> \in R)
  BY <1>2, WFMin
<1>4. \A k \in T : ~(k < n)
  BY <1>1, <1>3
<1>5. \A k \in T : n <= k
  BY <1>4
<1> QED  BY <1>5

LEMMA SetInduction ==
    ASSUME NEW S, 0 \in S, \A n \in Nat : n \in S => n + 1 \in S
    PROVE  Nat \subseteq S
<1> SUFFICES ASSUME Nat \ S # {} PROVE FALSE
  OBVIOUS
<1>1. PICK n \in Nat \ S : \A k \in Nat \ S : n <= k
  BY LeastElement
<1>2. n # 0 /\ n - 1 \in Nat
  BY <1>1
<1>3. n - 1 \in S
  BY <1>1, <1>2
<1> QED  BY <1>1, <1>2, <1>3

-----------------------------------------------------------------------------
\* Counting the numbers of a set up to a bound.
Below(E, i) == {j \in E : j <= i}
Count(E, i) == Cardinality(Below(E, i))

LEMMA BelowFinite ==
    ASSUME NEW E, \A x \in E : x \in Nat, NEW i \in Int
    PROVE  IsFiniteSet(Below(E, i)) /\ Count(E, i) \in Nat
<1>1. IsFiniteSet(0..i) /\ Below(E, i) \in SUBSET (0..i)
  BY FS_Interval DEF Below
<1>2. IsFiniteSet(Below(E, i))
  BY <1>1, FS_Subset
<1> QED  BY <1>2, FS_CardinalityType DEF Count

LEMMA CountZero ==
    ASSUME NEW E, \A x \in E : x \in Nat /\ x # 0
    PROVE  Count(E, 0) = 0
<1>1. Below(E, 0) = {}
  BY DEF Below
<1> QED  BY <1>1, FS_EmptySet DEF Count

LEMMA CountStep ==
    ASSUME NEW E, \A x \in E : x \in Nat, NEW i \in Nat
    PROVE  Count(E, i + 1) = IF i + 1 \in E THEN Count(E, i) + 1 ELSE Count(E, i)
<1>1. CASE i + 1 \in E
  <2>1. Below(E, i + 1) = Below(E, i) \cup {i + 1} /\ i + 1 \notin Below(E, i)
    BY <1>1 DEF Below
  <2> QED  BY <1>1, <2>1, BelowFinite, FS_AddElement DEF Count
<1>2. CASE i + 1 \notin E
  <2>1. Below(E, i + 1) = Below(E, i)
    BY <1>2 DEF Below
  <2> QED  BY <1>2, <2>1 DEF Count
<1> QED  BY <1>1, <1>2

\* What is counted up to a member is counted at least once and at most with all the others.
LEMMA CountWithin ==
    ASSUME NEW n \in Nat, NEW E, \A x \in E : x \in 1..n, NEW i \in E
    PROVE  Count(E, i) \in 1..Cardinality(E) /\ Count(E, n) = Cardinality(E)
<1>1. IsFiniteSet(1..n) /\ E \in SUBSET (1..n)
  BY FS_Interval
<1>2. IsFiniteSet(E)
  BY <1>1, FS_Subset
<1>3. Below(E, i) \in SUBSET E /\ Below(E, n) = E /\ i \in Below(E, i)
  BY DEF Below
<1>4. Count(E, i) <= Cardinality(E) /\ Count(E, i) \in Nat /\ Cardinality(E) \in Nat
  BY <1>2, <1>3, FS_Subset, FS_CardinalityType, BelowFinite DEF Count
<1>5. Count(E, i) # 0
  BY <1>3, <1>2, FS_EmptySet, FS_Subset DEF Count
<1> QED  BY <1>3, <1>4, <1>5 DEF Count

\* A function that keeps the order of two sets and leaves nothing of the second out keeps
\* the count.
LEMMA OrderKeepsCount ==
    ASSUME NEW n \in Nat, NEW E, \A x \in E : x \in 1..n, NEW D, \A y \in D : y \in Nat, NEW u \in [E -> D],
           \A i, j \in E : i < j => u[i] < u[j],
           \A y \in D : \E i \in E : u[i] = y
    PROVE  /\ \A i \in E : Count(E, i) = Count(D, u[i])
           /\ Cardinality(E) = Cardinality(D)
<1>1. IsFiniteSet(1..n) /\ E \in SUBSET (1..n)
  BY FS_Interval
<1>2. IsFiniteSet(E)
  BY <1>1, FS_Subset
<1>3. \A i, j \in E : u[i] = u[j] => i = j
  <2> SUFFICES ASSUME NEW i \in E, NEW j \in E, u[i] = u[j], i # j PROVE FALSE
    OBVIOUS
  <2>1. i < j \/ j < i
    OBVIOUS
  <2> QED  BY <2>1
<1>4. ASSUME NEW i \in E PROVE Count(E, i) = Count(D, u[i])
  <2> DEFINE f == [j \in Below(E, i) |-> u[j]]
  <2>1. \A j \in E : u[j] <= u[i] <=> j <= i
    <3> TAKE j \in E
    <3>1. i < j \/ j < i \/ j = i
      OBVIOUS
    <3>2. u[i] \in Nat /\ u[j] \in Nat
      OBVIOUS
    <3> QED  BY <3>1, <3>2
  <2>2. f \in [Below(E, i) -> Below(D, u[i])]
    BY <2>1 DEF Below
  <2>3. IsInjective(f)
    BY <1>3 DEF IsInjective, Below
  <2>4. \A y \in Below(D, u[i]) : \E j \in Below(E, i) : f[j] = y
    BY <2>1 DEF Below
  <2>5. ExistsBijection(Below(E, i), Below(D, u[i]))
    BY <2>2, <2>3, <2>4 DEF ExistsBijection, Bijection, Injection, Surjection
  <2> QED  BY <2>5, BelowFinite, FS_Bijection DEF Count
<1>5. ExistsBijection(E, D)
  BY <1>3 DEF ExistsBijection, Bijection, Injection, Surjection, IsInjective
<1> QED  BY <1>2, <1>4, <1>5, FS_Bijection

LEMMA CountGrows ==
    ASSUME NEW E, \A x \in E : x \in Nat, NEW i \in Nat, NEW j \in Nat, i <= j
    PROVE  Count(E, i) <= Count(E, j) /\ (i < j /\ j \in E => Count(E, i) < Count(E, j))
<1>1. ASSUME NEW k \in Nat, i <= k PROVE Count(E, i) <= Count(E, k)
  <2>1. Below(E, i) \in SUBSET Below(E, k)
    BY <1>1 DEF Below
  <2> QED  BY <2>1, BelowFinite, FS_Subset DEF Count
<1>2. CASE i < j /\ j \in E
  <2>1. PICK m \in Nat : i <= m /\ j = m + 1
    <3>1. j - 1 \in Nat /\ i <= j - 1 /\ j = (j - 1) + 1
      BY <1>2
    <3> QED  BY <3>1
  <2>2. Count(E, j) = Count(E, m) + 1
    BY <1>2, <2>1, CountStep
  <2>3. Count(E, i) <= Count(E, m)
    BY <1>1, <2>1
  <2>4. Count(E, i) \in Nat /\ Count(E, m) \in Nat
    BY BelowFinite
  <2> QED  BY <1>2, <2>2, <2>3, <2>4
<1> QED  BY <1>1, <1>2

LEMMA CountReaches ==
    ASSUME NEW n \in Nat, NEW S, \A x \in S : x \in 1..n, NEW k \in 1..Count(S, n)
    PROVE  \E x \in S : Count(S, x) = k
<1> DEFINE T == {i \in Nat : k <= Count(S, i)}
<1>1. PICK m \in T : \A i \in T : m <= i
  <2>1. n \in T
    BY BelowFinite
  <2> HIDE DEF T
  <2>2. T # {}
    BY <2>1
  <2>3. T \subseteq Nat
    BY DEF T
  <2> QED  BY <2>2, <2>3, LeastElement
<1>2. Count(S, 0) = 0 /\ k \in Nat /\ 0 < k
  BY CountZero, BelowFinite
<1>3. m \in Nat /\ m # 0 /\ k <= Count(S, m)
  BY <1>1, <1>2
<1>4. m - 1 \in Nat /\ m - 1 \notin T /\ (m - 1) + 1 = m
  BY <1>1, <1>3
<1>5. Count(S, m - 1) < k /\ Count(S, m - 1) \in Nat /\ Count(S, m) \in Nat
  BY <1>2, <1>3, <1>4, BelowFinite
<1>6. Count(S, m) = IF m \in S THEN Count(S, m - 1) + 1 ELSE Count(S, m - 1)
  BY <1>4, CountStep
<1>7. m \in S /\ Count(S, m) = k
  BY <1>2, <1>3, <1>5, <1>6
<1> QED  BY <1>7

\* InOrder lists the members of a set, each at the place that counting gives it.
LEMMA InOrderLists ==
    ASSUME NEW n \in Nat, NEW S, \A x \in S : x \in 1..n
    PROVE  /\ Cardinality(S) \in Nat /\ Cardinality(S) = Count(S, n)
           /\ InOrder(S) \in [1..Cardinality(S) -> S]
           /\ \A k, l \in 1..Cardinality(S) : k < l => InOrder(S)[k] < InOrder(S)[l]
           /\ \A x \in S : \E k \in 1..Cardinality(S) : InOrder(S)[k] = x
<1> DEFINE c == Cardinality(S)
           o == InOrder(S)
<1>1. Below(S, n) = S
  BY DEF Below
<1>2. c = Count(S, n) /\ c \in Nat
  BY <1>1, BelowFinite DEF Count
<1>3. ASSUME NEW k \in 1..c PROVE o[k] \in S /\ Count(S, o[k]) = k
  <2>1. \E x \in S : Cardinality({y \in S : y <= x}) = k
    <3>1. PICK x \in S : Count(S, x) = k
      BY <1>2, CountReaches
    <3> QED  BY <3>1 DEF Count, Below
  <2>2. o[k] = CHOOSE x \in S : Cardinality({y \in S : y <= x}) = k
    BY DEF InOrder
  <2>3. o[k] \in S /\ Cardinality({y \in S : y <= o[k]}) = k
    BY <2>1, <2>2, Zenon
  <2> QED  BY <2>3 DEF Count, Below
<1>4. o \in [1..c -> S]
  <2> DEFINE at(k) == CHOOSE x \in S : Cardinality({y \in S : y <= x}) = k
  <2>1. o = [k \in 1..c |-> at(k)]
    BY DEF InOrder
  <2> HIDE DEF o, c, at
  <2> QED  BY <1>3, <2>1
<1> HIDE DEF o, c
<1>5. ASSUME NEW k \in 1..c, NEW l \in 1..c, k < l PROVE o[k] < o[l]
  <2>1. o[k] \in Nat /\ o[l] \in Nat
    BY <1>3
  <2>2. ~(o[l] <= o[k])
    BY <1>2, <1>3, <1>5, <2>1, CountGrows
  <2> QED  BY <2>1, <2>2
<1>6. ASSUME NEW x \in S PROVE \E k \in 1..c : o[k] = x
  <2> DEFINE k == Count(S, x)
  <2>1. k \in 1..c
    BY CountWithin DEF c
  <2>2. o[k] \in S /\ Count(S, o[k]) = Count(S, x) /\ x \in Nat /\ o[k] \in Nat
    BY <1>3, <2>1
  <2>3. \A a, b \in S : a < b => Count(S, a) < Count(S, b)
    <3> TAKE a, b \in S
    <3> QED  BY CountGrows
  <2>4. Count(S, x) \in Nat
    BY <1>2, <2>1
  <2> HIDE DEF k
  <2>5. ~(x < o[k]) /\ ~(o[k] < x)
    BY <2>2, <2>3, <2>4
  <2>6. o[k] = x
    BY <2>2, <2>5
  <2> QED  BY <2>1, <2>6
<1> QED  BY <1>2, <1>4, <1>5, <1>6 DEF o, c

-----------------------------------------------------------------------------
\* Sequences of sequences, flattened.
LEMMA IsSequence ==
    ASSUME NEW T, NEW n \in Nat, NEW f, f = [i \in 1..n |-> f[i]], \A i \in 1..n : f[i] \in T
    PROVE  f \in Seq(T) /\ Len(f) = n
<1>1. f \in [1..n -> T]
  OBVIOUS
<1> QED  BY <1>1

LEMMA FlattenExists ==
    ASSUME NEW seqs, NEW n \in Nat
    PROVE  \E f : f = [i \in 1..n |-> IF i = 1 THEN seqs[i] ELSE f[i - 1] \o seqs[i]]
<1> DEFINE S == {m \in Nat : \E f :
                    f = [i \in 1..m |-> IF i = 1 THEN seqs[i] ELSE f[i - 1] \o seqs[i]]}
<1>1. 0 \in S
  <2> DEFINE h == [i \in 1..0 |-> {}]
  <2>1. h = [i \in 1..0 |-> IF i = 1 THEN seqs[i] ELSE h[i - 1] \o seqs[i]]
    OBVIOUS
  <2> HIDE DEF h
  <2> QED  BY <2>1
<1>2. ASSUME NEW m \in Nat, m \in S PROVE m + 1 \in S
  <2>1. PICK f : f = [i \in 1..m |-> IF i = 1 THEN seqs[i] ELSE f[i - 1] \o seqs[i]]
    BY <1>2
  <2> DEFINE last == IF m = 0 THEN seqs[m + 1] ELSE f[m] \o seqs[m + 1]
             h == [i \in 1..(m + 1) |-> IF i = m + 1 THEN last ELSE f[i]]
             body(g, i) == IF i = 1 THEN seqs[i] ELSE g[i - 1] \o seqs[i]
  <2>2. ASSUME NEW i \in 1..(m + 1)
        PROVE  (IF i = m + 1 THEN last ELSE f[i]) = body(h, i)
    <3>1. CASE i = m + 1
      <4>1. m # 0 => h[m] = f[m]
        OBVIOUS
      <4> HIDE DEF h
      <4> QED  BY <3>1, <4>1
    <3>2. CASE i # m + 1
      <4>1. i \in 1..m /\ (i # 1 => i - 1 \in 1..m)
        BY <3>2
      <4>2. f[i] = body(f, i)
        BY <2>1, <4>1
      <4>3. i # 1 => h[i - 1] = f[i - 1]
        BY <4>1
      <4> HIDE DEF h
      <4> QED  BY <3>2, <4>2, <4>3
    <3> QED  BY <3>1, <3>2
  <2> HIDE DEF body, last
  <2>3. h = [i \in 1..(m + 1) |-> body(h, i)]
    BY <2>2
  <2> HIDE DEF h
  <2>4. \E g : g = [i \in 1..(m + 1) |-> body(g, i)]
    BY <2>3
  <2>5. \E g : g = [i \in 1..(m + 1) |-> IF i = 1 THEN seqs[i] ELSE g[i - 1] \o seqs[i]]
    BY <2>4, Zenon DEF body
  <2>6. m + 1 \in Nat
    OBVIOUS
  <2> QED  BY <2>5, <2>6, Zenon
<1> HIDE DEF S
<1>3. Nat \subseteq S
  BY <1>1, <1>2, SetInduction
<1> QED  BY <1>3 DEF S

\* What FlattenSeq has put together after each of the sequences.
LEMMA FlattenSteps ==
    ASSUME NEW T, NEW seqs, seqs \in Seq(Seq(T))
    PROVE  \E g : /\ g[0] = <<>>
                  /\ \A i \in 0..Len(seqs) : g[i] \in Seq(T)
                  /\ \A i \in 0..(Len(seqs) - 1) : g[i + 1] = g[i] \o seqs[i + 1]
                  /\ FlattenSeq(seqs) = g[Len(seqs)]
<1> DEFINE n == Len(seqs)
<1>1. n \in Nat /\ \A i \in 1..n : seqs[i] \in Seq(T)
  OBVIOUS
<1>2. CASE n = 0
  <2> DEFINE g == [i \in 0..0 |-> <<>>]
  <2>1. seqs = <<>> /\ FlattenSeq(seqs) = seqs
    BY <1>2 DEF FlattenSeq
  <2>2. g[0] = <<>> /\ \A i \in 0..0 : g[i] \in Seq(T)
    OBVIOUS
  <2> HIDE DEF g
  <2> QED  BY <1>2, <2>1, <2>2
<1>3. CASE n # 0
  <2> DEFINE f == CHOOSE h : h = [i \in 1..n |-> IF i = 1 THEN seqs[i] ELSE h[i - 1] \o seqs[i]]
  <2>1. \E h : h = [i \in 1..n |-> IF i = 1 THEN seqs[i] ELSE h[i - 1] \o seqs[i]]
    BY <1>1, FlattenExists
  <2>2. f = [i \in 1..n |-> IF i = 1 THEN seqs[i] ELSE f[i - 1] \o seqs[i]]
    BY <2>1, Zenon
  <2>3. FlattenSeq(seqs) = f[n]
    BY <1>3, Zenon DEF FlattenSeq
  <2> HIDE DEF f
  <2> DEFINE g == [i \in 0..n |-> IF i = 0 THEN <<>> ELSE f[i]]
  <2>4. g[0] = <<>> /\ \A i \in 1..n : g[i] = f[i]
    BY <1>1
  <2> HIDE DEF g
  <2>5. ASSUME NEW i \in 0..(n - 1), g[i] \in Seq(T)
        PROVE  g[i + 1] = g[i] \o seqs[i + 1] /\ g[i + 1] \in Seq(T)
    <3>1. i + 1 \in 1..n /\ seqs[i + 1] \in Seq(T)
      BY <1>1
    <3>2. g[i + 1] = f[i + 1]
      BY <2>4, <3>1
    <3>3. f[i + 1] = IF i + 1 = 1 THEN seqs[i + 1] ELSE f[(i + 1) - 1] \o seqs[i + 1]
      BY <2>2, <3>1
    <3>4. CASE i = 0
      <4>1. g[i] \o seqs[i + 1] = seqs[i + 1]
        BY <2>4, <3>1, <3>4, ConcatEmptySeq
      <4> QED  BY <3>1, <3>2, <3>3, <3>4, <4>1
    <3>5. CASE i # 0
      <4>1. g[i] = f[i] /\ (i + 1) - 1 = i /\ i + 1 # 1
        BY <1>1, <2>4, <3>5
      <4>2. g[i + 1] = g[i] \o seqs[i + 1]
        BY <3>2, <3>3, <4>1
      <4> QED  BY <2>5, <3>1, <4>2
    <3> QED  BY <3>4, <3>5
  <2> DEFINE S == {i \in Nat : i <= n => g[i] \in Seq(T)}
  <2>6. 0 \in S
    <3>1. <<>> \in Seq(T) /\ 0 \in Nat
      OBVIOUS
    <3> QED  BY <2>4, <3>1, Zenon
  <2>7. ASSUME NEW i \in Nat, i \in S PROVE i + 1 \in S
    <3> SUFFICES ASSUME i + 1 <= n PROVE g[i + 1] \in Seq(T)
      OBVIOUS
    <3>1. i \in 0..(n - 1) /\ g[i] \in Seq(T)
      BY <1>1, <2>7
    <3> QED  BY <2>5, <3>1
  <2> HIDE DEF S
  <2>8. Nat \subseteq S
    BY <2>6, <2>7, SetInduction
  <2>9. \A i \in 0..n : g[i] \in Seq(T)
    BY <1>1, <2>8 DEF S
  <2>10. \A i \in 0..(n - 1) : g[i + 1] = g[i] \o seqs[i + 1]
    <3> TAKE i \in 0..(n - 1)
    <3>1. i \in 0..n
      BY <1>1
    <3> QED  BY <2>5, <2>9, <3>1
  <2>11. FlattenSeq(seqs) = g[n]
    BY <1>1, <1>3, <2>3, <2>4
  <2> HIDE DEF n
  <2>12. \E h : /\ h[0] = <<>>
                /\ \A i \in 0..n : h[i] \in Seq(T)
                /\ \A i \in 0..(n - 1) : h[i + 1] = h[i] \o seqs[i + 1]
                /\ FlattenSeq(seqs) = h[n]
    BY <2>4, <2>9, <2>10, <2>11, Zenon
  <2> QED  BY <2>12 DEF n
<1> QED  BY <1>2, <1>3

LEMMA FlattenType ==
    ASSUME NEW T, NEW seqs, seqs \in Seq(Seq(T))
    PROVE  FlattenSeq(seqs) \in Seq(T)
<1>1. Len(seqs) \in 0..Len(seqs)
  OBVIOUS
<1> QED  BY <1>1, FlattenSteps

LEMMA OneMore ==
    ASSUME NEW T, NEW s \in Seq(T), NEW e \in T
    PROVE  \E r : /\ r = s \o <<e>> /\ Len(r) = Len(s) + 1
                  /\ \A k \in 1..Len(s) : r[k] = s[k]
                  /\ r[Len(s) + 1] = e
<1>1. /\ Len(s \o <<e>>) = Len(s) + 1
      /\ \A k \in 1..Len(s) : (s \o <<e>>)[k] = s[k]
      /\ (s \o <<e>>)[Len(s) + 1] = e
  OBVIOUS
<1> QED  BY <1>1, Zenon

\* When some of the sequences hold one member of w, each the next one, and the others are
\* empty, they flatten to w.
LEMMA LaidOut ==
    ASSUME NEW T, NEW n \in Nat, NEW seqs, seqs \in Seq(Seq(T)), Len(seqs) = n,
           NEW w, w \in Seq(T), NEW E, \A x \in E : x \in 1..n, Cardinality(E) = Len(w),
           \A i \in 1..n : seqs[i] = IF i \in E THEN <<w[Count(E, i)]>> ELSE <<>>
    PROVE  FlattenSeq(seqs) = w
<1>1. PICK g : /\ g[0] = <<>>
               /\ \A i \in 0..n : g[i] \in Seq(T)
               /\ \A i \in 0..(n - 1) : g[i + 1] = g[i] \o seqs[i + 1]
               /\ FlattenSeq(seqs) = g[n]
  BY FlattenSteps
<1> DEFINE S == {i \in Nat : i <= n => /\ Len(g[i]) = Count(E, i)
                                       /\ \A k \in 1..Count(E, i) : g[i][k] = w[k]}
<1>2. 0 \in S
  <2>1. Count(E, 0) = 0
    BY CountZero
  <2> QED  BY <1>1, <2>1
<1>3. ASSUME NEW i \in Nat, i \in S PROVE i + 1 \in S
  <2> SUFFICES ASSUME i + 1 <= n
               PROVE  /\ Len(g[i + 1]) = Count(E, i + 1)
                      /\ \A k \in 1..Count(E, i + 1) : g[i + 1][k] = w[k]
    OBVIOUS
  <2>0. i \in 0..n /\ i \in 0..(n - 1) /\ i + 1 \in 1..n
    OBVIOUS
  <2>1. g[i + 1] = g[i] \o seqs[i + 1] /\ g[i] \in Seq(T)
    BY <1>1, <2>0, Zenon
  <2>2. seqs[i + 1] = IF i + 1 \in E THEN <<w[Count(E, i + 1)]>> ELSE <<>>
    BY <2>0, Zenon
  <2>3. Len(g[i]) = Count(E, i) /\ \A k \in 1..Count(E, i) : g[i][k] = w[k]
    BY <1>3
  <2>4. Count(E, i) \in Nat
        /\ Count(E, i + 1) = IF i + 1 \in E THEN Count(E, i) + 1 ELSE Count(E, i)
    <3>1. \A x \in E : x \in Nat
      OBVIOUS
    <3> QED  BY <3>1, BelowFinite, CountStep
  <2>5. CASE i + 1 \in E
    <3> DEFINE c == Count(E, i)
    <3>1. g[i + 1] = g[i] \o <<w[c + 1]>> /\ c \in Nat /\ c + 1 = Count(E, i + 1)
      BY <2>1, <2>2, <2>4, <2>5
    <3>2. Count(E, i + 1) <= Len(w)
      <4>1. i + 1 \in E /\ \A x \in E : x \in 1..n
        BY <2>5
      <4>2. Count(E, i + 1) \in 1..Cardinality(E)
        BY <4>1, CountWithin
      <4> QED  BY <4>2
    <3>3. w[c + 1] \in T
      BY <3>1, <3>2, ElementOfSeq
    <3> HIDE DEF c
    <3>4. Len(g[i]) = c /\ \A k \in 1..c : g[i][k] = w[k]
      BY <2>3 DEF c
    <3>5. /\ Len(g[i + 1]) = c + 1
          /\ \A k \in 1..c : g[i + 1][k] = g[i][k]
          /\ g[i + 1][c + 1] = w[c + 1]
      <4> DEFINE e == w[c + 1]
                 a == g[i]
      <4>1. a \in Seq(T) /\ e \in T /\ Len(a) = c /\ g[i + 1] = a \o <<e>>
        BY <2>1, <3>1, <3>3, <3>4
      <4> HIDE DEF a, e
      <4>2. PICK r : /\ r = a \o <<e>> /\ Len(r) = Len(a) + 1
                     /\ \A k \in 1..Len(a) : r[k] = a[k]
                     /\ r[Len(a) + 1] = e
        BY <4>1, OneMore, Zenon
      <4>3. g[i + 1] = r
        BY <4>1, <4>2, Zenon
      <4> QED  BY <4>1, <4>2, <4>3 DEF a, e
    <3>6. ASSUME NEW k \in 1..(c + 1) PROVE g[i + 1][k] = w[k]
      <4>1. k \in 1..c \/ k = c + 1
        BY <3>1
      <4> QED  BY <3>4, <3>5, <4>1
    <3> QED  BY <3>1, <3>5, <3>6
  <2>6. CASE i + 1 \notin E
    <3>1. g[i + 1] = g[i]
      BY <2>1, <2>2, <2>6, ConcatEmptySeq
    <3> QED  BY <2>3, <2>4, <2>6, <3>1
  <2> QED  BY <2>5, <2>6
<1> HIDE DEF S
<1>4. n \in S
  BY <1>2, <1>3, SetInduction
<1>5. Len(g[n]) = Count(E, n) /\ \A k \in 1..Count(E, n) : g[n][k] = w[k]
  BY <1>4 DEF S
<1>6. Below(E, n) = E
  BY DEF Below
<1>7. Count(E, n) = Len(w)
  BY <1>6 DEF Count
<1>8. g[n] = w
  BY <1>1, <1>5, <1>7, SeqEqual
<1> QED  BY <1>1, <1>8

-----------------------------------------------------------------------------
\* Edit scripts.
Step == {"same", "removed", "added"}
Keep(s, kinds) == {x \in DOMAIN s : s[x] \in kinds}

LEMMA UptoCounts ==
    ASSUME NEW s \in Seq(Step), NEW p \in 0..Len(s), NEW kinds
    PROVE  Upto(s, p, kinds) = Count(Keep(s, kinds), p)
<1>1. {x \in 1..p : s[x] \in kinds} = Below(Keep(s, kinds), p)
  BY DEF Below, Keep
<1> QED  BY <1>1 DEF Upto, Count

LEMMA SameOffset ==
    ASSUME NEW p \in Nat, NEW p2 \in Nat, NEW q \in Nat, NEW q2 \in Nat,
           NEW f \in Nat, NEW l \in Nat, q - l = p - f + 1, q2 - l = p2 - f + 1
    PROVE  (p = p2 => q = q2) /\ (p < p2 => q < q2)
OBVIOUS

\* A paragraph is removed with at most one other added in its place, and later ones later.
LEMMA PairOrder ==
    ASSUME NEW s \in Seq(Step), NEW p \in DOMAIN s, NEW p2 \in DOMAIN s, p <= p2,
           NEW q \in DOMAIN s, NEW q2 \in DOMAIN s, Pairs(s, p, q), Pairs(s, p2, q2)
    PROVE  (p = p2 => q = q2) /\ (p < p2 => q < q2)
<1>0. p \in Nat /\ p2 \in Nat /\ q \in Nat /\ q2 \in Nat /\ p2 < q2 /\ s[p2] = "removed"
  <2>1. p \in Nat /\ p2 \in Nat /\ q \in Nat /\ q2 \in Nat
    OBVIOUS
  <2>2. p2 < q2 /\ s[p2] = "removed"
    BY DEF Pairs
  <2> QED  BY <2>1, <2>2
<1>1. PICK f \in 1..p, l \in p..(q - 1) :
         /\ \A x \in f..l : s[x] = "removed"
         /\ f = 1 \/ s[f - 1] # "removed"
         /\ \A x \in (l + 1)..q : s[x] = "added"
         /\ q - l = p - f + 1
  BY DEF Pairs
<1>2. PICK f2 \in 1..p2, l2 \in p2..(q2 - 1) :
         /\ \A x \in f2..l2 : s[x] = "removed"
         /\ f2 = 1 \/ s[f2 - 1] # "removed"
         /\ \A x \in (l2 + 1)..q2 : s[x] = "added"
         /\ q2 - l2 = p2 - f2 + 1
  BY DEF Pairs
<1>3. f \in Nat /\ l \in Nat /\ f2 \in Nat /\ l2 \in Nat
  BY <1>0
<1>4. CASE p2 <= l
  <2>1. ~(l < l2)
    <3> SUFFICES ASSUME l < l2 PROVE FALSE
      OBVIOUS
    <3>1. l + 1 \in f2..l2 /\ l + 1 \in (l + 1)..q
      BY <1>0, <1>3, <1>4
    <3> QED  BY <1>1, <1>2, <3>1
  <2>2. ~(l2 < l)
    <3> SUFFICES ASSUME l2 < l PROVE FALSE
      OBVIOUS
    <3>1. l2 + 1 \in f..l /\ l2 + 1 \in (l2 + 1)..q2
      BY <1>0, <1>3, <1>4
    <3> QED  BY <1>1, <1>2, <3>1
  <2>3. ~(f < f2)
    <3> SUFFICES ASSUME f < f2 PROVE FALSE
      OBVIOUS
    <3>1. f2 - 1 \in f..l /\ f2 # 1
      BY <1>0, <1>3, <1>4
    <3> QED  BY <1>1, <1>2, <3>1
  <2>4. ~(f2 < f)
    <3> SUFFICES ASSUME f2 < f PROVE FALSE
      OBVIOUS
    <3>1. f - 1 \in f2..l2 /\ f # 1
      BY <1>0, <1>3, <1>4
    <3> QED  BY <1>1, <1>2, <3>1
  <2>5. q - l = p - f + 1 /\ q2 - l2 = p2 - f2 + 1
    BY <1>1, <1>2
  <2>6. l = l2 /\ f = f2
    BY <1>3, <2>1, <2>2, <2>3, <2>4
  <2>7. q - l = p - f + 1 /\ q2 - l = p2 - f + 1
    BY <2>5, <2>6
  <2> QED  BY <1>0, <1>3, <2>7, SameOffset
<1>5. CASE l < p2
  <2>1. ~(p2 <= q)
    <3> SUFFICES ASSUME p2 <= q PROVE FALSE
      OBVIOUS
    <3>1. p2 \in (l + 1)..q
      BY <1>0, <1>3, <1>5
    <3> QED  BY <1>0, <1>1, <3>1
  <2> QED  BY <1>0, <1>3, <1>5, <2>1
<1> QED  BY <1>0, <1>3, <1>4, <1>5

\* What is not removed between the two paragraphs of a pair is the second one of a pair too.
LEMMA PairSpan ==
    ASSUME NEW s \in Seq(Step), NEW p \in DOMAIN s, NEW q \in DOMAIN s, Pairs(s, p, q),
           NEW x \in DOMAIN s, p < x, x <= q, s[x] # "removed"
    PROVE  \E z \in DOMAIN s : Pairs(s, z, x)
<1>0. p \in Nat /\ q \in Nat /\ x \in Nat
  OBVIOUS
<1>1. PICK f \in 1..p, l \in p..(q - 1) :
         /\ \A y \in f..l : s[y] = "removed"
         /\ f = 1 \/ s[f - 1] # "removed"
         /\ \A y \in (l + 1)..q : s[y] = "added"
         /\ q - l = p - f + 1
  BY DEF Pairs
<1>2. f \in Nat /\ l \in Nat /\ f <= p /\ p <= l /\ l < q
  BY <1>0
<1>3. ~(x <= l)
  <2> SUFFICES ASSUME x <= l PROVE FALSE
    OBVIOUS
  <2>1. x \in f..l
    BY <1>0, <1>2
  <2> QED  BY <1>1, <2>1
<1> DEFINE z == f + (x - l) - 1
<1>4. z \in Nat /\ f <= z /\ z <= p /\ x - l = z - f + 1
  <2>1. q - l = p - f + 1 /\ x \in Nat /\ x <= q
    BY <1>0, <1>1
  <2> QED  BY <1>0, <1>2, <1>3, <2>1
<1> HIDE DEF z
<1>5. z \in DOMAIN s /\ f \in 1..z /\ l \in z..(x - 1) /\ z < x /\ z \in f..l
  BY <1>0, <1>2, <1>3, <1>4
<1>6. \A y \in (l + 1)..x : s[y] = "added"
  BY <1>0, <1>1, <1>2
<1>7. s[x] = "added"
  BY <1>0, <1>2, <1>3, <1>6
<1>8. Pairs(s, z, x)
  BY <1>1, <1>4, <1>5, <1>6, <1>7 DEF Pairs
<1> QED  BY <1>5, <1>8

-----------------------------------------------------------------------------
\* The places whose segment holds a new paragraph, and where that one was added.
Paired(s, p)  == \E q \in DOMAIN s : Pairs(s, p, q)
NewPlaces(s)  == {p \in Places(s) : s[p] # "removed" \/ Paired(s, p)}
Target(s, p)  == IF Paired(s, p) THEN CHOOSE q \in DOMAIN s : Pairs(s, p, q) ELSE p

LEMMA TargetPairs ==
    ASSUME NEW s \in Seq(Step), NEW p \in DOMAIN s
    PROVE  /\ Paired(s, p) => Target(s, p) \in DOMAIN s /\ Pairs(s, p, Target(s, p))
           /\ ~Paired(s, p) => Target(s, p) = p
<1>1. CASE Paired(s, p)
  <2>1. \E q \in DOMAIN s : Pairs(s, p, q)
    BY <1>1 DEF Paired
  <2>2. Target(s, p) = CHOOSE q \in DOMAIN s : Pairs(s, p, q)
    BY <1>1 DEF Target
  <2> QED  BY <1>1, <2>1, <2>2, Zenon
<1>2. CASE ~Paired(s, p)
  BY <1>2 DEF Target
<1> QED  BY <1>1, <1>2

LEMMA TargetIsAdded ==
    ASSUME NEW s \in Seq(Step), NEW p \in NewPlaces(s)
    PROVE  Target(s, p) \in Keep(s, {"same", "added"})
<1>1. p \in DOMAIN s /\ s[p] \in Step
  BY DEF NewPlaces, Places
<1>2. CASE Paired(s, p)
  BY <1>1, <1>2, TargetPairs DEF Keep, Pairs
<1>3. CASE ~Paired(s, p)
  <2>1. s[p] # "removed"
    BY <1>3 DEF NewPlaces
  <2> QED  BY <1>1, <1>3, <2>1, TargetPairs DEF Keep, Step
<1> QED  BY <1>2, <1>3

LEMMA TargetOnto ==
    ASSUME NEW s \in Seq(Step), NEW y \in Keep(s, {"same", "added"})
    PROVE  \E p \in NewPlaces(s) : Target(s, p) = y
<1>1. y \in DOMAIN s /\ s[y] # "removed"
  BY DEF Keep
<1>2. CASE \E p \in DOMAIN s : Pairs(s, p, y)
  <2>1. PICK p \in DOMAIN s : Pairs(s, p, y)
    BY <1>2
  <2>2. Paired(s, p) /\ p \in Places(s)
    BY <1>1, <2>1 DEF Paired, Places, Pairs
  <2>3. Target(s, p) = y
    <3>1. Target(s, p) \in DOMAIN s /\ Pairs(s, p, Target(s, p))
      BY <2>2, TargetPairs
    <3>2. p <= p
      OBVIOUS
    <3> QED  BY <1>1, <2>1, <3>1, <3>2, PairOrder
  <2> QED  BY <2>2, <2>3 DEF NewPlaces
<1>3. CASE ~\E p \in DOMAIN s : Pairs(s, p, y)
  <2>1. y \in NewPlaces(s) /\ ~Paired(s, y)
    BY <1>1, <1>3 DEF NewPlaces, Places, Paired, Pairs
  <2> QED  BY <1>1, <2>1, TargetPairs
<1> QED  BY <1>2, <1>3

LEMMA TargetOrder ==
    ASSUME NEW s \in Seq(Step), NEW x \in NewPlaces(s), NEW y \in NewPlaces(s), x < y
    PROVE  Target(s, x) < Target(s, y)
<1>1. /\ x \in DOMAIN s /\ y \in DOMAIN s /\ x \in Nat /\ y \in Nat
      /\ \A p \in DOMAIN s : ~Pairs(s, p, y)
  BY DEF NewPlaces, Places
<1>2. Paired(s, y) => y < Target(s, y) /\ Target(s, y) \in Nat
  BY <1>1, TargetPairs DEF Pairs
<1>3. Paired(s, x) => x < Target(s, x) /\ Target(s, x) \in Nat
  BY <1>1, TargetPairs DEF Pairs
<1>4. CASE ~Paired(s, x)
  BY <1>1, <1>2, <1>4, TargetPairs
<1>5. CASE Paired(s, x) /\ Paired(s, y)
  BY <1>1, <1>5, TargetPairs, PairOrder
<1>6. CASE Paired(s, x) /\ ~Paired(s, y)
  <2>1. s[y] # "removed"
    BY <1>6 DEF NewPlaces
  <2>2. Target(s, x) \in DOMAIN s /\ Pairs(s, x, Target(s, x))
    BY <1>1, <1>6, TargetPairs
  <2>3. ~(y <= Target(s, x))
    BY <1>1, <2>1, <2>2, PairSpan
  <2>4. Target(s, y) = y
    BY <1>1, <1>6, TargetPairs
  <2> QED  BY <1>1, <1>3, <1>6, <2>3, <2>4
<1> QED  BY <1>4, <1>5, <1>6

-----------------------------------------------------------------------------
\* The segments of a script that leads from one text to another.
Block   == Seq(Lines) \ {<<>>}
Kinds   == {"same", "changed", "added", "removed"}
Segment == [kind : Kinds, before : Seq(Lines), after : Seq(Lines)]
OldPlaces(s) == {p \in Places(s) : s[p] # "added"}

\* Where the script has come to in a text is one of its paragraphs.
LEMMA InTexts ==
    ASSUME NEW old, NEW new, NEW s \in Seq(Step), Leads(s, old, new),
           Len(old) \in Nat, Len(new) \in Nat, NEW p \in DOMAIN s
    PROVE  /\ s[p] # "added" => OldAt(s, p) \in 1..Len(old)
           /\ s[p] # "removed" => NewAt(s, p) \in 1..Len(new)
<1> DEFINE n == Len(s)
<1>1. n \in Nat /\ p \in 0..n /\ n \in 0..n /\ s[p] \in Step
  OBVIOUS
<1>2. ASSUME NEW kinds, s[p] \in kinds PROVE Upto(s, p, kinds) \in 1..Upto(s, n, kinds)
  <2> DEFINE E == Keep(s, kinds)
  <2>1. Upto(s, p, kinds) = Count(E, p) /\ Upto(s, n, kinds) = Count(E, n)
    BY <1>1, UptoCounts
  <2>2. p \in E /\ \A x \in E : x \in 1..n
    BY <1>2 DEF Keep
  <2> HIDE DEF E, n
  <2>3. Count(E, p) \in 1..Cardinality(E) /\ Count(E, n) = Cardinality(E)
    BY <1>1, <2>2, CountWithin
  <2> QED  BY <2>1, <2>3
<1>3. s[p] # "added" => s[p] \in {"same", "removed"}
  BY <1>1 DEF Step
<1>4. s[p] # "removed" => s[p] \in {"same", "added"}
  BY <1>1 DEF Step
<1>5. Upto(s, n, {"same", "removed"}) = Len(old) /\ Upto(s, n, {"same", "added"}) = Len(new)
  BY DEF Leads, OldAt, NewAt
<1> HIDE DEF n
<1> QED  BY <1>2, <1>3, <1>4, <1>5 DEF OldAt, NewAt

LEMMA SegmentShape ==
    ASSUME NEW old \in Seq(Block), NEW new \in Seq(Block), NEW s \in Seq(Step),
           Leads(s, old, new), NEW p \in Places(s),
           NEW g, g = SegmentAt(old, new, s, p)
    PROVE  /\ g \in Segment
           /\ g.kind = "same" => g.before = g.after
           /\ g.kind # "added" <=> p \in OldPlaces(s)
           /\ g.kind # "removed" <=> p \in NewPlaces(s)
           /\ p \in OldPlaces(s) => g.before = old[OldAt(s, p)] /\ g.before \in Block
           /\ p \in NewPlaces(s) => g.after = new[NewAt(s, Target(s, p))] /\ g.after \in Block
<1>1. p \in DOMAIN s /\ s[p] \in Step
  BY DEF Places
<1>2. Len(old) \in Nat /\ Len(new) \in Nat
  OBVIOUS
<1>3. s[p] # "added" => old[OldAt(s, p)] \in Block
  BY <1>1, <1>2, InTexts, ElementOfSeq
<1>4. CASE Paired(s, p)
  <2> DEFINE q == Target(s, p)
  <2>1. q \in DOMAIN s /\ s[q] = "added" /\ s[p] = "removed"
    BY <1>1, <1>4, TargetPairs DEF Pairs
  <2>2. new[NewAt(s, q)] \in Block
    BY <1>2, <2>1, InTexts, ElementOfSeq
  <2>3. g = [kind |-> "changed", before |-> old[OldAt(s, p)], after |-> new[NewAt(s, q)]]
    BY <1>4, Zenon DEF SegmentAt, Paired, Target
  <2>4. p \in OldPlaces(s) /\ p \in NewPlaces(s)
    BY <1>4, <2>1 DEF OldPlaces, NewPlaces
  <2> HIDE DEF q
  <2>5. /\ g.kind = "changed" /\ g.before = old[OldAt(s, p)] /\ g.after = new[NewAt(s, q)]
        /\ g.before \in Block /\ g.after \in Block
    BY <1>3, <2>1, <2>2, <2>3
  <2>6. g \in Segment
    BY <2>3, <2>5 DEF Segment, Kinds, Block
  <2> QED  BY <2>4, <2>5, <2>6 DEF q
<1>5. CASE ~Paired(s, p)
  <2>1. g = [kind |-> s[p],
             before |-> IF s[p] = "added" THEN <<>> ELSE old[OldAt(s, p)],
             after |-> IF s[p] = "removed" THEN <<>> ELSE new[NewAt(s, p)]]
    BY <1>5, Zenon DEF SegmentAt, Paired
  <2>2. s[p] # "removed" => new[NewAt(s, p)] \in Block
    BY <1>1, <1>2, InTexts, ElementOfSeq
  <2>3. Target(s, p) = p
    BY <1>1, <1>5, TargetPairs
  <2>4. /\ p \in OldPlaces(s) <=> s[p] # "added"
        /\ p \in NewPlaces(s) <=> s[p] # "removed"
    BY <1>5 DEF OldPlaces, NewPlaces
  <2>5. s[p] = "same" => old[OldAt(s, p)] = new[NewAt(s, p)]
    BY <1>1 DEF Leads
  <2>6. /\ g.kind = s[p]
        /\ s[p] = "added" => g.before = <<>>
        /\ s[p] # "added" => g.before = old[OldAt(s, p)]
        /\ s[p] = "removed" => g.after = <<>>
        /\ s[p] # "removed" => g.after = new[NewAt(s, p)]
    BY <2>1
  <2>7. <<>> \in Seq(Lines)
    OBVIOUS
  <2>8. g.kind \in Kinds /\ g.before \in Seq(Lines) /\ g.after \in Seq(Lines)
    BY <1>1, <1>3, <2>2, <2>6, <2>7 DEF Step, Kinds, Block
  <2>9. g \in Segment
    BY <2>1, <2>8 DEF Segment
  <2> QED  BY <1>3, <2>2, <2>3, <2>4, <2>5, <2>6, <2>9
<1> QED  BY <1>4, <1>5

SegmentsAt(places, n, old, new, s, segs) ==
    /\ \A k, l \in 1..n : k < l => places[k] < places[l]
    /\ \A p \in Places(s) : \E k \in 1..n : places[k] = p
    /\ Len(segs) = n /\ DOMAIN segs = 1..n
    /\ \A k \in 1..n : segs[k] = SegmentAt(old, new, s, places[k])

LEMMA SegmentsList ==
    ASSUME NEW old, NEW new, NEW s \in Seq(Step), NEW segs, segs = Segments(old, new, s)
    PROVE  \E n \in Nat : \E places \in [1..n -> Places(s)] :
              SegmentsAt(places, n, old, new, s, segs)
<1> DEFINE places == InOrder(Places(s))
           n == Cardinality(Places(s))
           P == Places(s)
<1>1. Len(s) \in Nat /\ \A x \in P : x \in 1..Len(s)
  BY DEF Places
<1>2. /\ n \in Nat /\ places \in [1..n -> P]
      /\ \A k, l \in 1..n : k < l => places[k] < places[l]
      /\ \A p \in P : \E k \in 1..n : places[k] = p
  BY <1>1, InOrderLists
<1>3. segs = [k \in DOMAIN places |-> SegmentAt(old, new, s, places[k])]
  BY DEF Segments
<1> HIDE DEF places, n
<1>4. /\ Len(segs) = n /\ DOMAIN segs = 1..n
      /\ \A k \in 1..n : segs[k] = SegmentAt(old, new, s, places[k])
  BY <1>2, <1>3
<1> QED  BY <1>2, <1>4 DEF SegmentsAt

-----------------------------------------------------------------------------
\* Merging.  What is chosen of a segment is one paragraph or none.
LEMMA ChosenOf ==
    ASSUME NEW segs, NEW decisions, NEW i, NEW g \in Segment, segs[i] = g,
           g.kind = "same" => g.before = g.after
    PROVE  /\ g.kind = "same" \/ Accepted(segs, decisions, i)
                 => Chosen(segs, decisions, i) = IF g.kind # "removed" THEN <<g.after>> ELSE <<>>
           /\ g.kind = "same" \/ ~Accepted(segs, decisions, i)
                 => Chosen(segs, decisions, i) = IF g.kind # "added" THEN <<g.before>> ELSE <<>>
<1>1. g.kind \in Kinds
  BY DEF Segment
<1> DEFINE acc == Accepted(segs, decisions, i)
<1>2. acc \in BOOLEAN
  BY DEF Accepted
<1> HIDE DEF acc
<1>3. Chosen(segs, decisions, i) =
        CASE g.kind = "same"    -> <<g.before>>
          [] g.kind = "changed" -> <<IF acc THEN g.after ELSE g.before>>
          [] g.kind = "added"   -> IF acc THEN <<g.after>> ELSE <<>>
          [] g.kind = "removed" -> IF acc THEN <<>> ELSE <<g.before>>
  BY DEF Chosen, acc
<1>4. CASE g.kind = "same"
  BY <1>3, <1>4
<1>5. CASE g.kind = "changed"
  BY <1>2, <1>3, <1>5 DEF acc
<1>6. CASE g.kind = "added"
  BY <1>2, <1>3, <1>6 DEF acc
<1>7. CASE g.kind = "removed"
  BY <1>2, <1>3, <1>7 DEF acc
<1> QED  BY <1>1, <1>4, <1>5, <1>6, <1>7 DEF Kinds

\* The counts that a script keeps of a text are those of the places with one of its paragraphs.
LEMMA PlacesCount ==
    ASSUME NEW s \in Seq(Step), NEW kinds, NEW n \in Nat,
           NEW E, \A i \in E : i \in 1..n, NEW u, \A i \in E : u[i] \in Keep(s, kinds),
           \A i, j \in E : i < j => u[i] < u[j],
           \A y \in Keep(s, kinds) : \E i \in E : u[i] = y
    PROVE  /\ \A i \in E : Count(E, i) = Upto(s, u[i], kinds)
           /\ Cardinality(E) = Upto(s, Len(s), kinds)
<1> DEFINE D == Keep(s, kinds)
           v == [i \in E |-> u[i]]
<1>1. Len(s) \in Nat /\ \A y \in D : y \in Nat /\ y \in 0..Len(s) /\ y <= Len(s)
  BY DEF Keep
<1>2. v \in [E -> D] /\ \A i \in E : v[i] = u[i]
  OBVIOUS
<1> HIDE DEF D, v
<1>3. /\ \A i, j \in E : i < j => v[i] < v[j]
      /\ \A y \in D : \E i \in E : v[i] = y
  BY <1>2 DEF D
<1>4. (\A i \in E : Count(E, i) = Count(D, v[i])) /\ Cardinality(E) = Cardinality(D)
  BY <1>1, <1>2, <1>3, OrderKeepsCount
<1>5. \A i \in E : Count(E, i) = Upto(s, u[i], kinds)
  BY <1>1, <1>2, <1>4, UptoCounts DEF D
<1>6. Below(D, Len(s)) = D
  BY <1>1 DEF Below
<1>7. Upto(s, Len(s), kinds) = Count(D, Len(s))
  BY <1>1, UptoCounts DEF D
<1> QED  BY <1>4, <1>5, <1>6, <1>7 DEF Count

\* What merge joins: the paragraphs chosen of all segments.
Taken(segs, decisions) == FlattenSeq([i \in DOMAIN segs |-> Chosen(segs, decisions, i)])

\* Accepting every difference leaves the new paragraphs.
LEMMA AllAcceptedIsNew ==
    ASSUME NEW old \in Seq(Block), NEW new \in Seq(Block), NEW s \in Seq(Step),
           Leads(s, old, new), NEW segs, segs = Segments(old, new, s), NEW decisions,
           \A i \in DOMAIN segs : segs[i].kind # "same" => Accepted(segs, decisions, i)
    PROVE  Taken(segs, decisions) = new
<1>n. PICK n \in Nat : \E places \in [1..n -> Places(s)] : SegmentsAt(places, n, old, new, s, segs)
  BY SegmentsList
<1>p. PICK places \in [1..n -> Places(s)] : SegmentsAt(places, n, old, new, s, segs)
  BY <1>n
<1>1. /\ \A k, l \in 1..n : k < l => places[k] < places[l]
      /\ \A p \in Places(s) : \E k \in 1..n : places[k] = p
      /\ Len(segs) = n /\ DOMAIN segs = 1..n
      /\ \A k \in 1..n : segs[k] = SegmentAt(old, new, s, places[k])
  BY <1>p DEF SegmentsAt
<1> DEFINE E == {i \in 1..n : places[i] \in NewPlaces(s)}
           u == [i \in E |-> Target(s, places[i])]
           seqs == [i \in DOMAIN segs |-> Chosen(segs, decisions, i)]
<1>2. /\ \A i \in E : u[i] \in Keep(s, {"same", "added"})
      /\ \A i, j \in E : i < j => u[i] < u[j]
      /\ \A y \in Keep(s, {"same", "added"}) : \E i \in E : u[i] = y
  <2>1. \A i \in E : u[i] \in Keep(s, {"same", "added"})
    BY TargetIsAdded
  <2>2. \A i, j \in E : i < j => u[i] < u[j]
    BY <1>1, TargetOrder
  <2>3. ASSUME NEW y \in Keep(s, {"same", "added"}) PROVE \E i \in E : u[i] = y
    <3>1. PICK p \in NewPlaces(s) : Target(s, p) = y
      BY TargetOnto
    <3>2. PICK k \in 1..n : places[k] = p
      BY <1>1 DEF NewPlaces
    <3> QED  BY <3>1, <3>2
  <2> QED  BY <2>1, <2>2, <2>3
<1>3. \A i \in E : i \in 1..n
  OBVIOUS
<1> HIDE DEF u
<1>4. /\ \A i \in E : Count(E, i) = NewAt(s, u[i])
      /\ Cardinality(E) = NewAt(s, Len(s))
  <2> HIDE DEF E
  <2> QED  BY <1>2, <1>3, PlacesCount DEF NewAt
<1>5. Cardinality(E) = Len(new)
  BY <1>4 DEF Leads
<1>6. ASSUME NEW i \in 1..n
      PROVE  seqs[i] = (IF i \in E THEN <<new[Count(E, i)]>> ELSE <<>>) /\ seqs[i] \in Seq(Block)
  <2> DEFINE g == segs[i]
             p == places[i]
  <2>1. p \in Places(s) /\ g = SegmentAt(old, new, s, p)
    BY <1>1
  <2>2. seqs[i] = Chosen(segs, decisions, i) /\ (g.kind # "same" => Accepted(segs, decisions, i))
    BY <1>1
  <2>3. i \in E <=> p \in NewPlaces(s)
    OBVIOUS
  <2>4. i \in E => u[i] = Target(s, p)
    BY DEF u
  <2> HIDE DEF g, p, E, seqs
  <2>5. /\ g \in Segment
        /\ g.kind = "same" => g.before = g.after
        /\ g.kind # "removed" <=> p \in NewPlaces(s)
        /\ p \in NewPlaces(s) => g.after = new[NewAt(s, Target(s, p))] /\ g.after \in Block
    BY <2>1, SegmentShape
  <2>6. seqs[i] = IF g.kind # "removed" THEN <<g.after>> ELSE <<>>
    BY <2>2, <2>5, ChosenOf DEF g
  <2>7. i \in E => g.after = new[Count(E, i)]
    BY <1>4, <2>3, <2>4, <2>5
  <2>8. CASE i \in E
    BY <2>3, <2>5, <2>6, <2>7, <2>8
  <2>9. CASE i \notin E
    BY <2>3, <2>5, <2>6, <2>9
  <2> QED  BY <2>8, <2>9
<1>7. seqs = [i \in 1..n |-> seqs[i]]
  BY <1>1
<1> HIDE DEF seqs, E
<1>8. seqs \in Seq(Seq(Block)) /\ Len(seqs) = n
  <2>1. \A i \in 1..n : seqs[i] \in Seq(Block)
    BY <1>6
  <2> QED  BY <1>7, <2>1, IsSequence
<1>9. FlattenSeq(seqs) = new
  BY <1>3, <1>5, <1>6, <1>8, LaidOut
<1> QED  BY <1>9 DEF Taken, seqs

\* Accepting none leaves the old ones.
LEMMA AllRejectedIsOld ==
    ASSUME NEW old \in Seq(Block), NEW new \in Seq(Block), NEW s \in Seq(Step),
           Leads(s, old, new), NEW segs, segs = Segments(old, new, s), NEW decisions,
           \A i \in DOMAIN segs : segs[i].kind # "same" => ~Accepted(segs, decisions, i)
    PROVE  Taken(segs, decisions) = old
<1>n. PICK n \in Nat : \E places \in [1..n -> Places(s)] : SegmentsAt(places, n, old, new, s, segs)
  BY SegmentsList
<1>p. PICK places \in [1..n -> Places(s)] : SegmentsAt(places, n, old, new, s, segs)
  BY <1>n
<1>1. /\ \A k, l \in 1..n : k < l => places[k] < places[l]
      /\ \A p \in Places(s) : \E k \in 1..n : places[k] = p
      /\ Len(segs) = n /\ DOMAIN segs = 1..n
      /\ \A k \in 1..n : segs[k] = SegmentAt(old, new, s, places[k])
  BY <1>p DEF SegmentsAt
<1> DEFINE E == {i \in 1..n : places[i] \in OldPlaces(s)}
           seqs == [i \in DOMAIN segs |-> Chosen(segs, decisions, i)]
<1>2. /\ \A i \in E : places[i] \in Keep(s, {"same", "removed"})
      /\ \A i, j \in E : i < j => places[i] < places[j]
      /\ \A y \in Keep(s, {"same", "removed"}) : \E i \in E : places[i] = y
  <2>1. \A p \in OldPlaces(s) : p \in Keep(s, {"same", "removed"})
    <3>1. \A p \in DOMAIN s : s[p] \in Step
      OBVIOUS
    <3> QED  BY <3>1 DEF OldPlaces, Places, Keep, Step
  <2>2. \A y \in Keep(s, {"same", "removed"}) : y \in OldPlaces(s)
    BY DEF OldPlaces, Places, Keep, Pairs
  <2>3. ASSUME NEW y \in Keep(s, {"same", "removed"}) PROVE \E i \in E : places[i] = y
    <3>1. y \in OldPlaces(s) /\ y \in Places(s)
      BY <2>2 DEF OldPlaces
    <3>2. PICK k \in 1..n : places[k] = y
      BY <1>1, <3>1
    <3> QED  BY <3>1, <3>2
  <2> QED  BY <1>1, <2>1, <2>3
<1>3. \A i \in E : i \in 1..n
  OBVIOUS
<1>4. /\ \A i \in E : Count(E, i) = OldAt(s, places[i])
      /\ Cardinality(E) = OldAt(s, Len(s))
  <2> HIDE DEF E
  <2> QED  BY <1>2, <1>3, PlacesCount DEF OldAt
<1>5. Cardinality(E) = Len(old)
  BY <1>4 DEF Leads
<1>6. ASSUME NEW i \in 1..n
      PROVE  seqs[i] = (IF i \in E THEN <<old[Count(E, i)]>> ELSE <<>>) /\ seqs[i] \in Seq(Block)
  <2> DEFINE g == segs[i]
             p == places[i]
  <2>1. p \in Places(s) /\ g = SegmentAt(old, new, s, p)
    BY <1>1
  <2>2. seqs[i] = Chosen(segs, decisions, i) /\ (g.kind # "same" => ~Accepted(segs, decisions, i))
    BY <1>1
  <2>3. i \in E <=> p \in OldPlaces(s)
    OBVIOUS
  <2>4. i \in E => Count(E, i) = OldAt(s, p)
    BY <1>4
  <2> HIDE DEF g, p, E, seqs
  <2>5. /\ g \in Segment
        /\ g.kind = "same" => g.before = g.after
        /\ g.kind # "added" <=> p \in OldPlaces(s)
        /\ p \in OldPlaces(s) => g.before = old[OldAt(s, p)] /\ g.before \in Block
    BY <2>1, SegmentShape
  <2>6. seqs[i] = IF g.kind # "added" THEN <<g.before>> ELSE <<>>
    BY <2>2, <2>5, ChosenOf DEF g
  <2>7. CASE i \in E
    BY <2>3, <2>4, <2>5, <2>6, <2>7
  <2>8. CASE i \notin E
    BY <2>3, <2>5, <2>6, <2>8
  <2> QED  BY <2>7, <2>8
<1>7. seqs = [i \in 1..n |-> seqs[i]]
  BY <1>1
<1> HIDE DEF seqs, E
<1>8. seqs \in Seq(Seq(Block)) /\ Len(seqs) = n
  <2>1. \A i \in 1..n : seqs[i] \in Seq(Block)
    BY <1>6
  <2> QED  BY <1>7, <2>1, IsSequence
<1>9. FlattenSeq(seqs) = old
  BY <1>3, <1>5, <1>6, <1>8, LaidOut
<1> QED  BY <1>9 DEF Taken, seqs

-----------------------------------------------------------------------------
\* Texts and their paragraphs.
LEMMA TextTypes ==
    /\ <<>> \in Texts
    /\ \A t \in Texts : t \in Seq(Block)
<1>1. \A S : \A t \in SeqOf(S, MaxLines) : t \in Seq(S)
  BY ParaAssumption DEF ParaAssumption, SeqOf
<1>2. \A b \in Blocks : b \in Block
  BY <1>1 DEF Blocks, Block
<1>3. ASSUME NEW t \in Texts PROVE t \in Seq(Block)
  <2>1. t \in Seq(Blocks)
    BY <1>1 DEF Texts
  <2> QED  BY <1>2, <2>1
<1>4. <<>> \in Texts
  <2>1. <<>> \in [1..0 -> Blocks] /\ 0 \in 0..MaxLines
    BY ParaAssumption DEF ParaAssumption
  <2>2. <<>> \in SeqOf(Blocks, MaxLines)
    BY <2>1 DEF SeqOf
  <2>3. FlattenSeq(<<>>) = <<>>
    BY DEF FlattenSeq
  <2>4. Len(FlattenSeq(<<>>)) <= MaxLines
    BY <2>3, ParaAssumption DEF ParaAssumption
  <2> QED  BY <2>2, <2>4 DEF Texts
<1> QED  BY <1>3, <1>4

LEMMA FlattenFull ==
    ASSUME NEW seqs \in Seq(Block), seqs # <<>>
    PROVE  FlattenSeq(seqs) \in Block
<1>1. \A i \in 1..Len(seqs) : seqs[i] \in Seq(Lines) /\ seqs[i] # <<>>
  BY ElementOfSeq DEF Block
<1>2. seqs \in Seq(Seq(Lines)) /\ Len(seqs) \in Nat /\ Len(seqs) # 0
  BY <1>1
<1>3. PICK g : /\ \A i \in 0..Len(seqs) : g[i] \in Seq(Lines)
               /\ \A i \in 0..(Len(seqs) - 1) : g[i + 1] = g[i] \o seqs[i + 1]
               /\ FlattenSeq(seqs) = g[Len(seqs)]
  BY <1>2, FlattenSteps
<1> DEFINE m == Len(seqs) - 1
<1>4. m \in 0..Len(seqs) /\ m \in 0..(Len(seqs) - 1) /\ m + 1 = Len(seqs) /\ m + 1 \in 1..Len(seqs)
  BY <1>2
<1> HIDE DEF m
<1>5. g[m] \in Seq(Lines) /\ seqs[m + 1] \in Seq(Lines) /\ seqs[m + 1] # <<>>
      /\ FlattenSeq(seqs) = g[m] \o seqs[m + 1]
  BY <1>1, <1>3, <1>4
<1>6. \A a, b \in Seq(Lines) : b # <<>> => a \o b \in Seq(Lines) /\ a \o b # <<>>
  <2> TAKE a, b \in Seq(Lines)
  <2> HAVE b # <<>>
  <2>1. Len(b) # 0 /\ Len(a \o b) = Len(a) + Len(b) /\ Len(a) \in Nat /\ Len(b) \in Nat
    OBVIOUS
  <2>2. Len(a \o b) # 0
    BY <2>1
  <2> QED  BY <2>2
<1> QED  BY <1>5, <1>6 DEF Block

LEMMA JoinType ==
    ASSUME NEW paras \in Seq(Block), NEW sep
    PROVE  Join(paras, sep) \in Seq(Block)
<1>1. CASE paras = <<>> \/ sep = "blank"
  BY <1>1 DEF Join
<1>2. CASE ~(paras = <<>> \/ sep = "blank")
  <2>1. FlattenSeq(paras) \in Block
    BY <1>2, FlattenFull
  <2> QED  BY <1>2, <2>1 DEF Join
<1> QED  BY <1>1, <1>2

\* A block is its lines, each a paragraph of its own, joined again.
LEMMA LinesJoin ==
    ASSUME NEW b \in Block
    PROVE  /\ [i \in DOMAIN b |-> <<b[i]>>] \in Seq(Block)
           /\ [i \in DOMAIN b |-> <<b[i]>>] # <<>>
           /\ FlattenSeq([i \in DOMAIN b |-> <<b[i]>>]) = b
<1> DEFINE n == Len(b)
           seqs == [i \in DOMAIN b |-> <<b[i]>>]
           E == 1..n
<1>1. n \in Nat /\ DOMAIN b = 1..n /\ b \in Seq(Lines) /\ b # <<>>
  BY DEF Block
<1>2. \A i \in 1..n : <<b[i]>> \in Seq(Lines) /\ <<b[i]>> # <<>>
  BY <1>1, ElementOfSeq
<1>3. seqs = [i \in 1..n |-> seqs[i]] /\ \A i \in 1..n : seqs[i] = <<b[i]>>
  BY <1>1
<1> HIDE DEF seqs
<1>4. seqs \in Seq(Seq(Lines)) /\ seqs \in Seq(Block) /\ Len(seqs) = n
  <2>1. (\A i \in 1..n : seqs[i] \in Seq(Lines)) /\ (\A i \in 1..n : seqs[i] \in Block)
    BY <1>2, <1>3 DEF Block
  <2> HIDE DEF n
  <2>2. seqs \in Seq(Block) /\ Len(seqs) = n
    BY <1>1, <1>3, <2>1, IsSequence
  <2>3. seqs \in Seq(Seq(Lines))
    BY <1>1, <1>3, <2>1, IsSequence
  <2> QED  BY <2>2, <2>3
<1>5. seqs # <<>>
  <2>1. n # 0
    BY <1>1
  <2> QED  BY <1>4, <2>1
<1>6. /\ Cardinality(E) = n
      /\ \A i \in E : Count(E, i) = i
  <2>1. \A i \in E : Below(E, i) = 1..i /\ i \in Nat /\ i # 0
    BY <1>1 DEF Below
  <2>2. \A i \in Nat : Cardinality(1..i) = i
    BY FS_Interval
  <2> QED  BY <1>1, <2>1, <2>2 DEF Count
<1>7. \A i \in 1..n : seqs[i] = IF i \in E THEN <<b[Count(E, i)]>> ELSE <<>>
  BY <1>3, <1>6
<1>8. \A x \in E : x \in 1..n
  OBVIOUS
<1> HIDE DEF n, E
<1>9. FlattenSeq(seqs) = b
  BY <1>1, <1>4, <1>6, <1>7, <1>8, LaidOut DEF n
<1> QED  BY <1>4, <1>5, <1>9 DEF seqs

LEMMA ParasJoin ==
    ASSUME NEW t \in Texts
    PROVE  Paras(t) \in Seq(Block) /\ Join(Paras(t), Sep(t)) = t
<1>1. t \in Seq(Block)
  BY TextTypes
<1>2. CASE Len(t) = 1
  <2>1. t[1] \in Block /\ t = <<t[1]>>
    BY <1>1, <1>2
  <2>2. Paras(t) = [i \in DOMAIN t[1] |-> <<t[1][i]>>] /\ Sep(t) = "line"
    BY <1>2 DEF Paras, Sep
  <2>3. Paras(t) \in Seq(Block) /\ Paras(t) # <<>> /\ FlattenSeq(Paras(t)) = t[1]
    BY <2>1, <2>2, LinesJoin
  <2>4. Join(Paras(t), "line") = <<t[1]>>
    BY <2>3 DEF Join
  <2> QED  BY <2>1, <2>2, <2>3, <2>4
<1>3. CASE Len(t) # 1
  BY <1>1, <1>3 DEF Paras, Sep, Join
<1> QED  BY <1>2, <1>3

-----------------------------------------------------------------------------
\* Numbering the differences.
Different(segs) == {i \in 1..Len(segs) : segs[i].kind # "same"}

LEMMA DiffersCounts ==
    ASSUME NEW segs, Len(segs) \in Nat
    PROVE  /\ \A i \in 0..Len(segs) : Differs(segs, i) = Count(Different(segs), i)
           /\ Differs(segs, Len(segs)) \in Nat
           /\ Differs(segs, 0) = 0
           /\ \A i \in 1..Len(segs) :
                 segs[i].kind # "same" => Differs(segs, i) \in 1..Differs(segs, Len(segs))
           /\ \A i \in 0..(Len(segs) - 1) :
                 Differs(segs, i + 1) = IF segs[i + 1].kind # "same"
                                        THEN Differs(segs, i) + 1 ELSE Differs(segs, i)
<1> DEFINE n == Len(segs)
           E == Different(segs)
<1>1. \A i \in E : i \in 1..n /\ i \in Nat /\ i # 0
  BY DEF Different
<1>2. \A i \in 1..n : i \in E <=> segs[i].kind # "same"
  BY DEF Different
<1>3. ASSUME NEW i \in 0..n PROVE Differs(segs, i) = Count(E, i)
  <2>1. {x \in 1..i : segs[x].kind # "same"} = Below(E, i)
    BY DEF Below, Different
  <2> QED  BY <2>1 DEF Differs, Count
<1> HIDE DEF E
<1>4. n \in 0..n /\ 0 \in 0..n /\ n \in Nat
  OBVIOUS
<1>5. Count(E, n) \in Nat /\ Count(E, 0) = 0
  BY <1>1, <1>4, BelowFinite, CountZero
<1>6. ASSUME NEW i \in 1..n, segs[i].kind # "same" PROVE Differs(segs, i) \in 1..Differs(segs, n)
  <2>1. i \in E /\ i \in 0..n
    BY <1>2, <1>6
  <2>2. Count(E, i) \in 1..Cardinality(E) /\ Count(E, n) = Cardinality(E)
    BY <1>1, <1>4, <2>1, CountWithin
  <2> QED  BY <1>3, <1>4, <2>1, <2>2
<1>7. ASSUME NEW i \in 0..(n - 1)
      PROVE  Differs(segs, i + 1) = IF segs[i + 1].kind # "same"
                                    THEN Differs(segs, i) + 1 ELSE Differs(segs, i)
  <2>1. i \in Nat /\ i \in 0..n /\ i + 1 \in 0..n /\ i + 1 \in 1..n
    BY <1>4
  <2>2. Count(E, i + 1) = IF i + 1 \in E THEN Count(E, i) + 1 ELSE Count(E, i)
    BY <1>1, <2>1, CountStep
  <2> QED  BY <1>2, <1>3, <2>1, <2>2
<1> QED  BY <1>3, <1>4, <1>5, <1>6, <1>7 DEF E

LEMMA DiffersNat ==
    ASSUME NEW segs, Len(segs) \in Nat, NEW i \in 0..Len(segs)
    PROVE  Differs(segs, i) \in Nat
<1>1. \A x \in Different(segs) : x \in Nat
  BY DEF Different
<1>2. Differs(segs, i) = Count(Different(segs), i)
  BY DiffersCounts
<1> QED  BY <1>1, <1>2, BelowFinite

\* Deciding all alike decides every difference.
LEMMA AllDecides ==
    ASSUME NEW segs, Len(segs) \in Nat, NEW i \in 1..Len(segs), segs[i].kind # "same",
           NEW d
    PROVE  Accepted(segs, All(Differs(segs, Len(segs)), d), i) <=> d = "accept"
<1>1. Differs(segs, i) \in 1..Differs(segs, Len(segs))
  BY DiffersCounts
<1>2. All(Differs(segs, Len(segs)), d)[Differs(segs, i)] = d
  BY <1>1 DEF All
<1> QED  BY <1>2 DEF Accepted

-----------------------------------------------------------------------------
\* What the invariant says of an open review.
Decisions(n) == [1..n -> {"accept", "reject"}]

Review(base, incoming, segs, decisions) ==
    [open |-> TRUE, base |-> base, incoming |-> incoming, segs |-> segs,
     sep |-> Sep(incoming), decisions |-> decisions]

ReviewOf(r) ==
    /\ r = Review(r.base, r.incoming, r.segs, r.decisions)
    /\ r.base \in Texts /\ r.incoming \in Texts
    /\ r.segs \in DiffParas[r.base][r.incoming]
    /\ r.decisions \in Decisions(Differs(r.segs, Len(r.segs)))

LEMMA ScriptOf ==
    ASSUME NEW base \in Texts, NEW incoming \in Texts, NEW segs \in DiffParas[base][incoming]
    PROVE  \E s \in Seq(Step) : /\ Leads(s, Paras(base), Paras(incoming))
                                /\ segs = Segments(Paras(base), Paras(incoming), s)
<1>1. DiffParas[base][incoming] = {Segments(Paras(base), Paras(incoming), s) :
                                      s \in Scripts(Paras(base), Paras(incoming))}
  BY DEF DiffParas
<1>2. PICK s \in Scripts(Paras(base), Paras(incoming)) :
         segs = Segments(Paras(base), Paras(incoming), s)
  BY <1>1
<1> DEFINE m == Len(Paras(base)) + Len(Paras(incoming))
<1>3. s \in SeqOf(Step, m) /\ Leads(s, Paras(base), Paras(incoming))
  BY DEF Scripts, Step
<1>4. m \in Nat
  <2>1. Paras(base) \in Seq(Block) /\ Paras(incoming) \in Seq(Block)
    BY ParasJoin
  <2> QED  BY <2>1
<1> HIDE DEF m
<1>5. s \in Seq(Step)
  BY <1>3, <1>4 DEF SeqOf
<1> QED  BY <1>2, <1>3, <1>5

LEMMA SegmentsTyped ==
    ASSUME NEW base \in Texts, NEW incoming \in Texts, NEW segs \in DiffParas[base][incoming]
    PROVE  /\ Len(segs) \in Nat /\ DOMAIN segs = 1..Len(segs)
           /\ \A i \in 1..Len(segs) : /\ segs[i] \in Segment
                                      /\ segs[i].kind = "same" => segs[i].before = segs[i].after
                                      /\ segs[i].kind # "added" => segs[i].before \in Block
                                      /\ segs[i].kind # "removed" => segs[i].after \in Block
<1> DEFINE old == Paras(base)
           new == Paras(incoming)
<1>1. PICK s \in Seq(Step) : Leads(s, old, new) /\ segs = Segments(old, new, s)
  BY ScriptOf
<1>2. old \in Seq(Block) /\ new \in Seq(Block)
  BY ParasJoin
<1> HIDE DEF old, new
<1>3. PICK n \in Nat : \E places \in [1..n -> Places(s)] : SegmentsAt(places, n, old, new, s, segs)
  BY <1>1, SegmentsList
<1>4. PICK places \in [1..n -> Places(s)] : SegmentsAt(places, n, old, new, s, segs)
  BY <1>3
<1>5. Len(segs) = n /\ DOMAIN segs = 1..n
  BY <1>4 DEF SegmentsAt
<1>6. ASSUME NEW i \in 1..n
      PROVE  /\ segs[i] \in Segment
             /\ segs[i].kind = "same" => segs[i].before = segs[i].after
             /\ segs[i].kind # "added" => segs[i].before \in Block
             /\ segs[i].kind # "removed" => segs[i].after \in Block
  <2> DEFINE g == segs[i]
             p == places[i]
  <2>1. p \in Places(s) /\ g = SegmentAt(old, new, s, p)
    BY <1>4 DEF SegmentsAt
  <2> HIDE DEF g, p
  <2>2. /\ g \in Segment
        /\ g.kind = "same" => g.before = g.after
        /\ g.kind # "added" => g.before \in Block
        /\ g.kind # "removed" => g.after \in Block
    BY <1>1, <1>2, <2>1, SegmentShape
  <2> QED  BY <2>2 DEF g
<1> QED  BY <1>5, <1>6

-----------------------------------------------------------------------------
\* What the pane shows.
LEMMA SeenExists ==
    ASSUME NEW n \in Nat
    PROVE  \E f : f = [i \in 0..n |-> IF i = 0 THEN [count |-> 0, active |-> <<>>]
                                      ELSE See(f[i - 1], i)]
<1> DEFINE none == [count |-> 0, active |-> <<>>]
           S == {m \in Nat : \E f : f = [i \in 0..m |-> IF i = 0 THEN none ELSE See(f[i - 1], i)]}
<1> HIDE DEF none
<1>1. 0 \in S
  <2> DEFINE h == [i \in 0..0 |-> none]
  <2>1. h = [i \in 0..0 |-> IF i = 0 THEN none ELSE See(h[i - 1], i)]
    OBVIOUS
  <2> HIDE DEF h
  <2> QED  BY <2>1
<1>2. ASSUME NEW m \in Nat, m \in S PROVE m + 1 \in S
  <2>1. PICK f : f = [i \in 0..m |-> IF i = 0 THEN none ELSE See(f[i - 1], i)]
    BY <1>2
  <2> DEFINE h == [i \in 0..(m + 1) |-> IF i = m + 1 THEN See(f[m], m + 1) ELSE f[i]]
  <2>2. h = [i \in 0..(m + 1) |-> IF i = 0 THEN none ELSE See(h[i - 1], i)]
    BY <2>1
  <2> HIDE DEF h
  <2>3. \E f1 : f1 = [i \in 0..(m + 1) |-> IF i = 0 THEN none ELSE See(f1[i - 1], i)]
    BY <2>2
  <2>4. m + 1 \in Nat
    OBVIOUS
  <2> QED  BY <2>3, <2>4, Zenon
<1> HIDE DEF S
<1>3. n \in S
  BY <1>1, <1>2, SetInduction
<1> QED  BY <1>3 DEF S, none

LEMMA PanesOf ==
    ASSUME NEW g \in Segment, NEW on \in BOOLEAN
    PROVE  /\ on => Panes(g, on) = IF g.kind # "removed" THEN <<g.after>> ELSE <<>>
           /\ ~on /\ g.kind # "same" =>
                 Panes(g, on) = IF g.kind # "added" THEN <<g.before>> ELSE <<>>
<1>1. g.kind \in Kinds /\ g.before \in Seq(Lines) /\ g.after \in Seq(Lines)
  BY DEF Segment
<1>2. \A b \in Seq(Lines) : <<>> \o <<b>> = <<b>> /\ <<b>> \o <<>> = <<b>>
  OBVIOUS
<1>3. <<>> \o <<>> = <<>>
  OBVIOUS
<1>4. CASE on
  <2>1. Panes(g, on) = <<>> \o (IF g.kind # "removed" THEN <<g.after>> ELSE <<>>)
    BY <1>4 DEF Panes
  <2> QED  BY <1>1, <1>2, <1>3, <1>4, <2>1
<1>5. CASE ~on
  <2>1. Panes(g, on) = (IF g.kind \in {"changed", "removed"} THEN <<g.before>> ELSE <<>>) \o <<>>
    BY <1>5 DEF Panes
  <2> QED  BY <1>1, <1>2, <1>3, <1>5, <2>1 DEF Kinds
<1> QED  BY <1>4, <1>5

LEMMA ShownIsChosen ==
    ASSUME ReviewOf(review)
    PROVE  Shown = FlattenSeq([i \in DOMAIN review.segs |->
                                  Chosen(review.segs, review.decisions, i)])
<1> DEFINE segs == review.segs
           decisions == review.decisions
           n == Len(segs)
           seqs == [i \in DOMAIN segs |-> Chosen(segs, decisions, i)]
           none == [count |-> 0, active |-> <<>>]
           f == CHOOSE h : h = [i \in 0..n |-> IF i = 0 THEN none ELSE See(h[i - 1], i)]
<1>1. /\ n \in Nat /\ DOMAIN segs = 1..n
      /\ \A i \in 1..n : segs[i] \in Segment /\ (segs[i].kind = "same" => segs[i].before = segs[i].after)
  BY SegmentsTyped DEF ReviewOf
<1>2. f = [i \in 0..n |-> IF i = 0 THEN none ELSE See(f[i - 1], i)]
  <2>1. \E h : h = [i \in 0..n |-> IF i = 0 THEN none ELSE See(h[i - 1], i)]
    BY <1>1, SeenExists
  <2> QED  BY <2>1, Zenon
<1>3. Shown = f[n].active
  BY Zenon DEF Shown
<1> HIDE DEF f
<1>4. ASSUME NEW i \in 1..n
      PROVE  /\ seqs[i] = Chosen(segs, decisions, i)
             /\ seqs[i] \in Seq(Seq(Lines))
             /\ \A on \in BOOLEAN : on = (segs[i].kind = "same" \/ Accepted(segs, decisions, i))
                                       => Panes(segs[i], on) = seqs[i]
  <2> DEFINE g == segs[i]
  <2>1. g \in Segment /\ (g.kind = "same" => g.before = g.after)
    BY <1>1
  <2>2. seqs[i] = Chosen(segs, decisions, i)
    BY <1>1
  <2> HIDE DEF seqs
  <2>3. /\ g.kind = "same" \/ Accepted(segs, decisions, i)
              => seqs[i] = IF g.kind # "removed" THEN <<g.after>> ELSE <<>>
        /\ g.kind = "same" \/ ~Accepted(segs, decisions, i)
              => seqs[i] = IF g.kind # "added" THEN <<g.before>> ELSE <<>>
    BY <2>1, <2>2, ChosenOf
  <2>4. g.before \in Seq(Lines) /\ g.after \in Seq(Lines)
    BY <2>1 DEF Segment
  <2>5. seqs[i] \in Seq(Seq(Lines))
    <3>1. <<>> \in Seq(Seq(Lines)) /\ <<g.before>> \in Seq(Seq(Lines)) /\ <<g.after>> \in Seq(Seq(Lines))
      BY <2>4
    <3>2. CASE Accepted(segs, decisions, i)
      BY <2>3, <3>1, <3>2
    <3>3. CASE ~Accepted(segs, decisions, i)
      BY <2>3, <3>1, <3>3
    <3> QED  BY <3>2, <3>3
  <2>6. ASSUME NEW on \in BOOLEAN, on = (g.kind = "same" \/ Accepted(segs, decisions, i))
        PROVE  Panes(g, on) = seqs[i]
    BY <2>1, <2>3, <2>6, PanesOf
  <2> QED  BY <2>2, <2>5, <2>6
<1>5. seqs \in Seq(Seq(Seq(Lines))) /\ Len(seqs) = n
  <2>1. seqs = [i \in 1..n |-> seqs[i]]
    BY <1>1
  <2>2. \A i \in 1..n : seqs[i] \in Seq(Seq(Lines))
    BY <1>4
  <2> HIDE DEF seqs, n
  <2> QED  BY <1>1, <2>1, <2>2, IsSequence
<1> HIDE DEF seqs
<1>6. PICK g : /\ g[0] = <<>>
               /\ \A i \in 0..(n - 1) : g[i + 1] = g[i] \o seqs[i + 1]
               /\ FlattenSeq(seqs) = g[n]
  <2>1. \E g : /\ g[0] = <<>>
               /\ \A i \in 0..(Len(seqs) - 1) : g[i + 1] = g[i] \o seqs[i + 1]
               /\ FlattenSeq(seqs) = g[Len(seqs)]
    <3> DEFINE T == Seq(Lines)
    <3>1. seqs \in Seq(Seq(T))
      BY <1>5
    <3> HIDE DEF T
    <3> QED  BY <3>1, FlattenSteps
  <2> HIDE DEF n
  <2> QED  BY <1>5, <2>1
<1> DEFINE S == {i \in Nat : i <= n => f[i].count = Differs(segs, i) /\ f[i].active = g[i]}
<1>7. 0 \in S
  BY <1>1, <1>2, <1>6, DiffersCounts
<1>8. ASSUME NEW i \in Nat, i \in S PROVE i + 1 \in S
  <2> SUFFICES ASSUME i + 1 <= n
               PROVE  f[i + 1].count = Differs(segs, i + 1) /\ f[i + 1].active = g[i + 1]
    OBVIOUS
  <2>1. i \in 0..(n - 1) /\ i + 1 \in 1..n /\ i + 1 \in 0..n /\ i + 1 # 0 /\ (i + 1) - 1 = i
    BY <1>1
  <2>2. f[i].count = Differs(segs, i) /\ f[i].active = g[i]
    BY <1>1, <1>8
  <2>3. f[i + 1] = See(f[i], i + 1)
    BY <1>2, <2>1
  <2> DEFINE s == segs[i + 1]
             k == f[i].count + (IF s.kind = "same" THEN 0 ELSE 1)
             on == s.kind = "same" \/ decisions[k] = "accept"
  <2>4. f[i + 1].count = k /\ f[i + 1].active = f[i].active \o Panes(s, on)
    <3>1. f[i + 1] = [count |-> k, active |-> f[i].active \o Panes(s, on)]
      BY <2>3, Zenon DEF See
    <3> HIDE DEF k, on, s
    <3> QED  BY <3>1
  <2>5. k = Differs(segs, i + 1)
    <3>1. Differs(segs, i + 1) = IF segs[i + 1].kind # "same"
                                 THEN Differs(segs, i) + 1 ELSE Differs(segs, i)
      BY <1>1, <2>1, DiffersCounts
    <3>2. Differs(segs, i) \in Nat
      BY <1>1, <2>1, DiffersNat
    <3> QED  BY <2>2, <3>1, <3>2
  <2> HIDE DEF k
  <2>6. on \in BOOLEAN /\ on = (s.kind = "same" \/ Accepted(segs, decisions, i + 1))
    BY <2>5 DEF Accepted
  <2> HIDE DEF on
  <2>7. Panes(s, on) = seqs[i + 1]
    BY <1>4, <2>1, <2>6
  <2>8. g[i + 1] = g[i] \o seqs[i + 1]
    BY <1>6, <2>1
  <2> QED  BY <2>2, <2>4, <2>5, <2>7, <2>8
<1> HIDE DEF S
<1>9. n \in S
  BY <1>1, <1>7, <1>8, SetInduction
<1>10. f[n].active = g[n]
  BY <1>1, <1>9 DEF S
<1> QED  BY <1>3, <1>6, <1>10 DEF seqs

-----------------------------------------------------------------------------
\* The invariant, and that every action keeps it.
Bars == [busy : {"no", "edit", "translation"}, edit : BOOLEAN, translation : BOOLEAN]

EditorInv ==
    /\ sel \in BOOLEAN /\ preview \in BOOLEAN /\ bar \in Bars
    /\ bar # NoBar => sel /\ InEditor

ReviewInv == review = NoReview \/ ReviewOf(review)

IndInv == text \in Seq(Block) /\ ReviewInv /\ EditorInv

LEMMA ReviewFields ==
    \A base, incoming, segs, ds :
        LET r == Review(base, incoming, segs, ds)
        IN  /\ r.open = TRUE /\ r.base = base /\ r.incoming = incoming /\ r.segs = segs
            /\ r.sep = Sep(incoming) /\ r.decisions = ds
BY DEF Review

LEMMA OpenOrNot ==
    ASSUME ReviewInv
    PROVE  /\ review.open \in BOOLEAN
           /\ review.open => ReviewOf(review)
           /\ ~review.open => review = NoReview
<1>1. CASE review = NoReview
  BY <1>1 DEF NoReview
<1>2. CASE ReviewOf(review)
  <2>1. review.open = TRUE
    BY <1>2, ReviewFields DEF ReviewOf
  <2> QED  BY <1>2, <2>1
<1> QED  BY <1>1, <1>2 DEF ReviewInv

LEMMA NoBarType == NoBar \in Bars
BY DEF Bars, NoBar

LEMMA InitInv == Init => IndInv
<1> SUFFICES ASSUME Init PROVE IndInv
  OBVIOUS
<1>1. text \in Seq(Block) /\ ReviewInv
  BY TextTypes DEF Init, ReviewInv
<1>2. EditorInv
  BY NoBarType DEF Init, EditorInv
<1> QED  BY <1>1, <1>2 DEF IndInv

LEMMA MergeType ==
    ASSUME NEW base \in Texts, NEW incoming \in Texts, NEW segs \in DiffParas[base][incoming],
           NEW decisions, NEW sep
    PROVE  Merge(segs, decisions, sep) \in Seq(Block)
<1> DEFINE n == Len(segs)
           seqs == [i \in DOMAIN segs |-> Chosen(segs, decisions, i)]
<1>1. n \in Nat /\ DOMAIN segs = 1..n
  BY SegmentsTyped
<1>2. ASSUME NEW i \in 1..n PROVE Chosen(segs, decisions, i) \in Seq(Block)
  <2> DEFINE g == segs[i]
  <2>1. /\ g \in Segment
        /\ g.kind = "same" => g.before = g.after
        /\ g.kind # "added" => g.before \in Block
        /\ g.kind # "removed" => g.after \in Block
    BY SegmentsTyped
  <2>2. /\ Accepted(segs, decisions, i) =>
              Chosen(segs, decisions, i) = IF g.kind # "removed" THEN <<g.after>> ELSE <<>>
        /\ ~Accepted(segs, decisions, i) =>
              Chosen(segs, decisions, i) = IF g.kind # "added" THEN <<g.before>> ELSE <<>>
    BY <2>1, ChosenOf
  <2> HIDE DEF g
  <2>3. /\ <<>> \in Seq(Block)
        /\ g.kind # "added" => <<g.before>> \in Seq(Block)
        /\ g.kind # "removed" => <<g.after>> \in Seq(Block)
    BY <2>1
  <2>4. CASE Accepted(segs, decisions, i)
    BY <2>2, <2>3, <2>4
  <2>5. CASE ~Accepted(segs, decisions, i)
    BY <2>2, <2>3, <2>5
  <2> QED  BY <2>4, <2>5
<1>3. seqs = [i \in 1..n |-> seqs[i]] /\ \A i \in 1..n : seqs[i] \in Seq(Block)
  BY <1>1, <1>2
<1> HIDE DEF seqs, n
<1>4. seqs \in Seq(Seq(Block))
  BY <1>1, <1>3, IsSequence
<1>5. FlattenSeq(seqs) \in Seq(Block)
  BY <1>4, FlattenType
<1> QED  BY <1>5, JoinType DEF Merge, seqs

LEMMA ProposeEditor ==
    ASSUME EditorInv, sel' \in BOOLEAN, preview' = preview,
           bar' = IF review'.open \/ ~sel' THEN NoBar ELSE bar
    PROVE  EditorInv'
BY NoBarType DEF EditorInv, InEditor

LEMMA ProposeInv ==
    ASSUME IndInv, NEW incoming \in Texts, NEW same \in Seq(Block), sel' \in BOOLEAN,
           Propose(incoming, same)
    PROVE  IndInv'
<1>0. EditorInv'
  <2>1. EditorInv /\ preview' = preview /\ bar' = IF review'.open \/ ~sel' THEN NoBar ELSE bar
    BY DEF Propose, IndInv
  <2> QED  BY <2>1, ProposeEditor
<1>1. text \in Texts
  BY DEF Propose
<1>2. PICK segs \in DiffParas[text][incoming] :
         LET n == Differs(segs, Len(segs))
         IN  IF n = 0
             THEN text' = same /\ UNCHANGED review
             ELSE /\ review' = [open |-> TRUE, base |-> text, incoming |-> incoming,
                                segs |-> segs, sep |-> Sep(incoming),
                                decisions |-> All(n, "accept")]
                  /\ UNCHANGED text
  BY DEF Propose
<1> DEFINE n == Differs(segs, Len(segs))
<1>3. CASE n = 0
  <2>1. text' = same /\ review' = review
    BY <1>2, <1>3
  <2>2. ReviewInv'
    BY <2>1 DEF IndInv, ReviewInv, ReviewOf
  <2> QED  BY <1>0, <2>1, <2>2 DEF IndInv
<1>4. CASE n # 0
  <2>1. /\ review' = [open |-> TRUE, base |-> text, incoming |-> incoming, segs |-> segs,
                      sep |-> Sep(incoming), decisions |-> All(n, "accept")]
        /\ text' = text
    BY <1>2, <1>4
  <2>2. All(n, "accept") \in Decisions(n)
    BY DEF All, Decisions
  <2> HIDE DEF n
  <2>3. review' = Review(text, incoming, segs, All(n, "accept"))
    BY <2>1 DEF Review
  <2>4. /\ review'.base = text /\ review'.incoming = incoming /\ review'.segs = segs
        /\ review'.decisions = All(n, "accept")
    BY <2>3, ReviewFields
  <2>5. ReviewOf(review)'
    BY <1>1, <2>2, <2>3, <2>4 DEF ReviewOf, n
  <2>6. ReviewInv'
    BY <2>5 DEF ReviewInv
  <2>7. text' \in Seq(Block)
    BY <2>1 DEF IndInv
  <2> QED  BY <1>0, <2>6, <2>7 DEF IndInv
<1> QED  BY <1>3, <1>4

LEMMA DecideInv ==
    ASSUME IndInv, NEW i \in DOMAIN review.decisions, NEW d \in {"accept", "reject"}, Decide(i, d)
    PROVE  IndInv'
<1>1. ReviewOf(review)
  BY OpenOrNot DEF Decide, IndInv
<1> DEFINE n == Differs(review.segs, Len(review.segs))
           ds == [review.decisions EXCEPT ![i] = d]
<1>2. review' = [review EXCEPT !.decisions = ds]
  BY DEF Decide
<1>3. ds \in Decisions(n)
  BY <1>1 DEF ReviewOf, Decisions
<1> HIDE DEF ds
<1>4. review' = Review(review.base, review.incoming, review.segs, ds)
  <2> DEFINE b == review.base
             c == review.incoming
             g == review.segs
             e == review.decisions
  <2>1. review = Review(b, c, g, e)
    BY <1>1 DEF ReviewOf
  <2> HIDE DEF b, c, g, e
  <2>2. review' = Review(b, c, g, ds)
    BY <1>2, <2>1 DEF Review
  <2> QED  BY <2>2 DEF b, c, g
<1>5. /\ review'.open = TRUE /\ review'.base = review.base /\ review'.incoming = review.incoming
      /\ review'.segs = review.segs /\ review'.decisions = ds
  BY <1>4, ReviewFields
<1>a. ReviewOf(review)'
  <2>1. /\ review.base \in Texts /\ review.incoming \in Texts
        /\ review.segs \in DiffParas[review.base][review.incoming]
    BY <1>1 DEF ReviewOf
  <2> QED  BY <1>3, <1>4, <1>5, <2>1 DEF ReviewOf
<1>6. review.open /\ review'.open
  BY <1>5 DEF Decide
<1>7. EditorInv'
  BY <1>6 DEF IndInv, EditorInv, Decide, InEditor
<1> QED  BY <1>a, <1>7 DEF IndInv, ReviewInv, Decide

\* Whatever ends a review leaves the editor with a text and an empty bar.
LEMMA EndInv ==
    ASSUME IndInv, review.open, review' = NoReview, text' \in Seq(Block),
           UNCHANGED <<sel, bar, preview>>
    PROVE  IndInv'
<1>1. bar = NoBar
  BY DEF IndInv, EditorInv, InEditor
<1>2. EditorInv'
  BY <1>1 DEF IndInv, EditorInv, NoBar
<1> QED  BY <1>2 DEF IndInv, ReviewInv, NoReview

LEMMA FinishInv == ASSUME IndInv, Finish \/ FinishAll \/ Discard PROVE IndInv'
<1>1. review.open /\ review' = NoReview /\ UNCHANGED <<sel, bar, preview>>
  BY DEF Finish, FinishAll, Discard
<1>2. ReviewOf(review)
  BY <1>1, OpenOrNot DEF IndInv
<1>3. \A decisions, sep : Merge(review.segs, decisions, sep) \in Seq(Block)
  BY <1>2, MergeType DEF ReviewOf
<1>4. text' \in Seq(Block)
  BY <1>3 DEF Finish, FinishAll, Discard, IndInv
<1> QED  BY <1>1, <1>4, EndInv

LEMMA VersionInv ==
    ASSUME IndInv, NEW t \in Texts, Revert(t) \/ RevertPreviewed(t)
    PROVE  IndInv'
<1>1. Revert(t) /\ t \in Seq(Block)
  BY TextTypes DEF RevertPreviewed
<1>2. EditorInv'
  BY <1>1 DEF IndInv, EditorInv, Revert, InEditor
<1> QED  BY <1>1, <1>2 DEF IndInv, ReviewInv, ReviewOf, Revert

\* Typing, the selection, the bar and the preview.
LEMMA TypeInv == ASSUME IndInv, Type \/ SwitchChapter PROVE IndInv'
<1>1. CASE Type
  <2>1. text' \in Seq(Block)
    BY <1>1, TextTypes DEF Type
  <2> QED  BY <1>1, <2>1 DEF IndInv, ReviewInv, ReviewOf, EditorInv, Type, InEditor
<1>2. CASE SwitchChapter
  <2>1. text' \in Seq(Block) /\ ReviewInv'
    BY <1>2, TextTypes DEF SwitchChapter, ReviewInv
  <2>2. EditorInv'
    BY <1>2, NoBarType DEF SwitchChapter, EditorInv
  <2> QED  BY <2>1, <2>2 DEF IndInv
<1> QED  BY <1>1, <1>2

LEMMA BarInv ==
    ASSUME IndInv, NEW yes \in BOOLEAN,
           \/ AskEdit \/ AskTranslation \/ Select(yes) \/ Answer(yes)
           \/ OpenPreview \/ ClosePreview
    PROVE  IndInv'
<1>1. text' = text /\ review' = review
  BY DEF AskEdit, AskTranslation, Select, Answer, OpenPreview, ClosePreview
<1>2. bar \in Bars /\ NoBar \in Bars
  BY DEF IndInv, EditorInv, Bars, NoBar
<1>3. CASE AskEdit \/ AskTranslation
  <2>1. bar' \in Bars
    BY <1>2, <1>3 DEF AskEdit, AskTranslation, Bars, NoBar
  <2> QED  BY <1>1, <1>3, <2>1
      DEF IndInv, ReviewInv, ReviewOf, EditorInv, AskEdit, AskTranslation, InEditor
<1>4. CASE Select(yes)
  BY <1>1, <1>2, <1>4 DEF IndInv, ReviewInv, ReviewOf, EditorInv, Select, InEditor
<1>5. CASE Answer(yes)
  <2>1. bar' \in Bars
    BY <1>2, <1>5 DEF Answer, Bars
  <2>2. bar # NoBar
    BY <1>5 DEF Answer, NoBar
  <2> QED  BY <1>1, <1>5, <2>1, <2>2
      DEF IndInv, ReviewInv, ReviewOf, EditorInv, Answer, InEditor
<1>6. CASE OpenPreview
  BY <1>1, <1>2, <1>6 DEF IndInv, ReviewInv, ReviewOf, EditorInv, OpenPreview
<1>7. CASE ClosePreview
  <2>1. bar = NoBar
    BY <1>7 DEF IndInv, EditorInv, ClosePreview, InEditor
  <2> QED  BY <1>1, <1>2, <1>7, <2>1
      DEF IndInv, ReviewInv, ReviewOf, EditorInv, ClosePreview
<1> QED  BY <1>3, <1>4, <1>5, <1>6, <1>7

LEMMA NextInv == IndInv /\ [Next]_vars => IndInv'
<1> SUFFICES ASSUME IndInv, [Next]_vars PROVE IndInv'
  OBVIOUS
<1>1. ASSUME NEW t \in Texts, Enter(t) PROVE IndInv'
  <2>1. Propose(t, t) /\ sel' \in BOOLEAN
    BY <1>1 DEF Enter, IndInv, EditorInv
  <2>2. t \in Seq(Block)
    BY TextTypes
  <2> QED  BY <2>1, <2>2, ProposeInv
<1>2. CASE Apply
  <2>1. PICK t \in Spliced : Propose(t, text)
    BY <1>2 DEF Apply
  <2>2. t \in Texts
    BY DEF Spliced
  <2>3. text \in Seq(Block) /\ sel' \in BOOLEAN
    BY <1>2 DEF IndInv, Apply
  <2> QED  BY <2>1, <2>2, <2>3, ProposeInv
<1>3. ASSUME NEW t \in Texts, Revert(t) \/ RevertPreviewed(t) PROVE IndInv'
  BY <1>3, VersionInv
<1>4. ASSUME NEW i \in DOMAIN review.decisions, NEW d \in {"accept", "reject"}, Decide(i, d)
      PROVE  IndInv'
  BY <1>4, DecideInv
<1>5. CASE Finish \/ FinishAll \/ Discard
  BY <1>5, FinishInv
<1>6. CASE Type \/ SwitchChapter
  BY <1>6, TypeInv
<1>7. CASE AskEdit \/ AskTranslation \/ OpenPreview \/ ClosePreview
  BY <1>7, BarInv
<1>8. ASSUME NEW yes \in BOOLEAN, Select(yes) \/ Answer(yes) PROVE IndInv'
  BY <1>8, BarInv
<1>9. CASE UNCHANGED vars
  BY <1>9 DEF vars, IndInv, ReviewInv, ReviewOf, EditorInv, InEditor
<1> QED
  BY <1>1, <1>2, <1>3, <1>4, <1>5, <1>6, <1>7, <1>8, <1>9 DEF Next

LEMMA Invariant == Spec => []IndInv
<1>1. Init => IndInv
  BY InitInv
<1>2. IndInv /\ [Next]_vars => IndInv'
  BY NextInv
<1> QED  BY <1>1, <1>2, PTL DEF Spec

-----------------------------------------------------------------------------
\* The invariant gives the types of the variables.
LEMMA SepType == \A t : Sep(t) \in {"line", "blank"}
BY DEF Sep

LEMMA ReviewType ==
    ASSUME ReviewInv
    PROVE  /\ review.open \in BOOLEAN /\ review.base \in Texts /\ review.incoming \in Texts
           /\ review.sep \in {"line", "blank"}
           /\ \A i \in DOMAIN review.segs :
                review.segs[i] \in [kind : {"same", "changed", "added", "removed"},
                                    before : Seq(Lines), after : Seq(Lines)]
           /\ review.decisions
                \in [1..Differs(review.segs, Len(review.segs)) -> {"accept", "reject"}]
<1>1. CASE review = NoReview
  <2>1. /\ review.open = FALSE /\ review.base = <<>> /\ review.incoming = <<>>
        /\ review.sep = "blank" /\ review.segs = <<>> /\ review.decisions = <<>>
    BY <1>1 DEF NoReview
  <2>2. Differs(<<>>, Len(<<>>)) = 0
    <3>1. Len(<<>>) = 0
      OBVIOUS
    <3>2. Differs(<<>>, 0) = 0
      BY <3>1, DiffersCounts
    <3> QED  BY <3>1, <3>2
  <2>3. <<>> \in [1..0 -> {"accept", "reject"}] /\ DOMAIN <<>> = {}
    OBVIOUS
  <2>4. \A i \in DOMAIN review.segs : FALSE
    BY <2>1, <2>3
  <2>5. review.decisions
          \in [1..Differs(review.segs, Len(review.segs)) -> {"accept", "reject"}]
    BY <2>1, <2>2, <2>3
  <2> QED  BY <2>1, <2>4, <2>5, TextTypes
<1>2. CASE ReviewOf(review)
  <2>1. review.open = TRUE /\ review.sep = Sep(review.incoming)
    BY <1>2, ReviewFields DEF ReviewOf
  <2>2. /\ review.base \in Texts /\ review.incoming \in Texts
        /\ review.segs \in DiffParas[review.base][review.incoming]
        /\ review.decisions \in Decisions(Differs(review.segs, Len(review.segs)))
    BY <1>2 DEF ReviewOf
  <2>3. \A i \in DOMAIN review.segs : review.segs[i] \in Segment
    BY <2>2, SegmentsTyped
  <2> QED  BY <2>1, <2>2, <2>3, SepType DEF Decisions, Segment, Kinds
<1> QED  BY <1>1, <1>2 DEF ReviewInv

\* The variables have their types: there is a decision for every difference, and the bar
\* offers something only over a selection in the open editor.
THEOREM ReviewTypes == Spec => []TypeOK
<1>1. IndInv => TypeOK
  <2> SUFFICES ASSUME IndInv PROVE TypeOK
    OBVIOUS
  <2>1. text \in Seq(Seq(Lines) \ {<<>>})
    BY DEF IndInv, Block
  <2>2. /\ sel \in BOOLEAN /\ preview \in BOOLEAN
        /\ bar \in [busy : {"no", "edit", "translation"}, edit : BOOLEAN, translation : BOOLEAN]
        /\ bar # NoBar => sel /\ InEditor
    BY DEF IndInv, EditorInv, Bars
  <2> QED  BY <2>1, <2>2, ReviewType DEF IndInv, TypeOK
<1> QED  BY <1>1, Invariant, PTL

\* Whatever edit script the library answers and in which order it removes and adds: accepting
\* every difference stores the proposed text, rejecting every one the paragraphs of the old.
THEOREM AcceptsOrKeeps == Spec => []AllOrNothing
<1>1. IndInv => AllOrNothing
  <2> SUFFICES ASSUME IndInv, review.open
               PROVE  LET n == Len(review.decisions)
                      IN  /\ Merge(review.segs, All(n, "accept"), review.sep) = review.incoming
                          /\ Merge(review.segs, All(n, "reject"), review.sep)
                                 = Join(Paras(review.base), review.sep)
    BY DEF AllOrNothing
  <2> DEFINE base == review.base
             incoming == review.incoming
             segs == review.segs
             n == Differs(segs, Len(segs))
             old == Paras(base)
             new == Paras(incoming)
  <2>1. ReviewOf(review)
    BY OpenOrNot DEF IndInv
  <2>2. /\ base \in Texts /\ incoming \in Texts /\ segs \in DiffParas[base][incoming]
        /\ review.decisions \in [1..n -> {"accept", "reject"}]
    BY <2>1 DEF ReviewOf, Decisions
  <2>3. review.sep = Sep(incoming)
    BY <2>1, ReviewFields DEF ReviewOf
  <2>4. Len(segs) \in Nat /\ DOMAIN segs = 1..Len(segs) /\ n \in Nat
    BY <2>2, SegmentsTyped, DiffersCounts
  <2>5. Len(review.decisions) = n
    <3> HIDE DEF n
    <3> QED  BY <2>2, <2>4
  <2>6. PICK s \in Seq(Step) : Leads(s, old, new) /\ segs = Segments(old, new, s)
    BY <2>2, ScriptOf
  <2>7. old \in Seq(Block) /\ new \in Seq(Block) /\ Join(new, Sep(incoming)) = incoming
    BY <2>2, ParasJoin
  <2>8. ASSUME NEW d, NEW i \in DOMAIN segs, segs[i].kind # "same"
        PROVE  Accepted(segs, All(n, d), i) <=> d = "accept"
    BY <2>4, <2>8, AllDecides
  <2> HIDE DEF base, incoming, segs, n, old, new
  <2>9. Taken(segs, All(n, "accept")) = new
    <3> DEFINE decisions == All(n, "accept")
    <3>1. \A i \in DOMAIN segs : segs[i].kind # "same" => Accepted(segs, decisions, i)
      BY <2>8
    <3> HIDE DEF decisions
    <3>2. Taken(segs, decisions) = new
      BY <2>6, <2>7, <3>1, AllAcceptedIsNew
    <3> QED  BY <3>2 DEF decisions
  <2>10. Taken(segs, All(n, "reject")) = old
    <3> DEFINE decisions == All(n, "reject")
    <3>1. \A i \in DOMAIN segs : segs[i].kind # "same" => ~Accepted(segs, decisions, i)
      BY <2>8
    <3> HIDE DEF decisions
    <3>2. Taken(segs, decisions) = old
      BY <2>6, <2>7, <3>1, AllRejectedIsOld
    <3> QED  BY <3>2 DEF decisions
  <2>11. Merge(segs, All(n, "accept"), review.sep) = incoming
    BY <2>3, <2>7, <2>9 DEF Merge, Taken
  <2>12. Merge(segs, All(n, "reject"), review.sep) = Join(old, review.sep)
    BY <2>10 DEF Merge, Taken
  <2> QED  BY <2>5, <2>11, <2>12 DEF base, incoming, segs, old
<1> QED  BY <1>1, Invariant, PTL

\* The counter of the pane and the one of merge number the differences alike: finishing
\* stores what the pane shows as active, after any decisions.
THEOREM StoresWhatIsShown == Spec => []ShownIsMerged
<1>1. IndInv => ShownIsMerged
  <2> SUFFICES ASSUME IndInv, review.open
               PROVE  Join(Shown, review.sep)
                         = Merge(review.segs, review.decisions, review.sep)
    BY DEF ShownIsMerged
  <2>1. ReviewOf(review)
    BY OpenOrNot DEF IndInv
  <2>2. Shown = FlattenSeq([i \in DOMAIN review.segs |->
                               Chosen(review.segs, review.decisions, i)])
    BY <2>1, ShownIsChosen
  <2> QED  BY <2>2 DEF Merge
<1> QED  BY <1>1, Invariant, PTL
=============================================================================
