------------------------ MODULE SevenZStagingProofs ------------------------
(***************************************************************************)
(* What the operations of SevenZStaging keep, for every vector: the order  *)
(* of paths is total, an arrangement loses and doubles nothing, and no     *)
(* operation makes two entries of one path or an entry out of nothing.     *)
(***************************************************************************)
EXTENDS SevenZStaging, FiniteSetTheorems, FunctionTheorems, SequenceTheorems,
        WellFoundedInduction, TLAPS

String == Seq(Nat)

-----------------------------------------------------------------------------
(* The order of paths.                                                     *)

\* A set of numbers up to n has a least one.
LEMMA Least ==
  ASSUME NEW n \in Nat, NEW D \in SUBSET (1..n), D # {}
  PROVE  \E m \in D : \A k \in 1..(m - 1) : k \notin D
<1> DEFINE Upto == {1..k : k \in D}
           FS == FiniteSubsetsOf(1..n)
<1>1. Upto \subseteq FS /\ Upto # {}
  <2>1. ASSUME NEW k \in D PROVE (1..k) \in FS
    <3>1. k \in 1..n /\ IsFiniteSet(1..k) /\ (1..k) \in SUBSET (1..n)
      BY FS_Interval
    <3> QED
      BY <3>1 DEF FiniteSubsetsOf
  <2> QED
    BY <2>1
<1>2. IsWellFoundedOn(StrictSubsetOrdering(1..n), FS)
  BY FS_StrictSubsetOrderingWellFounded
<1>3. PICK x \in Upto : \A y \in Upto : ~(<<y, x>> \in StrictSubsetOrdering(1..n))
  BY <1>1, <1>2, WFMin, Zenon
<1>4. PICK m \in D : x = 1..m
  OBVIOUS
<1>5. ASSUME NEW k \in 1..(m - 1), k \in D PROVE FALSE
  <2>1. (1..k) \in Upto /\ (1..k) \in SUBSET (1..n) /\ (1..m) \in SUBSET (1..n)
    BY <1>5
  <2>2. (1..k) \subseteq 1..m /\ (1..k) # 1..m
    BY <1>5
  <2>3. <<1..k, 1..m>> \in StrictSubsetOrdering(1..n)
    BY <2>1, <2>2 DEF StrictSubsetOrdering
  <2> QED
    BY <1>3, <1>4, <2>1, <2>3
<1> QED
  BY <1>5

\* Before, place by place: the two agree up to i, where p ends or is less.
LEMMA BeforeAt ==
  ASSUME NEW p \in String, NEW q \in String
  PROVE  Before(p, q) <=>
           \E i \in 1..Len(q) :
             /\ Len(p) >= i - 1
             /\ \A k \in 1..(i - 1) : p[k] = q[k]
             /\ Len(p) = i - 1 \/ p[i] < q[i]
<1>1. Len(p) \in Nat /\ Len(q) \in Nat
  BY LenProperties DEF String
<1>2. ASSUME NEW i \in 1..Len(q), Len(p) >= i - 1
      PROVE  SubSeq(p, 1, i - 1) = SubSeq(q, 1, i - 1) <=> \A k \in 1..(i - 1) : p[k] = q[k]
  <2>1. i - 1 \in Int /\ (i - 1) - 1 + 1 = i - 1 /\ i - 1 \in Nat
    BY <1>1
  <2>2. /\ SubSeq(p, 1, i - 1) \in Seq(Nat) /\ Len(SubSeq(p, 1, i - 1)) = i - 1
        /\ \A k \in 1..(i - 1) : SubSeq(p, 1, i - 1)[k] = p[k]
    <3>1. \A k \in 1..(i - 1) : p[k] \in Nat
      BY <1>1, <1>2, ElementOfSeq DEF String
    <3> QED
      BY <2>1, <3>1, SubSeqProperties
  <2>3. /\ SubSeq(q, 1, i - 1) \in Seq(Nat) /\ Len(SubSeq(q, 1, i - 1)) = i - 1
        /\ \A k \in 1..(i - 1) : SubSeq(q, 1, i - 1)[k] = q[k]
    <3>1. \A k \in 1..(i - 1) : q[k] \in Nat
      BY <1>1, <1>2, ElementOfSeq DEF String
    <3> QED
      BY <2>1, <3>1, SubSeqProperties
  <2>4. (\A k \in 1..(i - 1) : p[k] = q[k]) => SubSeq(p, 1, i - 1) = SubSeq(q, 1, i - 1)
    BY <2>2, <2>3, SeqEqual
  <2>5. SubSeq(p, 1, i - 1) = SubSeq(q, 1, i - 1) => \A k \in 1..(i - 1) : p[k] = q[k]
    BY <2>2, <2>3
  <2> QED
    BY <2>4, <2>5
<1> QED
  BY <1>2 DEF Before

LEMMA Elements == \A p \in String : Len(p) \in Nat /\ \A k \in 1..Len(p) : p[k] \in Nat
BY LenProperties, ElementOfSeq DEF String

\* Before is a strict total order.
LEMMA BeforeIrreflexive == \A p \in String : ~Before(p, p)
<1> SUFFICES ASSUME NEW p \in String, Before(p, p) PROVE FALSE
  OBVIOUS
<1>1. PICK i \in 1..Len(p) : Len(p) = i - 1 \/ p[i] < p[i]
  BY BeforeAt
<1> QED
  BY <1>1, Elements

LEMMA BeforeTransitive ==
  \A p, q, r \in String : Before(p, q) /\ Before(q, r) => Before(p, r)
<1> SUFFICES ASSUME NEW p \in String, NEW q \in String, NEW r \in String,
                    Before(p, q), Before(q, r)
             PROVE  Before(p, r)
  OBVIOUS
<1>1. PICK i \in 1..Len(q) : /\ Len(p) >= i - 1
                             /\ \A k \in 1..(i - 1) : p[k] = q[k]
                             /\ Len(p) = i - 1 \/ p[i] < q[i]
  BY BeforeAt
<1>2. PICK j \in 1..Len(r) : /\ Len(q) >= j - 1
                             /\ \A k \in 1..(j - 1) : q[k] = r[k]
                             /\ Len(q) = j - 1 \/ q[j] < r[j]
  BY BeforeAt
<1>3. /\ Len(p) \in Nat /\ Len(q) \in Nat /\ Len(r) \in Nat
      /\ \A k \in 1..Len(p) : p[k] \in Nat
      /\ \A k \in 1..Len(q) : q[k] \in Nat
      /\ \A k \in 1..Len(r) : r[k] \in Nat
  BY Elements
<1>4. CASE i < j
  <2>1. i \in 1..Len(r) /\ q[i] = r[i] /\ \A k \in 1..(i - 1) : p[k] = r[k]
    BY <1>1, <1>2, <1>3, <1>4
  <2> QED
    BY <1>1, <2>1, BeforeAt
<1>5. CASE j < i
  <2>1. /\ p[j] = q[j] /\ q[j] < r[j] /\ Len(p) >= j - 1
        /\ \A k \in 1..(j - 1) : p[k] = r[k]
    BY <1>1, <1>2, <1>3, <1>5
  <2> QED
    BY <1>2, <2>1, BeforeAt
<1>6. CASE i = j
  <2>1. \A k \in 1..(i - 1) : p[k] = r[k]
    BY <1>1, <1>2, <1>3, <1>6
  <2>2. Len(p) = i - 1 \/ p[i] < r[i]
    <3>1. CASE Len(p) = i - 1
      BY <3>1
    <3>2. CASE Len(p) # i - 1
      <4>1. p[i] < q[i] /\ q[i] < r[i] /\ i \in 1..Len(p) /\ i \in 1..Len(q) /\ i \in 1..Len(r)
        BY <1>1, <1>2, <1>3, <1>6, <3>2
      <4>2. p[i] \in Nat /\ q[i] \in Nat /\ r[i] \in Nat
        BY <1>3, <4>1
      <4> QED
        BY <4>1, <4>2
    <3> QED
      BY <3>1, <3>2
  <2> QED
    BY <1>1, <1>2, <1>6, <2>1, <2>2, BeforeAt
<1> QED
  BY <1>3, <1>4, <1>5, <1>6

LEMMA BeforeTotal == \A p, q \in String : p # q => Before(p, q) \/ Before(q, p)
<1> SUFFICES ASSUME NEW p \in String, NEW q \in String, p # q
             PROVE  Before(p, q) \/ Before(q, p)
  OBVIOUS
<1>1. /\ Len(p) \in Nat /\ Len(q) \in Nat
      /\ \A k \in 1..Len(p) : p[k] \in Nat
      /\ \A k \in 1..Len(q) : q[k] \in Nat
  BY Elements
<1> DEFINE n == Len(p) + Len(q) + 1
           D == {k \in 1..n : k > Len(p) \/ k > Len(q) \/ p[k] # q[k]}
<1>2. n \in Nat /\ n \in D /\ D \in SUBSET (1..n)
  BY <1>1
<1>3. PICK m \in D : \A k \in 1..(m - 1) : k \notin D
  <2> HIDE DEF n, D
  <2> QED
    BY <1>2, Least
<1>4. \A k \in 1..(m - 1) : k <= Len(p) /\ k <= Len(q) /\ p[k] = q[k]
  <2> SUFFICES ASSUME NEW k \in 1..(m - 1)
               PROVE  k <= Len(p) /\ k <= Len(q) /\ p[k] = q[k]
    OBVIOUS
  <2>1. k \in 1..n /\ k \notin D
    BY <1>2, <1>3
  <2> QED
    BY <1>1, <2>1
<1>5. m \in 1..n /\ Len(p) >= m - 1 /\ Len(q) >= m - 1
  <2>1. m \in 1..n
    BY <1>2
  <2>2. Len(p) >= m - 1
    <3>1. CASE Len(p) + 1 \in 1..(m - 1)
      BY <1>1, <1>4, <3>1
    <3> QED
      BY <1>1, <1>2, <2>1, <3>1
  <2>3. Len(q) >= m - 1
    <3>1. CASE Len(q) + 1 \in 1..(m - 1)
      BY <1>1, <1>4, <3>1
    <3> QED
      BY <1>1, <1>2, <2>1, <3>1
  <2> QED
    BY <2>1, <2>2, <2>3
<1>6. CASE Len(p) < m /\ Len(q) < m
  <2>1. Len(p) = m - 1 /\ Len(q) = m - 1
    BY <1>1, <1>5, <1>6
  <2>2. p = q
    BY <1>4, <2>1, SeqEqual DEF String
  <2> QED
    BY <2>2
<1>7. CASE Len(p) < m /\ Len(q) >= m
  <2>1. m \in 1..Len(q) /\ Len(p) = m - 1
    BY <1>1, <1>5, <1>7
  <2> QED
    BY <1>4, <1>5, <2>1, BeforeAt
<1>8. CASE Len(q) < m /\ Len(p) >= m
  <2>1. m \in 1..Len(p) /\ Len(q) = m - 1
    BY <1>1, <1>5, <1>8
  <2> QED
    BY <1>4, <1>5, <2>1, BeforeAt
<1>9. CASE Len(p) >= m /\ Len(q) >= m
  <2>1. m \in 1..Len(p) /\ m \in 1..Len(q) /\ p[m] # q[m]
    BY <1>1, <1>5, <1>9
  <2>2. p[m] < q[m] \/ q[m] < p[m]
    BY <1>1, <2>1
  <2> QED
    BY <1>4, <1>5, <2>1, <2>2, BeforeAt
<1> QED
  BY <1>1, <1>5, <1>6, <1>7, <1>8, <1>9

-----------------------------------------------------------------------------
(* Arranging.                                                              *)

\* A total order of a finite set K, as the set of those before each.
Orders(K, before) ==
  /\ before \in [K -> SUBSET K]
  /\ \A i \in K : i \notin before[i]
  /\ \A i, j \in K : i # j => i \in before[j] \/ j \in before[i]
  /\ \A i, j \in K : j \in before[i] => before[j] \subseteq before[i]

\* The number of those before says the place: one at each place, and those
\* that come before are at smaller ones.
LEMMA Ranks ==
  ASSUME NEW K, IsFiniteSet(K), NEW before, Orders(K, before)
  PROVE  /\ Cardinality(K) \in Nat
         /\ \A i \in K : Cardinality(before[i]) \in 0..(Cardinality(K) - 1)
         /\ \A i, j \in K : j \in before[i] => Cardinality(before[j]) < Cardinality(before[i])
         /\ \A r \in 0..(Cardinality(K) - 1) : \E i \in K : Cardinality(before[i]) = r
<1> DEFINE n == Cardinality(K)
           rank(i) == Cardinality(before[i])
<1>1. n \in Nat
  BY FS_CardinalityType
<1>2. ASSUME NEW i \in K PROVE IsFiniteSet(before[i]) /\ rank(i) \in Nat /\ rank(i) < n
  <2>1. before[i] \in SUBSET K /\ before[i] # K
    BY DEF Orders
  <2>2. IsFiniteSet(before[i]) /\ rank(i) <= n /\ rank(i) # n
    BY <2>1, FS_Subset
  <2>3. rank(i) \in Nat
    BY <2>2, FS_CardinalityType
  <2> QED
    BY <1>1, <2>2, <2>3
<1>3. ASSUME NEW i \in K, NEW j \in K, j \in before[i] PROVE rank(j) < rank(i)
  <2>1. before[j] \in SUBSET before[i] /\ before[j] # before[i]
    BY <1>3 DEF Orders
  <2>2. rank(j) <= rank(i) /\ rank(j) # rank(i)
    BY <1>2, <2>1, FS_Subset
  <2> QED
    BY <1>2, <2>2
<1> DEFINE f == [i \in K |-> rank(i)]
           N == 0..(n - 1)
<1>4. f \in [K -> N] /\ \A i, j \in K : f[i] = f[j] => i = j
  <2>1. ASSUME NEW i \in K PROVE rank(i) \in N
    BY <1>1, <1>2
  <2>2. ASSUME NEW i \in K, NEW j \in K, rank(i) = rank(j), i # j PROVE FALSE
    <3>1. i \in before[j] \/ j \in before[i]
      BY <2>2 DEF Orders
    <3> QED
      BY <1>2, <1>3, <2>2, <3>1
  <2> QED
    BY <2>1, <2>2
<1> HIDE DEF f
<1>5. f \in Injection(K, N)
  BY <1>4, Fun_IsInj
<1>6. IsFiniteSet(N) /\ Cardinality(N) = n
  <2>1. n - 1 \in Int /\ 0 \in Int
    BY <1>1
  <2>2. IsFiniteSet(N) /\ Cardinality(N) = IF 0 > n - 1 THEN 0 ELSE (n - 1) - 0 + 1
    BY <2>1, FS_Interval
  <2> QED
    BY <1>1, <2>2
<1>7. f \in Surjection(K, N)
  <2> HIDE DEF N
  <2> QED
    BY <1>5, <1>6, FS_Injection
<1>8. \A r \in N : \E i \in K : f[i] = r
  <2> HIDE DEF N
  <2> QED
    BY <1>7, Fun_SurjectionProperties
<1>9. \A i \in K : f[i] = rank(i)
  BY DEF f
<1> QED
  BY <1>1, <1>2, <1>3, <1>8, <1>9

\* Arranged holds, at each of its places, one entry of the places K: each of
\* them at one place, and in the order given.
ArrangedBy(w, v, n, K, before) ==
  \E at \in [1..n -> K] :
     /\ w = [k \in 1..n |-> v[at[k]]]
     /\ \A k, l \in 1..n : k < l => at[k] \in before[at[l]]
     /\ \A i \in K : \E k \in 1..n : at[k] = i

LEMMA Arrangement ==
  ASSUME NEW v, NEW K, IsFiniteSet(K), NEW before, Orders(K, before)
  PROVE  /\ Cardinality(K) \in Nat /\ DOMAIN Arranged(v, before) = 1..Cardinality(K)
         /\ ArrangedBy(Arranged(v, before), v, Cardinality(K), K, before)
<1> DEFINE n == Cardinality(K)
           at == [k \in 1..n |-> CHOOSE i \in K : Cardinality(before[i]) = k - 1]
<1>1. n \in Nat
  BY Ranks
<1>2. DOMAIN before = K
  BY DEF Orders
<1>3. ASSUME NEW k \in 1..n PROVE at[k] \in K /\ Cardinality(before[at[k]]) = k - 1
  <2>1. k - 1 \in 0..(n - 1)
    BY <1>1
  <2>2. \E i \in K : Cardinality(before[i]) = k - 1
    BY <2>1, Ranks
  <2>3. at[k] = CHOOSE i \in K : Cardinality(before[i]) = k - 1
    OBVIOUS
  <2> HIDE DEF at
  <2> QED
    BY <2>2, <2>3
<1>4. Arranged(v, before) = [k \in 1..n |-> v[at[k]]]
  BY <1>2 DEF Arranged
<1>5. at = [k \in 1..n |-> at[k]]
  OBVIOUS
<1> HIDE DEF at
<1>6. ASSUME NEW k \in 1..n, NEW l \in 1..n, k < l PROVE at[k] \in before[at[l]]
  <2>1. at[k] \in K /\ at[l] \in K /\ Cardinality(before[at[k]]) = k - 1 /\ Cardinality(before[at[l]]) = l - 1
    BY <1>3
  <2>2. k - 1 < l - 1 /\ ~(l - 1 < k - 1) /\ k - 1 # l - 1
    BY <1>1, <1>6
  <2>3. at[k] # at[l]
    BY <2>1, <2>2
  <2>4. at[l] \notin before[at[k]]
    BY <2>1, <2>2, Ranks
  <2> QED
    BY <2>1, <2>3, <2>4 DEF Orders
<1>7. at \in [1..n -> K]
  BY <1>3, <1>5
<1>10. ASSUME NEW i \in K PROVE \E k \in 1..n : at[k] = i
  <2>1. PICK k \in 1..n : Cardinality(before[i]) = k - 1
    <3>1. Cardinality(before[i]) \in 0..(n - 1)
      BY Ranks
    <3>2. Cardinality(before[i]) + 1 \in 1..n /\ Cardinality(before[i]) = (Cardinality(before[i]) + 1) - 1
      BY <1>1, <3>1
    <3> QED
      BY <3>2
  <2>2. at[k] \in K /\ Cardinality(before[at[k]]) = k - 1
    BY <1>3
  <2>3. at[k] \notin before[i] /\ i \notin before[at[k]]
    <3>1. ~(k - 1 < k - 1)
      BY <1>1
    <3> QED
      BY <2>1, <2>2, <3>1, Ranks
  <2> QED
    BY <2>2, <2>3 DEF Orders
<1>8. ArrangedBy(Arranged(v, before), v, n, K, before)
  <2> DEFINE w == Arranged(v, before)
  <2> HIDE DEF n, w
  <2>1. \A k, l \in 1..n : k < l => at[k] \in before[at[l]]
    BY <1>6
  <2>2. \A i \in K : \E k \in 1..n : at[k] = i
    BY <1>10
  <2> QED
    BY <1>4, <1>7, <2>1, <2>2 DEF ArrangedBy
<1>9. DOMAIN Arranged(v, before) = 1..n
  BY <1>4
<1> QED
  BY <1>1, <1>8, <1>9

-----------------------------------------------------------------------------
(* The vectors.                                                            *)

\* Entries that have a path.
Pathed(E) == \A e \in E : "path" \in DOMAIN e /\ e.path \in String

LEMMA Places7z ==
  ASSUME NEW E, NEW v \in Seq(E)
  PROVE  Len(v) \in Nat /\ \A i \in 1..Len(v) : v[i] \in E
BY LenProperties, ElementOfSeq

\* An entry of the vector w was one of v, each was there at most once, and
\* their order has not changed.
Inherits(w, v) ==
  \E at \in [1..Len(w) -> 1..Len(v)] :
    \A k \in 1..Len(w) : w[k] = v[at[k]] /\ \A l \in 1..Len(w) : k < l => at[k] < at[l]

LEMMA InheritsKeeps ==
  ASSUME NEW E, NEW v \in Seq(E), NEW w \in Seq(E), Inherits(w, v)
  PROVE  /\ \A k \in 1..Len(w) : \E j \in 1..Len(v) : w[k] = v[j]
         /\ Distinct(v) => Distinct(w)
         /\ Sorted(v) => Sorted(w)
<1>1. PICK at \in [1..Len(w) -> 1..Len(v)] :
        \A k \in 1..Len(w) : w[k] = v[at[k]] /\ \A l \in 1..Len(w) : k < l => at[k] < at[l]
  BY DEF Inherits
<1>2. Len(v) \in Nat /\ Len(w) \in Nat
  BY Places7z
<1>3. \A k, l \in 1..Len(w) : k # l => at[k] # at[l]
  BY <1>1, <1>2
<1>4. Distinct(v) => Distinct(w)
  BY <1>1, <1>3, SMTT(30) DEF Distinct
<1>5. Sorted(v) => Sorted(w)
  BY <1>1 DEF Sorted
<1> QED
  BY <1>1, <1>4, <1>5

LEMMA EraseAtIs ==
  ASSUME NEW E, NEW v \in Seq(E), NEW i \in 1..Len(v)
  PROVE  /\ EraseAt(v, i) \in Seq(E) /\ Len(EraseAt(v, i)) = Len(v) - 1
         /\ \A k \in 1..(Len(v) - 1) : EraseAt(v, i)[k] = IF k < i THEN v[k] ELSE v[k + 1]
<1> DEFINE a == SubSeq(v, 1, i - 1)
           b == SubSeq(v, i + 1, Len(v))
<1>1. Len(v) \in Nat /\ i \in Nat /\ \A k \in 1..Len(v) : v[k] \in E
  BY Places7z
<1>2. a \in Seq(E) /\ Len(a) = i - 1 /\ \A k \in 1..(i - 1) : a[k] = v[k]
  <2>1. \A k \in 1..(i - 1) : v[k] \in E
    BY <1>1
  <2>2. 1 \in Int /\ i - 1 \in Int
    BY <1>1
  <2>3. /\ a \in Seq(E) /\ Len(a) = IF 1 <= i - 1 THEN (i - 1) - 1 + 1 ELSE 0
        /\ \A k \in 1..((i - 1) - 1 + 1) : a[k] = v[1 + k - 1]
    BY <2>1, <2>2, SubSeqProperties
  <2> HIDE DEF a
  <2> QED
    BY <1>1, <2>3
<1>3. b \in Seq(E) /\ Len(b) = Len(v) - i /\ \A k \in 1..(Len(v) - i) : b[k] = v[i + k]
  <2>1. \A k \in (i + 1)..Len(v) : v[k] \in E
    BY <1>1
  <2>2. i + 1 \in Int /\ Len(v) \in Int
    BY <1>1
  <2>3. /\ b \in Seq(E) /\ Len(b) = IF i + 1 <= Len(v) THEN Len(v) - (i + 1) + 1 ELSE 0
        /\ \A k \in 1..(Len(v) - (i + 1) + 1) : b[k] = v[(i + 1) + k - 1]
    BY <2>1, <2>2, SubSeqProperties
  <2> HIDE DEF b
  <2> QED
    BY <1>1, <2>3
<1>4. EraseAt(v, i) = a \o b
  BY DEF EraseAt
<1> HIDE DEF a, b
<1>5. /\ a \o b \in Seq(E) /\ Len(a \o b) = Len(a) + Len(b)
      /\ \A k \in 1..(Len(a) + Len(b)) : (a \o b)[k] = IF k <= Len(a) THEN a[k] ELSE b[k - Len(a)]
  BY <1>2, <1>3, ConcatProperties
<1> DEFINE w == EraseAt(v, i)
<1>6. /\ w \in Seq(E) /\ Len(w) = (i - 1) + (Len(v) - i)
      /\ \A k \in 1..((i - 1) + (Len(v) - i)) : w[k] = IF k <= i - 1 THEN a[k] ELSE b[k - (i - 1)]
  BY <1>2, <1>3, <1>4, <1>5
<1> HIDE DEF w
<1>7. Len(w) = Len(v) - 1
  BY <1>1, <1>6
<1>8. ASSUME NEW k \in 1..(Len(v) - 1) PROVE w[k] = IF k < i THEN v[k] ELSE v[k + 1]
  <2>1. CASE k < i
    <3>1. k \in 1..((i - 1) + (Len(v) - i)) /\ k <= i - 1 /\ k \in 1..(i - 1)
      BY <1>1, <2>1
    <3>2. w[k] = a[k] /\ a[k] = v[k]
      BY <1>2, <1>6, <3>1
    <3> QED
      BY <2>1, <3>2
  <2>2. CASE k >= i
    <3>1. k - (i - 1) \in 1..(Len(v) - i) /\ i + (k - (i - 1)) = k + 1
      BY <1>1, <2>2
    <3>2. k \in 1..((i - 1) + (Len(v) - i)) /\ ~(k <= (i - 1))
      BY <1>1, <2>2
    <3>3. w[k] = b[k - (i - 1)] /\ b[k - (i - 1)] = v[k + 1]
      BY <1>3, <1>6, <3>1, <3>2
    <3> QED
      BY <1>1, <2>2, <3>3
  <2> QED
    BY <1>1, <2>1, <2>2
<1> QED
  BY <1>6, <1>7, <1>8 DEF w

LEMMA EraseAtInherits ==
  ASSUME NEW E, NEW v \in Seq(E), NEW i \in 1..Len(v)
  PROVE  EraseAt(v, i) \in Seq(E) /\ Inherits(EraseAt(v, i), v)
<1> DEFINE w == EraseAt(v, i)
           at == [k \in 1..Len(w) |-> IF k < i THEN k ELSE k + 1]
<1>1. /\ Len(v) \in Nat /\ w \in Seq(E) /\ Len(w) = Len(v) - 1
      /\ \A k \in 1..(Len(v) - 1) : w[k] = IF k < i THEN v[k] ELSE v[k + 1]
  BY EraseAtIs, Places7z
<1> HIDE DEF w
<1>2. at \in [1..Len(w) -> 1..Len(v)]
  BY <1>1
<1>3. \A k \in 1..Len(w) : w[k] = v[at[k]] /\ \A l \in 1..Len(w) : k < l => at[k] < at[l]
  BY <1>1
<1>4. Inherits(w, v)
  BY <1>2, <1>3 DEF Inherits
<1> QED
  BY <1>1, <1>4 DEF w

LEMMA InsertAtIs ==
  ASSUME NEW E, NEW v \in Seq(E), NEW e \in E, NEW i \in 1..(Len(v) + 1)
  PROVE  /\ InsertAt(v, i, e) \in Seq(E) /\ Len(InsertAt(v, i, e)) = Len(v) + 1
         /\ \A k \in 1..(Len(v) + 1) :
              InsertAt(v, i, e)[k] = IF k < i THEN v[k] ELSE IF k = i THEN e ELSE v[k - 1]
<1> DEFINE a == SubSeq(v, 1, i - 1)
           b == SubSeq(v, i, Len(v))
           c == a \o <<e>>
<1>1. Len(v) \in Nat /\ i \in Nat /\ \A k \in 1..Len(v) : v[k] \in E
  BY Places7z
<1>2. a \in Seq(E) /\ Len(a) = i - 1 /\ \A k \in 1..(i - 1) : a[k] = v[k]
  <2>1. \A k \in 1..(i - 1) : v[k] \in E
    BY <1>1
  <2>2. 1 \in Int /\ i - 1 \in Int
    BY <1>1
  <2>3. /\ a \in Seq(E) /\ Len(a) = IF 1 <= i - 1 THEN (i - 1) - 1 + 1 ELSE 0
        /\ \A k \in 1..((i - 1) - 1 + 1) : a[k] = v[1 + k - 1]
    BY <2>1, <2>2, SubSeqProperties
  <2> HIDE DEF a
  <2> QED
    BY <1>1, <2>3
<1>3. b \in Seq(E) /\ Len(b) = Len(v) - i + 1 /\ \A k \in 1..(Len(v) - i + 1) : b[k] = v[i + k - 1]
  <2>1. \A k \in i..Len(v) : v[k] \in E
    BY <1>1
  <2>2. i \in Int /\ Len(v) \in Int
    BY <1>1
  <2>3. /\ b \in Seq(E) /\ Len(b) = IF i <= Len(v) THEN Len(v) - i + 1 ELSE 0
        /\ \A k \in 1..(Len(v) - i + 1) : b[k] = v[i + k - 1]
    BY <2>1, <2>2, SubSeqProperties
  <2> HIDE DEF b
  <2> QED
    BY <1>1, <2>3
<1> HIDE DEF a, b
<1>4. c \in Seq(E) /\ Len(c) = i /\ \A k \in 1..i : c[k] = IF k < i THEN v[k] ELSE e
  <2>1. <<e>> \in Seq(E) /\ Len(<<e>>) = 1 /\ <<e>>[1] = e
    OBVIOUS
  <2>2. /\ c \in Seq(E) /\ Len(c) = Len(a) + Len(<<e>>)
        /\ \A k \in 1..(Len(a) + Len(<<e>>)) : c[k] = IF k <= Len(a) THEN a[k] ELSE <<e>>[k - Len(a)]
    BY <1>2, <2>1, ConcatProperties
  <2> HIDE DEF c
  <2>3. Len(c) = i
    BY <1>1, <1>2, <2>1, <2>2
  <2>4. ASSUME NEW k \in 1..i PROVE c[k] = IF k < i THEN v[k] ELSE e
    <3>1. CASE k < i
      BY <1>1, <1>2, <2>1, <2>2, <3>1
    <3>2. CASE k = i
      <4>1. k - Len(a) = 1 /\ ~(k <= Len(a)) /\ k \in 1..(Len(a) + Len(<<e>>))
        BY <1>1, <1>2, <2>1, <3>2
      <4> QED
        BY <1>1, <2>1, <2>2, <3>2, <4>1
    <3> QED
      BY <1>1, <3>1, <3>2
  <2> QED
    BY <2>2, <2>3, <2>4
<1>5. InsertAt(v, i, e) = c \o b
  <2>1. InsertAt(v, i, e) = a \o <<e>> \o b
    BY DEF InsertAt, a, b
  <2> QED
    BY <2>1
<1> HIDE DEF c
<1> DEFINE w == InsertAt(v, i, e)
<1>6. /\ w \in Seq(E) /\ Len(w) = i + (Len(v) - i + 1)
      /\ \A k \in 1..(i + (Len(v) - i + 1)) : w[k] = IF k <= i THEN c[k] ELSE b[k - i]
  <2>1. /\ c \o b \in Seq(E) /\ Len(c \o b) = Len(c) + Len(b)
        /\ \A k \in 1..(Len(c) + Len(b)) : (c \o b)[k] = IF k <= Len(c) THEN c[k] ELSE b[k - Len(c)]
    BY <1>3, <1>4, ConcatProperties
  <2> QED
    BY <1>3, <1>4, <1>5, <2>1
<1> HIDE DEF w
<1>7. Len(w) = Len(v) + 1
  BY <1>1, <1>6
<1>8. ASSUME NEW k \in 1..(Len(v) + 1)
      PROVE  w[k] = IF k < i THEN v[k] ELSE IF k = i THEN e ELSE v[k - 1]
  <2>1. CASE k <= i
    BY <1>1, <1>4, <1>6, <2>1
  <2>2. CASE k > i
    <3>1. k - i \in 1..(Len(v) - i + 1) /\ i + (k - i) - 1 = k - 1
      BY <1>1, <2>2
    <3>2. k \in 1..(i + (Len(v) - i + 1)) /\ ~(k <= i)
      BY <1>1, <2>2
    <3>3. w[k] = b[k - i] /\ b[k - i] = v[k - 1]
      BY <1>3, <1>6, <3>1, <3>2
    <3> QED
      BY <1>1, <2>2, <3>3
  <2> QED
    BY <1>1, <2>1, <2>2
<1> QED
  BY <1>6, <1>7, <1>8 DEF w

-----------------------------------------------------------------------------
(* The operations.                                                         *)

\* The entries of w are those of v at the places K, each at one place, in the
\* order given.
Laid(w, v, K, before) ==
  \E at \in [1..Len(w) -> K] :
     /\ \A k \in 1..Len(w) : w[k] = v[at[k]] /\ \A l \in 1..Len(w) : k < l => at[k] \in before[at[l]]
     /\ \A i \in K : \E k \in 1..Len(w) : at[k] = i

LEMMA ArrangedSeq ==
  ASSUME NEW E, NEW v \in Seq(E), NEW K \in SUBSET (1..Len(v)), NEW before, Orders(K, before)
  PROVE  Arranged(v, before) \in Seq(E) /\ Laid(Arranged(v, before), v, K, before)
<1> DEFINE w == Arranged(v, before)
           n == Cardinality(K)
<1>1. Len(v) \in Nat /\ \A i \in 1..Len(v) : v[i] \in E
  BY Places7z
<1>2. IsFiniteSet(K)
  <2>1. IsFiniteSet(1..Len(v))
    BY <1>1, FS_Interval
  <2> QED
    BY <2>1, FS_Subset
<1>3. n \in Nat
  BY <1>2, FS_CardinalityType
<1>4. PICK at \in [1..n -> K] :
        /\ w = [k \in 1..n |-> v[at[k]]]
        /\ \A k, l \in 1..n : k < l => at[k] \in before[at[l]]
        /\ \A i \in K : \E k \in 1..n : at[k] = i
  <2>1. ArrangedBy(w, v, n, K, before)
    BY <1>2, Arrangement
  <2> HIDE DEF w, n
  <2> QED
    BY <2>1 DEF ArrangedBy
<1> HIDE DEF w, n
<1>5. w \in [1..n -> E]
  <2>1. \A k \in 1..n : at[k] \in K /\ v[at[k]] \in E
    BY <1>1, <1>4
  <2> QED
    BY <1>4, <2>1
<1>6. w \in Seq(E) /\ Len(w) = n
  <2>1. w \in Seq(E)
    BY <1>3, <1>5, SeqDef
  <2>2. DOMAIN w = 1..n /\ DOMAIN w = 1..Len(w) /\ Len(w) \in Nat
    BY <1>5, <2>1, LenProperties
  <2> QED
    BY <1>3, <2>1, <2>2
<1>7. \A k \in 1..n : w[k] = v[at[k]]
  BY <1>4
<1>8. Laid(w, v, K, before)
  <2>1. at \in [1..Len(w) -> K] /\ \A i \in K : \E k \in 1..Len(w) : at[k] = i
    BY <1>4, <1>6
  <2>2. \A k \in 1..Len(w) : w[k] = v[at[k]] /\ \A l \in 1..Len(w) : k < l => at[k] \in before[at[l]]
    BY <1>4, <1>6, <1>7
  <2> QED
    BY <2>1, <2>2 DEF Laid
<1> QED
  BY <1>6, <1>8 DEF w

\* remove keeps what is not under the path, in its order.
LEMMA RemoveTreeInherits ==
  ASSUME NEW E, NEW v \in Seq(E), NEW p
  PROVE  /\ RemoveTree(v, p) \in Seq(E) /\ Inherits(RemoveTree(v, p), v)
         /\ \A i \in 1..Len(v) : ~Within(v[i].path, p) =>
              \E k \in 1..Len(RemoveTree(v, p)) : RemoveTree(v, p)[k] = v[i]
<1> DEFINE left == {i \in 1..Len(v) : ~Within(v[i].path, p)}
           before == [i \in left |-> {j \in left : j < i}]
           w == Arranged(v, before)
<1>1. left \in SUBSET (1..Len(v)) /\ Len(v) \in Nat
  BY Places7z
<1>2. w = RemoveTree(v, p)
  BY DEF RemoveTree
<1> HIDE DEF left
<1>3. Orders(left, before)
  <2>1. \A i, j \in left : i # j => i < j \/ j < i
    BY <1>1
  <2>2. DOMAIN before = left /\ before \in [left -> SUBSET left]
    OBVIOUS
  <2>3. \A i \in left : before[i] = {j \in left : j < i}
    OBVIOUS
  <2>4. \A i, j, k \in left : j < i /\ k < j => k < i
    BY <1>1
  <2>5. \A i \in left : ~(i < i)
    BY <1>1
  <2> HIDE DEF before
  <2> QED
    BY <2>1, <2>2, <2>3, <2>4, <2>5 DEF Orders
<1>4. \A i \in left : before[i] = {j \in left : j < i}
  OBVIOUS
<1> HIDE DEF before
<1>5. w \in Seq(E) /\ Laid(w, v, left, before)
  BY <1>1, <1>3, ArrangedSeq
<1> HIDE DEF w
<1>6. PICK at \in [1..Len(w) -> left] :
        /\ \A k \in 1..Len(w) : w[k] = v[at[k]] /\ \A l \in 1..Len(w) : k < l => at[k] \in before[at[l]]
        /\ \A i \in left : \E k \in 1..Len(w) : at[k] = i
  BY <1>5 DEF Laid
<1>7. at \in [1..Len(w) -> 1..Len(v)]
  BY <1>1, <1>6
<1>8. ASSUME NEW k \in 1..Len(w), NEW l \in 1..Len(w), k < l PROVE at[k] < at[l]
  <2>1. at[l] \in left /\ at[k] \in before[at[l]]
    BY <1>6, <1>8
  <2> QED
    BY <1>4, <2>1
<1>9. Inherits(w, v)
  BY <1>6, <1>7, <1>8 DEF Inherits
<1>10. \A i \in left : \E k \in 1..Len(w) : w[k] = v[i]
  BY <1>6
<1>11. \A i \in 1..Len(v) : ~Within(v[i].path, p) => i \in left
  BY DEF left
<1> QED
  BY <1>2, <1>5, <1>9, <1>10, <1>11

\* Vectors of the same paths.
LEMMA SamePaths ==
  ASSUME NEW v, NEW w, Len(w) = Len(v), \A k \in 1..Len(v) : w[k].path = v[k].path
  PROVE  (Distinct(v) => Distinct(w)) /\ (Sorted(v) => Sorted(w))
BY DEF Distinct, Sorted

\* stageReplace puts the entry in, once, and in order if there is an order.
LEMMA StageReplaceKeeps ==
  ASSUME NEW E, Pathed(E), NEW v \in Seq(E), NEW e \in E, NEW w \in StageReplace(v, e)
  PROVE  /\ w \in Seq(E)
         /\ \A k \in 1..Len(w) : w[k] = e \/ \E j \in 1..Len(v) : w[k] = v[j]
         /\ Distinct(v) => Distinct(w)
         /\ Sorted(v) => Sorted(w)
<1>1. Len(v) \in Nat /\ \A i \in 1..Len(v) : v[i] \in E
  BY Places7z
<1>2. CASE Has(v, e.path)
  <2>1. w = [i \in 1..Len(v) |-> IF v[i].path = e.path THEN e ELSE v[i]]
    BY <1>2 DEF StageReplace
  <2>2. w \in Seq(E) /\ Len(w) = Len(v)
    BY <1>1, <2>1
  <2>3. \A k \in 1..Len(v) : w[k].path = v[k].path /\ (w[k] = e \/ w[k] = v[k])
    BY <2>1
  <2> QED
    BY <2>2, <2>3, SamePaths
<1>3. CASE ~Has(v, e.path)
  <2>1. PICK i \in LowerBounds(v, e.path) : w = InsertAt(v, i, e)
    BY <1>3 DEF StageReplace
  <2>2. /\ i \in 1..(Len(v) + 1)
        /\ i > 1 => Before(v[i - 1].path, e.path)
        /\ i <= Len(v) => ~Before(v[i].path, e.path)
    BY <2>1 DEF LowerBounds
  <2>3. /\ w \in Seq(E) /\ Len(w) = Len(v) + 1
        /\ \A k \in 1..(Len(v) + 1) : w[k] = IF k < i THEN v[k] ELSE IF k = i THEN e ELSE v[k - 1]
    <3>1. /\ InsertAt(v, i, e) \in Seq(E) /\ Len(InsertAt(v, i, e)) = Len(v) + 1
          /\ \A k \in 1..(Len(v) + 1) :
               InsertAt(v, i, e)[k] = IF k < i THEN v[k] ELSE IF k = i THEN e ELSE v[k - 1]
      <4>1. i \in 1..(Len(v) + 1)
        BY <2>2
      <4> QED
        BY <4>1, InsertAtIs
    <3> QED
      BY <2>1, <3>1
  <2>4. \A k \in 1..Len(v) : v[k].path # e.path
    BY <1>3 DEF Has, Places
  <2> DEFINE at(k) == IF k < i THEN k ELSE k - 1
  <2>5. \A k \in 1..(Len(v) + 1) : k # i => at(k) \in 1..Len(v) /\ w[k] = v[at(k)]
    <3> SUFFICES ASSUME NEW k \in 1..(Len(v) + 1), k # i
                 PROVE  at(k) \in 1..Len(v) /\ w[k] = v[at(k)]
      OBVIOUS
    <3>1. w[k] = v[at(k)]
      BY <2>3
    <3>2. at(k) \in 1..Len(v)
      BY <1>1, <2>2
    <3> QED
      BY <3>1, <3>2
  <2>6. w[i] = e
    <3>1. ~(i < i)
      BY <2>2
    <3> QED
      BY <2>2, <2>3, <3>1
  <2>7. \A k, l \in 1..(Len(v) + 1) : k < l /\ k # i /\ l # i => at(k) < at(l)
    BY <1>1, <2>2
  <2>8. /\ \A k \in 1..(Len(v) + 1) : k < i => k # i /\ at(k) < i
        /\ \A k \in 1..(Len(v) + 1) : i < k => k # i /\ ~(at(k) < i)
    BY <1>1, <2>2
  <2> HIDE DEF at
  <2>9. \A k \in 1..Len(w) : w[k] = e \/ \E j \in 1..Len(v) : w[k] = v[j]
    BY <2>3, <2>5, <2>6
  <2>10. Distinct(v) => Distinct(w)
    <3> SUFFICES ASSUME Distinct(v), NEW k \in 1..(Len(v) + 1), NEW l \in 1..(Len(v) + 1), k < l
                 PROVE  w[k].path # w[l].path
      <4>1. \A k, l \in 1..(Len(v) + 1) : k # l => k < l \/ l < k
        BY <1>1
      <4> QED
        BY <2>3, <4>1 DEF Distinct
    <3>1. CASE k # i /\ l # i
      <4>1. at(k) \in 1..Len(v) /\ at(l) \in 1..Len(v) /\ at(k) # at(l)
        BY <1>1, <2>5, <2>7, <3>1
      <4> QED
        BY <2>5, <3>1, <4>1 DEF Distinct
    <3>2. CASE k = i \/ l = i
      <4>1. k # l
        BY <1>1
      <4> QED
        BY <2>4, <2>5, <2>6, <3>2, <4>1
    <3> QED
      BY <3>1, <3>2
  <2>11. Sorted(v) => Sorted(w)
    <3> SUFFICES ASSUME Sorted(v), NEW k \in 1..(Len(v) + 1), NEW l \in 1..(Len(v) + 1), k < l
                 PROVE  Before(w[k].path, w[l].path)
      BY <2>3 DEF Sorted
    <3> DEFINE p(j) == v[j].path
    <3>1. /\ e.path \in String /\ \A j \in 1..Len(v) : p(j) \in String
          /\ \A j, m \in 1..Len(v) : j < m => Before(p(j), p(m))
      BY <1>1 DEF Pathed, Sorted
    <3>2. \A j \in 1..Len(v) : j < i => Before(p(j), e.path)
      <4> SUFFICES ASSUME NEW j \in 1..Len(v), j < i PROVE Before(p(j), e.path)
        OBVIOUS
      <4>1. i - 1 \in 1..Len(v) /\ i > 1 /\ (j = i - 1 \/ j < i - 1)
        BY <1>1, <2>2
      <4>2. Before(p(i - 1), e.path)
        BY <2>2, <4>1
      <4> HIDE DEF p
      <4> QED
        BY <3>1, <4>1, <4>2, BeforeTransitive
    <3>3. \A j \in 1..Len(v) : ~(j < i) => Before(e.path, p(j))
      <4> SUFFICES ASSUME NEW j \in 1..Len(v), ~(j < i) PROVE Before(e.path, p(j))
        OBVIOUS
      <4>1. i \in 1..Len(v) /\ i <= Len(v) /\ (j = i \/ i < j)
        BY <1>1, <2>2
      <4>2. ~Before(p(i), e.path) /\ p(i) # e.path
        BY <2>2, <2>4, <4>1
      <4> HIDE DEF p
      <4>3. Before(e.path, p(i))
        BY <3>1, <4>1, <4>2, BeforeTotal
      <4> QED
        BY <3>1, <4>1, <4>3, BeforeTransitive
    <3>4. CASE k # i /\ l # i
      <4>1. at(k) \in 1..Len(v) /\ at(l) \in 1..Len(v) /\ at(k) < at(l)
        BY <2>5, <2>7, <3>4
      <4>2. Before(p(at(k)), p(at(l)))
        BY <3>1, <4>1
      <4> QED
        BY <2>5, <3>4, <4>2
    <3>5. CASE k = i
      <4>1. l # i /\ ~(at(l) < i) /\ at(l) \in 1..Len(v)
        BY <2>5, <2>8, <3>5
      <4>2. Before(e.path, p(at(l)))
        BY <3>3, <4>1
      <4> QED
        BY <2>5, <2>6, <3>5, <4>1, <4>2
    <3>6. CASE l = i
      <4>1. k # i /\ at(k) < i /\ at(k) \in 1..Len(v)
        BY <2>5, <2>8, <3>6
      <4>2. Before(p(at(k)), e.path)
        BY <3>2, <4>1
      <4> QED
        BY <2>5, <2>6, <3>6, <4>1, <4>2
    <3> QED
      BY <3>4, <3>5, <3>6
  <2> QED
    BY <2>3, <2>9, <2>10, <2>11
<1> QED
  BY <1>2, <1>3

\* rename of a file takes the entry out and puts it in under its new path.
LEMMA RenameFileKeeps ==
  ASSUME NEW E, Pathed(E), NEW v \in Seq(E), NEW from, NEW to,
         \A e \in E : [e EXCEPT !.path = to] \in E,
         NEW w \in RenameFile(v, from, to)
  PROVE  /\ w \in Seq(E)
         /\ \A k \in 1..Len(w) : \E j \in 1..Len(v) : w[k] = v[j] \/ w[k] = [v[j] EXCEPT !.path = to]
         /\ Distinct(v) => Distinct(w)
         /\ Sorted(v) => Sorted(w)
<1>1. Len(v) \in Nat /\ \A i \in 1..Len(v) : v[i] \in E
  BY Places7z
<1>2. PICK i \in FilesAt(v, from) : w \in StageReplace(EraseAt(v, i), [v[i] EXCEPT !.path = to])
  BY DEF RenameFile
<1>3. i \in 1..Len(v)
  BY DEF FilesAt, Places
<1> DEFINE u == EraseAt(v, i)
           e == [v[i] EXCEPT !.path = to]
<1>4. e \in E
  BY <1>1, <1>3
<1>5. u \in Seq(E) /\ Inherits(u, v)
  BY <1>3, EraseAtInherits
<1> HIDE DEF u, e
<1>6. /\ \A k \in 1..Len(u) : \E j \in 1..Len(v) : u[k] = v[j]
      /\ Distinct(v) => Distinct(u)
      /\ Sorted(v) => Sorted(u)
  BY <1>5, InheritsKeeps
<1>7. w \in StageReplace(u, e)
  BY <1>2 DEF u, e
<1>8. /\ w \in Seq(E)
      /\ \A k \in 1..Len(w) : w[k] = e \/ \E j \in 1..Len(u) : w[k] = u[j]
      /\ Distinct(u) => Distinct(w)
      /\ Sorted(u) => Sorted(w)
  BY <1>4, <1>5, <1>7, StageReplaceKeeps
<1>9. e = [v[i] EXCEPT !.path = to]
  BY DEF e
<1>10. ASSUME NEW k \in 1..Len(w)
       PROVE  \E j \in 1..Len(v) : w[k] = v[j] \/ w[k] = [v[j] EXCEPT !.path = to]
  <2>1. CASE w[k] = e
    BY <1>3, <1>9, <2>1
  <2>2. CASE \E j \in 1..Len(u) : w[k] = u[j]
    BY <1>6, <2>2
  <2> QED
    BY <1>8, <2>1, <2>2
<1> QED
  BY <1>6, <1>8, <1>10

\* Two paths under a directory that take the same new name are one path.
LEMMA RebaseInjective ==
  ASSUME NEW from \in String, NEW to \in String, NEW p \in String, NEW q \in String,
         Within(p, from), Within(q, from), Rebase(p, from, to) = Rebase(q, from, to)
  PROVE  p = q
<1> DEFINE m == Len(from)
           n == Len(to)
           a == SubSeq(p, m + 1, Len(p))
           b == SubSeq(q, m + 1, Len(q))
<1>1. m \in Nat /\ n \in Nat /\ Len(p) \in Nat /\ Len(q) \in Nat /\ Len(p) >= m /\ Len(q) >= m
  BY Elements DEF Within
<1>2. ASSUME NEW r \in String, Len(r) >= m, Len(r) \in Nat
      PROVE  /\ SubSeq(r, m + 1, Len(r)) \in String
             /\ Len(SubSeq(r, m + 1, Len(r))) = Len(r) - m
             /\ \A k \in 1..(Len(r) - m) : SubSeq(r, m + 1, Len(r))[k] = r[m + k]
  <2>1. \A k \in (m + 1)..Len(r) : r[k] \in Nat
    BY <1>1, <1>2, Elements
  <2>2. /\ SubSeq(r, m + 1, Len(r)) \in Seq(Nat)
        /\ Len(SubSeq(r, m + 1, Len(r))) = IF m + 1 <= Len(r) THEN Len(r) - (m + 1) + 1 ELSE 0
        /\ \A k \in 1..(Len(r) - (m + 1) + 1) : SubSeq(r, m + 1, Len(r))[k] = r[(m + 1) + k - 1]
    BY <1>1, <1>2, <2>1, SubSeqProperties
  <2>3. Len(r) - (m + 1) + 1 = Len(r) - m
    BY <1>1, <1>2
  <2>4. \A k \in 1..(Len(r) - m) : (m + 1) + k - 1 = m + k
    BY <1>1, <1>2
  <2>5. (IF m + 1 <= Len(r) THEN Len(r) - (m + 1) + 1 ELSE 0) = Len(r) - m
    BY <1>1, <1>2
  <2> QED
    BY <2>2, <2>3, <2>4, <2>5 DEF String
<1>3. a \in String /\ Len(a) = Len(p) - m /\ \A k \in 1..(Len(p) - m) : a[k] = p[m + k]
  BY <1>1, <1>2
<1>4. b \in String /\ Len(b) = Len(q) - m /\ \A k \in 1..(Len(q) - m) : b[k] = q[m + k]
  BY <1>1, <1>2
<1>5. to \o a = to \o b
  BY DEF Rebase
<1>6. ASSUME NEW k \in 1..m PROVE p[k] = q[k]
  <2>1. SubSeq(p, 1, m) = SubSeq(q, 1, m)
    BY DEF Within
  <2>2. ASSUME NEW r \in String, Len(r) >= m, Len(r) \in Nat PROVE SubSeq(r, 1, m)[k] = r[k]
    <3>1. \A j \in 1..m : r[j] \in Nat
      BY <1>1, <2>2, Elements
    <3>2. \A j \in 1..(m - 1 + 1) : SubSeq(r, 1, m)[j] = r[1 + j - 1]
      BY <1>1, <2>2, <3>1, SubSeqProperties
    <3>3. k \in 1..(m - 1 + 1) /\ 1 + k - 1 = k
      BY <1>1
    <3> QED
      BY <3>2, <3>3
  <2> QED
    BY <1>1, <2>1, <2>2
<1> HIDE DEF a, b, m, n
<1>7. /\ Len(to \o a) = n + Len(a) /\ Len(to \o b) = n + Len(b)
      /\ \A k \in 1..(n + Len(a)) : (to \o a)[k] = IF k <= n THEN to[k] ELSE a[k - n]
      /\ \A k \in 1..(n + Len(b)) : (to \o b)[k] = IF k <= n THEN to[k] ELSE b[k - n]
  BY <1>3, <1>4, ConcatProperties DEF String, n
<1>8. Len(p) = Len(q)
  BY <1>1, <1>3, <1>4, <1>5, <1>7
<1>9. ASSUME NEW k \in 1..Len(p) PROVE p[k] = q[k]
  <2>1. CASE k \in 1..m
    BY <1>6, <2>1
  <2>2. CASE k \notin 1..m
    <3> DEFINE j == k - m
    <3>1. /\ j \in 1..(Len(p) - m) /\ m + j = k
          /\ n + j \in 1..(n + (Len(p) - m)) /\ ~(n + j <= n) /\ (n + j) - n = j
      BY <1>1, <2>2
    <3> HIDE DEF j
    <3>2. (to \o a)[n + j] = a[j]
      BY <1>3, <1>7, <3>1
    <3>3. (to \o b)[n + j] = b[j]
      BY <1>4, <1>7, <1>8, <3>1
    <3> QED
      BY <1>3, <1>4, <1>5, <1>8, <3>1, <3>2, <3>3
  <2> QED
    BY <2>1, <2>2
<1> QED
  BY <1>8, <1>9, SeqEqual DEF String

\* Renaming a tree onto names that are not taken makes no two names one.
LEMMA RebasedDistinct ==
  ASSUME NEW E, Pathed(E), NEW v \in Seq(E), NEW from \in String, NEW to \in String,
         Distinct(v), ~Collides(v, from, to)
  PROVE  Distinct(Rebased(v, from, to))
<1> DEFINE u == Rebased(v, from, to)
           M == Moving(v, from)
           new(i) == Rebase(v[i].path, from, to)
<1>1. \A i \in 1..Len(v) : v[i].path \in String
  BY Places7z DEF Pathed
<1>2. Len(u) = Len(v) /\ \A i \in 1..Len(v) : u[i] = IF i \in M THEN [v[i] EXCEPT !.path = new(i)] ELSE v[i]
  <2>1. Len(v) \in Nat
    BY Places7z
  <2> QED
    BY <2>1 DEF Rebased
<1>3. \A i \in M : i \in 1..Len(v) /\ Within(v[i].path, from)
  BY DEF Moving
<1>4. ASSUME NEW i \in M, NEW j \in 1..Len(v), i # j PROVE new(i) # v[j].path
  <2>1. v[i].path # v[j].path
    BY <1>3, <1>4 DEF Distinct
  <2>2. new(i) = v[j].path => Has(v, new(i)) /\ new(i) # v[i].path
    BY <2>1 DEF Has, Places
  <2> QED
    BY <2>2 DEF Collides
<1>5. ASSUME NEW i \in M, NEW j \in M, i # j PROVE new(i) # new(j)
  <2>1. v[i].path # v[j].path
    BY <1>3, <1>5 DEF Distinct
  <2> QED
    BY <1>1, <1>3, <2>1, RebaseInjective
<1>6. \A i \in 1..Len(v) : u[i].path = IF i \in M THEN new(i) ELSE v[i].path
  BY <1>2, Places7z DEF Pathed
<1> HIDE DEF u, M, new
<1> QED
  BY <1>2, <1>3, <1>4, <1>5, <1>6 DEF Distinct, u

\* The entries of w are those of u, each at a place of its own.
Shuffles(w, u) ==
  \E at \in [1..Len(w) -> 1..Len(u)] :
     /\ \A k, l \in 1..Len(w) : at[k] = at[l] => k = l
     /\ \A i \in 1..Len(u) : \E k \in 1..Len(w) : at[k] = i
     /\ \A k \in 1..Len(w) : w[k] = u[at[k]]

\* std::sort moves the entries about, and leaves them in order when no two
\* have one path.
LEMMA InOrderSorts ==
  ASSUME NEW E, Pathed(E), NEW u \in Seq(E)
  PROVE  /\ InOrder(u) \in Seq(E)
         /\ \A k \in 1..Len(InOrder(u)) : \E j \in 1..Len(u) : InOrder(u)[k] = u[j]
         /\ Distinct(u) => Distinct(InOrder(u)) /\ Sorted(InOrder(u))
         /\ Shuffles(InOrder(u), u)
<1> DEFINE K == 1..Len(u)
           p(i) == u[i].path
           before == [i \in K |-> {j \in K : Before(p(j), p(i)) \/ (p(j) = p(i) /\ j < i)}]
           w == Arranged(u, before)
<1>1. Len(u) \in Nat /\ \A i \in K : p(i) \in String
  BY Places7z DEF Pathed
<1>2. w = InOrder(u)
  BY DEF InOrder
<1>3. \A i, j \in K : j \in before[i] <=> Before(p(j), p(i)) \/ (p(j) = p(i) /\ j < i)
  OBVIOUS
<1>4. before \in [K -> SUBSET K]
  OBVIOUS
<1>5. \A i, j, k \in K : (i # j => i < j \/ j < i) /\ (k < j /\ j < i => k < i) /\ ~(i < i)
  BY <1>1
<1>6. \A i \in K : before[i] \in SUBSET K
  BY <1>4
<1>7. K \in SUBSET (1..Len(u))
  OBVIOUS
<1> HIDE DEF before, K, p
<1>8. Orders(K, before)
  <2>1. \A i \in K : i \notin before[i]
    BY <1>1, <1>3, <1>5, BeforeIrreflexive
  <2>2. \A i, j \in K : i # j => i \in before[j] \/ j \in before[i]
    BY <1>1, <1>3, <1>5, BeforeTotal
  <2>3. \A i, j, k \in K : j \in before[i] /\ k \in before[j] => k \in before[i]
    <3> SUFFICES ASSUME NEW i \in K, NEW j \in K, NEW k \in K, j \in before[i], k \in before[j]
                 PROVE  k \in before[i]
      OBVIOUS
    <3>1. CASE Before(p(j), p(i)) /\ Before(p(k), p(j))
      BY <1>1, <1>3, <3>1, BeforeTransitive
    <3>2. CASE ~(Before(p(j), p(i)) /\ Before(p(k), p(j)))
      BY <1>3, <1>5, <3>2
    <3> QED
      BY <3>1, <3>2
  <2>4. \A i, j \in K : j \in before[i] => before[j] \subseteq before[i]
    BY <1>6, <2>3
  <2> QED
    BY <1>4, <2>1, <2>2, <2>4 DEF Orders
<1>9. w \in Seq(E) /\ Laid(w, u, K, before)
  BY <1>7, <1>8, ArrangedSeq
<1> HIDE DEF w
<1>10. PICK at \in [1..Len(w) -> K] :
         /\ \A k \in 1..Len(w) : w[k] = u[at[k]] /\ \A l \in 1..Len(w) : k < l => at[k] \in before[at[l]]
         /\ \A i \in K : \E k \in 1..Len(w) : at[k] = i
  BY <1>9 DEF Laid
<1>11. Len(w) \in Nat /\ \A k \in 1..Len(w) : at[k] \in K /\ w[k].path = p(at[k])
  BY <1>9, <1>10, Places7z DEF p
<1>12. ASSUME Distinct(u), NEW k \in 1..Len(w), NEW l \in 1..Len(w), k < l
       PROVE  Before(w[k].path, w[l].path) /\ w[k].path # w[l].path
  <2>1. at[k] \in before[at[l]] /\ at[k] \in K /\ at[l] \in K
    BY <1>10, <1>11, <1>12
  <2>2. at[k] # at[l]
    BY <1>1, <1>3, <1>5, <2>1, BeforeIrreflexive
  <2>3. p(at[k]) # p(at[l])
    BY <1>12, <2>1, <2>2 DEF Distinct, p, K
  <2>4. Before(p(at[k]), p(at[l]))
    BY <1>3, <2>1, <2>3
  <2> QED
    BY <1>11, <2>3, <2>4
<1>13. Distinct(u) => Distinct(w) /\ Sorted(w)
  <2>1. \A k, l \in 1..Len(w) : k # l => k < l \/ l < k
    BY <1>11
  <2> QED
    BY <1>12, <2>1 DEF Distinct, Sorted
<1>14. \A k \in 1..Len(w) : \E j \in 1..Len(u) : w[k] = u[j]
  BY <1>10, <1>11 DEF K
<1>15. ASSUME NEW k \in 1..Len(w), NEW l \in 1..Len(w), at[k] = at[l] PROVE k = l
  <2>1. at[k] \notin before[at[l]] /\ at[l] \notin before[at[k]]
    BY <1>8, <1>11, <1>15 DEF Orders
  <2>2. ~(k < l) /\ ~(l < k)
    BY <1>10, <2>1
  <2> QED
    BY <1>11, <2>2
<1>16. Shuffles(w, u)
  <2>1. at \in [1..Len(w) -> 1..Len(u)] /\ \A i \in 1..Len(u) : \E k \in 1..Len(w) : at[k] = i
    BY <1>10 DEF K
  <2>2. \A k, l \in 1..Len(w) : at[k] = at[l] => k = l
    BY <1>15
  <2>3. \A k \in 1..Len(w) : w[k] = u[at[k]]
    BY <1>10
  <2> QED
    BY <2>1, <2>2, <2>3 DEF Shuffles
<1> QED
  BY <1>2, <1>9, <1>13, <1>14, <1>16

\* rename of a tree.
LEMMA RenameTreeKeeps ==
  ASSUME NEW E, Pathed(E), NEW v \in Seq(E), NEW from \in String, NEW to \in String,
         \A i \in Moving(v, from) : [v[i] EXCEPT !.path = Rebase(v[i].path, from, to)] \in E
  PROVE  LET w == RenameTree(v, from, to) IN
         /\ w \in Seq(E)
         /\ \A k \in 1..Len(w) : \E j \in 1..Len(v) :
              w[k] = v[j] \/ w[k] = [v[j] EXCEPT !.path = Rebase(v[j].path, from, to)]
         /\ Distinct(v) /\ ~Collides(v, from, to) => Distinct(w) /\ Sorted(w)
<1> DEFINE u == Rebased(v, from, to)
           M == Moving(v, from)
           new(i) == [v[i] EXCEPT !.path = Rebase(v[i].path, from, to)]
<1>1. Len(v) \in Nat /\ \A i \in 1..Len(v) : v[i] \in E
  BY Places7z
<1>2. u = [i \in 1..Len(v) |-> IF i \in M THEN new(i) ELSE v[i]]
  BY DEF Rebased
<1>3. \A i \in M : new(i) \in E
  OBVIOUS
<1> HIDE DEF u, M, new
<1>4. u \in Seq(E) /\ Len(u) = Len(v) /\ \A i \in 1..Len(v) : u[i] = v[i] \/ u[i] = new(i)
  <2>1. u \in [1..Len(v) -> E]
    BY <1>1, <1>2, <1>3
  <2>2. u \in Seq(E)
    BY <1>1, <2>1, SeqDef
  <2>3. Len(u) = Len(v)
    BY <1>1, <1>2
  <2> QED
    BY <1>2, <2>2, <2>3
<1> DEFINE w == InOrder(u)
<1>5. /\ w \in Seq(E)
      /\ \A k \in 1..Len(w) : \E j \in 1..Len(u) : w[k] = u[j]
      /\ Distinct(u) => Distinct(w) /\ Sorted(w)
  BY <1>4, InOrderSorts
<1>6. Distinct(v) /\ ~Collides(v, from, to) => Distinct(u)
  BY RebasedDistinct DEF u
<1>7. w = RenameTree(v, from, to)
  BY DEF RenameTree, u
<1> HIDE DEF w
<1>8. \A k \in 1..Len(w) : \E j \in 1..Len(v) : w[k] = v[j] \/ w[k] = new(j)
  BY <1>4, <1>5
<1> QED
  BY <1>5, <1>6, <1>7, <1>8 DEF new

-----------------------------------------------------------------------------
(* What the operations lose.                                               *)

\* Entries are records.
Recorded(E) == \A e \in E : e = [e EXCEPT !.path = e.path]

\* w is v with e at place i.
Inserted(w, v, i, e) ==
  /\ Len(w) = Len(v) + 1
  /\ \A k \in 1..(Len(v) + 1) : w[k] = IF k < i THEN v[k] ELSE IF k = i THEN e ELSE v[k - 1]

LEMMA InsertAtInserts ==
  ASSUME NEW E, NEW v \in Seq(E), NEW e \in E, NEW i \in 1..(Len(v) + 1)
  PROVE  InsertAt(v, i, e) \in Seq(E) /\ Inserted(InsertAt(v, i, e), v, i, e)
BY InsertAtIs DEF Inserted

\* Putting an entry in replaces the one at its path and no other.
LEMMA StageReplaceLoses ==
  ASSUME NEW E, Pathed(E), NEW v \in Seq(E), NEW e \in E, NEW w \in StageReplace(v, e)
  PROVE  Has(w, e.path) /\ KeepsBut(v, w, {e.path})
<1>1. Len(v) \in Nat /\ DOMAIN v = 1..Len(v)
  BY LenProperties
<1>2. CASE Has(v, e.path)
  <2>1. w = [i \in 1..Len(v) |-> IF v[i].path = e.path THEN e ELSE v[i]]
    BY <1>2 DEF StageReplace
  <2>2. Len(w) = Len(v) /\ DOMAIN w = 1..Len(v)
    BY <1>1, <2>1
  <2>3. PICK i \in 1..Len(v) : v[i].path = e.path
    BY <1>2 DEF Has, Places
  <2>4. w[i] = e
    BY <2>1, <2>3
  <2>5. Has(w, e.path)
    BY <2>2, <2>4 DEF Has, Places
  <2>6. KeepsBut(v, w, {e.path})
    BY <1>1, <2>1, <2>2 DEF KeepsBut
  <2> QED
    BY <2>5, <2>6
<1>3. CASE ~Has(v, e.path)
  <2>1. PICK i \in 1..(Len(v) + 1) : w = InsertAt(v, i, e)
    BY <1>1, <1>3 DEF StageReplace, LowerBounds
  <2>2. /\ w \in Seq(E) /\ Len(w) = Len(v) + 1
        /\ \A k \in 1..(Len(v) + 1) : w[k] = IF k < i THEN v[k] ELSE IF k = i THEN e ELSE v[k - 1]
    <3>1. /\ InsertAt(v, i, e) \in Seq(E) /\ Len(InsertAt(v, i, e)) = Len(v) + 1
          /\ \A k \in 1..(Len(v) + 1) :
               InsertAt(v, i, e)[k] = IF k < i THEN v[k] ELSE IF k = i THEN e ELSE v[k - 1]
      BY InsertAtIs
    <3> QED
      BY <2>1, <3>1
  <2>3. DOMAIN w = 1..(Len(v) + 1)
    BY <2>2, LenProperties
  <2>4. i \in 1..Len(w) /\ w[i] = e
    BY <1>1, <2>2
  <2>5. Has(w, e.path)
    BY <2>4 DEF Has, Places
  <2>6. ASSUME NEW j \in 1..Len(v) PROVE \E k \in 1..(Len(v) + 1) : w[k] = v[j]
    <3>1. CASE j < i
      <4>1. j \in 1..(Len(v) + 1)
        BY <1>1
      <4> QED
        BY <2>2, <3>1, <4>1
    <3>2. CASE ~(j < i)
      <4>1. j + 1 \in 1..(Len(v) + 1) /\ ~(j + 1 < i) /\ j + 1 # i /\ (j + 1) - 1 = j
        BY <1>1, <3>2
      <4>2. w[j + 1] = v[j]
        BY <2>2, <4>1
      <4> QED
        BY <4>1, <4>2
    <3> QED
      BY <3>1, <3>2
  <2>7. KeepsBut(v, w, {e.path})
    BY <1>1, <2>3, <2>6 DEF KeepsBut
  <2> QED
    BY <2>5, <2>7
<1> QED
  BY <1>2, <1>3

\* Taking the entry at i of n out and putting one in at m moves the others by
\* one place at most: at[k] is where the entry now at k was.
Shifts(at, n, i, m) ==
  /\ at \in [1..n -> 1..n]
  /\ \A k, l \in 1..n : at[k] = at[l] => k = l
  /\ \A j \in 1..n : \E k \in 1..n : at[k] = j
  /\ at[m] = i
  /\ \A k \in 1..n : k < m => at[k] = IF k < i THEN k ELSE k + 1
  /\ \A k \in 1..n : k > m => at[k] = IF k - 1 < i THEN k - 1 ELSE k

LEMMA Shift ==
  ASSUME NEW n \in Nat, NEW i \in 1..n, NEW m \in 1..n
  PROVE  \E at : Shifts(at, n, i, m)
<1> DEFINE g(k) == IF k = m THEN i
                   ELSE IF k < m THEN IF k < i THEN k ELSE k + 1
                   ELSE IF k - 1 < i THEN k - 1 ELSE k
           at == [k \in 1..n |-> g(k)]
<1>1. \A k \in 1..n : g(k) \in 1..n
  OBVIOUS
<1>2. \A k, l \in 1..n : g(k) = g(l) => k = l
  OBVIOUS
<1>3. ASSUME NEW j \in 1..n PROVE \E k \in 1..n : g(k) = j
  <2>1. CASE j = i
    BY <2>1
  <2>2. CASE j < i
    <3>1. j < m => j \in 1..n /\ g(j) = j
      BY <2>2
    <3>2. ~(j < m) => j + 1 \in 1..n /\ g(j + 1) = j
      BY <2>2
    <3> QED
      BY <3>1, <3>2
  <2>3. CASE j > i
    <3>1. j - 1 < m => j - 1 \in 1..n /\ g(j - 1) = j
      BY <2>3
    <3>2. ~(j - 1 < m) => j \in 1..n /\ g(j) = j
      BY <2>3
    <3> QED
      BY <3>1, <3>2
  <2> QED
    BY <2>1, <2>2, <2>3
<1>4. /\ g(m) = i
      /\ \A k \in 1..n : k < m => g(k) = IF k < i THEN k ELSE k + 1
      /\ \A k \in 1..n : k > m => g(k) = IF k - 1 < i THEN k - 1 ELSE k
  OBVIOUS
<1> HIDE DEF g
<1>5. at \in [1..n -> 1..n] /\ \A k \in 1..n : at[k] = g(k)
  BY <1>1
<1> HIDE DEF at
<1>6. /\ \A k, l \in 1..n : at[k] = at[l] => k = l
      /\ \A j \in 1..n : \E k \in 1..n : at[k] = j
  BY <1>2, <1>3, <1>5, ZenonT(60)
<1>7. /\ at[m] = i
      /\ \A k \in 1..n : k < m => at[k] = IF k < i THEN k ELSE k + 1
      /\ \A k \in 1..n : k > m => at[k] = IF k - 1 < i THEN k - 1 ELSE k
  BY <1>4, <1>5
<1>8. Shifts(at, n, i, m)
  BY <1>5, <1>6, <1>7 DEF Shifts
<1> QED
  BY <1>8

\* A file renamed onto a free path leaves every entry in the vector.
LEMMA RenameFileMoves ==
  ASSUME NEW E, Pathed(E), Recorded(E), NEW v \in Seq(E), NEW from, NEW to, ~Has(v, to),
         \A e \in E : [e EXCEPT !.path = to] \in E,
         NEW w \in RenameFile(v, from, to)
  PROVE  Renaming(v, w)
<1>1. Len(v) \in Nat /\ DOMAIN v = 1..Len(v) /\ \A i \in 1..Len(v) : v[i] \in E
  BY Places7z, LenProperties
<1>2. PICK i \in 1..Len(v) : w \in StageReplace(EraseAt(v, i), [v[i] EXCEPT !.path = to])
  BY DEF RenameFile, FilesAt, Places
<1>3. PICK e : e = [v[i] EXCEPT !.path = to]
  OBVIOUS
<1>4. e \in E /\ e.path = to
  BY <1>1, <1>3 DEF Pathed
<1>5. PICK u \in Seq(E) :
        /\ u = EraseAt(v, i) /\ Len(u) = Len(v) - 1
        /\ \A k \in 1..(Len(v) - 1) : u[k] = IF k < i THEN v[k] ELSE v[k + 1]
  BY EraseAtIs
<1>6. ~Has(u, to)
  <2>1. ASSUME NEW k \in 1..(Len(v) - 1) PROVE u[k].path # to
    <3>1. k \in 1..Len(v) /\ k + 1 \in 1..Len(v)
      BY <1>1
    <3>2. v[k].path # to /\ v[k + 1].path # to
      BY <3>1 DEF Has, Places
    <3> QED
      BY <1>5, <3>2
  <2> QED
    BY <1>5, <2>1 DEF Has, Places
<1>7. PICK m \in 1..Len(v) : w = InsertAt(u, m, e)
  <2>1. PICK j \in 1..(Len(u) + 1) : w = InsertAt(u, j, e)
    BY <1>2, <1>3, <1>4, <1>5, <1>6 DEF StageReplace, LowerBounds
  <2> QED
    BY <1>1, <1>5, <2>1
<1>8. /\ w \in Seq(E) /\ Len(w) = Len(v)
      /\ \A k \in 1..Len(v) : w[k] = IF k < m THEN u[k] ELSE IF k = m THEN e ELSE u[k - 1]
  <2>1. m \in 1..(Len(u) + 1) /\ Len(u) + 1 = Len(v)
    BY <1>1, <1>5
  <2>2. InsertAt(u, m, e) \in Seq(E) /\ Inserted(InsertAt(u, m, e), u, m, e)
    <3>1. e \in E
      BY <1>4
    <3> QED
      BY <2>1, <3>1, InsertAtInserts
  <2>3. w \in Seq(E) /\ Inserted(w, u, m, e)
    BY <1>7, <2>2
  <2> QED
    BY <2>1, <2>3 DEF Inserted
<1>9. DOMAIN w = 1..Len(v)
  BY <1>8, LenProperties
<1>10. PICK f : Shifts(f, Len(v), i, m)
  BY <1>1, Shift
<1>11. ASSUME NEW k \in 1..Len(v) PROVE w[k] = [v[f[k]] EXCEPT !.path = w[k].path]
  <2>1. CASE k = m
    <3>1. w[k] = e /\ f[k] = i
      <4>1. ~(m < m)
        BY <1>1
      <4> QED
        BY <1>8, <1>10, <2>1, <4>1 DEF Shifts
    <3> QED
      BY <1>3, <1>4, <3>1
  <2>2. CASE k # m
    <3>1. w[k] = v[f[k]]
      <4>1. CASE k < m
        <5>1. k \in 1..(Len(v) - 1)
          BY <1>1, <4>1
        <5>2. w[k] = u[k] /\ u[k] = IF k < i THEN v[k] ELSE v[k + 1]
          BY <1>5, <1>8, <4>1, <5>1
        <5>3. f[k] = IF k < i THEN k ELSE k + 1
          BY <1>10, <4>1 DEF Shifts
        <5> QED
          BY <5>2, <5>3
      <4>2. CASE k > m
        <5>1. k - 1 \in 1..(Len(v) - 1) /\ ~(k < m) /\ (k - 1) + 1 = k
          BY <1>1, <4>2
        <5>2. w[k] = u[k - 1] /\ u[k - 1] = IF k - 1 < i THEN v[k - 1] ELSE v[(k - 1) + 1]
          BY <1>5, <1>8, <2>2, <5>1
        <5>3. f[k] = IF k - 1 < i THEN k - 1 ELSE k
          BY <1>10, <4>2 DEF Shifts
        <5> QED
          BY <5>1, <5>2, <5>3
      <4> QED
        BY <2>2, <4>1, <4>2
    <3>2. v[f[k]] \in E
      BY <1>1, <1>10 DEF Shifts
    <3> QED
      BY <3>1, <3>2 DEF Recorded
  <2> QED
    BY <2>1, <2>2
<1>12. /\ f \in [DOMAIN w -> DOMAIN v]
       /\ \A k, l \in DOMAIN w : f[k] = f[l] => k = l
       /\ \A j \in DOMAIN v : \E k \in DOMAIN w : f[k] = j
  BY <1>1, <1>9, <1>10 DEF Shifts
<1> QED
  BY <1>9, <1>11, <1>12 DEF Renaming

\* A tree renamed leaves every entry in the vector.
LEMMA RenameTreeMoves ==
  ASSUME NEW E, Pathed(E), Recorded(E), NEW v \in Seq(E), NEW from \in String, NEW to \in String,
         \A i \in Moving(v, from) : [v[i] EXCEPT !.path = Rebase(v[i].path, from, to)] \in E
  PROVE  Renaming(v, RenameTree(v, from, to))
<1>1. Len(v) \in Nat /\ DOMAIN v = 1..Len(v) /\ \A i \in 1..Len(v) : v[i] \in E
  BY Places7z, LenProperties
<1>2. PICK u : u = Rebased(v, from, to)
  OBVIOUS
<1>3. PICK w : w = InOrder(u) /\ w = RenameTree(v, from, to)
  BY <1>2 DEF RenameTree
<1> DEFINE M == Moving(v, from)
           new(i) == Rebase(v[i].path, from, to)
<1>4. u = [i \in 1..Len(v) |-> IF i \in M THEN [v[i] EXCEPT !.path = new(i)] ELSE v[i]]
  BY <1>2 DEF Rebased
<1>5. \A i \in M : [v[i] EXCEPT !.path = new(i)] \in E
  OBVIOUS
<1> HIDE DEF M, new
<1>6. u \in Seq(E) /\ Len(u) = Len(v)
  <2>1. u \in [1..Len(v) -> E]
    BY <1>1, <1>4, <1>5
  <2>2. u \in Seq(E)
    BY <1>1, <2>1, SeqDef
  <2>3. Len(u) = Len(v)
    BY <1>1, <1>4
  <2> QED
    BY <2>2, <2>3
<1>7. ASSUME NEW i \in 1..Len(v) PROVE u[i] = [v[i] EXCEPT !.path = u[i].path]
  <2>1. CASE i \in M
    <3>1. u[i] = [v[i] EXCEPT !.path = new(i)]
      BY <1>4, <2>1
    <3>2. u[i].path = new(i)
      BY <1>1, <3>1 DEF Pathed
    <3> QED
      BY <3>1, <3>2
  <2>2. CASE i \notin M
    BY <1>1, <1>4, <2>2 DEF Recorded
  <2> QED
    BY <2>1, <2>2
<1>8. w \in Seq(E) /\ Shuffles(w, u)
  BY <1>3, <1>6, InOrderSorts
<1>9. PICK f \in [1..Len(w) -> 1..Len(v)] :
        /\ \A k, l \in 1..Len(w) : f[k] = f[l] => k = l
        /\ \A i \in 1..Len(v) : \E k \in 1..Len(w) : f[k] = i
        /\ \A k \in 1..Len(w) : w[k] = u[f[k]]
  BY <1>6, <1>8 DEF Shuffles
<1>10. DOMAIN w = 1..Len(w)
  BY <1>8, LenProperties
<1>11. \A k \in 1..Len(w) : w[k] = [v[f[k]] EXCEPT !.path = w[k].path]
  BY <1>7, <1>9, ZenonT(60)
<1>12. Renaming(v, w)
  BY <1>1, <1>9, <1>10, <1>11 DEF Renaming
<1> QED
  BY <1>3, <1>12
=============================================================================
