--------------------------- MODULE ListingProofs ---------------------------
(***************************************************************************)
(* What the listing operators return, for every finite set with an order   *)
(* and every sequence.                                                     *)
(***************************************************************************)
EXTENDS Listing, FiniteSetTheorems, FunctionTheorems, SequenceTheorems, TLAPS

\* order puts each two members of S one before the other.
Orders(order, S) ==
  /\ \A x \in S : <<x, x>> \notin order
  /\ \A x, y \in S : x # y => <<x, y>> \in order \/ <<y, x>> \in order
  /\ \A x, y, z \in S : <<x, y>> \in order /\ <<y, z>> \in order => <<x, z>> \in order

\* Every member of an ordered finite set has its place in the listing, and the places are in
\* that order.
THEOREM ListedListsAll ==
  ASSUME NEW S, IsFiniteSet(S), NEW order, Orders(order, S)
  PROVE  /\ Cardinality(S) \in Nat
         /\ ListedBy(S, order) \in Seq(S) /\ Len(ListedBy(S, order)) = Cardinality(S)
         /\ \A m, n \in 1..Cardinality(S) :
              m < n <=> <<ListedBy(S, order)[m], ListedBy(S, order)[n]>> \in order
         /\ \A x \in S : \E n \in 1..Cardinality(S) : ListedBy(S, order)[n] = x
<1> DEFINE Below(x) == { y \in S : <<y, x>> \in order }
           k == Cardinality(S)
           rank == [x \in S |-> Cardinality(Below(x))]
<1>0. /\ \A x \in S : <<x, x>> \notin order
      /\ \A x, y \in S : x # y => <<x, y>> \in order \/ <<y, x>> \in order
      /\ \A x, y, z \in S : <<x, y>> \in order /\ <<y, z>> \in order => <<x, z>> \in order
  BY DEF Orders
<1>1. k \in Nat
  BY FS_CardinalityType
<1>2. ASSUME NEW x \in S
      PROVE  IsFiniteSet(Below(x)) /\ rank[x] \in 0..(k - 1)
  <2>1. IsFiniteSet(Below(x)) /\ Cardinality(Below(x)) \in Nat
    BY FS_Subset, FS_CardinalityType
  <2>2. x \notin Below(x)
    BY <1>0
  <2>3. Cardinality(Below(x)) <= k /\ Cardinality(Below(x)) # k
    BY <2>2, FS_Subset
  <2> QED
    BY <1>1, <2>1, <2>3
<1>3. ASSUME NEW x \in S, NEW y \in S, <<x, y>> \in order
      PROVE  rank[x] < rank[y]
  <2>1. Below(x) \in SUBSET Below(y) /\ x \in Below(y) /\ x \notin Below(x)
    BY <1>0, <1>3
  <2>2. Cardinality(Below(x)) <= Cardinality(Below(y)) /\ Cardinality(Below(x)) # Cardinality(Below(y))
    BY <1>2, <2>1, FS_Subset
  <2> QED
    BY <1>1, <1>2, <2>2
<1>4. \A x, y \in S : rank[x] = rank[y] => x = y
  <2> SUFFICES ASSUME NEW x \in S, NEW y \in S, x # y PROVE rank[x] # rank[y]
    OBVIOUS
  <2>1. <<x, y>> \in order \/ <<y, x>> \in order
    BY <1>0
  <2>2. rank[x] \in 0..(k - 1) /\ rank[y] \in 0..(k - 1)
    BY <1>2
  <2> HIDE DEF rank, k
  <2>3. rank[x] \in Int /\ rank[y] \in Int
    BY <1>1, <2>2
  <2> QED
    BY <1>3, <2>1, <2>3
<1>5. \A n \in 0..(k - 1) : \E x \in S : rank[x] = n
  <2>1. IsFiniteSet(0..(k - 1)) /\ Cardinality(0..(k - 1)) = k
    <3>1. 0 \in Int /\ k - 1 \in Int
      BY <1>1
    <3>2. /\ IsFiniteSet(0..(k - 1))
          /\ Cardinality(0..(k - 1)) = IF 0 > k - 1 THEN 0 ELSE k - 1 - 0 + 1
      BY <3>1, FS_Interval, Zenon
    <3> QED
      BY <1>1, <3>2
  <2>2. rank \in Injection(S, 0..(k - 1))
    BY <1>2, <1>4 DEF Injection, IsInjective
  <2>3. rank \in Surjection(S, 0..(k - 1))
    BY <2>1, <2>2, FS_Injection
  <2> QED
    BY <2>3 DEF Surjection
<1>6. ASSUME NEW n \in 1..k
      PROVE  ListedBy(S, order)[n] \in S /\ rank[ListedBy(S, order)[n]] = n - 1
  <2>1. n - 1 \in 0..(k - 1)
    BY <1>1
  <2>2. \E x \in S : Cardinality({ y \in S : <<y, x>> \in order }) = n - 1
    BY <1>5, <2>1
  <2>3. ListedBy(S, order)[n] = CHOOSE x \in S : Cardinality({ y \in S : <<y, x>> \in order }) = n - 1
    BY DEF ListedBy
  <2> QED
    BY <2>2, <2>3
<1>7. ListedBy(S, order) \in [1..k -> S]
  BY <1>6 DEF ListedBy
<1>8. ListedBy(S, order) \in Seq(S) /\ Len(ListedBy(S, order)) = k
  BY <1>1, <1>7
<1> DEFINE e == ListedBy(S, order)
<1> HIDE DEF rank, k, e
<1>11. /\ \A n \in 1..k : e[n] \in S /\ rank[e[n]] = n - 1
       /\ \A x \in S : rank[x] \in 0..(k - 1)
       /\ \A x, y \in S : <<x, y>> \in order => rank[x] < rank[y]
  BY <1>2, <1>3, <1>6 DEF e
<1>9. ASSUME NEW m \in 1..k, NEW n \in 1..k
      PROVE  m < n <=> <<e[m], e[n]>> \in order
  <2>1. m \in Nat /\ n \in Nat /\ e[m] \in S /\ e[n] \in S
    BY <1>1, <1>11
  <2>2. rank[e[m]] = m - 1 /\ rank[e[n]] = n - 1
    BY <1>11
  <2>3. CASE <<e[m], e[n]>> \in order
    <3>1. m - 1 < n - 1
      BY <1>11, <2>1, <2>2, <2>3
    <3> QED
      BY <2>1, <2>3, <3>1
  <2>4. CASE <<e[n], e[m]>> \in order
    <3>1. n - 1 < m - 1
      BY <1>11, <2>1, <2>2, <2>4
    <3>2. ~ (m < n)
      BY <2>1, <3>1
    <3>3. <<e[m], e[n]>> \notin order
      BY <1>0, <2>1, <2>4
    <3> QED
      BY <3>2, <3>3
  <2>5. CASE e[m] = e[n]
    <3>1. m - 1 = n - 1
      BY <2>2, <2>5
    <3>2. ~ (m < n)
      BY <2>1, <3>1
    <3>3. <<e[m], e[n]>> \notin order
      BY <1>0, <2>1, <2>5
    <3> QED
      BY <3>2, <3>3
  <2> QED
    BY <1>0, <2>1, <2>3, <2>4, <2>5
<1>10. ASSUME NEW x \in S
       PROVE  \E n \in 1..k : e[n] = x
  <2>0. rank[x] \in 0..(k - 1)
    BY <1>11
  <2>1. rank[x] + 1 \in 1..k
    <3> DEFINE r == rank[x]
    <3>1. r \in 0..(k - 1)
      BY <2>0
    <3> HIDE DEF r
    <3>2. r + 1 \in 1..k
      BY <1>1, <3>1
    <3> QED
      BY <3>2 DEF r
  <2>2. rank[e[rank[x] + 1]] = rank[x]
    <3>1. rank[e[rank[x] + 1]] = rank[x] + 1 - 1 /\ rank[x] \in 0..(k - 1)
      BY <1>11, <2>1
    <3> QED
      BY <1>1, <3>1
  <2>3. e[rank[x] + 1] \in S
    BY <1>11, <2>1
  <2>4. e[rank[x] + 1] = x
    BY <1>4, <2>2, <2>3
  <2> QED
    BY <2>1, <2>4
<1> QED
  BY <1>1, <1>8, <1>9, <1>10 DEF e, k

\* f lists the members of S in their order, k of them.
Lists(f, k, S, order) ==
  /\ k \in Nat /\ f \in [1..k -> S]
  /\ \A m, n \in 1..k : m < n => <<f[m], f[n]>> \in order
  /\ \A x \in S : \E n \in 1..k : f[n] = x

\* There is one way to list a set in its order.
THEOREM OneListing ==
  ASSUME NEW S, IsFiniteSet(S), NEW order, Orders(order, S), NEW k, NEW f,
         Lists(f, k, S, order)
  PROVE  f = ListedBy(S, order) /\ k = Cardinality(S)
<1> DEFINE Below(x) == { y \in S : <<y, x>> \in order }
<1>0. /\ k \in Nat /\ f \in [1..k -> S]
      /\ \A m, n \in 1..k : m < n => <<f[m], f[n]>> \in order
      /\ \A x \in S : \E n \in 1..k : f[n] = x
      /\ \A x \in S : <<x, x>> \notin order
      /\ \A x, y, z \in S : <<x, y>> \in order /\ <<y, z>> \in order => <<x, z>> \in order
  BY DEF Orders, Lists
<1>1. \A m, n \in 1..k : /\ f[m] \in S /\ f[n] \in S
                         /\ (<<f[m], f[n]>> \in order => m < n)
                         /\ (f[m] = f[n] => m = n)
  <2> SUFFICES ASSUME NEW m \in 1..k, NEW n \in 1..k
               PROVE  /\ f[m] \in S /\ f[n] \in S
                      /\ (<<f[m], f[n]>> \in order => m < n)
                      /\ (f[m] = f[n] => m = n)
    OBVIOUS
  <2>1. f[m] \in S /\ f[n] \in S
    BY <1>0
  <2>2. (m < n => <<f[m], f[n]>> \in order) /\ (n < m => <<f[n], f[m]>> \in order)
    BY <1>0
  <2>3. m < n \/ m = n \/ n < m
    BY <1>0
  <2>4. CASE m < n
    BY <1>0, <2>1, <2>2, <2>4
  <2>5. CASE m = n
    BY <1>0, <2>1, <2>5
  <2>6. CASE n < m
    BY <1>0, <2>1, <2>2, <2>6
  <2> QED
    BY <2>3, <2>4, <2>5, <2>6
<1>2. k = Cardinality(S)
  <2>1. f \in Bijection(1..k, S)
    BY <1>0, <1>1 DEF Bijection, Injection, Surjection, IsInjective
  <2>2. IsFiniteSet(1..k) /\ Cardinality(1..k) = k
    <3>1. Cardinality(1..k) = IF 1 > k THEN 0 ELSE k - 1 + 1
      BY <1>0, FS_Interval
    <3> QED
      BY <1>0, <3>1, FS_Interval
  <2> QED
    BY <2>1, <2>2, FS_Bijection DEF ExistsBijection
<1>3. ASSUME NEW n \in 1..k
      PROVE  Cardinality(Below(f[n])) = n - 1
  <2> DEFINE g == [m \in 1..(n - 1) |-> f[m]]
  <2>1. \A m \in 1..(n - 1) : m \in 1..k /\ g[m] = f[m] /\ f[m] \in Below(f[n])
    BY <1>0
  <2>2. \A x \in Below(f[n]) : \E m \in 1..(n - 1) : g[m] = x
    <3> SUFFICES ASSUME NEW x \in Below(f[n]) PROVE \E m \in 1..(n - 1) : g[m] = x
      OBVIOUS
    <3>1. PICK m \in 1..k : f[m] = x
      BY <1>0
    <3>2. m < n
      BY <1>1, <3>1
    <3>3. m \in 1..(n - 1)
      BY <1>0, <3>2
    <3> QED
      BY <3>1, <3>3
  <2>3. g \in Bijection(1..(n - 1), Below(f[n]))
    BY <1>1, <2>1, <2>2 DEF Bijection, Injection, Surjection, IsInjective
  <2>4. IsFiniteSet(1..(n - 1)) /\ Cardinality(1..(n - 1)) = n - 1
    <3>1. /\ IsFiniteSet(1..(n - 1))
          /\ Cardinality(1..(n - 1)) = IF 1 > n - 1 THEN 0 ELSE n - 1 - 1 + 1
      BY <1>0, FS_Interval
    <3> QED
      BY <1>0, <3>1
  <2> QED
    BY <2>3, <2>4, FS_Bijection DEF ExistsBijection
<1> DEFINE e == ListedBy(S, order)
<1>4. ASSUME NEW n \in 1..k
      PROVE  e[n] = f[n]
  <2>1. e[n] = CHOOSE x \in S : Cardinality(Below(x)) = n - 1
    BY <1>2 DEF ListedBy
  <2>2. f[n] \in S /\ Cardinality(Below(f[n])) = n - 1
    BY <1>0, <1>3
  <2>3. e[n] \in S /\ Cardinality(Below(e[n])) = n - 1
    BY <2>1, <2>2
  <2> HIDE DEF e
  <2>4. PICK m \in 1..k : f[m] = e[n]
    BY <1>0, <2>3
  <2>5. m - 1 = n - 1
    BY <1>3, <2>3, <2>4
  <2>6. m = n
    BY <1>0, <2>5
  <2> QED
    BY <2>4, <2>6
<1>5. e = [n \in 1..k |-> e[n]]
  <2>1. e \in Seq(S) /\ Len(e) = k
    BY <1>2, ListedListsAll
  <2> HIDE DEF e
  <2> QED
    BY <2>1
<1> HIDE DEF e
<1>6. f = [n \in 1..k |-> f[n]]
  BY <1>0
<1>7. e = f
  BY <1>4, <1>5, <1>6
<1> QED
  BY <1>2, <1>7 DEF e

\* The members below another are fewer exactly when it comes first.
THEOREM BelowCounts ==
  ASSUME NEW S, IsFiniteSet(S), NEW order, Orders(order, S), NEW x \in S, NEW y \in S
  PROVE  LET Below(z) == { w \in S : <<w, z>> \in order }
         IN  /\ Cardinality(Below(x)) \in Nat /\ Cardinality(Below(y)) \in Nat
             /\ Cardinality(Below(x)) < Cardinality(Below(y)) <=> <<x, y>> \in order
<1> DEFINE Below(z) == { w \in S : <<w, z>> \in order }
<1>1. /\ \A u \in S : <<u, u>> \notin order
      /\ \A u, v \in S : u # v => <<u, v>> \in order \/ <<v, u>> \in order
      /\ \A u, v, w \in S : <<u, v>> \in order /\ <<v, w>> \in order => <<u, w>> \in order
  BY DEF Orders
<1>2. \A z \in S : IsFiniteSet(Below(z)) /\ Cardinality(Below(z)) \in Nat
  <2> SUFFICES ASSUME NEW z \in S PROVE IsFiniteSet(Below(z)) /\ Cardinality(Below(z)) \in Nat
    OBVIOUS
  <2>1. Below(z) \in SUBSET S
    OBVIOUS
  <2> HIDE DEF Below
  <2> QED
    BY <2>1, FS_Subset, FS_CardinalityType
<1>3. \A u, v \in S : <<u, v>> \in order => Cardinality(Below(u)) < Cardinality(Below(v))
  <2> SUFFICES ASSUME NEW u \in S, NEW v \in S, <<u, v>> \in order
               PROVE  Cardinality(Below(u)) < Cardinality(Below(v))
    OBVIOUS
  <2>1. Below(u) \subseteq Below(v) /\ u \in Below(v) /\ u \notin Below(u)
    BY <1>1
  <2>2. IsFiniteSet(Below(v)) /\ Cardinality(Below(u)) \in Nat /\ Cardinality(Below(v)) \in Nat
    BY <1>2
  <2> HIDE DEF Below
  <2>3. Below(u) \in SUBSET Below(v) /\ Below(u) # Below(v)
    BY <2>1
  <2>4. /\ Cardinality(Below(u)) <= Cardinality(Below(v))
        /\ Cardinality(Below(u)) = Cardinality(Below(v)) => Below(u) = Below(v)
    BY <2>2, <2>3, FS_Subset
  <2> QED
    BY <2>2, <2>3, <2>4
<1>4. <<x, y>> \in order \/ x = y \/ <<y, x>> \in order
  BY <1>1
<1>5. Cardinality(Below(x)) \in Nat /\ Cardinality(Below(y)) \in Nat
  BY <1>2
<1>6. /\ <<x, y>> \in order => Cardinality(Below(x)) < Cardinality(Below(y))
      /\ <<y, x>> \in order => Cardinality(Below(y)) < Cardinality(Below(x))
  BY <1>3
<1>7. <<x, y>> \in order => x # y /\ <<y, x>> \notin order
  BY <1>1
<1> HIDE DEF Below
<1>8. Cardinality(Below(x)) < Cardinality(Below(y)) <=> <<x, y>> \in order
  BY <1>4, <1>5, <1>6, <1>7
<1> QED
  BY <1>5, <1>8 DEF Below

\* Numbers ascend.
LEMMA NumbersAreOrdered ==
  ASSUME NEW S, S \subseteq Nat
  PROVE  Orders({ p \in S \X S : p[1] < p[2] }, S)
<1> DEFINE up == { p \in S \X S : p[1] < p[2] }
<1>1. \A x, y \in S : <<x, y>> \in up <=> x < y
  OBVIOUS
<1>2. \A x \in S : x \in Nat
  OBVIOUS
<1> HIDE DEF up
<1>3. Orders(up, S)
  BY <1>1, <1>2 DEF Orders
<1> QED
  BY <1>3 DEF up

\* Every member of a finite set of numbers has its place in the enumeration, and the
\* places ascend.
THEOREM EnumeratedListsAll ==
  ASSUME NEW S, S \subseteq Nat, IsFiniteSet(S)
  PROVE  /\ Cardinality(S) \in Nat
         /\ Enumerated(S) \in Seq(S) /\ Len(Enumerated(S)) = Cardinality(S)
         /\ \A m, n \in 1..Cardinality(S) : m < n <=> Enumerated(S)[m] < Enumerated(S)[n]
         /\ \A x \in S : \E n \in 1..Cardinality(S) : Enumerated(S)[n] = x
<1> DEFINE up == { p \in S \X S : p[1] < p[2] }
           e  == Enumerated(S)
           k  == Cardinality(S)
<1>1. Orders(up, S)
  BY NumbersAreOrdered
<1>2. \A x, y \in S : <<x, y>> \in up <=> x < y
  OBVIOUS
<1>3. e = ListedBy(S, up)
  BY DEF Enumerated
<1> HIDE DEF up, e, k
<1>4. /\ k \in Nat /\ e \in Seq(S) /\ Len(e) = k
      /\ \A m, n \in 1..k : m < n <=> <<e[m], e[n]>> \in up
      /\ \A x \in S : \E n \in 1..k : e[n] = x
  BY <1>1, <1>3, ListedListsAll DEF k
<1>5. \A n \in 1..k : e[n] \in S
  BY <1>4, ElementOfSeq
<1>6. \A m, n \in 1..k : m < n <=> e[m] < e[n]
  BY <1>2, <1>4, <1>5
<1> QED
  BY <1>4, <1>6 DEF e, k

\* A set of numbers that is not empty has a least one.
THEOREM LeastMember ==
  ASSUME NEW S, S \subseteq Nat, IsFiniteSet(S), S # {}
  PROVE  \E x \in S : \A y \in S : x <= y
<1> DEFINE e == Enumerated(S)
           k == Cardinality(S)
<1>1. /\ k \in Nat /\ e \in Seq(S) /\ Len(e) = k
      /\ \A m, n \in 1..k : m < n <=> e[m] < e[n]
      /\ \A x \in S : \E n \in 1..k : e[n] = x
  BY EnumeratedListsAll
<1> HIDE DEF e, k
<1>2. PICK x \in S : TRUE
  OBVIOUS
<1>3. k # 0 /\ 1 \in 1..k
  BY <1>1, <1>2
<1>4. e[1] \in S
  BY <1>1, <1>3, ElementOfSeq
<1>5. ASSUME NEW y \in S
      PROVE  e[1] <= y
  <2>1. PICK n \in 1..k : e[n] = y
    BY <1>1
  <2>2. n = 1 \/ 1 < n
    BY <1>1
  <2>3. y \in Nat /\ e[1] \in Nat
    BY <1>4
  <2>4. CASE n = 1
    BY <2>1, <2>3, <2>4
  <2>5. CASE 1 < n
    <3>1. e[1] < e[n]
      BY <1>1, <1>3, <2>5
    <3> QED
      BY <2>1, <2>3, <3>1
  <2> QED
    BY <2>2, <2>4, <2>5
<1> QED
  BY <1>4, <1>5

\* f says from where in s each of what is left comes.
KeptAt(f, s, bad) ==
  LET left == Without(s, bad)
  IN /\ f \in [1..Len(left) -> 1..Len(s)]
     /\ \A n \in 1..Len(left) : left[n] = s[f[n]] /\ s[f[n]] \notin bad
     /\ \A m, n \in 1..Len(left) : m < n <=> f[m] < f[n]
     /\ \A i \in 1..Len(s) : s[i] \notin bad => \E n \in 1..Len(left) : f[n] = i

\* What is left of a sequence is what is not in bad, in the order it had.
THEOREM WithoutKeepsOrder ==
  ASSUME NEW T, NEW s \in Seq(T), NEW bad
  PROVE  Without(s, bad) \in Seq(T) /\ \E f : KeptAt(f, s, bad)
<1> DEFINE S == { i \in DOMAIN s : s[i] \notin bad }
           f == Enumerated(S)
           k == Cardinality(S)
<1>1. DOMAIN s = 1..Len(s) /\ Len(s) \in Nat
  BY LenProperties
<1>2. S \subseteq Nat /\ IsFiniteSet(S) /\ S \subseteq 1..Len(s)
  <2>1. 1 \in Int /\ Len(s) \in Int
    BY <1>1
  <2>2. IsFiniteSet(1..Len(s))
    BY <2>1, FS_Interval
  <2>3. S \in SUBSET (1..Len(s))
    BY <1>1
  <2> QED
    BY <2>2, <2>3, FS_Subset
<1>3. /\ k \in Nat /\ f \in Seq(S) /\ Len(f) = k
      /\ \A m, n \in 1..k : m < n <=> f[m] < f[n]
      /\ \A x \in S : \E n \in 1..k : f[n] = x
  BY <1>2, EnumeratedListsAll
<1> HIDE DEF f, k
<1>4. DOMAIN f = 1..k /\ \A n \in 1..k : f[n] \in S
  BY <1>3, ElementOfSeq, LenProperties
<1>5. Without(s, bad) = [n \in 1..k |-> s[f[n]]]
  BY <1>4 DEF Without, f
<1>6. Without(s, bad) \in Seq(T) /\ Len(Without(s, bad)) = k
  <2>1. \A n \in 1..k : s[f[n]] \in T
    BY <1>1, <1>4, ElementOfSeq
  <2>2. Without(s, bad) \in [1..k -> T]
    BY <1>5, <2>1
  <2> QED
    BY <1>3, <2>2
<1>7. f \in [1..k -> 1..Len(s)]
  <2>1. f \in [1..k -> S]
    BY <1>3, LenProperties
  <2> QED
    BY <1>2, <2>1
<1>8. \A n \in 1..k : Without(s, bad)[n] = s[f[n]] /\ s[f[n]] \notin bad
  BY <1>4, <1>5
<1>9. \A i \in 1..Len(s) : s[i] \notin bad => \E n \in 1..k : f[n] = i
  BY <1>1, <1>3
<1>10. /\ \A n \in 1..Len(Without(s, bad)) :
             Without(s, bad)[n] = s[f[n]] /\ s[f[n]] \notin bad
       /\ \A m, n \in 1..Len(Without(s, bad)) : m < n <=> f[m] < f[n]
       /\ \A i \in 1..Len(s) : s[i] \notin bad =>
            \E n \in 1..Len(Without(s, bad)) : f[n] = i
  BY <1>3, <1>6, <1>8, <1>9
<1>11. f \in [1..Len(Without(s, bad)) -> 1..Len(s)]
  BY <1>6, <1>7
<1>12. KeptAt(f, s, bad)
  BY <1>10, <1>11 DEF KeptAt
<1> QED
  BY <1>6, <1>12

\* f finds the k members of s that are not in bad, in order.
Finds(f, k, s, bad) ==
  /\ k \in Nat /\ f \in [1..k -> 1..Len(s)]
  /\ \A m, n \in 1..k : m < n => f[m] < f[n]
  /\ \A n \in 1..k : s[f[n]] \notin bad
  /\ \A i \in 1..Len(s) : s[i] \notin bad => \E n \in 1..k : f[n] = i

\* A sequence is what is left of another once its members are found there, in order.
THEOREM LeftInOrder ==
  ASSUME NEW T, NEW s \in Seq(T), NEW bad, NEW k, NEW f, Finds(f, k, s, bad)
  PROVE  Without(s, bad) = [n \in 1..k |-> s[f[n]]]
<1>0. /\ k \in Nat /\ f \in [1..k -> 1..Len(s)]
      /\ \A m, n \in 1..k : m < n => f[m] < f[n]
      /\ \A n \in 1..k : s[f[n]] \notin bad
      /\ \A i \in 1..Len(s) : s[i] \notin bad => \E n \in 1..k : f[n] = i
  BY DEF Finds
<1> DEFINE S == { i \in DOMAIN s : s[i] \notin bad }
<1>1. DOMAIN s = 1..Len(s) /\ Len(s) \in Nat
  BY LenProperties
<1>2. S \subseteq Nat /\ IsFiniteSet(S)
  <2>1. IsFiniteSet(1..Len(s))
    BY <1>1, FS_Interval
  <2>2. S \in SUBSET (1..Len(s))
    BY <1>1
  <2> QED
    BY <2>1, <2>2, FS_Subset
<1>3. f \in [1..k -> S]
  BY <1>0, <1>1
<1>4. \A x \in S : \E n \in 1..k : f[n] = x
  BY <1>0, <1>1
<1> HIDE DEF S
<1>5. f = Enumerated(S)
  <2> DEFINE up == { p \in S \X S : p[1] < p[2] }
  <2>1. \A x, y \in S : x < y => <<x, y>> \in up
    OBVIOUS
  <2>2. Orders(up, S)
    BY <1>2, NumbersAreOrdered
  <2>3. Enumerated(S) = ListedBy(S, up)
    BY DEF Enumerated
  <2> HIDE DEF up
  <2>4. \A n \in 1..k : f[n] \in S
    BY <1>3
  <2>5. Lists(f, k, S, up)
    BY <1>0, <1>3, <1>4, <2>1, <2>4 DEF Lists
  <2> QED
    BY <1>2, <2>2, <2>3, <2>5, OneListing
<1>6. Without(s, bad) = [n \in DOMAIN f |-> s[f[n]]]
  BY <1>5 DEF Without, S
<1> QED
  BY <1>3, <1>6

\* What is appended is left at the end, or not at all.
THEOREM WithoutAppend ==
  ASSUME NEW T, NEW s \in Seq(T), NEW bad, NEW r \in T
  PROVE  Without(Append(s, r), bad) =
           IF r \in bad THEN Without(s, bad) ELSE Append(Without(s, bad), r)
<1> DEFINE left == Without(s, bad)
           t    == Append(s, r)
           k    == Len(left)
<1>1. left \in Seq(T) /\ \E f : KeptAt(f, s, bad)
  BY WithoutKeepsOrder
<1>2. PICK f : KeptAt(f, s, bad)
  BY <1>1
<1> HIDE DEF left
<1>3. /\ f \in [1..k -> 1..Len(s)]
      /\ \A n \in 1..k : left[n] = s[f[n]] /\ s[f[n]] \notin bad
      /\ \A m, n \in 1..k : m < n <=> f[m] < f[n]
      /\ \A i \in 1..Len(s) : s[i] \notin bad => \E n \in 1..k : f[n] = i
  BY <1>2 DEF KeptAt, left
<1>4. /\ k \in Nat /\ Len(s) \in Nat /\ t \in Seq(T) /\ Len(t) = Len(s) + 1
      /\ \A i \in 1..Len(s) : t[i] = s[i] /\ i \in 1..Len(t)
      /\ t[Len(s) + 1] = r
      /\ \A i \in 1..Len(t) : i \in 1..Len(s) \/ i = Len(s) + 1
  BY <1>1, AppendProperties, LenProperties
<1> HIDE DEF t
<1>5. CASE r \in bad
  <2>1. f \in [1..k -> 1..Len(t)] /\ \A n \in 1..k : f[n] \in 1..Len(s) /\ t[f[n]] = s[f[n]]
    BY <1>3, <1>4
  <2>2. \A i \in 1..Len(t) : t[i] \notin bad => \E n \in 1..k : f[n] = i
    BY <1>3, <1>4, <1>5
  <2>3. (\A n \in 1..k : t[f[n]] \notin bad) /\ \A m, n \in 1..k : m < n => f[m] < f[n]
    BY <1>3, <2>1
  <2>4. Without(t, bad) = [n \in 1..k |-> t[f[n]]]
    <3>1. Finds(f, k, t, bad)
      BY <1>4, <2>1, <2>2, <2>3 DEF Finds
    <3> QED
      BY <1>4, <3>1, LeftInOrder
  <2>5. left = [n \in 1..k |-> left[n]]
    BY <1>1
  <2>6. \A n \in 1..k : t[f[n]] = left[n]
    BY <1>3, <2>1
  <2>7. Without(t, bad) = left
    BY <2>4, <2>5, <2>6
  <2> QED
    BY <1>5, <2>7 DEF left, t
<1>6. CASE r \notin bad
  <2> DEFINE g == [n \in 1..(k + 1) |-> IF n = k + 1 THEN Len(s) + 1 ELSE f[n]]
             w == Append(left, r)
  <2>1. \A n \in 1..(k + 1) : n = k + 1 \/ n \in 1..k
    BY <1>4
  <2>2. /\ g[k + 1] = Len(s) + 1 /\ \A n \in 1..k : g[n] = f[n] /\ n \in 1..(k + 1) /\ n # k + 1
        /\ \A n \in 1..k : f[n] \in 1..Len(s)
    BY <1>3, <1>4
  <2>3. g \in [1..(k + 1) -> 1..Len(t)]
    BY <1>4, <2>1, <2>2
  <2> HIDE DEF g
  <2>4. \A m, n \in 1..(k + 1) : m < n => g[m] < g[n]
    <3> SUFFICES ASSUME NEW m \in 1..(k + 1), NEW n \in 1..(k + 1), m < n PROVE g[m] < g[n]
      OBVIOUS
    <3>1. m \in 1..k /\ f[m] \in 1..Len(s) /\ g[m] = f[m]
      BY <1>4, <2>2
    <3>2. CASE n = k + 1
      BY <1>4, <2>2, <3>1, <3>2
    <3>3. CASE n \in 1..k
      BY <1>3, <2>2, <3>1, <3>3
    <3> QED
      BY <2>1, <3>2, <3>3
  <2>5. \A n \in 1..(k + 1) : t[g[n]] \notin bad
    BY <1>3, <1>4, <1>6, <2>1, <2>2
  <2>6. \A i \in 1..Len(t) : t[i] \notin bad => \E n \in 1..(k + 1) : g[n] = i
    <3> SUFFICES ASSUME NEW i \in 1..Len(t), t[i] \notin bad
                 PROVE  \E n \in 1..(k + 1) : g[n] = i
      OBVIOUS
    <3>1. CASE i = Len(s) + 1
      <4>1. k + 1 \in 1..(k + 1)
        BY <1>4
      <4> QED
        BY <2>2, <3>1, <4>1
    <3>2. CASE i \in 1..Len(s)
      <4>1. s[i] \notin bad
        BY <1>4, <3>2
      <4>2. PICK n \in 1..k : f[n] = i
        BY <1>3, <3>2, <4>1
      <4> QED
        BY <2>2, <4>2
    <3> QED
      BY <1>4, <3>1, <3>2
  <2>7. Without(t, bad) = [n \in 1..(k + 1) |-> t[g[n]]]
    <3>1. k + 1 \in Nat
      BY <1>4
    <3>2. Finds(g, k + 1, t, bad)
      BY <2>3, <2>4, <2>5, <2>6, <3>1 DEF Finds
    <3> QED
      BY <1>4, <3>2, LeftInOrder
  <2>8. w \in Seq(T) /\ Len(w) = k + 1 /\ w[k + 1] = r /\ \A n \in 1..k : w[n] = left[n]
    BY <1>1, AppendProperties
  <2>9. \A n \in 1..(k + 1) : t[g[n]] = w[n]
    BY <1>3, <1>4, <2>1, <2>2, <2>8
  <2> HIDE DEF w
  <2>10. w = [n \in 1..(k + 1) |-> w[n]]
    BY <2>8
  <2>11. Without(t, bad) = w
    BY <2>7, <2>9, <2>10
  <2> QED
    BY <1>6, <2>11 DEF left, t, w
<1> QED
  BY <1>5, <1>6

\* Without its first member, what is left begins one later if that was left.
THEOREM WithoutTail ==
  ASSUME NEW T, NEW s \in Seq(T), NEW bad, s # <<>>
  PROVE  /\ Head(s) \in bad => Without(Tail(s), bad) = Without(s, bad)
         /\ Head(s) \notin bad => /\ Without(s, bad) # <<>>
                                  /\ Without(Tail(s), bad) = Tail(Without(s, bad))
<1> DEFINE left == Without(s, bad)
           t    == Tail(s)
           k    == Len(left)
<1>1. left \in Seq(T) /\ \E f : KeptAt(f, s, bad)
  BY WithoutKeepsOrder
<1>2. PICK f : KeptAt(f, s, bad)
  BY <1>1
<1> HIDE DEF left
<1>3. /\ f \in [1..k -> 1..Len(s)]
      /\ \A n \in 1..k : left[n] = s[f[n]] /\ s[f[n]] \notin bad
      /\ \A m, n \in 1..k : m < n <=> f[m] < f[n]
      /\ \A i \in 1..Len(s) : s[i] \notin bad => \E n \in 1..k : f[n] = i
  BY <1>2 DEF KeptAt, left
<1>4. /\ k \in Nat /\ Len(s) \in Nat \ {0} /\ t \in Seq(T) /\ Len(t) = Len(s) - 1
      /\ \A i \in 1..Len(t) : t[i] = s[i + 1] /\ i + 1 \in 1..Len(s)
      /\ s[1] = Head(s)
      /\ \A i \in 1..Len(s) : i = 1 \/ i - 1 \in 1..Len(t)
  BY <1>1, HeadTailProperties, LenProperties
<1> HIDE DEF t
<1>5. CASE Head(s) \in bad
  <2> DEFINE g == [n \in 1..k |-> f[n] - 1]
  <2>1. \A n \in 1..k : f[n] \in 1..Len(s) /\ f[n] # 1
    BY <1>3, <1>4, <1>5
  <2>2. \A n \in 1..k : g[n] = f[n] - 1 /\ g[n] \in 1..Len(t) /\ t[g[n]] = s[f[n]]
    <3> SUFFICES ASSUME NEW n \in 1..k
                 PROVE  g[n] = f[n] - 1 /\ g[n] \in 1..Len(t) /\ t[g[n]] = s[f[n]]
      OBVIOUS
    <3>1. f[n] \in 1..Len(s) /\ f[n] # 1 /\ g[n] = f[n] - 1
      BY <2>1
    <3>2. g[n] \in 1..Len(t) /\ g[n] + 1 = f[n]
      BY <1>4, <3>1
    <3> QED
      BY <1>4, <3>1, <3>2
  <2>3. g \in [1..k -> 1..Len(t)]
    BY <2>2
  <2> HIDE DEF g
  <2>4. \A m, n \in 1..k : m < n => g[m] < g[n]
    <3> SUFFICES ASSUME NEW m \in 1..k, NEW n \in 1..k, m < n PROVE g[m] < g[n]
      OBVIOUS
    <3>1. f[m] < f[n] /\ f[m] \in 1..Len(s) /\ f[n] \in 1..Len(s)
      BY <1>3
    <3> QED
      BY <1>4, <2>2, <3>1
  <2>5. \A n \in 1..k : t[g[n]] \notin bad
    BY <1>3, <2>2
  <2>6. \A i \in 1..Len(t) : t[i] \notin bad => \E n \in 1..k : g[n] = i
    <3> SUFFICES ASSUME NEW i \in 1..Len(t), t[i] \notin bad PROVE \E n \in 1..k : g[n] = i
      OBVIOUS
    <3>1. i + 1 \in 1..Len(s) /\ s[i + 1] \notin bad
      BY <1>4
    <3>2. PICK n \in 1..k : f[n] = i + 1
      BY <1>3, <3>1
    <3>3. g[n] = i
      BY <1>4, <2>2, <3>2
    <3> QED
      BY <3>3
  <2>7. Without(t, bad) = [n \in 1..k |-> t[g[n]]]
    <3>1. Finds(g, k, t, bad)
      BY <1>4, <2>3, <2>4, <2>5, <2>6 DEF Finds
    <3> QED
      BY <1>4, <3>1, LeftInOrder
  <2>8. left = [n \in 1..k |-> left[n]]
    BY <1>1
  <2>9. \A n \in 1..k : t[g[n]] = left[n]
    BY <1>3, <2>2
  <2>10. Without(t, bad) = left
    BY <2>7, <2>8, <2>9
  <2> QED
    BY <1>5, <2>10 DEF left, t
<1>6. CASE Head(s) \notin bad
  <2> DEFINE g == [n \in 1..(k - 1) |-> f[n + 1] - 1]
             w == Tail(left)
  <2>1. PICK one \in 1..k : f[one] = 1
    <3>1. 1 \in 1..Len(s) /\ s[1] \notin bad
      BY <1>4, <1>6
    <3> QED
      BY <1>3, <3>1
  <2>2. k > 0 /\ 1 \in 1..k /\ left # <<>> /\ k - 1 \in Nat
    BY <1>1, <1>4, <2>1
  <2>3. \A n \in 1..(k - 1) : n + 1 \in 1..k /\ 1 < n + 1 /\ f[n + 1] \in 1..Len(s) /\ f[n + 1] # 1
    <3> SUFFICES ASSUME NEW n \in 1..(k - 1)
                 PROVE  n + 1 \in 1..k /\ 1 < n + 1 /\ f[n + 1] \in 1..Len(s) /\ f[n + 1] # 1
      OBVIOUS
    <3>1. n + 1 \in 1..k /\ 1 < n + 1
      BY <1>4
    <3>2. f[1] \in 1..Len(s) /\ f[n + 1] \in 1..Len(s) /\ f[1] < f[n + 1]
      BY <1>3, <2>2, <3>1
    <3> QED
      BY <1>4, <3>1, <3>2
  <2>4. \A n \in 1..(k - 1) : g[n] = f[n + 1] - 1 /\ g[n] \in 1..Len(t) /\ t[g[n]] = s[f[n + 1]]
    <3> SUFFICES ASSUME NEW n \in 1..(k - 1)
                 PROVE  g[n] = f[n + 1] - 1 /\ g[n] \in 1..Len(t) /\ t[g[n]] = s[f[n + 1]]
      OBVIOUS
    <3>1. f[n + 1] \in 1..Len(s) /\ f[n + 1] # 1 /\ g[n] = f[n + 1] - 1
      BY <2>3
    <3>2. g[n] \in 1..Len(t) /\ g[n] + 1 = f[n + 1]
      BY <1>4, <3>1
    <3> QED
      BY <1>4, <3>1, <3>2
  <2>5. g \in [1..(k - 1) -> 1..Len(t)]
    BY <2>4
  <2> HIDE DEF g
  <2>6. \A m, n \in 1..(k - 1) : m < n => g[m] < g[n]
    <3> SUFFICES ASSUME NEW m \in 1..(k - 1), NEW n \in 1..(k - 1), m < n PROVE g[m] < g[n]
      OBVIOUS
    <3>1. m + 1 \in 1..k /\ n + 1 \in 1..k /\ m + 1 < n + 1
      BY <2>3
    <3>2. f[m + 1] < f[n + 1] /\ f[m + 1] \in 1..Len(s) /\ f[n + 1] \in 1..Len(s)
      BY <1>3, <2>3, <3>1
    <3>3. g[m] = f[m + 1] - 1 /\ g[n] = f[n + 1] - 1
      BY <2>4
    <3> QED
      BY <1>4, <3>2, <3>3
  <2>7. \A n \in 1..(k - 1) : t[g[n]] \notin bad
    BY <1>3, <2>3, <2>4
  <2>8. \A i \in 1..Len(t) : t[i] \notin bad => \E n \in 1..(k - 1) : g[n] = i
    <3> SUFFICES ASSUME NEW i \in 1..Len(t), t[i] \notin bad
                 PROVE  \E n \in 1..(k - 1) : g[n] = i
      OBVIOUS
    <3>1. i + 1 \in 1..Len(s) /\ s[i + 1] \notin bad
      BY <1>4
    <3>2. PICK n \in 1..k : f[n] = i + 1
      BY <1>3, <3>1
    <3>3. n # 1
      <4>1. one = 1 \/ 1 < one
        BY <2>1
      <4>2. 1 < one => f[1] < f[one]
        BY <1>3, <2>2
      <4>3. f[1] \in 1..Len(s)
        BY <1>3, <2>2
      <4>4. f[1] = 1
        BY <2>1, <4>1, <4>2, <4>3
      <4> QED
        BY <3>2, <4>4
    <3>4. n - 1 \in 1..(k - 1) /\ n - 1 + 1 = n
      BY <1>4, <3>3
    <3>5. g[n - 1] = f[n] - 1
      BY <2>4, <3>4
    <3> QED
      BY <3>2, <3>4, <3>5
  <2>9. Without(t, bad) = [n \in 1..(k - 1) |-> t[g[n]]]
    <3>1. Finds(g, k - 1, t, bad)
      BY <2>2, <2>5, <2>6, <2>7, <2>8 DEF Finds
    <3> QED
      BY <1>4, <3>1, LeftInOrder
  <2>10. w \in Seq(T) /\ Len(w) = k - 1 /\ \A n \in 1..(k - 1) : w[n] = left[n + 1]
    BY <1>1, <2>2, HeadTailProperties
  <2> HIDE DEF w
  <2>11. \A n \in 1..(k - 1) : t[g[n]] = w[n]
    <3> SUFFICES ASSUME NEW n \in 1..(k - 1) PROVE t[g[n]] = w[n]
      OBVIOUS
    <3>1. t[g[n]] = s[f[n + 1]] /\ w[n] = left[n + 1]
      BY <2>4, <2>10
    <3>2. n + 1 \in 1..k
      BY <2>3
    <3> QED
      BY <1>3, <3>1, <3>2
  <2>12. w = [n \in 1..(k - 1) |-> w[n]]
    BY <2>10
  <2>13. Without(t, bad) = w
    BY <2>9, <2>11, <2>12
  <2> QED
    BY <1>6, <2>2, <2>13 DEF left, t, w
<1> QED
  BY <1>5, <1>6

\* No more is left than there was, and all of it was there.
THEOREM WithoutIsWithin ==
  ASSUME NEW T, NEW s \in Seq(T), NEW bad
  PROVE  Len(Without(s, bad)) \in Nat /\ Len(Without(s, bad)) <= Len(s)
<1> DEFINE S == { i \in DOMAIN s : s[i] \notin bad }
           e == Enumerated(S)
<1>1. DOMAIN s = 1..Len(s) /\ Len(s) \in Nat
  BY LenProperties
<1>2. IsFiniteSet(1..Len(s)) /\ Cardinality(1..Len(s)) = Len(s)
  <2>1. /\ IsFiniteSet(1..Len(s))
        /\ Cardinality(1..Len(s)) = IF 1 > Len(s) THEN 0 ELSE Len(s) - 1 + 1
    BY <1>1, FS_Interval
  <2> QED
    BY <1>1, <2>1
<1>3. S \in SUBSET (1..Len(s)) /\ S \subseteq Nat
  BY <1>1
<1> HIDE DEF S
<1>4. IsFiniteSet(S) /\ Cardinality(S) <= Len(s)
  BY <1>2, <1>3, FS_Subset
<1>5. Cardinality(S) \in Nat /\ e \in Seq(S) /\ Len(e) = Cardinality(S)
  BY <1>3, <1>4, EnumeratedListsAll
<1> HIDE DEF e
<1>6. Without(s, bad) = [n \in DOMAIN e |-> s[e[n]]]
  BY DEF Without, S, e
<1>7. Len(Without(s, bad)) = Cardinality(S)
  <2>1. DOMAIN e = 1..Cardinality(S)
    BY <1>5, LenProperties
  <2> QED
    BY <1>5, <1>6, <2>1
<1> QED
  BY <1>4, <1>5, <1>7

\* A sequence is one of its own members.
LEMMA SeqOfItsRange ==
  ASSUME NEW T, NEW s \in Seq(T)
  PROVE  s \in Seq(Range(s))
<1>1. Len(s) \in Nat /\ DOMAIN s = 1..Len(s) /\ s = [i \in 1..Len(s) |-> s[i]]
  BY LenProperties
<1>2. \A i \in 1..Len(s) : s[i] \in Range(s)
  BY <1>1 DEF Range
<1>3. [i \in 1..Len(s) |-> s[i]] \in Seq(Range(s))
  BY <1>1, <1>2
<1> QED
  BY <1>1, <1>3

\* Nothing is left when everything is to go.
LEMMA NothingLeft ==
  ASSUME NEW T, NEW s \in Seq(T), NEW bad, \A i \in 1..Len(s) : s[i] \in bad
  PROVE  Without(s, bad) = <<>>
<1>1. Finds(<<>>, 0, s, bad)
  <2>1. <<>> \in [1..0 -> 1..Len(s)]
    OBVIOUS
  <2> QED
    BY <2>1 DEF Finds
<1>2. Without(s, bad) = [n \in 1..0 |-> s[<<>>[n]]]
  BY <1>1, LeftInOrder
<1> QED
  BY <1>2

\* Counting up from 0 reaches every number.
LEMMA CountingUp ==
  ASSUME NEW m \in Nat, NEW S, 0 \in S, \A n \in 0..(m - 1) : n \in S => n + 1 \in S
  PROVE  \A n \in 0..m : n \in S
<1> DEFINE missed == { n \in 0..m : n \notin S }
<1> SUFFICES ASSUME missed # {} PROVE FALSE
  OBVIOUS
<1>1. missed \subseteq Nat /\ IsFiniteSet(missed)
  <2>1. IsFiniteSet(0..m)
    BY FS_Interval
  <2>2. missed \in SUBSET (0..m)
    OBVIOUS
  <2> QED
    BY <2>1, <2>2, FS_Subset
<1>2. PICK n \in missed : \A k \in missed : n <= k
  <2> HIDE DEF missed
  <2> QED
    BY <1>1, LeastMember
<1>3. n # 0 /\ n - 1 \in 0..(m - 1) /\ n - 1 \notin missed
  BY <1>2
<1>4. n - 1 \in S
  BY <1>3
<1>5. n - 1 + 1 \in S
  BY <1>3, <1>4
<1>6. n - 1 + 1 = n
  BY <1>3
<1> QED
  BY <1>5, <1>6

\* 1..n has n members.
LEMMA NumbersUpTo ==
  ASSUME NEW n \in Nat
  PROVE  IsFiniteSet(1..n) /\ Cardinality(1..n) = n
<1>1. IsFiniteSet(1..n) /\ Cardinality(1..n) = IF 1 > n THEN 0 ELSE n - 1 + 1
  BY FS_Interval
<1> QED
  BY <1>1

\* f has what a loop over 1..m has after each of its steps.
Loops(f, m, S, base, step) ==
  f \in [0..m -> S] /\ f[0] = base /\ \A n \in 1..m : f[n] = step[<<n, f[n - 1]>>]

\* A loop over 1..m that keeps a value of S ends: it has a value after every step.
LEMMA LoopsEnd ==
  ASSUME NEW m \in Nat, NEW S, NEW base \in S, NEW step \in [(1..m) \X S -> S]
  PROVE  \E f : Loops(f, m, S, base, step)
<1> DEFINE Until(k) == { f \in [0..k -> S] : f[0] = base /\ \A n \in 1..k : f[n] = step[<<n, f[n - 1]>>] }
           K == { k \in 0..m : Until(k) # {} }
<1>1. 0 \in K
  <2>1. [n \in 0..0 |-> base] \in Until(0)
    OBVIOUS
  <2> QED
    BY <2>1
<1>2. ASSUME NEW k \in 0..(m - 1), k \in K
      PROVE  k + 1 \in K
  <2>1. PICK f \in Until(k) : TRUE
    BY <1>2
  <2> DEFINE next == step[<<k + 1, f[k]>>]
             g == [n \in 0..(k + 1) |-> IF n = k + 1 THEN next ELSE f[n]]
  <2>2. k \in 0..k /\ k + 1 \in 1..m /\ f[k] \in S
    BY <2>1
  <2>3. next \in S
    BY <2>2
  <2>4. g \in [0..(k + 1) -> S]
    BY <2>1, <2>3
  <2>5. g[0] = base
    BY <2>1
  <2>6. ASSUME NEW n \in 1..(k + 1) PROVE g[n] = step[<<n, g[n - 1]>>]
    <3>1. n - 1 \in 0..k /\ g[n - 1] = f[n - 1] /\ n \in 0..(k + 1)
      OBVIOUS
    <3>2. CASE n = k + 1
      <4>1. n - 1 = k
        BY <3>2
      <4> QED
        BY <3>1, <3>2, <4>1
    <3>3. CASE n # k + 1
      <4>1. n \in 1..k
        BY <3>3
      <4> QED
        BY <3>1, <3>3, <4>1, <2>1
    <3> QED
      BY <3>2, <3>3
  <2>7. g \in Until(k + 1)
    BY <2>4, <2>5, <2>6
  <2> HIDE DEF g, Until
  <2>8. k + 1 \in 0..m /\ Until(k + 1) # {}
    BY <2>7
  <2> QED
    BY <2>8
<1> HIDE DEF K
<1>3. m \in K
  BY <1>1, <1>2, CountingUp
<1> QED
  BY <1>3 DEF K, Loops

\* An initial part of an ordered set, listed, is the beginning of the listing of the whole.
THEOREM BeginningOfListing ==
  ASSUME NEW S, IsFiniteSet(S), NEW order, Orders(order, S), NEW D \in SUBSET S,
         \A x \in D, y \in S : <<y, x>> \in order => y \in D,
         NEW k, NEW f, Lists(f, k, D, order)
  PROVE  /\ k <= Cardinality(S) /\ \A n \in 1..k : f[n] = ListedBy(S, order)[n]
         /\ D = S => k = Cardinality(S)
<1> DEFINE e == ListedBy(S, order)
           m == Cardinality(S)
<1>1. /\ m \in Nat /\ e \in Seq(S) /\ Len(e) = m
      /\ \A i, j \in 1..m : i < j <=> <<e[i], e[j]>> \in order
      /\ \A x \in S : \E n \in 1..m : e[n] = x
  BY ListedListsAll
<1> HIDE DEF e, m
<1>2. IsFiniteSet(D) /\ Orders(order, D)
  <2>1. IsFiniteSet(D)
    BY FS_Subset
  <2> QED
    BY <2>1 DEF Orders
<1>3. f = ListedBy(D, order) /\ k = Cardinality(D)
  BY <1>2, OneListing
<1>4. \A n \in 1..m : e[n] \in S
  BY <1>1, ElementOfSeq
<1> DEFINE out == { n \in 1..m : e[n] \notin D }
<1>5. PICK c \in 0..m : \A n \in 1..m : e[n] \in D <=> n <= c
  <2>1. CASE out = {}
    <3>1. \A n \in 1..m : e[n] \in D /\ n <= m
      BY <2>1
    <3>2. m \in 0..m
      BY <1>1
    <3> QED
      BY <3>1, <3>2
  <2>2. CASE out # {}
    <3>1. out \subseteq Nat /\ IsFiniteSet(out)
      <4>1. IsFiniteSet(1..m)
        BY <1>1, FS_Interval
      <4>2. out \in SUBSET (1..m) /\ out \subseteq Nat
        BY <1>1
      <4> HIDE DEF out
      <4> QED
        BY <4>1, <4>2, FS_Subset
    <3>2. PICK l \in out : \A y \in out : l <= y
      BY <2>2, <3>1, LeastMember
    <3>3. l \in 1..m /\ e[l] \notin D /\ l - 1 \in 0..m
      BY <1>1, <3>2
    <3>4. ASSUME NEW n \in 1..m, n <= l - 1 PROVE e[n] \in D
      <4>1. ~(l <= n)
        BY <3>3, <3>4
      <4> QED
        BY <3>2, <4>1
    <3>5. ASSUME NEW n \in 1..m, e[n] \in D PROVE n <= l - 1
      <4>1. n # l
        BY <3>3, <3>5
      <4>2. ~(l < n)
        <5>1. l < n => <<e[l], e[n]>> \in order
          BY <1>1, <3>3
        <5> QED
          BY <1>4, <3>3, <3>5, <5>1
      <4> QED
        BY <3>3, <4>1, <4>2
    <3> QED
      BY <3>3, <3>4, <3>5
  <2> QED
    BY <2>1, <2>2
<1> DEFINE g == [n \in 1..c |-> e[n]]
<1>6. Lists(g, c, D, order)
  <2>1. \A n \in 1..c : n \in 1..m
    BY <1>1, <1>5
  <2>2. c \in Nat /\ g \in [1..c -> D] /\ \A n \in 1..c : g[n] = e[n]
    BY <1>1, <1>5, <2>1
  <2> HIDE DEF g
  <2>3. \A i, j \in 1..c : i < j => <<g[i], g[j]>> \in order
    BY <1>1, <2>1, <2>2
  <2>4. ASSUME NEW x \in D PROVE \E n \in 1..c : g[n] = x
    <3>1. PICK n \in 1..m : e[n] = x
      BY <1>1, <2>4
    <3>2. n \in 1..c
      BY <1>1, <1>5, <3>1
    <3> QED
      BY <2>2, <3>1, <3>2
  <2> QED
    BY <2>2, <2>3, <2>4 DEF Lists
<1> HIDE DEF g
<1>7. g = ListedBy(D, order) /\ c = Cardinality(D)
  BY <1>2, <1>6, OneListing
<1>8. \A n \in 1..k : f[n] = e[n]
  BY <1>3, <1>7 DEF g
<1>9. k <= m
  BY <1>1, <1>3, <1>5, <1>7
<1>10. D = S => k = m
  BY <1>3 DEF m
<1> QED
  BY <1>8, <1>9, <1>10 DEF e, m

\* S has 0 and, up to m, with each number the next.
CountsUp(S, m) == 0 \in S /\ \A n \in 0..(m - 1) : n \in S => n + 1 \in S

LEMMA CountedUp ==
  ASSUME NEW m \in Nat, NEW S, CountsUp(S, m)
  PROVE  m \in S
<1>1. 0 \in S /\ \A n \in 0..(m - 1) : n \in S => n + 1 \in S
  BY DEF CountsUp
<1> QED
  BY <1>1, CountingUp

\* Finitely many finite sets have a finite union.
LEMMA UnionUpTo ==
  ASSUME NEW n \in Nat, NEW F, \A i \in 1..n : IsFiniteSet(F[i])
  PROVE  IsFiniteSet(UNION { F[i] : i \in 1..n })
<1> DEFINE U(m) == UNION { F[i] : i \in 1..m }
           K == { m \in 0..n : IsFiniteSet(U(m)) }
<1>1. 0 \in K
  <2>1. U(0) = {}
    OBVIOUS
  <2> QED
    BY <2>1, FS_EmptySet
<1>2. ASSUME NEW m \in 0..(n - 1), m \in K PROVE m + 1 \in K
  <2>1. m + 1 \in 1..n /\ m + 1 \in 0..n /\ \A i : i \in 1..(m + 1) <=> i \in 1..m \/ i = m + 1
    OBVIOUS
  <2>2. U(m + 1) = U(m) \cup F[m + 1]
    BY <2>1
  <2>3. IsFiniteSet(U(m)) /\ IsFiniteSet(F[m + 1])
    BY <1>2, <2>1
  <2> HIDE DEF U
  <2>4. IsFiniteSet(U(m + 1))
    BY <2>2, <2>3, FS_Union
  <2> QED
    BY <2>1, <2>4
<1> HIDE DEF K
<1>3. n \in K
  BY <1>1, <1>2, CountingUp
<1> QED
  BY <1>3 DEF K
=============================================================================
