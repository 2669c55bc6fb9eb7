--------------------------- MODULE MixtureProofs ----------------------------
(***************************************************************************)
(* Proofs about mixtures: the registries of gases and reactions and the    *)
(* reaction passes over one mixture, then the mixture commands, with what  *)
(* sums over finite sets need.                                             *)
(***************************************************************************)
EXTENDS MCMixtures, FiniteSetTheorems, FunctionTheorems, SequenceTheorems, WellFoundedInduction, TLAPS

\* A set of naturals with a member has a least one.
LEMMA LeastNatural ==
  ASSUME NEW T \in SUBSET Nat, T # {}
  PROVE  \E x \in T : \A y \in T : x <= y
<1> DEFINE R == {ss \in Nat \X Nat : ss[1] < ss[2]}
<1>1. IsWellFoundedOn(R, Nat)
  BY NatLessThanWellFounded DEF OpToRel
<1> HIDE DEF R
<1>2. PICK x \in T : \A y \in T : ~(<<y, x>> \in R)
  BY <1>1, WFMin
<1>3. \A y \in T : ~(y < x)
  BY <1>2 DEF R
<1> QED
  BY <1>3

\* A strict total order on 1..n as a set of pairs.
Orders(R, n) ==
  /\ \A i \in 1 .. n : <<i, i>> \notin R
  /\ \A i, j \in 1 .. n : i # j => <<i, j>> \in R \/ <<j, i>> \in R
  /\ \A i, j, k \in 1 .. n : <<i, j>> \in R /\ <<j, k>> \in R => <<i, k>> \in R

Predecessors(R, n, i) == {j \in 1 .. n : <<j, i>> \in R}

\* The number of predecessors tells the members of a total order apart.
LEMMA RankInjective ==
  ASSUME NEW n \in Nat, NEW R, Orders(R, n)
  PROVE  /\ \A i \in 1 .. n : Cardinality(Predecessors(R, n, i)) \in 0 .. n - 1
         /\ \A i, k \in 1 .. n : <<i, k>> \in R =>
              Cardinality(Predecessors(R, n, i)) < Cardinality(Predecessors(R, n, k))
<1>0. IsFiniteSet(1 .. n) /\ Cardinality(1 .. n) = n
  BY FS_Interval
<1>1. ASSUME NEW i \in 1 .. n
      PROVE  /\ IsFiniteSet(Predecessors(R, n, i))
             /\ Cardinality(Predecessors(R, n, i)) \in 0 .. n - 1
  <2>1. Predecessors(R, n, i) \in SUBSET ((1 .. n) \ {i})
    BY DEF Predecessors, Orders
  <2>2. IsFiniteSet((1 .. n) \ {i}) /\ Cardinality((1 .. n) \ {i}) = n - 1
    BY <1>0, FS_RemoveElement
  <2>3. /\ IsFiniteSet(Predecessors(R, n, i))
        /\ Cardinality(Predecessors(R, n, i)) <= n - 1
    BY <2>1, <2>2, FS_Subset
  <2>4. Cardinality(Predecessors(R, n, i)) \in Nat
    BY <2>3, FS_CardinalityType
  <2> QED
    BY <2>3, <2>4
<1>2. ASSUME NEW i \in 1 .. n, NEW k \in 1 .. n, <<i, k>> \in R
      PROVE  Cardinality(Predecessors(R, n, i)) < Cardinality(Predecessors(R, n, k))
  <2>1. Predecessors(R, n, i) \in SUBSET Predecessors(R, n, k)
    BY <1>2 DEF Predecessors, Orders
  <2>2. i \in Predecessors(R, n, k) /\ i \notin Predecessors(R, n, i)
    BY <1>2 DEF Predecessors, Orders
  <2>3. Cardinality(Predecessors(R, n, i)) <= Cardinality(Predecessors(R, n, k))
        /\ Cardinality(Predecessors(R, n, k)) # Cardinality(Predecessors(R, n, i))
    BY <1>1, <2>1, <2>2, FS_Subset
  <2> QED
    BY <1>1, <2>3
<1> QED
  BY <1>1, <1>2

\* Sorted is a permutation that respects the order.
LEMMA SortedOrders ==
  ASSUME NEW n \in Nat, NEW R, Orders(R, n)
  PROVE  /\ Sorted(n, R) \in [1 .. n -> 1 .. n]
         /\ \A i \in 1 .. n : \E p \in 1 .. n : Sorted(n, R)[p] = i
         /\ \A p, q \in 1 .. n : p < q => <<Sorted(n, R)[p], Sorted(n, R)[q]>> \in R
<1> DEFINE Rank == [i \in 1 .. n |-> Cardinality(Predecessors(R, n, i))]
<1>1. Rank \in [1 .. n -> 0 .. n - 1]
  BY RankInjective
<1>2. \A i, k \in 1 .. n : <<i, k>> \in R => Rank[i] < Rank[k]
  BY RankInjective
<1>3. Rank \in Injection(1 .. n, 0 .. n - 1)
  <2>1. ASSUME NEW i \in 1 .. n, NEW k \in 1 .. n, Rank[i] = Rank[k]
        PROVE  i = k
    <3>1. Rank[i] \in Int /\ Rank[k] \in Int
      BY <1>1
    <3>2. ~(<<i, k>> \in R) /\ ~(<<k, i>> \in R)
      BY <1>2, <2>1, <3>1
    <3> QED
      BY <3>2 DEF Orders
  <2> HIDE DEF Rank
  <2> QED
    BY <1>1, <2>1, Fun_IsInj
<1>4. Rank \in Surjection(1 .. n, 0 .. n - 1)
  <2>1. /\ IsFiniteSet(1 .. n) /\ Cardinality(1 .. n) = n
        /\ IsFiniteSet(0 .. n - 1) /\ Cardinality(0 .. n - 1) = n
    <3>1. 0 \in Int /\ n - 1 \in Int /\ 1 \in Int /\ n \in Int
      OBVIOUS
    <3>2. IsFiniteSet(1 .. n) /\ Cardinality(1 .. n) = n
      BY FS_Interval
    <3>3. IsFiniteSet(0 .. n - 1) /\ Cardinality(0 .. n - 1) = IF 0 > n - 1 THEN 0 ELSE n - 1 - 0 + 1
      BY <3>1, FS_Interval
    <3> QED
      BY <3>2, <3>3
  <2> HIDE DEF Rank
  <2> QED
    BY <1>3, <2>1, FS_Injection
<1>5. \A p \in 1 .. n : \E i \in 1 .. n : Rank[i] = p - 1
  <2> HIDE DEF Rank
  <2>1. \A r \in 0 .. n - 1 : \E i \in 1 .. n : Rank[i] = r
    BY <1>4 DEF Surjection
  <2> QED
    BY <2>1
<1>6. \A p \in 1 .. n : Sorted(n, R)[p] = CHOOSE i \in 1 .. n : Rank[i] = p - 1
  BY DEF Sorted, Predecessors
<1>7. \A p \in 1 .. n : Sorted(n, R)[p] \in 1 .. n /\ Rank[Sorted(n, R)[p]] = p - 1
  BY <1>5, <1>6
<1>8. Sorted(n, R) \in [1 .. n -> 1 .. n]
  BY <1>7 DEF Sorted
<1>9. ASSUME NEW i \in 1 .. n
      PROVE  \E p \in 1 .. n : Sorted(n, R)[p] = i
  <2>1. Rank[i] \in 0 .. n - 1
    BY <1>1
  <2> DEFINE p == Rank[i] + 1
  <2>2. p \in 1 .. n /\ p - 1 = Rank[i]
    BY <2>1
  <2>3. Rank[Sorted(n, R)[p]] = Rank[i] /\ Sorted(n, R)[p] \in 1 .. n
    BY <1>7, <2>2
  <2>4. Sorted(n, R)[p] = i
    <3> HIDE DEF Rank
    <3> QED
      BY <1>3, <2>3 DEF Injection, IsInjective
  <2> QED
    BY <2>2, <2>4
<1>10. ASSUME NEW p \in 1 .. n, NEW q \in 1 .. n, p < q
       PROVE  <<Sorted(n, R)[p], Sorted(n, R)[q]>> \in R
  <2> DEFINE i == Sorted(n, R)[p]
             k == Sorted(n, R)[q]
  <2>1. i \in 1 .. n /\ k \in 1 .. n /\ Rank[i] = p - 1 /\ Rank[k] = q - 1
    BY <1>7
  <2> HIDE DEF i, k
  <2>2. Rank[i] < Rank[k]
    BY <1>10, <2>1
  <2>3. i # k /\ ~(<<k, i>> \in R)
    BY <1>2, <2>1, <2>2
  <2>4. <<i, k>> \in R
    BY <2>1, <2>3 DEF Orders
  <2> QED
    BY <2>4 DEF i, k
<1> QED
  BY <1>8, <1>9, <1>10
-----------------------------------------------------------------------------
\* The n entries of a batch in the order of their ids.
Arranged(es, sorted, n) ==
  /\ DOMAIN sorted = 1 .. n /\ Len(sorted) = n
  /\ \A p \in 1 .. n : \E i \in 1 .. n : sorted[p] = es[i]
  /\ \A i \in 1 .. n : \E p \in 1 .. n : sorted[p] = es[i]
  /\ \A p, q \in 1 .. n : p < q => sorted[p].id <= sorted[q].id

\* A batch of n entries with natural ids.
Batch(es, n) ==
  /\ n \in Nat /\ DOMAIN es = 1 .. n /\ Len(es) = n
  /\ \A i \in 1 .. n : es[i].id \in Nat

\* sort_unstable_by_key arranges a batch.
LEMMA ByIdArranges ==
  ASSUME NEW es, NEW n, Batch(es, n)
  PROVE  Arranged(es, ById(es), n)
<1> DEFINE R == IdsBefore(es)
           order == Sorted(n, R)
           sorted == ById(es)
<1>1. n \in Nat /\ DOMAIN es = 1 .. n /\ Len(es) = n /\ \A i \in 1 .. n : es[i].id \in Nat
  BY DEF Batch
<1>2. \A i, j \in 1 .. n : <<i, j>> \in R
        <=> es[i].id < es[j].id \/ (es[i].id = es[j].id /\ i < j)
  BY <1>1 DEF IdsBefore
<1>3. Orders(R, n)
  <2> HIDE DEF R
  <2>1. \A i \in 1 .. n : <<i, i>> \notin R
    BY <1>1, <1>2
  <2>2. \A i, j \in 1 .. n : i # j => <<i, j>> \in R \/ <<j, i>> \in R
    BY <1>1, <1>2
  <2>3. ASSUME NEW i \in 1 .. n, NEW j \in 1 .. n, NEW k \in 1 .. n,
               <<i, j>> \in R, <<j, k>> \in R
        PROVE  <<i, k>> \in R
    <3>1. es[i].id \in Nat /\ es[j].id \in Nat /\ es[k].id \in Nat
      BY <1>1
    <3>2. es[i].id < es[j].id \/ (es[i].id = es[j].id /\ i < j)
      BY <1>2, <2>3
    <3>3. es[j].id < es[k].id \/ (es[j].id = es[k].id /\ j < k)
      BY <1>2, <2>3
    <3>4. es[i].id < es[k].id \/ (es[i].id = es[k].id /\ i < k)
      BY <3>1, <3>2, <3>3, <1>1
    <3> QED
      BY <1>2, <3>4
  <2> QED
    BY <2>1, <2>2, <2>3 DEF Orders
<1>4. /\ order \in [1 .. n -> 1 .. n]
      /\ \A i \in 1 .. n : \E p \in 1 .. n : order[p] = i
      /\ \A p, q \in 1 .. n : p < q => <<order[p], order[q]>> \in R
  <2> HIDE DEF R
  <2>1. n \in Nat
    BY <1>1
  <2>2. /\ Sorted(n, R) \in [1 .. n -> 1 .. n]
        /\ \A i \in 1 .. n : \E p \in 1 .. n : Sorted(n, R)[p] = i
        /\ \A p, q \in 1 .. n : p < q => <<Sorted(n, R)[p], Sorted(n, R)[q]>> \in R
    BY <2>1, <1>3, SortedOrders
  <2> QED
    BY <2>2
<1> HIDE DEF R
<1>5. sorted = [p \in 1 .. n |-> es[order[p]]]
  BY <1>1 DEF ById, R
<1> HIDE DEF order, sorted
<1>6. DOMAIN sorted = 1 .. n /\ \A p \in 1 .. n : sorted[p] = es[order[p]]
  BY <1>5
<1>7. Len(sorted) = n
  <2>1. sorted \in Seq({es[i] : i \in 1 .. n})
    BY <1>1, <1>4, <1>5
  <2> QED
    BY <1>1, <1>6, <2>1, LenProperties
<1>8. \A p, q \in 1 .. n : p < q => sorted[p].id <= sorted[q].id
  <2> TAKE p, q \in 1 .. n
  <2> HAVE p < q
  <2>1. order[p] \in 1 .. n /\ order[q] \in 1 .. n /\ <<order[p], order[q]>> \in R
    BY <1>4
  <2>2. es[order[p]].id <= es[order[q]].id
    BY <1>1, <1>2, <2>1
  <2> QED
    BY <1>6, <2>2
<1>9. \A p \in 1 .. n : \E i \in 1 .. n : sorted[p] = es[i]
  BY <1>4, <1>6
<1>10. \A i \in 1 .. n : \E p \in 1 .. n : sorted[p] = es[i]
  BY <1>4, <1>6
<1> QED
  BY <1>6, <1>7, <1>8, <1>9, <1>10 DEF Arranged, sorted

\* Ids that ascend and fill 0..n-1 are one less than their places.
LEMMA FilledIds ==
  ASSUME NEW n \in Nat, NEW g \in [1 .. n -> Nat],
         \A p, q \in 1 .. n : p < q => g[p] <= g[q],
         {g[p] : p \in 1 .. n} = 0 .. n - 1
  PROVE  \A p \in 1 .. n : g[p] = p - 1
<1>0. /\ IsFiniteSet(1 .. n) /\ Cardinality(1 .. n) = n
      /\ IsFiniteSet(0 .. n - 1) /\ Cardinality(0 .. n - 1) = n
  <2>1. 0 \in Int /\ n - 1 \in Int
    OBVIOUS
  <2>2. IsFiniteSet(1 .. n) /\ Cardinality(1 .. n) = n
    BY FS_Interval
  <2>3. IsFiniteSet(0 .. n - 1) /\ Cardinality(0 .. n - 1) = IF 0 > n - 1 THEN 0 ELSE n - 1 - 0 + 1
    BY <2>1, FS_Interval
  <2> QED
    BY <2>2, <2>3
<1>1. g \in [1 .. n -> 0 .. n - 1] /\ \A r \in 0 .. n - 1 : \E p \in 1 .. n : g[p] = r
  <2>1. \A p \in 1 .. n : g[p] \in 0 .. n - 1
    OBVIOUS
  <2>2. \A r \in 0 .. n - 1 : r \in {g[p] : p \in 1 .. n}
    OBVIOUS
  <2> QED
    BY <2>1, <2>2
<1>2. g \in Surjection(1 .. n, 0 .. n - 1)
  BY <1>1 DEF Surjection
<1>3. g \in Injection(1 .. n, 0 .. n - 1)
  BY <1>0, <1>2, FS_Surjection
<1>4. \A p, q \in 1 .. n : g[p] = g[q] => p = q
  BY <1>3 DEF Injection, IsInjective
<1> SUFFICES ASSUME NEW p \in 1 .. n
             PROVE  g[p] = p - 1
  OBVIOUS
<1>5. g[p] \in 0 .. n - 1
  BY <1>1
<1> DEFINE h == [q \in 1 .. p - 1 |-> g[q]]
<1>6. \A q \in 1 .. p - 1 : g[q] \in 0 .. g[p] - 1
  <2> TAKE q \in 1 .. p - 1
  <2>1. q \in 1 .. n /\ q < p
    OBVIOUS
  <2>2. g[q] \in Nat /\ g[q] <= g[p] /\ g[q] # g[p]
    BY <1>4, <2>1
  <2> QED
    BY <2>2, <1>5
<1>7. h \in [1 .. p - 1 -> 0 .. g[p] - 1]
  BY <1>6
<1>8. \A r \in 0 .. g[p] - 1 : \E q \in 1 .. p - 1 : h[q] = r
  <2> TAKE r \in 0 .. g[p] - 1
  <2>1. r \in 0 .. n - 1 /\ r < g[p]
    BY <1>5
  <2>2. PICK q \in 1 .. n : g[q] = r
    BY <1>1, <2>1
  <2>3. ~(p <= q)
    <3>1. CASE p = q
      BY <2>1, <2>2, <3>1, <1>5
    <3>2. CASE p < q
      <4>1. g[p] <= g[q]
        BY <3>2
      <4> QED
        BY <2>1, <2>2, <4>1, <1>5
    <3> QED
      BY <3>1, <3>2
  <2>4. q \in 1 .. p - 1
    BY <2>3
  <2> QED
    BY <2>2, <2>4
<1>9. \A q, r \in 1 .. p - 1 : h[q] = h[r] => q = r
  BY <1>4
<1> HIDE DEF h
<1>10. h \in Bijection(1 .. p - 1, 0 .. g[p] - 1)
  BY <1>7, <1>8, <1>9, Fun_IsBij
<1>11. IsFiniteSet(1 .. p - 1) /\ Cardinality(1 .. p - 1) = p - 1
  <2>1. 1 \in Int /\ p - 1 \in Int
    OBVIOUS
  <2>2. IsFiniteSet(1 .. p - 1) /\ Cardinality(1 .. p - 1) = IF 1 > p - 1 THEN 0 ELSE p - 1 - 1 + 1
    BY <2>1, FS_Interval
  <2> QED
    BY <2>2
<1>12. Cardinality(0 .. g[p] - 1) = g[p]
  <2>1. 0 \in Int /\ g[p] - 1 \in Int
    BY <1>5
  <2>2. Cardinality(0 .. g[p] - 1) = IF 0 > g[p] - 1 THEN 0 ELSE g[p] - 1 - 0 + 1
    BY <2>1, FS_Interval
  <2> QED
    BY <2>2, <1>5
<1>13. Cardinality(0 .. g[p] - 1) = Cardinality(1 .. p - 1)
  BY <1>10, <1>11, FS_Bijection DEF ExistsBijection
<1> QED
  BY <1>11, <1>12, <1>13

\* What the walk over the sorted batch asks of ids and keys.
Accepted(sorted, n) ==
  ~RepeatsId(sorted) /\ \A i \in 1 .. n : EntryError(sorted, i) = "ok"

\* An accepted entry has the id of its place and a key no earlier entry has.
LEMMA EntryAccepted ==
  ASSUME NEW sorted, NEW n \in Nat, NEW i \in 1 .. n
  PROVE  EntryError(sorted, i) = "ok" <=>
           /\ sorted[i].id = i - 1 /\ sorted[i].key # EmptyKey
           /\ \A j \in 1 .. i - 1 : sorted[j].key # sorted[i].key
  BY DEF EntryError, KeysBefore

\* Distinct keys, and the keys of a batch as often as it has entries.
Keys(sorted, n) == {sorted[p].key : p \in 1 .. n}

\* A batch has as many keys as entries exactly when no two entries share one.
LEMMA KeysDistinct ==
  ASSUME NEW sorted, NEW n \in Nat
  PROVE  /\ IsFiniteSet(Keys(sorted, n)) /\ Cardinality(Keys(sorted, n)) \in 0 .. n
         /\ Cardinality(Keys(sorted, n)) = n <=>
              \A p, q \in 1 .. n : sorted[p].key = sorted[q].key => p = q
<1> DEFINE k == [p \in 1 .. n |-> sorted[p].key]
<1>1. IsFiniteSet(1 .. n) /\ Cardinality(1 .. n) = n
  BY FS_Interval
<1>2. k \in Surjection(1 .. n, Keys(sorted, n))
  BY DEF Surjection, Keys
<1>3. k \in Injection(1 .. n, Keys(sorted, n)) <=>
        \A p, q \in 1 .. n : sorted[p].key = sorted[q].key => p = q
  BY DEF Injection, IsInjective, Keys
<1> HIDE DEF k
<1>4. /\ IsFiniteSet(Keys(sorted, n)) /\ Cardinality(Keys(sorted, n)) <= n
      /\ Cardinality(Keys(sorted, n)) = n <=> k \in Injection(1 .. n, Keys(sorted, n))
  BY <1>1, <1>2, FS_Surjection
<1>5. Cardinality(Keys(sorted, n)) \in Nat
  BY <1>4, FS_CardinalityType
<1> QED
  BY <1>3, <1>4, <1>5

Ids(sorted, n) == {sorted[p].id : p \in 1 .. n}

\* The ids and the keys of a batch are those of its arrangement.
LEMMA ArrangedImages ==
  ASSUME NEW es, NEW n, Batch(es, n), NEW sorted, Arranged(es, sorted, n)
  PROVE  /\ {es[i].id : i \in DOMAIN es} = Ids(sorted, n)
         /\ {es[i].key : i \in DOMAIN es} = Keys(sorted, n)
<1>1. DOMAIN es = 1 .. n
  BY DEF Batch
<1>2. /\ \A p \in 1 .. n : \E i \in 1 .. n : sorted[p] = es[i]
      /\ \A i \in 1 .. n : \E p \in 1 .. n : sorted[p] = es[i]
  BY DEF Arranged
<1>3. {es[i].id : i \in 1 .. n} = {sorted[p].id : p \in 1 .. n}
  <2>1. ASSUME NEW i \in 1 .. n
        PROVE  es[i].id \in {sorted[p].id : p \in 1 .. n}
    BY <1>2
  <2>2. ASSUME NEW p \in 1 .. n
        PROVE  sorted[p].id \in {es[i].id : i \in 1 .. n}
    BY <1>2
  <2> QED
    BY <2>1, <2>2
<1>4. {es[i].key : i \in 1 .. n} = {sorted[p].key : p \in 1 .. n}
  <2>1. ASSUME NEW i \in 1 .. n
        PROVE  es[i].key \in {sorted[p].key : p \in 1 .. n}
    BY <1>2
  <2>2. ASSUME NEW p \in 1 .. n
        PROVE  sorted[p].key \in {es[i].key : i \in 1 .. n}
    BY <1>2
  <2> QED
    BY <2>1, <2>2
<1> QED
  BY <1>1, <1>3, <1>4 DEF Keys, Ids

\* Ids that ascend without a repetition and keys without one are what a dense and
\* named batch has, and nothing else.
LEMMA AcceptedIfDense ==
  ASSUME NEW es, NEW n, Batch(es, n), NEW sorted, Arranged(es, sorted, n), DenseAndNamed(es)
  PROVE  Accepted(sorted, n)
<1>1. n \in Nat /\ Len(es) = n /\ Len(sorted) = n
  BY DEF Batch, Arranged
<1>2. {sorted[p].id : p \in 1 .. n} = 0 .. n - 1
  <2>1. Ids(sorted, n) = 0 .. n - 1
    BY <1>1, ArrangedImages DEF DenseAndNamed
  <2> QED
    BY <2>1 DEF Ids
<1>3. Cardinality(Keys(sorted, n) \ {EmptyKey}) = n
  BY <1>1, ArrangedImages DEF DenseAndNamed
<1> DEFINE g == [p \in 1 .. n |-> sorted[p].id]
<1>4. \A p \in 1 .. n : sorted[p].id \in Nat
  BY DEF Batch, Arranged
<1>5. /\ g \in [1 .. n -> Nat] /\ \A p, q \in 1 .. n : p < q => g[p] <= g[q]
      /\ {g[p] : p \in 1 .. n} = 0 .. n - 1
  BY <1>2, <1>4 DEF Arranged
<1>6. \A p \in 1 .. n : g[p] = p - 1
  <2> HIDE DEF g
  <2> QED
    BY <1>1, <1>5, FilledIds
<1>7. \A p \in 1 .. n : sorted[p].id = p - 1
  BY <1>6
<1> HIDE DEF g
<1>8. /\ IsFiniteSet(Keys(sorted, n)) /\ Cardinality(Keys(sorted, n)) \in 0 .. n
      /\ Cardinality(Keys(sorted, n)) = n <=>
           \A p, q \in 1 .. n : sorted[p].key = sorted[q].key => p = q
  BY <1>1, KeysDistinct
<1>9. EmptyKey \notin Keys(sorted, n)
  <2> SUFFICES ASSUME EmptyKey \in Keys(sorted, n)
               PROVE  FALSE
    OBVIOUS
  <2>1. Cardinality(Keys(sorted, n) \ {EmptyKey}) = Cardinality(Keys(sorted, n)) - 1
    BY <1>8, FS_RemoveElement
  <2> DEFINE c == Cardinality(Keys(sorted, n))
  <2>2. c \in 0 .. n
    BY <1>8
  <2>3. c - 1 = n
    BY <1>3, <2>1
  <2> HIDE DEF c
  <2> QED
    BY <1>1, <2>2, <2>3
<1>10. Keys(sorted, n) \ {EmptyKey} = Keys(sorted, n)
  BY <1>9
<1>11. \A p, q \in 1 .. n : sorted[p].key = sorted[q].key => p = q
  BY <1>3, <1>8, <1>10
<1>12. \A p \in 1 .. n : sorted[p].key # EmptyKey
  BY <1>9 DEF Keys
<1>13. ASSUME NEW i \in 1 .. n
       PROVE  EntryError(sorted, i) = "ok"
  <2>1. \A j \in 1 .. i - 1 : j \in 1 .. n /\ j # i
    BY <1>1
  <2>2. \A j \in 1 .. i - 1 : sorted[j].key # sorted[i].key
    BY <1>11, <2>1
  <2> QED
    BY <1>1, <1>7, <1>12, <2>2, EntryAccepted
<1>14. ~RepeatsId(sorted)
  <2> SUFFICES ASSUME NEW i \in 1 .. n - 1, sorted[i].id = sorted[i + 1].id
               PROVE  FALSE
    BY <1>1 DEF RepeatsId
  <2>1. i \in 1 .. n /\ i + 1 \in 1 .. n
    BY <1>1
  <2>2. sorted[i].id = i - 1 /\ sorted[i + 1].id = i
    BY <1>7, <2>1
  <2>3. i - 1 # i
    BY <1>1
  <2> QED
    BY <2>2, <2>3
<1> QED
  BY <1>13, <1>14 DEF Accepted

\* A batch that passes the checks has the dense ids, and names every entry once.
LEMMA DenseIfAccepted ==
  ASSUME NEW es, NEW n, Batch(es, n), NEW sorted, Arranged(es, sorted, n), Accepted(sorted, n)
  PROVE  DenseAndNamed(es)
<1>1. n \in Nat /\ Len(es) = n
  BY DEF Batch
<1>2. ASSUME NEW i \in 1 .. n
      PROVE  /\ sorted[i].id = i - 1 /\ sorted[i].key # EmptyKey
             /\ \A j \in 1 .. i - 1 : sorted[j].key # sorted[i].key
  BY <1>1, EntryAccepted DEF Accepted
<1>3. {sorted[p].id : p \in 1 .. n} = 0 .. n - 1
  <2>0. \A p \in 1 .. n : sorted[p].id = p - 1
    BY <1>2
  <2>1. \A p \in 1 .. n : sorted[p].id \in 0 .. n - 1
    BY <1>1, <2>0
  <2>2. ASSUME NEW r \in 0 .. n - 1
        PROVE  r \in {sorted[p].id : p \in 1 .. n}
    <3>1. r + 1 \in 1 .. n /\ sorted[r + 1].id = r
      <4>1. r + 1 \in 1 .. n /\ r + 1 - 1 = r
        BY <1>1
      <4> QED
        BY <4>1, <2>0
    <3> QED
      BY <3>1
  <2> QED
    BY <2>1, <2>2
<1>4. \A p, q \in 1 .. n : sorted[p].key = sorted[q].key => p = q
  <2> TAKE p, q \in 1 .. n
  <2> HAVE sorted[p].key = sorted[q].key
  <2>1. CASE p < q
    <3>1. p \in 1 .. q - 1
      BY <2>1
    <3> QED
      BY <1>2, <3>1
  <2>2. CASE q < p
    <3>1. q \in 1 .. p - 1
      BY <2>2
    <3> QED
      BY <1>2, <3>1
  <2> QED
    BY <2>1, <2>2
<1>5. Cardinality(Keys(sorted, n)) = n
  BY <1>1, <1>4, KeysDistinct
<1>6. Keys(sorted, n) \ {EmptyKey} = Keys(sorted, n)
  BY <1>2 DEF Keys
<1> QED
  <2>1. Ids(sorted, n) = 0 .. n - 1
    BY <1>3 DEF Ids
  <2> QED
    BY <1>1, <2>1, <1>5, <1>6, ArrangedImages DEF DenseAndNamed

\* A walk has no error exactly when none of its steps has one.
LEMMA FirstErrorOk ==
  ASSUME NEW n \in Nat, NEW results, DOMAIN results = 1 .. n
  PROVE  FirstError(results) = "ok" <=> \A i \in 1 .. n : results[i] = "ok"
<1> DEFINE bad == {i \in DOMAIN results : results[i] # "ok"}
<1>1. CASE bad = {}
  BY <1>1 DEF FirstError
<1>2. CASE bad # {}
  <2>1. PICK i \in bad : \A j \in bad : i <= j
    <3>1. bad \in SUBSET Nat
      OBVIOUS
    <3> HIDE DEF bad
    <3> QED
      BY <1>2, <3>1, LeastNatural
  <2> DEFINE first == CHOOSE x \in bad : \A j \in bad : x <= j
  <2>2. first \in bad
    BY <2>1
  <2>3. FirstError(results) = results[first]
    BY <1>2 DEF FirstError
  <2> HIDE DEF first
  <2> QED
    BY <2>2, <2>3
<1> QED
  BY <1>1, <1>2

-----------------------------------------------------------------------------
\* GasMetadataRegistry::try_new refuses a batch exactly when it breaks a rule.
LEMMA GasErrorExact ==
  ASSUME MetadataAssumption, NEW es, NEW n, Batch(es, n)
  PROVE  GasError(es) = "ok" <=> GasBatchOk(es)
<1> DEFINE sorted == ById(es)
<1>1. Arranged(es, sorted, n)
  BY ByIdArranges
<1> HIDE DEF sorted
<1>2. n \in Nat /\ Len(es) = n /\ DOMAIN es = 1 .. n
  BY DEF Batch
<1>3. DOMAIN sorted = 1 .. n /\ Len(sorted) = n
  BY <1>1 DEF Arranged
<1> DEFINE results == [i \in 1 .. n |-> GasResult(sorted, i)]
<1>4. \A i \in 1 .. n : results[i] = "ok" <=>
                          EntryError(sorted, i) = "ok" /\ ValidGas(sorted[i], n)
  BY <1>3 DEF GasResult
<1>5. FirstError(results) = "ok" <=> \A i \in 1 .. n : results[i] = "ok"
  <2>1. DOMAIN results = 1 .. n
    OBVIOUS
  <2> HIDE DEF results
  <2> QED
    BY <1>2, <2>1, FirstErrorOk
<1>6. GasError(es) = IF n > MaxGasSlots THEN "too_many"
                     ELSE IF RepeatsId(sorted) THEN "duplicate_id" ELSE FirstError(results)
  BY <1>2, <1>3 DEF GasError, sorted
<1>7. (\A i \in 1 .. n : ValidGas(sorted[i], n)) <=> (\A i \in DOMAIN es : ValidGas(es[i], n))
  BY <1>1, <1>2 DEF Arranged
<1>8. Accepted(sorted, n) <=> DenseAndNamed(es)
  BY <1>1, AcceptedIfDense, DenseIfAccepted
<1> HIDE DEF results
<1>9. GasError(es) = "ok" <=>
        /\ ~(n > MaxGasSlots) /\ Accepted(sorted, n)
        /\ \A i \in 1 .. n : ValidGas(sorted[i], n)
  BY <1>4, <1>5, <1>6 DEF Accepted
<1>10. GasBatchOk(es) <=> n <= MaxGasSlots /\ DenseAndNamed(es)
                          /\ \A i \in DOMAIN es : ValidGas(es[i], n)
  BY <1>2 DEF GasBatchOk
<1>11. ~(n > MaxGasSlots) <=> n <= MaxGasSlots
  BY <1>2 DEF MetadataAssumption
<1> DEFINE all == \A i \in 1 .. n : ValidGas(sorted[i], n)
           each == \A i \in DOMAIN es : ValidGas(es[i], n)
<1> SUFFICES ASSUME all <=> each,
                    GasError(es) = "ok" <=> ~(n > MaxGasSlots) /\ Accepted(sorted, n) /\ all,
                    GasBatchOk(es) <=> n <= MaxGasSlots /\ DenseAndNamed(es) /\ each
             PROVE  GasError(es) = "ok" <=> GasBatchOk(es)
  BY <1>7, <1>9, <1>10
<1> HIDE DEF all, each
<1> QED
  BY <1>8, <1>11

Priorities(sorted, n) == {sorted[p].priority : p \in 1 .. n}

\* As many priorities as entries: no two are alike.
LEMMA PrioritiesDistinct ==
  ASSUME NEW sorted, NEW n \in Nat
  PROVE  Cardinality(Priorities(sorted, n)) = n <=>
           \A p, q \in 1 .. n : sorted[p].priority = sorted[q].priority => p = q
<1> DEFINE k == [p \in 1 .. n |-> sorted[p].priority]
<1>1. IsFiniteSet(1 .. n) /\ Cardinality(1 .. n) = n
  BY FS_Interval
<1>2. k \in Surjection(1 .. n, Priorities(sorted, n))
  BY DEF Surjection, Priorities
<1>3. k \in Injection(1 .. n, Priorities(sorted, n)) <=>
        \A p, q \in 1 .. n : sorted[p].priority = sorted[q].priority => p = q
  BY DEF Injection, IsInjective, Priorities
<1> HIDE DEF k
<1>4. Cardinality(Priorities(sorted, n)) = n <=> k \in Injection(1 .. n, Priorities(sorted, n))
  BY <1>1, <1>2, FS_Surjection
<1> QED
  BY <1>3, <1>4

\* No entry repeats an earlier priority exactly when no two are alike.
LEMMA NoneRepeated ==
  ASSUME NEW sorted, NEW n \in Nat
  PROVE  (\A i \in 1 .. n : ~RepeatsPriority(sorted, i)) <=>
           \A p, q \in 1 .. n : sorted[p].priority = sorted[q].priority => p = q
<1>1. ASSUME \A i \in 1 .. n : ~RepeatsPriority(sorted, i),
             NEW p \in 1 .. n, NEW q \in 1 .. n, sorted[p].priority = sorted[q].priority
      PROVE  p = q
  <2>1. CASE p < q
    <3>1. p \in 1 .. q - 1
      BY <2>1
    <3> QED
      BY <1>1, <3>1 DEF RepeatsPriority
  <2>2. CASE q < p
    <3>1. q \in 1 .. p - 1
      BY <2>2
    <3> QED
      BY <1>1, <3>1 DEF RepeatsPriority
  <2> QED
    BY <2>1, <2>2
<1>2. ASSUME \A p, q \in 1 .. n : sorted[p].priority = sorted[q].priority => p = q,
             NEW i \in 1 .. n, RepeatsPriority(sorted, i)
      PROVE  FALSE
  <2>1. PICK j \in 1 .. i - 1 : sorted[j].priority = sorted[i].priority
    BY <1>2 DEF RepeatsPriority
  <2>2. j \in 1 .. n /\ j # i
    BY <2>1
  <2> QED
    BY <1>2, <2>1, <2>2
<1> QED
  BY <1>1, <1>2

\* ReactionMetadataRegistry::try_new refuses a batch exactly when it breaks a rule.
LEMMA ReactionErrorExact ==
  ASSUME NEW es, NEW n, Batch(es, n), NEW gs
  PROVE  /\ ReactionError(es, gs) = "ok" <=> ReactionBatchOk(es, gs)
         /\ ReactionError(es, gs) = "ok" =>
              \A i \in 1 .. n : ~RepeatsPriority(ById(es), i)
<1> DEFINE sorted == ById(es)
<1>1. Arranged(es, sorted, n)
  BY ByIdArranges
<1> HIDE DEF sorted
<1>2. n \in Nat /\ Len(es) = n /\ DOMAIN es = 1 .. n
  BY DEF Batch
<1>3. DOMAIN sorted = 1 .. n /\ Len(sorted) = n
  BY <1>1 DEF Arranged
<1> DEFINE results == [i \in 1 .. n |-> ReactionResult(sorted, gs, i)]
<1>4. \A i \in 1 .. n : results[i] = "ok" <=>
        EntryError(sorted, i) = "ok" /\ ValidReaction(sorted[i], gs) /\ ~RepeatsPriority(sorted, i)
  BY DEF ReactionResult
<1>5. FirstError(results) = "ok" <=> \A i \in 1 .. n : results[i] = "ok"
  <2>1. DOMAIN results = 1 .. n
    OBVIOUS
  <2> HIDE DEF results
  <2> QED
    BY <1>2, <2>1, FirstErrorOk
<1>6. ReactionError(es, gs) = IF RepeatsId(sorted) THEN "duplicate_id" ELSE FirstError(results)
  BY <1>2, <1>3 DEF ReactionError, sorted
<1>7. (\A i \in 1 .. n : ValidReaction(sorted[i], gs))
        <=> (\A i \in DOMAIN es : ValidReaction(es[i], gs))
  BY <1>1, <1>2 DEF Arranged
<1>8. Accepted(sorted, n) <=> DenseAndNamed(es)
  BY <1>1, AcceptedIfDense, DenseIfAccepted
<1> HIDE DEF results
<1>9. ReactionError(es, gs) = "ok" <=>
        /\ Accepted(sorted, n)
        /\ \A i \in 1 .. n : ValidReaction(sorted[i], gs)
        /\ \A i \in 1 .. n : ~RepeatsPriority(sorted, i)
  BY <1>4, <1>5, <1>6 DEF Accepted
<1>10. (\A i \in 1 .. n : ~RepeatsPriority(sorted, i)) <=> Cardinality(Priorities(sorted, n)) = n
  BY <1>2, NoneRepeated, PrioritiesDistinct
<1>11. {es[i].priority : i \in DOMAIN es} = Priorities(sorted, n)
  <2>1. /\ \A p \in 1 .. n : \E i \in 1 .. n : sorted[p] = es[i]
        /\ \A i \in 1 .. n : \E p \in 1 .. n : sorted[p] = es[i]
    BY <1>1 DEF Arranged
  <2>2. ASSUME NEW i \in 1 .. n
        PROVE  es[i].priority \in {sorted[p].priority : p \in 1 .. n}
    BY <2>1
  <2>3. ASSUME NEW p \in 1 .. n
        PROVE  sorted[p].priority \in {es[i].priority : i \in 1 .. n}
    BY <2>1
  <2>4. {es[i].priority : i \in 1 .. n} = {sorted[p].priority : p \in 1 .. n}
    BY <2>2, <2>3
  <2> QED
    BY <1>2, <2>4 DEF Priorities
<1>12. ReactionBatchOk(es, gs) <=>
         /\ DenseAndNamed(es)
         /\ \A i \in DOMAIN es : ValidReaction(es[i], gs)
         /\ Cardinality(Priorities(sorted, n)) = n
  BY <1>2, <1>11 DEF ReactionBatchOk
<1>13. ReactionError(es, gs) = "ok" => \A i \in 1 .. n : ~RepeatsPriority(ById(es), i)
  BY <1>9 DEF sorted
<1> QED
  BY <1>7, <1>8, <1>9, <1>10, <1>12, <1>13

\* A registry whose priorities are numbers and differ.
Ranked(rs) ==
  /\ Len(rs) \in Nat /\ DOMAIN rs = 1 .. Len(rs)
  /\ \A i \in DOMAIN rs : rs[i].priority \in Int
  /\ \A i, j \in DOMAIN rs : rs[i].priority = rs[j].priority => i = j

\* ordered_ids: every reaction once, by falling priority.
Falls(order, rs) ==
  /\ Len(order) = Len(rs) /\ DOMAIN order = DOMAIN rs
  /\ {order[i] : i \in DOMAIN order} = DOMAIN rs
  /\ \A i \in 1 .. Len(order) - 1 : rs[order[i]].priority > rs[order[i + 1]].priority

\* PriorityOrder is every reaction once, by falling priority, when no two priorities are equal.
LEMMA PriorityOrderFalls ==
  ASSUME NEW rs, Ranked(rs)
  PROVE  Falls(PriorityOrder(rs), rs)
<1> DEFINE n == Len(rs)
           R == {p \in (DOMAIN rs) \X (DOMAIN rs) : rs[p[1]].priority > rs[p[2]].priority}
           order == PriorityOrder(rs)
<1>1. /\ n \in Nat /\ DOMAIN rs = 1 .. n
      /\ \A i \in 1 .. n : rs[i].priority \in Int
      /\ \A i, j \in 1 .. n : rs[i].priority = rs[j].priority => i = j
  BY DEF Ranked
<1>2. \A i, j \in 1 .. n : <<i, j>> \in R <=> rs[i].priority > rs[j].priority
  BY <1>1
<1>3. order = Sorted(n, R)
  BY DEF PriorityOrder
<1> HIDE DEF n, R, order
<1>4. Orders(R, n)
  <2>1. \A i \in 1 .. n : <<i, i>> \notin R
    BY <1>1, <1>2
  <2>2. \A i, j \in 1 .. n : i # j => <<i, j>> \in R \/ <<j, i>> \in R
    BY <1>1, <1>2
  <2>3. \A i, j, k \in 1 .. n : <<i, j>> \in R /\ <<j, k>> \in R => <<i, k>> \in R
    BY <1>1, <1>2
  <2> QED
    BY <2>1, <2>2, <2>3 DEF Orders
<1>5. /\ order \in [1 .. n -> 1 .. n]
      /\ \A i \in 1 .. n : \E p \in 1 .. n : order[p] = i
      /\ \A p, q \in 1 .. n : p < q => <<order[p], order[q]>> \in R
  <2>1. /\ Sorted(n, R) \in [1 .. n -> 1 .. n]
        /\ \A i \in 1 .. n : \E p \in 1 .. n : Sorted(n, R)[p] = i
        /\ \A p, q \in 1 .. n : p < q => <<Sorted(n, R)[p], Sorted(n, R)[q]>> \in R
    BY <1>1, <1>4, SortedOrders
  <2> QED
    BY <1>3, <2>1
<1>6. Len(order) = n /\ DOMAIN order = 1 .. n
  BY <1>1, <1>5
<1>7. {order[i] : i \in 1 .. n} = 1 .. n
  <2>1. \A i \in 1 .. n : order[i] \in 1 .. n
    BY <1>5
  <2>2. \A i \in 1 .. n : i \in {order[p] : p \in 1 .. n}
    BY <1>5
  <2> QED
    BY <2>1, <2>2
<1>8. ASSUME NEW i \in 1 .. n - 1
      PROVE  rs[order[i]].priority > rs[order[i + 1]].priority
  <2>1. i \in 1 .. n /\ i + 1 \in 1 .. n /\ i < i + 1
    BY <1>1
  <2>2. order[i] \in 1 .. n /\ order[i + 1] \in 1 .. n /\ <<order[i], order[i + 1]>> \in R
    BY <1>5, <2>1
  <2> QED
    BY <1>2, <2>2
<1> QED
  BY <1>1, <1>6, <1>7, <1>8 DEF Falls, n, order

-----------------------------------------------------------------------------
\* A cast number is a number.
LEMMA CastNumber ==
  ASSUME MetadataAssumption, NEW v \in Numbers
  PROVE  AsF32(v) \in Numbers
<1>1. CASE v = NonFinite
  BY <1>1 DEF AsF32, Numbers
<1>2. CASE v \in Int
  <2>1. 2 * (v \div 2) \in Int
    BY <1>2
  <2> QED
    BY <1>2, <2>1 DEF AsF32, Numbers
<1> QED
  BY <1>1, <1>2 DEF Numbers

\* What install_gases and install_reactions hand to the registries are batches.
LEMMA GasesAreBatch ==
  ASSUME PassAssumption, NEW sent \in GasBatches
  PROVE  Batch([i \in DOMAIN sent |-> CoreGas(sent[i])], Len(sent))
<1>1. sent \in Seq(GasRegistrations)
  BY DEF PassAssumption
<1>2. Len(sent) \in Nat /\ DOMAIN sent = 1 .. Len(sent)
  BY <1>1, LenProperties
<1>3. ASSUME NEW i \in DOMAIN sent
      PROVE  CoreGas(sent[i]).id \in Nat
  <2>1. sent[i] \in GasRegistrations
    BY <1>1, <1>2, <1>3
  <2> QED
    BY <2>1 DEF CoreGas, GasRegistrations
<1> DEFINE es == [i \in DOMAIN sent |-> CoreGas(sent[i])]
<1>4. DOMAIN es = 1 .. Len(sent) /\ \A i \in 1 .. Len(sent) : es[i].id \in Nat
  BY <1>2, <1>3
<1>5. Len(es) = Len(sent)
  <2>1. es = [i \in 1 .. Len(sent) |-> CoreGas(sent[i])]
    BY <1>2
  <2> HIDE DEF es
  <2> QED
    BY <1>2, <2>1
<1> QED
  BY <1>2, <1>4, <1>5 DEF Batch

\* What the shim sends becomes a batch of the core's reactions, one for one.
LEMMA ReactionsAreBatch ==
  ASSUME PassAssumption, NEW sent \in ReactionBatches
  PROVE  LET es == [i \in DOMAIN sent |-> CoreReaction(sent[i])]
         IN  Batch(es, Len(sent)) /\ \A i \in 1 .. Len(sent) : es[i].priority \in Numbers
<1>1. sent \in Seq(ReactionRegistrations)
  BY DEF PassAssumption
<1>2. Len(sent) \in Nat /\ DOMAIN sent = 1 .. Len(sent)
  BY <1>1, LenProperties
<1>3. ASSUME NEW i \in DOMAIN sent
      PROVE  CoreReaction(sent[i]).id \in Nat /\ CoreReaction(sent[i]).priority \in Numbers
  <2>1. sent[i] \in ReactionRegistrations
    BY <1>1, <1>2, <1>3
  <2>2. CoreReaction(sent[i]).id = sent[i].id
        /\ CoreReaction(sent[i]).priority = AsF32(sent[i].priority)
    BY <2>1 DEF CoreReaction, ReactionRegistrations
  <2>3. sent[i].id \in Nat /\ sent[i].priority \in Numbers
    BY <2>1 DEF ReactionRegistrations
  <2> QED
    BY <2>2, <2>3, CastNumber DEF PassAssumption
<1> DEFINE es == [i \in DOMAIN sent |-> CoreReaction(sent[i])]
<1>4. /\ DOMAIN es = 1 .. Len(sent)
      /\ \A i \in 1 .. Len(sent) : es[i].id \in Nat /\ es[i].priority \in Numbers
  BY <1>2, <1>3
<1>5. Len(es) = Len(sent)
  <2>1. es = [i \in 1 .. Len(sent) |-> CoreReaction(sent[i])]
    BY <1>2
  <2> HIDE DEF es
  <2> QED
    BY <1>2, <2>1
<1> QED
  BY <1>2, <1>4, <1>5 DEF Batch

\* An installed reaction registry has an order.
LEMMA InstalledRanked ==
  ASSUME NEW es, NEW n, Batch(es, n), \A i \in 1 .. n : es[i].priority \in Numbers,
         NEW gs, ReactionError(es, gs) = "ok"
  PROVE  Ranked(ById(es))
<1> DEFINE sorted == ById(es)
<1>1. Arranged(es, sorted, n)
  BY ByIdArranges
<1>2. ReactionBatchOk(es, gs) /\ \A i \in 1 .. n : ~RepeatsPriority(sorted, i)
  BY ReactionErrorExact
<1> HIDE DEF sorted
<1>3. n \in Nat /\ DOMAIN es = 1 .. n /\ Len(es) = n
  BY DEF Batch
<1>4. DOMAIN sorted = 1 .. n /\ Len(sorted) = n
  BY <1>1 DEF Arranged
<1>5. \A p, q \in 1 .. n : sorted[p].priority = sorted[q].priority => p = q
  BY <1>2, <1>3, NoneRepeated
<1>6. ASSUME NEW p \in 1 .. n
      PROVE  sorted[p].priority \in Int
  <2>1. PICK i \in 1 .. n : sorted[p] = es[i]
    BY <1>1 DEF Arranged
  <2>2. ValidReaction(es[i], gs)
    BY <1>2, <1>3 DEF ReactionBatchOk
  <2> QED
    BY <2>1, <2>2 DEF ValidReaction, Numbers
<1> QED
  BY <1>3, <1>4, <1>5, <1>6 DEF Ranked, sorted

-----------------------------------------------------------------------------
(***************************************************************************)
(* The inductive invariant of the passes.                                  *)
(***************************************************************************)
RegistryInv ==
  /\ lastBatch.error = "ok" <=>
        IF lastBatch.gas THEN GasBatchOk(lastBatch.batch)
        ELSE ReactionBatchOk(lastBatch.batch, gases)
  /\ lastBatch.gas \in BOOLEAN /\ (~lastBatch.gas => gases # None)
  /\ reactions # None => Ranked(reactions)

\* The reactions a pass ran ascend and lie before the next one to try.
Ran(ran, next, n) ==
  /\ ran \in Seq(1 .. n)
  /\ \A i \in 1 .. Len(ran) - 1 : ran[i] < ran[i + 1]
  /\ ran # << >> => ran[Len(ran)] < next

MixtureFields == {"gases", "temperature", "revision", "immutable"}
CallFields == {"mixture", "mix", "pass", "resumed", "index", "pending", "profiled", "ran",
               "limit", "events", "natives"}

MixtureInv ==
  /\ DOMAIN mixtures # {} => reactions # None
  /\ \A m \in DOMAIN mixtures : DOMAIN mixtures[m] = MixtureFields

ContinuationOk(c) ==
  /\ c.mixture \in DOMAIN mixtures
  /\ c.next \in 1 .. Len(reactions) + 1 /\ Ran(c.ran, c.next, Len(reactions))

ContinuationInv == \A c \in continuations : ContinuationOk(c)

\* Each reaction that was tried stages two events at most; the copy differs from
\* the mixture only by what native reactions did; and what DreamMaker is about to
\* be asked is reactable in the copy.
CallOk(c) ==
  /\ DOMAIN c = CallFields
  /\ c.mixture \in DOMAIN mixtures
  /\ c.index \in 1 .. Len(reactions) + 1 /\ Ran(c.ran, c.index, Len(reactions))
  /\ c.pending \in BOOLEAN /\ c.events \in Nat /\ c.natives \in Nat
  /\ c.events + (IF c.pending THEN 2 ELSE 0) <= 2 * (c.index - 1)
  /\ c.mix = [gases |-> c.mix.gases, temperature |-> c.mix.temperature]
  /\ IF c.natives = 0 THEN c.mix = Mix(c.mixture) ELSE c.mix.gases \in GasAmounts
  /\ c.pending => /\ c.ran # << >>
                  /\ Reactable(reactions[Order[c.ran[Len(c.ran)]]], gases, c.mix)

CallInv == call # None => CallOk(call)

PassInv == RegistryInv /\ MixtureInv /\ ContinuationInv /\ CallInv

\* What a native reaction leaves is a mixture.
LEMMA NativeRecords ==
  ASSUME NEW kind, NEW old, NEW left \in ExecuteNative(kind, old)
  PROVE  /\ left = [gases |-> left.gases, temperature |-> left.temperature]
         /\ left.gases \in GasAmounts
<1> DEFINE IsMixture == /\ left = [gases |-> left.gases, temperature |-> left.temperature]
                        /\ left.gases \in GasAmounts
<1>1. ASSUME NEW S \in SUBSET GasAmounts, NEW T, left \in [gases : S, temperature : T]
      PROVE  IsMixture
  BY <1>1
<1>2. ASSUME NEW fuel, NEW products, NEW T, left \in Burned(old, fuel, products, T)
      PROVE  IsMixture
  <2> DEFINE S == {g \in GasAmounts :
                     \A i \in DOMAIN gases :
                        IF i \in {IndexOf(fuel), IndexOf("o2")} THEN g[i] \in 0 .. old.gases[i]
                        ELSE IF i \in {IndexOf(p) : p \in products}
                        THEN g[i] \in old.gases[i] .. MaxMoles
                        ELSE g[i] = old.gases[i]}
  <2>1. left \in [gases : S, temperature : T] /\ S \in SUBSET GasAmounts
    BY <1>2 DEF Burned
  <2> HIDE DEF S, IsMixture
  <2> QED
    BY <2>1, <1>1
<1> HIDE DEF IsMixture
<1>3. CASE kind = "plasma"
  <2>1. left \in Plasma(old)
    BY <1>3 DEF ExecuteNative
  <2> QED
    BY <2>1, <1>2 DEF Plasma, IsMixture
<1>4. CASE kind = "freon"
  <2>1. left \in Freon(old)
    BY <1>4 DEF ExecuteNative
  <2> QED
    BY <2>1, <1>2 DEF Freon, IsMixture
<1>5. CASE kind # "plasma" /\ kind # "freon"
  <2>1. left \in CombustFuel(kind, old)
    BY <1>5 DEF ExecuteNative
  <2> QED
    BY <2>1, <1>2 DEF CombustFuel, IsMixture
<1> QED
  BY <1>3, <1>4, <1>5 DEF IsMixture

\* The next reaction is run after the ones that ran before it.
LEMMA RanAppend ==
  ASSUME NEW n \in Nat, NEW ran, NEW i \in 1 .. n, Ran(ran, i, n)
  PROVE  Ran(Append(ran, i), i + 1, n) /\ Append(ran, i) # << >>
         /\ Append(ran, i)[Len(Append(ran, i))] = i
<1> DEFINE later == Append(ran, i)
<1>1. ran \in Seq(1 .. n) /\ Len(ran) \in Nat
  BY DEF Ran
<1>2. /\ later \in Seq(1 .. n) /\ Len(later) = Len(ran) + 1
      /\ \A k \in 1 .. Len(ran) : later[k] = ran[k]
      /\ later[Len(ran) + 1] = i
  BY <1>1, AppendProperties
<1>3. later # << >>
  BY <1>1, <1>2
<1>4. ASSUME NEW k \in 1 .. Len(later) - 1
      PROVE  later[k] < later[k + 1]
  <2>1. k \in 1 .. Len(ran)
    BY <1>1, <1>2, <1>4
  <2>2. CASE k = Len(ran)
    <3>1. ran # << >>
      BY <2>1, <2>2
    <3> QED
      BY <2>1, <2>2, <3>1, <1>2 DEF Ran
  <2>3. CASE k # Len(ran)
    <3>1. k \in 1 .. Len(ran) - 1 /\ k + 1 \in 1 .. Len(ran)
      BY <1>1, <2>1, <2>3
    <3> QED
      BY <2>1, <3>1, <1>2 DEF Ran
  <2> QED
    BY <2>2, <2>3
<1> HIDE DEF later
<1> QED
  BY <1>2, <1>3, <1>4 DEF Ran, later

\* Passing over reactions keeps the order of those that ran.
LEMMA RanLater ==
  ASSUME NEW n \in Nat, NEW ran, NEW i \in Nat, NEW j \in Nat, i <= j, Ran(ran, i, n)
  PROVE  Ran(ran, j, n)
<1>1. CASE ran = << >>
  BY <1>1 DEF Ran
<1>2. CASE ran # << >>
  <2>1. ran \in Seq(1 .. n) /\ Len(ran) \in Nat \ {0}
    BY <1>2, EmptySeq, LenProperties DEF Ran
  <2>2. ran[Len(ran)] \in 1 .. n
    BY <2>1
  <2> QED
    BY <1>2, <2>2 DEF Ran
<1> QED
  BY <1>1, <1>2

-----------------------------------------------------------------------------
(* Every action keeps the invariant.                                       *)

\* Nothing is registered and nothing runs at the start.
LEMMA PassInitial ==
  ASSUME PassAssumption, Init
  PROVE  PassInv
<1>1. RegistryInv
  <2>1. lastBatch = NoBatch /\ reactions = None
    BY DEF Init
  <2>2. lastBatch.gas = TRUE /\ lastBatch.error = "ok" /\ lastBatch.batch = << >>
    BY <2>1 DEF NoBatch
  <2>3. GasBatchOk(<< >>)
    <3>1. DOMAIN << >> = {} /\ Len(<< >>) = 0 /\ 0 .. -1 = {} /\ 0 <= MaxGasSlots
      BY DEF PassAssumption, MetadataAssumption
    <3>2. DenseAndNamed(<< >>)
      <4>1. {<< >>[i].key : i \in DOMAIN << >>} \ {EmptyKey} = {}
            /\ {<< >>[i].id : i \in DOMAIN << >>} = {}
        BY <3>1
      <4> QED
        BY <3>1, <4>1, FS_EmptySet DEF DenseAndNamed
    <3> QED
      BY <3>1, <3>2 DEF GasBatchOk
  <2> QED
    BY <2>1, <2>2, <2>3 DEF RegistryInv
<1>2. MixtureInv
  BY DEF Init, MixtureInv
<1>3. ContinuationInv /\ CallInv
  BY DEF Init, ContinuationInv, CallInv
<1> QED
  BY <1>1, <1>2, <1>3 DEF PassInv

\* A registry nobody installs into stays as it is.
LEMMA RegistryKept ==
  ASSUME RegistryInv, gases' = gases, reactions' = reactions, lastBatch' = lastBatch
  PROVE  RegistryInv'
BY DEF RegistryInv

\* Suspended passes stay resumable while no mixture goes away.
LEMMA ContinuationsKept ==
  ASSUME ContinuationInv, reactions' = reactions, DOMAIN mixtures \subseteq DOMAIN mixtures',
         continuations' \subseteq continuations
  PROVE  ContinuationInv'
<1> SUFFICES ASSUME NEW c \in continuations'
             PROVE  ContinuationOk(c)'
  BY DEF ContinuationInv
<1>1. ContinuationOk(c)
  BY DEF ContinuationInv
<1> QED
  BY <1>1 DEF ContinuationOk, Ran

\* Installing gases comes before everything else.
LEMMA InstallGasesKeeps ==
  ASSUME PassAssumption, PassInv, NEW sent \in GasBatches, InstallGases(sent)
  PROVE  PassInv'
<1> DEFINE batch == [i \in DOMAIN sent |-> CoreGas(sent[i])]
<1>1. /\ call = None /\ gases = None /\ DOMAIN mixtures = {}
      /\ lastBatch' = [gas |-> TRUE, batch |-> batch, error |-> GasError(batch)]
      /\ reactions' = reactions /\ mixtures' = mixtures
      /\ continuations' = continuations /\ call' = call
  BY DEF InstallGases
<1>2. Batch(batch, Len(sent))
  BY GasesAreBatch
<1> HIDE DEF batch
<1>3. GasError(batch) = "ok" <=> GasBatchOk(batch)
  BY <1>2, GasErrorExact DEF PassAssumption
<1>4. RegistryInv'
  <2>1. /\ lastBatch'.gas = TRUE /\ lastBatch'.batch = batch
        /\ lastBatch'.error = GasError(batch)
    BY <1>1
  <2>2. reactions' # None => Ranked(reactions')
    BY <1>1 DEF PassInv, RegistryInv
  <2> QED
    BY <2>1, <2>2, <1>3 DEF RegistryInv
<1>5. MixtureInv' /\ CallInv'
  BY <1>1 DEF PassInv, MixtureInv, CallInv
<1>6. ContinuationInv'
  BY <1>1, ContinuationsKept DEF PassInv
<1> QED
  BY <1>4, <1>5, <1>6 DEF PassInv

\* So does installing reactions, behind the gases.
LEMMA InstallReactionsKeeps ==
  ASSUME PassAssumption, PassInv, NEW sent \in ReactionBatches, InstallReactions(sent)
  PROVE  PassInv'
<1> DEFINE batch == [i \in DOMAIN sent |-> CoreReaction(sent[i])]
<1>1. /\ call = None /\ gases # None /\ DOMAIN mixtures = {}
      /\ lastBatch' = [gas |-> FALSE, batch |-> batch, error |-> ReactionError(batch, gases)]
      /\ reactions' = IF ReactionError(batch, gases) = "ok" THEN ById(batch) ELSE None
      /\ mixtures' = mixtures /\ gases' = gases
      /\ continuations' = continuations /\ call' = call
  BY DEF InstallReactions
<1>2. Batch(batch, Len(sent)) /\ \A i \in 1 .. Len(sent) : batch[i].priority \in Numbers
  BY ReactionsAreBatch
<1> HIDE DEF batch
<1>3. ReactionError(batch, gases) = "ok" <=> ReactionBatchOk(batch, gases)
  BY <1>2, ReactionErrorExact
<1>4. RegistryInv'
  <2>1. /\ lastBatch'.gas = FALSE /\ lastBatch'.batch = batch
        /\ lastBatch'.error = ReactionError(batch, gases)
    BY <1>1
  <2>2. reactions' # None => Ranked(reactions')
    <3>1. ReactionError(batch, gases) = "ok" => Ranked(ById(batch))
      BY <1>2, InstalledRanked
    <3> QED
      BY <1>1, <3>1
  <2> QED
    BY <1>1, <2>1, <2>2, <1>3 DEF RegistryInv
<1>5. MixtureInv' /\ CallInv'
  BY <1>1 DEF PassInv, MixtureInv, CallInv
<1>6. ContinuationInv'
  BY <1>1 DEF PassInv, ContinuationInv, ContinuationOk
<1> QED
  BY <1>4, <1>5, <1>6 DEF PassInv

\* A new mixture.
LEMMA CreateKeeps ==
  ASSUME PassInv, NEW m, NEW contents, NEW t, NEW i, Create(m, contents, t, i)
  PROVE  PassInv'
<1> DEFINE fresh == [gases |-> contents, temperature |-> t, revision |-> 0, immutable |-> i]
<1>1. /\ call = None /\ reactions # None
      /\ mixtures' = [n \in DOMAIN mixtures \cup {m} |-> IF n = m THEN fresh ELSE mixtures[n]]
      /\ gases' = gases /\ reactions' = reactions /\ lastBatch' = lastBatch
      /\ continuations' = continuations /\ call' = call
  BY DEF Create, registryVars
<1>2. DOMAIN fresh = MixtureFields
  BY DEF MixtureFields
<1> HIDE DEF fresh
<1>3. MixtureInv'
  BY <1>1, <1>2 DEF PassInv, MixtureInv
<1>4. RegistryInv' /\ ContinuationInv' /\ CallInv'
  BY <1>1, RegistryKept, ContinuationsKept DEF PassInv, CallInv
<1> QED
  BY <1>3, <1>4 DEF PassInv

\* A command on a mixture between two calls.
LEMMA ChangeKeeps ==
  ASSUME PassInv, NEW m, NEW i, NEW amount, NEW t, Change(m, i, amount, t)
  PROVE  PassInv'
<1>1. /\ call = None /\ m \in DOMAIN mixtures
      /\ mixtures' = [mixtures EXCEPT ![m].gases[i] = Kept(amount), ![m].temperature = t,
                                      ![m].revision = @ + 1]
      /\ gases' = gases /\ reactions' = reactions /\ lastBatch' = lastBatch
      /\ continuations' = continuations /\ call' = call
  BY DEF Change, registryVars
<1>2. DOMAIN mixtures' = DOMAIN mixtures
      /\ \A n \in DOMAIN mixtures : DOMAIN mixtures'[n] = DOMAIN mixtures[n]
  BY <1>1
<1>3. MixtureInv'
  BY <1>1, <1>2 DEF PassInv, MixtureInv
<1>4. RegistryInv' /\ ContinuationInv' /\ CallInv'
  BY <1>1, <1>2, RegistryKept, ContinuationsKept DEF PassInv, CallInv
<1> QED
  BY <1>3, <1>4 DEF PassInv

\* A call starts where the pass left off, on a copy of the mixture.
LEMMA BeginKeeps ==
  ASSUME PassInv, NEW m \in DOMAIN mixtures, NEW pass, NEW start, NEW profiled, NEW ran,
         NEW limit, NEW resumed, Begin(m, pass, start, profiled, ran, limit, resumed),
         start \in 1 .. Len(reactions) + 1, Ran(ran, start, Len(reactions)),
         gases' = gases, reactions' = reactions, lastBatch' = lastBatch,
         mixtures' = mixtures, continuations' = continuations
  PROVE  PassInv'
<1> DEFINE index == IF mixtures[m].immutable THEN Len(reactions) + 1 ELSE start
           n == Len(reactions)
<1>1. reactions # None /\ Ranked(reactions)
  BY DEF PassInv, MixtureInv, RegistryInv
<1>2. n \in Nat
  BY <1>1 DEF Ranked
<1>3. call' = [mixture |-> m, mix |-> Mix(m), pass |-> pass, resumed |-> resumed,
               index |-> index, pending |-> FALSE, profiled |-> profiled, ran |-> ran,
               limit |-> limit, events |-> 0, natives |-> 0]
  BY DEF Begin
<1>4. index \in 1 .. n + 1 /\ start \in Nat /\ index \in Nat /\ start <= index
  BY <1>2
<1> HIDE DEF index
<1>5. Ran(ran, index, n)
  BY <1>2, <1>4, RanLater
<1>6. CallOk(call)'
  <2>1. DOMAIN call' = CallFields
    BY <1>3 DEF CallFields
  <2>2. /\ call'.mixture = m /\ call'.mix = Mix(m) /\ call'.index = index
        /\ call'.pending = FALSE /\ call'.ran = ran /\ call'.events = 0 /\ call'.natives = 0
    BY <1>3
  <2>3. Mix(m)' = Mix(m) /\ Mix(m) = [gases |-> Mix(m).gases, temperature |-> Mix(m).temperature]
    BY DEF Mix
  <2>4. index \in 1 .. Len(reactions') + 1 /\ Ran(ran, index, Len(reactions'))
    BY <1>4, <1>5
  <2>5. 0 <= 2 * (index - 1)
    BY <1>4
  <2> QED
    <3>1. /\ call'.mixture \in DOMAIN mixtures' /\ call'.index \in 1 .. Len(reactions') + 1
          /\ Ran(call'.ran, call'.index, Len(reactions'))
      BY <2>2, <2>4
    <3>2. /\ call'.pending \in BOOLEAN /\ call'.events \in Nat /\ call'.natives \in Nat
          /\ call'.events + (IF call'.pending THEN 2 ELSE 0) <= 2 * (call'.index - 1)
      <4>1. call'.pending \in BOOLEAN /\ ~call'.pending
        BY <2>2
      <4>2. call'.events \in Nat /\ call'.natives \in Nat
        BY <2>2
      <4>3. call'.events + 0 <= 2 * (call'.index - 1)
        BY <2>2, <2>5
      <4> QED
        BY <4>1, <4>2, <4>3
    <3>3. /\ call'.mix = [gases |-> call'.mix.gases, temperature |-> call'.mix.temperature]
          /\ call'.mix = Mix(call.mixture)'
      BY <2>2, <2>3 DEF Mix
    <3> QED
      BY <2>1, <2>2, <3>1, <3>2, <3>3 DEF CallOk
<1>7. RegistryInv' /\ ContinuationInv' /\ MixtureInv'
  BY RegistryKept, ContinuationsKept DEF PassInv, MixtureInv
<1> QED
  BY <1>6, <1>7 DEF PassInv, CallInv

\* A step of a call changes nothing else.
LEMMA CallMoves ==
  ASSUME PassInv, call' # None => CallOk(call)',
         gases' = gases, reactions' = reactions, lastBatch' = lastBatch,
         mixtures' = mixtures, continuations' = continuations
  PROVE  PassInv'
<1>1. RegistryInv' /\ ContinuationInv' /\ MixtureInv'
  BY RegistryKept, ContinuationsKept DEF PassInv, MixtureInv
<1> QED
  BY <1>1 DEF PassInv, CallInv

\* What the invariant says of a call that still has a reaction to try.
LEMMA EvaluatingCall ==
  ASSUME PassInv, Evaluating
  PROVE  /\ CallOk(call) /\ DOMAIN call = CallFields /\ ~call.pending
         /\ Len(reactions) \in Nat /\ call.index \in 1 .. Len(reactions)
         /\ call.index + 1 \in 1 .. Len(reactions) + 1
         /\ Ran(call.ran, call.index, Len(reactions))
         /\ Ran(call.ran, call.index + 1, Len(reactions))
<1>1. CallOk(call) /\ ~call.pending /\ call.index <= Len(reactions)
  BY DEF PassInv, CallInv, Evaluating
<1>2. DOMAIN mixtures # {}
  BY <1>1 DEF CallOk
<1>3. Ranked(reactions)
  BY <1>2 DEF PassInv, MixtureInv, RegistryInv
<1>4. Len(reactions) \in Nat
  BY <1>3 DEF Ranked
<1>5. DOMAIN call = CallFields /\ Ran(call.ran, call.index, Len(reactions))
      /\ call.index \in 1 .. Len(reactions) + 1
  BY <1>1 DEF CallOk
<1>6. call.index \in 1 .. Len(reactions) /\ call.index + 1 \in 1 .. Len(reactions) + 1
      /\ call.index \in Nat /\ call.index + 1 \in Nat /\ call.index <= call.index + 1
  BY <1>1, <1>4, <1>5
<1>7. Ran(call.ran, call.index + 1, Len(reactions))
  BY <1>4, <1>5, <1>6, RanLater
<1> QED
  BY <1>1, <1>4, <1>5, <1>6, <1>7

\* A reaction that is passed over.
LEMMA PassedOver ==
  ASSUME PassInv, Evaluating, call' = [call EXCEPT !.index = @ + 1],
         gases' = gases, reactions' = reactions, lastBatch' = lastBatch,
         mixtures' = mixtures, continuations' = continuations
  PROVE  PassInv'
<1>1. CallOk(call) /\ DOMAIN call = CallFields /\ ~call.pending
  BY EvaluatingCall
<1>2. /\ call.index \in 1 .. Len(reactions) /\ call.index + 1 \in 1 .. Len(reactions) + 1
      /\ Len(reactions) \in Nat /\ Ran(call.ran, call.index + 1, Len(reactions))
  BY EvaluatingCall
<1>3. /\ DOMAIN call' = CallFields /\ call'.mixture = call.mixture /\ call'.mix = call.mix
      /\ call'.index = call.index + 1 /\ call'.pending = call.pending
      /\ call'.ran = call.ran /\ call'.events = call.events /\ call'.natives = call.natives
  BY <1>1 DEF CallFields
<1>4. Mix(call.mixture)' = Mix(call.mixture)
  BY <1>3 DEF Mix
<1>5. CallOk(call)'
  <2>1. /\ call'.mixture \in DOMAIN mixtures' /\ call'.index \in 1 .. Len(reactions') + 1
        /\ Ran(call'.ran, call'.index, Len(reactions'))
    BY <1>1, <1>2, <1>3 DEF CallOk
  <2>2. call'.events \in Nat /\ call'.natives \in Nat /\ call'.pending \in BOOLEAN
    BY <1>1, <1>3 DEF CallOk
  <2>3. call'.events + (IF call'.pending THEN 2 ELSE 0) <= 2 * (call'.index - 1)
    <3>1. call.events <= 2 * (call.index - 1) /\ call.events \in Nat
      BY <1>1 DEF CallOk
    <3>2. call.events <= 2 * (call.index + 1 - 1)
      BY <3>1, <1>2
    <3>3. call'.events + 0 <= 2 * (call'.index - 1)
      BY <3>1, <3>2, <1>2, <1>3
    <3>4. ~call'.pending
      BY <1>1, <1>3
    <3> QED
      BY <3>3, <3>4
  <2>4. /\ call'.mix = [gases |-> call'.mix.gases, temperature |-> call'.mix.temperature]
        /\ IF call'.natives = 0 THEN call'.mix = Mix(call.mixture)'
           ELSE call'.mix.gases \in GasAmounts'
        /\ ~call'.pending
    BY <1>1, <1>3, <1>4 DEF CallOk, GasAmounts
  <2> QED
    BY <1>3, <2>1, <2>2, <2>3, <2>4 DEF CallOk
<1> QED
  BY <1>5, CallMoves

\* A native reaction that runs stages its own event and perhaps a slow one.
LEMMA NativeRunsKeeps ==
  ASSUME PassInv, NativeRuns
  PROVE  PassInv'
<1>1. /\ Evaluating
      /\ gases' = gases /\ reactions' = reactions /\ lastBatch' = lastBatch
      /\ mixtures' = mixtures /\ continuations' = continuations
  BY DEF NativeRuns, Tried, registryVars
<1>2. PICK left \in ExecuteNative(Current.exec, call.mix) :
         \E slow \in {0} \cup (IF call.profiled THEN {1} ELSE {}) :
            call' = [call EXCEPT !.mix = left, !.index = @ + 1, !.natives = @ + 1,
                                 !.events = @ + 1 + slow, !.ran = Append(@, call.index)]
  BY DEF NativeRuns
<1>3. PICK slow \in {0, 1} :
         call' = [call EXCEPT !.mix = left, !.index = @ + 1, !.natives = @ + 1,
                              !.events = @ + 1 + slow, !.ran = Append(@, call.index)]
  BY <1>2
<1>4. CallOk(call) /\ DOMAIN call = CallFields /\ ~call.pending
  BY <1>1, EvaluatingCall
<1>5. /\ call.index \in 1 .. Len(reactions) /\ call.index + 1 \in 1 .. Len(reactions) + 1
      /\ Len(reactions) \in Nat /\ Ran(call.ran, call.index, Len(reactions))
  BY <1>1, EvaluatingCall
<1>6. /\ DOMAIN call' = CallFields /\ call'.mixture = call.mixture /\ call'.mix = left
      /\ call'.index = call.index + 1 /\ call'.pending = call.pending
      /\ call'.ran = Append(call.ran, call.index)
      /\ call'.events = call.events + 1 + slow /\ call'.natives = call.natives + 1
  BY <1>3, <1>4 DEF CallFields
<1>7. CallOk(call)'
  <2>1. call'.mixture \in DOMAIN mixtures' /\ call'.index \in 1 .. Len(reactions') + 1
    BY <1>1, <1>4, <1>5, <1>6 DEF CallOk
  <2>2. Ran(call'.ran, call'.index, Len(reactions'))
    <3>1. Ran(Append(call.ran, call.index), call.index + 1, Len(reactions))
      BY <1>5, RanAppend
    <3> QED
      BY <1>1, <1>6, <3>1
  <2>3. call.events \in Nat /\ call.natives \in Nat /\ call.events <= 2 * (call.index - 1)
    BY <1>4 DEF CallOk
  <2>4. call'.events \in Nat /\ call'.natives \in Nat /\ call'.natives # 0
        /\ call'.events <= 2 * (call'.index - 1)
    <3>1. slow \in {0, 1}
      BY <1>3
    <3>2. call.events + 1 + slow <= 2 * (call.index + 1 - 1) /\ call.events + 1 + slow \in Nat
      BY <3>1, <1>5, <2>3
    <3>3. call.natives + 1 \in Nat /\ call.natives + 1 # 0
      BY <2>3
    <3>4. call'.events = call.events + 1 + slow /\ call'.natives = call.natives + 1
          /\ call'.index = call.index + 1
      BY <1>6
    <3> QED
      BY <1>5, <2>3, <3>1, <3>2, <3>3, <3>4
  <2>5. call'.pending \in BOOLEAN /\ ~call'.pending
    BY <1>4, <1>6 DEF CallOk
  <2>6. call'.events + (IF call'.pending THEN 2 ELSE 0) <= 2 * (call'.index - 1)
    <3>1. call'.events + 0 <= 2 * (call'.index - 1)
      BY <2>4
    <3> QED
      BY <2>5, <3>1
  <2>7. /\ call'.mix = [gases |-> call'.mix.gases, temperature |-> call'.mix.temperature]
        /\ call'.mix.gases \in GasAmounts'
    BY <1>1, <1>2, <1>6, NativeRecords DEF GasAmounts
  <2> QED
    BY <1>6, <2>1, <2>2, <2>4, <2>5, <2>6, <2>7 DEF CallOk
<1> QED
  BY <1>1, <1>7, CallMoves

\* A reaction of DreamMaker's suspends the pass behind it.
LEMMA SuspendKeeps ==
  ASSUME PassInv, Suspend
  PROVE  PassInv'
<1>1. /\ Evaluating /\ Reactable(Current, gases, call.mix)
      /\ call' = [call EXCEPT !.pending = TRUE, !.index = @ + 1, !.ran = Append(@, call.index)]
      /\ gases' = gases /\ reactions' = reactions /\ lastBatch' = lastBatch
      /\ mixtures' = mixtures /\ continuations' = continuations
  BY DEF Suspend, Tried, registryVars
<1>2. CallOk(call) /\ DOMAIN call = CallFields /\ ~call.pending
  BY <1>1, EvaluatingCall
<1>3. /\ call.index \in 1 .. Len(reactions) /\ call.index + 1 \in 1 .. Len(reactions) + 1
      /\ Len(reactions) \in Nat /\ Ran(call.ran, call.index, Len(reactions))
  BY <1>1, EvaluatingCall
<1>4. /\ DOMAIN call' = CallFields /\ call'.mixture = call.mixture /\ call'.mix = call.mix
      /\ call'.index = call.index + 1 /\ call'.ran = Append(call.ran, call.index)
      /\ call'.events = call.events /\ call'.natives = call.natives
  BY <1>1, <1>2 DEF CallFields
<1>5. call'.pending = TRUE
  BY <1>1, <1>2 DEF CallFields
<1>6. /\ Ran(Append(call.ran, call.index), call.index + 1, Len(reactions))
      /\ Append(call.ran, call.index) # << >>
      /\ Append(call.ran, call.index)[Len(Append(call.ran, call.index))] = call.index
  BY <1>3, RanAppend
<1>7. CallOk(call)'
  <2>1. /\ call'.mixture \in DOMAIN mixtures' /\ call'.index \in 1 .. Len(reactions') + 1
        /\ Ran(call'.ran, call'.index, Len(reactions'))
    BY <1>1, <1>2, <1>3, <1>4, <1>6 DEF CallOk
  <2>2. call'.events \in Nat /\ call'.natives \in Nat /\ call.events <= 2 * (call.index - 1)
    BY <1>2, <1>4 DEF CallOk
  <2>3. call'.pending \in BOOLEAN /\ call'.pending
    BY <1>5
  <2>4. call'.events + (IF call'.pending THEN 2 ELSE 0) <= 2 * (call'.index - 1)
    <3>1. call'.events + 2 <= 2 * (call'.index - 1)
      BY <1>3, <1>4, <2>2
    <3> QED
      BY <2>3, <3>1
  <2>5. /\ call'.mix = [gases |-> call'.mix.gases, temperature |-> call'.mix.temperature]
        /\ IF call'.natives = 0 THEN call'.mix = Mix(call.mixture)'
           ELSE call'.mix.gases \in GasAmounts'
    BY <1>1, <1>2, <1>4 DEF CallOk, Mix, GasAmounts
  <2>6. call'.ran # << >>
        /\ Reactable(reactions[Order[call.ran[Len(call.ran)]]], gases, call.mix)'
    <3>1. call'.ran # << >> /\ call'.ran[Len(call'.ran)] = call.index
      BY <1>4, <1>6
    <3>2. reactions[Order[call.ran[Len(call.ran)]]]' = Current
      BY <1>1, <3>1 DEF Current, Order
    <3> QED
      BY <1>1, <1>4, <3>1, <3>2
  <2> QED
    BY <1>4, <2>1, <2>2, <2>3, <2>4, <2>5, <2>6 DEF CallOk
<1> QED
  BY <1>1, <1>7, CallMoves

\* The end of a call publishes its copy, its events and its continuation together.
LEMMA PublishFacts ==
  ASSUME PassInv, Publish
  PROVE  /\ CallOk(call) /\ call' = None
         /\ gases' = gases /\ reactions' = reactions /\ lastBatch' = lastBatch
         /\ DOMAIN mixtures' = DOMAIN mixtures
         /\ \A m \in DOMAIN mixtures : DOMAIN mixtures'[m] = DOMAIN mixtures[m]
         /\ \A m : m = call.mixture =>
               \/ Mix(m)' = call.mix
               \/ /\ mixtures'[m].revision = mixtures[m].revision + 1
                  /\ call.mix \in Evaluations(Mix(m)')
<1> PICK m : m = call.mixture
  OBVIOUS
<1>1. CallOk(call) /\ call' = None /\ mixtures' = Published
      /\ gases' = gases /\ reactions' = reactions /\ lastBatch' = lastBatch
  BY DEF Publish, Evaluated, PassInv, CallInv, registryVars
<1>2. m \in DOMAIN mixtures /\ DOMAIN mixtures[m] = MixtureFields
      /\ call.mix = [gases |-> call.mix.gases, temperature |-> call.mix.temperature]
      /\ IF call.natives = 0 THEN call.mix = Mix(m) ELSE call.mix.gases \in GasAmounts
  BY <1>1 DEF CallOk, PassInv, MixtureInv
<1>3. CASE call.natives = 0
  <2>1. mixtures' = mixtures
    BY <1>1, <1>3 DEF Published
  <2> QED
    BY <1>1, <1>2, <1>3, <2>1 DEF Mix
<1>4. CASE call.natives # 0
  <2>1. mixtures' = [mixtures EXCEPT ![m].gases = Canonical(call.mix.gases),
                                     ![m].temperature = call.mix.temperature,
                                     ![m].revision = @ + 1]
    BY <1>1, <1>4 DEF Published
  <2>2. DOMAIN mixtures' = DOMAIN mixtures
        /\ \A n \in DOMAIN mixtures : DOMAIN mixtures'[n] = DOMAIN mixtures[n]
    BY <2>1
  <2>3. /\ mixtures'[m].gases = Canonical(call.mix.gases)
        /\ mixtures'[m].temperature = call.mix.temperature
        /\ mixtures'[m].revision = mixtures[m].revision + 1
    BY <2>1, <1>2 DEF MixtureFields
  <2>4. Mix(m)' = [gases |-> Canonical(call.mix.gases), temperature |-> call.mix.temperature]
    BY <1>1, <2>3 DEF Mix
  <2>5. call.mix \in Evaluations(Mix(m)')
    <3>1. call.mix.gases \in {g \in GasAmounts : Canonical(g) = Mix(m)'.gases}
      BY <1>2, <1>4, <2>4
    <3>2. call.mix = [Mix(m)' EXCEPT !.gases = call.mix.gases]
      BY <1>2, <2>4
    <3> QED
      BY <3>1, <3>2 DEF Evaluations
  <2> QED
    BY <1>1, <2>2, <2>3, <2>5
<1> QED
  BY <1>3, <1>4

\* The continuation a call leaves is the call's own.
LEMMA PublishKeeps ==
  ASSUME PassInv, Publish
  PROVE  PassInv'
<1>1. /\ CallOk(call) /\ call' = None
      /\ gases' = gases /\ reactions' = reactions /\ lastBatch' = lastBatch
      /\ DOMAIN mixtures' = DOMAIN mixtures
      /\ \A m \in DOMAIN mixtures : DOMAIN mixtures'[m] = DOMAIN mixtures[m]
  BY PublishFacts
<1>2. RegistryInv'
  BY <1>1, RegistryKept DEF PassInv
<1>3. MixtureInv'
  BY <1>1 DEF PassInv, MixtureInv
<1>4. ContinuationInv'
  <2> SUFFICES ASSUME NEW c \in continuations'
               PROVE  ContinuationOk(c)'
    BY DEF ContinuationInv
  <2>1. CASE c \in continuations
    <3>1. ContinuationOk(c)
      BY <2>1 DEF PassInv, ContinuationInv
    <3> QED
      BY <1>1, <3>1 DEF ContinuationOk, Ran
  <2>2. CASE c \notin continuations
    <3>1. c = [pass |-> call.pass, mixture |-> call.mixture, next |-> call.index,
               profiled |-> call.profiled, ran |-> call.ran]
      BY <2>2 DEF Publish
    <3>2. c.mixture = call.mixture /\ c.next = call.index /\ c.ran = call.ran
      BY <3>1
    <3>3. call.mixture \in DOMAIN mixtures /\ call.index \in 1 .. Len(reactions) + 1
          /\ Ran(call.ran, call.index, Len(reactions))
      BY <1>1 DEF CallOk
    <3> QED
      BY <1>1, <3>2, <3>3 DEF ContinuationOk, Ran
  <2> QED
    BY <2>1, <2>2
<1>5. CallInv'
  BY <1>1 DEF CallInv
<1> QED
  BY <1>2, <1>3, <1>4, <1>5 DEF PassInv

\* Every step of the passes keeps the invariant.
LEMMA PassStep ==
  ASSUME PassAssumption, PassInv, [Next]_vars
  PROVE  PassInv'
<1>1. CASE UNCHANGED vars
  <2>1. /\ gases' = gases /\ reactions' = reactions /\ lastBatch' = lastBatch
        /\ mixtures' = mixtures /\ continuations' = continuations /\ call' = call
    BY <1>1 DEF vars
  <2>2. call' # None => CallOk(call)'
    BY <2>1 DEF PassInv, CallInv, CallOk, Mix, Order, Ran, Reactable, GasAmounts
  <2> QED
    BY <2>1, <2>2, CallMoves
<1>2. CASE \E b \in GasBatches : InstallGases(b)
  BY <1>2, InstallGasesKeeps
<1>3. CASE \E b \in ReactionBatches : InstallReactions(b)
  BY <1>3, InstallReactionsKeeps
<1>4. CASE \E m \in Mixtures, c \in (IF gases = None THEN {} ELSE Contents),
              t \in 0 .. MaxTemperature, i \in BOOLEAN : Create(m, c, t, i)
  BY <1>4, CreateKeeps
<1>5. CASE \E m \in Mixtures, i \in (IF gases = None THEN {} ELSE DOMAIN gases),
              a \in 0 .. MaxMoles, t \in 0 .. MaxTemperature : Change(m, i, a, t)
  BY <1>5, ChangeKeeps
<1>6. CASE Drain
  <2>1. /\ gases' = gases /\ reactions' = reactions /\ lastBatch' = lastBatch
        /\ mixtures' = mixtures /\ continuations' = continuations
        /\ call' # None => CallOk(call)'
    BY <1>6 DEF Drain, registryVars
  <2> QED
    BY <2>1, CallMoves
<1>7. CASE \E m \in Mixtures, p \in BOOLEAN, l \in Limits : React(m, p, l)
  <2>1. PICK m \in Mixtures, p \in BOOLEAN, l \in Limits : React(m, p, l)
    BY <1>7
  <2>2. /\ m \in DOMAIN mixtures /\ Begin(m, passes + 1, 1, p, << >>, l, None)
        /\ gases' = gases /\ reactions' = reactions /\ lastBatch' = lastBatch
        /\ mixtures' = mixtures /\ continuations' = continuations
    BY <2>1 DEF React, registryVars
  <2>3. Ranked(reactions)
    BY <2>2 DEF PassInv, MixtureInv, RegistryInv
  <2>4. Len(reactions) \in Nat
    BY <2>3 DEF Ranked
  <2>5. 1 \in 1 .. Len(reactions) + 1 /\ Ran(<< >>, 1, Len(reactions))
    BY <2>4 DEF Ran
  <2> QED
    BY <2>2, <2>5, BeginKeeps
<1>8. CASE \E c \in continuations, l \in Limits : Resume(c, l)
  <2>1. PICK c \in continuations, l \in Limits : Resume(c, l)
    BY <1>8
  <2>2. /\ Begin(c.mixture, c.pass, c.next, c.profiled, c.ran, l, c)
        /\ gases' = gases /\ reactions' = reactions /\ lastBatch' = lastBatch
        /\ mixtures' = mixtures /\ continuations' = continuations
    BY <2>1 DEF Resume, registryVars
  <2>3. ContinuationOk(c)
    BY <2>1 DEF PassInv, ContinuationInv
  <2>4. /\ c.mixture \in DOMAIN mixtures /\ c.next \in 1 .. Len(reactions) + 1
        /\ Ran(c.ran, c.next, Len(reactions))
    BY <2>3 DEF ContinuationOk
  <2> QED
    BY <2>2, <2>4, BeginKeeps
<1>9. CASE \E c \in continuations : Stop(c)
  <2>1. /\ gases' = gases /\ reactions' = reactions /\ lastBatch' = lastBatch
        /\ mixtures' = mixtures /\ continuations' \subseteq continuations
        /\ call' = None
    BY <1>9 DEF Stop, registryVars
  <2>2. RegistryInv' /\ ContinuationInv' /\ MixtureInv'
    BY <2>1, RegistryKept, ContinuationsKept DEF PassInv, MixtureInv
  <2> QED
    BY <2>1, <2>2 DEF PassInv, CallInv
<1>10. CASE Skip \/ NativeIdle
  BY <1>10, PassedOver DEF Skip, NativeIdle, Tried, registryVars
<1>11. CASE NativeRuns
  BY <1>11, NativeRunsKeeps
<1>12. CASE NativeFails \/ Refuse
  <2>1. /\ gases' = gases /\ reactions' = reactions /\ lastBatch' = lastBatch
        /\ mixtures' = mixtures /\ continuations' = continuations
        /\ call' # None => CallOk(call)'
    BY <1>12 DEF NativeFails, Refuse, registryVars
  <2> QED
    BY <2>1, CallMoves
<1>13. CASE Suspend
  BY <1>13, SuspendKeeps
<1>14. CASE Publish
  BY <1>14, PublishKeeps
<1> QED
  BY <1>1, <1>2, <1>3, <1>4, <1>5, <1>6, <1>7, <1>8, <1>9, <1>10, <1>11, <1>12, <1>13, <1>14
     DEF Next

\* The registries, the suspended passes and the call in progress fit together in
\* every reachable state (GasMetadataRegistry::try_new,
\* ReactionMetadataRegistry::try_new, evaluate_reaction_sequence).
THEOREM PassInvariant == Spec => []PassInv
<1>1. Init => PassInv
  BY PassInitial, PartsConstants
<1>2. PassInv /\ [Next]_vars => PassInv'
  BY PassStep, PartsConstants
<1> QED
  BY <1>1, <1>2, PTL DEF Spec

\* What the invariant says in the words of the run: a refused batch broke a rule
\* and an accepted one none, a pass ran its reactions in order, and a call stays
\* within the room reserved for it.
LEMMA PassExact ==
  ASSUME PassInv
  PROVE  PassOrdered
<1>1. RegistryExact
  <2>1. lastBatch.error = "ok" <=>
          IF lastBatch.gas THEN GasBatchOk(lastBatch.batch)
          ELSE ReactionBatchOk(lastBatch.batch, gases)
    BY DEF PassInv, RegistryInv
  <2>2. ASSUME reactions # None
        PROVE  /\ {Order[i] : i \in DOMAIN Order} = DOMAIN reactions
               /\ \A i \in 1 .. Len(Order) - 1 :
                    reactions[Order[i]].priority > reactions[Order[i + 1]].priority
    <3>1. Falls(Order, reactions)
      BY <2>2, PriorityOrderFalls DEF PassInv, RegistryInv, Order
    <3> QED
      BY <3>1 DEF Falls
  <2> QED
    BY <2>1, <2>2 DEF RegistryExact
<1>2. OrderedOnce
  <2>1. \A c \in continuations : Ran(c.ran, c.next, Len(reactions))
    BY DEF PassInv, ContinuationInv, ContinuationOk
  <2>2. call # None => Ran(call.ran, call.index, Len(reactions))
    BY DEF PassInv, CallInv, CallOk
  <2> QED
    BY <2>1, <2>2 DEF OrderedOnce, Ran
<1>3. WithinBound
  <2> SUFFICES ASSUME call # None
               PROVE  Staged <= EventBound
    BY DEF WithinBound
  <2>1. CallOk(call)
    BY DEF PassInv, CallInv
  <2>2. DOMAIN mixtures # {} /\ call.index \in 1 .. Len(reactions) + 1
    BY <2>1 DEF CallOk
  <2>3. Ranked(reactions)
    BY <2>2 DEF PassInv, MixtureInv, RegistryInv
  <2>4. Len(reactions) \in Nat
    BY <2>3 DEF Ranked
  <2>5. call.events \in Nat
        /\ call.events + (IF call.pending THEN 2 ELSE 0) <= 2 * (call.index - 1)
    BY <2>1 DEF CallOk
  <2> QED
    BY <2>2, <2>4, <2>5 DEF Staged, EventBound
<1> QED
  BY <1>1, <1>2, <1>3 DEF PassOrdered

\* For any registrations, mixtures and limits: installation refuses exactly the
\* batches that break a rule, a pass runs each reaction at most once and by
\* falling priority however often it is suspended, and no call stages more events
\* than were reserved (try_new, next_reaction_index, reaction_event_bound).
THEOREM PassTheorem == Spec => []PassOrdered
<1>1. PassInv => PassOrdered
  BY PassExact
<1> QED
  BY <1>1, PassInvariant, PTL

\* Only publishing announces a reaction, and it is reactable in the copy that is
\* published.
LEMMA AnnouncedStep ==
  ASSUME PassInv, [Next]_vars
  PROVE  \A c \in continuations' \ continuations : Announced(c)
<1> SUFFICES ASSUME NEW c \in continuations' \ continuations
             PROVE  Announced(c)
  OBVIOUS
<1>1. Publish
  BY DEF Next, vars, InstallGases, InstallReactions, Create, Change, Drain, React, Resume,
         Stop, Skip, NativeIdle, NativeRuns, NativeFails, Suspend, Refuse
<1>2. call.pending
      /\ c = [pass |-> call.pass, mixture |-> call.mixture, next |-> call.index,
              profiled |-> call.profiled, ran |-> call.ran]
  BY <1>1 DEF Publish
<1>3. c.mixture = call.mixture /\ c.ran = call.ran
  BY <1>2
<1>4. Reactable(reactions[Order[call.ran[Len(call.ran)]]], gases, call.mix)
  BY <1>1, <1>2, PublishFacts DEF CallOk
<1>5. \/ Mix(c.mixture)' = call.mix
      \/ /\ mixtures'[c.mixture].revision = mixtures[c.mixture].revision + 1
         /\ call.mix \in Evaluations(Mix(c.mixture)')
  BY <1>1, <1>3, PublishFacts
<1> QED
  BY <1>3, <1>4, <1>5 DEF Announced

\* The reaction DreamMaker is asked to run is reactable when the request becomes
\* visible, with what the native reactions before it left; where those ran, it may
\* rest on traces of gas that publication removes (RunDmReaction,
\* canonicalize_gases).
THEOREM AnnouncedTheorem == Spec => AnnouncedReactable
<1>1. PassInv /\ [Next]_vars => [\A c \in continuations' \ continuations : Announced(c)]_vars
  BY AnnouncedStep
<1> QED
  BY <1>1, PassInvariant, PTL DEF Spec, AnnouncedReactable

\* The passes of the run MCMixtures are passes: commands on its other mixtures
\* leave a pass alone.
THEOREM PassesRefine == MCSpec => Spec
<1>1. MCInit => Init
  BY DEF MCInit
<1>2. [MCNext]_allVars => [Next]_vars
  BY DEF MCNext, CommandsNext, PassesNext, allVars, vars
<1> QED
  BY <1>1, <1>2, PTL DEF MCSpec, Spec

(***************************************************************************)
(* The mixture commands.                                                   *)
(***************************************************************************)
(***************************************************************************)
(* Sums over finite sets (SumFunctionOnSet).                               *)
(***************************************************************************)
\* A family of subsets that grows one member at a time from the empty set
\* reaches the whole.
LEMMA GrowingFamily ==
  ASSUME NEW S, IsFiniteSet(S), NEW P \in SUBSET SUBSET S, {} \in P,
         \A T \in P, x \in S : T \cup {x} \in P
  PROVE  P = SUBSET S
<1> DEFINE missing == {k \in Nat : \E T \in SUBSET S : T \notin P /\ Cardinality(T) = k}
<1> SUFFICES ASSUME P # SUBSET S PROVE FALSE
  OBVIOUS
<1>1. \A T \in SUBSET S : IsFiniteSet(T) /\ Cardinality(T) \in Nat
  BY FS_Subset, FS_CardinalityType
<1>2. missing \in SUBSET Nat /\ missing # {}
  BY <1>1
<1> HIDE DEF missing
<1>3. PICK k \in missing : \A j \in missing : k <= j
  BY <1>2, LeastNatural
<1>4. PICK T \in SUBSET S : T \notin P /\ Cardinality(T) = k
  BY <1>3 DEF missing
<1>5. PICK x \in T : TRUE
  BY <1>4
<1>6. Cardinality(T \ {x}) = k - 1 /\ k \in Nat
  BY <1>1, <1>4, <1>5, FS_RemoveElement
<1>7. T \ {x} \in P
  <2>1. T \ {x} \in SUBSET S
    BY <1>4
  <2> QED
    BY <1>1, <1>3, <1>6, <2>1 DEF missing
<1>8. T = (T \ {x}) \cup {x} /\ x \in S
  BY <1>4, <1>5
<1> QED
  BY <1>4, <1>7, <1>8

Picked(T) == CHOOSE x \in T : TRUE

\* One step of the fold behind a sum, and the fold over the sets in D.
Summed(f, T, g) == IF T = {} THEN 0 ELSE f[Picked(T)] + g[T \ {Picked(T)}]
SumsOn(f, D, g) == g = [T \in D |-> Summed(f, T, g)]

\* The fold over all subsets exists.
LEMMA SumsExist ==
  ASSUME NEW f, NEW S, IsFiniteSet(S)
  PROVE  \E g : SumsOn(f, SUBSET S, g)
<1> DEFINE Upto(k) == {T \in SUBSET S : Cardinality(T) <= k}
           failing == {k \in Nat : ~\E g : SumsOn(f, Upto(k), g)}
<1>1. \A T \in SUBSET S : IsFiniteSet(T) /\ Cardinality(T) \in Nat
  BY FS_Subset, FS_CardinalityType
<1>2. SUFFICES failing = {}
  <2>1. Cardinality(S) \in Nat /\ \A T \in SUBSET S : Cardinality(T) <= Cardinality(S)
    BY FS_CardinalityType, FS_Subset
  <2>2. Upto(Cardinality(S)) = SUBSET S
    BY <2>1
  <2> HIDE DEF Upto
  <2>3. \E g : SumsOn(f, Upto(Cardinality(S)), g)
    BY <1>2, <2>1
  <2> QED
    BY <2>2, <2>3
<1> SUFFICES ASSUME failing # {} PROVE FALSE
  OBVIOUS
<1> HIDE DEF failing
<1>3. PICK k \in failing : \A j \in failing : k <= j
  <2>1. failing \in SUBSET Nat
    BY DEF failing
  <2> QED
    BY <2>1, LeastNatural
<1>4. k \in Nat /\ ~\E g : SumsOn(f, Upto(k), g)
  BY <1>3 DEF failing
<1>5. k # 0
  <2> SUFFICES ASSUME k = 0 PROVE FALSE
    OBVIOUS
  <2> DEFINE g == [T \in Upto(0) |-> 0]
  <2>1. \A T \in Upto(0) : T = {}
    BY <1>1, FS_EmptySet, FS_Subset
  <2>2. \A T \in Upto(0) : Summed(f, T, g) = 0
    BY <2>1 DEF Summed
  <2>3. g = [T \in Upto(0) |-> Summed(f, T, g)]
    BY <2>2
  <2> HIDE DEF g, Upto
  <2>4. SumsOn(f, Upto(0), g)
    BY <2>3 DEF SumsOn
  <2> QED
    BY <1>4, <2>4
<1>6. PICK g : SumsOn(f, Upto(k - 1), g)
  <2>1. k - 1 \in Nat /\ ~(k <= k - 1)
    BY <1>4, <1>5
  <2>2. k - 1 \notin failing
    BY <1>3, <2>1
  <2> QED
    BY <2>1, <2>2 DEF failing
<1> DEFINE h == [T \in Upto(k) |-> Summed(f, T, g)]
<1>7. \A T \in Upto(k - 1) : g[T] = Summed(f, T, g)
  BY <1>6 DEF SumsOn
<1>8. ASSUME NEW T \in Upto(k), T # {}
      PROVE  h[T \ {Picked(T)}] = g[T \ {Picked(T)}]
  <2>1. Picked(T) \in T
    BY <1>8 DEF Picked
  <2>2. Cardinality(T \ {Picked(T)}) = Cardinality(T) - 1
    BY <1>1, <2>1, FS_RemoveElement
  <2>3. T \ {Picked(T)} \in Upto(k - 1) /\ T \ {Picked(T)} \in Upto(k)
    BY <1>1, <1>4, <2>2
  <2> HIDE DEF Upto
  <2> QED
    BY <1>7, <2>3
<1>9. \A T \in Upto(k) : Summed(f, T, g) = Summed(f, T, h)
  <2> HIDE DEF h, Upto
  <2> QED
    BY <1>8 DEF Summed
<1>10. h = [T \in Upto(k) |-> Summed(f, T, h)]
  <2> DEFINE later == [T \in Upto(k) |-> Summed(f, T, h)]
  <2>1. \A T \in Upto(k) : h[T] = later[T]
    BY <1>9
  <2> QED
    BY <2>1
<1> HIDE DEF h, Upto
<1> QED
  BY <1>4, <1>10 DEF SumsOn

\* A sum is the value of that fold at the whole set.
LEMMA SumIsFold ==
  ASSUME NEW f, NEW S, IsFiniteSet(S)
  PROVE  \E g : SumsOn(f, SUBSET S, g) /\ SumFunctionOnSet(f, S) = g[S]
<1> DEFINE F(g) == [T \in SUBSET S |-> IF T = {} THEN 0
                      ELSE LET x == CHOOSE y \in T : TRUE IN f[x] + g[T \ {x}]]
           it == CHOOSE g : g = F(g)
<1>1. \A g : F(g) = [T \in SUBSET S |-> Summed(f, T, g)]
  BY DEF Summed, Picked
<1>2. SumFunctionOnSet(f, S) = it[S]
  BY Zenon DEF SumFunctionOnSet, FoldFunctionOnSet, MapThenFoldSet
<1>3. \E g : g = F(g)
  <2>1. PICK g : SumsOn(f, SUBSET S, g)
    BY SumsExist
  <2> HIDE DEF F
  <2> QED
    BY <1>1, <2>1 DEF SumsOn
<1> HIDE DEF F
<1>4. it = F(it)
  BY <1>3
<1> HIDE DEF it
<1> QED
  BY <1>1, <1>2, <1>4 DEF SumsOn

\* A set without one of its members is smaller.
LEMMA SmallerSet ==
  ASSUME NEW T, IsFiniteSet(T), NEW x \in T
  PROVE  /\ IsFiniteSet(T \ {x}) /\ Cardinality(T \ {x}) \in Nat
         /\ ~(Cardinality(T) <= Cardinality(T \ {x}))
<1>1. IsFiniteSet(T \ {x}) /\ Cardinality(T \ {x}) = Cardinality(T) - 1
  BY FS_RemoveElement
<1>2. Cardinality(T \ {x}) \in Nat /\ Cardinality(T) \in Nat
  BY <1>1, FS_CardinalityType
<1> QED
  BY <1>1, <1>2

\* Folds over a set and over a part of it agree on the part.
LEMMA SumsAgree ==
  ASSUME NEW f, NEW S, IsFiniteSet(S), NEW T \in SUBSET S
  PROVE  \A g, h : SumsOn(f, SUBSET S, g) /\ SumsOn(f, SUBSET T, h) => g[T] = h[T]
<1> SUFFICES ASSUME NEW g, NEW h, SumsOn(f, SUBSET S, g), SumsOn(f, SUBSET T, h)
             PROVE  g[T] = h[T]
  OBVIOUS
<1> DEFINE differ == {k \in Nat : \E W \in SUBSET T : g[W] # h[W] /\ Cardinality(W) = k}
<1> SUFFICES ASSUME g[T] # h[T] PROVE FALSE
  OBVIOUS
<1>1. \A W \in SUBSET T : IsFiniteSet(W) /\ Cardinality(W) \in Nat
  BY FS_Subset, FS_CardinalityType
<1>2. differ \in SUBSET Nat /\ differ # {}
  BY <1>1
<1> HIDE DEF differ
<1>3. PICK k \in differ : \A j \in differ : k <= j
  BY <1>2, LeastNatural
<1>4. PICK W \in SUBSET T : g[W] # h[W] /\ Cardinality(W) = k
  BY <1>3 DEF differ
<1>5. g[W] = Summed(f, W, g) /\ h[W] = Summed(f, W, h)
  BY DEF SumsOn
<1>6. W # {}
  BY <1>4, <1>5 DEF Summed
<1>7. Picked(W) \in W
  BY <1>6 DEF Picked
<1>8. Cardinality(W \ {Picked(W)}) \in Nat /\ ~(k <= Cardinality(W \ {Picked(W)}))
  BY <1>1, <1>4, <1>7, SmallerSet
<1>9. g[W \ {Picked(W)}] = h[W \ {Picked(W)}]
  <2>1. W \ {Picked(W)} \in SUBSET T
    OBVIOUS
  <2> QED
    BY <1>3, <1>8, <2>1 DEF differ
<1> QED
  BY <1>4, <1>5, <1>6, <1>9 DEF Summed

\* A sum takes one member away after the other, beginning with the one CHOOSE picks.
LEMMA SumPicks ==
  ASSUME NEW f, NEW S, IsFiniteSet(S)
  PROVE  /\ SumFunctionOnSet(f, {}) = 0
         /\ S # {} => /\ Picked(S) \in S
                      /\ SumFunctionOnSet(f, S)
                           = f[Picked(S)] + SumFunctionOnSet(f, S \ {Picked(S)})
<1>1. SumFunctionOnSet(f, {}) = 0
  <2>1. PICK g : SumsOn(f, SUBSET {}, g) /\ SumFunctionOnSet(f, {}) = g[{}]
    BY SumIsFold, FS_EmptySet
  <2> QED
    BY <2>1 DEF SumsOn, Summed
<1>2. ASSUME S # {}
      PROVE  /\ Picked(S) \in S
             /\ SumFunctionOnSet(f, S) = f[Picked(S)] + SumFunctionOnSet(f, S \ {Picked(S)})
  <2> DEFINE T == S \ {Picked(S)}
  <2>1. PICK g : SumsOn(f, SUBSET S, g) /\ SumFunctionOnSet(f, S) = g[S]
    BY SumIsFold
  <2>2. IsFiniteSet(T) /\ T \in SUBSET S
    BY FS_Subset
  <2>3. PICK h : SumsOn(f, SUBSET T, h) /\ SumFunctionOnSet(f, T) = h[T]
    BY <2>2, SumIsFold
  <2>4. g[T] = h[T]
    <3>1. \A x, y : SumsOn(f, SUBSET S, x) /\ SumsOn(f, SUBSET T, y) => x[T] = y[T]
      BY <2>2, SumsAgree
    <3> QED
      BY <2>1, <2>3, <3>1
  <2>5. g[S] = f[Picked(S)] + g[T]
    BY <1>2, <2>1 DEF SumsOn, Summed
  <2> QED
    BY <1>2, <2>1, <2>3, <2>4, <2>5 DEF Picked
<1> QED
  BY <1>1, <1>2

\* The sum of integers is one, and any member may be taken away first.
LEMMA SumTakes ==
  ASSUME NEW S, IsFiniteSet(S), NEW f, \A x \in S : f[x] \in Int
  PROVE  /\ SumFunctionOnSet(f, {}) = 0
         /\ \A T \in SUBSET S : SumFunctionOnSet(f, T) \in Int
         /\ \A T \in SUBSET S : \A x \in T :
               SumFunctionOnSet(f, T) = f[x] + SumFunctionOnSet(f, T \ {x})
<1> DEFINE Right(T) == /\ SumFunctionOnSet(f, T) \in Int
                       /\ \A x \in T : SumFunctionOnSet(f, T) = f[x] + SumFunctionOnSet(f, T \ {x})
           wrong == {k \in Nat : \E T \in SUBSET S : ~Right(T) /\ Cardinality(T) = k}
<1>1. \A T \in SUBSET S : IsFiniteSet(T) /\ Cardinality(T) \in Nat
  BY FS_Subset, FS_CardinalityType
<1>2. SUFFICES ASSUME wrong # {} PROVE FALSE
  BY <1>1, SumPicks
<1> HIDE DEF Right, wrong
<1>3. PICK k \in wrong : \A j \in wrong : k <= j
  <2>1. wrong \in SUBSET Nat
    BY DEF wrong
  <2> QED
    BY <1>2, <2>1, LeastNatural
<1>4. PICK T \in SUBSET S : ~Right(T) /\ Cardinality(T) = k
  BY <1>3 DEF wrong
<1>5. SumFunctionOnSet(f, {}) = 0
  BY <1>1, SumPicks
<1>6. T # {}
  BY <1>4, <1>5 DEF Right
<1> DEFINE p == Picked(T)
<1>7. p \in T /\ SumFunctionOnSet(f, T) = f[p] + SumFunctionOnSet(f, T \ {p})
  BY <1>1, <1>6, SumPicks
<1> HIDE DEF p
<1>8. ASSUME NEW x \in T
      PROVE  Right(T \ {x})
  <2>1. Cardinality(T \ {x}) \in Nat /\ ~(k <= Cardinality(T \ {x}))
    BY <1>1, <1>4, SmallerSet
  <2>2. T \ {x} \in SUBSET S
    OBVIOUS
  <2> QED
    BY <1>3, <2>1, <2>2 DEF wrong
<1>9. SumFunctionOnSet(f, T) \in Int
  <2>1. SumFunctionOnSet(f, T \ {p}) \in Int
    BY <1>7, <1>8 DEF Right
  <2> QED
    BY <1>7, <2>1
<1>10. ASSUME NEW x \in T, x # p
       PROVE  SumFunctionOnSet(f, T) = f[x] + SumFunctionOnSet(f, T \ {x})
  <2> DEFINE both == SumFunctionOnSet(f, (T \ {p}) \ {x})
  <2>1. SumFunctionOnSet(f, T \ {p}) = f[x] + both
    BY <1>7, <1>8, <1>10 DEF Right
  <2>2. SumFunctionOnSet(f, T \ {x}) = f[p] + SumFunctionOnSet(f, (T \ {x}) \ {p})
    BY <1>7, <1>8, <1>10 DEF Right
  <2>3. (T \ {x}) \ {p} = (T \ {p}) \ {x}
    OBVIOUS
  <2>4. both \in Int
    <3>1. IsFiniteSet(T \ {p}) /\ Cardinality(T \ {p}) \in Nat /\ ~(k <= Cardinality(T \ {p}))
      BY <1>1, <1>4, <1>7, SmallerSet
    <3>2. /\ Cardinality((T \ {p}) \ {x}) \in Nat
          /\ ~(Cardinality(T \ {p}) <= Cardinality((T \ {p}) \ {x}))
      BY <3>1, <1>10, SmallerSet
    <3>3. ~(k <= Cardinality((T \ {p}) \ {x})) /\ (T \ {p}) \ {x} \in SUBSET S
      <4>1. k \in Nat
        BY <1>3 DEF wrong
      <4> QED
        BY <3>1, <3>2, <4>1
    <3>4. Right((T \ {p}) \ {x})
      BY <1>3, <3>2, <3>3 DEF wrong
    <3> QED
      BY <3>4 DEF Right
  <2>5. f[p] \in Int /\ f[x] \in Int
    BY <1>7, <1>10
  <2>6. SumFunctionOnSet(f, T \ {x}) = f[p] + both
    BY <2>2, <2>3
  <2> HIDE DEF both
  <2> QED
    BY <1>7, <2>1, <2>4, <2>5, <2>6
<1>11. Right(T)
  BY <1>7, <1>9, <1>10 DEF Right
<1> QED
  BY <1>4, <1>11

\* Adding a member adds its value.
LEMMA SumInserts ==
  ASSUME NEW S, IsFiniteSet(S), NEW f, \A x \in S : f[x] \in Int
  PROVE  /\ SumFunctionOnSet(f, {}) = 0
         /\ \A T \in SUBSET S : SumFunctionOnSet(f, T) \in Int
         /\ \A T \in SUBSET S : \A x \in S \ T :
               SumFunctionOnSet(f, T \cup {x}) = f[x] + SumFunctionOnSet(f, T)
<1>1. ASSUME NEW T \in SUBSET S, NEW x \in S \ T
      PROVE  SumFunctionOnSet(f, T \cup {x}) = f[x] + SumFunctionOnSet(f, T)
  <2>1. T \cup {x} \in SUBSET S /\ x \in T \cup {x} /\ (T \cup {x}) \ {x} = T
    OBVIOUS
  <2>2. SumFunctionOnSet(f, T \cup {x}) = f[x] + SumFunctionOnSet(f, (T \cup {x}) \ {x})
    BY <2>1, SumTakes
  <2> QED
    BY <2>1, <2>2
<1> QED
  BY <1>1, SumTakes

\* Sums of naturals are naturals.
LEMMA SumNat ==
  ASSUME NEW S, IsFiniteSet(S), NEW f, \A x \in S : f[x] \in Nat
  PROVE  SumFunctionOnSet(f, S) \in Nat /\ \A x \in S : f[x] <= SumFunctionOnSet(f, S)
<1> DEFINE P == {T \in SUBSET S : SumFunctionOnSet(f, T) \in Nat}
<1>1. {} \in P
  BY SumInserts
<1>2. \A T \in P, x \in S : T \cup {x} \in P
  <2> SUFFICES ASSUME NEW T \in P, NEW x \in S
               PROVE  T \cup {x} \in P
    OBVIOUS
  <2>1. CASE x \in T
    <3>1. T \cup {x} = T
      BY <2>1
    <3> QED
      BY <3>1
  <2>2. CASE x \notin T
    <3>1. SumFunctionOnSet(f, T \cup {x}) = f[x] + SumFunctionOnSet(f, T)
      BY <2>2, SumInserts
    <3> QED
      BY <3>1
  <2> QED
    BY <2>1, <2>2
<1>3. P = SUBSET S
  <2>1. P \in SUBSET SUBSET S
    OBVIOUS
  <2> HIDE DEF P
  <2> QED
    BY <1>1, <1>2, <2>1, GrowingFamily
<1>4. \A T \in SUBSET S : SumFunctionOnSet(f, T) \in Nat
  BY <1>3
<1>5. ASSUME NEW x \in S
      PROVE  f[x] <= SumFunctionOnSet(f, S)
  <2>1. SumFunctionOnSet(f, S) = f[x] + SumFunctionOnSet(f, S \ {x})
    BY SumTakes
  <2>2. SumFunctionOnSet(f, S \ {x}) \in Nat
    BY <1>4
  <2> QED
    BY <2>1, <2>2
<1> QED
  BY <1>4, <1>5

\* A sum of sums is the sum of both.
LEMMA SumPlus ==
  ASSUME NEW S, IsFiniteSet(S), NEW f, NEW g, NEW h,
         \A x \in S : f[x] \in Int /\ g[x] \in Int /\ h[x] = f[x] + g[x]
  PROVE  SumFunctionOnSet(h, S) = SumFunctionOnSet(f, S) + SumFunctionOnSet(g, S)
<1> DEFINE P == {T \in SUBSET S :
                   SumFunctionOnSet(h, T) = SumFunctionOnSet(f, T) + SumFunctionOnSet(g, T)}
<1>0. /\ \A x \in S : f[x] \in Int
      /\ \A x \in S : g[x] \in Int
      /\ \A x \in S : h[x] \in Int
  OBVIOUS
<1>1. {} \in P
  BY <1>0, SumInserts
<1>2. \A T \in P, x \in S : T \cup {x} \in P
  <2> SUFFICES ASSUME NEW T \in P, NEW x \in S
               PROVE  T \cup {x} \in P
    OBVIOUS
  <2>1. CASE x \in T
    <3>1. T \cup {x} = T
      BY <2>1
    <3> QED
      BY <3>1
  <2>2. CASE x \notin T
    <3>1. SumFunctionOnSet(f, T \cup {x}) = f[x] + SumFunctionOnSet(f, T)
          /\ SumFunctionOnSet(f, T) \in Int
      BY <1>0, <2>2, SumInserts
    <3>2. SumFunctionOnSet(g, T \cup {x}) = g[x] + SumFunctionOnSet(g, T)
          /\ SumFunctionOnSet(g, T) \in Int
      BY <1>0, <2>2, SumInserts
    <3>3. SumFunctionOnSet(h, T \cup {x}) = h[x] + SumFunctionOnSet(h, T)
      BY <1>0, <2>2, SumInserts
    <3> QED
      BY <3>1, <3>2, <3>3
  <2> QED
    BY <2>1, <2>2
<1>3. P = SUBSET S
  <2>1. P \in SUBSET SUBSET S
    OBVIOUS
  <2> HIDE DEF P
  <2> QED
    BY <1>1, <1>2, <2>1, GrowingFamily
<1> QED
  BY <1>3

\* Summing the same values gives the same sum.
LEMMA SumSame ==
  ASSUME NEW S, IsFiniteSet(S), NEW f, NEW h, \A x \in S : f[x] \in Int /\ h[x] = f[x]
  PROVE  SumFunctionOnSet(h, S) = SumFunctionOnSet(f, S)
<1> DEFINE zero == [x \in S |-> 0]
<1>1. \A x \in S : f[x] \in Int /\ zero[x] \in Int /\ f[x] = f[x] + zero[x]
  OBVIOUS
<1>2. \A x \in S : f[x] \in Int /\ zero[x] \in Int /\ h[x] = f[x] + zero[x]
  OBVIOUS
<1> HIDE DEF zero
<1>3. SumFunctionOnSet(f, S) = SumFunctionOnSet(f, S) + SumFunctionOnSet(zero, S)
  BY <1>1, SumPlus
<1>4. SumFunctionOnSet(h, S) = SumFunctionOnSet(f, S) + SumFunctionOnSet(zero, S)
  BY <1>2, SumPlus
<1> QED
  BY <1>3, <1>4

\* What is smaller everywhere has the smaller sum.
LEMMA SumBelow ==
  ASSUME NEW S, IsFiniteSet(S), NEW f, NEW g,
         \A x \in S : f[x] \in Int /\ g[x] \in Int /\ f[x] <= g[x]
  PROVE  SumFunctionOnSet(f, S) <= SumFunctionOnSet(g, S)
<1> DEFINE rest == [x \in S |-> g[x] - f[x]]
<1>1. \A x \in S : f[x] \in Int /\ rest[x] \in Int /\ g[x] = f[x] + rest[x]
  OBVIOUS
<1>2. \A x \in S : rest[x] \in Nat
  OBVIOUS
<1> HIDE DEF rest
<1>3. SumFunctionOnSet(g, S) = SumFunctionOnSet(f, S) + SumFunctionOnSet(rest, S)
  BY <1>1, SumPlus
<1>4. SumFunctionOnSet(rest, S) \in Nat
  BY <1>2, SumNat
<1>5. SumFunctionOnSet(f, S) \in Int
  BY SumInserts
<1> QED
  BY <1>3, <1>4, <1>5

\* Multiplying every value multiplies the sum.
LEMMA SumTimes ==
  ASSUME NEW S, IsFiniteSet(S), NEW f, NEW h, NEW k \in Int,
         \A x \in S : f[x] \in Int /\ h[x] = k * f[x]
  PROVE  SumFunctionOnSet(h, S) = k * SumFunctionOnSet(f, S)
<1> DEFINE P == {T \in SUBSET S : SumFunctionOnSet(h, T) = k * SumFunctionOnSet(f, T)}
<1>0. /\ \A x \in S : f[x] \in Int
      /\ \A x \in S : h[x] \in Int
  OBVIOUS
<1>1. {} \in P
  BY <1>0, SumInserts
<1>2. \A T \in P, x \in S : T \cup {x} \in P
  <2> SUFFICES ASSUME NEW T \in P, NEW x \in S
               PROVE  T \cup {x} \in P
    OBVIOUS
  <2>1. CASE x \in T
    <3>1. T \cup {x} = T
      BY <2>1
    <3> QED
      BY <3>1
  <2>2. CASE x \notin T
    <3>1. SumFunctionOnSet(f, T \cup {x}) = f[x] + SumFunctionOnSet(f, T)
          /\ SumFunctionOnSet(f, T) \in Int
      BY <1>0, <2>2, SumInserts
    <3>2. SumFunctionOnSet(h, T \cup {x}) = h[x] + SumFunctionOnSet(h, T)
      BY <1>0, <2>2, SumInserts
    <3>3. \A a, b \in Int : k * (a + b) = k * a + k * b
      OBVIOUS
    <3> QED
      BY <1>0, <3>1, <3>2, <3>3
  <2> QED
    BY <2>1, <2>2
<1>3. P = SUBSET S
  <2>1. P \in SUBSET SUBSET S
    OBVIOUS
  <2> HIDE DEF P
  <2> QED
    BY <1>1, <1>2, <2>1, GrowingFamily
<1> QED
  BY <1>3

\* A set has as many members as one counts.
LEMMA SumOnes ==
  ASSUME NEW S, IsFiniteSet(S), NEW f, \A x \in S : f[x] = 1
  PROVE  SumFunctionOnSet(f, S) = Cardinality(S)
<1> DEFINE P == {T \in SUBSET S : SumFunctionOnSet(f, T) = Cardinality(T)}
<1>0. \A T \in SUBSET S : IsFiniteSet(T) /\ Cardinality(T) \in Nat
  BY FS_Subset, FS_CardinalityType
<1>1. {} \in P
  BY SumInserts, FS_EmptySet
<1>2. \A T \in P, x \in S : T \cup {x} \in P
  <2> SUFFICES ASSUME NEW T \in P, NEW x \in S
               PROVE  T \cup {x} \in P
    OBVIOUS
  <2>1. CASE x \in T
    <3>1. T \cup {x} = T
      BY <2>1
    <3> QED
      BY <3>1
  <2>2. CASE x \notin T
    <3>1. SumFunctionOnSet(f, T \cup {x}) = f[x] + SumFunctionOnSet(f, T)
      BY <2>2, SumInserts
    <3>2. Cardinality(T \cup {x}) = Cardinality(T) + 1
      BY <1>0, <2>2, FS_AddElement
    <3> QED
      BY <1>0, <3>1, <3>2
  <2> QED
    BY <2>1, <2>2
<1>3. P = SUBSET S
  <2>1. P \in SUBSET SUBSET S
    OBVIOUS
  <2> HIDE DEF P
  <2> QED
    BY <1>1, <1>2, <2>1, GrowingFamily
<1> QED
  BY <1>3

\* Members that count nothing may be left out.
LEMMA SumTrims ==
  ASSUME NEW S, IsFiniteSet(S), NEW T \in SUBSET S, NEW f,
         \A x \in S : f[x] \in Int, \A x \in S \ T : f[x] = 0
  PROVE  SumFunctionOnSet(f, S) = SumFunctionOnSet(f, T)
<1> DEFINE P == {U \in SUBSET (S \ T) : SumFunctionOnSet(f, T \cup U) = SumFunctionOnSet(f, T)}
<1>1. {} \in P
  <2>1. T \cup {} = T
    OBVIOUS
  <2> QED
    BY <2>1
<1>2. \A U \in P, x \in S \ T : U \cup {x} \in P
  <2> SUFFICES ASSUME NEW U \in P, NEW x \in S \ T
               PROVE  U \cup {x} \in P
    OBVIOUS
  <2>1. CASE x \in U
    <3>1. U \cup {x} = U
      BY <2>1
    <3> QED
      BY <3>1
  <2>2. CASE x \notin U
    <3> DEFINE W == T \cup U
    <3>1. W \in SUBSET S /\ x \in S \ W /\ T \cup (U \cup {x}) = W \cup {x}
      BY <2>2
    <3>2. f[x] = 0 /\ SumFunctionOnSet(f, W) = SumFunctionOnSet(f, T)
      OBVIOUS
    <3> HIDE DEF W
    <3>3. SumFunctionOnSet(f, W \cup {x}) = f[x] + SumFunctionOnSet(f, W)
          /\ SumFunctionOnSet(f, W) \in Int
      BY <3>1, SumInserts
    <3>4. SumFunctionOnSet(f, W \cup {x}) = SumFunctionOnSet(f, T)
      BY <3>2, <3>3
    <3>5. SumFunctionOnSet(f, T \cup (U \cup {x})) = SumFunctionOnSet(f, T)
      BY <3>1, <3>4, Zenon
    <3> QED
      BY <2>2, <3>5
  <2> QED
    BY <2>1, <2>2
<1>3. P = SUBSET (S \ T)
  <2>1. P \in SUBSET SUBSET (S \ T) /\ IsFiniteSet(S \ T)
    BY FS_Subset
  <2> HIDE DEF P
  <2> QED
    BY <1>1, <1>2, <2>1, GrowingFamily
<1>4. T \cup (S \ T) = S
  OBVIOUS
<1>5. SumFunctionOnSet(f, T \cup (S \ T)) = SumFunctionOnSet(f, T)
  BY <1>3
<1> QED
  BY <1>4, <1>5

\* Two members that change move the sum by what they change.
LEMMA SumPair ==
  ASSUME NEW S, IsFiniteSet(S), NEW f, NEW h, NEW a \in S, NEW b \in S, a # b,
         \A x \in S : f[x] \in Int /\ h[x] \in Int, \A x \in S \ {a, b} : h[x] = f[x]
  PROVE  SumFunctionOnSet(h, S) - SumFunctionOnSet(f, S) = (h[a] + h[b]) - (f[a] + f[b])
<1> DEFINE R == (S \ {a}) \ {b}
<1>1. S \ {a} \in SUBSET S /\ b \in S \ {a} /\ R \in SUBSET S /\ R = S \ {a, b} /\ IsFiniteSet(R)
  BY FS_Subset
<1>2. \A x \in S : f[x] \in Int
  OBVIOUS
<1>3. \A x \in S : h[x] \in Int
  OBVIOUS
<1>4. /\ SumFunctionOnSet(f, S) = f[a] + SumFunctionOnSet(f, S \ {a})
      /\ SumFunctionOnSet(f, S \ {a}) = f[b] + SumFunctionOnSet(f, R)
      /\ SumFunctionOnSet(f, R) \in Int
  BY <1>1, <1>2, SumTakes
<1>5. /\ SumFunctionOnSet(h, S) = h[a] + SumFunctionOnSet(h, S \ {a})
      /\ SumFunctionOnSet(h, S \ {a}) = h[b] + SumFunctionOnSet(h, R)
  BY <1>1, <1>3, SumTakes
<1>6. SumFunctionOnSet(h, R) = SumFunctionOnSet(f, R)
  <2>1. \A x \in R : f[x] \in Int /\ h[x] = f[x]
    BY <1>1
  <2> HIDE DEF R
  <2> QED
    BY <1>1, <2>1, SumSame
<1> HIDE DEF R
<1> QED
  BY <1>2, <1>3, <1>4, <1>5, <1>6

(***************************************************************************)
(* Division, and the quantities of a record.                               *)
(***************************************************************************)
\* A ratio of an amount is a part of it.
LEMMA DivisionBounds ==
  ASSUME NEW n \in Int, NEW d \in Nat \ {0}
  PROVE  /\ n \div d \in Int /\ d * (n \div d) <= n /\ n < d * (n \div d) + d
         /\ n >= 0 => n \div d \in Nat
<1>1. n \div d \in Int
  OBVIOUS
<1>2. d * (n \div d) <= n
  BY SMTT(30)
<1>3. n < d * (n \div d) + d
  BY SMTT(30)
<1>4. ASSUME n >= 0
      PROVE  n \div d \in Nat
  <2> SUFFICES ASSUME n \div d <= -1 PROVE FALSE
    BY <1>1
  <2>1. d * (n \div d) <= d * (-1)
    BY <1>1
  <2> QED
    BY <1>1, <1>3, <1>4, <2>1
<1> QED
  BY <1>1, <1>2, <1>3, <1>4

\* Dividing by a positive number keeps an inequality.
LEMMA DivisionAtLeast ==
  ASSUME NEW n \in Int, NEW d \in Nat \ {0}, NEW t \in Int, d * t <= n
  PROVE  t <= n \div d
<1>1. n < d * (n \div d) + d /\ n \div d \in Int
  BY DivisionBounds
<1>2. SUFFICES ASSUME n \div d <= t - 1 PROVE FALSE
  BY <1>1
<1>3. d * (n \div d) <= d * (t - 1)
  BY <1>1, <1>2
<1>4. d * (t - 1) = d * t - d
  OBVIOUS
<1> QED
  BY <1>1, <1>3, <1>4

\* So does the other way.
LEMMA DivisionAtMost ==
  ASSUME NEW n \in Int, NEW d \in Nat \ {0}, NEW t \in Int, n <= d * t
  PROVE  n \div d <= t
<1>1. d * (n \div d) <= n /\ n \div d \in Int
  BY DivisionBounds
<1>2. SUFFICES ASSUME t + 1 <= n \div d PROVE FALSE
  BY <1>1
<1>3. d * (t + 1) <= d * (n \div d)
  BY <1>1, <1>2
<1>4. d * (t + 1) = d * t + d
  OBVIOUS
<1> QED
  BY <1>1, <1>3, <1>4

-----------------------------------------------------------------------------
(***************************************************************************)
(* Mixture commands: the parts of a record stay in range.                  *)
(***************************************************************************)
Moles0 == [Gases -> 0 .. FloatMax]

Records ==
  [gases : Moles0, temperature : {t \in Nat : t >= MinimumTemperature}, volume : Nat,
   minimum : Nat, immutable : BOOLEAN, revision : 0 .. RevisionMax]

\* What a command works on before it is stored: moles of any size.
Drafts ==
  [gases : [Gases -> Nat], temperature : {t \in Nat : t >= MinimumTemperature}, volume : Nat,
   minimum : Nat, immutable : BOOLEAN, revision : 0 .. RevisionMax]

Ratio(r) == r[2] \in Nat \ {0} /\ r[1] \in 0 .. r[2]

\* The commands sum and count as everything else does.
LEMMA CommandSums ==
  /\ \A f, S : Commands!SumFunctionOnSet(f, S) = SumFunctionOnSet(f, S)
  /\ \A S : Commands!IsFiniteSet(S) <=> IsFiniteSet(S)
  /\ \A S : Commands!Cardinality(S) = Cardinality(S)
<1>1. ASSUME NEW f, NEW S
      PROVE  Commands!SumFunctionOnSet(f, S) = SumFunctionOnSet(f, S)
  BY Zenon DEF Commands!SumFunctionOnSet, SumFunctionOnSet, Commands!FoldFunctionOnSet,
               FoldFunctionOnSet, Commands!MapThenFoldSet, MapThenFoldSet
<1>2. ASSUME NEW S
      PROVE  Commands!IsFiniteSet(S) <=> IsFiniteSet(S)
  BY DEF Commands!IsFiniteSet, IsFiniteSet
<1>3. ASSUME NEW S
      PROVE  Commands!Cardinality(S) = Cardinality(S)
  BY Zenon DEF Commands!Cardinality, Cardinality
<1> QED
  BY <1>1, <1>2, <1>3

\* What the constants of the commands are.
LEMMA CommandConstants ==
  /\ IsFiniteSet(Handles) /\ IsFiniteSet(Gases) /\ SpecificHeat \in [Gases -> Nat]
  /\ Accuracy \in Nat /\ MinimumMoles \in Nat /\ FloatMax \in Nat /\ RevisionMax \in Nat
  /\ MinimumTemperature \in Nat /\ MaxCommands \in Nat
  /\ 0 < Accuracy /\ Accuracy < MinimumMoles /\ MinimumMoles < FloatMax
  /\ \A r \in Ratios : Ratio(r)
  /\ Amounts \subseteq 0 .. FloatMax /\ InitialMoles \subseteq 0 .. FloatMax
  /\ Volumes \subseteq Nat /\ Capacities \subseteq Nat
  /\ Deltas \subseteq Int /\ Heats \subseteq Int
  /\ \A t \in Temperatures : t \in Nat /\ t >= MinimumTemperature
<1>1. Commands!MixtureConstants
  BY PartsConstants
<1>2. /\ Accuracy \in Nat /\ MinimumMoles \in Nat /\ FloatMax \in Nat /\ RevisionMax \in Nat
      /\ MinimumTemperature \in Nat /\ MaxCommands \in Nat
  BY <1>1 DEF Commands!MixtureConstants
<1>3. \A r \in Ratios : Ratio(r)
  BY <1>1 DEF Commands!MixtureConstants, Ratio
<1> QED
  BY <1>1, <1>2, <1>3, CommandSums DEF Commands!MixtureConstants

\* The trace sink takes less than MINIMUM_CALCULATED_MOLES of a gas, once.
LEMMA CanonicalMoles ==
  ASSUME NEW x \in Moles0
  PROVE  /\ Commands!Canonical(x) \in Moles0 /\ Commands!Canonical(Commands!Canonical(x)) = Commands!Canonical(x)
         /\ \A g \in Gases : Commands!Canonical(x)[g] <= x[g] /\ x[g] - Commands!Canonical(x)[g] < MinimumMoles
<1>1. \A g \in Gases : x[g] \in 0 .. FloatMax
  BY DEF Moles0
<1>2. \A g \in Gases : /\ Commands!Canonical(x)[g] \in 0 .. FloatMax /\ Commands!Canonical(x)[g] <= x[g]
                       /\ x[g] - Commands!Canonical(x)[g] < MinimumMoles
  BY <1>1, CommandConstants DEF Commands!Canonical
<1>3. Commands!Canonical(x) \in Moles0
  <2>1. Commands!Canonical(x) = [g \in Gases |-> Commands!Canonical(x)[g]]
    BY DEF Commands!Canonical
  <2> QED
    BY <1>2, <2>1 DEF Moles0
<1>4. Commands!Canonical(Commands!Canonical(x)) = Commands!Canonical(x)
  <2>1. \A g \in Gases : Commands!Canonical(Commands!Canonical(x))[g] = Commands!Canonical(x)[g]
    BY <1>1, CommandConstants DEF Commands!Canonical
  <2> QED
    BY <2>1 DEF Commands!Canonical
<1> QED
  BY <1>2, <1>3, <1>4

\* Moles added stay finite, and are all there when they fit.
LEMMA PlusMoles ==
  ASSUME NEW x \in [Gases -> Nat], NEW y \in [Gases -> Nat]
  PROVE  /\ Commands!Plus(x, y) \in Moles0
         /\ \A g \in Gases : /\ Commands!Plus(x, y)[g] <= x[g] + y[g]
                             /\ x[g] + y[g] <= FloatMax => Commands!Plus(x, y)[g] = x[g] + y[g]
<1>1. \A g \in Gases : x[g] \in Nat /\ y[g] \in Nat
  OBVIOUS
<1>2. \A g \in Gases : /\ Commands!Plus(x, y)[g] \in 0 .. FloatMax /\ Commands!Plus(x, y)[g] <= x[g] + y[g]
                       /\ x[g] + y[g] <= FloatMax => Commands!Plus(x, y)[g] = x[g] + y[g]
  BY <1>1, CommandConstants DEF Commands!Plus, Commands!Saturated, Commands!Least
<1>3. Commands!Plus(x, y) = [g \in Gases |-> Commands!Plus(x, y)[g]]
  BY DEF Commands!Plus
<1> QED
  BY <1>2, <1>3 DEF Moles0

\* What remains when a part is taken.
LEMMA MinusMoles ==
  ASSUME NEW x \in Moles0, NEW y \in Moles0, \A g \in Gases : y[g] <= x[g]
  PROVE  Commands!Minus(x, y) \in Moles0 /\ \A g \in Gases : Commands!Minus(x, y)[g] = x[g] - y[g]
<1>1. \A g \in Gases : x[g] \in 0 .. FloatMax /\ y[g] \in 0 .. FloatMax
  BY DEF Moles0
<1>2. \A g \in Gases : Commands!Minus(x, y)[g] \in 0 .. FloatMax /\ Commands!Minus(x, y)[g] = x[g] - y[g]
  BY <1>1, CommandConstants DEF Commands!Minus
<1>3. Commands!Minus(x, y) = [g \in Gases |-> Commands!Minus(x, y)[g]]
  BY DEF Commands!Minus
<1> QED
  BY <1>2, <1>3 DEF Moles0

\* A ratio takes a part.
LEMMA PartOf ==
  ASSUME NEW n \in Nat, NEW r, Ratio(r)
  PROVE  Commands!Part(n, r) \in 0 .. n /\ (r[1] = 0 => Commands!Part(n, r) = 0)
<1>1. r[2] \in Nat \ {0} /\ r[1] \in 0 .. r[2]
  BY DEF Ratio
<1>2. n * r[1] \in Nat
  BY <1>1
<1>3. n * r[1] <= r[2] * n
  <2>1. n * r[1] <= n * r[2]
    BY <1>1
  <2> QED
    BY <1>1, <2>1
<1>4. (n * r[1]) \div r[2] \in Nat
  BY <1>1, <1>2, DivisionBounds
<1>5. (n * r[1]) \div r[2] <= n
  BY <1>1, <1>2, <1>3, DivisionAtMost
<1>6. r[1] = 0 => (n * r[1]) \div r[2] = 0
  <2>1. r[1] = 0 => n * r[1] <= r[2] * 0
    BY <1>1
  <2>2. r[1] = 0 => (n * r[1]) \div r[2] <= 0
    BY <1>1, <1>2, <2>1, DivisionAtMost
  <2> QED
    BY <1>4, <2>2
<1> QED
  BY <1>4, <1>5, <1>6 DEF Commands!Part

\* Rounding to MOLAR_ACCURACY leaves no negative amount and nothing of nothing.
LEMMA QuantizedNat ==
  ASSUME NEW n \in Nat
  PROVE  Commands!Quantized(n) \in Nat /\ (n = 0 => Commands!Quantized(n) = 0)
<1> DEFINE q == (2 * n + Accuracy) \div (2 * Accuracy)
<1>1. 2 * n + Accuracy \in Nat /\ 2 * Accuracy \in Nat \ {0}
  BY CommandConstants
<1>2. q \in Nat
  BY <1>1, DivisionBounds
<1>3. n = 0 => q = 0
  <2>1. (2 * Accuracy) * q <= 2 * n + Accuracy
    BY <1>1, DivisionBounds
  <2>2. q >= 1 => (2 * Accuracy) * q >= 2 * Accuracy
    BY <1>1, <1>2
  <2> QED
    BY <1>2, <2>1, <2>2, CommandConstants
<1>4. Commands!Quantized(n) = q * Accuracy
  BY DEF Commands!Quantized
<1> HIDE DEF q
<1>5. q * Accuracy \in Nat /\ (q = 0 => q * Accuracy = 0)
  BY <1>2, CommandConstants
<1> QED
  BY <1>3, <1>4, <1>5

\* What is removed was there.
LEMMA RemovedMoles ==
  ASSUME NEW x \in Moles0, NEW r, Ratio(r)
  PROVE  /\ Commands!Removed(x, r) \in Moles0
         /\ \A g \in Gases : Commands!Removed(x, r)[g] <= x[g] /\ (r[1] = 0 => Commands!Removed(x, r)[g] = 0)
<1>1. \A g \in Gases : x[g] \in 0 .. FloatMax /\ x[g] \in Nat
  BY CommandConstants DEF Moles0
<1>2. ASSUME NEW g \in Gases
      PROVE  /\ Commands!Removed(x, r)[g] \in 0 .. FloatMax /\ Commands!Removed(x, r)[g] <= x[g]
             /\ r[1] = 0 => Commands!Removed(x, r)[g] = 0
  <2>1. Commands!Part(x[g], r) \in Nat /\ (r[1] = 0 => Commands!Part(x[g], r) = 0)
    BY <1>1, PartOf
  <2>2. Commands!Quantized(Commands!Part(x[g], r)) \in Nat /\ (r[1] = 0 => Commands!Quantized(Commands!Part(x[g], r)) = 0)
    BY <2>1, QuantizedNat
  <2>3. Commands!Removed(x, r)[g] = Commands!Least(Commands!Quantized(Commands!Part(x[g], r)), x[g])
    BY DEF Commands!Removed
  <2> QED
    BY <1>1, <2>2, <2>3, CommandConstants DEF Commands!Least
<1>3. Commands!Removed(x, r) = [g \in Gases |-> Commands!Removed(x, r)[g]]
  BY DEF Commands!Removed
<1> QED
  BY <1>2, <1>3 DEF Moles0

\* The heat capacity of gases is a natural, and of more gas it is no smaller.
LEMMA CapacityNat ==
  ASSUME NEW x \in [Gases -> Nat]
  PROVE  Commands!RawCapacity(x) \in Nat /\ Commands!Total(x) \in Nat
<1> DEFINE heat == [g \in Gases |-> SpecificHeat[g] * x[g]]
<1>1. \A g \in Gases : heat[g] \in Nat
  BY CommandConstants
<1>2. \A g \in Gases : x[g] \in Nat
  OBVIOUS
<1>3. Commands!RawCapacity(x) = SumFunctionOnSet(heat, Gases)
  BY CommandSums DEF Commands!RawCapacity, Commands!Total
<1> HIDE DEF heat
<1>4. SumFunctionOnSet(heat, Gases) \in Nat
  BY <1>1, SumNat, CommandConstants
<1>5. SumFunctionOnSet(x, Gases) \in Nat
  BY <1>2, SumNat, CommandConstants
<1> QED
  BY <1>3, <1>4, <1>5, CommandSums DEF Commands!Total

\* Gas cannot be hotter in parts than together: the capacity of a mixture is at
\* most that of its parts.
LEMMA CapacityParts ==
  ASSUME NEW x \in [Gases -> Nat], NEW y \in [Gases -> Nat], NEW z \in [Gases -> Nat],
         \A g \in Gases : x[g] <= y[g] + z[g]
  PROVE  Commands!RawCapacity(x) <= Commands!RawCapacity(y) + Commands!RawCapacity(z)
<1> DEFINE heat(u) == [g \in Gases |-> SpecificHeat[g] * u[g]]
           both == [g \in Gases |-> heat(y)[g] + heat(z)[g]]
<1>1. \A u \in [Gases -> Nat] : /\ Commands!RawCapacity(u) = SumFunctionOnSet(heat(u), Gases)
                                /\ \A g \in Gases : heat(u)[g] \in Int
  BY CommandConstants, CommandSums DEF Commands!RawCapacity, Commands!Total
<1>2. ASSUME NEW g \in Gases
      PROVE  heat(x)[g] <= both[g] /\ both[g] = heat(y)[g] + heat(z)[g] /\ both[g] \in Int
  <2>1. SpecificHeat[g] \in Nat /\ x[g] \in Nat /\ y[g] \in Nat /\ z[g] \in Nat
    BY CommandConstants
  <2>2. \A c, a, b, d \in Nat : a <= b + d => c * a <= c * b + c * d
    <3> SUFFICES ASSUME NEW c \in Nat, NEW a \in Nat, NEW b \in Nat, NEW d \in Nat, a <= b + d
                 PROVE  c * a <= c * b + c * d
      OBVIOUS
    <3>1. c * a <= c * (b + d) /\ c * (b + d) = c * b + c * d
      OBVIOUS
    <3> QED
      BY <3>1
  <2>3. SpecificHeat[g] * x[g] <= SpecificHeat[g] * y[g] + SpecificHeat[g] * z[g]
    BY <2>1, <2>2
  <2> QED
    BY <2>1, <2>3
<1> HIDE DEF heat, both
<1>3. SumFunctionOnSet(heat(x), Gases) <= SumFunctionOnSet(both, Gases)
  BY <1>1, <1>2, SumBelow, CommandConstants
<1>4. SumFunctionOnSet(both, Gases)
        = SumFunctionOnSet(heat(y), Gases) + SumFunctionOnSet(heat(z), Gases)
  BY <1>1, <1>2, SumPlus, CommandConstants
<1> QED
  BY <1>1, <1>3, <1>4

\* What is stored may be worked on.
LEMMA RecordsAreDrafts ==
  ASSUME NEW m \in Records
  PROVE  m \in Drafts
<1>1. m.gases \in [Gases -> Nat]
  BY CommandConstants DEF Records, Moles0
<1> QED
  BY <1>1 DEF Records, Drafts

\* A record's heat capacity.
LEMMA HeatCapacityNat ==
  ASSUME NEW m \in Drafts
  PROVE  /\ Commands!HeatCapacity(m) \in Nat /\ Commands!RawCapacity(m.gases) \in Nat
         /\ Commands!RawCapacity(m.gases) <= Commands!HeatCapacity(m) /\ Commands!Total(m.gases) \in Nat
<1>1. m.gases \in [Gases -> Nat] /\ m.minimum \in Nat
  BY DEF Drafts
<1>2. Commands!RawCapacity(m.gases) \in Nat /\ Commands!Total(m.gases) \in Nat
  BY <1>1, CapacityNat
<1> QED
  BY <1>1, <1>2 DEF Commands!HeatCapacity, Commands!Most

\* The temperature of a mixture lies above the floor when its parts' do.
LEMMA MeanAboveFloor ==
  ASSUME NEW c \in Nat, NEW d \in Nat, NEW s \in Nat, NEW t \in Nat, NEW default \in Nat,
         s >= MinimumTemperature, t >= MinimumTemperature, default >= MinimumTemperature
  PROVE  Commands!MeanTemperature(c, s, d, t, default) \in Nat
         /\ Commands!MeanTemperature(c, s, d, t, default) >= MinimumTemperature
<1>1. CASE c + d > 0
  <2>1. c * s \in Nat /\ d * t \in Nat /\ c + d \in Nat \ {0} /\ MinimumTemperature \in Nat
    BY <1>1, CommandConstants
  <2>2. c * MinimumTemperature <= c * s /\ d * MinimumTemperature <= d * t
    BY <2>1
  <2>3. (c + d) * MinimumTemperature = c * MinimumTemperature + d * MinimumTemperature
    BY <2>1
  <2>4. c * s + d * t \in Int /\ (c + d) * MinimumTemperature <= c * s + d * t
    <3>1. c * MinimumTemperature \in Nat /\ d * MinimumTemperature \in Nat
      BY <2>1
    <3> QED
      BY <2>1, <2>2, <2>3, <3>1
  <2>5. MinimumTemperature <= (c * s + d * t) \div (c + d)
    BY <2>1, <2>4, DivisionAtLeast
  <2>6. (c * s + d * t) \div (c + d) \in Nat
    BY <2>1, <2>4, DivisionBounds
  <2> QED
    BY <1>1, <2>5, <2>6 DEF Commands!MeanTemperature
<1>2. CASE ~(c + d > 0)
  BY <1>2 DEF Commands!MeanTemperature
<1> QED
  BY <1>1, <1>2

\* The floor is kept.
LEMMA FloorAbove ==
  ASSUME NEW t \in Int
  PROVE  Commands!Floor(t) \in Nat /\ Commands!Floor(t) >= MinimumTemperature
BY CommandConstants DEF Commands!Floor, Commands!Most

\* The ratio that takes an amount out of a mixture is one.
LEMMA RatioOfAmount ==
  ASSUME NEW h, mix[h] \in Records, NEW n \in Nat
  PROVE  Ratio(Commands!RatioOf(h, n))
<1> DEFINE total == Commands!Total(mix[h].gases)
<1>1. total \in Nat
  BY HeatCapacityNat, RecordsAreDrafts
<1>2. Commands!RatioOf(h, n) = IF total = 0 THEN <<0, 1>> ELSE <<Commands!Least(n, total), total>>
  BY DEF Commands!RatioOf
<1> HIDE DEF total
<1>3. CASE total = 0
  BY <1>2, <1>3 DEF Ratio
<1>4. CASE total # 0
  <2>1. Commands!Least(n, total) \in 0 .. total
    BY <1>1 DEF Commands!Least
  <2>2. Commands!RatioOf(h, n) = <<Commands!Least(n, total), total>>
    BY <1>2, <1>4
  <2> QED
    BY <1>1, <1>4, <2>1, <2>2 DEF Ratio
<1> QED
  BY <1>3, <1>4

-----------------------------------------------------------------------------
(***************************************************************************)
(* What one command makes of one mixture.                                  *)
(***************************************************************************)
\* A mixture without its traces.
Settled(m) == [m EXCEPT !.gases = Commands!Canonical(@)]

\* A command leaves a mixture alone, commits it under the next revision, or only
\* drops traces from it; an immutable mixture it leaves alone.
Bumped(m, n) == n \in Records /\ n.revision = m.revision + 1 /\ ~m.immutable
Dropped(m, n) == /\ n \in Records /\ n.revision = m.revision /\ Settled(n) = Settled(m)
                 /\ ~m.immutable
Commanded(m, n) == n = m \/ Bumped(m, n) \/ Dropped(m, n)

CommandStep(kind) ==
  /\ mix' = [h \in Handles |-> mix'[h]] /\ \A h \in Handles : Commanded(mix[h], mix'[h])
  /\ seen' = seen /\ last' = kind

\* Committing a record drops its traces and advances its revision.
LEMMA CommittedRecord ==
  ASSUME NEW m \in Records, m.revision # RevisionMax
  PROVE  /\ Commands!Committed(m) \in Records /\ Commands!Committed(m).revision = m.revision + 1
         /\ Commands!Committed(m).gases = Commands!Canonical(m.gases)
<1>1. m.gases \in Moles0 /\ m.revision \in 0 .. RevisionMax
  BY DEF Records
<1>2. Commands!Canonical(m.gases) \in Moles0 /\ m.revision + 1 \in 0 .. RevisionMax
  BY <1>1, CanonicalMoles, CommandConstants
<1>3. Commands!Committed(m) = [m EXCEPT !.gases = Commands!Canonical(m.gases), !.revision = m.revision + 1]
  BY DEF Commands!Committed, Records
<1> QED
  BY <1>2, <1>3 DEF Records

\* mutate_mixture.
LEMMA MutateStep ==
  ASSUME mix \in [Handles -> Records], NEW h \in Handles, NEW kind,
         NEW new \in Records, NEW changed \in BOOLEAN,
         new.revision = mix[h].revision, ~mix[h].immutable,
         ~changed => Settled(new) = Settled(mix[h]),
         Commands!Mutate(h, kind, new, changed)
  PROVE  CommandStep(kind)
<1> DEFINE n == IF changed THEN Commands!Committed(new) ELSE new
<1>1. /\ mix[h].revision # RevisionMax /\ mix' = [mix EXCEPT ![h] = n]
      /\ last' = kind /\ seen' = seen
  BY DEF Commands!Mutate, Commands!Applied
<1>2. Commanded(mix[h], n)
  <2>1. CASE changed
    <3>1. n = Commands!Committed(new)
      BY <2>1
    <3>2. n \in Records /\ n.revision = new.revision + 1
      BY <1>1, <3>1, CommittedRecord
    <3> QED
      BY <3>2 DEF Commanded, Bumped
  <2>2. CASE ~changed
    <3>1. n = new
      BY <2>2
    <3> QED
      BY <2>2, <3>1 DEF Commanded, Dropped
  <2> QED
    BY <2>1, <2>2
<1> HIDE DEF n
<1>3. mix' = [k \in Handles |-> mix'[k]]
      /\ mix'[h] = n /\ \A k \in Handles \ {h} : mix'[k] = mix[k]
  BY <1>1
<1>4. \A k \in Handles : Commanded(mix[k], mix'[k])
  BY <1>2, <1>3 DEF Commanded
<1> QED
  BY <1>1, <1>3, <1>4 DEF CommandStep

\* A command that sets fields of one mixture.
LEMMA SetFieldStep ==
  ASSUME mix \in [Handles -> Records], NEW h \in Handles, NEW new \in Records,
         new.revision = mix[h].revision, Commands!SetField(h, new)
  PROVE  CommandStep("set")
<1>1. ~mix[h].immutable /\ Commands!Mutate(h, "set", new, TRUE)
  BY DEF Commands!SetField
<1>2. TRUE \in BOOLEAN
  OBVIOUS
<1> QED
  BY <1>1, <1>2, MutateStep

\* Two records, replaced where they changed.
LEMMA ReplacePairStep ==
  ASSUME mix \in [Handles -> Records], NEW new, NEW kind, DOMAIN new \subseteq Handles,
         \A h \in DOMAIN new : /\ new[h] \in Records /\ new[h].revision = mix[h].revision
                               /\ mix[h].immutable => new[h] = mix[h],
         Commands!ReplacePair(kind, new)
  PROVE  /\ CommandStep(kind)
         /\ \A h \in Handles : mix'[h].gases = (IF h \in DOMAIN new THEN new[h] ELSE mix[h]).gases
<1> DEFINE changed == {h \in DOMAIN new : new[h] # mix[h]}
<1>1. /\ \A h \in changed : mix[h].revision # RevisionMax
      /\ mix' = [h \in Handles |-> IF h \in changed THEN [new[h] EXCEPT !.revision = @ + 1]
                                   ELSE mix[h]]
      /\ last' = kind /\ seen' = seen
  BY DEF Commands!ReplacePair, Commands!Applied
<1>2. ASSUME NEW h \in Handles
      PROVE  Commanded(mix[h], mix'[h])
             /\ mix'[h].gases = (IF h \in DOMAIN new THEN new[h] ELSE mix[h]).gases
  <2>1. CASE h \in changed
    <3>1. mix'[h] = [new[h] EXCEPT !.revision = @ + 1]
      BY <1>1, <2>1
    <3>2. /\ new[h] \in Records /\ new[h].revision = mix[h].revision /\ ~mix[h].immutable
          /\ mix[h].revision # RevisionMax /\ h \in DOMAIN new
      BY <1>1, <2>1
    <3>3. new[h].revision + 1 \in 0 .. RevisionMax
      <4>1. new[h].revision \in 0 .. RevisionMax
        BY <3>2 DEF Records
      <4> QED
        BY <3>2, <4>1, CommandConstants
    <3>4. /\ mix'[h] \in Records /\ mix'[h].revision = mix[h].revision + 1
          /\ mix'[h].gases = new[h].gases
      BY <3>1, <3>2, <3>3 DEF Records
    <3> QED
      BY <3>2, <3>4 DEF Commanded, Bumped
  <2>2. CASE h \notin changed
    <3>1. mix'[h] = mix[h]
      BY <1>1, <2>2
    <3> QED
      BY <2>2, <3>1 DEF Commanded
  <2> QED
    BY <2>1, <2>2
<1>3. mix' = [h \in Handles |-> mix'[h]]
  BY <1>1
<1> QED
  BY <1>1, <1>2, <1>3 DEF CommandStep

\* Fields of a record may be set within their ranges.
LEMMA FieldsSet ==
  ASSUME NEW m \in Records
  PROVE  /\ \A x \in Moles0 : /\ [m EXCEPT !.gases = x] \in Records
                              /\ [m EXCEPT !.gases = x].revision = m.revision
         /\ \A t \in Nat : t >= MinimumTemperature =>
               /\ [m EXCEPT !.temperature = t] \in Records
               /\ [m EXCEPT !.temperature = t].revision = m.revision
         /\ \A v \in Nat : /\ [m EXCEPT !.volume = v] \in Records
                           /\ [m EXCEPT !.volume = v].revision = m.revision
         /\ \A c \in Nat : /\ [m EXCEPT !.minimum = c] \in Records
                           /\ [m EXCEPT !.minimum = c].revision = m.revision
         /\ [m EXCEPT !.immutable = TRUE] \in Records
         /\ [m EXCEPT !.immutable = TRUE].revision = m.revision
BY DEF Records

\* So may gases and temperature together.
Content(m, x, t) == [m EXCEPT !.gases = x, !.temperature = t]

\* A record with other gases and another temperature is a record of the same revision.
LEMMA ContentSet ==
  ASSUME NEW m \in Records, NEW x \in Moles0, NEW t \in Nat, t >= MinimumTemperature
  PROVE  /\ Content(m, x, t) \in Records /\ Content(m, x, t).revision = m.revision
         /\ Content(m, x, t).gases = x /\ Content(m, x, t).temperature = t
         /\ Content(m, x, t).immutable = m.immutable
BY DEF Records, Content

\* So may the moles of one gas.
LEMMA GasSet ==
  ASSUME NEW m \in Records, NEW g \in Gases, NEW n \in 0 .. FloatMax
  PROVE  /\ [m EXCEPT !.gases[g] = n] = [m EXCEPT !.gases = [m.gases EXCEPT ![g] = n]]
         /\ [m.gases EXCEPT ![g] = n] \in Moles0 /\ m.gases[g] \in 0 .. FloatMax
         /\ [m EXCEPT !.gases[g] = n] \in Records
         /\ [m EXCEPT !.gases[g] = n].revision = m.revision
<1>1. m.gases \in Moles0
  BY DEF Records
<1>2. [m.gases EXCEPT ![g] = n] \in Moles0 /\ m.gases[g] \in 0 .. FloatMax
  BY <1>1 DEF Moles0
<1>3. [m EXCEPT !.gases[g] = n] = [m EXCEPT !.gases = [m.gases EXCEPT ![g] = n]]
  BY DEF Records
<1> QED
  BY <1>2, <1>3, FieldsSet

\* The commands that set a field to what they are given.
LEMMA PlainSets ==
  ASSUME mix \in [Handles -> Records], NEW h \in Handles
  PROVE  /\ \A g \in Gases : \A n \in Amounts : Commands!SetMoles(h, g, n) => CommandStep("set")
         /\ \A g \in Gases : \A d \in Deltas : Commands!AdjustMoles(h, g, d) => CommandStep("set")
         /\ \A t \in Temperatures : Commands!SetTemperature(h, t) => CommandStep("set")
         /\ \A v \in Volumes : Commands!SetVolume(h, v) => CommandStep("set")
         /\ \A c \in Capacities : Commands!SetMinimumHeatCapacity(h, c) => CommandStep("set")
         /\ Commands!Clear(h) => CommandStep("set")
         /\ Commands!MarkImmutable(h) => CommandStep("set")
<1> DEFINE m == mix[h]
<1>1. m \in Records /\ m.gases \in Moles0
  BY DEF Records
<1>2. ASSUME NEW new \in Records, new.revision = m.revision, Commands!SetField(h, new)
      PROVE  CommandStep("set")
  BY <1>2, SetFieldStep
<1> HIDE DEF m
<1>3. ASSUME NEW g \in Gases, NEW n \in Amounts, Commands!SetMoles(h, g, n)
      PROVE  CommandStep("set")
  <2> DEFINE v == IF n < MinimumMoles THEN 0 ELSE n
  <2>1. v \in 0 .. FloatMax
    BY <1>3, CommandConstants
  <2>2. Commands!SetField(h, [m EXCEPT !.gases[g] = v])
    BY <1>3 DEF Commands!SetMoles, m
  <2> HIDE DEF v
  <2> QED
    BY <1>1, <1>2, <2>1, <2>2, GasSet
<1>4. ASSUME NEW g \in Gases, NEW d \in Deltas, Commands!AdjustMoles(h, g, d)
      PROVE  CommandStep("set")
  <2> DEFINE v == Commands!Most(m.gases[g] + d, 0)
  <2>1. m.gases[g] \in 0 .. FloatMax /\ d \in Int
    BY <1>1, CommandConstants DEF Moles0
  <2>2. m.gases[g] + d <= FloatMax
    BY <1>4 DEF Commands!AdjustMoles, m
  <2>3. v \in 0 .. FloatMax
    BY <2>1, <2>2, CommandConstants DEF Commands!Most
  <2>4. Commands!SetField(h, [m EXCEPT !.gases[g] = v])
    <3>1. Commands!SetField(h, [m EXCEPT !.gases[g] = Commands!Most(@ + d, 0)])
      BY <1>4 DEF Commands!AdjustMoles, m
    <3>2. [m EXCEPT !.gases[g] = Commands!Most(@ + d, 0)] = [m EXCEPT !.gases[g] = v]
      BY <1>1 DEF Records, Moles0
    <3> QED
      BY <3>1, <3>2
  <2> HIDE DEF v
  <2> QED
    BY <1>1, <1>2, <2>3, <2>4, GasSet
<1>5. ASSUME NEW t \in Temperatures, Commands!SetTemperature(h, t)
      PROVE  CommandStep("set")
  <2>1. Commands!Floor(t) \in Nat /\ Commands!Floor(t) >= MinimumTemperature
    BY FloorAbove, CommandConstants
  <2>2. Commands!SetField(h, [m EXCEPT !.temperature = Commands!Floor(t)])
    BY <1>5 DEF Commands!SetTemperature, m
  <2> QED
    BY <1>1, <1>2, <2>1, <2>2, FieldsSet
<1>6. ASSUME NEW v \in Volumes, Commands!SetVolume(h, v)
      PROVE  CommandStep("set")
  <2>1. v \in Nat /\ Commands!SetField(h, [m EXCEPT !.volume = v])
    BY <1>6, CommandConstants DEF Commands!SetVolume, m
  <2> QED
    BY <1>1, <1>2, <2>1, FieldsSet
<1>7. ASSUME NEW c \in Capacities, Commands!SetMinimumHeatCapacity(h, c)
      PROVE  CommandStep("set")
  <2>1. c \in Nat /\ Commands!SetField(h, [m EXCEPT !.minimum = c])
    BY <1>7, CommandConstants DEF Commands!SetMinimumHeatCapacity, m
  <2> QED
    BY <1>1, <1>2, <2>1, FieldsSet
<1>8. ASSUME Commands!Clear(h)
      PROVE  CommandStep("set")
  <2>1. [g \in Gases |-> 0] \in Moles0
    BY CommandConstants DEF Moles0
  <2>2. Commands!SetField(h, [m EXCEPT !.gases = [g \in Gases |-> 0]])
    BY <1>8 DEF Commands!Clear, m
  <2> QED
    BY <1>1, <1>2, <2>1, <2>2, FieldsSet
<1>9. ASSUME Commands!MarkImmutable(h)
      PROVE  CommandStep("set")
  <2>1. Commands!SetField(h, [m EXCEPT !.immutable = TRUE])
    BY <1>9 DEF Commands!MarkImmutable, m
  <2> QED
    BY <1>1, <1>2, <2>1, FieldsSet
<1> QED
  BY <1>3, <1>4, <1>5, <1>6, <1>7, <1>8, <1>9

\* AdjustMolesTemperature: gas arrives with its own temperature.
LEMMA AdjustMolesTemperatureStep ==
  ASSUME mix \in [Handles -> Records], NEW h \in Handles, NEW g \in Gases, NEW n \in Amounts,
         NEW t \in Temperatures, Commands!AdjustMolesTemperature(h, g, n, t)
  PROVE  CommandStep("set")
<1> DEFINE m == mix[h]
           v == Commands!Saturated(m.gases[g] + n)
           mean == Commands!MeanTemperature(Commands!HeatCapacity(m), m.temperature, n * SpecificHeat[g],
                                   Commands!Floor(t), m.temperature)
           new == [m EXCEPT !.gases[g] = v, !.temperature = Commands!Floor(mean)]
<1>1. m \in Records /\ m.gases \in Moles0 /\ n \in Nat /\ t \in Int /\ SpecificHeat[g] \in Nat
  BY CommandConstants DEF Records
<1>2. v \in 0 .. FloatMax
  BY <1>1, CommandConstants DEF Commands!Saturated, Commands!Least, Moles0
<1>3. mean \in Int
  <2>1. m.temperature \in Nat /\ m.temperature >= MinimumTemperature
    BY <1>1 DEF Records
  <2>2. Commands!HeatCapacity(m) \in Nat /\ n * SpecificHeat[g] \in Nat
    BY <1>1, HeatCapacityNat, RecordsAreDrafts
  <2>3. Commands!Floor(t) \in Nat /\ Commands!Floor(t) >= MinimumTemperature
    BY <1>1, FloorAbove
  <2> DEFINE c == Commands!HeatCapacity(m)
             d == n * SpecificHeat[g]
             s == m.temperature
             u == Commands!Floor(t)
  <2>4. c \in Nat /\ d \in Nat /\ s \in Nat /\ s >= MinimumTemperature
        /\ u \in Nat /\ u >= MinimumTemperature
    BY <2>1, <2>2, <2>3
  <2>5. mean = Commands!MeanTemperature(c, s, d, u, s)
    OBVIOUS
  <2> HIDE DEF c, d, s, u, mean
  <2>6. Commands!MeanTemperature(c, s, d, u, s) \in Nat
    BY <2>4, MeanAboveFloor
  <2> QED
    BY <2>5, <2>6
<1>4. ~m.immutable /\ Commands!Mutate(h, "set", new, TRUE)
  <2>1. ~m.immutable
        /\ Commands!Mutate(h, "set", [m EXCEPT !.gases[g] = Commands!Saturated(@ + n),
                               !.temperature = Commands!Floor(Commands!MeanTemperature(Commands!HeatCapacity(m), @,
                                 n * SpecificHeat[g], Commands!Floor(t), @))], TRUE)
    BY DEF Commands!AdjustMolesTemperature
  <2>2. [m EXCEPT !.gases[g] = Commands!Saturated(@ + n),
                  !.temperature = Commands!Floor(Commands!MeanTemperature(Commands!HeatCapacity(m), @,
                                    n * SpecificHeat[g], Commands!Floor(t), @))] = new
    BY <1>1 DEF Records, Moles0
  <2> QED
    BY <2>1, <2>2
<1>5. Commands!Floor(mean) \in Nat /\ Commands!Floor(mean) >= MinimumTemperature
  BY <1>3, FloorAbove
<1> HIDE DEF m, v, mean
<1>6. new \in Records /\ new.revision = m.revision
  BY <1>1, <1>2, <1>5 DEF Records, Moles0
<1> HIDE DEF new
<1>7. TRUE \in BOOLEAN
  OBVIOUS
<1> QED
  BY <1>4, <1>6, <1>7, MutateStep DEF m

\* The adjustments of AdjustMultiple, one after the other.
Adjusting(x, list, sums) ==
  sums = [i \in 0 .. Len(list) |->
            IF i = 0 THEN x ELSE [sums[i - 1] EXCEPT ![list[i].gas] = Commands!Most(@ + list[i].delta, 0)]]

\* They can be added up.
LEMMA AdjustingExists ==
  ASSUME NEW x, NEW list, Len(list) \in Nat
  PROVE  \E sums : Adjusting(x, list, sums)
<1> DEFINE Next1(i, f) == IF i = 0 THEN x
                          ELSE [f[i - 1] EXCEPT ![list[i].gas] = Commands!Most(@ + list[i].delta, 0)]
           Fits1(k) == \E f : \A i \in 0 .. k : f[i] = Next1(i, f)
           failing == {k \in Nat : ~Fits1(k)}
<1>1. SUFFICES failing = {}
  <2>1. PICK f : \A i \in 0 .. Len(list) : f[i] = Next1(i, f)
    BY <1>1
  <2> DEFINE sums == [i \in 0 .. Len(list) |-> f[i]]
  <2>2. \A i \in 0 .. Len(list) : sums[i] = Next1(i, sums)
    <3> SUFFICES ASSUME NEW i \in 0 .. Len(list)
                 PROVE  sums[i] = Next1(i, sums)
      OBVIOUS
    <3>1. i # 0 => i - 1 \in 0 .. Len(list)
      OBVIOUS
    <3>2. Next1(i, sums) = Next1(i, f)
      BY <3>1
    <3> QED
      BY <2>1, <3>2
  <2>3. sums = [i \in 0 .. Len(list) |-> Next1(i, sums)]
    <3> DEFINE later == [i \in 0 .. Len(list) |-> Next1(i, sums)]
    <3>1. \A i \in 0 .. Len(list) : sums[i] = later[i]
      BY <2>2
    <3> QED
      BY <3>1
  <2> HIDE DEF sums
  <2> QED
    BY <2>3 DEF Adjusting
<1> SUFFICES ASSUME failing # {} PROVE FALSE
  OBVIOUS
<1> HIDE DEF failing, Fits1
<1>2. PICK k \in failing : \A j \in failing : k <= j
  <2>1. failing \in SUBSET Nat
    BY DEF failing
  <2> QED
    BY <2>1, LeastNatural
<1>3. k \in Nat /\ ~Fits1(k)
  BY <1>2 DEF failing
<1>4. k # 0
  <2> DEFINE f == [i \in 0 .. 0 |-> x]
  <2>1. \A i \in 0 .. 0 : f[i] = Next1(i, f)
    OBVIOUS
  <2> HIDE DEF f
  <2>2. Fits1(0)
    BY <2>1 DEF Fits1
  <2> QED
    BY <1>3, <2>2
<1>5. Fits1(k - 1)
  BY <1>2, <1>3, <1>4 DEF failing
<1>6. PICK f : \A i \in 0 .. k - 1 : f[i] = Next1(i, f)
  BY <1>5 DEF Fits1
<1> DEFINE h == [i \in 0 .. k |-> Next1(i, f)]
<1>7. ASSUME NEW i \in 0 .. k
      PROVE  h[i] = Next1(i, h)
  <2>1. CASE i = 0
    BY <2>1
  <2>2. CASE i # 0
    <3>1. i - 1 \in 0 .. k - 1 /\ i - 1 \in 0 .. k
      BY <1>3, <2>2
    <3>2. h[i - 1] = f[i - 1]
      BY <1>6, <3>1
    <3> QED
      BY <2>2, <3>2
  <2> QED
    BY <2>1, <2>2
<1> HIDE DEF h
<1>8. Fits1(k)
  BY <1>7 DEF Fits1
<1> QED
  BY <1>3, <1>8

\* No adjustment overflows, so what they add up to stays in range.
LEMMA AdjustedMoles ==
  ASSUME NEW x \in Moles0, NEW list, Len(list) \in Nat,
         \A i \in 1 .. Len(list) : list[i].gas \in Gases /\ list[i].delta \in Int,
         NEW sums, Adjusting(x, list, sums),
         \A i \in 1 .. Len(list) : sums[i][list[i].gas] <= FloatMax
  PROVE  sums[Len(list)] \in Moles0
<1> DEFINE failing == {k \in 0 .. Len(list) : sums[k] \notin Moles0}
<1> SUFFICES ASSUME failing # {} PROVE FALSE
  OBVIOUS
<1>1. PICK k \in failing : \A j \in failing : k <= j
  <2>1. failing \in SUBSET Nat
    OBVIOUS
  <2> HIDE DEF failing
  <2> QED
    BY <2>1, LeastNatural
<1>2. k \in 0 .. Len(list) /\ sums[k] \notin Moles0
  BY <1>1
<1>3. sums[0] = x
  BY DEF Adjusting
<1>4. k \in 1 .. Len(list) /\ k - 1 \in 0 .. Len(list)
  BY <1>2, <1>3
<1>5. sums[k - 1] \in Moles0
  BY <1>1, <1>4
<1>6. sums[k] = [sums[k - 1] EXCEPT ![list[k].gas] = Commands!Most(@ + list[k].delta, 0)]
  BY <1>4 DEF Adjusting
<1>7. Commands!Most(sums[k - 1][list[k].gas] + list[k].delta, 0) \in 0 .. FloatMax
  <2>1. list[k].gas \in Gases /\ list[k].delta \in Int /\ sums[k][list[k].gas] <= FloatMax
    BY <1>4
  <2>2. sums[k - 1][list[k].gas] \in 0 .. FloatMax
    BY <1>5, <2>1 DEF Moles0
  <2>3. sums[k][list[k].gas] = Commands!Most(sums[k - 1][list[k].gas] + list[k].delta, 0)
    BY <1>5, <1>6, <2>1 DEF Moles0
  <2>4. Commands!Most(sums[k - 1][list[k].gas] + list[k].delta, 0) \in Nat
    BY <2>1, <2>2, CommandConstants DEF Commands!Most
  <2> QED
    BY <2>1, <2>3, <2>4, CommandConstants
<1> QED
  BY <1>2, <1>5, <1>6, <1>7 DEF Moles0

\* AdjustMultiple: the gases listed change, by all their adjustments.
LEMMA AdjustMultipleStep ==
  ASSUME mix \in [Handles -> Records], NEW h \in Handles, NEW list, Len(list) \in Nat,
         \A i \in 1 .. Len(list) : list[i].gas \in Gases /\ list[i].delta \in Int,
         Commands!AdjustMultiple(h, list)
  PROVE  CommandStep("set")
<1> DEFINE m == mix[h]
           F(p) == [i \in 0 .. Len(list) |->
                      IF i = 0 THEN m.gases
                      ELSE [p[i - 1] EXCEPT ![list[i].gas] = Commands!Most(@ + list[i].delta, 0)]]
           sums == CHOOSE f : f = F(f)
           x == [g \in Gases |-> IF \E i \in 1 .. Len(list) : list[i].gas = g
                                   THEN Commands!Canonical(sums[Len(list)])[g] ELSE m.gases[g]]
<1>1. m \in Records /\ m.gases \in Moles0
  BY DEF Records
<1>2. \A f : f = F(f) <=> Adjusting(m.gases, list, f)
  BY DEF Adjusting
<1>3. /\ \A i \in 1 .. Len(list) : sums[i][list[i].gas] <= FloatMax
      /\ Commands!SetField(h, [m EXCEPT !.gases = x])
  BY DEF Commands!AdjustMultiple
<1>4. Adjusting(m.gases, list, sums)
  <2>1. PICK q : Adjusting(m.gases, list, q)
    BY AdjustingExists
  <2>2. \E f : f = F(f)
    BY <1>2, <2>1
  <2> HIDE DEF F
  <2>3. sums = F(sums)
    BY <2>2
  <2> HIDE DEF sums
  <2> QED
    BY <1>2, <2>3
<1> HIDE DEF sums, m
<1>5. sums[Len(list)] \in Moles0
  BY <1>1, <1>3, <1>4, AdjustedMoles
<1>6. Commands!Canonical(sums[Len(list)]) \in Moles0
  BY <1>5, CanonicalMoles
<1>7. x \in Moles0
  BY <1>1, <1>6 DEF Moles0
<1> HIDE DEF x
<1>8. [m EXCEPT !.gases = x] \in Records /\ [m EXCEPT !.gases = x].revision = m.revision
  BY <1>1, <1>7, FieldsSet
<1> QED
  BY <1>3, <1>8, SetFieldStep DEF m

\* Add: when nothing but traces changed, only traces are dropped.
LEMMA AddStep ==
  ASSUME mix \in [Handles -> Records], NEW h \in Handles, NEW d \in Int, Commands!Add(h, d)
  PROVE  CommandStep("add")
<1> DEFINE m == mix[h]
           active  == {g \in Gases : \E k \in Gases : k >= g /\ m.gases[k] # 0}
           sum     == [g \in Gases |-> IF g \in active
                         THEN Commands!Saturated(Commands!Most(m.gases[g] + d, 0)) ELSE m.gases[g]]
           dropped == [g \in Gases |-> IF g \in active THEN Commands!Canonical(sum)[g] ELSE sum[g]]
           changed == sum # m.gases
           new == [m EXCEPT !.gases = dropped]
<1>1. m \in Records /\ m.gases \in Moles0
  BY DEF Records
<1>2. ~m.immutable /\ Commands!Mutate(h, "add", new, changed)
  BY DEF Commands!Add
<1> HIDE DEF m, active
<1>3. sum \in Moles0
  <2>1. \A g \in Gases : m.gases[g] \in 0 .. FloatMax
    BY <1>1 DEF Moles0
  <2>2. \A g \in Gases : Commands!Saturated(Commands!Most(m.gases[g] + d, 0)) \in 0 .. FloatMax
    BY <2>1, CommandConstants DEF Commands!Saturated, Commands!Most, Commands!Least
  <2> QED
    BY <2>1, <2>2 DEF Moles0
<1> HIDE DEF sum
<1>4. Commands!Canonical(sum) \in Moles0 /\ Commands!Canonical(Commands!Canonical(sum)) = Commands!Canonical(sum)
  BY <1>3, CanonicalMoles
<1>5. dropped \in Moles0
  BY <1>3, <1>4 DEF Moles0
<1>6. Commands!Canonical(dropped) = Commands!Canonical(sum)
  <2>1. \A g \in Gases : Commands!Canonical(Commands!Canonical(sum))[g] = Commands!Canonical(sum)[g]
    BY <1>4
  <2>2. ASSUME NEW g \in Gases
        PROVE  Commands!Canonical(dropped)[g] = Commands!Canonical(sum)[g]
    <3>1. CASE g \in active
      <4>1. dropped[g] = Commands!Canonical(sum)[g]
        BY <3>1
      <4>2. Commands!Canonical(dropped)[g] = Commands!Canonical(Commands!Canonical(sum))[g]
        BY <4>1 DEF Commands!Canonical
      <4> QED
        BY <2>1, <4>2
    <3>2. CASE g \notin active
      <4>1. dropped[g] = sum[g]
        BY <3>2
      <4> QED
        BY <4>1 DEF Commands!Canonical
    <3> QED
      BY <3>1, <3>2
  <2> HIDE DEF dropped
  <2> QED
    BY <2>2 DEF Commands!Canonical
<1> HIDE DEF dropped
<1>7. new \in Records /\ new.revision = m.revision
  BY <1>1, <1>5, FieldsSet
<1>8. ~changed => Settled(new) = Settled(m)
  <2> SUFFICES ASSUME ~changed PROVE Settled(new) = Settled(m)
    OBVIOUS
  <2>1. sum = m.gases
    OBVIOUS
  <2>2. new.gases = dropped
    BY <1>1 DEF Records
  <2>3. Settled(new) = [new EXCEPT !.gases = Commands!Canonical(dropped)]
    BY <2>2, <1>7 DEF Settled, Records
  <2>4. Settled(m) = [m EXCEPT !.gases = Commands!Canonical(sum)]
    BY <1>1, <2>1 DEF Settled, Records
  <2> QED
    BY <1>6, <2>3, <2>4
<1>9. changed \in BOOLEAN
  OBVIOUS
<1> HIDE DEF new, changed
<1> QED
  BY <1>2, <1>7, <1>8, <1>9, MutateStep DEF m

\* Multiply and EqualizeWith scale moles and cap them.
LEMMA ScaledMoles ==
  ASSUME NEW x \in Moles0, NEW n \in Nat, NEW d \in Nat \ {0}
  PROVE  [g \in Gases |-> Commands!Saturated((x[g] * n) \div d)] \in Moles0
<1>1. ASSUME NEW g \in Gases
      PROVE  Commands!Saturated((x[g] * n) \div d) \in 0 .. FloatMax
  <2>1. x[g] \in Nat
    BY CommandConstants DEF Moles0
  <2>2. x[g] * n \in Nat
    BY <2>1
  <2>3. (x[g] * n) \div d \in Nat
    BY <2>2, DivisionBounds
  <2> QED
    BY <2>3, CommandConstants DEF Commands!Saturated, Commands!Least
<1> QED
  BY <1>1 DEF Moles0

\* Multiply.
LEMMA MultiplyStep ==
  ASSUME mix \in [Handles -> Records], NEW h \in Handles, NEW r,
         r[1] \in Nat, r[2] \in Nat \ {0}, Commands!Multiply(h, r)
  PROVE  CommandStep("set")
<1> DEFINE m == mix[h]
           x == Commands!Canonical(Commands!Scaled(m.gases, r))
<1>1. m \in Records /\ m.gases \in Moles0
  BY DEF Records
<1>2. Commands!SetField(h, [m EXCEPT !.gases = x])
  <2>1. Commands!SetField(h, [m EXCEPT !.gases = Commands!Canonical(Commands!Scaled(@, r))])
    BY DEF Commands!Multiply
  <2>2. [m EXCEPT !.gases = Commands!Canonical(Commands!Scaled(@, r))] = [m EXCEPT !.gases = x]
    BY <1>1 DEF Records
  <2> QED
    BY <2>1, <2>2
<1> HIDE DEF m
<1>3. Commands!Scaled(m.gases, r) \in Moles0
  BY <1>1, ScaledMoles DEF Commands!Scaled, Commands!Part
<1>4. x \in Moles0
  BY <1>3, CanonicalMoles
<1> HIDE DEF x
<1>5. [m EXCEPT !.gases = x] \in Records /\ [m EXCEPT !.gases = x].revision = m.revision
  BY <1>1, <1>4, FieldsSet
<1> QED
  BY <1>2, <1>5, SetFieldStep DEF m

\* CopyFrom.
LEMMA CopyFromStep ==
  ASSUME mix \in [Handles -> Records], NEW a \in Handles, NEW b \in Handles, Commands!CopyFrom(a, b)
  PROVE  CommandStep("set")
<1>1. /\ mix[a] \in Records /\ mix[b].gases \in Moles0
      /\ mix[b].temperature \in Nat /\ mix[b].temperature >= MinimumTemperature
  BY DEF Records
<1>2. Commands!SetField(a, [mix[a] EXCEPT !.gases = mix[b].gases, !.temperature = mix[b].temperature])
  BY DEF Commands!CopyFrom
<1> DEFINE m == mix[a]
           x == mix[b].gases
           t == mix[b].temperature
           new == Content(m, x, t)
<1>3. new \in Records /\ new.revision = m.revision
  <2>1. m \in Records /\ x \in Moles0 /\ t \in Nat /\ t >= MinimumTemperature
    BY <1>1
  <2> HIDE DEF m, x, t
  <2> QED
    BY <2>1, ContentSet
<1> HIDE DEF new
<1> QED
  BY <1>2, <1>3, SetFieldStep DEF new, Content

\* EqualizeWith.
LEMMA EqualizeWithStep ==
  ASSUME mix \in [Handles -> Records], NEW a \in Handles, NEW b \in Handles, Commands!EqualizeWith(a, b)
  PROVE  CommandStep("set")
<1> DEFINE share == [g \in Gases |-> Commands!Saturated((mix[b].gases[g] * mix[a].volume)
                                                 \div mix[b].volume)]
           x == Commands!Canonical(share)
<1>1. /\ mix[a] \in Records /\ mix[b].gases \in Moles0
      /\ mix[a].volume \in Nat /\ mix[b].volume \in Nat
      /\ mix[b].temperature \in Nat /\ mix[b].temperature >= MinimumTemperature
  BY DEF Records
<1>2. /\ mix[b].volume > 0
      /\ Commands!SetField(a, [mix[a] EXCEPT !.gases = x, !.temperature = mix[b].temperature])
  BY DEF Commands!EqualizeWith
<1>3. share \in Moles0
  BY <1>1, <1>2, ScaledMoles
<1> HIDE DEF share
<1>4. x \in Moles0
  BY <1>3, CanonicalMoles
<1> HIDE DEF x
<1> DEFINE m == mix[a]
           t == mix[b].temperature
           new == Content(m, x, t)
<1>5. new \in Records /\ new.revision = m.revision
  <2>1. m \in Records /\ t \in Nat /\ t >= MinimumTemperature
    BY <1>1
  <2> HIDE DEF m, t
  <2> QED
    BY <1>4, <2>1, ContentSet
<1> HIDE DEF new
<1> QED
  BY <1>2, <1>5, SetFieldStep DEF new, Content

\* AdjustHeat.
LEMMA AdjustHeatStep ==
  ASSUME mix \in [Handles -> Records], NEW h \in Handles, NEW heat \in Int, Commands!AdjustHeat(h, heat)
  PROVE  CommandStep("set")
<1> DEFINE m == mix[h]
           c == Commands!HeatCapacity(m)
           t == IF c = 0 THEN MinimumTemperature ELSE Commands!Floor((c * m.temperature + heat) \div c)
<1>1. m \in Records /\ m.temperature \in Nat /\ c \in Nat
  BY HeatCapacityNat, RecordsAreDrafts DEF Records
<1>2. Commands!SetField(h, [m EXCEPT !.temperature = t])
  <2>1. Commands!SetField(h, [m EXCEPT !.temperature =
                       IF c = 0 THEN MinimumTemperature ELSE Commands!Floor((c * @ + heat) \div c)])
    BY DEF Commands!AdjustHeat
  <2>2. [m EXCEPT !.temperature =
            IF c = 0 THEN MinimumTemperature ELSE Commands!Floor((c * @ + heat) \div c)]
          = [m EXCEPT !.temperature = t]
    BY <1>1 DEF Records
  <2> QED
    BY <2>1, <2>2
<1> HIDE DEF m, c
<1>3. t \in Nat /\ t >= MinimumTemperature
  <2>1. CASE c = 0
    BY <2>1, CommandConstants
  <2>2. CASE c # 0
    <3>1. c * m.temperature + heat \in Int /\ c \in Nat \ {0}
      BY <1>1, <2>2
    <3>2. (c * m.temperature + heat) \div c \in Int
      BY <3>1, DivisionBounds
    <3> QED
      BY <2>2, <3>2, FloorAbove
  <2> QED
    BY <2>1, <2>2
<1> HIDE DEF t
<1> QED
  BY <1>1, <1>2, <1>3, FieldsSet, SetFieldStep DEF m

\* TemperatureShareNonGas.
LEMMA TemperatureShareNonGasStep ==
  ASSUME mix \in [Handles -> Records], NEW h \in Handles, NEW t \in Nat, NEW c \in Nat,
         NEW r, Ratio(r), Commands!TemperatureShareNonGas(h, t, c, r)
  PROVE  CommandStep("set")
<1> DEFINE m == mix[h]
           cm == Commands!HeatCapacity(m)
           heat == (r[1] * (m.temperature - t) * cm * c) \div (r[2] * (cm + c))
           new == Commands!Floor(m.temperature - heat \div cm)
<1>1. m \in Records /\ m.temperature \in Nat /\ cm \in Nat
  BY HeatCapacityNat, RecordsAreDrafts DEF Records
<1>2. cm > 0 /\ c > 0 /\ Commands!SetField(h, [m EXCEPT !.temperature = new])
  <2>1. cm > 0 /\ c > 0 /\ Commands!SetField(h, [m EXCEPT !.temperature = Commands!Floor(@ - heat \div cm)])
    BY DEF Commands!TemperatureShareNonGas
  <2>2. [m EXCEPT !.temperature = Commands!Floor(@ - heat \div cm)] = [m EXCEPT !.temperature = new]
    BY <1>1 DEF Records
  <2> QED
    BY <2>1, <2>2
<1> HIDE DEF m, cm
<1>3. heat \in Int
  <2>1. r[1] * (m.temperature - t) * cm * c \in Int
    BY <1>1 DEF Ratio
  <2>2. r[2] * (cm + c) \in Nat \ {0}
    BY <1>1, <1>2 DEF Ratio
  <2> QED
    BY <2>1, <2>2, DivisionBounds
<1> HIDE DEF heat
<1>4. heat \div cm \in Int
  BY <1>1, <1>2, <1>3, DivisionBounds
<1>5. new \in Nat /\ new >= MinimumTemperature
  BY <1>1, <1>4, FloorAbove
<1> HIDE DEF new
<1> QED
  BY <1>1, <1>2, <1>5, FieldsSet, SetFieldStep DEF m

-----------------------------------------------------------------------------
(***************************************************************************)
(* Commands that move gas between two mixtures.                            *)
(***************************************************************************)
\* merge_record puts all of the giver's gas to the receiver's.
LEMMA MergedRecord ==
  ASSUME NEW m \in Drafts, NEW giver \in Drafts
  PROVE  /\ Commands!Merged(m, giver) \in Records /\ Commands!Merged(m, giver).revision = m.revision
         /\ Commands!Merged(m, giver).gases = Commands!Plus(m.gases, giver.gases)
<1> DEFINE c == Commands!HeatCapacity(m)
           d == Commands!HeatCapacity(giver)
           s == m.temperature
           u == giver.temperature
           t == Commands!MeanTemperature(c, s, d, u, s)
           x == Commands!Plus(m.gases, giver.gases)
<1>1. c \in Nat /\ d \in Nat
  BY HeatCapacityNat
<1>2. s \in Nat /\ s >= MinimumTemperature /\ u \in Nat /\ u >= MinimumTemperature
  BY DEF Drafts
<1>3. x \in Moles0
  <2>1. m.gases \in [Gases -> Nat] /\ giver.gases \in [Gases -> Nat]
    BY DEF Drafts
  <2> QED
    BY <2>1, PlusMoles
<1>4. Commands!Merged(m, giver) = Content(m, x, t)
  <2>1. Commands!Merged(m, giver) = [m EXCEPT !.gases = Commands!Plus(@, giver.gases),
                                     !.temperature = Commands!MeanTemperature(c, @, d, u, @)]
    BY DEF Commands!Merged
  <2> QED
    BY <2>1 DEF Content, Drafts
<1> HIDE DEF c, d, s, u
<1>5. t \in Nat /\ t >= MinimumTemperature
  BY <1>1, <1>2, MeanAboveFloor
<1> HIDE DEF t, x
<1>6. Content(m, x, t) \in Records /\ Content(m, x, t).revision = m.revision
      /\ Content(m, x, t).gases = x
  BY <1>3, <1>5 DEF Content, Drafts, Records
<1> QED
  BY <1>4, <1>6 DEF x

\* Merge: the receiver takes all the gas, the giver keeps it (the caller clears it).
LEMMA MergeStep ==
  ASSUME mix \in [Handles -> Records], NEW a \in Handles, NEW b \in Handles, Commands!Merge(a, b)
  PROVE  CommandStep("merge")
<1> DEFINE new == Commands!Merged(mix[a], mix[b])
<1>1. mix[a] \in Drafts /\ mix[b] \in Drafts
  BY RecordsAreDrafts
<1>2. new \in Records /\ new.revision = mix[a].revision
  BY <1>1, MergedRecord
<1>3. ~mix[a].immutable /\ Commands!Mutate(a, "merge", new, TRUE)
  BY DEF Commands!Merge
<1> HIDE DEF new
<1>4. TRUE \in BOOLEAN
  OBVIOUS
<1> QED
  BY <1>2, <1>3, <1>4, MutateStep

\* What two mixtures become while the others stay.
TwoBecome(a, x, b, y) ==
  [h \in Handles |-> IF h = a THEN x ELSE IF h = b THEN y ELSE mix[h]]

\* Gas moves between two mixtures: nothing comes from nowhere, and unless a
\* command throws gas away what is lost is traces.
Moved(kind, a, b) ==
  /\ a \in Handles /\ b \in Handles /\ a # b
  /\ \A h \in Handles \ {a, b} : mix'[h].gases = mix[h].gases
  /\ \A g \in Gases :
       LET before == mix[a].gases[g] + mix[b].gases[g]
           after  == mix'[a].gases[g] + mix'[b].gases[g]
       IN  before <= FloatMax =>
             /\ after <= before
             /\ kind # "remove" => before - after <= 2 * (MinimumMoles + Accuracy)

\* Both records of a move are replaced, each under its next revision.
LEMMA ReplaceBoth ==
  ASSUME mix \in [Handles -> Records], NEW kind, NEW a \in Handles, NEW b \in Handles, a # b,
         NEW x, NEW y, Commanded(mix[a], x), Commanded(mix[b], y),
         mix' = TwoBecome(a, x, b, y), seen' = seen, last' = kind
  PROVE  CommandStep(kind) /\ mix'[a] = x /\ mix'[b] = y
         /\ \A h \in Handles \ {a, b} : mix'[h] = mix[h]
<1>1. mix'[a] = x /\ mix'[b] = y /\ \A h \in Handles \ {a, b} : mix'[h] = mix[h]
  BY DEF TwoBecome
<1>2. \A h \in Handles : Commanded(mix[h], mix'[h])
  BY <1>1 DEF Commanded
<1>3. mix' = [h \in Handles |-> mix'[h]]
  BY DEF TwoBecome
<1> QED
  BY <1>1, <1>2, <1>3 DEF CommandStep

\* remove_ratio_into: the destination is overwritten with what the source gives up.
LEMMA RemoveIntoStep ==
  ASSUME mix \in [Handles -> Records], NEW a \in Handles, NEW b \in Handles,
         NEW r, Ratio(r), NEW clean \in BOOLEAN, Commands!RemoveInto(a, b, r, clean)
  PROVE  CommandStep("remove") /\ (~mix[a].immutable => Moved("remove", a, b))
<1> DEFINE s == mix[a]
           d == mix[b]
           removed == Commands!Removed(s.gases, r)
           left == Commands!Minus(s.gases, removed)
           given == IF clean THEN Commands!Canonical(removed) ELSE removed
           kept == IF clean THEN Commands!Canonical(left) ELSE left
           x == IF s.immutable THEN s ELSE [s EXCEPT !.gases = kept, !.revision = s.revision + 1]
           y == [d EXCEPT !.gases = given, !.temperature = s.temperature,
                          !.revision = d.revision + 1]
<1>1. s \in Records /\ d \in Records /\ s.gases \in Moles0 /\ d.gases \in Moles0
  BY DEF Records
<1>2. /\ a # b /\ ~d.immutable /\ s.revision # RevisionMax /\ d.revision # RevisionMax
      /\ last' = "remove" /\ seen' = seen
  BY DEF Commands!RemoveInto, Commands!Applied
<1>3. mix' = TwoBecome(a, x, b, y)
  <2> DEFINE Cleaned(u) == IF clean THEN Commands!Canonical(u) ELSE u
  <2>1. mix' = [mix EXCEPT
         ![b] = [d EXCEPT !.gases = Cleaned(removed), !.temperature = s.temperature,
                          !.revision = @ + 1],
         ![a] = IF s.immutable THEN s
                ELSE [s EXCEPT !.gases = Cleaned(Commands!Minus(@, removed)), !.revision = @ + 1]]
    BY DEF Commands!RemoveInto, Commands!Applied
  <2>2. mix' = [h \in Handles |-> mix'[h]]
    BY <2>1
  <2>3. mix'[b] = [d EXCEPT !.gases = Cleaned(removed), !.temperature = s.temperature,
                            !.revision = @ + 1]
    BY <1>2, <2>1
  <2>4. mix'[b] = y
    BY <1>1, <2>3 DEF Records
  <2>5. mix'[a] = IF s.immutable THEN s
                  ELSE [s EXCEPT !.gases = Cleaned(Commands!Minus(@, removed)), !.revision = @ + 1]
    BY <1>2, <2>1
  <2>6. mix'[a] = x
    BY <1>1, <2>5 DEF Records
  <2>7. \A h \in Handles \ {a, b} : mix'[h] = mix[h]
    BY <2>1
  <2> HIDE DEF x, y
  <2> QED
    BY <1>2, <2>2, <2>4, <2>6, <2>7 DEF TwoBecome
<1>4. removed \in Moles0 /\ \A g \in Gases : removed[g] <= s.gases[g]
  BY <1>1, RemovedMoles
<1> HIDE DEF removed
<1>5. left \in Moles0 /\ \A g \in Gases : left[g] = s.gases[g] - removed[g]
  BY <1>1, <1>4, MinusMoles
<1> HIDE DEF left
<1>6. given \in Moles0 /\ \A g \in Gases : given[g] <= removed[g]
  <2>1. \A g \in Gases : removed[g] \in Int
    BY <1>4 DEF Moles0
  <2> QED
    BY <1>4, <2>1, CanonicalMoles
<1>7. kept \in Moles0 /\ \A g \in Gases : kept[g] <= left[g]
  <2>1. \A g \in Gases : left[g] \in Int
    BY <1>5 DEF Moles0
  <2> QED
    BY <1>5, <2>1, CanonicalMoles
<1> HIDE DEF given, kept, s, d
<1>8. s.revision + 1 \in 0 .. RevisionMax /\ d.revision + 1 \in 0 .. RevisionMax
      /\ s.temperature \in Nat /\ s.temperature >= MinimumTemperature
  BY <1>1, <1>2, CommandConstants DEF Records
<1>9. Commanded(s, x)
  <2>1. CASE s.immutable
    BY <2>1 DEF Commanded
  <2>2. CASE ~s.immutable
    <3>1. x \in Records /\ x.revision = s.revision + 1
      BY <1>1, <1>7, <1>8, <2>2 DEF Records
    <3> QED
      BY <2>2, <3>1 DEF Commanded, Bumped
  <2> QED
    BY <2>1, <2>2
<1>10. Commanded(d, y) /\ y.gases = given
  <2>1. y \in Records /\ y.revision = d.revision + 1 /\ y.gases = given
    BY <1>1, <1>6, <1>8 DEF Records
  <2> HIDE DEF y
  <2> QED
    BY <1>2, <2>1 DEF Commanded, Bumped
<1>11. ~s.immutable => x.gases = kept
  BY <1>1 DEF Records
<1> HIDE DEF x, y
<1>12. CommandStep("remove") /\ mix'[a] = x /\ mix'[b] = y
       /\ \A h \in Handles \ {a, b} : mix'[h] = mix[h]
  BY <1>2, <1>3, <1>9, <1>10, ReplaceBoth DEF s, d
<1>13. ASSUME ~s.immutable
       PROVE  Moved("remove", a, b)
  <2>1. ASSUME NEW g \in Gases
        PROVE  kept[g] + given[g] <= s.gases[g] + d.gases[g]
    <3>1. /\ s.gases[g] \in Nat /\ d.gases[g] \in Nat /\ removed[g] \in Nat /\ left[g] \in Nat
          /\ kept[g] \in Nat /\ given[g] \in Nat
      BY <1>1, <1>4, <1>5, <1>6, <1>7, CommandConstants DEF Moles0
    <3> QED
      BY <1>4, <1>5, <1>6, <1>7, <3>1
  <2>2. mix'[a].gases = kept /\ mix'[b].gases = given
    BY <1>10, <1>11, <1>12, <1>13
  <2> QED
    BY <1>2, <1>12, <2>1, <2>2 DEF Moved, s, d
<1> QED
  BY <1>12, <1>13 DEF s

\* Products of naturals grow with their factors.
LEMMA ProductsGrow ==
  ASSUME NEW a \in Nat, NEW b \in Nat, NEW c \in Nat, NEW d \in Nat, a <= b, c <= d
  PROVE  a * c <= b * d /\ a * c \in Nat /\ b * d \in Nat
<1>1. a * c <= b * c /\ b * c <= b * d /\ a * c \in Nat /\ b * c \in Nat /\ b * d \in Nat
  BY SMTT(30)
<1> QED
  BY <1>1

\* Energy over capacity is a temperature above the floor when all the heat is.
LEMMA EnergyAboveFloor ==
  ASSUME NEW c1 \in Nat, NEW c2 \in Nat, NEW c3 \in Nat, NEW c \in Nat, NEW s \in Nat, NEW t \in Nat,
         s >= MinimumTemperature, t >= MinimumTemperature, c1 <= c3, c <= c1 + c2, c > 0
  PROVE  /\ (c3 * t + s * c2) \div c \in Nat
         /\ (c3 * t + s * c2) \div c >= MinimumTemperature
<1>1. MinimumTemperature \in Nat /\ c \in Nat \ {0} /\ c1 + c2 \in Nat
  BY CommandConstants
<1>2. c * MinimumTemperature <= (c1 + c2) * MinimumTemperature
  BY <1>1, ProductsGrow
<1>3. (c1 + c2) * MinimumTemperature = c1 * MinimumTemperature + c2 * MinimumTemperature
  BY <1>1
<1>4. c1 * MinimumTemperature <= c3 * t /\ c1 * MinimumTemperature \in Nat /\ c3 * t \in Nat
  BY <1>1, ProductsGrow
<1>5. c2 * MinimumTemperature <= c2 * s /\ c2 * MinimumTemperature \in Nat /\ c2 * s \in Nat
  BY <1>1, ProductsGrow
<1>6. c2 * s = s * c2 /\ c * MinimumTemperature \in Nat
  BY <1>1
<1>7. c * MinimumTemperature <= c3 * t + s * c2 /\ c3 * t + s * c2 \in Nat
  BY <1>2, <1>3, <1>4, <1>5, <1>6
<1>8. MinimumTemperature <= (c3 * t + s * c2) \div c
  BY <1>1, <1>7, DivisionAtLeast
<1>9. (c3 * t + s * c2) \div c \in Nat
  BY <1>1, <1>7, DivisionBounds
<1> QED
  BY <1>8, <1>9

\* transfer_gases: the masked part of one mixture goes to the other.
LEMMA TransferGasesStep ==
  ASSUME mix \in [Handles -> Records], NEW a \in Handles, NEW b \in Handles,
         NEW r, Ratio(r), NEW mask \in SUBSET Gases, Commands!TransferGases(a, b, r, mask)
  PROVE  CommandStep("select") /\ Moved("select", a, b)
<1> DEFINE s == mix[a]
           d == mix[b]
           moved == [g \in Gases |-> IF g \in mask THEN Commands!Part(s.gases[g], r) ELSE 0]
           sum == Commands!Plus(d.gases, moved)
           after == Commands!Canonical(sum)
           gained == [g \in Gases |-> IF g \in mask THEN Commands!Most(after[g] - d.gases[g], 0) ELSE 0]
           energy == Commands!HeatCapacity(d) * d.temperature + s.temperature * Commands!RawCapacity(gained)
           t == IF Commands!RawCapacity(after) > 0 THEN energy \div Commands!RawCapacity(after) ELSE d.temperature
           left == Commands!Minus(s.gases, moved)
           x == Commands!Committed([s EXCEPT !.gases = left])
           y == Commands!Committed(Content(d, after, t))
<1>1. /\ s \in Records /\ d \in Records /\ s.gases \in Moles0 /\ d.gases \in Moles0
      /\ s.temperature \in Nat /\ s.temperature >= MinimumTemperature
      /\ d.temperature \in Nat /\ d.temperature >= MinimumTemperature
  BY DEF Records
<1>2. /\ a # b /\ ~s.immutable /\ ~d.immutable
      /\ s.revision # RevisionMax /\ d.revision # RevisionMax
      /\ last' = "select" /\ seen' = seen
      /\ \A g \in mask : d.gases[g] + moved[g] <= FloatMax
  BY DEF Commands!TransferGases, Commands!Applied
<1>3. mix' = TwoBecome(a, x, b, y)
  <2>1. mix' = [mix EXCEPT
         ![a] = Commands!Committed([s EXCEPT !.gases = Commands!Minus(@, moved)]),
         ![b] = Commands!Committed([d EXCEPT !.gases = after,
                     !.temperature = IF Commands!RawCapacity(after) > 0
                                       THEN energy \div Commands!RawCapacity(after) ELSE @])]
    BY DEF Commands!TransferGases, Commands!Applied
  <2>2. [s EXCEPT !.gases = Commands!Minus(@, moved)] = [s EXCEPT !.gases = left]
    BY <1>1 DEF Records
  <2>3. [d EXCEPT !.gases = after,
                  !.temperature = IF Commands!RawCapacity(after) > 0
                                    THEN energy \div Commands!RawCapacity(after) ELSE @]
          = Content(d, after, t)
    BY <1>1 DEF Records, Content
  <2> DEFINE p == [s EXCEPT !.gases = Commands!Minus(@, moved)]
             q == [d EXCEPT !.gases = after,
                     !.temperature = IF Commands!RawCapacity(after) > 0
                                       THEN energy \div Commands!RawCapacity(after) ELSE @]
  <2>4. mix' = [mix EXCEPT ![a] = Commands!Committed(p), ![b] = Commands!Committed(q)]
    BY <2>1
  <2>5. Commands!Committed(p) = x /\ Commands!Committed(q) = y
    BY <2>2, <2>3
  <2> HIDE DEF p, q, x, y
  <2> QED
    BY <1>2, <2>4, <2>5 DEF TwoBecome
<1>4. moved \in Moles0 /\ \A g \in Gases : moved[g] <= s.gases[g]
  <2>1. \A g \in Gases : moved[g] \in 0 .. s.gases[g] /\ s.gases[g] \in 0 .. FloatMax
    <3> SUFFICES ASSUME NEW g \in Gases
                 PROVE  moved[g] \in 0 .. s.gases[g] /\ s.gases[g] \in 0 .. FloatMax
      OBVIOUS
    <3>1. s.gases[g] \in 0 .. FloatMax /\ s.gases[g] \in Nat
      BY <1>1, CommandConstants DEF Moles0
    <3>2. Commands!Part(s.gases[g], r) \in 0 .. s.gases[g]
      BY <3>1, PartOf
    <3> QED
      BY <3>1, <3>2
  <2> HIDE DEF s
  <2> QED
    BY <2>1, CommandConstants DEF Moles0
<1>5. \A g \in Gases : moved[g] # 0 => g \in mask
  OBVIOUS
<1> HIDE DEF moved, s, d
<1>6. left \in Moles0 /\ \A g \in Gases : left[g] = s.gases[g] - moved[g]
  BY <1>1, <1>4, MinusMoles
<1>7. \A f \in Moles0 : f \in [Gases -> Nat] /\ \A g \in Gases : f[g] \in Nat /\ f[g] <= FloatMax
  BY CommandConstants DEF Moles0
<1>8. /\ sum \in Moles0
      /\ \A g \in Gases : /\ sum[g] <= d.gases[g] + moved[g]
                          /\ d.gases[g] + moved[g] <= FloatMax => sum[g] = d.gases[g] + moved[g]
  BY <1>1, <1>4, <1>7, PlusMoles
<1>9. \A g \in Gases : sum[g] = d.gases[g] + moved[g]
  <2> SUFFICES ASSUME NEW g \in Gases
               PROVE  d.gases[g] + moved[g] <= FloatMax
    BY <1>8
  <2>1. d.gases[g] \in Nat /\ d.gases[g] <= FloatMax
    BY <1>1, <1>7
  <2> QED
    BY <1>2, <1>5, <2>1, CommandConstants
<1> HIDE DEF sum, left
<1>10. after \in Moles0 /\ \A g \in Gases : after[g] <= sum[g] /\ sum[g] - after[g] < MinimumMoles
  BY <1>8, CanonicalMoles
<1> HIDE DEF after
<1>11. gained \in [Gases -> Nat] /\ \A g \in Gases : after[g] <= d.gases[g] + gained[g]
  <2>1. ASSUME NEW g \in Gases
        PROVE  gained[g] \in Nat /\ after[g] <= d.gases[g] + gained[g]
    <3>1. after[g] \in Nat /\ d.gases[g] \in Nat /\ sum[g] \in Nat /\ moved[g] \in Nat
      BY <1>1, <1>4, <1>7, <1>8, <1>10
    <3>2. CASE g \in mask
      <4>1. gained[g] = Commands!Most(after[g] - d.gases[g], 0)
        BY <3>2
      <4> HIDE DEF gained
      <4> QED
        BY <3>1, <4>1 DEF Commands!Most
    <3>3. CASE g \notin mask
      <4>1. gained[g] = 0 /\ moved[g] = 0
        BY <1>5, <3>3
      <4> HIDE DEF gained
      <4> QED
        BY <1>9, <1>10, <3>1, <4>1
    <3> QED
      BY <3>2, <3>3
  <2>2. gained = [g \in Gases |-> gained[g]]
    OBVIOUS
  <2> HIDE DEF gained
  <2> QED
    BY <2>1, <2>2
<1> HIDE DEF gained
<1>12. t \in Nat /\ t >= MinimumTemperature
  <2> DEFINE c == Commands!RawCapacity(after)
             c1 == Commands!RawCapacity(d.gases)
             c2 == Commands!RawCapacity(gained)
             c3 == Commands!HeatCapacity(d)
  <2>1. c \in Nat /\ c1 \in Nat /\ c2 \in Nat
    BY <1>1, <1>7, <1>10, <1>11, CapacityNat
  <2>2. c3 \in Nat /\ c1 <= c3
    BY <1>1, RecordsAreDrafts, HeatCapacityNat
  <2>3. c <= c1 + c2
    BY <1>1, <1>7, <1>10, <1>11, CapacityParts
  <2> HIDE DEF c, c1, c2, c3
  <2>4. CASE c > 0
    <3>1. t = (c3 * d.temperature + s.temperature * c2) \div c
      BY <2>4 DEF c, c2, c3
    <3> HIDE DEF t
    <3> QED
      BY <1>1, <2>1, <2>2, <2>3, <2>4, <3>1, EnergyAboveFloor
  <2>5. CASE ~(c > 0)
    <3>1. t = d.temperature
      BY <2>5 DEF c
    <3> QED
      BY <1>1, <3>1
  <2> QED
    BY <2>4, <2>5
<1> HIDE DEF t
<1>13. /\ Commanded(s, x) /\ x.gases = Commands!Canonical(left)
  <2> DEFINE p == [s EXCEPT !.gases = left]
  <2>1. p \in Records /\ p.revision = s.revision /\ p.gases = left
    BY <1>1, <1>6 DEF Records
  <2> HIDE DEF p
  <2>2. Commands!Committed(p) \in Records /\ Commands!Committed(p).revision = s.revision + 1
        /\ Commands!Committed(p).gases = Commands!Canonical(left)
    BY <1>2, <2>1, CommittedRecord
  <2> QED
    BY <1>2, <2>2 DEF Commanded, Bumped, p
<1>14. /\ Commanded(d, y) /\ y.gases = Commands!Canonical(after)
  <2> DEFINE p == Content(d, after, t)
  <2>1. p \in Records /\ p.revision = d.revision /\ p.gases = after
    BY <1>1, <1>10, <1>12, ContentSet
  <2> HIDE DEF p
  <2>2. Commands!Committed(p) \in Records /\ Commands!Committed(p).revision = d.revision + 1
        /\ Commands!Committed(p).gases = Commands!Canonical(after)
    BY <1>2, <2>1, CommittedRecord
  <2> QED
    BY <1>2, <2>2 DEF Commanded, Bumped, p
<1>15. Commands!Canonical(after) = after
  BY <1>8, CanonicalMoles DEF after
<1> HIDE DEF x, y
<1>16. CommandStep("select") /\ mix'[a] = x /\ mix'[b] = y
       /\ \A h \in Handles \ {a, b} : mix'[h] = mix[h]
  BY <1>2, <1>3, <1>13, <1>14, ReplaceBoth DEF s, d
<1>17. Moved("select", a, b)
  <2> DEFINE kept == Commands!Canonical(left)
  <2>1. kept \in Moles0 /\ \A g \in Gases : kept[g] <= left[g] /\ left[g] - kept[g] < MinimumMoles
    BY <1>6, CanonicalMoles
  <2>2. mix'[a].gases = kept /\ mix'[b].gases = after
    BY <1>13, <1>14, <1>15, <1>16
  <2> HIDE DEF kept
  <2>3. ASSUME NEW g \in Gases
        PROVE  /\ kept[g] + after[g] <= s.gases[g] + d.gases[g]
               /\ (s.gases[g] + d.gases[g]) - (kept[g] + after[g])
                    <= 2 * (MinimumMoles + Accuracy)
    <3>1. /\ s.gases[g] \in Nat /\ d.gases[g] \in Nat /\ moved[g] \in Nat /\ left[g] \in Nat
          /\ kept[g] \in Nat /\ after[g] \in Nat /\ sum[g] \in Nat
      BY <1>1, <1>4, <1>6, <1>7, <1>8, <1>10, <2>1
    <3>2. /\ left[g] = s.gases[g] - moved[g] /\ sum[g] = d.gases[g] + moved[g]
          /\ after[g] <= sum[g] /\ sum[g] - after[g] < MinimumMoles
          /\ kept[g] <= left[g] /\ left[g] - kept[g] < MinimumMoles
      BY <1>6, <1>9, <1>10, <2>1
    <3> QED
      BY <3>1, <3>2, CommandConstants
  <2> QED
    BY <1>2, <1>16, <2>2, <2>3 DEF Moved, s, d
<1> QED
  BY <1>16, <1>17

\* What the two mixtures of a command hold afterwards; nobody else's gas moves.
GasesOf(a, x, b, y) ==
  /\ mix'[a].gases = x.gases /\ mix'[b].gases = y.gases
  /\ \A h \in Handles \ {a, b} : mix'[h].gases = mix[h].gases

\* The pair of records a command works out is what the two mixtures hold afterwards.
LEMMA PairStep ==
  ASSUME mix \in [Handles -> Records], NEW kind, NEW a \in Handles, NEW b \in Handles, a # b,
         NEW x \in Records, NEW y \in Records,
         x.revision = mix[a].revision, y.revision = mix[b].revision,
         mix[a].immutable => x = mix[a], mix[b].immutable => y = mix[b],
         Commands!ReplacePair(kind, Commands!Pair(a, x, b, y))
  PROVE  CommandStep(kind) /\ GasesOf(a, x, b, y)
<1> DEFINE new == Commands!Pair(a, x, b, y)
<1>1. DOMAIN new = {a, b} /\ new[a] = x /\ new[b] = y
  BY DEF Commands!Pair
<1> HIDE DEF new
<1>2. DOMAIN new \subseteq Handles
  BY <1>1
<1>3. \A h \in DOMAIN new : /\ new[h] \in Records /\ new[h].revision = mix[h].revision
                            /\ mix[h].immutable => new[h] = mix[h]
  BY <1>1
<1>4. Commands!ReplacePair(kind, new)
  BY DEF new
<1>5. /\ CommandStep(kind)
      /\ \A h \in Handles : mix'[h].gases = (IF h \in DOMAIN new THEN new[h] ELSE mix[h]).gases
  BY <1>2, <1>3, <1>4, ReplacePairStep
<1> QED
  BY <1>1, <1>5 DEF GasesOf

\* transfer_ratio_to: a quantized part of one mixture goes to the other.
LEMMA TransferRatioStep ==
  ASSUME mix \in [Handles -> Records], NEW a \in Handles, NEW b \in Handles,
         NEW r, Ratio(r), Commands!TransferRatio(a, b, r)
  PROVE  /\ CommandStep("transfer")
         /\ ~mix[a].immutable /\ ~mix[b].immutable => Moved("transfer", a, b)
<1> DEFINE s == mix[a]
           d == mix[b]
           removed == Commands!Removed(s.gases, r)
           sum == Commands!Plus(d.gases, removed)
           after == Commands!Canonical(sum)
           left == Commands!Minus(s.gases, removed)
           kept == Commands!Canonical(left)
           gained == [g \in Gases |-> Commands!Most(after[g] - d.gases[g], 0)]
           c == Commands!HeatCapacity(d)
           retained == Commands!RawCapacity(gained)
           t == Commands!MeanTemperature(c, d.temperature, retained, s.temperature, d.temperature)
           x == IF s.immutable THEN s ELSE [s EXCEPT !.gases = kept]
           y == IF d.immutable THEN d ELSE Content(d, after, t)
<1>1. /\ s \in Records /\ d \in Records /\ s.gases \in Moles0 /\ d.gases \in Moles0
      /\ s.temperature \in Nat /\ s.temperature >= MinimumTemperature
      /\ d.temperature \in Nat /\ d.temperature >= MinimumTemperature
  BY DEF Records
<1>2. a # b
  BY DEF Commands!TransferRatio
<1>3. Commands!ReplacePair("transfer", Commands!Pair(a, x, b, y))
  <2>1. Commands!ReplacePair("transfer", Commands!Pair(
         a, IF s.immutable THEN s ELSE [s EXCEPT !.gases = Commands!Canonical(Commands!Minus(@, removed))],
         b, IF d.immutable THEN d
            ELSE [d EXCEPT !.gases = after,
                           !.temperature = Commands!MeanTemperature(Commands!HeatCapacity(d), @,
                                             retained, s.temperature, @)]))
    BY DEF Commands!TransferRatio
  <2>2. [s EXCEPT !.gases = Commands!Canonical(Commands!Minus(@, removed))] = [s EXCEPT !.gases = kept]
    BY <1>1 DEF Records
  <2>3. [d EXCEPT !.gases = after,
                  !.temperature = Commands!MeanTemperature(Commands!HeatCapacity(d), @,
                                    retained, s.temperature, @)]
          = Content(d, after, t)
    BY <1>1 DEF Records, Content
  <2> DEFINE p == [s EXCEPT !.gases = Commands!Canonical(Commands!Minus(@, removed))]
             q == [d EXCEPT !.gases = after,
                           !.temperature = Commands!MeanTemperature(Commands!HeatCapacity(d), @,
                                             retained, s.temperature, @)]
  <2>4. Commands!ReplacePair("transfer", Commands!Pair(a, IF s.immutable THEN s ELSE p,
                                     b, IF d.immutable THEN d ELSE q))
    BY <2>1
  <2>5. (IF s.immutable THEN s ELSE p) = x /\ (IF d.immutable THEN d ELSE q) = y
    BY <2>2, <2>3
  <2> HIDE DEF p, q, x, y, s, d
  <2> QED
    BY <2>4, <2>5
<1>4. removed \in Moles0 /\ \A g \in Gases : removed[g] <= s.gases[g]
  BY <1>1, RemovedMoles
<1> HIDE DEF removed
<1>5. \A f \in Moles0 : f \in [Gases -> Nat] /\ \A g \in Gases : f[g] \in Nat /\ f[g] <= FloatMax
  BY CommandConstants DEF Moles0
<1>6. left \in Moles0 /\ \A g \in Gases : left[g] = s.gases[g] - removed[g]
  BY <1>1, <1>4, MinusMoles
<1> HIDE DEF s, d
<1>7. /\ sum \in Moles0
      /\ \A g \in Gases : /\ sum[g] <= d.gases[g] + removed[g]
                          /\ d.gases[g] + removed[g] <= FloatMax => sum[g] = d.gases[g] + removed[g]
  BY <1>1, <1>4, <1>5, PlusMoles
<1> HIDE DEF left, sum
<1>8. /\ after \in Moles0 /\ \A g \in Gases : after[g] <= sum[g] /\ sum[g] - after[g] < MinimumMoles
      /\ kept \in Moles0 /\ \A g \in Gases : kept[g] <= left[g] /\ left[g] - kept[g] < MinimumMoles
  BY <1>6, <1>7, CanonicalMoles
<1> HIDE DEF after, kept
<1>9. gained \in [Gases -> Nat]
  <2>1. ASSUME NEW g \in Gases
        PROVE  Commands!Most(after[g] - d.gases[g], 0) \in Nat
    <3>1. after[g] \in Nat /\ d.gases[g] \in Nat
      BY <1>1, <1>5, <1>8
    <3> QED
      BY <3>1 DEF Commands!Most
  <2> QED
    BY <2>1
<1> HIDE DEF gained
<1>10. t \in Nat /\ t >= MinimumTemperature
  <2>1. c \in Nat /\ retained \in Nat
    BY <1>1, <1>9, RecordsAreDrafts, HeatCapacityNat, CapacityNat
  <2> HIDE DEF c, retained
  <2> QED
    BY <1>1, <2>1, MeanAboveFloor
<1> HIDE DEF t
<1>11. /\ x \in Records /\ x.revision = s.revision /\ (s.immutable => x = s)
       /\ ~s.immutable => x.gases = kept
  BY <1>1, <1>8 DEF Records
<1>12. /\ y \in Records /\ y.revision = d.revision /\ (d.immutable => y = d)
       /\ ~d.immutable => y.gases = after
  <2>1. /\ Content(d, after, t) \in Records /\ Content(d, after, t).revision = d.revision
        /\ Content(d, after, t).gases = after
    BY <1>1, <1>8, <1>10, ContentSet
  <2> QED
    BY <1>1, <2>1
<1> HIDE DEF x, y
<1>13. /\ CommandStep("transfer") /\ mix'[a].gases = x.gases /\ mix'[b].gases = y.gases
       /\ \A h \in Handles \ {a, b} : mix'[h].gases = mix[h].gases
  <2>1. /\ x \in Records /\ x.revision = mix[a].revision /\ (mix[a].immutable => x = mix[a])
        /\ y \in Records /\ y.revision = mix[b].revision /\ (mix[b].immutable => y = mix[b])
    BY <1>11, <1>12 DEF s, d
  <2> HIDE DEF c, retained
  <2>2. Commands!ReplacePair("transfer", Commands!Pair(a, x, b, y))
    BY <1>3
  <2>3. CommandStep("transfer") /\ GasesOf(a, x, b, y)
    BY <1>2, <2>1, <2>2, PairStep
  <2> QED
    BY <2>3 DEF GasesOf
<1>14. ASSUME ~s.immutable, ~d.immutable
       PROVE  Moved("transfer", a, b)
  <2>1. mix'[a].gases = kept /\ mix'[b].gases = after
    BY <1>11, <1>12, <1>13, <1>14
  <2>2. ASSUME NEW g \in Gases, s.gases[g] + d.gases[g] <= FloatMax
        PROVE  /\ kept[g] + after[g] <= s.gases[g] + d.gases[g]
               /\ (s.gases[g] + d.gases[g]) - (kept[g] + after[g])
                    <= 2 * (MinimumMoles + Accuracy)
    <3>1. /\ s.gases[g] \in Nat /\ d.gases[g] \in Nat /\ removed[g] \in Nat /\ left[g] \in Nat
          /\ kept[g] \in Nat /\ after[g] \in Nat /\ sum[g] \in Nat
      BY <1>1, <1>4, <1>5, <1>6, <1>7, <1>8
    <3>2. d.gases[g] + removed[g] <= FloatMax
      BY <1>4, <2>2, <3>1, CommandConstants
    <3>3. /\ left[g] = s.gases[g] - removed[g] /\ sum[g] = d.gases[g] + removed[g]
          /\ after[g] <= sum[g] /\ sum[g] - after[g] < MinimumMoles
          /\ kept[g] <= left[g] /\ left[g] - kept[g] < MinimumMoles
      BY <1>6, <1>7, <1>8, <3>2
    <3> QED
      BY <3>1, <3>3, CommandConstants
  <2> QED
    BY <1>2, <1>13, <2>1, <2>2 DEF Moved, s, d
<1> QED
  BY <1>13, <1>14 DEF s, d

\* TemperatureShare: heat flows between two mixtures, no gas does.
LEMMA TemperatureShareStep ==
  ASSUME mix \in [Handles -> Records], NEW a \in Handles, NEW b \in Handles,
         NEW r, Ratio(r), Commands!TemperatureShare(a, b, r)
  PROVE  CommandStep("heat")
<1> DEFINE x == mix[a]
           y == mix[b]
           cx == Commands!HeatCapacity(x)
           cy == Commands!HeatCapacity(y)
           heat == (r[1] * (x.temperature - y.temperature) * cx * cy) \div (r[2] * (cx + cy))
           dx == -(heat \div cx)
           dy == heat \div cy
           moved(m, e) == IF m.immutable THEN m ELSE [m EXCEPT !.temperature = Commands!Floor(m.temperature + e)]
<1>1. /\ x \in Records /\ y \in Records /\ x.temperature \in Nat /\ y.temperature \in Nat
  BY DEF Records
<1>2. cx \in Nat /\ cy \in Nat
  BY <1>1, RecordsAreDrafts, HeatCapacityNat
<1>3. a # b /\ cx > 0 /\ cy > 0
  BY DEF Commands!TemperatureShare
<1>4. Commands!ReplacePair("heat", Commands!Pair(a, moved(x, dx), b, moved(y, dy)))
  <2> DEFINE moving(m, e) == IF m.immutable THEN m ELSE [m EXCEPT !.temperature = Commands!Floor(@ + e)]
  <2>1. Commands!ReplacePair("heat", Commands!Pair(a, moving(x, dx), b, moving(y, dy)))
    BY DEF Commands!TemperatureShare
  <2>2. moving(x, dx) = moved(x, dx) /\ moving(y, dy) = moved(y, dy)
    BY <1>1 DEF Records
  <2> HIDE DEF moving, moved, x, y, dx, dy
  <2> QED
    BY <2>1, <2>2
<1>5. dx \in Int /\ dy \in Int
  <2>1. heat \in Int
    <3>1. r[1] \in Int /\ r[2] \in Nat \ {0}
      BY DEF Ratio
    <3>2. r[2] * (cx + cy) \in Nat \ {0}
      <4> HIDE DEF cx, cy
      <4>1. cx + cy \in Nat \ {0}
        BY <1>2, <1>3
      <4>2. \A m, n \in Nat \ {0} : m * n \in Nat \ {0}
        BY SMTT(30)
      <4> QED
        BY <3>1, <4>1, <4>2
    <3>3. r[1] * (x.temperature - y.temperature) * cx * cy \in Int
      <4> HIDE DEF cx, cy
      <4> QED
        BY <1>1, <1>2, <3>1
    <3> DEFINE n == r[1] * (x.temperature - y.temperature) * cx * cy
               k == r[2] * (cx + cy)
    <3>4. n \in Int /\ k \in Nat \ {0}
      BY <3>2, <3>3
    <3>5. heat = n \div k
      OBVIOUS
    <3> HIDE DEF n, k, heat
    <3> QED
      BY <3>4, <3>5, DivisionBounds
  <2> HIDE DEF heat, cx, cy
  <2>2. heat \div cx \in Int /\ heat \div cy \in Int
    BY <1>2, <1>3, <2>1, DivisionBounds
  <2> QED
    BY <2>2
<1> HIDE DEF dx, dy
<1>6. \A m \in Records : \A e \in Int :
        moved(m, e) \in Records /\ moved(m, e).revision = m.revision
        /\ (m.immutable => moved(m, e) = m)
  <2> SUFFICES ASSUME NEW m \in Records, NEW e \in Int
               PROVE  moved(m, e) \in Records /\ moved(m, e).revision = m.revision
                      /\ (m.immutable => moved(m, e) = m)
    OBVIOUS
  <2>1. m.temperature + e \in Int
    BY DEF Records
  <2>2. Commands!Floor(m.temperature + e) \in Nat /\ Commands!Floor(m.temperature + e) >= MinimumTemperature
    BY <2>1, FloorAbove
  <2> QED
    BY <2>2, FieldsSet
<1> HIDE DEF moved
<1> QED
  BY <1>1, <1>3, <1>4, <1>5, <1>6, PairStep

\* Scaling drops moles of MOLAR_ACCURACY and less, and nothing above a half is left of a half.
LEMMA ScaledDraft ==
  ASSUME NEW m \in Drafts, NEW r, Ratio(r)
  PROVE  /\ Commands!ScaledRecord(m, r) \in Drafts
         /\ \A g \in Gases : Commands!ScaledRecord(m, r).gases[g] <= m.gases[g]
<1> DEFINE y == [g \in Gases |-> IF Commands!Scaled(m.gases, r)[g] <= Accuracy THEN 0 ELSE Commands!Scaled(m.gases, r)[g]]
<1>1. m.gases \in [Gases -> Nat]
  BY DEF Drafts
<1>2. ASSUME NEW g \in Gases
      PROVE  y[g] \in Nat /\ y[g] <= m.gases[g]
  <2>1. m.gases[g] \in Nat /\ Commands!Part(m.gases[g], r) \in 0 .. m.gases[g]
    BY <1>1, PartOf
  <2> DEFINE p == Commands!Part(m.gases[g], r)
             n == m.gases[g]
  <2>2. y[g] = IF Commands!Least(p, FloatMax) <= Accuracy THEN 0 ELSE Commands!Least(p, FloatMax)
    BY DEF Commands!Scaled, Commands!Saturated
  <2> HIDE DEF p, y
  <2>3. p \in Nat /\ p <= n /\ n \in Nat
    BY <2>1 DEF p
  <2> HIDE DEF n
  <2>4. y[g] \in Nat /\ y[g] <= n
    BY <2>2, <2>3, CommandConstants DEF Commands!Least
  <2> QED
    BY <2>4 DEF n
<1>3. y \in [Gases -> Nat]
  <2>1. y = [g \in Gases |-> y[g]]
    OBVIOUS
  <2> HIDE DEF y
  <2> QED
    BY <1>2, <2>1
<1>4. Commands!ScaledRecord(m, r) = [m EXCEPT !.gases = y]
  <2>1. Commands!ScaledRecord(m, r)
          = [m EXCEPT !.gases = [g \in Gases |-> IF Commands!Scaled(@, r)[g] <= Accuracy THEN 0
                                                 ELSE Commands!Scaled(@, r)[g]]]
    BY DEF Commands!ScaledRecord
  <2> QED
    BY <2>1 DEF Drafts
<1> HIDE DEF y
<1> QED
  BY <1>2, <1>3, <1>4 DEF Drafts

\* A half of what there is, rounded, is less than it by no more than the accuracy.
LEMMA HalvedDraft ==
  ASSUME NEW m \in Records
  PROVE  /\ Commands!ScaledRecord(m, <<1, 2>>) \in Drafts
         /\ \A g \in Gases :
               LET half == Commands!ScaledRecord(m, <<1, 2>>).gases[g]
               IN  2 * half <= m.gases[g] /\ m.gases[g] <= 2 * half + 2 * Accuracy + 1
<1> DEFINE r == <<1, 2>>
           y == [g \in Gases |-> IF Commands!Scaled(m.gases, r)[g] <= Accuracy THEN 0 ELSE Commands!Scaled(m.gases, r)[g]]
<1>1. m \in Drafts /\ m.gases \in Moles0
  BY RecordsAreDrafts DEF Records
<1>2. Ratio(r) /\ r[1] = 1 /\ r[2] = 2
  BY DEF Ratio
<1> HIDE DEF r
<1>3. Commands!ScaledRecord(m, r) \in Drafts
  BY <1>1, <1>2, ScaledDraft
<1>4. Commands!ScaledRecord(m, r).gases = y
  <2>1. Commands!ScaledRecord(m, r)
          = [m EXCEPT !.gases = [g \in Gases |-> IF Commands!Scaled(@, r)[g] <= Accuracy THEN 0
                                                 ELSE Commands!Scaled(@, r)[g]]]
    BY DEF Commands!ScaledRecord
  <2> QED
    BY <1>1, <2>1 DEF Drafts
<1>5. ASSUME NEW g \in Gases
      PROVE  2 * y[g] <= m.gases[g] /\ m.gases[g] <= 2 * y[g] + 2 * Accuracy + 1
  <2> DEFINE n == m.gases[g]
             p == Commands!Part(n, r)
  <2>1. n \in Nat /\ n <= FloatMax
    BY <1>1, CommandConstants DEF Moles0
  <2>2. p = n \div 2
    BY <1>2, <2>1 DEF Commands!Part
  <2>3. y[g] = IF Commands!Least(p, FloatMax) <= Accuracy THEN 0 ELSE Commands!Least(p, FloatMax)
    BY DEF Commands!Scaled, Commands!Saturated
  <2> HIDE DEF y, p, n
  <2>4. p \in Nat /\ 2 * p <= n /\ n <= 2 * p + 1
    BY <2>1, <2>2
  <2>5. 2 * y[g] <= n /\ n <= 2 * y[g] + 2 * Accuracy + 1
    BY <2>1, <2>3, <2>4, CommandConstants DEF Commands!Least
  <2> QED
    BY <2>5 DEF n
<1> HIDE DEF y
<1> QED
  BY <1>3, <1>4, <1>5 DEF r

\* An empty mixture, and one with any gas and temperature.
LEMMA NewDraft ==
  /\ Commands!NewRecord.gases = [g \in Gases |-> 0] /\ Commands!NewRecord \in Drafts
  /\ \A y \in [Gases -> Nat] : \A t \in Nat : t >= MinimumTemperature =>
       /\ [Commands!NewRecord EXCEPT !.gases = y, !.temperature = t] \in Drafts
       /\ [Commands!NewRecord EXCEPT !.gases = y, !.temperature = t].gases = y
<1> DEFINE zero == [g \in Gases |-> 0]
<1>1. Commands!NewRecord = [gases |-> zero, temperature |-> MinimumTemperature, volume |-> 1,
                   minimum |-> 0, immutable |-> FALSE, revision |-> 0]
  BY DEF Commands!NewRecord
<1>2. zero \in [Gases -> Nat] /\ MinimumTemperature \in Nat /\ 0 \in 0 .. RevisionMax
  BY CommandConstants
<1> HIDE DEF zero
<1>3. Commands!NewRecord.gases = zero /\ Commands!NewRecord \in Drafts
  BY <1>1, <1>2 DEF Drafts
<1>4. ASSUME NEW y \in [Gases -> Nat], NEW t \in Nat, t >= MinimumTemperature
      PROVE  /\ [Commands!NewRecord EXCEPT !.gases = y, !.temperature = t] \in Drafts
             /\ [Commands!NewRecord EXCEPT !.gases = y, !.temperature = t].gases = y
  BY <1>1, <1>2, <1>4 DEF Drafts
<1> QED
  BY <1>3, <1>4 DEF zero

\* remove_ratio_into_record: what is taken out, and what stays.
LEMMA TakenDraft ==
  ASSUME NEW m \in Records, NEW r, Ratio(r)
  PROVE  /\ Commands!TakenOut(m, r) \in Drafts
         /\ Commands!LeftOver(m, r) \in Records /\ Commands!LeftOver(m, r).revision = m.revision
         /\ ~m.immutable =>
              \A g \in Gases : Commands!LeftOver(m, r).gases[g] + Commands!TakenOut(m, r).gases[g] = m.gases[g]
<1> DEFINE removed == Commands!Removed(m.gases, r)
           left == Commands!Minus(m.gases, removed)
           zero == [g \in Gases |-> 0]
           all == [g \in Gases |-> Commands!Quantized(Commands!Part(m.gases[g], r))]
           x == IF m.immutable THEN all ELSE removed
<1>1. /\ m.gases \in Moles0 /\ m.temperature \in Nat /\ m.temperature >= MinimumTemperature
  BY DEF Records
<1>2. \A f \in Moles0 : f \in [Gases -> Nat] /\ \A g \in Gases : f[g] \in Nat /\ f[g] <= FloatMax
  BY CommandConstants DEF Moles0
<1>3. removed \in Moles0
      /\ \A g \in Gases : removed[g] <= m.gases[g] /\ (r[1] = 0 => removed[g] = 0)
  BY <1>1, RemovedMoles
<1>4. all \in [Gases -> Nat]
  <2>1. ASSUME NEW g \in Gases
        PROVE  Commands!Quantized(Commands!Part(m.gases[g], r)) \in Nat
    <3>1. m.gases[g] \in Nat
      BY <1>1, <1>2
    <3>2. Commands!Part(m.gases[g], r) \in Nat
      BY <3>1, PartOf
    <3> QED
      BY <3>2, QuantizedNat
  <2> QED
    BY <2>1
<1> HIDE DEF removed, all
<1>5. left \in Moles0 /\ \A g \in Gases : left[g] = m.gases[g] - removed[g]
  BY <1>1, <1>3, MinusMoles
<1> HIDE DEF left
<1>6. x \in [Gases -> Nat]
  BY <1>2, <1>3, <1>4
<1>7. /\ Commands!NewRecord.gases = zero /\ Commands!NewRecord \in Drafts
      /\ \A y \in [Gases -> Nat] : \A t \in Nat : t >= MinimumTemperature =>
           /\ [Commands!NewRecord EXCEPT !.gases = y, !.temperature = t] \in Drafts
           /\ [Commands!NewRecord EXCEPT !.gases = y, !.temperature = t].gases = y
  BY NewDraft
<1>8. Commands!TakenOut(m, r) = IF r[1] = 0 THEN Commands!NewRecord
                       ELSE [Commands!NewRecord EXCEPT !.gases = x, !.temperature = m.temperature]
  BY DEF Commands!TakenOut, removed, all
<1> HIDE DEF x
<1>9. /\ Commands!TakenOut(m, r) \in Drafts
      /\ Commands!TakenOut(m, r).gases = IF r[1] = 0 THEN zero ELSE x
  <2>1. CASE r[1] = 0
    BY <1>7, <1>8, <2>1
  <2>2. CASE r[1] # 0
    <3>1. Commands!TakenOut(m, r) = [Commands!NewRecord EXCEPT !.gases = x, !.temperature = m.temperature]
      BY <1>8, <2>2
    <3>2. /\ [Commands!NewRecord EXCEPT !.gases = x, !.temperature = m.temperature] \in Drafts
          /\ [Commands!NewRecord EXCEPT !.gases = x, !.temperature = m.temperature].gases = x
      BY <1>1, <1>6, <1>7
    <3> QED
      BY <2>2, <3>1, <3>2
  <2> QED
    BY <2>1, <2>2
<1>10. /\ ~m.immutable => Commands!LeftOver(m, r) = [m EXCEPT !.gases = left]
       /\ m.immutable => Commands!LeftOver(m, r) = m
  <2>1. Commands!LeftOver(m, r) = IF m.immutable THEN m ELSE [m EXCEPT !.gases = Commands!Minus(@, Commands!Removed(@, r))]
    BY DEF Commands!LeftOver
  <2>2. [m EXCEPT !.gases = Commands!Minus(@, Commands!Removed(@, r))] = [m EXCEPT !.gases = left]
    BY DEF Records, left, removed
  <2> DEFINE p == [m EXCEPT !.gases = Commands!Minus(@, Commands!Removed(@, r))]
  <2>3. Commands!LeftOver(m, r) = IF m.immutable THEN m ELSE p
    BY <2>1
  <2> HIDE DEF p
  <2> QED
    BY <2>2, <2>3 DEF p
<1>11. /\ [m EXCEPT !.gases = left] \in Records /\ [m EXCEPT !.gases = left].revision = m.revision
       /\ [m EXCEPT !.gases = left].gases = left
  BY <1>5 DEF Records
<1>12. Commands!LeftOver(m, r) \in Records /\ Commands!LeftOver(m, r).revision = m.revision
  BY <1>10, <1>11
<1>13. ASSUME ~m.immutable, NEW g \in Gases
       PROVE  Commands!LeftOver(m, r).gases[g] + Commands!TakenOut(m, r).gases[g] = m.gases[g]
  <2>1. Commands!LeftOver(m, r).gases[g] = m.gases[g] - removed[g]
    BY <1>5, <1>10, <1>11, <1>13
  <2>2. Commands!TakenOut(m, r).gases[g] = removed[g]
    <3>1. x = removed
      BY <1>13 DEF x
    <3> QED
      BY <1>3, <1>9, <3>1
  <2>3. removed[g] \in Nat /\ m.gases[g] \in Nat
    BY <1>1, <1>2, <1>3
  <2> QED
    BY <2>1, <2>2, <2>3
<1> QED
  BY <1>9, <1>12, <1>13

\* What a mixture that shares keeps: what stayed of it and its half of the pool.
Mixing(m, r, between) ==
  IF m.immutable THEN m
  ELSE LET n == Commands!Merged(Commands!LeftOver(m, r), between)
       IN  [n EXCEPT !.gases = Commands!Canonical(@)]

\* What a mixture that shares keeps is a record: what it had left and its part of the pool.
LEMMA MixingRecord ==
  ASSUME NEW m \in Records, NEW r, Ratio(r), NEW between \in Drafts
  PROVE  /\ Mixing(m, r, between) \in Records /\ Mixing(m, r, between).revision = m.revision
         /\ m.immutable => Mixing(m, r, between) = m
         /\ ~m.immutable => Mixing(m, r, between).gases
                              = Commands!Canonical(Commands!Plus(Commands!LeftOver(m, r).gases, between.gases))
<1> DEFINE left == Commands!LeftOver(m, r)
           n == Commands!Merged(left, between)
<1>1. left \in Records /\ left.revision = m.revision
  BY TakenDraft
<1>2. left \in Drafts
  BY <1>1, RecordsAreDrafts
<1>3. n \in Records /\ n.revision = m.revision /\ n.gases = Commands!Plus(left.gases, between.gases)
  BY <1>1, <1>2, MergedRecord
<1>4. Mixing(m, r, between) = IF m.immutable THEN m ELSE [n EXCEPT !.gases = Commands!Canonical(@)]
  BY DEF Mixing
<1> HIDE DEF n, left
<1>5. n.gases \in Moles0 /\ Commands!Canonical(n.gases) \in Moles0
  <2>1. n.gases \in Moles0
    BY <1>3 DEF Records
  <2> QED
    BY <2>1, CanonicalMoles
<1>6. [n EXCEPT !.gases = Commands!Canonical(@)] = [n EXCEPT !.gases = Commands!Canonical(n.gases)]
  BY <1>3 DEF Records
<1>7. /\ [n EXCEPT !.gases = Commands!Canonical(n.gases)] \in Records
      /\ [n EXCEPT !.gases = Commands!Canonical(n.gases)].revision = n.revision
      /\ [n EXCEPT !.gases = Commands!Canonical(n.gases)].gases = Commands!Canonical(n.gases)
  BY <1>3, <1>5 DEF Records
<1>8. CASE m.immutable
  <2>1. Mixing(m, r, between) = m
    BY <1>4, <1>8
  <2> QED
    BY <1>8, <2>1
<1>9. CASE ~m.immutable
  <2>1. Mixing(m, r, between) = [n EXCEPT !.gases = Commands!Canonical(n.gases)]
    BY <1>4, <1>6, <1>9
  <2> QED
    BY <1>3, <1>7, <1>9, <2>1 DEF left
<1> QED
  BY <1>8, <1>9

\* share_ratio: both mixtures give a part to a pool and take half of it back; one-way,
\* the second only shows what it holds.
LEMMA ShareRatioStep ==
  ASSUME mix \in [Handles -> Records], NEW a \in Handles, NEW b \in Handles,
         NEW r, Ratio(r), NEW oneWay \in BOOLEAN, Commands!ShareRatio(a, b, r, oneWay)
  PROVE  \/ oneWay /\ CommandStep("add")
         \/ /\ ~oneWay /\ CommandStep("transfer")
            /\ ~mix[a].immutable /\ ~mix[b].immutable => Moved("transfer", a, b)
<1> DEFINE s == mix[a]
           d == mix[b]
           copy == [Commands!NewRecord EXCEPT !.gases = d.gases, !.temperature = d.temperature]
           pool == IF oneWay THEN Commands!Merged(Commands!ScaledRecord(copy, r), Commands!TakenOut(s, r))
                   ELSE Commands!Merged(Commands!TakenOut(s, r), Commands!TakenOut(d, r))
           between == Commands!ScaledRecord(pool, <<1, 2>>)
           x == Mixing(s, r, between)
           y == IF oneWay THEN d ELSE Mixing(d, r, between)
           kind == IF oneWay THEN "add" ELSE "transfer"
<1>1. s \in Records /\ d \in Records
  OBVIOUS
<1>2. a # b /\ Commands!ReplacePair(kind, Commands!Pair(a, x, b, y))
  <2> DEFINE mixed(m) == IF m.immutable THEN m
                         ELSE LET n == Commands!Merged(Commands!LeftOver(m, r), between)
                              IN  [n EXCEPT !.gases = Commands!Canonical(@)]
             new == Commands!Shared(s, d, r, oneWay)
  <2>1. new = <<mixed(s), IF oneWay THEN d ELSE mixed(d)>>
    BY DEF Commands!Shared
  <2>2. mixed(s) = x /\ mixed(d) = Mixing(d, r, between)
    BY DEF Mixing
  <2>3. a # b /\ Commands!ReplacePair(kind, Commands!Pair(a, new[1], b, new[2]))
    BY DEF Commands!ShareRatio
  <2> HIDE DEF new, mixed, x, between
  <2>4. new[1] = x /\ new[2] = y
    BY <2>1, <2>2
  <2> HIDE DEF y, kind
  <2> QED
    BY <2>3, <2>4
<1> HIDE DEF s, d
<1>3. Commands!TakenOut(s, r) \in Drafts /\ Commands!TakenOut(d, r) \in Drafts
  BY <1>1, TakenDraft
<1>4. copy \in Drafts
  <2>1. /\ d.gases \in [Gases -> Nat] /\ d.temperature \in Nat
        /\ d.temperature >= MinimumTemperature
    BY <1>1, CommandConstants DEF Records, Moles0
  <2> QED
    BY <2>1, NewDraft
<1> HIDE DEF copy
<1>5. Commands!ScaledRecord(copy, r) \in Drafts
  BY <1>4, ScaledDraft
<1>6. /\ pool \in Records
      /\ ~oneWay => pool.gases = Commands!Plus(Commands!TakenOut(s, r).gases, Commands!TakenOut(d, r).gases)
  <2>1. CASE oneWay
    BY <1>3, <1>5, <2>1, MergedRecord
  <2>2. CASE ~oneWay
    <3>1. pool = Commands!Merged(Commands!TakenOut(s, r), Commands!TakenOut(d, r))
      BY <2>2
    <3> QED
      BY <1>3, <3>1, MergedRecord
  <2> QED
    BY <2>1, <2>2
<1> HIDE DEF pool
<1>7. /\ between \in Drafts
      /\ \A g \in Gases : /\ 2 * between.gases[g] <= pool.gases[g]
                          /\ pool.gases[g] <= 2 * between.gases[g] + 2 * Accuracy + 1
  BY <1>6, HalvedDraft
<1> HIDE DEF between
<1>8. /\ x \in Records /\ x.revision = s.revision /\ (s.immutable => x = s)
      /\ ~s.immutable => x.gases = Commands!Canonical(Commands!Plus(Commands!LeftOver(s, r).gases, between.gases))
  BY <1>1, <1>7, MixingRecord
<1>9. /\ y \in Records /\ y.revision = d.revision /\ (d.immutable => y = d)
      /\ ~oneWay /\ ~d.immutable => y.gases = Commands!Canonical(Commands!Plus(Commands!LeftOver(d, r).gases, between.gases))
  <2>1. CASE oneWay
    BY <1>1, <2>1
  <2>2. CASE ~oneWay
    <3>1. y = Mixing(d, r, between)
      BY <2>2
    <3> HIDE DEF y
    <3> QED
      BY <1>1, <1>7, <3>1, MixingRecord
  <2> QED
    BY <2>1, <2>2
<1> HIDE DEF x, y
<1>10. CommandStep(kind) /\ GasesOf(a, x, b, y)
  <2>1. /\ x \in Records /\ x.revision = mix[a].revision /\ (mix[a].immutable => x = mix[a])
        /\ y \in Records /\ y.revision = mix[b].revision /\ (mix[b].immutable => y = mix[b])
    BY <1>8, <1>9 DEF s, d
  <2> HIDE DEF kind
  <2> QED
    BY <1>2, <2>1, PairStep
<1>11. oneWay => CommandStep("add")
  <2>1. oneWay => kind = "add"
    OBVIOUS
  <2> HIDE DEF kind
  <2> QED
    BY <1>10, <2>1
<1>12. ~oneWay => CommandStep("transfer")
  <2>1. ~oneWay => kind = "transfer"
    OBVIOUS
  <2> HIDE DEF kind
  <2> QED
    BY <1>10, <2>1
<1>13. ASSUME ~oneWay, ~s.immutable, ~d.immutable
       PROVE  Moved("transfer", a, b)
  <2> DEFINE ls == Commands!LeftOver(s, r).gases
             ld == Commands!LeftOver(d, r).gases
             ts == Commands!TakenOut(s, r).gases
             td == Commands!TakenOut(d, r).gases
             e == between.gases
             ps == Commands!Plus(ls, e)
             pd == Commands!Plus(ld, e)
             p == pool.gases
  <2>1. /\ ls \in [Gases -> Nat] /\ ld \in [Gases -> Nat]
        /\ ts \in [Gases -> Nat] /\ td \in [Gases -> Nat] /\ e \in [Gases -> Nat]
    <3>1. Commands!LeftOver(s, r) \in Drafts /\ Commands!LeftOver(d, r) \in Drafts
      BY <1>1, TakenDraft, RecordsAreDrafts
    <3> QED
      BY <1>3, <1>7, <3>1 DEF Drafts
  <2>2. \A g \in Gases : ls[g] + ts[g] = s.gases[g] /\ ld[g] + td[g] = d.gases[g]
    BY <1>1, <1>13, TakenDraft
  <2>3. /\ x.gases = Commands!Canonical(ps) /\ y.gases = Commands!Canonical(pd) /\ p = Commands!Plus(ts, td)
    BY <1>6, <1>8, <1>9, <1>13
  <2>4. \A g \in Gases : 2 * e[g] <= p[g] /\ p[g] <= 2 * e[g] + 2 * Accuracy + 1
    BY <1>7
  <2>5. mix'[a].gases = x.gases /\ mix'[b].gases = y.gases
        /\ \A h \in Handles \ {a, b} : mix'[h].gases = mix[h].gases
    BY <1>10 DEF GasesOf
  <2> HIDE DEF ls, ld, ts, td, e, p
  <2>6. /\ ps \in Moles0 /\ pd \in Moles0 /\ p \in Moles0
        /\ \A g \in Gases :
              /\ ps[g] <= ls[g] + e[g] /\ (ls[g] + e[g] <= FloatMax => ps[g] = ls[g] + e[g])
              /\ pd[g] <= ld[g] + e[g] /\ (ld[g] + e[g] <= FloatMax => pd[g] = ld[g] + e[g])
              /\ p[g] <= ts[g] + td[g] /\ (ts[g] + td[g] <= FloatMax => p[g] = ts[g] + td[g])
    <3>1. /\ ps \in Moles0
          /\ \A g \in Gases : /\ ps[g] <= ls[g] + e[g]
                              /\ ls[g] + e[g] <= FloatMax => ps[g] = ls[g] + e[g]
      BY <2>1, PlusMoles
    <3>2. /\ pd \in Moles0
          /\ \A g \in Gases : /\ pd[g] <= ld[g] + e[g]
                              /\ ld[g] + e[g] <= FloatMax => pd[g] = ld[g] + e[g]
      BY <2>1, PlusMoles
    <3>3. /\ p \in Moles0
          /\ \A g \in Gases : /\ p[g] <= ts[g] + td[g]
                              /\ ts[g] + td[g] <= FloatMax => p[g] = ts[g] + td[g]
      BY <2>1, <2>3, PlusMoles
    <3> HIDE DEF ps, pd
    <3> QED
      BY <3>1, <3>2, <3>3
  <2> HIDE DEF ps, pd
  <2>7. \A g \in Gases : /\ x.gases[g] <= ps[g] /\ ps[g] - x.gases[g] < MinimumMoles
                         /\ y.gases[g] <= pd[g] /\ pd[g] - y.gases[g] < MinimumMoles
    BY <2>3, <2>6, CanonicalMoles
  <2>8. ASSUME NEW g \in Gases, s.gases[g] + d.gases[g] <= FloatMax
        PROVE  /\ x.gases[g] + y.gases[g] <= s.gases[g] + d.gases[g]
               /\ (s.gases[g] + d.gases[g]) - (x.gases[g] + y.gases[g])
                    <= 2 * (MinimumMoles + Accuracy)
    <3>1. /\ ls[g] \in Nat /\ ld[g] \in Nat /\ ts[g] \in Nat /\ td[g] \in Nat /\ e[g] \in Nat
      BY <2>1
    <3>2. /\ ps[g] \in Nat /\ pd[g] \in Nat /\ p[g] \in Nat
          /\ x.gases[g] \in Nat /\ y.gases[g] \in Nat
      BY <1>8, <1>9, <2>6, CommandConstants DEF Moles0, Records
    <3> DEFINE sg == s.gases[g]
               dg == d.gases[g]
               xg == x.gases[g]
               yg == y.gases[g]
    <3>3. sg = ls[g] + ts[g] /\ dg = ld[g] + td[g] /\ sg + dg <= FloatMax
      BY <2>2, <2>8
    <3>4. ts[g] + td[g] <= FloatMax
      BY <3>1, <3>3, CommandConstants
    <3>5. p[g] = ts[g] + td[g]
      BY <2>6, <3>4
    <3>6. ls[g] + e[g] <= FloatMax /\ ld[g] + e[g] <= FloatMax
      BY <2>4, <3>1, <3>3, <3>5, CommandConstants
    <3>7. ps[g] = ls[g] + e[g] /\ pd[g] = ld[g] + e[g]
      BY <2>6, <3>6
    <3>8. /\ xg <= ps[g] /\ ps[g] - xg < MinimumMoles /\ yg <= pd[g] /\ pd[g] - yg < MinimumMoles
          /\ 2 * e[g] <= p[g] /\ p[g] <= 2 * e[g] + 2 * Accuracy + 1
          /\ xg \in Nat /\ yg \in Nat
      BY <2>4, <2>7, <3>2
    <3> HIDE DEF sg, dg, xg, yg
    <3>9. xg + yg <= sg + dg /\ (sg + dg) - (xg + yg) <= 2 * (MinimumMoles + Accuracy)
      BY <3>1, <3>2, <3>3, <3>5, <3>7, <3>8, CommandConstants
    <3> QED
      BY <3>9 DEF sg, dg, xg, yg
  <2> QED
    BY <1>2, <2>5, <2>8 DEF Moved, s, d
<1> QED
  BY <1>11, <1>12, <1>13 DEF s, d

\* Functions that agree outside a part differ by what they differ there.
LEMMA SumWithin ==
  ASSUME NEW S, IsFiniteSet(S), NEW T \in SUBSET S, NEW f, NEW h,
         \A x \in S : f[x] \in Int /\ h[x] \in Int, \A x \in S \ T : h[x] = f[x]
  PROVE  /\ SumFunctionOnSet(h, S) - SumFunctionOnSet(f, S)
              = SumFunctionOnSet(h, T) - SumFunctionOnSet(f, T)
         /\ SumFunctionOnSet(h, S) \in Int /\ SumFunctionOnSet(f, S) \in Int
         /\ SumFunctionOnSet(h, T) \in Int /\ SumFunctionOnSet(f, T) \in Int
<1> DEFINE d == [x \in S |-> h[x] - f[x]]
<1>1. \A x \in S : f[x] \in Int /\ d[x] \in Int /\ h[x] = f[x] + d[x]
  OBVIOUS
<1>2. \A x \in S \ T : d[x] = 0
  OBVIOUS
<1> HIDE DEF d
<1>3. IsFiniteSet(T) /\ \A x \in T : f[x] \in Int /\ d[x] \in Int /\ h[x] = f[x] + d[x]
  BY <1>1, FS_Subset
<1>4. SumFunctionOnSet(h, S) = SumFunctionOnSet(f, S) + SumFunctionOnSet(d, S)
  BY <1>1, SumPlus
<1>5. SumFunctionOnSet(h, T) = SumFunctionOnSet(f, T) + SumFunctionOnSet(d, T)
  BY <1>3, SumPlus
<1>6. SumFunctionOnSet(d, S) = SumFunctionOnSet(d, T)
  BY <1>1, <1>2, SumTrims
<1>7. T \in SUBSET S /\ S \in SUBSET S
  OBVIOUS
<1>8. /\ SumFunctionOnSet(f, S) \in Int /\ SumFunctionOnSet(f, T) \in Int
  BY <1>1, <1>7, SumTakes
<1>9. /\ SumFunctionOnSet(d, S) \in Int /\ SumFunctionOnSet(d, T) \in Int
  BY <1>1, <1>7, SumTakes
<1> QED
  BY <1>4, <1>5, <1>6, <1>8, <1>9

\* A constant adds up to as many times itself.
LEMMA SumConstant ==
  ASSUME NEW S, IsFiniteSet(S), NEW k \in Int, NEW f, \A x \in S : f[x] = k
  PROVE  SumFunctionOnSet(f, S) = k * Cardinality(S)
<1> DEFINE one == [x \in S |-> 1]
<1>1. SumFunctionOnSet(one, S) = Cardinality(S)
  <2>1. \A x \in S : one[x] = 1
    OBVIOUS
  <2> HIDE DEF one
  <2> QED
    BY <2>1, SumOnes
<1>2. \A x \in S : one[x] \in Int /\ f[x] = k * one[x]
  OBVIOUS
<1> HIDE DEF one
<1> QED
  BY <1>1, <1>2, SumTimes

\* A share by volume: what n shares of v in V come to.
LEMMA Share ==
  ASSUME NEW n \in Nat, NEW v \in Nat, NEW V \in Nat \ {0}, v <= V
  PROVE  /\ (n * v) \div V \in Nat /\ (n * v) \div V <= n
         /\ V * ((n * v) \div V) <= n * v
         /\ n * v < V * ((n * v) \div V) + V
<1>1. n * v \in Nat /\ n * v <= V * n
  <2>1. n * v \in Nat /\ n * v <= n * V
    BY ProductsGrow
  <2> QED
    BY <2>1
<1>2. (n * v) \div V <= n
  BY <1>1, DivisionAtMost
<1> QED
  BY <1>1, <1>2, DivisionBounds

\* Shares of a total, each short of a trace, add up to the total but for the traces.
LEMMA SharesAddUp ==
  ASSUME NEW S, IsFiniteSet(S), NEW v, NEW x, NEW n \in Nat,
         \A h \in S : v[h] \in Nat /\ x[h] \in Nat,
         SumFunctionOnSet(v, S) # 0,
         \A h \in S : /\ x[h] <= (n * v[h]) \div SumFunctionOnSet(v, S)
                      /\ (n * v[h]) \div SumFunctionOnSet(v, S) - x[h] < MinimumMoles
  PROVE  /\ SumFunctionOnSet(x, S) <= n
         /\ n - SumFunctionOnSet(x, S) <= Cardinality(S) * MinimumMoles
<1> DEFINE V == SumFunctionOnSet(v, S)
           X == SumFunctionOnSet(x, S)
           C == Cardinality(S)
           vx == [h \in S |-> V * x[h]]
           nv == [h \in S |-> n * v[h]]
           most == [h \in S |-> V * MinimumMoles]
           sum == [h \in S |-> vx[h] + most[h]]
<1>1. V \in Nat /\ V # 0 /\ \A h \in S : v[h] <= V
  BY SumNat
<1>2. X \in Nat /\ C \in Nat
  BY SumNat, FS_CardinalityType
<1> HIDE DEF V, X
<1>3. ASSUME NEW h \in S
      PROVE  V * x[h] <= n * v[h] /\ n * v[h] <= V * x[h] + V * MinimumMoles
             /\ V * x[h] \in Int /\ n * v[h] \in Int /\ V * MinimumMoles \in Int
  <2> DEFINE q == (n * v[h]) \div V
  <2>1. /\ q \in Nat /\ V * q <= n * v[h] /\ n * v[h] < V * q + V
    BY <1>1, Share
  <2>2. x[h] <= q /\ q - x[h] < MinimumMoles /\ x[h] \in Nat /\ v[h] \in Nat
    BY DEF V
  <2> HIDE DEF q
  <2>3. V * x[h] <= V * q /\ V * x[h] \in Nat /\ V * q \in Nat
    BY <1>1, <2>1, <2>2, ProductsGrow
  <2>4. V * (q + 1) <= V * (x[h] + MinimumMoles)
    <3>1. q + 1 \in Nat /\ x[h] + MinimumMoles \in Nat /\ q + 1 <= x[h] + MinimumMoles
      BY <2>1, <2>2, CommandConstants
    <3> QED
      BY <1>1, <3>1, ProductsGrow
  <2>5. V * (q + 1) = V * q + V /\ V * (x[h] + MinimumMoles) = V * x[h] + V * MinimumMoles
    BY <1>1, <2>1, <2>2, CommandConstants
  <2>6. n * v[h] \in Nat /\ V * MinimumMoles \in Nat
    BY <1>1, <2>2, CommandConstants, ProductsGrow
  <2> QED
    BY <1>1, <2>1, <2>3, <2>4, <2>5, <2>6
<1>4. \A h \in S : /\ vx[h] \in Int /\ nv[h] \in Int /\ most[h] \in Int /\ sum[h] \in Int
                   /\ vx[h] <= nv[h] /\ nv[h] <= sum[h] /\ sum[h] = vx[h] + most[h]
                   /\ vx[h] = V * x[h] /\ nv[h] = n * v[h] /\ most[h] = V * MinimumMoles
  BY <1>3
<1> HIDE DEF vx, nv, most, sum
<1>5. SumFunctionOnSet(vx, S) = V * X
  <2>1. \A h \in S : x[h] \in Int /\ vx[h] = V * x[h]
    BY <1>4
  <2>2. V \in Int
    BY <1>1
  <2> QED
    BY <2>1, <2>2, SumTimes DEF X
<1>6. SumFunctionOnSet(nv, S) = n * V
  <2>1. \A h \in S : v[h] \in Int /\ nv[h] = n * v[h]
    BY <1>4
  <2> QED
    BY <2>1, SumTimes DEF V
<1>7. SumFunctionOnSet(most, S) = (V * MinimumMoles) * C
  <2>1. V * MinimumMoles \in Int
    BY <1>1, CommandConstants
  <2> QED
    BY <1>4, <2>1, SumConstant
<1>8. SumFunctionOnSet(sum, S) = SumFunctionOnSet(vx, S) + SumFunctionOnSet(most, S)
  BY <1>4, SumPlus
<1>9. SumFunctionOnSet(vx, S) <= SumFunctionOnSet(nv, S)
  BY <1>4, SumBelow
<1>10. SumFunctionOnSet(nv, S) <= SumFunctionOnSet(sum, S)
  BY <1>4, SumBelow
<1> HIDE DEF C
<1>11. V * X <= V * n
  BY <1>1, <1>5, <1>6, <1>9
<1>12. V * n <= V * (X + C * MinimumMoles)
  <2>1. C * MinimumMoles \in Nat
    BY <1>2, CommandConstants, ProductsGrow
  <2>2. V * (X + C * MinimumMoles) = V * X + V * (C * MinimumMoles)
    BY <1>1, <1>2, <2>1
  <2>3. V * (C * MinimumMoles) = (V * MinimumMoles) * C
    BY <1>1, <1>2, CommandConstants
  <2>4. V * n = n * V
    BY <1>1
  <2> QED
    BY <1>5, <1>6, <1>7, <1>8, <1>10, <2>2, <2>3, <2>4
<1>13. \A p, q \in Nat : V * p <= V * q => p <= q
  <2> SUFFICES ASSUME NEW p \in Nat, NEW q \in Nat, V * p <= V * q, q < p
               PROVE  FALSE
    OBVIOUS
  <2>1. V * (q + 1) <= V * p
    BY <1>1, ProductsGrow
  <2>2. V * (q + 1) = V * q + V /\ V * q \in Nat /\ V * p \in Nat
    BY <1>1
  <2> QED
    BY <1>1, <2>1, <2>2
<1>14. X <= n
  BY <1>2, <1>11, <1>13
<1>15. n <= X + C * MinimumMoles /\ C * MinimumMoles \in Nat
  <2>1. C * MinimumMoles \in Nat
    BY <1>2, CommandConstants, ProductsGrow
  <2>2. X + C * MinimumMoles \in Nat
    BY <1>2, <2>1
  <2> QED
    BY <1>12, <1>13, <2>1, <2>2
<1> QED
  BY <1>2, <1>14, <1>15 DEF X, C

\* All the moles of a gas there are, and what moving gas does to them.
MolesOf(m, g) == SumFunctionOnSet([h \in Handles |-> m[h].gases[g]], Handles)

Conserved(kind) ==
  \A g \in Gases : MolesOf(mix, g) <= FloatMax =>
    /\ MolesOf(mix', g) <= MolesOf(mix, g)
    /\ kind # "remove" => MolesOf(mix, g) - MolesOf(mix', g)
                            <= Cardinality(Handles) * (MinimumMoles + Accuracy)

\* reconcile_pipenet: the mixtures of a pipe network share their gas by volume.
LEMMA ReconcilePipenetStep ==
  ASSUME mix \in [Handles -> Records], NEW hs \in SUBSET Handles, Commands!ReconcilePipenet(hs)
  PROVE  /\ CommandStep("transfer")
         /\ (\A h \in Handles : ~mix[h].immutable) => Conserved("transfer")
<1> DEFINE v == [h \in hs |-> mix[h].volume]
           volume == SumFunctionOnSet(v, hs)
           of(g) == [h \in hs |-> mix[h].gases[g]]
           totals == [g \in Gases |-> SumFunctionOnSet(of(g), hs)]
           caps == [h \in hs |-> Commands!HeatCapacity(mix[h])]
           heat == SumFunctionOnSet(caps, hs)
           hot == [h \in hs |-> Commands!HeatCapacity(mix[h]) * mix[h].temperature]
           energy == SumFunctionOnSet(hot, hs)
           temp == IF heat = 0 THEN MinimumTemperature ELSE Commands!Floor(energy \div heat)
           share(h) == [g \in Gases |-> (totals[g] * mix[h].volume) \div volume]
           new(h) == Commands!Committed(Content(mix[h], share(h), temp))
<1>1. \A h \in Handles : /\ mix[h] \in Records /\ mix[h].gases \in Moles0 /\ mix[h].volume \in Nat
                         /\ mix[h].temperature \in Nat
  BY DEF Records
<1>2. IsFiniteSet(hs) /\ IsFiniteSet(Handles) /\ Cardinality(hs) \in Nat
      /\ Cardinality(Handles) \in Nat /\ Cardinality(hs) <= Cardinality(Handles)
  BY CommandConstants, FS_Subset, FS_CardinalityType
<1>3. /\ volume # 0
      /\ \A h \in hs : ~mix[h].immutable => mix[h].revision # RevisionMax
      /\ \A g \in Gases : totals[g] <= FloatMax
      /\ Commands!Applied("transfer", [h \in Handles |->
           IF h \in hs /\ ~mix[h].immutable
             THEN Commands!Committed([mix[h] EXCEPT !.gases = share(h), !.temperature = temp])
             ELSE mix[h]])
  BY CommandSums, Zenon DEF Commands!ReconcilePipenet
<1>4. /\ mix' = [h \in Handles |-> IF h \in hs /\ ~mix[h].immutable THEN new(h) ELSE mix[h]]
      /\ seen' = seen /\ last' = "transfer"
  BY <1>3 DEF Commands!Applied, Content
<1>5. volume \in Nat /\ \A h \in hs : v[h] \in Nat /\ v[h] = mix[h].volume /\ v[h] <= volume
  <2>1. \A h \in hs : v[h] \in Nat /\ v[h] = mix[h].volume
    BY <1>1
  <2> HIDE DEF v
  <2> QED
    BY <1>2, <2>1, SumNat
<1>6. \A g \in Gases : totals[g] \in Nat /\ \A h \in hs : of(g)[h] \in Nat
  <2> SUFFICES ASSUME NEW g \in Gases
               PROVE  totals[g] \in Nat /\ \A h \in hs : of(g)[h] \in Nat
    OBVIOUS
  <2>1. \A h \in hs : of(g)[h] \in Nat
    BY <1>1, CommandConstants DEF Moles0
  <2>2. totals[g] = SumFunctionOnSet(of(g), hs)
    OBVIOUS
  <2> HIDE DEF of, totals
  <2> QED
    BY <1>2, <2>1, <2>2, SumNat
<1>7. temp \in Nat /\ temp >= MinimumTemperature
  <2>1. \A h \in hs : caps[h] \in Nat /\ hot[h] \in Nat
    <3> SUFFICES ASSUME NEW h \in hs
                 PROVE  caps[h] \in Nat /\ hot[h] \in Nat
      OBVIOUS
    <3>1. Commands!HeatCapacity(mix[h]) \in Nat /\ mix[h].temperature \in Nat
      BY <1>1, RecordsAreDrafts, HeatCapacityNat
    <3> QED
      BY <3>1
  <2> HIDE DEF caps, hot
  <2>2. heat \in Nat /\ energy \in Nat
    BY <1>2, <2>1, SumNat
  <2> HIDE DEF heat, energy
  <2>3. CASE heat = 0
    BY <2>3, CommandConstants
  <2>4. CASE heat # 0
    <3>1. energy \div heat \in Int
      BY <2>2, <2>4, DivisionBounds
    <3>2. temp = Commands!Floor(energy \div heat)
      BY <2>4
    <3> HIDE DEF temp
    <3> QED
      BY <3>1, <3>2, FloorAbove
  <2> QED
    BY <2>3, <2>4
<1> HIDE DEF temp, totals, of, volume, v
<1>8. ASSUME NEW h \in hs
      PROVE  /\ share(h) \in Moles0
             /\ \A g \in Gases : share(h)[g] = (totals[g] * v[h]) \div volume
  <2>1. ASSUME NEW g \in Gases
        PROVE  (totals[g] * mix[h].volume) \div volume \in 0 .. FloatMax
    <3>1. /\ totals[g] \in Nat /\ totals[g] <= FloatMax /\ volume \in Nat \ {0}
          /\ mix[h].volume \in Nat /\ mix[h].volume <= volume
      BY <1>3, <1>5, <1>6
    <3>2. (totals[g] * mix[h].volume) \div volume \in Nat
          /\ (totals[g] * mix[h].volume) \div volume <= totals[g]
      BY <3>1, Share
    <3> QED
      BY <3>1, <3>2, CommandConstants
  <2>2. v[h] = mix[h].volume
    BY <1>5
  <2> QED
    BY <2>1, <2>2 DEF Moles0
<1> HIDE DEF share
<1>9. ASSUME NEW h \in hs, ~mix[h].immutable
      PROVE  /\ Bumped(mix[h], new(h)) /\ new(h).gases = Commands!Canonical(share(h))
  <2> DEFINE p == Content(mix[h], share(h), temp)
  <2>1. p \in Records /\ p.revision = mix[h].revision /\ p.gases = share(h)
    <3> DEFINE m == mix[h]
    <3>1. m \in Records /\ share(h) \in Moles0
      BY <1>1, <1>8
    <3> HIDE DEF m
    <3> QED
      BY <1>7, <3>1, ContentSet DEF m
  <2> HIDE DEF p
  <2>2. p.revision # RevisionMax
    BY <1>3, <1>9, <2>1
  <2>3. Commands!Committed(p) \in Records /\ Commands!Committed(p).revision = p.revision + 1
        /\ Commands!Committed(p).gases = Commands!Canonical(p.gases)
    BY <2>1, <2>2, CommittedRecord
  <2> QED
    BY <1>9, <2>1, <2>3 DEF Bumped, p
<1> HIDE DEF new
<1>10. /\ \A h \in hs : ~mix[h].immutable => mix'[h] = new(h)
       /\ \A h \in Handles : (h \notin hs \/ mix[h].immutable) => mix'[h] = mix[h]
       /\ mix' = [h \in Handles |-> mix'[h]]
  BY <1>4
<1>11. CommandStep("transfer")
  <2>1. \A h \in Handles : Commanded(mix[h], mix'[h])
    BY <1>9, <1>10 DEF Commanded
  <2> QED
    BY <1>4, <1>10, <2>1 DEF CommandStep
<1>12. ASSUME \A h \in Handles : ~mix[h].immutable
       PROVE  Conserved("transfer")
  <2> SUFFICES ASSUME NEW g \in Gases
               PROVE  /\ MolesOf(mix', g) <= MolesOf(mix, g)
                      /\ MolesOf(mix, g) - MolesOf(mix', g)
                           <= Cardinality(Handles) * (MinimumMoles + Accuracy)
    BY DEF Conserved
  <2> DEFINE f == [h \in Handles |-> mix[h].gases[g]]
             x == [h \in Handles |-> mix'[h].gases[g]]
             n == totals[g]
  <2>1. \A h \in hs : mix'[h].gases = Commands!Canonical(share(h))
    BY <1>9, <1>10, <1>12
  <2>2. \A h \in Handles \ hs : x[h] = f[h]
    BY <1>10
  <2>3. \A h \in hs : /\ x[h] \in Nat /\ x[h] <= share(h)[g]
                      /\ share(h)[g] - x[h] < MinimumMoles
    <3> SUFFICES ASSUME NEW h \in hs
                 PROVE  /\ x[h] \in Nat /\ x[h] <= share(h)[g]
                        /\ share(h)[g] - x[h] < MinimumMoles
      OBVIOUS
    <3>1. x[h] = Commands!Canonical(share(h))[g]
      BY <2>1
    <3> HIDE DEF x
    <3> QED
      BY <1>8, <3>1, CanonicalMoles, CommandConstants DEF Moles0
  <2>4. \A h \in Handles : f[h] \in Nat
    BY <1>1, CommandConstants DEF Moles0
  <2>5. \A h \in hs : f[h] = of(g)[h]
    BY DEF of
  <2>6. n = SumFunctionOnSet(of(g), hs) /\ n \in Nat
    BY <1>6 DEF totals
  <2>7. MolesOf(mix', g) = SumFunctionOnSet(x, Handles) /\ MolesOf(mix, g) = SumFunctionOnSet(f, Handles)
    BY DEF MolesOf
  <2> HIDE DEF f, x, n
  <2>8. SumFunctionOnSet(f, hs) = n
    <3>1. \A h \in hs : of(g)[h] \in Int /\ f[h] = of(g)[h]
      BY <1>6, <2>5
    <3> QED
      BY <1>2, <2>6, <3>1, SumSame
  <2>9. /\ SumFunctionOnSet(x, hs) <= n
        /\ n - SumFunctionOnSet(x, hs) <= Cardinality(hs) * MinimumMoles
    <3>1. \A h \in hs : v[h] \in Nat /\ x[h] \in Nat
      BY <1>5, <2>3
    <3>2. \A h \in hs : /\ x[h] <= (n * v[h]) \div SumFunctionOnSet(v, hs)
                        /\ (n * v[h]) \div SumFunctionOnSet(v, hs) - x[h] < MinimumMoles
      BY <1>8, <2>3 DEF n, volume
    <3>3. SumFunctionOnSet(v, hs) # 0
      BY <1>3 DEF volume
    <3> QED
      BY <1>2, <2>6, <3>1, <3>2, <3>3, SharesAddUp
  <2>10. \A h \in Handles : f[h] \in Int /\ x[h] \in Int
    BY <2>2, <2>3, <2>4
  <2>11. /\ SumFunctionOnSet(x, Handles) - SumFunctionOnSet(f, Handles)
              = SumFunctionOnSet(x, hs) - SumFunctionOnSet(f, hs)
         /\ SumFunctionOnSet(x, Handles) \in Int /\ SumFunctionOnSet(f, Handles) \in Int
         /\ SumFunctionOnSet(x, hs) \in Int
    BY <1>2, <2>2, <2>10, SumWithin
  <2>12. Cardinality(hs) * MinimumMoles <= Cardinality(Handles) * (MinimumMoles + Accuracy)
         /\ Cardinality(hs) * MinimumMoles \in Nat
         /\ Cardinality(Handles) * (MinimumMoles + Accuracy) \in Nat
    <3>1. MinimumMoles \in Nat /\ MinimumMoles + Accuracy \in Nat
          /\ MinimumMoles <= MinimumMoles + Accuracy
      BY CommandConstants
    <3> QED
      BY <1>2, <3>1, ProductsGrow
  <2> QED
    BY <2>6, <2>7, <2>8, <2>9, <2>11, <2>12
<1> QED
  BY <1>11, <1>12

\* A command stores records.
LEMMA CommandedRecords ==
  ASSUME mix \in [Handles -> Records], NEW kind, CommandStep(kind)
  PROVE  mix' \in [Handles -> Records]
<1>1. \A h \in Handles : mix'[h] \in Records
  BY DEF CommandStep, Commanded, Bumped, Dropped
<1> QED
  BY <1>1 DEF CommandStep

\* Gas that moves between two mixtures is conserved among all.
LEMMA MovedConserves ==
  ASSUME mix \in [Handles -> Records], NEW kind, CommandStep(kind),
         NEW a \in Handles, NEW b \in Handles, Moved(kind, a, b)
  PROVE  Conserved(kind)
<1> SUFFICES ASSUME NEW g \in Gases, MolesOf(mix, g) <= FloatMax
             PROVE  /\ MolesOf(mix', g) <= MolesOf(mix, g)
                    /\ kind # "remove" => MolesOf(mix, g) - MolesOf(mix', g)
                                            <= Cardinality(Handles) * (MinimumMoles + Accuracy)
  BY DEF Conserved
<1> DEFINE f == [h \in Handles |-> mix[h].gases[g]]
           x == [h \in Handles |-> mix'[h].gases[g]]
<1>1. mix' \in [Handles -> Records]
  BY CommandedRecords
<1>2. \A h \in Handles : f[h] \in Nat /\ x[h] \in Nat
  <2>1. \A m \in Records : m.gases[g] \in Nat
    BY CommandConstants DEF Records, Moles0
  <2> QED
    BY <1>1, <2>1
<1>3. \A h \in Handles \ {a, b} : x[h] = f[h]
  BY DEF Moved
<1>4. a # b /\ (f[a] + f[b] <= FloatMax =>
                  /\ x[a] + x[b] <= f[a] + f[b]
                  /\ kind # "remove" =>
                       (f[a] + f[b]) - (x[a] + x[b]) <= 2 * (MinimumMoles + Accuracy))
  BY DEF Moved
<1>5. MolesOf(mix', g) = SumFunctionOnSet(x, Handles) /\ MolesOf(mix, g) = SumFunctionOnSet(f, Handles)
  BY DEF MolesOf
<1> HIDE DEF f, x
<1>6. IsFiniteSet(Handles) /\ {a, b} \in SUBSET Handles /\ {b} \in SUBSET {a, b}
      /\ IsFiniteSet({a, b}) /\ {a, b} \ {a} = {b} /\ {b} \ {b} = {} /\ IsFiniteSet({b})
  BY <1>4, CommandConstants, FS_Singleton, FS_Subset
<1>7. \A h \in Handles : f[h] \in Int /\ x[h] \in Int
  BY <1>2
<1>8. /\ SumFunctionOnSet(x, Handles) - SumFunctionOnSet(f, Handles)
            = SumFunctionOnSet(x, {a, b}) - SumFunctionOnSet(f, {a, b})
      /\ SumFunctionOnSet(x, Handles) \in Int /\ SumFunctionOnSet(f, Handles) \in Int
  BY <1>3, <1>6, <1>7, SumWithin
<1>9. SumFunctionOnSet(x, {a, b}) = x[a] + x[b] /\ SumFunctionOnSet(f, {a, b}) = f[a] + f[b]
  <2>1. ASSUME NEW p, \A h \in {a, b} : p[h] \in Int
        PROVE  SumFunctionOnSet(p, {a, b}) = p[a] + p[b]
    <3>1. /\ SumFunctionOnSet(p, {}) = 0
          /\ \A T \in SUBSET {a, b} : \A h \in T :
                SumFunctionOnSet(p, T) = p[h] + SumFunctionOnSet(p, T \ {h})
      BY <1>6, <2>1, SumTakes
    <3>2. SumFunctionOnSet(p, {a, b}) = p[a] + SumFunctionOnSet(p, {b})
      BY <1>6, <3>1
    <3>3. SumFunctionOnSet(p, {b}) = p[b] + SumFunctionOnSet(p, {})
      BY <1>6, <3>1
    <3> QED
      BY <2>1, <3>1, <3>2, <3>3
  <2> QED
    BY <1>7, <2>1
<1>10. f[a] + f[b] <= SumFunctionOnSet(f, Handles)
  <2> DEFINE z == [h \in Handles |-> IF h \in {a, b} THEN f[h] ELSE 0]
  <2>1. \A h \in Handles : z[h] \in Int /\ f[h] \in Int /\ z[h] <= f[h]
    BY <1>2
  <2>2. \A h \in Handles \ {a, b} : z[h] = 0
    OBVIOUS
  <2>3. \A h \in {a, b} : z[h] \in Int /\ f[h] = z[h] /\ f[h] \in Int
    BY <2>1
  <2> HIDE DEF z
  <2>4. SumFunctionOnSet(z, Handles) <= SumFunctionOnSet(f, Handles)
    BY <1>6, <2>1, SumBelow
  <2>5. SumFunctionOnSet(z, Handles) = SumFunctionOnSet(z, {a, b})
    BY <1>6, <2>1, <2>2, SumTrims
  <2>6. SumFunctionOnSet(f, {a, b}) = SumFunctionOnSet(z, {a, b})
    BY <1>6, <2>3, SumSame
  <2> QED
    BY <1>9, <2>4, <2>5, <2>6
<1>11. 2 <= Cardinality(Handles) /\ Cardinality(Handles) \in Nat
  <2>1. Cardinality({a, b}) <= Cardinality(Handles)
    BY <1>6, FS_Subset
  <2>2. Cardinality({a, b}) = 2
    <3>1. IsFiniteSet({b}) /\ Cardinality({b}) = 1 /\ a \notin {b} /\ {b} \cup {a} = {a, b}
      BY <1>4, FS_Singleton
    <3>2. Cardinality({b} \cup {a}) = Cardinality({b}) + 1
      BY <3>1, FS_AddElement
    <3> QED
      BY <3>1, <3>2
  <2> QED
    BY <1>6, <2>1, <2>2, FS_CardinalityType
<1>12. /\ 2 * (MinimumMoles + Accuracy) <= Cardinality(Handles) * (MinimumMoles + Accuracy)
       /\ Cardinality(Handles) * (MinimumMoles + Accuracy) \in Nat
       /\ 2 * (MinimumMoles + Accuracy) \in Nat
  <2>1. MinimumMoles + Accuracy \in Nat
    BY CommandConstants
  <2> QED
    BY <1>11, <2>1, ProductsGrow
<1>13. f[a] + f[b] <= FloatMax
  <2>1. f[a] \in Nat /\ f[b] \in Nat
    BY <1>2
  <2> QED
    BY <1>5, <1>8, <1>10, <2>1, CommandConstants
<1>14. f[a] \in Nat /\ f[b] \in Nat /\ x[a] \in Nat /\ x[b] \in Nat
  BY <1>2
<1> QED
  BY <1>4, <1>5, <1>8, <1>9, <1>12, <1>13, <1>14

\* What a client has read is what the mixture held at that revision, traces aside.
SeenInv ==
  \A h \in Handles : seen[h] # Commands!Unread =>
    /\ seen[h] \in Records /\ seen[h].revision <= mix[h].revision
    /\ seen[h].revision = mix[h].revision => Settled(seen[h]) = Settled(mix[h])

CommandsInv ==
  /\ mix \in [Handles -> Records]
  /\ seen \in [Handles -> Records \cup {Commands!Unread}] /\ SeenInv

\* A state accepted was computed from what the mixture holds.
Fresh == \A h \in Handles : mix'[h] # mix[h] => Settled(seen[h]) = Settled(mix[h])

\* apply_mixture_state: a batch of mixtures takes the states a client computed.
LEMMA ApplyMixtureStateStep ==
  ASSUME CommandsInv, NEW hs, \A i \in DOMAIN hs : hs[i] \in Handles,
         NEW n \in Amounts, Commands!ApplyMixtureState(hs, n)
  PROVE  CommandStep("upload") /\ Fresh
<1> DEFINE batch == [i \in DOMAIN hs |->
                  [handle |-> hs[i], expected |-> seen[hs[i]].revision,
                   gases |-> [seen[hs[i]].gases EXCEPT ![1] = n],
                   temperature |-> seen[hs[i]].temperature,
                   volume |-> seen[hs[i]].volume]]
           in(h) == \E i \in DOMAIN batch : batch[i].handle = h
           u(h) == batch[CHOOSE i \in DOMAIN batch : batch[i].handle = h]
           new(h) == [mix[h] EXCEPT !.gases = u(h).gases, !.temperature = u(h).temperature,
                                    !.volume = u(h).volume]
<1>1. /\ \A i \in DOMAIN hs : seen[hs[i]] # Commands!Unread
      /\ Commands!Uploadable(batch) /\ Commands!Applied("upload", Commands!Uploaded(batch))
  BY DEF Commands!ApplyMixtureState
<1>2. /\ seen' = seen /\ last' = "upload"
      /\ mix' = [h \in Handles |-> IF ~mix[h].immutable /\ in(h)
                                     THEN Commands!Committed(new(h)) ELSE mix[h]]
  BY <1>1 DEF Commands!Applied, Commands!Uploaded
<1>3. \A i \in DOMAIN batch :
        /\ mix[batch[i].handle].revision = batch[i].expected
        /\ ~mix[batch[i].handle].immutable => mix[batch[i].handle].revision # RevisionMax
  BY <1>1 DEF Commands!Uploadable
<1>4. ASSUME NEW h \in Handles, in(h)
      PROVE  /\ seen[h] # Commands!Unread /\ seen[h].revision = mix[h].revision
             /\ ~mix[h].immutable => mix[h].revision # RevisionMax
             /\ u(h).gases = [seen[h].gases EXCEPT ![1] = n]
             /\ u(h).temperature = seen[h].temperature /\ u(h).volume = seen[h].volume
  <2> DEFINE i == CHOOSE i \in DOMAIN batch : batch[i].handle = h
  <2>1. i \in DOMAIN batch /\ batch[i].handle = h
    BY <1>4
  <2>2. u(h) = batch[i]
    OBVIOUS
  <2> HIDE DEF i, u
  <2>3. i \in DOMAIN hs /\ hs[i] = h /\ batch[i].expected = seen[h].revision
        /\ batch[i].gases = [seen[h].gases EXCEPT ![1] = n]
        /\ batch[i].temperature = seen[h].temperature /\ batch[i].volume = seen[h].volume
    BY <2>1
  <2>4. /\ mix[h].revision = seen[h].revision
        /\ ~mix[h].immutable => mix[h].revision # RevisionMax
    BY <1>3, <2>1, <2>3
  <2> HIDE DEF batch
  <2> QED
    BY <1>1, <2>2, <2>3, <2>4
<1> HIDE DEF u, batch, in
<1>5. ASSUME NEW h \in Handles, in(h), ~mix[h].immutable
      PROVE  Bumped(mix[h], Commands!Committed(new(h)))
  <2>1. seen[h] \in Records /\ mix[h] \in Records
    BY <1>4, <1>5 DEF CommandsInv, SeenInv
  <2>2. [seen[h].gases EXCEPT ![1] = n] \in Moles0
    <3>1. seen[h].gases \in [Gases -> 0 .. FloatMax] /\ n \in 0 .. FloatMax
      BY <2>1, CommandConstants DEF Records, Moles0
    <3> QED
      BY <3>1 DEF Moles0
  <2>3. /\ u(h).gases \in Moles0 /\ u(h).volume \in Nat
        /\ u(h).temperature \in Nat /\ u(h).temperature >= MinimumTemperature
    <3>1. seen[h].volume \in Nat /\ seen[h].temperature \in Nat
          /\ seen[h].temperature >= MinimumTemperature
      BY <2>1 DEF Records
    <3> QED
      BY <1>4, <1>5, <2>2, <3>1
  <2>4. new(h) \in Records /\ new(h).revision = mix[h].revision
    <3> DEFINE m == mix[h]
               g == u(h).gases
               t == u(h).temperature
               v == u(h).volume
    <3>1. m \in Records /\ g \in Moles0 /\ t \in Nat /\ t >= MinimumTemperature /\ v \in Nat
      BY <2>1, <2>3
    <3>2. new(h) = [m EXCEPT !.gases = g, !.temperature = t, !.volume = v]
      OBVIOUS
    <3>3. m.revision = mix[h].revision
      OBVIOUS
    <3> HIDE DEF new, m, g, t, v
    <3> QED
      BY <3>1, <3>2, <3>3 DEF Records
  <2> HIDE DEF new
  <2>5. Commands!Committed(new(h)) \in Records /\ Commands!Committed(new(h)).revision = new(h).revision + 1
    <3>1. new(h).revision # RevisionMax
      BY <1>4, <1>5, <2>4
    <3> QED
      BY <2>4, <3>1, CommittedRecord
  <2> QED
    BY <1>5, <2>4, <2>5 DEF Bumped
<1> HIDE DEF new
<1>6. \A h \in Handles : \/ mix'[h] = mix[h]
                         \/ in(h) /\ Bumped(mix[h], mix'[h])
  BY <1>2, <1>5
<1>7. CommandStep("upload")
  <2>1. mix' = [h \in Handles |-> mix'[h]]
    BY <1>2
  <2> QED
    BY <1>2, <1>6, <2>1 DEF CommandStep, Commanded
<1>8. Fresh
  BY <1>4, <1>6 DEF Fresh, CommandsInv, SeenInv
<1> QED
  BY <1>7, <1>8

\* What a step of the commands comes to: a read, or a command of some kind.
AllMutable == \A h \in Handles : ~mix[h].immutable

Outcome ==
  \/ /\ mix' = mix /\ commands' = commands
     /\ \E h \in Handles : seen' = [seen EXCEPT ![h] = mix[h]]
  \/ \E kind : /\ CommandStep(kind)
               /\ kind \in {"transfer", "select", "remove"} /\ AllMutable => Conserved(kind)
               /\ kind = "upload" => Fresh

\* Commands that neither move gas nor upload.
LEMMA PlainOutcome ==
  ASSUME NEW kind \in {"set", "add", "merge", "heat"}, CommandStep(kind)
  PROVE  Outcome
BY DEF Outcome

\* Every command on one mixture.
LEMMA SingleOutcome ==
  ASSUME CommandsInv, NEW h \in Handles
  PROVE  /\ Commands!Snapshot(h) \/ Commands!Clear(h) \/ Commands!MarkImmutable(h) => Outcome
         /\ \A g \in Gases :
              /\ \A n \in Amounts : Commands!SetMoles(h, g, n) => Outcome
              /\ \A d \in Deltas : Commands!AdjustMoles(h, g, d) => Outcome
              /\ \A n \in Amounts, t \in Temperatures : Commands!AdjustMolesTemperature(h, g, n, t) => Outcome
         /\ \A g, k \in Gases, d, e \in Deltas :
              Commands!AdjustMultiple(h, <<[gas |-> g, delta |-> d], [gas |-> k, delta |-> e]>>) => Outcome
         /\ \A t \in Temperatures : Commands!SetTemperature(h, t) => Outcome
         /\ \A v \in Volumes : Commands!SetVolume(h, v) => Outcome
         /\ \A c \in Capacities : Commands!SetMinimumHeatCapacity(h, c) => Outcome
         /\ \A d \in Deltas \union {0} : Commands!Add(h, d) => Outcome
         /\ \A r \in Ratios \union {<<2, 1>>} : Commands!Multiply(h, r) => Outcome
         /\ \A heat \in Heats : Commands!AdjustHeat(h, heat) => Outcome
         /\ \A t \in Temperatures, c \in Capacities, r \in Ratios :
              Commands!TemperatureShareNonGas(h, t, c, r) => Outcome
<1>1. mix \in [Handles -> Records]
  BY DEF CommandsInv
<1>2. /\ CommandStep("set") => Outcome
      /\ CommandStep("add") => Outcome
  BY PlainOutcome
<1>3. Commands!Snapshot(h) => Outcome
  BY DEF Commands!Snapshot, Outcome
<1>4. Commands!Clear(h) \/ Commands!MarkImmutable(h) => Outcome
  BY <1>1, <1>2, PlainSets
<1>5. \A g \in Gases :
        /\ \A n \in Amounts : Commands!SetMoles(h, g, n) => Outcome
        /\ \A d \in Deltas : Commands!AdjustMoles(h, g, d) => Outcome
  BY <1>1, <1>2, PlainSets
<1>6. \A g \in Gases : \A n \in Amounts, t \in Temperatures :
        Commands!AdjustMolesTemperature(h, g, n, t) => Outcome
  BY <1>1, <1>2, AdjustMolesTemperatureStep
<1>7. ASSUME NEW g \in Gases, NEW k \in Gases, NEW d \in Deltas, NEW e \in Deltas,
             Commands!AdjustMultiple(h, <<[gas |-> g, delta |-> d], [gas |-> k, delta |-> e]>>)
      PROVE  Outcome
  <2> DEFINE p == [gas |-> g, delta |-> d]
             q == [gas |-> k, delta |-> e]
             list == <<p, q>>
  <2>1. p.gas \in Gases /\ p.delta \in Int /\ q.gas \in Gases /\ q.delta \in Int
    BY CommandConstants
  <2> HIDE DEF p, q
  <2>2. Len(list) = 2 /\ list[1] = p /\ list[2] = q
    OBVIOUS
  <2>3. Commands!AdjustMultiple(h, list)
    BY <1>7 DEF p, q
  <2> HIDE DEF list
  <2>4. Len(list) \in Nat /\ \A i \in 1 .. Len(list) : i = 1 \/ i = 2
    BY <2>2
  <2>5. \A i \in 1 .. Len(list) : list[i].gas \in Gases /\ list[i].delta \in Int
    BY <2>1, <2>2, <2>4
  <2>6. CommandStep("set")
    BY <1>1, <2>3, <2>4, <2>5, AdjustMultipleStep
  <2> QED
    BY <1>2, <2>6
<1>8. /\ \A t \in Temperatures : Commands!SetTemperature(h, t) => Outcome
      /\ \A v \in Volumes : Commands!SetVolume(h, v) => Outcome
      /\ \A c \in Capacities : Commands!SetMinimumHeatCapacity(h, c) => Outcome
  BY <1>1, <1>2, PlainSets
<1>9. ASSUME NEW d \in Deltas \union {0}, Commands!Add(h, d)
      PROVE  Outcome
  <2>1. d \in Int
    BY CommandConstants
  <2> QED
    BY <1>1, <1>2, <1>9, <2>1, AddStep
<1>10. ASSUME NEW r \in Ratios \union {<<2, 1>>}, Commands!Multiply(h, r)
       PROVE  Outcome
  <2>1. r[1] \in Nat /\ r[2] \in Nat \ {0}
    <3>1. CASE r \in Ratios
      BY <3>1, CommandConstants DEF Ratio
    <3>2. CASE r = <<2, 1>>
      BY <3>2
    <3> QED
      BY <3>1, <3>2
  <2> QED
    BY <1>1, <1>2, <1>10, <2>1, MultiplyStep
<1>11. ASSUME NEW heat \in Heats, Commands!AdjustHeat(h, heat)
       PROVE  Outcome
  <2>1. heat \in Int
    BY CommandConstants
  <2> QED
    BY <1>1, <1>2, <1>11, <2>1, AdjustHeatStep
<1>12. ASSUME NEW t \in Temperatures, NEW c \in Capacities, NEW r \in Ratios,
              Commands!TemperatureShareNonGas(h, t, c, r)
       PROVE  Outcome
  <2>1. t \in Nat /\ c \in Nat /\ Ratio(r)
    BY CommandConstants
  <2> QED
    BY <1>1, <1>2, <1>12, <2>1, TemperatureShareNonGasStep
<1> QED
  BY <1>3, <1>4, <1>5, <1>6, <1>7, <1>8, <1>9, <1>10, <1>11, <1>12

\* Every command on two mixtures.
LEMMA PairOutcome ==
  ASSUME CommandsInv, NEW a \in Handles, NEW b \in Handles
  PROVE  /\ Commands!CopyFrom(a, b) \/ Commands!EqualizeWith(a, b) \/ Commands!Merge(a, b) => Outcome
         /\ \A r \in Ratios :
              /\ Commands!TemperatureShare(a, b, r) => Outcome
              /\ Commands!RemoveRatioInto(a, b, r) => Outcome
              /\ Commands!TransferRatio(a, b, r) => Outcome
              /\ \A mask \in SUBSET Gases : Commands!TransferGases(a, b, r, mask) => Outcome
              /\ \A oneWay \in BOOLEAN : Commands!ShareRatio(a, b, r, oneWay) => Outcome
         /\ \A n \in Amounts :
              /\ Commands!RemoveAmountInto(a, b, n) => Outcome
              /\ Commands!TransferAmount(a, b, n) => Outcome
              /\ \A mask \in SUBSET Gases : Commands!TransferByFlags(a, b, n, mask) => Outcome
              /\ Commands!ApplyMixtureState(<<a>>, n) => Outcome
              /\ Commands!ApplyMixtureState(<<a, b>>, n) => Outcome
<1>1. mix \in [Handles -> Records]
  BY DEF CommandsInv
<1>2. /\ CommandStep("set") => Outcome
      /\ CommandStep("add") => Outcome
      /\ CommandStep("merge") => Outcome
      /\ CommandStep("heat") => Outcome
  BY PlainOutcome
<1>3. Commands!CopyFrom(a, b) \/ Commands!EqualizeWith(a, b) \/ Commands!Merge(a, b) => Outcome
  BY <1>1, <1>2, CopyFromStep, EqualizeWithStep, MergeStep
<1>4. ASSUME NEW kind \in {"transfer", "select", "remove"}, CommandStep(kind),
             AllMutable => Conserved(kind)
      PROVE  Outcome
  BY <1>4 DEF Outcome
<1>5. ASSUME NEW kind \in {"transfer", "select", "remove"}, CommandStep(kind),
             AllMutable => Moved(kind, a, b)
      PROVE  Outcome
  BY <1>1, <1>4, <1>5, MovedConserves
<1>6. ASSUME NEW r, Ratio(r)
      PROVE  /\ Commands!TransferRatio(a, b, r) => Outcome
             /\ \A mask \in SUBSET Gases : Commands!TransferGases(a, b, r, mask) => Outcome
             /\ \A clean \in BOOLEAN : Commands!RemoveInto(a, b, r, clean) => Outcome
             /\ Commands!TemperatureShare(a, b, r) => Outcome
             /\ \A oneWay \in BOOLEAN : Commands!ShareRatio(a, b, r, oneWay) => Outcome
  <2>1. Commands!TransferRatio(a, b, r) => Outcome
    BY <1>1, <1>5, <1>6, TransferRatioStep DEF AllMutable
  <2>2. \A mask \in SUBSET Gases : Commands!TransferGases(a, b, r, mask) => Outcome
    BY <1>1, <1>5, <1>6, TransferGasesStep
  <2>3. \A clean \in BOOLEAN : Commands!RemoveInto(a, b, r, clean) => Outcome
    BY <1>1, <1>5, <1>6, RemoveIntoStep DEF AllMutable
  <2>4. Commands!TemperatureShare(a, b, r) => Outcome
    BY <1>1, <1>2, <1>6, TemperatureShareStep
  <2>5. ASSUME NEW oneWay \in BOOLEAN, Commands!ShareRatio(a, b, r, oneWay)
        PROVE  Outcome
    <3>1. \/ oneWay /\ CommandStep("add")
          \/ /\ ~oneWay /\ CommandStep("transfer")
             /\ ~mix[a].immutable /\ ~mix[b].immutable => Moved("transfer", a, b)
      BY <1>1, <1>6, <2>5, ShareRatioStep
    <3>2. CASE CommandStep("add")
      BY <1>2, <3>2
    <3>3. CASE /\ CommandStep("transfer")
               /\ ~mix[a].immutable /\ ~mix[b].immutable => Moved("transfer", a, b)
      BY <1>5, <3>3 DEF AllMutable
    <3> QED
      BY <3>1, <3>2, <3>3
  <2> QED
    BY <2>1, <2>2, <2>3, <2>4, <2>5
<1>7. ASSUME NEW r \in Ratios
      PROVE  /\ Commands!TemperatureShare(a, b, r) => Outcome
             /\ Commands!RemoveRatioInto(a, b, r) => Outcome
             /\ Commands!TransferRatio(a, b, r) => Outcome
             /\ \A mask \in SUBSET Gases : Commands!TransferGases(a, b, r, mask) => Outcome
             /\ \A oneWay \in BOOLEAN : Commands!ShareRatio(a, b, r, oneWay) => Outcome
  <2>1. Ratio(r)
    BY CommandConstants
  <2>2. Commands!RemoveRatioInto(a, b, r) => Commands!RemoveInto(a, b, r, TRUE)
    BY DEF Commands!RemoveRatioInto
  <2> QED
    BY <1>6, <2>1, <2>2
<1>8. ASSUME NEW n \in Amounts
      PROVE  /\ Commands!RemoveAmountInto(a, b, n) => Outcome
             /\ Commands!TransferAmount(a, b, n) => Outcome
             /\ \A mask \in SUBSET Gases : Commands!TransferByFlags(a, b, n, mask) => Outcome
  <2> DEFINE r == Commands!RatioOf(a, n)
  <2>1. Ratio(r)
    <3>1. n \in Nat /\ mix[a] \in Records
      BY <1>1, CommandConstants
    <3> QED
      BY <3>1, RatioOfAmount
  <2>2. /\ Commands!RemoveAmountInto(a, b, n) => Commands!RemoveInto(a, b, r, FALSE)
        /\ Commands!TransferAmount(a, b, n) => Commands!TransferRatio(a, b, r)
        /\ \A mask \in SUBSET Gases : Commands!TransferByFlags(a, b, n, mask) => Commands!TransferGases(a, b, r, mask)
    BY DEF Commands!RemoveAmountInto, Commands!TransferAmount, Commands!TransferByFlags
  <2> HIDE DEF r
  <2> QED
    BY <1>6, <2>1, <2>2
<1>9. ASSUME NEW n \in Amounts, NEW hs, \A i \in DOMAIN hs : hs[i] \in Handles,
             Commands!ApplyMixtureState(hs, n)
      PROVE  Outcome
  <2>1. CommandStep("upload") /\ Fresh
    BY <1>9, ApplyMixtureStateStep
  <2>2. "upload" \notin {"transfer", "select", "remove"}
    OBVIOUS
  <2> QED
    BY <2>1, <2>2 DEF Outcome
<1>10. ASSUME NEW n \in Amounts
       PROVE  /\ Commands!ApplyMixtureState(<<a>>, n) => Outcome
              /\ Commands!ApplyMixtureState(<<a, b>>, n) => Outcome
  <2>1. \A i \in DOMAIN <<a>> : <<a>>[i] \in Handles
    OBVIOUS
  <2>2. \A i \in DOMAIN <<a, b>> : <<a, b>>[i] \in Handles
    OBVIOUS
  <2> QED
    BY <1>9, <2>1, <2>2
<1> QED
  BY <1>3, <1>7, <1>8, <1>10

\* Every step of the commands.
LEMMA EveryOutcome ==
  ASSUME CommandsInv, Commands!Next
  PROVE  Outcome
<1> DEFINE single(h) ==
             \/ Commands!Snapshot(h) \/ Commands!Clear(h) \/ Commands!MarkImmutable(h)
             \/ \E g \in Gases :
                  \/ \E n \in Amounts : Commands!SetMoles(h, g, n)
                  \/ \E d \in Deltas : Commands!AdjustMoles(h, g, d)
                  \/ \E n \in Amounts, t \in Temperatures : Commands!AdjustMolesTemperature(h, g, n, t)
             \/ \E g, k \in Gases, d, e \in Deltas :
                  Commands!AdjustMultiple(h, <<[gas |-> g, delta |-> d], [gas |-> k, delta |-> e]>>)
             \/ \E t \in Temperatures : Commands!SetTemperature(h, t)
             \/ \E v \in Volumes : Commands!SetVolume(h, v)
             \/ \E c \in Capacities : Commands!SetMinimumHeatCapacity(h, c)
             \/ \E d \in Deltas \union {0} : Commands!Add(h, d)
             \/ \E r \in Ratios \union {<<2, 1>>} : Commands!Multiply(h, r)
             \/ \E heat \in Heats : Commands!AdjustHeat(h, heat)
             \/ \E t \in Temperatures, c \in Capacities, r \in Ratios :
                  Commands!TemperatureShareNonGas(h, t, c, r)
           pair(a, b) ==
             \/ Commands!CopyFrom(a, b) \/ Commands!EqualizeWith(a, b) \/ Commands!Merge(a, b)
             \/ \E r \in Ratios :
                  \/ Commands!TemperatureShare(a, b, r) \/ Commands!RemoveRatioInto(a, b, r) \/ Commands!TransferRatio(a, b, r)
                  \/ \E mask \in SUBSET Gases : Commands!TransferGases(a, b, r, mask)
                  \/ \E oneWay \in BOOLEAN : Commands!ShareRatio(a, b, r, oneWay)
             \/ \E n \in Amounts :
                  \/ Commands!RemoveAmountInto(a, b, n) \/ Commands!TransferAmount(a, b, n)
                  \/ \E mask \in SUBSET Gases : Commands!TransferByFlags(a, b, n, mask)
                  \/ Commands!ApplyMixtureState(<<a>>, n) \/ Commands!ApplyMixtureState(<<a, b>>, n)
<1>1. Commands!Named \in SUBSET Handles
  BY DEF Commands!Named
<1>2. \/ \E h \in Commands!Named : single(h)
      \/ \E a, b \in Commands!Named : pair(a, b)
      \/ \E hs \in SUBSET Commands!Named : Commands!ReconcilePipenet(hs)
  BY Zenon DEF Commands!Next
<1>3. ASSUME NEW h \in Handles, single(h)
      PROVE  Outcome
  BY <1>3, SingleOutcome
<1>4. ASSUME NEW a \in Handles, NEW b \in Handles, pair(a, b)
      PROVE  Outcome
  BY <1>4, PairOutcome
<1> HIDE DEF single, pair
<1>5. ASSUME NEW hs \in SUBSET Handles, Commands!ReconcilePipenet(hs)
      PROVE  Outcome
  <2>1. CommandStep("transfer") /\ (AllMutable => Conserved("transfer"))
    BY <1>5, ReconcilePipenetStep DEF CommandsInv, AllMutable
  <2>2. "transfer" # "upload"
    OBVIOUS
  <2> QED
    BY <2>1, <2>2 DEF Outcome
<1> QED
  BY <1>1, <1>2, <1>3, <1>4, <1>5

\* Mixtures start as records, and nothing has been read.
LEMMA CommandsInitial ==
  ASSUME Commands!Init
  PROVE  CommandsInv
<1>1. \A n \in InitialMoles, t \in Temperatures, c \in Capacities :
        [Commands!NewRecord EXCEPT !.gases = [g \in Gases |-> IF g = 1 THEN n ELSE 0],
                          !.temperature = t, !.minimum = c] \in Records
  <2> SUFFICES ASSUME NEW n \in InitialMoles, NEW t \in Temperatures, NEW c \in Capacities
               PROVE  [Commands!NewRecord EXCEPT !.gases = [g \in Gases |-> IF g = 1 THEN n ELSE 0],
                                        !.temperature = t, !.minimum = c] \in Records
    OBVIOUS
  <2> DEFINE zero == [g \in Gases |-> 0]
             x == [g \in Gases |-> IF g = 1 THEN n ELSE 0]
  <2>1. Commands!NewRecord = [gases |-> zero, temperature |-> MinimumTemperature, volume |-> 1,
                     minimum |-> 0, immutable |-> FALSE, revision |-> 0]
    BY DEF Commands!NewRecord
  <2>2. x \in Moles0 /\ t \in Nat /\ t >= MinimumTemperature /\ c \in Nat /\ 0 \in 0 .. RevisionMax
    BY CommandConstants DEF Moles0
  <2> HIDE DEF zero, x
  <2>3. [Commands!NewRecord EXCEPT !.gases = x, !.temperature = t, !.minimum = c] \in Records
    BY <2>1, <2>2 DEF Records
  <2> QED
    BY <2>3 DEF x
<1>2. mix \in [Handles -> Records]
  <2>1. PICK n \in [Handles -> InitialMoles], t \in [Handles -> Temperatures],
             c \in [Handles -> Capacities] :
          mix = [h \in Handles |->
                   [Commands!NewRecord EXCEPT
                      !.gases = [g \in Gases |-> IF g = 1 THEN n[h] ELSE 0],
                      !.temperature = t[h], !.minimum = c[h]]]
    BY Zenon DEF Commands!Init
  <2>2. \A h \in Handles : n[h] \in InitialMoles /\ t[h] \in Temperatures /\ c[h] \in Capacities
    OBVIOUS
  <2> QED
    BY <1>1, <2>1, <2>2
<1>3. seen = [h \in Handles |-> Commands!Unread]
  BY DEF Commands!Init
<1> QED
  BY <1>2, <1>3 DEF CommandsInv, SeenInv

\* Every step keeps the invariant: what was read stays behind what is.
LEMMA CommandsKept ==
  ASSUME CommandsInv, Outcome
  PROVE  CommandsInv'
<1>1. /\ mix \in [Handles -> Records] /\ seen \in [Handles -> Records \cup {Commands!Unread}]
      /\ \A h \in Handles : seen[h] # Commands!Unread =>
           /\ seen[h] \in Records /\ seen[h].revision <= mix[h].revision
           /\ seen[h].revision = mix[h].revision => Settled(seen[h]) = Settled(mix[h])
  BY DEF CommandsInv, SeenInv
<1>2. ASSUME mix' \in [Handles -> Records], seen' \in [Handles -> Records \cup {Commands!Unread}],
             \A h \in Handles : seen'[h] # Commands!Unread =>
               /\ seen'[h] \in Records /\ seen'[h].revision <= mix'[h].revision
               /\ seen'[h].revision = mix'[h].revision => Settled(seen'[h]) = Settled(mix'[h])
      PROVE  CommandsInv'
  BY <1>2 DEF CommandsInv, SeenInv, Settled, Commands!Unread, Commands!Canonical
<1>3. ASSUME mix' = mix, NEW k \in Handles, seen' = [seen EXCEPT ![k] = mix[k]]
      PROVE  CommandsInv'
  <2>1. mix' \in [Handles -> Records] /\ seen' \in [Handles -> Records \cup {Commands!Unread}]
    BY <1>1, <1>3
  <2>2. ASSUME NEW h \in Handles, seen'[h] # Commands!Unread
        PROVE  /\ seen'[h] \in Records /\ seen'[h].revision <= mix'[h].revision
               /\ seen'[h].revision = mix'[h].revision => Settled(seen'[h]) = Settled(mix'[h])
    <3>1. CASE h = k
      <4>1. seen'[h] = mix[h] /\ mix'[h] = mix[h] /\ mix[h] \in Records
        BY <1>1, <1>3, <3>1
      <4>2. mix[h].revision <= mix[h].revision
        BY <4>1, CommandConstants DEF Records
      <4> QED
        BY <4>1, <4>2
    <3>2. CASE h # k
      <4>1. seen'[h] = seen[h] /\ mix'[h] = mix[h]
        BY <1>1, <1>3, <3>2
      <4> QED
        BY <1>1, <2>2, <4>1
    <3> QED
      BY <3>1, <3>2
  <2> QED
    BY <1>2, <2>1, <2>2
<1>4. ASSUME NEW kind, CommandStep(kind)
      PROVE  CommandsInv'
  <2>1. mix' \in [Handles -> Records] /\ seen' = seen
    BY <1>1, <1>4, CommandedRecords DEF CommandStep
  <2>2. ASSUME NEW h \in Handles, seen[h] # Commands!Unread
        PROVE  /\ seen[h] \in Records /\ seen[h].revision <= mix'[h].revision
               /\ seen[h].revision = mix'[h].revision => Settled(seen[h]) = Settled(mix'[h])
    <3> DEFINE m == mix[h]
               n == mix'[h]
    <3>1. /\ seen[h] \in Records /\ seen[h].revision <= m.revision
          /\ seen[h].revision = m.revision => Settled(seen[h]) = Settled(m)
      BY <1>1, <2>2
    <3>2. seen[h].revision \in Nat /\ m.revision \in Nat
      BY <1>1, <3>1, CommandConstants DEF Records
    <3>3. n = m \/ Bumped(m, n) \/ Dropped(m, n)
      BY <1>4 DEF CommandStep, Commanded
    <3> HIDE DEF m, n
    <3>4. /\ seen[h].revision <= n.revision
          /\ seen[h].revision = n.revision => Settled(seen[h]) = Settled(n)
      <4>1. CASE n = m
        BY <3>1, <4>1
      <4>2. CASE Bumped(m, n)
        BY <3>1, <3>2, <4>2 DEF Bumped
      <4>3. CASE Dropped(m, n)
        BY <3>1, <4>3 DEF Dropped
      <4> QED
        BY <3>3, <4>1, <4>2, <4>3
    <3> QED
      BY <3>1, <3>4 DEF n
  <2> QED
    BY <1>1, <1>2, <2>1, <2>2
<1> QED
  BY <1>3, <1>4 DEF Outcome

\* The invariant holds of the commands.
THEOREM CommandsInvariant == Commands!Spec => []CommandsInv
<1>1. Commands!Init => CommandsInv
  BY CommandsInitial
<1>2. CommandsInv /\ [Commands!Next]_commandVars => CommandsInv'
  <2>1. CASE Commands!Next
    BY <2>1, EveryOutcome, CommandsKept
  <2>2. ASSUME CommandsInv, UNCHANGED commandVars
        PROVE  CommandsInv'
    BY <2>2 DEF commandVars, CommandsInv, SeenInv, Settled, Commands!Unread, Commands!Canonical
  <2> QED
    BY <2>1, <2>2
<1> QED
  BY <1>1, <1>2, PTL DEF Commands!Spec, Commands!vars, commandVars

\* Amounts stay in range, immutable mixtures as they are, gas where it is.
LEMMA RangesHold ==
  ASSUME CommandsInv
  PROVE  Commands!TypeOK
BY DEF CommandsInv, Records, Moles0, Commands!TypeOK

\* No outcome of a command changes an immutable mixture.
LEMMA ImmutableKept ==
  ASSUME CommandsInv, Outcome
  PROVE  \A h \in Handles : mix[h].immutable => mix'[h] = mix[h]
BY DEF Outcome, CommandStep, Commanded, Bumped, Dropped

\* An accepted upload changes a mixture only while it holds what the caller read of it.
LEMMA FreshKept ==
  ASSUME CommandsInv, Outcome, last' = "upload", NEW h \in Handles, mix'[h] # mix[h]
  PROVE  [seen[h] EXCEPT !.gases = Commands!Canonical(@)] = [mix[h] EXCEPT !.gases = Commands!Canonical(@)]
<1>1. PICK kind : CommandStep(kind) /\ (kind = "upload" => Fresh)
  BY DEF Outcome
<1>2. Fresh
  BY <1>1 DEF CommandStep
<1> QED
  BY <1>2 DEF Fresh, Settled

\* A command that moves gas between mixtures that may change creates none, and loses traces at
\* most, unless it is the one that removes gas.
LEMMA MovesKept ==
  ASSUME CommandsInv, Outcome, commands' # commands,
         last' \in {"transfer", "select", "remove"}, Commands!NoneImmutable,
         \A g \in Gases : Commands!Moles(g) <= FloatMax
  PROVE  \A g \in Gases :
           /\ Commands!Moles(g)' <= Commands!Moles(g)
           /\ last' # "remove" =>
                Commands!Moles(g) - Commands!Moles(g)' <= Commands!Cardinality(Handles) * (MinimumMoles + Accuracy)
<1>1. PICK kind : /\ CommandStep(kind)
                  /\ kind \in {"transfer", "select", "remove"} /\ AllMutable => Conserved(kind)
  BY DEF Outcome
<1>2. kind = last'
  BY <1>1 DEF CommandStep
<1>3. Conserved(kind)
  BY <1>1, <1>2 DEF Commands!NoneImmutable, AllMutable
<1>4. \A g \in Gases : Commands!Moles(g) = MolesOf(mix, g) /\ Commands!Moles(g)' = MolesOf(mix', g)
  BY CommandSums, Zenon DEF Commands!Moles, MolesOf
<1>5. Commands!Cardinality(Handles) = Cardinality(Handles)
  BY CommandSums
<1> QED
  BY <1>2, <1>3, <1>4, <1>5 DEF Conserved

\* No command creates gas or loses more than traces of what it moves, none changes an
\* immutable mixture, none leaves the range of the numbers.
THEOREM ConserveTheorem ==
  Commands!Spec => /\ Commands!MovesConserve /\ Commands!ImmutableFixed
                   /\ []Commands!TypeOK
<1>1. CommandsInv => Commands!TypeOK
  BY RangesHold
<1>2. CommandsInv /\ [Commands!Next]_commandVars =>
        [\A h \in Handles : mix[h].immutable => mix'[h] = mix[h]]_commandVars
  BY EveryOutcome, ImmutableKept
<1>3. CommandsInv /\ [Commands!Next]_commandVars =>
        [(commands' # commands /\ last' \in {"transfer", "select", "remove"} /\ Commands!NoneImmutable
          /\ \A g \in Gases : Commands!Moles(g) <= FloatMax) =>
           \A g \in Gases :
             /\ Commands!Moles(g)' <= Commands!Moles(g)
             /\ last' # "remove" =>
                  Commands!Moles(g) - Commands!Moles(g)'
                    <= Commands!Cardinality(Handles) * (MinimumMoles + Accuracy)]_commandVars
  BY EveryOutcome, MovesKept
<1> QED
  BY <1>1, <1>2, <1>3, CommandsInvariant, PTL
     DEF Commands!Spec, Commands!vars, commandVars, Commands!MovesConserve, Commands!ImmutableFixed

\* A state is accepted only while the mixture holds what it was computed from.
THEOREM FreshTheorem == Commands!Spec => Commands!UploadFresh
<1>1. CommandsInv /\ [Commands!Next]_commandVars =>
        [last' = "upload" =>
           \A h \in Handles : mix'[h] # mix[h] =>
             [seen[h] EXCEPT !.gases = Commands!Canonical(@)]
               = [mix[h] EXCEPT !.gases = Commands!Canonical(@)]]_commandVars
  BY EveryOutcome, FreshKept
<1> QED
  BY <1>1, CommandsInvariant, PTL
     DEF Commands!Spec, Commands!vars, commandVars, Commands!UploadFresh

\* The instance of the runs keeps to the commands.
THEOREM CommandsRefine == MCSpec => Commands!Spec
<1>1. MCInit => Commands!Init
  BY DEF MCInit
<1>2. [MCNext]_allVars => [Commands!Next]_commandVars
  BY DEF MCNext, CommandsNext, PassesNext, allVars, commandVars
<1> QED
  BY <1>1, <1>2, PTL DEF MCSpec, Commands!Spec, Commands!vars, commandVars

\* The properties of the runs, for every value of the constants.
THEOREM CommandsTheorem == MCSpec => CommandsConserve
BY ConserveTheorem, CommandsRefine DEF CommandsConserve

\* The state a caller computed is written only over the content it was computed from.
THEOREM UploadTheorem == MCSpec => UploadFresh
BY FreshTheorem, CommandsRefine DEF UploadFresh
=============================================================================
