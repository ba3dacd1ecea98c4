------------------------ MODULE QueryCatalogueProofs -------------------------
(* Theorems about getQueries, for any catalogue and any version.           *)
(*                                                                         *)
(* What the fold over the keys computes needs an induction.  It is done    *)
(* with a set of sets for the predicate: no operator is a parameter, so    *)
(* that the lemma can be used like any other.                              *)
EXTENDS QueryCatalogue, FiniteSetTheorems, FunctionTheorems,
        TLAPS

(* A family that has a set whenever it has all those with a member less    *)
(* has every subset of a finite set.                                       *)
LEMMA Induction ==
  ASSUME NEW S, IsFiniteSet(S), NEW family,
         \A T \in SUBSET S : (\A x \in T : T \ {x} \in family) => T \in family
  PROVE  SUBSET S \subseteq family
<1> DEFINE Others == (SUBSET S) \ family
<1>1. SUFFICES ASSUME Others # {} PROVE FALSE
  OBVIOUS
<1>2. FiniteSubsetsOf(S) = SUBSET S
  BY FS_FiniteSubsetsOfFinite
<1>3. PICK T \in Others :
        \A U \in Others : <<U, T>> \notin StrictSubsetOrdering(S)
  <2>1. IsWellFoundedOn(StrictSubsetOrdering(S), SUBSET S)
    BY <1>2, FS_StrictSubsetOrderingWellFounded
  <2> QED BY <1>1, <2>1, WFMin
<1>4. PICK x \in T : T \ {x} \in Others
  OBVIOUS
<1>5. <<T \ {x}, T>> \in StrictSubsetOrdering(S)
  BY <1>4 DEF StrictSubsetOrdering
<1> QED BY <1>3, <1>4, <1>5

(* The largest member of a finite set of integers.                         *)
IsLargest(x, S) == x \in S /\ \A y \in S : x >= y

LEMMA LargestExists ==
  ASSUME NEW S \in SUBSET Int, IsFiniteSet(S), S # {}
  PROVE  IsLargest(Max(S), S)
<1> DEFINE family == {T \in SUBSET S : T # {} => \E x : IsLargest(x, T)}
<1>1. ASSUME NEW T \in SUBSET S, \A x \in T : T \ {x} \in family
      PROVE  T \in family
  <2> SUFFICES ASSUME NEW x \in T PROVE \E y : IsLargest(y, T)
    OBVIOUS
  <2>1. CASE T \ {x} = {}
    <3>1. IsLargest(x, T)
      BY <2>1 DEF IsLargest
    <3> QED BY <3>1
  <2>2. CASE T \ {x} # {}
    <3>1. PICK y : IsLargest(y, T \ {x})
      BY <1>1, <2>2
    <3>2. IsLargest(x, T) \/ IsLargest(y, T)
      BY <3>1 DEF IsLargest
    <3> QED BY <3>2
  <2> QED BY <2>1, <2>2
<1>2. SUBSET S \subseteq family
  <2> HIDE DEF family
  <2> QED BY <1>1, Induction
<1>3. PICK x : IsLargest(x, S)
  BY <1>2
<1> QED BY <1>3 DEF IsLargest, Max

(* There is only one.                                                      *)
LEMMA LargestIsUnique ==
  ASSUME NEW S \in SUBSET Int, NEW x, NEW y, IsLargest(x, S), IsLargest(y, S)
  PROVE  x = y
BY DEF IsLargest

-----------------------------------------------------------------------------
(* The order of the keys.                                                  *)

Increasing(order) ==
  \A i, j \in DOMAIN order : i < j => order[i] < order[j]

(* Every finite set of integers can be put in order: each one goes to the  *)
(* place that says how many are not above it.                              *)
LEMMA OrderExists ==
  ASSUME NEW keys \in SUBSET Int, IsFiniteSet(keys)
  PROVE  \E order \in SetToSeqs(keys) : Increasing(order)
<1> DEFINE n == Cardinality(keys)
           Below(k) == {other \in keys : other <= k}
           place == [k \in keys |-> Cardinality(Below(k))]
<1>1. n \in Nat /\ IsFiniteSet(1..n) /\ Cardinality(1..n) = n
  <2>1. n \in Nat
    BY FS_CardinalityType
  <2> HIDE DEF n
  <2> QED BY <2>1, FS_Interval
<1>2. ASSUME NEW k \in keys
      PROVE  IsFiniteSet(Below(k)) /\ Cardinality(Below(k)) \in 1..n
  <2>1. Below(k) \in SUBSET keys /\ Below(k) # {}
    OBVIOUS
  <2>2. IsFiniteSet(Below(k)) /\ Cardinality(Below(k)) <= n
    BY <2>1, FS_Subset
  <2>3. Cardinality(Below(k)) \in Nat /\ Cardinality(Below(k)) # 0
    BY <2>1, <2>2, FS_CardinalityType, FS_EmptySet
  <2> HIDE DEF Below, n
  <2> QED BY <1>1, <2>2, <2>3
<1>3. ASSUME NEW k \in keys, NEW l \in keys, k < l
      PROVE  place[k] < place[l]
  <2>1. Below(k) \in SUBSET Below(l) /\ l \in Below(l) /\ l \notin Below(k)
    <3>1. k \in Int /\ l \in Int /\ \A m \in keys : m \in Int
      OBVIOUS
    <3>2. l <= l /\ ~(l <= k)
      BY <1>3, <3>1
    <3>3. \A m \in keys : m <= k => m <= l
      BY <1>3, <3>1
    <3> QED BY <3>2, <3>3
  <2>2. /\ Cardinality(Below(k)) <= Cardinality(Below(l))
        /\ Cardinality(Below(k)) # Cardinality(Below(l))
    BY <1>2, <2>1, FS_Subset
  <2>3. Cardinality(Below(k)) \in 1..n /\ Cardinality(Below(l)) \in 1..n
    BY <1>2
  <2>4. place[k] = Cardinality(Below(k)) /\ place[l] = Cardinality(Below(l))
    OBVIOUS
  <2> HIDE DEF Below, n, place
  <2> QED BY <2>2, <2>3, <2>4
<1>4. place \in [keys -> 1..n]
  BY <1>2
<1> HIDE DEF n, place
<1>5. place \in Surjection(keys, 1..n)
  <2>1. \A k, l \in keys : place[k] = place[l] => k = l
    <3> SUFFICES ASSUME NEW k \in keys, NEW l \in keys, place[k] = place[l],
                        k # l
                 PROVE  FALSE
      OBVIOUS
    <3>1. place[k] \in 1..n
      BY <1>4
    <3>2. k < l \/ l < k
      OBVIOUS
    <3> QED BY <1>1, <1>3, <3>1, <3>2
  <2>2. place \in Injection(keys, 1..n)
    BY <1>4, <2>1, Fun_IsInj
  <2> QED BY <1>1, <2>2, FS_Injection DEF n
<1> DEFINE order == [i \in 1..n |-> CHOOSE k \in keys : place[k] = i]
<1>6. ASSUME NEW i \in 1..n PROVE order[i] \in keys /\ place[order[i]] = i
  <2>1. \E k \in keys : place[k] = i
    BY <1>5 DEF Surjection
  <2> QED BY <2>1
<1>7. order \in [1..n -> keys] /\ DOMAIN order = 1..n
  BY <1>6
<1> HIDE DEF order
<1>8. order \in SetToSeqs(keys)
  BY <1>6, <1>7 DEF SetToSeqs, n
<1>9. Increasing(order)
  <2> SUFFICES ASSUME NEW i \in 1..n, NEW j \in 1..n, i < j
               PROVE  order[i] < order[j]
    BY <1>7 DEF Increasing
  <2>1. /\ order[i] \in keys /\ place[order[i]] = i
        /\ order[j] \in keys /\ place[order[j]] = j
    BY <1>6
  <2>2. order[j] < order[i] => j < i
    BY <1>3, <2>1
  <2>3. i # j /\ ~(j < i)
    BY <1>1
  <2>4. order[i] \in Int /\ order[j] \in Int
    BY <2>1
  <2> HIDE DEF Below
  <2> QED BY <2>1, <2>2, <2>3, <2>4
<1> QED BY <1>8, <1>9

(* KeyOrder has every key once, the lower ones first.                      *)
LEMMA KeyOrderOrders ==
  ASSUME NEW keys \in SUBSET Int, IsFiniteSet(keys)
  PROVE  LET n == Cardinality(keys)
             order == KeyOrder(keys)
         IN  /\ n \in Nat
             /\ order \in [1..n -> keys]
             /\ \A k \in keys : \E i \in 1..n : order[i] = k
             /\ \A i, j \in 1..n : i < j => order[i] < order[j]
<1> DEFINE n == Cardinality(keys)
           order == KeyOrder(keys)
<1>1. order \in SetToSeqs(keys) /\ Increasing(order)
  BY OrderExists DEF KeyOrder, Increasing
<1>2. n \in Nat
  BY FS_CardinalityType
<1> HIDE DEF order
<1>3. order \in [1..n -> keys] /\ \A i, j \in 1..n : i # j => order[i] # order[j]
  BY <1>1 DEF SetToSeqs
<1>4. order \in Surjection(1..n, keys)
  <2>1. order \in Injection(1..n, keys)
    BY <1>3, Fun_IsInj
  <2>2. Cardinality(1..n) = n
    <3> HIDE DEF n
    <3> QED BY <1>2, FS_Interval
  <2> QED BY <2>1, <2>2, FS_Injection
<1>5. \A k \in keys : \E i \in 1..n : order[i] = k
  BY <1>4 DEF Surjection
<1>6. DOMAIN order = 1..n
  BY <1>3
<1> QED BY <1>1, <1>2, <1>3, <1>5, <1>6 DEF order, Increasing

-----------------------------------------------------------------------------
(* The loop over the keys.                                                 *)

(* What is reached among the keys at the places in s, and the last of it.  *)
ReachedAt(order, version, s) == {i \in s : version >= order[i]}

LastReached(order, version, s) ==
  IF ReachedAt(order, version, s) = {} THEN NoSql
  ELSE order[Max(ReachedAt(order, version, s))]

(* The equation of the fold: the last place decides, or the ones before.   *)
IsLoop(f, order, version, D) ==
  f = [s \in SUBSET D |->
         IF s = {} THEN NoSql
         ELSE IF version >= order[Max(s)] THEN order[Max(s)]
                                          ELSE f[s \ {Max(s)}]]

(* The last reached place among some is the last of them, if it is         *)
(* reached, and otherwise that among the others.                           *)
LEMMA LastReachedStep ==
  ASSUME NEW n \in Nat, NEW order \in [1..n -> Int], NEW version \in Int,
         NEW s \in SUBSET (1..n), s # {}
  PROVE  /\ Max(s) \in s
         /\ LastReached(order, version, s) =
              IF version >= order[Max(s)] THEN order[Max(s)]
              ELSE LastReached(order, version, s \ {Max(s)})
<1>1. ASSUME NEW T \in SUBSET s PROVE IsFiniteSet(T) /\ T \in SUBSET Int
  <2>1. IsFiniteSet(1..n) /\ T \in SUBSET (1..n)
    BY FS_Interval
  <2>2. IsFiniteSet(T)
    BY <2>1, FS_Subset
  <2> QED BY <2>1, <2>2
<1>2. IsLargest(Max(s), s)
  BY <1>1, LargestExists
<1>3. CASE version >= order[Max(s)]
  <2> DEFINE reached == ReachedAt(order, version, s)
  <2>1. reached \in SUBSET s /\ IsLargest(Max(s), reached)
    BY <1>2, <1>3 DEF ReachedAt, IsLargest
  <2>2. reached # {}
    BY <2>1 DEF IsLargest
  <2>3. IsLargest(Max(reached), reached)
    BY <1>1, <2>1, <2>2, LargestExists
  <2>4. Max(reached) = Max(s)
    BY <1>1, <2>1, <2>3, LargestIsUnique
  <2> QED BY <1>2, <1>3, <2>2, <2>4 DEF LastReached, IsLargest
<1>4. CASE ~(version >= order[Max(s)])
  <2>1. ReachedAt(order, version, s) = ReachedAt(order, version, s \ {Max(s)})
    BY <1>4 DEF ReachedAt
  <2> QED BY <1>2, <1>4, <2>1 DEF LastReached, IsLargest
<1> QED BY <1>3, <1>4

(* LastReached is a solution of the equation, and there is no other.       *)
LEMMA LoopIsLastReached ==
  ASSUME NEW n \in Nat, NEW order \in [1..n -> Int], NEW version \in Int
  PROVE  /\ \E f : IsLoop(f, order, version, 1..n)
         /\ \A f : IsLoop(f, order, version, 1..n) =>
              f[1..n] = LastReached(order, version, 1..n)
<1> DEFINE D == 1..n
           best == [s \in SUBSET D |-> LastReached(order, version, s)]
<1>1. LastReached(order, version, {}) = NoSql
  BY DEF LastReached, ReachedAt
<1>2. IsLoop(best, order, version, D)
  <2>1. ASSUME NEW s \in SUBSET D
        PROVE  best[s] =
                 IF s = {} THEN NoSql
                 ELSE IF version >= order[Max(s)] THEN order[Max(s)]
                                                  ELSE best[s \ {Max(s)}]
    <3>1. CASE s = {}
      BY <1>1, <3>1
    <3>2. CASE s # {}
      <4>1. s \ {Max(s)} \in SUBSET D
        OBVIOUS
      <4>2. /\ best[s] = LastReached(order, version, s)
            /\ best[s \ {Max(s)}] = LastReached(order, version, s \ {Max(s)})
        BY <4>1
      <4>3. LastReached(order, version, s) =
              IF version >= order[Max(s)] THEN order[Max(s)]
              ELSE LastReached(order, version, s \ {Max(s)})
        BY <3>2, LastReachedStep
      <4> HIDE DEF best
      <4> QED BY <3>2, <4>2, <4>3
    <3> QED BY <3>1, <3>2
  <2> QED BY <2>1 DEF IsLoop
<1>3. ASSUME NEW f, IsLoop(f, order, version, D)
      PROVE  f[D] = LastReached(order, version, D)
  <2> DEFINE family == {s \in SUBSET D : f[s] = LastReached(order, version, s)}
  <2>1. ASSUME NEW s \in SUBSET D
        PROVE  f[s] = IF s = {} THEN NoSql
                      ELSE IF version >= order[Max(s)] THEN order[Max(s)]
                                                       ELSE f[s \ {Max(s)}]
    BY <1>3 DEF IsLoop
  <2>2. ASSUME NEW s \in SUBSET D, \A x \in s : s \ {x} \in family
        PROVE  s \in family
    <3>1. CASE s = {}
      BY <1>1, <2>1, <3>1
    <3>2. CASE s # {}
      <4>1. /\ Max(s) \in s
            /\ LastReached(order, version, s) =
                 IF version >= order[Max(s)] THEN order[Max(s)]
                 ELSE LastReached(order, version, s \ {Max(s)})
        BY <3>2, LastReachedStep
      <4>2. f[s \ {Max(s)}] = LastReached(order, version, s \ {Max(s)})
        BY <2>2, <4>1
      <4> QED BY <2>1, <3>2, <4>1, <4>2
    <3> QED BY <3>1, <3>2
  <2>3. SUBSET D \subseteq family
    <3>1. IsFiniteSet(D)
      BY FS_Interval
    <3> HIDE DEF family
    <3> QED BY <2>2, <3>1, Induction
  <2> QED BY <2>3
<1> QED BY <1>2, <1>3

(* The fold of getQueries is a choice of such a function.                  *)
LEMMA ApplicableSqlIsLoop ==
  ASSUME NEW keys, NEW version
  PROVE  LET order == KeyOrder(keys)
         IN  ApplicableSql(keys, version) =
               (CHOOSE f : IsLoop(f, order, version, DOMAIN order))[DOMAIN order]
BY DEF ApplicableSql, FoldLeft, MapThenFoldSet, IsLoop

(* The last key that is reached, in the order of the keys, is the highest. *)
LEMMA ApplicableSqlIsHighest ==
  ASSUME NEW keys \in SUBSET Nat, IsFiniteSet(keys), NEW version \in Nat
  PROVE  /\ Reached(keys, version) = {} => ApplicableSql(keys, version) = NoSql
         /\ Reached(keys, version) # {} =>
              IsLargest(ApplicableSql(keys, version), Reached(keys, version))
<1> DEFINE n == Cardinality(keys)
           order == KeyOrder(keys)
           places == ReachedAt(order, version, 1..n)
<1>0. version \in Int /\ \A k \in keys : k \in Int
  OBVIOUS
<1>1. /\ n \in Nat
      /\ order \in [1..n -> keys]
      /\ \A k \in keys : \E i \in 1..n : order[i] = k
      /\ \A i, j \in 1..n : i < j => order[i] < order[j]
  BY KeyOrderOrders
<1>2. ApplicableSql(keys, version) = LastReached(order, version, 1..n)
  <2>1. ApplicableSql(keys, version) =
          (CHOOSE f : IsLoop(f, order, version, 1..n))[1..n]
    <3>1. DOMAIN order = 1..n
      BY <1>1
    <3> QED BY <3>1, ApplicableSqlIsLoop
  <2> HIDE DEF n, order
  <2>2. order \in [1..n -> Int] /\ version \in Int
    <3>1. \A i \in 1..n : order[i] \in keys
      BY <1>1
    <3>2. order = [i \in 1..n |-> order[i]]
      BY <1>1
    <3> QED BY <1>0, <3>1, <3>2
  <2> QED BY <1>1, <2>1, <2>2, LoopIsLastReached
<1>3. IsFiniteSet(places) /\ places \in SUBSET Int
  <2>1. places \in SUBSET (1..n)
    BY DEF ReachedAt
  <2>2. IsFiniteSet(1..n)
    <3> HIDE DEF n
    <3> QED BY <1>1, FS_Interval
  <2>3. IsFiniteSet(places)
    BY <2>1, <2>2, FS_Subset
  <2> QED BY <2>1, <2>3
<1> HIDE DEF n, order
<1>4. CASE places = {}
  <2>1. Reached(keys, version) = {}
    BY <1>1, <1>4 DEF Reached, ReachedAt
  <2> QED BY <1>2, <1>4, <2>1 DEF LastReached
<1>5. CASE places # {}
  <2> DEFINE last == Max(places)
  <2>1. IsLargest(last, places)
    BY <1>3, <1>5, LargestExists
  <2>2. last \in 1..n /\ order[last] \in Reached(keys, version)
    BY <1>1, <2>1 DEF IsLargest, ReachedAt, Reached
  <2>3. ASSUME NEW k \in Reached(keys, version) PROVE order[last] >= k
    <3>1. PICK i \in 1..n : order[i] = k
      BY <1>1 DEF Reached
    <3>2. i \in places
      BY <3>1 DEF Reached, ReachedAt
    <3>3. i <= last
      BY <2>1, <3>2 DEF IsLargest
    <3>4. i = last \/ i < last
      BY <2>2, <3>3
    <3>5. order[i] \in Int /\ order[last] \in Int
      <4>1. order[i] \in keys /\ order[last] \in keys
        BY <1>1, <2>2
      <4> QED BY <1>0, <4>1
    <3>6. order[i] = order[last] \/ order[i] < order[last]
      BY <1>1, <2>2, <3>4
    <3> QED BY <3>1, <3>5, <3>6
  <2>4. ApplicableSql(keys, version) = order[last]
    BY <1>2, <1>5 DEF LastReached
  <2> QED BY <2>2, <2>3, <2>4 DEF IsLargest
<1> QED BY <1>4, <1>5

(* For every catalogue of the schema and every version, getQueries chooses *)
(* exactly the queries that have a SQL text for the version, and of each   *)
(* the text of the highest version that is reached: its loop is right      *)
(* because the keys come in order.                                         *)
THEOREM ChoosesBest ==
  ASSUME NEW catalogue, SchemaValid(catalogue), NEW version \in Nat
  PROVE  getQueries(catalogue, version) = BestQueries(catalogue, version)
<1> DEFINE Choice(query) ==
             CHOOSE key \in Reached(query.versionToSql, version) :
               \A other \in Reached(query.versionToSql, version) : other <= key
<1>1. ASSUME NEW query \in catalogue
      PROVE  /\ ApplicableSql(query.versionToSql, version) # NoSql <=>
                  Reached(query.versionToSql, version) # {}
             /\ Reached(query.versionToSql, version) # {} =>
                  ApplicableSql(query.versionToSql, version) = Choice(query)
  <2> DEFINE reached == Reached(query.versionToSql, version)
             sql == ApplicableSql(query.versionToSql, version)
  <2>1. IsFiniteSet(query.versionToSql) /\ query.versionToSql \in SUBSET Nat
    BY DEF SchemaValid
  <2>2. /\ reached = {} => sql = NoSql
        /\ reached # {} => IsLargest(sql, reached)
    BY <2>1, ApplicableSqlIsHighest
  <2>3. reached \in SUBSET Nat
    BY <2>1 DEF Reached
  <2> HIDE DEF reached, sql
  <2>4. IsLargest(sql, reached) => sql # NoSql
    BY <2>3 DEF IsLargest, NoSql
  <2>5. IsLargest(sql, reached) =>
          sql = CHOOSE key \in reached : \A other \in reached : other <= key
    <3> SUFFICES ASSUME IsLargest(sql, reached)
                 PROVE  sql = CHOOSE key \in reached :
                                \A other \in reached : other <= key
      OBVIOUS
    <3>1. sql \in reached /\ \A other \in reached : other <= sql
      BY <2>3 DEF IsLargest
    <3>2. \A key \in reached : (\A other \in reached : other <= key) => key = sql
      BY <2>3, <3>1
    <3> QED BY <3>1, <3>2
  <2> QED BY <2>2, <2>4, <2>5 DEF reached, sql
<1> QED BY <1>1 DEF getQueries, BestQueries

(* The catalogue of the file is good for every version there may be:       *)
(* neither the schema nor the assertion of getQueries is ever violated.    *)
THEOREM CatalogueAccepted ==
  ASSUME NEW version \in Nat
  PROVE  Accepts(QUERIES, version)
<1>1. SchemaValid(QUERIES)
  <2> SUFFICES ASSUME NEW query \in QUERIES
               PROVE  /\ IsFiniteSet(query.versionToSql)
                      /\ query.versionToSql # {}
                      /\ query.versionToSql \subseteq Nat
                      /\ All \in query.versionToSql => query.versionToSql = {All}
    BY DEF SchemaValid
  <2>1. query.versionToSql \in {{0}, {90400, 100000}, {90600}}
    BY DEF QUERIES, TableQueries, WalQueries, DatabaseQueries, SizeQueries,
           VacuumQueries, PlainQuery, All
  <2>2. /\ query.versionToSql \in SUBSET Nat
        /\ \A key \in query.versionToSql : key <= 100000
    BY <2>1
  <2>3. IsFiniteSet(query.versionToSql)
    BY <2>2, FS_BoundedSetOfNaturals
  <2> QED BY <2>1, <2>3 DEF All
<1>2. getQueries(QUERIES, version) # {}
  <2>1. PlainQuery("pg_stat_database") \in QUERIES
    BY DEF QUERIES, DatabaseQueries
  <2>2. PlainQuery("pg_stat_database").versionToSql = {0}
    BY DEF PlainQuery, All
  <2>3. 0 \in Reached(PlainQuery("pg_stat_database").versionToSql, version)
    BY <2>2 DEF Reached
  <2>4. {q \in QUERIES : Reached(q.versionToSql, version) # {}} # {}
    BY <2>1, <2>3
  <2>5. BestQueries(QUERIES, version) # {}
    BY <2>4 DEF BestQueries
  <2> QED BY <1>1, <2>5, ChoosesBest
<1> QED BY <1>1, <1>2 DEF Accepts
=============================================================================
