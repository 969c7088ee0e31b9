--------------------------- MODULE LRUCacheProofs ---------------------------
(***************************************************************************)
(* Theorems about FixedSizeLRUCache for every capacity, set of keys and    *)
(* hash function.  While removal cannot break a probe (CollisionSafe), it  *)
(* finds everything it stores and implements BoundedMap.                   *)
(***************************************************************************)
EXTENDS LRUCacheHistory, LRUCacheOpsProofs

-----------------------------------------------------------------------------
(* Type correctness and the index.                                         *)

\* The calls keep the type of the cache and its index at once: the size counter
\* stays in range because it counts the entries in use.
LEMMA IndexStep ==
  ASSUME TypeOK, IndexInv, [Next]_vars
  PROVE  TypeOK' /\ IndexInv'
<1> USE DEF TypeOK, IndexInv
<1>1. ASSUME NEW k \in Keys, NEW v \in Values, Put(k, v)
      PROVE  TypeOK' /\ IndexInv'
  <2>1. cache' \in CacheType /\ IndexOK(cache')
    BY <1>1, UpdateIndex, InsertIndex DEF Put, PutCache
  <2>2. res' \in [ok : BOOLEAN, value : Values \cup {NoValue}]
    BY <1>1 DEF Put, Result, PutOk, Contains, CanInsert
  <2>3. QED
    BY <2>1, <2>2
<1>2. ASSUME NEW k \in Keys, Get(k)
      PROVE  TypeOK' /\ IndexInv'
  <2>1. cache' \in CacheType /\ IndexOK(cache')
    BY <1>2, GetIndex DEF Get
  <2>2. Contains(cache, k) => ValueOf(cache, k) \in Values \cup {NoValue}
    BY FindHashSlotFinds DEF ValueOf, CacheType, ValidEntries
  <2>3. res' \in [ok : BOOLEAN, value : Values \cup {NoValue}]
    BY <1>2, <2>2 DEF Get, Result, Contains
  <2>4. QED
    BY <2>1, <2>3
<1>3. ASSUME NEW k \in Keys, Remove(k)
      PROVE  TypeOK' /\ IndexInv'
  <2>1. cache' \in CacheType /\ IndexOK(cache')
    BY <1>3, RemoveIndex DEF Remove
  <2>2. res' \in [ok : BOOLEAN, value : Values \cup {NoValue}]
    BY <1>3 DEF Remove, Result, Contains
  <2>3. QED
    BY <2>1, <2>2
<1>4. CASE Clear
  BY <1>4, ClearIndex DEF Clear, Result
<1>5. CASE UNCHANGED vars
  BY <1>5 DEF vars
<1>6. QED
  BY <1>1, <1>2, <1>3, <1>4, <1>5 DEF Next

\* FixedSizeLRUCache keeps every index, link and counter in range, and its hash
\* table, entries and size counter in agreement, whatever its owner calls.
THEOREM IndexTheorem == Spec => [](TypeOK /\ IndexInv)
<1>1. Init => TypeOK /\ IndexInv
  BY EmptyIndex DEF Init, TypeOK, IndexInv, Result
<1>2. TypeOK /\ IndexInv /\ [Next]_vars => TypeOK' /\ IndexInv'
  BY IndexStep
<1>3. QED
  BY <1>1, <1>2, PTL DEF Spec

\* Whatever its owner calls, every index, link and counter of FixedSizeLRUCache stays in
\* its range; the size counter does because it counts the entries in use.
THEOREM TypeTheorem == Spec => []TypeOK
BY IndexTheorem, PTL

-----------------------------------------------------------------------------
(* The list of entries.                                                    *)

Threaded == ThreadedOver(cache, ValidEntries(cache))

LEMMA ThreadedStep ==
  ASSUME TypeOK, Threaded, [Next]_vars
  PROVE  Threaded'
<1> USE DEF TypeOK, Threaded
<1>1. ASSUME NEW k \in Keys, NEW v \in Values, Put(k, v)
      PROVE  Threaded'
  BY <1>1, UpdateThreads, InsertThreads DEF Put, PutCache
<1>2. ASSUME NEW k \in Keys, Get(k)
      PROVE  Threaded'
  BY <1>2, GetThreads DEF Get
<1>3. ASSUME NEW k \in Keys, Remove(k)
      PROVE  Threaded'
  BY <1>3, RemoveThreads DEF Remove
<1>4. CASE Clear
  <2>1. /\ cache'.head = Nil /\ cache'.tail = Nil
        /\ ValidEntries(cache') = {}
    BY <1>4 DEF Clear, ClearCache, EmptyCache, ValidEntries
  <2>2. QED
    BY <2>1, EmptyThreads
<1>5. CASE UNCHANGED vars
  BY <1>5 DEF vars
<1>6. QED
  BY <1>1, <1>2, <1>3, <1>4, <1>5 DEF Next

LEMMA InitThreaded == Init => Threaded
<1> SUFFICES ASSUME Init PROVE Threaded
  OBVIOUS
<1>1. cache.head = Nil /\ cache.tail = Nil /\ ValidEntries(cache) = {}
  BY DEF Init, EmptyCache, ValidEntries
<1>2. QED
  BY <1>1, EmptyThreads DEF Threaded

\* The links of FixedSizeLRUCache form a doubly linked list of exactly the
\* entries in use, whatever its owner calls.
THEOREM LinksTheorem == Spec => []LinksInv
<1>1. Init => Threaded
  BY InitThreaded
<1>2. TypeOK /\ Threaded /\ [Next]_vars => Threaded'
  BY ThreadedStep
<1>3. Threaded => LinksInv
  BY DEF Threaded, ThreadedOver, LinksInv, LinksOK
<1>4. QED
  BY <1>1, <1>2, <1>3, IndexTheorem, PTL DEF Spec
-----------------------------------------------------------------------------
(* A walk along the list.                                                  *)

\* The walk is what its definition says: there is a function that satisfies it.
LEMMA WalkSteps ==
  /\ Walk[0] = cache.head
  /\ \A n \in Nat : Walk[n + 1] = IF Walk[n] = Nil THEN Nil ELSE cache.next[Walk[n]]
<1> DEFINE step(f, n) == IF n = 0 THEN cache.head
                         ELSE IF f[n - 1] = Nil THEN Nil ELSE cache.next[f[n - 1]]
           Starts(f, k) == \A n \in 0 .. k : f[n] = step(f, n)
           begun(k) == CHOOSE f : Starts(f, k)
           whole == [n \in Nat |-> begun(n)[n]]
<1>1. Walk = CHOOSE f : f = [n \in Nat |-> step(f, n)]
  BY DEF Walk
<1>2. /\ \A f : step(f, 0) = cache.head
      /\ \A f, g, n : f[n - 1] = g[n - 1] => step(f, n) = step(g, n)
      /\ \A f : \A n \in Nat :
           step(f, n + 1) = IF f[n] = Nil THEN Nil ELSE cache.next[f[n]]
  <2>1. \A n \in Nat : n + 1 # 0 /\ (n + 1) - 1 = n
    OBVIOUS
  <2>2. QED
    BY <2>1
<1> HIDE DEF step
<1>3. \A f, g, k : Starts(f, k) /\ Starts(g, k) /\ k \in Nat => f[k] = g[k]
  <2> SUFFICES ASSUME NEW f, NEW g, NEW k \in Nat, Starts(f, k), Starts(g, k)
               PROVE  f[k] = g[k]
    OBVIOUS
  <2> DEFINE Bad == {n \in 0 .. k : f[n] # g[n]}
  <2>1. SUFFICES ASSUME Bad # {} PROVE FALSE
    BY DEF Bad
  <2>2. PICK n \in Bad : \A m \in Bad : n <= m
    <3>1. Bad \subseteq Nat
      OBVIOUS
    <3> HIDE DEF Bad
    <3>2. QED
      BY <2>1, <3>1, LeastExists
  <2>3. n \in 0 .. k /\ f[n] # g[n] /\ f[n] = step(f, n) /\ g[n] = step(g, n)
    OBVIOUS
  <2>4. n # 0
    BY <1>2, <2>3
  <2>5. n - 1 \in 0 .. k /\ n - 1 \notin Bad
    BY <2>2, <2>3, <2>4
  <2>6. f[n - 1] = g[n - 1]
    BY <2>5
  <2>7. QED
    BY <1>2, <2>3, <2>6
<1>4. \A k \in Nat : \E f : Starts(f, k)
  <2> DEFINE Bad == {k \in Nat : ~ \E f : Starts(f, k)}
  <2>1. SUFFICES ASSUME Bad # {} PROVE FALSE
    OBVIOUS
  <2>2. PICK k \in Bad : \A j \in Bad : k <= j
    <3>1. Bad \subseteq Nat
      OBVIOUS
    <3> HIDE DEF Bad
    <3>2. QED
      BY <2>1, <3>1, LeastExists
  <2>3. k \in Nat /\ ~ \E f : Starts(f, k)
    OBVIOUS
  <2>4. k # 0
    <3> DEFINE f == [n \in {0} |-> cache.head]
    <3>1. SUFFICES ASSUME k = 0 PROVE Starts(f, k)
      BY <2>3
    <3>2. f[0] = step(f, 0)
      BY <1>2
    <3>3. QED
      BY <3>1, <3>2
  <2>5. k - 1 \in Nat /\ k - 1 \notin Bad
    BY <2>2, <2>3, <2>4
  <2>6. PICK f : Starts(f, k - 1)
    BY <2>5
  <2> DEFINE g == [n \in 0 .. k |-> IF n = k THEN step(f, k) ELSE f[n]]
  <2>7. g[k] = step(f, k) /\ \A n \in 0 .. (k - 1) : g[n] = f[n]
    BY <2>3
  <2> HIDE DEF g
  <2>8. \A n \in 0 .. k : g[n] = step(f, n) /\ step(f, n) = step(g, n)
    <3> TAKE n \in 0 .. k
    <3>1. g[n] = step(f, n)
      <4>1. n = k \/ n \in 0 .. (k - 1)
        BY <2>3
      <4>2. QED
        BY <2>6, <2>7, <4>1
    <3>2. step(f, n) = step(g, n)
      <4>1. n = 0 \/ n - 1 \in 0 .. (k - 1)
        BY <2>3
      <4>2. QED
        BY <1>2, <2>7, <4>1
    <3>3. QED
      BY <3>1, <3>2
  <2>9. Starts(g, k)
    BY <2>8
  <2>10. QED
    BY <2>3, <2>9
<1>5. \A k \in Nat : Starts(begun(k), k)
  BY <1>4
<1>6. \A f, k : k + 1 \in Nat /\ k \in Nat /\ Starts(f, k + 1) => Starts(f, k)
  OBVIOUS
<1>7. \A n \in Nat : whole[n] = begun(n)[n]
  OBVIOUS
<1> HIDE DEF begun, whole
<1>8. \A n \in Nat : whole[n] = step(whole, n)
  <2> TAKE n \in Nat
  <2>1. whole[n] = step(begun(n), n)
    BY <1>5, <1>7
  <2>2. CASE n = 0
    BY <1>2, <2>1, <2>2
  <2>3. CASE n # 0
    <3>1. n - 1 \in Nat /\ (n - 1) + 1 = n
      BY <2>3
    <3>2. Starts(begun(n), n - 1) /\ Starts(begun(n - 1), n - 1)
      BY <1>5, <1>6, <3>1
    <3>3. begun(n)[n - 1] = whole[n - 1]
      BY <1>3, <1>7, <3>1, <3>2
    <3>4. QED
      BY <1>2, <2>1, <3>3
  <2>4. QED
    BY <2>2, <2>3
<1>9. whole = [n \in Nat |-> step(whole, n)]
  BY <1>8 DEF whole
<1>10. Walk = [n \in Nat |-> step(Walk, n)]
  BY <1>1, <1>9
<1>11. \A n \in Nat : Walk[n] = step(Walk, n)
  BY <1>10
<1>12. \A n \in Nat : Walk[n + 1] = step(Walk, n + 1)
  BY <1>11
<1>13. QED
  BY <1>2, <1>11, <1>12

\* Along the walk the ranks grow, so it ends; and no entry in use is left out, for the
\* one of least rank that was would follow one that was not.
LEMMA WalkCovers ==
  ASSUME TypeOK, IndexInv, Threaded
  PROVE  ListCoversEntries
<1> DEFINE V == ValidEntries(cache)
<1>1. ListOver(cache, V) /\ V \in SUBSET Entries
  BY DEF Threaded, ThreadedOver, ValidEntries
<1>2. PICK bound \in Nat, rank \in [Entries -> Nat] : Ranks(cache, V, rank, bound)
  BY DEF Threaded, ThreadedOver
<1>3. Nil \notin Entries /\ Nil \notin V
  BY DEF Nil, Entries, ValidEntries
<1> HIDE DEF V
<1>4. \A n \in Nat : Walk[n] \in V \cup {Nil}
  <2> DEFINE S == {n \in Nat : Walk[n] \in V \cup {Nil}}
  <2>1. 0 \in S
    BY <1>1, WalkSteps DEF ListOver
  <2>2. ASSUME NEW n \in Nat, n \in S PROVE n + 1 \in S
    BY <1>1, <2>2, WalkSteps DEF ListOver
  <2> HIDE DEF S
  <2>3. \A n \in Nat : n \in S
    BY <2>1, <2>2, AllNumbers
  <2>4. QED
    BY <2>3 DEF S
<1>5. \A n \in Nat : Walk[n + 1] # Nil =>
        /\ Walk[n] \in V /\ Walk[n + 1] \in V /\ Walk[n + 1] = cache.next[Walk[n]]
        /\ rank[Walk[n]] < rank[Walk[n + 1]]
  <2> SUFFICES ASSUME NEW n \in Nat, Walk[n + 1] # Nil
               PROVE  /\ Walk[n] \in V /\ Walk[n + 1] \in V /\ Walk[n + 1] = cache.next[Walk[n]]
                      /\ rank[Walk[n]] < rank[Walk[n + 1]]
    OBVIOUS
  <2>1. Walk[n] # Nil /\ Walk[n + 1] = cache.next[Walk[n]]
    BY WalkSteps
  <2>2. Walk[n] \in V /\ Walk[n + 1] \in V
    BY <1>4, <2>1
  <2>3. QED
    BY <1>2, <2>1, <2>2 DEF Ranks
<1>6. \A n \in Nat : Walk[n] # Nil => rank[Walk[n]] >= n
  <2> DEFINE S == {n \in Nat : Walk[n] # Nil => rank[Walk[n]] >= n}
  <2>1. \A i \in V : rank[i] \in Nat
    BY <1>1
  <2>2. 0 \in S
    BY <1>4, <2>1
  <2>3. ASSUME NEW n \in Nat, n \in S PROVE n + 1 \in S
    <3>1. SUFFICES ASSUME Walk[n + 1] # Nil PROVE rank[Walk[n + 1]] >= n + 1
      OBVIOUS
    <3>2. /\ Walk[n] \in V /\ Walk[n + 1] \in V
          /\ rank[Walk[n]] < rank[Walk[n + 1]]
      BY <1>5, <3>1
    <3>3. rank[Walk[n]] >= n
      BY <1>3, <2>3, <3>2
    <3>4. QED
      BY <2>1, <3>2, <3>3
  <2> HIDE DEF S
  <2>4. \A n \in Nat : n \in S
    BY <2>2, <2>3, AllNumbers
  <2>5. QED
    BY <2>4 DEF S
<1>7. PICK size \in Nat : Walk[size] = Nil /\ \A n \in 0 .. size - 1 : Walk[n] \in V
  <2> DEFINE T == {n \in Nat : Walk[n] = Nil}
  <2>1. bound + 1 \in T
    <3>1. SUFFICES ASSUME Walk[bound + 1] # Nil PROVE FALSE
      OBVIOUS
    <3>2. Walk[bound + 1] \in Entries /\ rank[Walk[bound + 1]] >= bound + 1
      BY <1>1, <1>4, <1>6, <3>1
    <3>3. QED
      BY <1>2, <3>2 DEF Ranks
  <2>2. PICK size \in T : \A n \in T : size <= n
    <3>1. T \subseteq Nat
      OBVIOUS
    <3> HIDE DEF T
    <3>2. QED
      BY <2>1, <3>1, LeastExists
  <2>3. size \in Nat /\ Walk[size] = Nil
    OBVIOUS
  <2>4. \A n \in 0 .. size - 1 : Walk[n] \in V
    <3> TAKE n \in 0 .. size - 1
    <3>1. n \in Nat /\ n \notin T
      BY <2>2, <2>3
    <3>2. QED
      BY <1>4, <3>1
  <2>5. QED
    BY <2>3, <2>4
<1>8. \A m, n \in 0 .. size - 1 : m < n => rank[Walk[m]] < rank[Walk[n]]
  <2> SUFFICES ASSUME NEW m \in 0 .. size - 1
               PROVE  \A n \in 0 .. size - 1 : m < n => rank[Walk[m]] < rank[Walk[n]]
    OBVIOUS
  <2> DEFINE S == {n \in Nat : n \in 0 .. size - 1 /\ m < n => rank[Walk[m]] < rank[Walk[n]]}
  <2>1. \A n \in 0 .. size - 1 : rank[Walk[n]] \in Nat
    BY <1>1, <1>7
  <2>2. 0 \in S
    OBVIOUS
  <2>3. ASSUME NEW n \in Nat, n \in S PROVE n + 1 \in S
    <3>1. SUFFICES ASSUME n + 1 \in 0 .. size - 1, m < n + 1
                   PROVE  rank[Walk[m]] < rank[Walk[n + 1]]
      OBVIOUS
    <3>2. n \in 0 .. size - 1 /\ (m = n \/ m < n)
      BY <1>7, <3>1
    <3>3. rank[Walk[n]] < rank[Walk[n + 1]]
      BY <1>3, <1>5, <1>7, <3>1
    <3>4. m < n => rank[Walk[m]] < rank[Walk[n]]
      BY <2>3, <3>2
    <3>5. QED
      BY <2>1, <3>1, <3>2, <3>3, <3>4
  <2> HIDE DEF S
  <2>4. \A n \in Nat : n \in S
    BY <2>2, <2>3, AllNumbers
  <2>5. QED
    BY <1>7, <2>4 DEF S
<1>9. \A i \in V : \E n \in 0 .. size - 1 : Walk[n] = i
  <2> DEFINE Out == {i \in V : \A n \in 0 .. size - 1 : Walk[n] # i}
  <2>1. SUFFICES ASSUME Out # {} PROVE FALSE
    OBVIOUS
  <2>2. PICK i \in Out : \A j \in Out : rank[i] <= rank[j]
    <3>1. Out \in SUBSET Entries /\ \A j \in Entries : rank[j] <= bound
      BY <1>1, <1>2 DEF Ranks
    <3> HIDE DEF Out
    <3>2. QED
      BY <2>1, <3>1, EndsExist
  <2>3. i \in V /\ cache.head # Nil /\ size # 0
    BY <1>1, <1>7, WalkSteps DEF ListOver
  <2>4. cache.head # i
    <3>1. 0 \in 0 .. size - 1
      BY <1>7, <2>3
    <3>2. QED
      BY <3>1, WalkSteps
  <2> DEFINE p == cache.prev[i]
  <2>5. p \in V /\ cache.next[p] = i
    BY <1>1, <2>3, <2>4 DEF ListOver
  <2>6. rank[p] < rank[i] /\ rank[p] \in Nat /\ rank[i] \in Nat
    BY <1>1, <1>2, <2>3, <2>5 DEF Ranks
  <2>7. p \notin Out
    <3>1. p \in Out => rank[i] <= rank[p]
      BY <2>2
    <3> HIDE DEF Out, p
    <3>2. QED
      BY <2>6, <3>1
  <2>8. PICK n \in 0 .. size - 1 : Walk[n] = p
    BY <2>5, <2>7
  <2>9. n \in Nat /\ n + 1 \in 0 .. size
    BY <1>7
  <2>10. Walk[n + 1] = i
    BY <1>3, <2>5, <2>8, <2>9, WalkSteps
  <2>11. n + 1 # size
    BY <1>3, <1>7, <2>3, <2>10
  <2>12. n + 1 \in 0 .. size - 1
    BY <1>7, <2>9, <2>11
  <2>13. QED
    BY <2>10, <2>12
<1>10. {Walk[n] : n \in 0 .. size - 1} = V
  BY <1>7, <1>9
<1>11. cache.currentSize = size
  <2> DEFINE walked == [n \in 0 .. size - 1 |-> Walk[n]]
             steps == 0 .. size - 1
  <2>1. walked \in [steps -> V] /\ \A n \in steps : walked[n] = Walk[n]
    BY <1>7
  <2>2. \A m, n \in steps : walked[m] = walked[n] => m = n
    <3> SUFFICES ASSUME NEW m \in steps, NEW n \in steps, Walk[m] = Walk[n], m # n
                 PROVE  FALSE
      BY <2>1
    <3>1. rank[Walk[m]] \in Nat /\ rank[Walk[n]] \in Nat
      BY <1>1, <1>7
    <3>2. m < n \/ n < m
      OBVIOUS
    <3>3. rank[Walk[m]] < rank[Walk[n]] \/ rank[Walk[n]] < rank[Walk[m]]
      BY <1>8, <3>2
    <3>4. QED
      BY <3>1, <3>3
  <2>3. \A i \in V : \E n \in steps : walked[n] = i
    BY <1>9, <2>1
  <2>4. IsFiniteSet(steps) /\ Cardinality(steps) = size
    BY <1>7, FS_Interval
  <2> HIDE DEF walked, steps
  <2>5. walked \in Bijection(steps, V)
    BY <2>1, <2>2, <2>3 DEF Bijection, Injection, Surjection, IsInjective
  <2>6. Cardinality(V) = size
    BY <2>4, <2>5, FS_Bijection DEF ExistsBijection
  <2>7. QED
    BY <2>6 DEF IndexInv, IndexOK, V
<1>12. QED
  BY <1>7, <1>10, <1>11 DEF ListCoversEntries, V

\* A walk along next from the head (printCache) visits every entry in use exactly once
\* and then ends, after any sequence of calls: as many steps as the size counter says.
THEOREM WalkTheorem == Spec => []ListCoversEntries
<1>1. Spec => [](TypeOK /\ IndexInv /\ Threaded)
  <2>1. TypeOK /\ Threaded /\ [Next]_vars => Threaded'
    BY ThreadedStep
  <2>2. QED
    BY <2>1, InitThreaded, IndexTheorem, PTL DEF Spec
<1>2. TypeOK /\ IndexInv /\ Threaded => ListCoversEntries
  BY WalkCovers
<1>3. QED
  BY <1>1, <1>2, PTL

-----------------------------------------------------------------------------
(* What a probe finds.                                                     *)

ReachInv == Reach(cache)

LEMMA ReachStep ==
  ASSUME CollisionSafe, TypeOK, IndexInv, ReachInv, [Next]_vars
  PROVE  ReachInv'
<1> USE DEF TypeOK, IndexInv, ReachInv
<1>1. ASSUME NEW k \in Keys, NEW v \in Values, Put(k, v)
      PROVE  ReachInv'
  BY <1>1, UpdateReach, InsertReach DEF Put, PutCache
<1>2. ASSUME NEW k \in Keys, Get(k)
      PROVE  ReachInv'
  BY <1>2, GetReach DEF Get
<1>3. ASSUME NEW k \in Keys, Remove(k)
      PROVE  ReachInv'
  BY <1>3, RemoveReach DEF Remove
<1>4. CASE Clear
  <2>1. ValidEntries(cache') = {} /\ UsedSlots(cache') = {}
    BY <1>4 DEF Clear, ClearCache, EmptyCache, ValidEntries, UsedSlots, EmptySlots
  <2>2. QED
    BY <2>1, EmptyReach
<1>5. CASE UNCHANGED vars
  BY <1>5 DEF vars
<1>6. QED
  BY <1>1, <1>2, <1>3, <1>4, <1>5 DEF Next

LEMMA ReachAlways ==
  ASSUME CollisionSafe
  PROVE  Spec => [](TypeOK /\ IndexInv /\ ReachInv)
<1>1. Init => ReachInv
  <2> SUFFICES ASSUME Init PROVE ReachInv
    OBVIOUS
  <2>1. ValidEntries(cache) = {} /\ UsedSlots(cache) = {}
    BY DEF Init, EmptyCache, ValidEntries, UsedSlots, EmptySlots
  <2>2. QED
    BY <2>1, EmptyReach DEF ReachInv
<1>2. TypeOK /\ IndexInv /\ ReachInv /\ [Next]_vars => ReachInv'
  BY ReachStep
<1>3. QED
  BY <1>1, <1>2, IndexTheorem, PTL DEF Spec

\* While nothing is removed, or no two names share a home slot, every key that
\* FixedSizeLRUCache stores is found by its probe, and none is stored twice.
THEOREM NothingLostTheorem == CollisionSafe => (Spec => [](NoLostEntry /\ UniqueKeys))
<1>1. SUFFICES ASSUME CollisionSafe PROVE Spec => [](NoLostEntry /\ UniqueKeys)
  OBVIOUS
<1>2. TypeOK /\ IndexInv /\ ReachInv => NoLostEntry /\ UniqueKeys
  BY ReachFinds DEF TypeOK, IndexInv, ReachInv, Reach, NoLostEntry, NothingLost, UniqueKeys, KeyAt
<1>3. Spec => [](TypeOK /\ IndexInv /\ ReachInv)
  BY <1>1, ReachAlways
<1>4. QED
  BY <1>2, <1>3, PTL

-----------------------------------------------------------------------------
(* Every call is a call of the bounded map.                                *)

LEMMA MapStep ==
  ASSUME CollisionSafe, TypeOK, IndexInv, ReachInv, [Next]_vars
  PROVE  [Map!Next]_(Map!vars)
<1> USE DEF TypeOK, IndexInv, ReachInv
<1>1. /\ \A k \in Keys : k \in Map!Present <=> Contains(cache, k)
      /\ Map!Cardinality(Map!Present) = cache.currentSize
  <2>1. \A S : Map!Cardinality(S) = Cardinality(S)
    BY Zenon DEF Map!Cardinality, Cardinality
  <2>2. QED
    BY <2>1, PresentCounted DEF Map!Present, Contents
<1>2. ASSUME NEW k \in Keys, NEW v \in Values, Put(k, v)
      PROVE  Map!Put(k, v)
  <2>1. CASE Contains(cache, k)
    <3>1. Contents' = [Contents EXCEPT ![k] = v]
      BY <1>2, <2>1, UpdateContents DEF Put, PutCache, Contents
    <3>2. QED
      BY <1>1, <1>2, <2>1, <3>1 DEF Map!Put, Map!Result, Put, Result, PutOk, Contains
  <2>2. CASE ~Contains(cache, k) /\ CanInsert(cache, k)
    <3>1. Contents' = [Contents EXCEPT ![k] = v]
      BY <1>2, <2>2, InsertContents DEF Put, PutCache, Contents
    <3>2. Map!Cardinality(Map!Present) < MaxSize
      BY <1>1, <2>2 DEF CanInsert
    <3>3. QED
      BY <1>2, <2>2, <3>1, <3>2 DEF Map!Put, Map!Result, Put, Result, PutOk, Contains
  <2>3. CASE ~Contains(cache, k) /\ ~CanInsert(cache, k)
    <3>1. Contents' = Contents
      BY <1>2, <2>3 DEF Put, PutCache, Contents
    <3>2. k \notin Map!Present /\ ~(Map!Cardinality(Map!Present) < MaxSize)
      BY <1>1, <2>3, RoomForNewKey
    <3>3. QED
      BY <1>2, <2>3, <3>1, <3>2 DEF Map!Put, Map!Result, Put, Result, PutOk, Contains
  <2>4. QED
    BY <2>1, <2>2, <2>3
<1>3. ASSUME NEW k \in Keys, Get(k)
      PROVE  Map!Get(k)
  <2>1. CASE Contains(cache, k)
    <3>1. cache.hashTable[FindHashSlot(cache, k)] \in Entries
      BY <2>1, FindHashSlotFinds DEF ValidEntries
    <3>2. Contents' = Contents
      BY <1>3, <2>1, <3>1, MoveToFrontType, ContentsIgnoreLinks DEF Get, GetCache, Contents
    <3>3. ValueOf(cache, k) = Contents[k]
      BY <2>1, FindHashSlotFinds, ContentsAt DEF ValueOf, Contents
    <3>4. QED
      BY <1>1, <1>3, <2>1, <3>2, <3>3 DEF Map!Get, Map!Result, Get, Result, Contains
  <2>2. CASE ~Contains(cache, k)
    <3>1. Contents' = Contents
      BY <1>3, <2>2 DEF Get, GetCache, Contents
    <3>2. Contents[k] = NoValue
      BY <1>1, <2>2 DEF Map!Present
    <3>3. QED
      BY <1>1, <1>3, <2>2, <3>1, <3>2 DEF Map!Get, Map!Result, Get, Result, Contains
  <2>3. QED
    BY <2>1, <2>2
<1>4. ASSUME NEW k \in Keys, Remove(k)
      PROVE  Map!Remove(k)
  <2>1. Removable # {}
    BY <1>4 DEF Remove
  <2>2. Contents' = [Contents EXCEPT ![k] = NoValue]
    BY <1>4, <2>1, RemoveContents DEF Remove, Contents
  <2>3. QED
    BY <1>1, <1>4, <2>2 DEF Map!Remove, Map!Result, Remove, Result, Contains
<1>5. CASE Clear
  <2>1. ValidEntries(cache') = {}
    BY <1>5 DEF Clear, ClearCache, EmptyCache, ValidEntries
  <2>2. Contents' = [k \in Keys |-> NoValue]
    BY <2>1, EmptyContents DEF Contents
  <2>3. Map!Clear
    BY <1>5, <2>2 DEF Map!Clear, Map!Result, Clear, Result
  <2>4. QED
    BY <2>3 DEF Map!Next
<1>6. CASE UNCHANGED vars
  BY <1>6 DEF vars, Map!vars, Contents
<1>7. QED
  BY <1>2, <1>3, <1>4, <1>5, <1>6 DEF Next, Map!Next

\* While nothing is removed, or no two names share a home slot,
\* FixedSizeLRUCache is a bounded map: a stored key can always be read and
\* updated, a new one is refused only when MaxSize keys are stored, and nothing
\* disappears unless it is removed or cleared.
THEOREM RefinementTheorem == CollisionSafe => (Spec => ImplementsBoundedMap)
<1>1. SUFFICES ASSUME CollisionSafe PROVE Spec => ImplementsBoundedMap
  OBVIOUS
<1>2. Init => Map!Init
  <2> SUFFICES ASSUME Init PROVE Map!Init
    OBVIOUS
  <2>1. ValidEntries(cache) = {}
    BY DEF Init, EmptyCache, ValidEntries
  <2>2. QED
    BY <2>1, EmptyContents DEF Init, Map!Init, Map!Result, Result, Contents
<1>3. TypeOK /\ IndexInv /\ ReachInv /\ [Next]_vars => [Map!Next]_(Map!vars)
  BY <1>1, MapStep
<1>4. Spec => [](TypeOK /\ IndexInv /\ ReachInv)
  BY <1>1, ReachAlways
<1>5. QED
  BY <1>2, <1>3, <1>4, PTL DEF Spec, ImplementsBoundedMap, Map!Spec

-----------------------------------------------------------------------------
(* The order of last use.                                                  *)

\* The entries of V, which hold the keys given, are linked in an order R of keys.
InOrder(c, V, key, R) ==
  \A i \in V : c.next[i] # Nil => <<key[i], key[c.next[i]]>> \in R

TransitiveOn(R) == \A j, k, l : <<j, k>> \in R /\ <<k, l>> \in R => <<j, l>> \in R

LEMMA PushFrontOrder ==
  ASSUME NEW c \in CacheType, NEW V \in SUBSET Entries,
         NEW i \in Entries, i \notin V, NEW key, NEW R, InOrder(c, V, key, R),
         c.head # Nil => <<key[i], key[c.head]>> \in R
  PROVE  InOrder(PushFront(c, i), V \cup {i}, key, R)
<1> DEFINE p == PushFront(c, i)
<1>1. p.next[i] = c.head /\ \A j \in V : p.next[j] = c.next[j]
  BY DEF PushFront, CacheType
<1> HIDE DEF p
<1>2. InOrder(p, V \cup {i}, key, R)
  BY <1>1 DEF InOrder
<1>3. QED
  BY <1>2 DEF p

\* Without an entry, the one before it is linked to the one after it.
LEMMA UnlinkedOrder ==
  ASSUME NEW c, NEW V, Nil \notin V, ListOver(c, V), NEW i \in V,
         NEW key, NEW R, TransitiveOn(R), InOrder(c, V, key, R),
         NEW r, \A j \in V \ {i} : r.next[j] = IF j = c.prev[i] THEN c.next[i] ELSE c.next[j]
  PROVE  InOrder(r, V \ {i}, key, R)
<1> SUFFICES ASSUME NEW j \in V \ {i}, r.next[j] # Nil
             PROVE  <<key[j], key[r.next[j]]>> \in R
  BY DEF InOrder
<1>1. CASE j = c.prev[i]
  <2>1. j # Nil /\ c.next[j] = i /\ i # Nil /\ r.next[j] = c.next[i]
    BY <1>1 DEF ListOver
  <2>2. <<key[j], key[i]>> \in R /\ <<key[i], key[c.next[i]]>> \in R
    BY <2>1 DEF InOrder
  <2>3. QED
    BY <2>1, <2>2 DEF TransitiveOn
<1>2. CASE j # c.prev[i]
  BY <1>2 DEF InOrder
<1>3. QED
  BY <1>1, <1>2

LEMMA RemoveFromListOrder ==
  ASSUME NEW c \in CacheType, NEW V \in SUBSET Entries, ListOver(c, V), NEW i \in V,
         NEW key, NEW R, TransitiveOn(R), InOrder(c, V, key, R)
  PROVE  InOrder(RemoveFromList(c, i), V \ {i}, key, R)
<1> DEFINE r == RemoveFromList(c, i)
<1>1. Nil \notin V
  BY DEF Nil, Entries
<1>2. \A j \in V \ {i} : r.next[j] = IF j = c.prev[i] THEN c.next[i] ELSE c.next[j]
  BY <1>1 DEF RemoveFromList, Link, CacheType
<1> HIDE DEF r
<1>3. InOrder(r, V \ {i}, key, R)
  BY <1>1, <1>2, UnlinkedOrder
<1>4. QED
  BY <1>3 DEF r

\* An entry moved to the front precedes the others, which keep their order.
LEMMA MoveToFrontOrder ==
  ASSUME NEW c \in CacheType, NEW V \in SUBSET Entries, ListOver(c, V), NEW i \in V,
         NEW key, NEW R, TransitiveOn(R), InOrder(c, V, key, R),
         NEW S,
         \A j \in V \ {i} : <<key[i], key[j]>> \in S,
         \A j, l \in V \ {i} : <<key[j], key[l]>> \in R => <<key[j], key[l]>> \in S
  PROVE  InOrder(MoveToFront(c, i), V, key, S)
<1> DEFINE u == [c EXCEPT !.next = Link(c.next, c.prev[i], c.next[i]),
                          !.prev = Link(c.prev, c.next[i], c.prev[i]),
                          !.tail = IF i = c.tail THEN c.prev[i] ELSE c.tail]
<1>1. Nil \notin V /\ Nil \notin Entries
  BY DEF Nil, Entries
<1>2. CASE i = c.head
  <2>1. \A j \in V : c.next[j] # Nil => c.next[j] \in V \ {i}
    BY <1>1, <1>2 DEF ListOver
  <2>2. InOrder(c, V, key, S)
    BY <2>1 DEF InOrder
  <2>3. QED
    BY <1>2, <2>2 DEF MoveToFront
<1>3. CASE i # c.head
  <2>1. u \in CacheType
    BY DEF CacheType, Link
  <2>2. c.prev[i] # Nil /\ c.head \in V \ {i}
    BY <1>3 DEF ListOver
  <2>3. /\ u.head = c.head
        /\ \A j \in V \ {i} : u.next[j] = IF j = c.prev[i] THEN c.next[i] ELSE c.next[j]
    BY <1>1, <2>2 DEF Link, CacheType
  <2> HIDE DEF u
  <2>4. InOrder(u, V \ {i}, key, R)
    BY <1>1, <2>3, UnlinkedOrder
  <2>5. \A j \in V \ {i} : u.next[j] # Nil => u.next[j] \in V \ {i}
    BY <1>1, <2>3 DEF ListOver
  <2>6. InOrder(u, V \ {i}, key, S)
    BY <2>4, <2>5 DEF InOrder
  <2>7. InOrder(PushFront(u, i), (V \ {i}) \cup {i}, key, S)
    BY <2>1, <2>2, <2>3, <2>6, PushFrontOrder
  <2>8. (V \ {i}) \cup {i} = V
    OBVIOUS
  <2>9. QED
    BY <1>3, <2>7, <2>8 DEF MoveToFront, u
<1>4. QED
  BY <1>2, <1>3

\* The keys stored.
Stored(c) == {c.key[i] : i \in ValidEntries(c)}

\* The history relates stored keys only, in an order that the list keeps.
OrderInv ==
  /\ newer \subseteq Stored(cache) \X Stored(cache)
  /\ TransitiveOn(newer)
  /\ InOrder(cache, ValidEntries(cache), cache.key, newer)

\* Using a key, or forgetting it, leaves an order of the stored keys: for the keys
\* other than k it is the order before, and k comes first once it is used.
LEMMA HistoryOrders ==
  ASSUME CollisionSafe, TypeOK, IndexInv, ReachInv, OrderInv, NEW k \in Keys
  PROVE  /\ TransitiveOn(Without(k)) /\ TransitiveOn(Using(k))
         /\ Without(k) \subseteq (Stored(cache) \ {k}) \X (Stored(cache) \ {k})
         /\ Using(k) \subseteq (Stored(cache) \cup {k}) \X (Stored(cache) \ {k})
         /\ \A l \in Stored(cache) \ {k} : <<k, l>> \in Using(k)
         /\ \A j, l : j # k /\ l # k /\ <<j, l>> \in newer =>
              <<j, l>> \in Without(k) /\ <<j, l>> \in Using(k)
<1> DEFINE Others == {x \in Keys \ {k} : Contains(cache, x)}
           W == Without(k)
           U == Using(k)
<1>1. Others = Stored(cache) \ {k}
  <2>1. Stored(cache) \subseteq Keys
    BY DEF Stored, ReachInv, Reach, EntriesReal
  <2>2. \A x \in Keys : Contains(cache, x) <=> x \in Stored(cache)
    BY ReachFinds DEF TypeOK, IndexInv, ReachInv, Stored
  <2>3. QED
    BY <2>1, <2>2
<1>2. \A j, l : <<j, l>> \in W <=> <<j, l>> \in newer /\ j # k /\ l # k
  BY DEF Without
<1>3. \A j, l : <<j, l>> \in U <=> <<j, l>> \in W \/ (j = k /\ l \in Stored(cache) \ {k})
  <2>1. U = W \cup {<<k, l>> : l \in Others}
    BY DEF Using
  <2> HIDE DEF W, U, Others
  <2>2. QED
    BY <1>1, <2>1
<1>4. \A j, l : <<j, l>> \in newer => j \in Stored(cache) /\ l \in Stored(cache)
  BY DEF OrderInv
<1>5. W \subseteq (Stored(cache) \ {k}) \X (Stored(cache) \ {k})
  BY DEF OrderInv, Without
<1>6. U \subseteq (Stored(cache) \cup {k}) \X (Stored(cache) \ {k})
  <2>1. U = W \cup {<<k, l>> : l \in Others}
    BY DEF Using
  <2> HIDE DEF W, U, Others
  <2>2. QED
    BY <1>1, <1>5, <2>1
<1> HIDE DEF W, U
<1>7. TransitiveOn(W) /\ TransitiveOn(U)
  BY <1>2, <1>3, <1>4 DEF OrderInv, TransitiveOn
<1>8. QED
  BY <1>2, <1>3, <1>5, <1>6, <1>7 DEF W, U

\* Moving the entry of a key to the front of a cache linked like this one.
LEMMA TouchOrder ==
  ASSUME CollisionSafe, TypeOK, IndexInv, Threaded, ReachInv, OrderInv,
         NEW k \in Keys, Contains(cache, k),
         NEW c \in CacheType, c.next = cache.next, c.prev = cache.prev, c.head = cache.head,
         c.tail = cache.tail, c.key = cache.key, c.valid = cache.valid,
         NEW r, r = MoveToFront(c, cache.hashTable[FindHashSlot(cache, k)])
  PROVE  /\ Using(k) \subseteq Stored(r) \X Stored(r)
         /\ TransitiveOn(Using(k))
         /\ InOrder(r, ValidEntries(r), r.key, Using(k))
<1> DEFINE i == cache.hashTable[FindHashSlot(cache, k)]
           V == ValidEntries(cache)
           key == cache.key
           U == Using(k)
<1>1. i \in V /\ i \in Entries /\ key[i] = k /\ V \in SUBSET Entries
  BY FindHashSlotFinds DEF TypeOK, ValidEntries
<1>2. \A j \in V : key[j] = k => j = i
  BY <1>1 DEF ReachInv, Reach, KeysUnique
<1>3. /\ r = MoveToFront(c, i)
      /\ r.key = key /\ ValidEntries(r) = V /\ Stored(r) = Stored(cache)
  <2>1. SameButLinks(c, r)
    BY <1>1, MoveToFrontType
  <2>2. QED
    BY <2>1 DEF SameButLinks, ValidEntries, Stored
<1>4. ListOver(c, V) /\ InOrder(c, V, key, newer)
  <2>1. ListOver(cache, V) /\ InOrder(cache, V, key, newer)
    BY DEF Threaded, ThreadedOver, OrderInv
  <2>2. QED
    BY <2>1 DEF ListOver, InOrder
<1>5. /\ \A j \in V : key[j] \in Stored(cache)
      /\ k \in Stored(cache)
  BY <1>1 DEF Stored
<1> HIDE DEF i, V, key, U
<1>6. /\ \A j \in V \ {i} : <<key[i], key[j]>> \in U
      /\ \A j, l \in V \ {i} : <<key[j], key[l]>> \in newer => <<key[j], key[l]>> \in U
  BY <1>1, <1>2, <1>5, HistoryOrders DEF U
<1>7. InOrder(r, V, key, U)
  BY <1>1, <1>3, <1>4, <1>6, MoveToFrontOrder DEF OrderInv
<1>8. U \subseteq Stored(cache) \X Stored(cache)
  BY <1>5, HistoryOrders DEF U
<1>9. QED
  BY <1>3, <1>7, <1>8, HistoryOrders DEF U

LEMMA InsertOrder ==
  ASSUME CollisionSafe, TypeOK, IndexInv, Threaded, ReachInv, OrderInv,
         NEW k \in Keys, NEW v \in Values, ~Contains(cache, k), CanInsert(cache, k),
         NEW r, r = Insert(cache, k, v)
  PROVE  /\ Using(k) \subseteq Stored(r) \X Stored(r)
         /\ TransitiveOn(Using(k))
         /\ InOrder(r, ValidEntries(r), r.key, Using(k))
<1> DEFINE i == FindEmptyEntry(cache)
           e == FindEmptyHashSlot(cache, k)
           w == [cache EXCEPT !.key[i] = k, !.value[i] = v, !.valid[i] = TRUE,
                              !.hashTable[e] = i, !.currentSize = cache.currentSize + 1]
           V == ValidEntries(cache)
           U == Using(k)
<1>1. i \in Entries \ V /\ e \in EmptySlots(cache) /\ V \in SUBSET Entries
  BY FindEmptyFinds DEF CanInsert, TypeOK, ValidEntries
<1> HIDE DEF i, e
<1>2. w \in CacheType
  <2>1. cache \in CacheType
    BY DEF TypeOK
  <2>2. /\ [cache.key EXCEPT ![i] = k] \in [Entries -> Keys \cup {NoKey}]
        /\ [cache.value EXCEPT ![i] = v] \in [Entries -> Values \cup {NoValue}]
        /\ [cache.valid EXCEPT ![i] = TRUE] \in [Entries -> BOOLEAN]
        /\ [cache.hashTable EXCEPT ![e] = i] \in [Slots -> Entries \cup {Nil}]
    BY <1>1, <2>1 DEF CacheType
  <2>3. cache.currentSize + 1 \in 0 .. MaxSize
    BY <2>1, CacheAssumption DEF CacheType, CanInsert
  <2>4. QED
    BY <2>1, <2>2, <2>3 DEF CacheType
<1>3. /\ w.next = cache.next /\ w.head = cache.head
      /\ w.key[i] = k /\ \A j \in V : w.key[j] = cache.key[j]
      /\ ValidEntries(w) = V \cup {i}
  BY <1>1 DEF TypeOK, CacheType, ValidEntries
<1> HIDE DEF w
<1>4. r = PushFront(w, i)
  BY DEF Insert, w, i, e
<1>5. SameButLinks(w, r)
  BY <1>1, <1>2, <1>4, PushFrontType
<1>6. ValidEntries(r) = V \cup {i} /\ r.key = w.key
  BY <1>3, <1>5 DEF SameButLinks, ValidEntries
<1>7. Stored(r) = Stored(cache) \cup {k}
  BY <1>1, <1>3, <1>6 DEF Stored
<1>8. ListOver(cache, V) /\ InOrder(cache, V, cache.key, newer)
  BY DEF Threaded, ThreadedOver, OrderInv
<1>9. \A j \in V : cache.key[j] \in Stored(cache) /\ cache.key[j] # k
  <2>1. k \notin Stored(cache)
    BY ReachFinds DEF TypeOK, IndexInv, ReachInv, Stored
  <2>2. QED
    BY <2>1 DEF Stored
<1> HIDE DEF V, U
<1>10. \A j \in V : w.next[j] # Nil => w.next[j] \in V
  BY <1>3, <1>8 DEF ListOver
<1>11. InOrder(w, V, w.key, U)
  BY <1>3, <1>8, <1>9, <1>10, HistoryOrders DEF InOrder, U
<1>12. w.head # Nil => <<w.key[i], w.key[w.head]>> \in U
  BY <1>3, <1>8, <1>9, HistoryOrders DEF ListOver, U
<1>13. InOrder(r, V \cup {i}, w.key, U)
  BY <1>1, <1>2, <1>4, <1>11, <1>12, PushFrontOrder
<1>14. U \subseteq Stored(r) \X Stored(r)
  BY <1>7, HistoryOrders DEF U
<1>15. QED
  BY <1>6, <1>13, <1>14, HistoryOrders DEF U

LEMMA RemoveOrder ==
  ASSUME CollisionSafe, TypeOK, IndexInv, Threaded, ReachInv, OrderInv,
         NEW k \in Keys, Contains(cache, k), NEW r, r = RemoveCache(cache, k)
  PROVE  /\ Without(k) \subseteq Stored(r) \X Stored(r)
         /\ TransitiveOn(Without(k))
         /\ InOrder(r, ValidEntries(r), r.key, Without(k))
<1> DEFINE i == cache.hashTable[FindHashSlot(cache, k)]
           V == ValidEntries(cache)
           key == cache.key
           W == Without(k)
           l == RemoveFromList(cache, i)
<1>1. i \in V /\ i \in Entries /\ key[i] = k /\ V \in SUBSET Entries
  BY FindHashSlotFinds DEF TypeOK, ValidEntries
<1>2. \A j \in V : key[j] = k => j = i
  BY <1>1 DEF ReachInv, Reach, KeysUnique
<1>3. ListOver(cache, V) /\ InOrder(cache, V, key, newer)
  BY DEF Threaded, ThreadedOver, OrderInv
<1>4. cache \in CacheType /\ TransitiveOn(newer)
  BY DEF TypeOK, OrderInv
<1>5. /\ ValidEntries(r) = V \ {i}
      /\ \A j \in V \ {i} : r.key[j] = key[j]
  BY <1>4, RemoveLeaves DEF IndexInv
<1>6. r.next = l.next
  BY <1>1, <1>4, RemoveFromListType DEF RemoveCache, CacheType
<1>7. Stored(r) = Stored(cache) \ {k}
  BY <1>1, <1>2, <1>5 DEF Stored
<1>8. \A j \in V : key[j] \in Stored(cache)
  BY DEF Stored
<1> HIDE DEF i, V, key, W
<1>9. InOrder(l, V \ {i}, key, newer)
  BY <1>1, <1>3, <1>4, RemoveFromListOrder
<1>10. \A j \in V \ {i} : l.next[j] # Nil => l.next[j] \in V \ {i}
  <2>1. Nil \notin V
    BY <1>1 DEF Nil, Entries
  <2>2. l.next[i] = Nil /\ \A j \in V \ {i} : l.next[j] = IF j = cache.prev[i] THEN cache.next[i] ELSE cache.next[j]
    BY <1>1, <1>4, <2>1 DEF RemoveFromList, Link, CacheType
  <2> HIDE DEF l
  <2>3. QED
    BY <1>1, <1>3, <2>1, <2>2 DEF ListOver
<1> HIDE DEF l
<1>11. InOrder(r, V \ {i}, r.key, W)
  BY <1>1, <1>2, <1>5, <1>6, <1>9, <1>10, HistoryOrders DEF InOrder, W
<1>12. QED
  BY <1>5, <1>7, <1>11, HistoryOrders DEF W

LEMMA OrderStep ==
  ASSUME CollisionSafe, TypeOK, IndexInv, Threaded, ReachInv, OrderInv, [NextUsed]_UsedVars
  PROVE  OrderInv'
<1>1. ASSUME NEW k \in Keys, NEW v \in Values, Put(k, v),
             newer' = IF PutOk(cache, k) THEN Using(k) ELSE newer
      PROVE  OrderInv'
  <2>1. CASE Contains(cache, k)
    <3> DEFINE i == cache.hashTable[FindHashSlot(cache, k)]
               c == [cache EXCEPT !.value[i] = v]
    <3>1. /\ c \in CacheType
          /\ c.next = cache.next /\ c.prev = cache.prev /\ c.head = cache.head
          /\ c.tail = cache.tail /\ c.key = cache.key /\ c.valid = cache.valid
      BY <2>1, FindHashSlotFinds DEF TypeOK, CacheType, ValidEntries
    <3>2. cache' = MoveToFront(c, i) /\ newer' = Using(k)
      BY <1>1, <2>1 DEF Put, PutCache, Update, PutOk
    <3> HIDE DEF c
    <3>3. QED
      BY <2>1, <3>1, <3>2, TouchOrder DEF OrderInv
  <2>2. CASE ~Contains(cache, k) /\ CanInsert(cache, k)
    <3>1. cache' = Insert(cache, k, v) /\ newer' = Using(k)
      BY <1>1, <2>2 DEF Put, PutCache, PutOk
    <3>2. QED
      BY <2>2, <3>1, InsertOrder DEF OrderInv
  <2>3. CASE ~PutOk(cache, k)
    BY <1>1, <2>3 DEF Put, PutCache, PutOk, OrderInv
  <2>4. QED
    BY <2>1, <2>2, <2>3 DEF PutOk
<1>2. ASSUME NEW k \in Keys, Get(k),
             newer' = IF Contains(cache, k) THEN Using(k) ELSE newer
      PROVE  OrderInv'
  <2>1. CASE Contains(cache, k)
    <3>1. /\ cache' = MoveToFront(cache, cache.hashTable[FindHashSlot(cache, k)])
          /\ newer' = Using(k) /\ cache \in CacheType
      BY <1>2, <2>1 DEF Get, GetCache, TypeOK
    <3>2. QED
      BY <2>1, <3>1, TouchOrder DEF OrderInv
  <2>2. CASE ~Contains(cache, k)
    BY <1>2, <2>2 DEF Get, GetCache, OrderInv
  <2>3. QED
    BY <2>1, <2>2
<1>3. ASSUME NEW k \in Keys, Remove(k),
             newer' = IF Contains(cache, k) THEN Without(k) ELSE newer
      PROVE  OrderInv'
  <2>1. CASE Contains(cache, k)
    BY <1>3, <2>1, RemoveOrder DEF Remove, OrderInv
  <2>2. CASE ~Contains(cache, k)
    BY <1>3, <2>2 DEF Remove, RemoveCache, OrderInv
  <2>3. QED
    BY <2>1, <2>2
<1>4. CASE Clear /\ newer' = {}
  <2>1. ValidEntries(cache') = {}
    BY <1>4 DEF Clear, ClearCache, EmptyCache, ValidEntries
  <2>2. QED
    BY <1>4, <2>1 DEF OrderInv, TransitiveOn, InOrder
<1>5. CASE UNCHANGED UsedVars
  BY <1>5 DEF UsedVars, vars, OrderInv
<1>6. QED
  BY <1>1, <1>2, <1>3, <1>4, <1>5 DEF NextUsed

\* While nothing is removed, or no two names share a home slot, the list of
\* FixedSizeLRUCache holds its entries in the order in which their keys were last put or
\* got, the most recent first.
THEOREM RecencyTheorem == CollisionSafe => (SpecUsed => []RecencyOrder)
<1>1. SUFFICES ASSUME CollisionSafe PROVE SpecUsed => []RecencyOrder
  OBVIOUS
<1>2. SpecUsed => Spec
  <2>1. InitUsed => Init
    BY DEF InitUsed
  <2>2. [NextUsed]_UsedVars => [Next]_vars
    BY DEF NextUsed, UsedVars, Next
  <2>3. QED
    BY <2>1, <2>2, PTL DEF Spec, SpecUsed
<1>3. Spec => [](TypeOK /\ IndexInv /\ ReachInv)
  BY <1>1, ReachAlways
<1>4. Spec => [](TypeOK /\ Threaded)
  <2>1. TypeOK /\ Threaded /\ [Next]_vars => Threaded'
    BY ThreadedStep
  <2>2. QED
    BY <2>1, InitThreaded, IndexTheorem, PTL DEF Spec
<1>5. InitUsed => OrderInv
  <2> SUFFICES ASSUME InitUsed PROVE OrderInv
    OBVIOUS
  <2>1. ValidEntries(cache) = {} /\ newer = {}
    BY DEF InitUsed, Init, EmptyCache, ValidEntries
  <2>2. QED
    BY <2>1 DEF OrderInv, TransitiveOn, InOrder
<1>6. TypeOK /\ IndexInv /\ Threaded /\ ReachInv /\ OrderInv /\ [NextUsed]_UsedVars => OrderInv'
  BY <1>1, OrderStep
<1>7. OrderInv => RecencyOrder
  BY DEF OrderInv, InOrder, RecencyOrder
<1>8. QED
  BY <1>2, <1>3, <1>4, <1>5, <1>6, <1>7, PTL DEF SpecUsed
=============================================================================
