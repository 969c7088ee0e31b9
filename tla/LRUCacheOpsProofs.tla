------------------------- MODULE LRUCacheOpsProofs -------------------------
(***************************************************************************)
(* Lemmas about the operations of a cache, for every capacity, set of      *)
(* keys and hash function: what each does to the index, to the list, to    *)
(* what a probe can find, and to the map that the cache stands for.        *)
(***************************************************************************)
EXTENDS LRUCacheOps, FiniteSetTheorems, WellFoundedInduction, TLAPS

\* A non-empty set of natural numbers has a least element: what the scans of
\* findHashSlot, findEmptyHashSlot and findEmptyEntry stop at.
LEMMA LeastExists ==
  ASSUME NEW T, T \subseteq Nat, T # {}
  PROVE  \E x \in T : \A y \in T : x <= y
<1> DEFINE U == {0 .. x : x \in T}
           R == StrictSubsetOrdering(Nat)
<1>1. U \subseteq FiniteSubsetsOf(Nat) /\ U # {}
  <2>1. \A x \in T : IsFiniteSet(0 .. x) /\ 0 .. x \in SUBSET Nat
    BY FS_Interval
  <2>2. QED
    BY <2>1 DEF FiniteSubsetsOf
<1>2. PICK u \in U : \A v \in U : ~ (<<v, u>> \in R)
  BY <1>1, FS_StrictSubsetOrderingWellFounded, WFMin
<1>3. PICK x \in T : u = 0 .. x
  BY <1>2
<1>4. ASSUME NEW y \in T, y < x
      PROVE  FALSE
  <2>1. 0 .. y \in U /\ 0 .. y \in SUBSET Nat /\ u \in SUBSET Nat
    BY <1>3
  <2>2. 0 .. y \subseteq u /\ 0 .. y # u
    BY <1>3, <1>4
  <2>3. <<0 .. y, u>> \in R
    BY <2>1, <2>2 DEF StrictSubsetOrdering
  <2>4. QED
    BY <1>2, <2>1, <2>3
<1>5. QED
  BY <1>4

\* Induction, for a set: what holds of 0 and of the successors holds of all numbers.
LEMMA AllNumbers ==
  ASSUME NEW S, 0 \in S, \A n \in Nat : n \in S => n + 1 \in S
  PROVE  \A n \in Nat : n \in S
<1> DEFINE T == {n \in Nat : n \notin S}
<1>1. SUFFICES ASSUME T # {} PROVE FALSE
  OBVIOUS
<1>2. PICK n \in T : \A m \in T : n <= m
  <2>1. T \subseteq Nat
    OBVIOUS
  <2> HIDE DEF T
  <2>2. QED
    BY <1>1, <2>1, LeastExists
<1>3. n \in Nat /\ n \notin S /\ n # 0
  OBVIOUS
<1>4. n - 1 \in Nat /\ n - 1 \notin T /\ (n - 1) + 1 = n
  BY <1>2, <1>3
<1>5. QED
  BY <1>3, <1>4

\* The home of a key is a slot, and a probe reaches each slot at its own
\* distance from the home.
LEMMA ProbeCoversTable ==
  ASSUME NEW k \in Keys
  PROVE  /\ Home(k) \in Slots
         /\ \A s \in Slots : Distance(k, s) \in 0 .. NumSlots - 1
         /\ \A s, t \in Slots : Distance(k, s) = Distance(k, t) => s = t
         /\ \A s \in Slots : Distance(k, s) = 0 <=> s = Home(k)
<1>1. NumSlots \in Nat \ {0}
  BY CacheAssumption DEF NumSlots
<1>2. Home(k) \in Slots
  BY <1>1, CacheAssumption DEF Home, Slots
<1>3. QED
  BY <1>1, <1>2 DEF Distance, Slots

\* A probe that looks for a slot of S stops at one when there is one, and no
\* slot of S is nearer to the home of the key.
LEMMA FirstProbedLeast ==
  ASSUME NEW k \in Keys, NEW S, S \subseteq Slots, S # {}
  PROVE  /\ FirstProbed(k, S) \in S
         /\ \A t \in S : Distance(k, FirstProbed(k, S)) <= Distance(k, t)
<1> DEFINE T == {Distance(k, s) : s \in S}
<1>1. T \subseteq Nat /\ T # {}
  BY ProbeCoversTable
<1>2. PICK x \in T : \A y \in T : x <= y
  BY <1>1, LeastExists
<1>3. \E s \in S : \A t \in S : Distance(k, s) <= Distance(k, t)
  BY <1>2
<1>4. QED
  BY <1>3 DEF FirstProbed

\* What findHashSlot returns is a used slot of the key, if it returns one.
LEMMA FindHashSlotFinds ==
  ASSUME NEW c \in CacheType, NEW k \in Keys, Contains(c, k)
  PROVE  /\ FindHashSlot(c, k) \in UsedSlots(c)
         /\ c.hashTable[FindHashSlot(c, k)] \in ValidEntries(c)
         /\ c.key[c.hashTable[FindHashSlot(c, k)]] = k
  BY DEF Contains, FindHashSlot, SlotsOf, UsedSlots, EmptySlots, ValidEntries, CacheType

\* The empty slot and the free entry that put claims are what their names say.
LEMMA FindEmptyFinds ==
  ASSUME NEW c \in CacheType, NEW k \in Keys
  PROVE  /\ FindEmptyHashSlot(c, k) # Nil => FindEmptyHashSlot(c, k) \in EmptySlots(c)
         /\ FindEmptyEntry(c) # Nil => FindEmptyEntry(c) \in Entries \ ValidEntries(c)
<1>1. FindEmptyHashSlot(c, k) # Nil => FindEmptyHashSlot(c, k) \in EmptySlots(c)
  BY FirstProbedLeast DEF FindEmptyHashSlot, FirstProbed, EmptySlots
<1>2. ASSUME FindEmptyEntry(c) # Nil
      PROVE  FindEmptyEntry(c) \in Entries \ ValidEntries(c)
  <2> DEFINE free == Entries \ ValidEntries(c)
  <2>1. free \subseteq Nat /\ free # {}
    BY <1>2 DEF FindEmptyEntry, Entries
  <2>2. \E i \in free : \A j \in free : i <= j
    BY <2>1, LeastExists
  <2>3. QED
    BY <2>1, <2>2 DEF FindEmptyEntry
<1>3. QED
  BY <1>1, <1>2

-----------------------------------------------------------------------------
(* The list operations change links only.                                  *)

SameButLinks(c, cc) ==
  /\ cc.key = c.key /\ cc.value = c.value /\ cc.valid = c.valid
  /\ cc.hashTable = c.hashTable /\ cc.currentSize = c.currentSize

\* Inserting at the head and unlinking write links of the right type and
\* nothing else.
LEMMA PushFrontType ==
  ASSUME NEW c \in CacheType, NEW i \in Entries
  PROVE  PushFront(c, i) \in CacheType /\ SameButLinks(c, PushFront(c, i))
<1>1. Link(c.prev, c.head, i) \in [Entries -> Entries \cup {Nil}]
  BY DEF CacheType, Link
<1>2. QED
  BY <1>1 DEF CacheType, PushFront, SameButLinks

LEMMA RemoveFromListType ==
  ASSUME NEW c \in CacheType, NEW i \in Entries
  PROVE  RemoveFromList(c, i) \in CacheType /\ SameButLinks(c, RemoveFromList(c, i))
<1>1. /\ Link(c.next, c.prev[i], c.next[i]) \in [Entries -> Entries \cup {Nil}]
      /\ Link(c.prev, c.next[i], c.prev[i]) \in [Entries -> Entries \cup {Nil}]
  BY DEF CacheType, Link
<1>2. QED
  BY <1>1 DEF CacheType, RemoveFromList, SameButLinks

\* moveToFront writes links of the right type and nothing else.
LEMMA MoveToFrontType ==
  ASSUME NEW c \in CacheType, NEW i \in Entries
  PROVE  MoveToFront(c, i) \in CacheType /\ SameButLinks(c, MoveToFront(c, i))
<1> DEFINE unlinked == [c EXCEPT !.next = Link(c.next, c.prev[i], c.next[i]),
                                 !.prev = Link(c.prev, c.next[i], c.prev[i]),
                                 !.tail = IF i = c.tail THEN c.prev[i] ELSE c.tail]
<1>1. unlinked \in CacheType /\ SameButLinks(c, unlinked)
  BY DEF CacheType, Link, SameButLinks
<1>2. PushFront(unlinked, i) \in CacheType /\ SameButLinks(unlinked, PushFront(unlinked, i))
  BY <1>1, PushFrontType
<1>3. QED
  BY <1>1, <1>2 DEF MoveToFront, SameButLinks

\* The index of a cache does not depend on its links.
LEMMA IndexIgnoresLinks ==
  ASSUME NEW c, NEW cc, SameButLinks(c, cc), IndexOK(c)
  PROVE  IndexOK(cc)
  BY DEF SameButLinks, IndexOK, ValidEntries, UsedSlots, EmptySlots

-----------------------------------------------------------------------------
(* Each operation preserves the type and the index.                        *)

LEMMA EntriesFinite ==
  /\ IsFiniteSet(Entries) /\ Cardinality(Entries) = MaxSize
  /\ \A c : IsFiniteSet(ValidEntries(c)) /\ Cardinality(ValidEntries(c)) \in 0 .. MaxSize
<1>1. IsFiniteSet(Entries) /\ Cardinality(Entries) = MaxSize
  BY FS_Interval, CacheAssumption DEF Entries
<1>2. \A c : ValidEntries(c) \in SUBSET Entries
  BY DEF ValidEntries
<1>3. QED
  BY <1>1, <1>2, FS_Subset, FS_CardinalityType, CacheAssumption

LEMMA UpdateIndex ==
  ASSUME NEW c \in CacheType, IndexOK(c), NEW k \in Keys, NEW v \in Values, Contains(c, k)
  PROVE  Update(c, k, v) \in CacheType /\ IndexOK(Update(c, k, v))
<1> DEFINE i == c.hashTable[FindHashSlot(c, k)]
           written == [c EXCEPT !.value[i] = v]
<1>1. i \in Entries
  BY FindHashSlotFinds DEF ValidEntries
<1>2. written \in CacheType
  BY <1>1 DEF CacheType
<1>3. IndexOK(written)
  BY DEF IndexOK, ValidEntries, UsedSlots, EmptySlots
<1>4. QED
  BY <1>1, <1>2, <1>3, MoveToFrontType, IndexIgnoresLinks DEF Update

LEMMA GetIndex ==
  ASSUME NEW c \in CacheType, IndexOK(c), NEW k \in Keys
  PROVE  GetCache(c, k) \in CacheType /\ IndexOK(GetCache(c, k))
<1>1. Contains(c, k) => c.hashTable[FindHashSlot(c, k)] \in Entries
  BY FindHashSlotFinds DEF ValidEntries
<1>2. QED
  BY <1>1, MoveToFrontType, IndexIgnoresLinks DEF GetCache

\* A new key takes an entry that was free and a slot that was empty.
LEMMA InsertIndex ==
  ASSUME NEW c \in CacheType, IndexOK(c), NEW k \in Keys, NEW v \in Values, CanInsert(c, k)
  PROVE  Insert(c, k, v) \in CacheType /\ IndexOK(Insert(c, k, v))
<1> DEFINE i == FindEmptyEntry(c)
           e == FindEmptyHashSlot(c, k)
           written == [c EXCEPT !.key[i] = k, !.value[i] = v, !.valid[i] = TRUE,
                                !.hashTable[e] = i, !.currentSize = c.currentSize + 1]
<1>1. i \in Entries \ ValidEntries(c) /\ e \in EmptySlots(c)
  BY FindEmptyFinds DEF CanInsert
<1> HIDE DEF i, e
<1>2. written \in CacheType
  <2>1. /\ [c.key EXCEPT ![i] = k] \in [Entries -> Keys \cup {NoKey}]
        /\ [c.value EXCEPT ![i] = v] \in [Entries -> Values \cup {NoValue}]
        /\ [c.valid EXCEPT ![i] = TRUE] \in [Entries -> BOOLEAN]
        /\ [c.hashTable EXCEPT ![e] = i] \in [Slots -> Entries \cup {Nil}]
    BY <1>1 DEF CacheType
  <2>2. c.currentSize + 1 \in 0 .. MaxSize
    BY CacheAssumption DEF CacheType, CanInsert
  <2>3. QED
    BY <2>1, <2>2 DEF CacheType
<1>3. ValidEntries(written) = ValidEntries(c) \cup {i}
  BY <1>1 DEF CacheType, ValidEntries
<1>4. UsedSlots(written) = UsedSlots(c) \cup {e}
  BY <1>1 DEF CacheType, UsedSlots, EmptySlots, Nil, Entries
<1>5. written.currentSize = Cardinality(ValidEntries(written))
  BY <1>1, <1>3, EntriesFinite, FS_AddElement DEF IndexOK, CacheType
<1>6. IndexOK(written)
  <2>1. \A s \in UsedSlots(c) : /\ written.hashTable[s] = c.hashTable[s]
                                /\ c.hashTable[s] \in ValidEntries(c)
    BY <1>1 DEF CacheType, UsedSlots, EmptySlots, IndexOK, ValidEntries
  <2>2. written.hashTable[e] = i
    BY <1>1 DEF CacheType, EmptySlots
  <2>3. \A s \in UsedSlots(written) : written.valid[written.hashTable[s]]
    BY <1>3, <1>4, <2>1, <2>2 DEF ValidEntries
  <2>4. \A s, t \in UsedSlots(written) :
          written.hashTable[s] = written.hashTable[t] => s = t
    BY <1>1, <1>4, <2>1, <2>2 DEF IndexOK
  <2>5. \A j \in ValidEntries(written) : \E s \in UsedSlots(written) : written.hashTable[s] = j
    BY <1>3, <1>4, <2>1, <2>2 DEF IndexOK
  <2>6. QED
    BY <1>5, <2>3, <2>4, <2>5 DEF IndexOK
<1>7. QED
  BY <1>1, <1>2, <1>6, PushFrontType, IndexIgnoresLinks DEF Insert, i, e

\* remove gives back the entry and the slot together.
LEMMA RemoveIndex ==
  ASSUME NEW c \in CacheType, IndexOK(c), NEW k \in Keys
  PROVE  RemoveCache(c, k) \in CacheType /\ IndexOK(RemoveCache(c, k))
<1> DEFINE s == FindHashSlot(c, k)
           i == c.hashTable[s]
           l == RemoveFromList(c, i)
           r == [l EXCEPT !.hashTable[s] = Nil, !.key[i] = NoKey, !.valid[i] = FALSE,
                          !.currentSize = c.currentSize - 1]
<1>1. CASE ~Contains(c, k)
  BY <1>1 DEF RemoveCache
<1>2. CASE Contains(c, k)
  <2>1. s \in UsedSlots(c) /\ i \in ValidEntries(c) /\ i \in Entries /\ i = c.hashTable[s]
    BY <1>2, FindHashSlotFinds DEF ValidEntries
  <2>2. l \in CacheType /\ SameButLinks(c, l)
    BY <2>1, RemoveFromListType
  <2> HIDE DEF s, i, l
  <2>3. Cardinality(ValidEntries(c) \ {i}) = c.currentSize - 1
    <3>1. Cardinality(ValidEntries(c) \ {i}) = Cardinality(ValidEntries(c)) - 1
      <4>1. IsFiniteSet(ValidEntries(c))
        BY EntriesFinite
      <4>2. QED
        BY <2>1, <4>1, FS_RemoveElement
    <3>2. QED
      BY <3>1 DEF IndexOK
  <2>4. c.currentSize - 1 \in 0 .. MaxSize
    <3>1. Cardinality(ValidEntries(c) \ {i}) \in Nat
      BY EntriesFinite, FS_RemoveElement, FS_CardinalityType
    <3>2. QED
      BY <2>3, <3>1, CacheAssumption DEF CacheType
  <2>5. r \in CacheType
    <3>1. s \in Slots /\ NoKey \in Keys \cup {NoKey}
      BY <2>1 DEF UsedSlots
    <3>2. /\ [l.key EXCEPT ![i] = NoKey] \in [Entries -> Keys \cup {NoKey}]
          /\ [l.valid EXCEPT ![i] = FALSE] \in [Entries -> BOOLEAN]
          /\ [l.hashTable EXCEPT ![s] = Nil] \in [Slots -> Entries \cup {Nil}]
      BY <2>1, <2>2, <3>1 DEF CacheType
    <3>3. QED
      BY <2>2, <2>4, <3>2 DEF CacheType
  <2>6. ValidEntries(r) = ValidEntries(c) \ {i}
    BY <2>1, <2>2 DEF CacheType, ValidEntries, SameButLinks
  <2>7. UsedSlots(r) = UsedSlots(c) \ {s}
    BY <2>1, <2>2 DEF CacheType, UsedSlots, EmptySlots, SameButLinks
  <2>8. \A t \in UsedSlots(r) : r.hashTable[t] = c.hashTable[t]
    BY <2>1, <2>2, <2>7 DEF CacheType, UsedSlots, SameButLinks
  <2>9. IndexOK(r)
    <3>1. \A t \in UsedSlots(r) : r.valid[r.hashTable[t]]
      BY <2>1, <2>6, <2>7, <2>8 DEF IndexOK, ValidEntries, UsedSlots, EmptySlots, CacheType
    <3>2. \A t, u \in UsedSlots(r) : r.hashTable[t] = r.hashTable[u] => t = u
      BY <2>7, <2>8 DEF IndexOK
    <3>3. \A j \in ValidEntries(r) : \E t \in UsedSlots(r) : r.hashTable[t] = j
      BY <2>1, <2>6, <2>7, <2>8 DEF IndexOK
    <3>4. r.currentSize = Cardinality(ValidEntries(r))
      BY <2>2, <2>3, <2>6 DEF CacheType
    <3>5. QED
      BY <3>1, <3>2, <3>3, <3>4 DEF IndexOK
  <2>10. QED
    BY <1>2, <2>5, <2>9 DEF RemoveCache, l, i, s
<1>3. QED
  BY <1>1, <1>2

\* The constructor and clear leave an empty cache.
LEMMA EmptyIndex == EmptyCache \in CacheType /\ IndexOK(EmptyCache)
<1>1. 0 \in 0 .. MaxSize
  BY CacheAssumption
<1>2. EmptyCache \in CacheType
  BY <1>1 DEF EmptyCache, CacheType
<1>3. ValidEntries(EmptyCache) = {} /\ UsedSlots(EmptyCache) = {}
  BY DEF EmptyCache, ValidEntries, UsedSlots, EmptySlots
<1>4. EmptyCache.currentSize = 0
  BY DEF EmptyCache
<1>5. QED
  BY <1>2, <1>3, <1>4, FS_EmptySet DEF IndexOK

LEMMA ClearIndex ==
  ASSUME NEW c \in CacheType
  PROVE  ClearCache(c) \in CacheType /\ IndexOK(ClearCache(c))
<1>1. c.value \in [Entries -> Values \cup {NoValue}]
  BY DEF CacheType
<1>2. ClearCache(c) \in CacheType
  BY <1>1, EmptyIndex DEF ClearCache, CacheType
<1>3. IndexOK(ClearCache(c))
  BY EmptyIndex DEF ClearCache, EmptyCache, IndexOK, ValidEntries, UsedSlots, EmptySlots
<1>4. QED
  BY <1>2, <1>3

-----------------------------------------------------------------------------
(* The list of entries.                                                    *)

\* What ListOver needs to be inductive: the links alone admit a cycle beside the
\* list, and removing the last entry of the list would leave that cycle without
\* a head.  A rank that grows along next excludes it.
Ranks(c, V, rank, bound) ==
  /\ \A i \in Entries : rank[i] <= bound
  /\ \A i \in V : c.next[i] \in V => rank[i] < rank[c.next[i]]

ThreadedOver(c, V) ==
  ListOver(c, V) /\ \E bound \in Nat, rank \in [Entries -> Nat] : Ranks(c, V, rank, bound)

\* A ranked set of entries has an entry that comes first and one that comes last.
LEMMA EndsExist ==
  ASSUME NEW V \in SUBSET Entries, V # {}, NEW bound \in Nat,
         NEW rank \in [Entries -> Nat], \A i \in Entries : rank[i] <= bound
  PROVE  /\ \E i \in V : \A j \in V : rank[i] <= rank[j]
         /\ \E i \in V : \A j \in V : rank[j] <= rank[i]
<1>1. \E i \in V : \A j \in V : rank[i] <= rank[j]
  <2> DEFINE T == {rank[i] : i \in V}
  <2>1. T \subseteq Nat /\ T # {}
    OBVIOUS
  <2>2. PICK x \in T : \A y \in T : x <= y
    BY <2>1, LeastExists
  <2>3. PICK i \in V : x = rank[i]
    BY <2>2
  <2>4. QED
    BY <2>2, <2>3
<1>2. \E i \in V : \A j \in V : rank[j] <= rank[i]
  <2> DEFINE T == {bound - rank[i] : i \in V}
  <2>1. T \subseteq Nat /\ T # {}
    OBVIOUS
  <2>2. PICK x \in T : \A y \in T : x <= y
    BY <2>1, LeastExists
  <2>3. PICK i \in V : x = bound - rank[i]
    BY <2>2
  <2>4. \A j \in V : bound - rank[i] <= bound - rank[j]
    BY <2>2, <2>3
  <2>5. \A j \in V : rank[j] <= rank[i]
    BY <2>4
  <2>6. QED
    BY <2>5
<1>3. QED
  BY <1>1, <1>2

\* Inserting at the head adds one entry to those the list threads.
LEMMA PushFrontList ==
  ASSUME NEW c \in CacheType, NEW V \in SUBSET Entries, ThreadedOver(c, V),
         NEW i \in Entries, i \notin V
  PROVE  ThreadedOver(PushFront(c, i), V \cup {i})
<1> DEFINE p == PushFront(c, i)
<1>1. Nil \notin Entries
  BY DEF Nil, Entries
<1>2. /\ p.head = i /\ p.next[i] = c.head /\ p.prev[i] = Nil
      /\ p.tail = IF c.tail = Nil THEN i ELSE c.tail
      /\ \A j \in V : p.next[j] = c.next[j]
      /\ \A j \in V : p.prev[j] = IF j = c.head THEN i ELSE c.prev[j]
  BY <1>1 DEF PushFront, Link, CacheType
<1>3. ListOver(p, V \cup {i})
  <2> HIDE DEF p
  <2> QED
    BY <1>1, <1>2 DEF ThreadedOver, ListOver, CacheType
<1>4. \E bound \in Nat, rank \in [Entries -> Nat] : Ranks(p, V \cup {i}, rank, bound)
  <2>1. PICK bound \in Nat, rank \in [Entries -> Nat] : Ranks(c, V, rank, bound)
    BY DEF ThreadedOver
  <2> DEFINE rr == [j \in Entries |-> IF j = i THEN 0 ELSE rank[j] + 1]
  <2>2. /\ rr \in [Entries -> Nat] /\ bound + 1 \in Nat
        /\ \A j \in Entries : rr[j] <= bound + 1
    BY <2>1 DEF Ranks
  <2>3. c.head \in V \cup {Nil}
    BY DEF ThreadedOver, ListOver
  <2>4. Ranks(p, V \cup {i}, rr, bound + 1)
    <3> HIDE DEF p
    <3>1. ASSUME NEW j \in V, p.next[j] \in V \cup {i}
          PROVE  rr[j] < rr[p.next[j]]
      <4>1. p.next[j] = c.next[j] /\ c.next[j] \in V
        BY <1>1, <1>2, <3>1 DEF ThreadedOver, ListOver
      <4>2. rank[j] < rank[c.next[j]]
        BY <2>1, <4>1 DEF Ranks
      <4>3. QED
        BY <4>1, <4>2
    <3>2. p.next[i] \in V \cup {i} => rr[i] < rr[p.next[i]]
      BY <1>1, <1>2, <2>3
    <3>3. QED
      BY <2>2, <3>1, <3>2 DEF Ranks
  <2>5. QED
    BY <2>2, <2>4
<1>5. QED
  BY <1>3, <1>4 DEF ThreadedOver

\* The entries left when one is unlinked, whichever way the ends are updated:
\* they keep a first and a last entry, because they are ranked.
LEMMA UnlinkedList ==
  ASSUME NEW c \in CacheType, NEW V \in SUBSET Entries, ThreadedOver(c, V), NEW i \in V,
         NEW r \in CacheType,
         r.head = IF c.prev[i] = Nil THEN c.next[i] ELSE c.head,
         r.tail = IF c.next[i] = Nil THEN c.prev[i] ELSE c.tail,
         \A j \in V \ {i} : r.next[j] = IF j = c.prev[i] THEN c.next[i] ELSE c.next[j],
         \A j \in V \ {i} : r.prev[j] = IF j = c.next[i] THEN c.prev[i] ELSE c.prev[j]
  PROVE  ThreadedOver(r, V \ {i})
<1> DEFINE W == V \ {i}
<1> USE DEF ThreadedOver
<1>1. Nil \notin Entries
  BY DEF Nil, Entries
<1>2. PICK bound \in Nat, rank \in [Entries -> Nat] : Ranks(c, V, rank, bound)
  OBVIOUS
<1>3. c.prev[i] # i /\ c.next[i] # i
  BY <1>1, <1>2 DEF ListOver, Ranks
<1>4. /\ r.head \in W \cup {Nil}
      /\ r.tail \in W \cup {Nil}
  BY <1>1, <1>3 DEF ListOver
<1>5. ASSUME NEW j \in W
      PROVE  /\ r.prev[j] = Nil <=> r.head = j
             /\ r.next[j] = Nil <=> r.tail = j
             /\ r.prev[j] # Nil => r.prev[j] \in W /\ r.next[r.prev[j]] = j
             /\ r.next[j] # Nil => r.next[j] \in W /\ r.prev[r.next[j]] = j
  BY <1>1, <1>3 DEF ListOver
<1>6. Ranks(r, W, rank, bound)
  <2>1. ASSUME NEW j \in W, r.next[j] \in W
        PROVE  rank[j] < rank[r.next[j]]
    <3>1. CASE j = c.prev[i]
      <4>1. r.next[j] = c.next[i] /\ c.next[j] = i /\ c.next[i] \in V
        BY <1>1, <2>1, <3>1 DEF ListOver
      <4>2. rank[j] < rank[i] /\ rank[i] < rank[c.next[i]]
        BY <1>2, <4>1 DEF Ranks
      <4>3. QED
        BY <4>1, <4>2
    <3>2. CASE j # c.prev[i]
      BY <1>2, <2>1, <3>2 DEF Ranks
    <3>3. QED
      BY <3>1, <3>2
  <2>2. QED
    BY <1>2, <2>1 DEF Ranks
<1>7. W # {} => r.head # Nil
  <2>1. SUFFICES ASSUME W # {} PROVE r.head # Nil
    OBVIOUS
  <2>2. PICK j \in W : \A k \in W : rank[j] <= rank[k]
    BY <1>2, <2>1, EndsExist DEF Ranks
  <2>3. r.prev[j] \in W => rank[r.prev[j]] < rank[j]
    BY <1>1, <1>5, <1>6 DEF Ranks
  <2>4. r.prev[j] = Nil
    BY <1>5, <2>2, <2>3
  <2>5. QED
    BY <1>1, <1>5, <2>4
<1>8. W # {} => r.tail # Nil
  <2>1. SUFFICES ASSUME W # {} PROVE r.tail # Nil
    OBVIOUS
  <2>2. PICK j \in W : \A k \in W : rank[k] <= rank[j]
    BY <1>2, <2>1, EndsExist DEF Ranks
  <2>3. r.next[j] \in W => rank[j] < rank[r.next[j]]
    BY <1>6 DEF Ranks
  <2>4. r.next[j] = Nil
    BY <1>5, <2>2, <2>3
  <2>5. QED
    BY <1>1, <1>5, <2>4
<1>9. ListOver(r, W)
  BY <1>4, <1>5, <1>7, <1>8 DEF ListOver
<1>10. QED
  BY <1>2, <1>6, <1>9

\* removeFromList takes one entry out of those the list threads.
LEMMA RemoveFromListList ==
  ASSUME NEW c \in CacheType, NEW V \in SUBSET Entries, ThreadedOver(c, V), NEW i \in V
  PROVE  ThreadedOver(RemoveFromList(c, i), V \ {i})
<1> DEFINE r == RemoveFromList(c, i)
<1>1. Nil \notin Entries
  BY DEF Nil, Entries
<1>2. /\ r.head = IF c.prev[i] = Nil THEN c.next[i] ELSE c.head
      /\ r.tail = IF c.next[i] = Nil THEN c.prev[i] ELSE c.tail
      /\ \A j \in V \ {i} : r.next[j] = IF j = c.prev[i] THEN c.next[i] ELSE c.next[j]
      /\ \A j \in V \ {i} : r.prev[j] = IF j = c.next[i] THEN c.prev[i] ELSE c.prev[j]
  BY <1>1 DEF RemoveFromList, Link, CacheType
<1>3. r \in CacheType
  BY RemoveFromListType
<1> HIDE DEF r
<1>4. ThreadedOver(r, V \ {i})
  BY <1>2, <1>3, UnlinkedList
<1>5. QED
  BY <1>4 DEF r

\* moveToFront threads the same entries: it unlinks an entry that is not the
\* head and inserts it again.
LEMMA MoveToFrontList ==
  ASSUME NEW c \in CacheType, NEW V \in SUBSET Entries, ThreadedOver(c, V), NEW i \in V
  PROVE  ThreadedOver(MoveToFront(c, i), V)
<1> DEFINE u == [c EXCEPT !.next = Link(c.next, c.prev[i], c.next[i]),
                          !.prev = Link(c.prev, c.next[i], c.prev[i]),
                          !.tail = IF i = c.tail THEN c.prev[i] ELSE c.tail]
<1>1. Nil \notin Entries
  BY DEF Nil, Entries
<1>2. CASE i = c.head
  BY <1>2 DEF MoveToFront
<1>3. CASE i # c.head
  <2>1. u \in CacheType
    BY DEF CacheType, Link
  <2>2. /\ c.prev[i] # Nil
        /\ c.next[i] = Nil <=> i = c.tail
    BY <1>3 DEF ThreadedOver, ListOver
  <2>3. /\ u.head = IF c.prev[i] = Nil THEN c.next[i] ELSE c.head
        /\ u.tail = IF c.next[i] = Nil THEN c.prev[i] ELSE c.tail
        /\ \A j \in V \ {i} : u.next[j] = IF j = c.prev[i] THEN c.next[i] ELSE c.next[j]
        /\ \A j \in V \ {i} : u.prev[j] = IF j = c.next[i] THEN c.prev[i] ELSE c.prev[j]
    BY <1>1, <2>2 DEF Link, CacheType
  <2>4. ThreadedOver(u, V \ {i})
    <3> HIDE DEF u
    <3>1. QED
      BY <2>1, <2>3, UnlinkedList
  <2>5. ThreadedOver(PushFront(u, i), (V \ {i}) \cup {i})
    <3> HIDE DEF u
    <3>1. QED
      BY <2>1, <2>4, PushFrontList
  <2>6. (V \ {i}) \cup {i} = V
    OBVIOUS
  <2>7. QED
    BY <1>3, <2>5, <2>6 DEF MoveToFront
<1>4. QED
  BY <1>2, <1>3

\* The list operations do not look at the other fields of an entry.
LEMMA ListIgnoresFields ==
  ASSUME NEW c, NEW cc, NEW V, ThreadedOver(c, V),
         cc.prev = c.prev, cc.next = c.next, cc.head = c.head, cc.tail = c.tail
  PROVE  ThreadedOver(cc, V)
  BY DEF ThreadedOver, ListOver, Ranks

LEMMA UpdateThreads ==
  ASSUME NEW c \in CacheType, ThreadedOver(c, ValidEntries(c)),
         NEW k \in Keys, NEW v \in Values, Contains(c, k)
  PROVE  ThreadedOver(Update(c, k, v), ValidEntries(Update(c, k, v)))
<1> DEFINE i == c.hashTable[FindHashSlot(c, k)]
           written == [c EXCEPT !.value[i] = v]
<1>1. i \in ValidEntries(c) /\ i \in Entries /\ ValidEntries(c) \in SUBSET Entries
  BY FindHashSlotFinds DEF ValidEntries
<1> HIDE DEF i
<1>2. written \in CacheType
  BY <1>1 DEF CacheType
<1>3. ThreadedOver(written, ValidEntries(c))
  <2>1. /\ written.prev = c.prev /\ written.next = c.next
        /\ written.head = c.head /\ written.tail = c.tail
    BY DEF CacheType
  <2> HIDE DEF written
  <2>2. QED
    BY <2>1, ListIgnoresFields
<1> HIDE DEF written
<1>4. ThreadedOver(MoveToFront(written, i), ValidEntries(c))
  BY <1>1, <1>2, <1>3, MoveToFrontList
<1>5. SameButLinks(written, MoveToFront(written, i))
  BY <1>1, <1>2, MoveToFrontType
<1>6. ValidEntries(MoveToFront(written, i)) = ValidEntries(c)
  BY <1>5 DEF SameButLinks, ValidEntries, written
<1>7. QED
  BY <1>4, <1>6 DEF Update, i, written

LEMMA InsertThreads ==
  ASSUME NEW c \in CacheType, ThreadedOver(c, ValidEntries(c)),
         NEW k \in Keys, NEW v \in Values, CanInsert(c, k)
  PROVE  ThreadedOver(Insert(c, k, v), ValidEntries(Insert(c, k, v)))
<1> DEFINE i == FindEmptyEntry(c)
           e == FindEmptyHashSlot(c, k)
           written == [c EXCEPT !.key[i] = k, !.value[i] = v, !.valid[i] = TRUE,
                                !.hashTable[e] = i, !.currentSize = c.currentSize + 1]
<1>1. i \in Entries \ ValidEntries(c) /\ e \in EmptySlots(c)
  BY FindEmptyFinds DEF CanInsert
<1> HIDE DEF i, e
<1>2. written \in CacheType
  <2>1. /\ [c.key EXCEPT ![i] = k] \in [Entries -> Keys \cup {NoKey}]
        /\ [c.value EXCEPT ![i] = v] \in [Entries -> Values \cup {NoValue}]
        /\ [c.valid EXCEPT ![i] = TRUE] \in [Entries -> BOOLEAN]
        /\ [c.hashTable EXCEPT ![e] = i] \in [Slots -> Entries \cup {Nil}]
    BY <1>1 DEF CacheType
  <2>2. c.currentSize + 1 \in 0 .. MaxSize
    BY CacheAssumption DEF CacheType, CanInsert
  <2>3. QED
    BY <2>1, <2>2 DEF CacheType
<1>3. ValidEntries(written) = ValidEntries(c) \cup {i}
  BY <1>1 DEF CacheType, ValidEntries
<1>4. ThreadedOver(written, ValidEntries(c))
  <2>1. /\ written.prev = c.prev /\ written.next = c.next
        /\ written.head = c.head /\ written.tail = c.tail
    BY DEF CacheType
  <2> HIDE DEF written
  <2>2. QED
    BY <2>1, ListIgnoresFields
<1> HIDE DEF written
<1>5. ThreadedOver(PushFront(written, i), ValidEntries(c) \cup {i})
  <2>1. ValidEntries(c) \in SUBSET Entries
    BY DEF ValidEntries
  <2>2. QED
    BY <1>1, <1>2, <1>4, <2>1, PushFrontList
<1>6. ValidEntries(PushFront(written, i)) = ValidEntries(c) \cup {i}
  BY <1>1, <1>2, <1>3, PushFrontType DEF SameButLinks, ValidEntries
<1>7. QED
  BY <1>5, <1>6 DEF Insert, i, e, written

LEMMA GetThreads ==
  ASSUME NEW c \in CacheType, ThreadedOver(c, ValidEntries(c)), NEW k \in Keys
  PROVE  ThreadedOver(GetCache(c, k), ValidEntries(GetCache(c, k)))
<1> DEFINE i == c.hashTable[FindHashSlot(c, k)]
<1>1. CASE ~Contains(c, k)
  BY <1>1 DEF GetCache
<1>2. CASE Contains(c, k)
  <2>1. i \in ValidEntries(c) /\ i \in Entries /\ ValidEntries(c) \in SUBSET Entries
    BY <1>2, FindHashSlotFinds DEF ValidEntries
  <2> HIDE DEF i
  <2>2. ThreadedOver(MoveToFront(c, i), ValidEntries(c))
    BY <2>1, MoveToFrontList
  <2>3. ValidEntries(MoveToFront(c, i)) = ValidEntries(c)
    BY <2>1, MoveToFrontType DEF SameButLinks, ValidEntries
  <2>4. QED
    BY <1>2, <2>2, <2>3 DEF GetCache, i
<1>3. QED
  BY <1>1, <1>2

LEMMA RemoveThreads ==
  ASSUME NEW c \in CacheType, ThreadedOver(c, ValidEntries(c)), NEW k \in Keys
  PROVE  ThreadedOver(RemoveCache(c, k), ValidEntries(RemoveCache(c, k)))
<1> DEFINE s == FindHashSlot(c, k)
           i == c.hashTable[s]
           l == RemoveFromList(c, i)
           r == [l EXCEPT !.hashTable[s] = Nil, !.key[i] = NoKey, !.valid[i] = FALSE,
                          !.currentSize = c.currentSize - 1]
<1>1. CASE ~Contains(c, k)
  BY <1>1 DEF RemoveCache
<1>2. CASE Contains(c, k)
  <2>1. i \in ValidEntries(c) /\ i \in Entries /\ ValidEntries(c) \in SUBSET Entries
    BY <1>2, FindHashSlotFinds DEF ValidEntries
  <2> HIDE DEF s, i
  <2>2. l \in CacheType /\ SameButLinks(c, l)
    BY <2>1, RemoveFromListType
  <2>3. ThreadedOver(l, ValidEntries(c) \ {i})
    BY <2>1, RemoveFromListList
  <2> HIDE DEF l
  <2>4. ThreadedOver(r, ValidEntries(c) \ {i})
    <3>1. r.prev = l.prev /\ r.next = l.next /\ r.head = l.head /\ r.tail = l.tail
      BY <2>2 DEF CacheType
    <3> HIDE DEF r
    <3>2. QED
      BY <2>3, <3>1, ListIgnoresFields
  <2>5. ValidEntries(r) = ValidEntries(c) \ {i}
    BY <2>1, <2>2 DEF CacheType, ValidEntries, SameButLinks
  <2>6. QED
    BY <1>2, <2>4, <2>5 DEF RemoveCache, s, i, l
<1>3. QED
  BY <1>1, <1>2

LEMMA EmptyThreads ==
  ASSUME NEW c, c.head = Nil, c.tail = Nil, ValidEntries(c) = {}
  PROVE  ThreadedOver(c, ValidEntries(c))
<1>1. Ranks(c, {}, [i \in Entries |-> 0], 0)
  BY DEF Ranks
<1>2. QED
  BY <1>1 DEF ThreadedOver, ListOver

-----------------------------------------------------------------------------
(* What a probe finds.                                                     *)

KeyAt(c, s) == c.key[c.hashTable[s]]

\* Every slot a probe passes on its way to a stored key is used.
ProbesIntact(c) ==
  \A s \in UsedSlots(c), t \in Slots :
    Distance(KeyAt(c, s), t) < Distance(KeyAt(c, s), s) => t \in UsedSlots(c)

\* Where removal happens, every key is stored at its home.
AtHome(c) == Removable # {} => \A s \in UsedSlots(c) : s = Home(KeyAt(c, s))

EntriesReal(c) == \A i \in ValidEntries(c) : c.key[i] \in Keys /\ c.value[i] \in Values

Reach(c) == ProbesIntact(c) /\ AtHome(c) /\ EntriesReal(c) /\ KeysUnique(c)

-----------------------------------------------------------------------------

\* With intact probes and unique keys, findHashSlot finds each stored key at its
\* own slot, and finds none for a key that is not stored.
LEMMA ReachFinds ==
  ASSUME NEW c \in CacheType, IndexOK(c), Reach(c)
  PROVE  /\ \A s \in UsedSlots(c) : FindHashSlot(c, KeyAt(c, s)) = s
         /\ \A k \in Keys : Contains(c, k) <=> \E i \in ValidEntries(c) : c.key[i] = k
<1>1. ASSUME NEW s \in UsedSlots(c)
      PROVE  FindHashSlot(c, KeyAt(c, s)) = s
  <2> DEFINE k == KeyAt(c, s)
             S == EmptySlots(c) \cup SlotsOf(c, k)
             f == FirstProbed(k, S)
  <2>1. c.hashTable[s] \in ValidEntries(c) /\ k \in Keys
    BY DEF IndexOK, Reach, EntriesReal, KeyAt, ValidEntries, UsedSlots, EmptySlots, CacheType
  <2>2. SlotsOf(c, k) = {s}
    <3>1. s \in SlotsOf(c, k)
      BY DEF SlotsOf, IndexOK, KeyAt
    <3>2. ASSUME NEW t \in SlotsOf(c, k)
          PROVE  t = s
      <4>1. t \in UsedSlots(c) /\ c.hashTable[t] \in ValidEntries(c) /\ c.key[c.hashTable[t]] = k
        BY DEF SlotsOf, ValidEntries, UsedSlots, EmptySlots, CacheType
      <4>2. c.hashTable[t] = c.hashTable[s]
        BY <2>1, <4>1 DEF Reach, KeysUnique, KeyAt
      <4>3. QED
        BY <4>1, <4>2 DEF IndexOK
    <3>3. QED
      BY <3>1, <3>2
  <2>3. S \subseteq Slots /\ S # {} /\ s \in Slots
    BY <2>2 DEF EmptySlots, UsedSlots
  <2>4. f \in S /\ Distance(k, f) <= Distance(k, s)
    BY <2>1, <2>2, <2>3, FirstProbedLeast
  <2>5. f \notin EmptySlots(c)
    <3>1. SUFFICES ASSUME f \in EmptySlots(c) PROVE FALSE
      OBVIOUS
    <3>2. f \in Slots /\ f # s
      BY <3>1 DEF EmptySlots, UsedSlots
    <3>3. Distance(k, f) < Distance(k, s)
      BY <2>1, <2>3, <2>4, <3>2, ProbeCoversTable
    <3>4. f \in UsedSlots(c)
      BY <3>2, <3>3 DEF Reach, ProbesIntact
    <3>5. QED
      BY <3>1, <3>4 DEF UsedSlots
  <2>6. QED
    BY <2>2, <2>4, <2>5 DEF FindHashSlot
<1>2. ASSUME NEW k \in Keys, NEW i \in ValidEntries(c), c.key[i] = k
      PROVE  Contains(c, k)
  <2>1. PICK s \in UsedSlots(c) : c.hashTable[s] = i
    BY DEF IndexOK
  <2>2. FindHashSlot(c, k) = s
    BY <1>1, <1>2, <2>1 DEF KeyAt
  <2>3. QED
    BY <2>2 DEF Contains, UsedSlots, Slots, Nil
<1>3. ASSUME NEW k \in Keys, Contains(c, k)
      PROVE  \E i \in ValidEntries(c) : c.key[i] = k
  BY <1>3, FindHashSlotFinds
<1>4. QED
  BY <1>1, <1>2, <1>3

LEMMA ReachIgnoresLinks ==
  ASSUME NEW c, NEW cc, SameButLinks(c, cc), Reach(c)
  PROVE  Reach(cc)
  BY DEF SameButLinks, Reach, ProbesIntact, AtHome, EntriesReal, KeysUnique, KeyAt,
         ValidEntries, UsedSlots, EmptySlots

\* The slot claimed for a new key is the first empty one of its probe.
LEMMA InsertReach ==
  ASSUME NEW c \in CacheType, IndexOK(c), Reach(c), CollisionSafe,
         NEW k \in Keys, NEW v \in Values, ~Contains(c, k), CanInsert(c, k)
  PROVE  Reach(Insert(c, k, v))
<1> DEFINE i == FindEmptyEntry(c)
           e == FindEmptyHashSlot(c, k)
           w == [c EXCEPT !.key[i] = k, !.value[i] = v, !.valid[i] = TRUE,
                          !.hashTable[e] = i, !.currentSize = c.currentSize + 1]
<1>1. i \in Entries \ ValidEntries(c) /\ e \in EmptySlots(c) /\ e \in Slots
  BY FindEmptyFinds DEF CanInsert, EmptySlots
<1>2. \A t \in EmptySlots(c) : Distance(k, e) <= Distance(k, t)
  BY <1>1, FirstProbedLeast DEF FindEmptyHashSlot, EmptySlots
<1> HIDE DEF i, e
<1>3. ValidEntries(w) = ValidEntries(c) \cup {i}
  BY <1>1 DEF CacheType, ValidEntries
<1>4. UsedSlots(w) = UsedSlots(c) \cup {e}
  BY <1>1 DEF CacheType, UsedSlots, EmptySlots, Nil, Entries
<1>5. /\ w.key[i] = k /\ \A j \in ValidEntries(c) : w.key[j] = c.key[j]
      /\ w.value[i] = v /\ \A j \in ValidEntries(c) : w.value[j] = c.value[j]
      /\ KeyAt(w, e) = k
      /\ \A s \in UsedSlots(c) : c.hashTable[s] \in ValidEntries(c) /\ KeyAt(w, s) = KeyAt(c, s)
  BY <1>1 DEF CacheType, KeyAt, IndexOK, ValidEntries, UsedSlots, EmptySlots
<1>6. w \in CacheType
  <2>1. /\ [c.key EXCEPT ![i] = k] \in [Entries -> Keys \cup {NoKey}]
        /\ [c.value EXCEPT ![i] = v] \in [Entries -> Values \cup {NoValue}]
        /\ [c.valid EXCEPT ![i] = TRUE] \in [Entries -> BOOLEAN]
        /\ [c.hashTable EXCEPT ![e] = i] \in [Slots -> Entries \cup {Nil}]
    BY <1>1 DEF CacheType
  <2>2. c.currentSize + 1 \in 0 .. MaxSize
    BY CacheAssumption DEF CacheType, CanInsert
  <2>3. QED
    BY <2>1, <2>2 DEF CacheType
<1> HIDE DEF w
<1>7. ProbesIntact(w)
  <2>1. ASSUME NEW s \in UsedSlots(c), NEW t \in Slots,
               Distance(KeyAt(w, s), t) < Distance(KeyAt(w, s), s)
        PROVE  t \in UsedSlots(w)
    BY <1>4, <1>5, <2>1 DEF Reach, ProbesIntact
  <2>2. ASSUME NEW t \in Slots, Distance(k, t) < Distance(k, e)
        PROVE  t \in UsedSlots(w)
    <3>1. Distance(k, t) \in Nat /\ Distance(k, e) \in Nat
      BY <1>1, ProbeCoversTable
    <3>2. t \notin EmptySlots(c)
      BY <1>2, <2>2, <3>1
    <3>3. QED
      BY <1>4, <3>2 DEF UsedSlots
  <2>3. QED
    BY <1>4, <1>5, <2>1, <2>2 DEF ProbesIntact
<1>8. ASSUME NEW j \in ValidEntries(c)
      PROVE  c.key[j] \in Keys /\ c.key[j] # k
  BY ReachFinds DEF Reach, EntriesReal
<1>9. AtHome(w)
  <2>1. SUFFICES ASSUME Removable # {} PROVE e = Home(k)
    BY <1>4, <1>5 DEF AtHome, Reach
  <2>2. Home(k) \notin UsedSlots(c)
    <3>1. SUFFICES ASSUME Home(k) \in UsedSlots(c) PROVE FALSE
      OBVIOUS
    <3>2. Home(KeyAt(c, Home(k))) = Home(k)
      BY <2>1, <3>1 DEF Reach, AtHome
    <3>3. KeyAt(c, Home(k)) \in Keys /\ KeyAt(c, Home(k)) # k
      BY <1>5, <1>8, <3>1 DEF KeyAt
    <3>4. QED
      BY <2>1, <3>2, <3>3 DEF CollisionSafe
  <2>3. Home(k) \in EmptySlots(c)
    BY <2>2, ProbeCoversTable DEF UsedSlots
  <2>4. Distance(k, e) <= 0 /\ Distance(k, e) \in Nat
    BY <1>1, <1>2, <2>3, ProbeCoversTable
  <2>5. QED
    BY <1>1, <2>4, ProbeCoversTable
<1>10. EntriesReal(w) /\ KeysUnique(w)
  BY <1>1, <1>3, <1>5, <1>8 DEF Reach, EntriesReal, KeysUnique
<1>11. QED
  <2>1. Reach(w)
    BY <1>7, <1>9, <1>10 DEF Reach
  <2>2. Reach(PushFront(w, i))
    BY <1>1, <1>6, <2>1, PushFrontType, ReachIgnoresLinks
  <2>3. QED
    BY <2>2 DEF Insert, i, e, w

LEMMA UpdateReach ==
  ASSUME NEW c \in CacheType, Reach(c), NEW k \in Keys, NEW v \in Values, Contains(c, k)
  PROVE  Reach(Update(c, k, v))
<1> DEFINE i == c.hashTable[FindHashSlot(c, k)]
           w == [c EXCEPT !.value[i] = v]
<1>1. i \in Entries
  BY FindHashSlotFinds DEF ValidEntries
<1> HIDE DEF i
<1>2. w \in CacheType
  BY <1>1 DEF CacheType
<1>3. /\ w.key = c.key /\ w.valid = c.valid /\ w.hashTable = c.hashTable
      /\ \A j \in Entries : w.value[j] = IF j = i THEN v ELSE c.value[j]
  BY <1>1 DEF CacheType
<1> HIDE DEF w
<1>4. Reach(w)
  BY <1>3 DEF Reach, ProbesIntact, AtHome, EntriesReal, KeysUnique, KeyAt,
              ValidEntries, UsedSlots, EmptySlots
<1>5. QED
  BY <1>1, <1>2, <1>4, MoveToFrontType, ReachIgnoresLinks DEF Update, i, w

LEMMA GetReach ==
  ASSUME NEW c \in CacheType, Reach(c), NEW k \in Keys
  PROVE  Reach(GetCache(c, k))
<1>1. Contains(c, k) => c.hashTable[FindHashSlot(c, k)] \in Entries
  BY FindHashSlotFinds DEF ValidEntries
<1>2. QED
  BY <1>1, MoveToFrontType, ReachIgnoresLinks DEF GetCache

\* What remove leaves: the entry and the slot of the key are given back, the
\* others keep their keys and values.
LEMMA RemoveLeaves ==
  ASSUME NEW c \in CacheType, IndexOK(c), NEW k \in Keys, Contains(c, k)
  PROVE  LET s == FindHashSlot(c, k)
             r == RemoveCache(c, k)
         IN  /\ s \in UsedSlots(c) /\ c.hashTable[s] \in ValidEntries(c)
             /\ c.key[c.hashTable[s]] = k
             /\ UsedSlots(r) = UsedSlots(c) \ {s}
             /\ ValidEntries(r) = ValidEntries(c) \ {c.hashTable[s]}
             /\ \A j \in ValidEntries(r) : r.key[j] = c.key[j] /\ r.value[j] = c.value[j]
             /\ \A t \in UsedSlots(r) : KeyAt(r, t) = KeyAt(c, t)
<1> DEFINE s == FindHashSlot(c, k)
           i == c.hashTable[s]
           l == RemoveFromList(c, i)
           r == [l EXCEPT !.hashTable[s] = Nil, !.key[i] = NoKey, !.valid[i] = FALSE,
                          !.currentSize = c.currentSize - 1]
<1>1. s \in UsedSlots(c) /\ i \in ValidEntries(c) /\ i \in Entries /\ c.key[i] = k
  BY FindHashSlotFinds DEF ValidEntries
<1>2. i = c.hashTable[s]
  OBVIOUS
<1>3. l \in CacheType /\ SameButLinks(c, l)
  BY <1>1, RemoveFromListType
<1> HIDE DEF s, i, l
<1>4. UsedSlots(r) = UsedSlots(c) \ {s}
  BY <1>1, <1>3 DEF CacheType, UsedSlots, EmptySlots, SameButLinks
<1>5. ValidEntries(r) = ValidEntries(c) \ {i}
  BY <1>1, <1>3 DEF CacheType, ValidEntries, SameButLinks
<1>6. \A j \in ValidEntries(r) : r.key[j] = c.key[j] /\ r.value[j] = c.value[j]
  BY <1>1, <1>3, <1>5 DEF CacheType, SameButLinks, ValidEntries
<1>7. \A t \in UsedSlots(r) : KeyAt(r, t) = KeyAt(c, t)
  <2>1. ASSUME NEW t \in UsedSlots(r)
        PROVE  KeyAt(r, t) = KeyAt(c, t)
    <3>1. t \in UsedSlots(c) /\ t # s /\ t \in Slots
      BY <1>4 DEF UsedSlots
    <3>2. r.hashTable[t] = c.hashTable[t]
      BY <1>1, <1>3, <3>1 DEF CacheType, SameButLinks, UsedSlots
    <3>3. c.hashTable[t] \in ValidEntries(c) /\ c.hashTable[t] # i
      BY <1>1, <1>2, <3>1 DEF IndexOK, ValidEntries, UsedSlots, EmptySlots, CacheType
    <3>4. QED
      BY <1>5, <1>6, <3>2, <3>3 DEF KeyAt
  <2>2. QED
    BY <2>1
<1> HIDE DEF r
<1>8. RemoveCache(c, k) = r
  BY DEF RemoveCache, r, l, i, s
<1>9. QED
  BY <1>1, <1>2, <1>4, <1>5, <1>6, <1>7, <1>8 DEF s

\* Where removal happens every key sits at its home, so no probe passes the
\* slot that is emptied.
LEMMA RemoveReach ==
  ASSUME NEW c \in CacheType, IndexOK(c), Reach(c), Removable # {}, NEW k \in Keys
  PROVE  Reach(RemoveCache(c, k))
<1> DEFINE r == RemoveCache(c, k)
<1>1. CASE ~Contains(c, k)
  BY <1>1 DEF RemoveCache
<1>2. CASE Contains(c, k)
  <2>1. /\ UsedSlots(r) \subseteq UsedSlots(c) /\ ValidEntries(r) \subseteq ValidEntries(c)
        /\ \A j \in ValidEntries(r) : r.key[j] = c.key[j] /\ r.value[j] = c.value[j]
        /\ \A t \in UsedSlots(r) : KeyAt(r, t) = KeyAt(c, t)
    BY <1>2, RemoveLeaves
  <2> HIDE DEF r
  <2>2. AtHome(r)
    BY <2>1 DEF Reach, AtHome
  <2>3. EntriesReal(r) /\ KeysUnique(r)
    BY <2>1 DEF Reach, EntriesReal, KeysUnique
  <2>4. ASSUME NEW s \in UsedSlots(r), NEW t \in Slots,
               Distance(KeyAt(r, s), t) < Distance(KeyAt(r, s), s)
        PROVE  FALSE
    <3>1. KeyAt(r, s) \in Keys /\ s \in Slots
      <4>1. s \in UsedSlots(c) /\ c.hashTable[s] \in ValidEntries(c)
        BY <2>1 DEF IndexOK, ValidEntries, UsedSlots, EmptySlots, CacheType
      <4>2. QED
        BY <2>1, <4>1 DEF Reach, EntriesReal, KeyAt, UsedSlots
    <3>2. Distance(KeyAt(r, s), s) = 0
      BY <2>2, <3>1, ProbeCoversTable DEF AtHome
    <3>3. QED
      BY <2>4, <3>1, <3>2, ProbeCoversTable
  <2>5. QED
    BY <2>2, <2>3, <2>4 DEF Reach, ProbesIntact, r
<1>3. QED
  BY <1>1, <1>2

LEMMA EmptyReach ==
  ASSUME NEW c, ValidEntries(c) = {}, UsedSlots(c) = {}
  PROVE  Reach(c)
  BY DEF Reach, ProbesIntact, AtHome, EntriesReal, KeysUnique

-----------------------------------------------------------------------------
(* The contents of a cache as a map.                                       *)

\* With unique keys, the map holds for each stored key the value of its entry.
LEMMA ContentsAt ==
  ASSUME NEW c \in CacheType, Reach(c)
  PROVE  /\ ContentsOf(c) \in [Keys -> Values \cup {NoValue}]
         /\ \A i \in ValidEntries(c) : ContentsOf(c)[c.key[i]] = c.value[i]
         /\ \A k \in Keys : (\A i \in ValidEntries(c) : c.key[i] # k) => ContentsOf(c)[k] = NoValue
<1>1. ASSUME NEW i \in ValidEntries(c)
      PROVE  c.key[i] \in Keys /\ EntriesOf(c, c.key[i]) = {i}
  BY DEF Reach, EntriesReal, KeysUnique, EntriesOf
<1>2. \A i \in ValidEntries(c) : ContentsOf(c)[c.key[i]] = c.value[i]
  BY <1>1 DEF ContentsOf
<1>3. \A k \in Keys : (\A i \in ValidEntries(c) : c.key[i] # k) => ContentsOf(c)[k] = NoValue
  BY DEF ContentsOf, EntriesOf
<1>4. \A k \in Keys : ContentsOf(c)[k] \in Values \cup {NoValue}
  <2>1. ASSUME NEW k \in Keys, NEW i \in ValidEntries(c), c.key[i] = k
        PROVE  ContentsOf(c)[k] \in Values
    BY <1>2, <2>1 DEF Reach, EntriesReal
  <2>2. QED
    BY <1>3, <2>1
<1>5. QED
  BY <1>2, <1>3, <1>4 DEF ContentsOf

\* The keys present in the map are those the cache contains, and the size counter
\* counts them.
LEMMA PresentCounted ==
  ASSUME NEW c \in CacheType, IndexOK(c), Reach(c)
  PROVE  LET P == {k \in Keys : ContentsOf(c)[k] # NoValue}
         IN  /\ \A k \in Keys : k \in P <=> Contains(c, k)
             /\ Cardinality(P) = c.currentSize
<1> DEFINE P == {k \in Keys : ContentsOf(c)[k] # NoValue}
<1>1. \A k \in Keys : k \in P <=> \E i \in ValidEntries(c) : c.key[i] = k
  BY ContentsAt, CacheAssumption DEF Reach, EntriesReal
<1>2. \A k \in Keys : k \in P <=> Contains(c, k)
  BY <1>1, ReachFinds
<1>3. Cardinality(P) = Cardinality(ValidEntries(c))
  <2> DEFINE f == [i \in ValidEntries(c) |-> c.key[i]]
  <2>1. f \in [ValidEntries(c) -> P]
    BY <1>1 DEF Reach, EntriesReal
  <2>2. \A i, j \in ValidEntries(c) : f[i] = f[j] => i = j
    BY DEF Reach, KeysUnique
  <2>3. \A k \in P : \E i \in ValidEntries(c) : f[i] = k
    BY <1>1
  <2> HIDE DEF P, f
  <2>4. f \in Bijection(ValidEntries(c), P)
    BY <2>1, <2>2, <2>3 DEF Bijection, Injection, Surjection, IsInjective
  <2>5. QED
    BY <2>4, EntriesFinite, FS_Bijection DEF ExistsBijection
<1>4. QED
  BY <1>2, <1>3 DEF IndexOK

\* A cache below its capacity has a free entry and, its table being twice as
\* large, an empty slot: a new key is refused only when the cache is full.
LEMMA RoomForNewKey ==
  ASSUME NEW c \in CacheType, IndexOK(c), NEW k \in Keys
  PROVE  CanInsert(c, k) <=> c.currentSize < MaxSize
<1>1. SUFFICES ASSUME c.currentSize < MaxSize
               PROVE  FindEmptyEntry(c) # Nil /\ FindEmptyHashSlot(c, k) # Nil
  BY DEF CanInsert
<1>2. FindEmptyEntry(c) # Nil
  <2> DEFINE free == Entries \ ValidEntries(c)
  <2>1. free # {}
    <3>1. SUFFICES ASSUME free = {} PROVE FALSE
      OBVIOUS
    <3>2. ValidEntries(c) = Entries
      BY <3>1 DEF ValidEntries
    <3>3. QED
      BY <1>1, <3>2, EntriesFinite, CacheAssumption DEF IndexOK
  <2>2. free \subseteq Nat
    BY DEF Entries
  <2>3. \E i \in free : \A j \in free : i <= j
    BY <2>1, <2>2, LeastExists
  <2>4. FindEmptyEntry(c) \in free
    BY <2>1, <2>3 DEF FindEmptyEntry
  <2>5. QED
    BY <2>4 DEF Entries, Nil
<1>3. FindEmptyHashSlot(c, k) # Nil
  <2>1. EmptySlots(c) # {}
    <3>1. SUFFICES ASSUME EmptySlots(c) = {} PROVE FALSE
      OBVIOUS
    <3>2. UsedSlots(c) = Slots
      BY <3>1 DEF UsedSlots
    <3>3. c.hashTable \in Injection(Slots, Entries)
      <4>1. c.hashTable \in [Slots -> Entries]
        BY <3>1 DEF CacheType, EmptySlots
      <4>2. \A s, t \in Slots : c.hashTable[s] = c.hashTable[t] => s = t
        BY <3>2 DEF IndexOK
      <4>3. QED
        BY <4>1, <4>2 DEF Injection, IsInjective
    <3>4. Cardinality(Slots) <= MaxSize
      BY <3>3, EntriesFinite, FS_Injection
    <3>5. Cardinality(Slots) = NumSlots
      BY FS_Interval, CacheAssumption DEF Slots, NumSlots
    <3>6. QED
      BY <3>4, <3>5, CacheAssumption DEF NumSlots
  <2>2. EmptySlots(c) \subseteq Slots
    BY DEF EmptySlots
  <2>3. FindEmptyHashSlot(c, k) \in Slots
    BY <2>1, <2>2, FirstProbedLeast DEF FindEmptyHashSlot
  <2>4. QED
    BY <2>3 DEF Slots, Nil
<1>4. QED
  BY <1>2, <1>3

\* Contents depend only on the keys and values of the entries in use.
LEMMA ContentsIgnoreLinks ==
  ASSUME NEW c, NEW cc, SameButLinks(c, cc)
  PROVE  ContentsOf(cc) = ContentsOf(c)
  BY DEF SameButLinks, ContentsOf, EntriesOf, ValidEntries

\* Both branches of put set the key and change no other.
LEMMA UpdateContents ==
  ASSUME NEW c \in CacheType, IndexOK(c), Reach(c), NEW k \in Keys, NEW v \in Values,
         Contains(c, k)
  PROVE  ContentsOf(Update(c, k, v)) = [ContentsOf(c) EXCEPT ![k] = v]
<1> DEFINE i == c.hashTable[FindHashSlot(c, k)]
           u == Update(c, k, v)
<1>1. i \in ValidEntries(c) /\ i \in Entries /\ c.key[i] = k
  BY FindHashSlotFinds DEF ValidEntries
<1>2. u \in CacheType /\ Reach(u)
  BY UpdateIndex, UpdateReach
<1>3. /\ ValidEntries(u) = ValidEntries(c) /\ u.key = c.key
      /\ \A j \in ValidEntries(c) : u.value[j] = IF j = i THEN v ELSE c.value[j]
  <2> DEFINE w == [c EXCEPT !.value[i] = v]
  <2> HIDE DEF i
  <2>1. w \in CacheType
    BY <1>1 DEF CacheType
  <2>2. /\ ValidEntries(w) = ValidEntries(c) /\ w.key = c.key
        /\ \A j \in ValidEntries(c) : w.value[j] = IF j = i THEN v ELSE c.value[j]
    BY <1>1 DEF CacheType, ValidEntries
  <2> HIDE DEF w
  <2>3. SameButLinks(w, MoveToFront(w, i))
    BY <1>1, <2>1, MoveToFrontType
  <2>4. u = MoveToFront(w, i)
    BY DEF Update, w, i
  <2> HIDE DEF u
  <2>5. QED
    BY <2>2, <2>3, <2>4 DEF SameButLinks, ValidEntries
<1> HIDE DEF i, u
<1>4. ASSUME NEW x \in Keys
      PROVE  ContentsOf(u)[x] = [ContentsOf(c) EXCEPT ![k] = v][x]
  <2>1. CASE \E j \in ValidEntries(c) : c.key[j] = x
    <3>1. PICK j \in ValidEntries(c) : c.key[j] = x
      BY <2>1
    <3>2. ContentsOf(c)[x] = c.value[j] /\ ContentsOf(u)[x] = u.value[j]
      BY <1>2, <1>3, <3>1, ContentsAt
    <3>3. x = k <=> j = i
      BY <1>1, <3>1 DEF Reach, KeysUnique
    <3>4. QED
      BY <1>3, <3>2, <3>3, ContentsAt
  <2>2. CASE \A j \in ValidEntries(c) : c.key[j] # x
    BY <1>1, <1>2, <1>3, <2>2, ContentsAt
  <2>3. QED
    BY <2>1, <2>2
<1>5. QED
  BY <1>2, <1>4, ContentsAt DEF u

LEMMA InsertContents ==
  ASSUME NEW c \in CacheType, IndexOK(c), Reach(c), CollisionSafe,
         NEW k \in Keys, NEW v \in Values, ~Contains(c, k), CanInsert(c, k)
  PROVE  ContentsOf(Insert(c, k, v)) = [ContentsOf(c) EXCEPT ![k] = v]
<1> DEFINE i == FindEmptyEntry(c)
           e == FindEmptyHashSlot(c, k)
           w == [c EXCEPT !.key[i] = k, !.value[i] = v, !.valid[i] = TRUE,
                          !.hashTable[e] = i, !.currentSize = c.currentSize + 1]
           u == Insert(c, k, v)
<1>1. i \in Entries \ ValidEntries(c)
  BY FindEmptyFinds DEF CanInsert
<1>2. u \in CacheType /\ Reach(u)
  BY InsertIndex, InsertReach
<1>3. u = PushFront(w, i)
  BY DEF Insert
<1> HIDE DEF i, e, u
<1>4. /\ ValidEntries(w) = ValidEntries(c) \cup {i} /\ w.key[i] = k /\ w.value[i] = v
      /\ \A j \in ValidEntries(c) : w.key[j] = c.key[j] /\ w.value[j] = c.value[j]
  BY <1>1 DEF CacheType, ValidEntries
<1> HIDE DEF w
<1>5. u.valid = w.valid /\ u.key = w.key /\ u.value = w.value
  BY <1>3 DEF PushFront
<1>6. /\ ValidEntries(u) = ValidEntries(c) \cup {i} /\ u.key[i] = k /\ u.value[i] = v
      /\ \A j \in ValidEntries(c) : u.key[j] = c.key[j] /\ u.value[j] = c.value[j]
  BY <1>4, <1>5 DEF ValidEntries
<1>7. ASSUME NEW x \in Keys
      PROVE  ContentsOf(u)[x] = [ContentsOf(c) EXCEPT ![k] = v][x]
  <2>1. CASE x = k
    BY <1>2, <1>6, <2>1, ContentsAt
  <2>2. CASE x # k /\ \E j \in ValidEntries(c) : c.key[j] = x
    <3>1. PICK j \in ValidEntries(c) : c.key[j] = x
      BY <2>2
    <3>2. ContentsOf(c)[x] = c.value[j] /\ ContentsOf(u)[x] = u.value[j]
      BY <1>2, <1>6, <3>1, ContentsAt
    <3>3. QED
      BY <1>6, <2>2, <3>2, ContentsAt
  <2>3. CASE x # k /\ \A j \in ValidEntries(c) : c.key[j] # x
    BY <1>2, <1>6, <2>3, ContentsAt
  <2>4. QED
    BY <2>1, <2>2, <2>3
<1>8. QED
  BY <1>2, <1>7, ContentsAt DEF u

LEMMA RemoveContents ==
  ASSUME NEW c \in CacheType, IndexOK(c), Reach(c), Removable # {}, NEW k \in Keys
  PROVE  ContentsOf(RemoveCache(c, k)) = [ContentsOf(c) EXCEPT ![k] = NoValue]
<1> DEFINE u == RemoveCache(c, k)
<1>1. u \in CacheType /\ Reach(u)
  BY RemoveIndex, RemoveReach
<1>2. /\ ValidEntries(u) = {j \in ValidEntries(c) : c.key[j] # k}
      /\ \A j \in ValidEntries(u) : u.key[j] = c.key[j] /\ u.value[j] = c.value[j]
  <2>1. CASE ~Contains(c, k)
    BY <2>1, ReachFinds DEF RemoveCache
  <2>2. CASE Contains(c, k)
    BY <2>2, RemoveLeaves DEF Reach, KeysUnique
  <2>3. QED
    BY <2>1, <2>2
<1> HIDE DEF u
<1>3. ASSUME NEW x \in Keys
      PROVE  ContentsOf(u)[x] = [ContentsOf(c) EXCEPT ![k] = NoValue][x]
  <2>1. CASE x # k /\ \E j \in ValidEntries(c) : c.key[j] = x
    <3>1. PICK j \in ValidEntries(c) : c.key[j] = x
      BY <2>1
    <3>2. ContentsOf(c)[x] = c.value[j] /\ ContentsOf(u)[x] = u.value[j]
      BY <1>1, <1>2, <2>1, <3>1, ContentsAt
    <3>3. QED
      BY <1>2, <2>1, <3>1, <3>2, ContentsAt
  <2>2. CASE x = k \/ \A j \in ValidEntries(c) : c.key[j] # x
    BY <1>1, <1>2, <2>2, ContentsAt
  <2>3. QED
    BY <2>1, <2>2
<1>4. QED
  BY <1>1, <1>3, ContentsAt DEF u

LEMMA EmptyContents ==
  ASSUME NEW c, ValidEntries(c) = {}
  PROVE  ContentsOf(c) = [k \in Keys |-> NoValue]
  BY DEF ContentsOf, EntriesOf
=============================================================================
