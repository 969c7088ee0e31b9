----------------------- MODULE LRUContentStoreProofs -----------------------
(***************************************************************************)
(* Theorems about LRUContentStore for every capacity, set of names and     *)
(* hash function, whichever allocations fail: the payload slots in use     *)
(* have one owner each; and while removal cannot break a probe, the store  *)
(* keeps what ContentStoreSpec promises.                                   *)
(***************************************************************************)
EXTENDS LRUContentStore, LRUCacheOpsProofs

-----------------------------------------------------------------------------
(* What the operations of the cache do to its entries.                     *)

\* A probe looks at the entries and their slots alone.
LEMMA SameProbe ==
  ASSUME NEW c, NEW cc, SameButLinks(c, cc), NEW n
  PROVE  /\ FindHashSlot(cc, n) = FindHashSlot(c, n)
         /\ Contains(cc, n) <=> Contains(c, n)
         /\ ValidEntries(cc) = ValidEntries(c)
<1>1. SlotsOf(cc, n) = SlotsOf(c, n) /\ EmptySlots(cc) = EmptySlots(c)
  BY DEF SameButLinks, SlotsOf, UsedSlots, EmptySlots
<1>2. ValidEntries(cc) = ValidEntries(c)
  BY DEF SameButLinks, ValidEntries
<1>3. QED
  BY <1>1, <1>2 DEF FindHashSlot, Contains

LEMMA GetKeeps ==
  ASSUME NEW c \in CacheType, IndexOK(c), NEW n \in Names
  PROVE  /\ GetCache(c, n) \in CacheType /\ IndexOK(GetCache(c, n))
         /\ SameButLinks(c, GetCache(c, n))
<1>1. n \in Keys
  BY DEF Names
<1>2. Contains(c, n) => c.hashTable[FindHashSlot(c, n)] \in Entries
  BY <1>1, FindHashSlotFinds DEF ValidEntries
<1>3. SameButLinks(c, GetCache(c, n))
  BY <1>2, MoveToFrontType DEF GetCache, SameButLinks
<1>4. QED
  BY <1>1, <1>3, GetIndex

\* A put that succeeds writes the slot to the entry of the name, or to one not in use.
LEMMA PutWrites ==
  ASSUME NEW c \in CacheType, IndexOK(c), NEW n \in Names, NEW p \in PayloadSlots
  PROVE  /\ PutCache(c, n, p) \in CacheType /\ IndexOK(PutCache(c, n, p))
         /\ ~PutOk(c, n) => PutCache(c, n, p) = c
         /\ PutOk(c, n) =>
              \E i \in Entries :
                /\ PutCache(c, n, p).value = [c.value EXCEPT ![i] = p]
                /\ ValidEntries(PutCache(c, n, p)) = ValidEntries(c) \cup {i}
                /\ IF Contains(c, n) THEN i = c.hashTable[FindHashSlot(c, n)]
                   ELSE i \notin ValidEntries(c)
<1>1. n \in Keys /\ p \in Values
  BY ContentStoreAssumption DEF ContentStoreAssumption, Names
<1>2. CASE Contains(c, n)
  <2> DEFINE i == c.hashTable[FindHashSlot(c, n)]
             u == [c EXCEPT !.value[i] = p]
  <2>1. i \in Entries /\ i \in ValidEntries(c)
    BY <1>1, <1>2, FindHashSlotFinds DEF ValidEntries
  <2>2. i = c.hashTable[FindHashSlot(c, n)]
    OBVIOUS
  <2> HIDE DEF i
  <2>3. /\ u \in CacheType /\ u.value = [c.value EXCEPT ![i] = p]
        /\ ValidEntries(u) = ValidEntries(c)
    BY <1>1, <2>1 DEF CacheType, ValidEntries
  <2> HIDE DEF u
  <2>4. SameButLinks(u, MoveToFront(u, i))
    BY <2>1, <2>3, MoveToFrontType
  <2>5. PutCache(c, n, p) = Update(c, n, p) /\ Update(c, n, p) = MoveToFront(u, i)
    BY <1>2 DEF PutCache, Update, u, i
  <2>6. PutCache(c, n, p) \in CacheType /\ IndexOK(PutCache(c, n, p))
    BY <1>1, <1>2, <2>5, UpdateIndex
  <2>7. ValidEntries(PutCache(c, n, p)) = ValidEntries(c) \cup {i}
    BY <2>1, <2>3, <2>4, <2>5 DEF SameButLinks, ValidEntries
  <2>8. PutCache(c, n, p).value = [c.value EXCEPT ![i] = p]
    BY <2>3, <2>4, <2>5 DEF SameButLinks
  <2>9. PutOk(c, n)
    BY <1>2 DEF PutOk
  <2>10. QED
    BY <1>2, <2>1, <2>2, <2>6, <2>7, <2>8, <2>9
<1>3. CASE ~Contains(c, n) /\ CanInsert(c, n)
  <2> DEFINE i == FindEmptyEntry(c)
             s == FindEmptyHashSlot(c, n)
             u == [c EXCEPT !.key[i] = n, !.value[i] = p, !.valid[i] = TRUE,
                            !.hashTable[s] = i, !.currentSize = c.currentSize + 1]
  <2>1. i \in Entries \ ValidEntries(c) /\ s \in Slots
    BY <1>1, <1>3, FindEmptyFinds DEF CanInsert, EmptySlots
  <2>2. PutCache(c, n, p) = Insert(c, n, p) /\ Insert(c, n, p) = PushFront(u, i)
    BY <1>3 DEF PutCache, Insert
  <2>3. Insert(c, n, p) \in CacheType /\ IndexOK(Insert(c, n, p))
    BY <1>1, <1>3, InsertIndex
  <2> HIDE DEF i, s
  <2>4. /\ u.value = [c.value EXCEPT ![i] = p]
        /\ u.valid = [c.valid EXCEPT ![i] = TRUE]
    BY DEF CacheType
  <2> HIDE DEF u
  <2>5. PushFront(u, i).value = u.value /\ PushFront(u, i).valid = u.valid
    BY DEF PushFront
  <2>6. ValidEntries(PushFront(u, i)) = ValidEntries(c) \cup {i}
    BY <2>1, <2>4, <2>5 DEF ValidEntries, CacheType
  <2>7. PutOk(c, n)
    BY <1>3 DEF PutOk
  <2>8. QED
    BY <1>3, <2>1, <2>2, <2>3, <2>4, <2>5, <2>6, <2>7
<1>4. CASE ~Contains(c, n) /\ ~CanInsert(c, n)
  BY <1>4 DEF PutCache, PutOk
<1>5. QED
  BY <1>2, <1>3, <1>4

\* A removal ends the use of the entry of the name, and keeps all values.
LEMMA RemoveEnds ==
  ASSUME NEW c \in CacheType, IndexOK(c), NEW n \in Names
  PROVE  /\ ~Contains(c, n) => RemoveCache(c, n) = c
         /\ Contains(c, n) =>
              /\ RemoveCache(c, n).value = c.value
              /\ ValidEntries(RemoveCache(c, n)) =
                   ValidEntries(c) \ {c.hashTable[FindHashSlot(c, n)]}
<1>1. CASE ~Contains(c, n)
  BY <1>1 DEF RemoveCache
<1>2. CASE Contains(c, n)
  <2> DEFINE s == FindHashSlot(c, n)
             i == c.hashTable[s]
             l == RemoveFromList(c, i)
  <2>1. ValidEntries(RemoveCache(c, n)) = ValidEntries(c) \ {i} /\ i \in Entries
    BY <1>2, RemoveLeaves DEF Names, ValidEntries
  <2>2. RemoveCache(c, n).value = l.value
    BY <1>2 DEF RemoveCache
  <2> HIDE DEF i, s
  <2>3. l.value = c.value
    BY <2>1, RemoveFromListType DEF SameButLinks
  <2>4. QED
    BY <1>2, <2>1, <2>2, <2>3 DEF i, s
<1>3. QED
  BY <1>1, <1>2

\* The least number of a set of them.
LEMMA LeastOf ==
  ASSUME NEW S, S \subseteq Nat, S # {}
  PROVE  (CHOOSE i \in S : \A j \in S : i <= j) \in S
<1>1. \E i \in S : \A j \in S : i <= j
  BY LeastExists
<1>2. QED
  BY <1>1

-----------------------------------------------------------------------------
(* Owners: the slots in use are given to the entries of V, one each.       *)

Buffers == [PayloadSlots -> Contents \cup {NoContent}]
Owns == [Entries -> PayloadSlots \cup {NoSlot}]

OwnedBy(V, val, pay) ==
  /\ \A i \in V : val[i] \in PayloadSlots /\ pay[val[i]] # NoContent
  /\ \A q \in PayloadSlots : pay[q] # NoContent => \E i \in V : val[i] = q
  /\ \A i, j \in V : val[i] = val[j] => i = j

LEMMA OwnedIsSlotsOwned ==
  ASSUME cache \in CacheType, payload \in Buffers
  PROVE  SlotsOwned <=> OwnedBy(ValidEntries(cache), cache.value, payload)
<1> DEFINE V == ValidEntries(cache)
<1>1. SlotsOwned <=> /\ {cache.value[i] : i \in V} = PayloadSlots \ FreeSlots
                     /\ \A i, j \in V : cache.value[i] = cache.value[j] => i = j
  BY DEF SlotsOwned
<1> HIDE DEF V
<1>2. {cache.value[i] : i \in V} = PayloadSlots \ FreeSlots <=>
        /\ \A i \in V : cache.value[i] \in PayloadSlots /\ payload[cache.value[i]] # NoContent
        /\ \A q \in PayloadSlots : payload[q] # NoContent => \E i \in V : cache.value[i] = q
  BY DEF FreeSlots
<1>3. QED
  BY <1>1, <1>2 DEF OwnedBy, V

\* The content of an entry is replaced: the new slot is filled, the old one released.
LEMMA OwnerMoves ==
  ASSUME NEW V \in SUBSET Entries, NEW val \in Owns, NEW pay \in Buffers,
         OwnedBy(V, val, pay),
         NEW i \in V, NEW new \in PayloadSlots, pay[new] = NoContent, NEW c \in Contents
  PROVE  OwnedBy(V, [val EXCEPT ![i] = new],
                 [[pay EXCEPT ![new] = c] EXCEPT ![val[i]] = NoContent])
<1> DEFINE old == val[i]
           val2 == [val EXCEPT ![i] = new]
           pay2 == [[pay EXCEPT ![new] = c] EXCEPT ![old] = NoContent]
<1>1. old \in PayloadSlots /\ old # new
  BY DEF OwnedBy
<1>2. val2[i] = new /\ \A j \in V : j # i => val2[j] = val[j]
  BY DEF Owns
<1>3. /\ pay2[new] = c /\ c # NoContent /\ pay2[old] = NoContent
      /\ \A q \in PayloadSlots : q # new /\ q # old => pay2[q] = pay[q]
  BY <1>1, ContentStoreAssumption DEF Buffers, ContentStoreAssumption
<1> HIDE DEF val2, pay2
<1>4. \A j \in V : j # i => val[j] # new /\ val[j] # old
  BY DEF OwnedBy
<1>5. \A j \in V : val2[j] \in PayloadSlots /\ pay2[val2[j]] # NoContent
  BY <1>2, <1>3, <1>4 DEF OwnedBy
<1>6. ASSUME NEW q \in PayloadSlots, pay2[q] # NoContent
      PROVE  \E j \in V : val2[j] = q
  <2>1. CASE q = new
    BY <1>2, <2>1
  <2>2. CASE q # new
    <3>1. q # old /\ pay[q] # NoContent
      BY <1>3, <1>6, <2>2
    <3>2. PICK j \in V : val[j] = q
      BY <3>1 DEF OwnedBy
    <3>3. QED
      BY <1>2, <3>1, <3>2
  <2>3. QED
    BY <2>1, <2>2
<1>7. \A j, k \in V : val2[j] = val2[k] => j = k
  BY <1>2, <1>4 DEF OwnedBy
<1>8. QED
  BY <1>5, <1>6, <1>7 DEF OwnedBy, val2, pay2

\* A new entry is given a slot that was free.
LEMMA OwnerJoins ==
  ASSUME NEW V \in SUBSET Entries, NEW val \in Owns, NEW pay \in Buffers,
         OwnedBy(V, val, pay), NEW i \in Entries, i \notin V,
         NEW new \in PayloadSlots, pay[new] = NoContent, NEW c \in Contents
  PROVE  OwnedBy(V \cup {i}, [val EXCEPT ![i] = new], [pay EXCEPT ![new] = c])
<1> DEFINE val2 == [val EXCEPT ![i] = new]
           pay2 == [pay EXCEPT ![new] = c]
<1>1. val2[i] = new /\ \A j \in V : val2[j] = val[j]
  BY DEF Owns
<1>2. /\ pay2[new] = c /\ c # NoContent
      /\ \A q \in PayloadSlots : q # new => pay2[q] = pay[q]
  BY ContentStoreAssumption DEF Buffers, ContentStoreAssumption
<1> HIDE DEF val2, pay2
<1>3. \A j \in V : val[j] # new
  BY DEF OwnedBy
<1>4. QED
  BY <1>1, <1>2, <1>3 DEF OwnedBy, val2, pay2

\* An entry is removed and its slot released.
LEMMA OwnerLeaves ==
  ASSUME NEW V \in SUBSET Entries, NEW val \in Owns, NEW pay \in Buffers,
         OwnedBy(V, val, pay), NEW i \in V
  PROVE  OwnedBy(V \ {i}, val, [pay EXCEPT ![val[i]] = NoContent])
<1> DEFINE pay2 == [pay EXCEPT ![val[i]] = NoContent]
<1>1. val[i] \in PayloadSlots /\ \A j \in V : j # i => val[j] # val[i]
  BY DEF OwnedBy
<1>2. pay2[val[i]] = NoContent /\ \A q \in PayloadSlots : q # val[i] => pay2[q] = pay[q]
  BY <1>1 DEF Buffers
<1> HIDE DEF pay2
<1>3. QED
  BY <1>1, <1>2 DEF OwnedBy, pay2

-----------------------------------------------------------------------------
(* The invariant and the steps.                                            *)

IInv ==
  /\ cache \in CacheType /\ IndexOK(cache)
  /\ payload \in Buffers
  /\ OwnedBy(ValidEntries(cache), cache.value, payload)

LEMMA ValueSlots ==
  ASSUME NEW c \in CacheType
  PROVE  c.value \in Owns
BY ContentStoreAssumption DEF ContentStoreAssumption, CacheType, Owns

\* A name leads to a slot exactly when the cache contains it.
LEMMA SlotOfName ==
  ASSUME IInv, NEW n \in Names
  PROVE  LET i == cache.hashTable[FindHashSlot(cache, n)]
         IN  /\ ~Contains(cache, n) => SlotFor(n) = NoSlot
             /\ Contains(cache, n) =>
                  /\ i \in ValidEntries(cache) /\ SlotFor(n) = cache.value[i]
                  /\ SlotFor(n) \in PayloadSlots /\ SlotFor(n) # NoSlot
<1>1. CASE ~Contains(cache, n)
  BY <1>1 DEF SlotFor
<1>2. CASE Contains(cache, n)
  <2> DEFINE i == cache.hashTable[FindHashSlot(cache, n)]
  <2>1. i \in ValidEntries(cache)
    BY <1>2, FindHashSlotFinds DEF IInv, Names
  <2>2. SlotFor(n) = cache.value[i]
    BY <1>2 DEF SlotFor, ValueOf
  <2> HIDE DEF i
  <2>3. cache.value[i] \in PayloadSlots
    BY <2>1 DEF IInv, OwnedBy
  <2>4. cache.value[i] # NoSlot
    BY <2>3 DEF PayloadSlots, NoSlot
  <2>5. QED
    BY <1>2, <2>1, <2>2, <2>3, <2>4 DEF i
<1>3. QED
  BY <1>1, <1>2

LEMMA FreeSlotFound ==
  ASSUME FindFreePayloadSlot # NoSlot
  PROVE  FindFreePayloadSlot \in PayloadSlots /\ payload[FindFreePayloadSlot] = NoContent
<1>1. FreeSlots # {} /\ FreeSlots \subseteq Nat
  BY DEF FindFreePayloadSlot, FreeSlots, PayloadSlots
<1>2. FindFreePayloadSlot = CHOOSE p \in FreeSlots : \A q \in FreeSlots : p <= q
  BY <1>1 DEF FindFreePayloadSlot
<1>3. FindFreePayloadSlot \in FreeSlots
  BY <1>1, <1>2, LeastOf
<1>4. QED
  BY <1>3 DEF FreeSlots

\* What is true of the entries of a cache is true after a look-up in it.
LEMMA TouchedOwned ==
  ASSUME IInv, NEW n \in Names
  PROVE  LET t == GetCache(cache, n)
         IN  /\ t \in CacheType /\ IndexOK(t) /\ t.value = cache.value
             /\ ValidEntries(t) = ValidEntries(cache)
             /\ Contains(t, n) <=> Contains(cache, n)
             /\ t.hashTable[FindHashSlot(t, n)] = cache.hashTable[FindHashSlot(cache, n)]
<1> DEFINE t == GetCache(cache, n)
<1>1. t \in CacheType /\ IndexOK(t) /\ SameButLinks(cache, t)
  BY GetKeeps DEF IInv
<1> HIDE DEF t
<1>2. /\ FindHashSlot(t, n) = FindHashSlot(cache, n)
      /\ Contains(t, n) <=> Contains(cache, n)
      /\ ValidEntries(t) = ValidEntries(cache)
  BY <1>1, SameProbe
<1>3. QED
  BY <1>1, <1>2 DEF SameButLinks, t

LEMMA EmptyOwned ==
  ASSUME NEW c
  PROVE  ValidEntries(EmptyCache) = {} /\ ValidEntries(ClearCache(c)) = {}
<1>1. EmptyCache.valid = [i \in Entries |-> FALSE] /\ ClearCache(c).valid = EmptyCache.valid
  BY DEF EmptyCache, ClearCache
<1>2. QED
  BY <1>1 DEF ValidEntries

LEMMA InitOwned == Init => IInv
<1> SUFFICES ASSUME Init PROVE IInv
  OBVIOUS
<1>1. cache \in CacheType /\ IndexOK(cache) /\ ValidEntries(cache) = {}
  BY EmptyIndex, EmptyOwned DEF Init
<1>2. payload \in Buffers /\ \A q \in PayloadSlots : payload[q] = NoContent
  BY DEF Init, Buffers
<1>3. QED
  BY <1>1, <1>2 DEF IInv, OwnedBy

\* A save keeps one owner per slot in each of its outcomes: nothing to store the
\* content in, the cache refuses the name, it replaces the slot, or it adds one.
LEMMA SaveOwned ==
  ASSUME IInv, NEW n \in Names, NEW c \in Contents, NEW memory, Save(n, c, memory)
  PROVE  IInv'
<1> DEFINE t == GetCache(cache, n)
           old == SlotFor(n)
           new == FindFreePayloadSlot
           stored == [payload EXCEPT ![new] = c]
           u == PutCache(t, n, new)
           V == ValidEntries(cache)
           e == cache.hashTable[FindHashSlot(cache, n)]
<1>1. /\ t \in CacheType /\ IndexOK(t) /\ t.value = cache.value /\ ValidEntries(t) = V
      /\ Contains(t, n) <=> Contains(cache, n)
      /\ t.hashTable[FindHashSlot(t, n)] = e
  BY TouchedOwned
<1>2. CASE ~memory \/ new = NoSlot
  <2>1. cache' = t /\ payload' = payload
    BY <1>2 DEF Save
  <2> HIDE DEF t
  <2>2. QED
    BY <1>1, <2>1 DEF IInv
<1>3. CASE ~(~memory \/ new = NoSlot)
  <2>1. /\ cache' = u
        /\ payload' = IF PutOk(t, n) THEN ReleasePayloadSlot(stored, old)
                      ELSE ReleasePayloadSlot(stored, new)
    BY <1>3 DEF Save
  <2>2. new \in PayloadSlots /\ payload[new] = NoContent /\ new # NoSlot
    BY <1>3, FreeSlotFound
  <2>3. /\ ~Contains(cache, n) => old = NoSlot
        /\ Contains(cache, n) => /\ e \in V /\ old = cache.value[e]
                                   /\ old \in PayloadSlots /\ old # NoSlot
    BY SlotOfName
  <2>4. /\ u \in CacheType /\ IndexOK(u)
        /\ ~PutOk(t, n) => u = t
        /\ PutOk(t, n) =>
             \E i \in Entries :
               /\ u.value = [t.value EXCEPT ![i] = new]
               /\ ValidEntries(u) = ValidEntries(t) \cup {i}
               /\ IF Contains(t, n) THEN i = t.hashTable[FindHashSlot(t, n)]
                  ELSE i \notin ValidEntries(t)
    BY <1>1, <2>2, PutWrites
  <2>5. V \in SUBSET Entries /\ cache.value \in Owns
    BY ValueSlots DEF ValidEntries, IInv
  <2>6. payload \in Buffers /\ OwnedBy(V, cache.value, payload)
    BY DEF IInv
  <2> HIDE DEF t, old, new, u, V, e
  <2>7. CASE ~PutOk(t, n)
    <3>1. payload' = [stored EXCEPT ![new] = NoContent]
      BY <2>1, <2>2, <2>7 DEF ReleasePayloadSlot
    <3>2. payload' = payload
      BY <2>2, <2>6, <3>1 DEF Buffers
    <3>3. cache' = t
      BY <2>1, <2>4, <2>7
    <3>4. QED
      BY <1>1, <2>6, <3>2, <3>3 DEF IInv
  <2>8. CASE PutOk(t, n)
    <3>1. PICK i \in Entries :
            /\ u.value = [cache.value EXCEPT ![i] = new]
            /\ ValidEntries(u) = V \cup {i}
            /\ IF Contains(cache, n) THEN i = e ELSE i \notin V
      BY <1>1, <2>4, <2>8
    <3>2. payload' = ReleasePayloadSlot(stored, old)
      BY <2>1, <2>8
    <3>3. CASE Contains(cache, n)
      <4>1. i \in V /\ old = cache.value[i] /\ old # NoSlot /\ V \cup {i} = V
        BY <2>3, <3>1, <3>3
      <4>2. payload' = [[payload EXCEPT ![new] = c] EXCEPT ![cache.value[i]] = NoContent]
        BY <3>2, <4>1 DEF ReleasePayloadSlot
      <4>3. OwnedBy(V, [cache.value EXCEPT ![i] = new], payload')
        BY <2>2, <2>5, <2>6, <4>1, <4>2, OwnerMoves
      <4>4. payload' \in Buffers
        BY <2>6, <4>2 DEF Buffers
      <4>5. QED
        BY <2>1, <2>4, <3>1, <4>1, <4>3, <4>4 DEF IInv
    <3>4. CASE ~Contains(cache, n)
      <4>1. i \notin V
        BY <3>1, <3>4
      <4>2. payload' = [payload EXCEPT ![new] = c]
        BY <2>3, <3>2, <3>4 DEF ReleasePayloadSlot
      <4>3. OwnedBy(V \cup {i}, [cache.value EXCEPT ![i] = new], payload')
        BY <2>2, <2>5, <2>6, <4>1, <4>2, OwnerJoins
      <4>4. payload' \in Buffers
        BY <2>6, <4>2 DEF Buffers
      <4>5. QED
        BY <2>1, <2>4, <3>1, <4>3, <4>4 DEF IInv
    <3>5. QED
      BY <3>3, <3>4
  <2>9. QED
    BY <2>7, <2>8
<1>4. QED
  BY <1>2, <1>3

LEMMA GetOwned ==
  ASSUME IInv, NEW n \in Names, Get(n)
  PROVE  IInv'
<1>1. cache' = GetCache(cache, n) /\ payload' = payload
  BY DEF Get
<1>2. QED
  BY <1>1, TouchedOwned DEF IInv

LEMMA RemoveOwned ==
  ASSUME IInv, NEW n \in Names, Remove(n)
  PROVE  IInv'
<1> DEFINE t == GetCache(cache, n)
           r == RemoveCache(t, n)
           V == ValidEntries(cache)
           e == cache.hashTable[FindHashSlot(cache, n)]
<1>1. /\ t \in CacheType /\ IndexOK(t) /\ t.value = cache.value /\ ValidEntries(t) = V
      /\ Contains(t, n) <=> Contains(cache, n)
      /\ t.hashTable[FindHashSlot(t, n)] = e
  BY TouchedOwned
<1>2. cache' = r /\ payload' = ReleasePayloadSlot(payload, SlotFor(n))
  BY DEF Remove
<1>3. /\ r \in CacheType /\ IndexOK(r)
      /\ ~Contains(t, n) => r = t
      /\ Contains(t, n) =>
           /\ r.value = t.value
           /\ ValidEntries(r) = ValidEntries(t) \ {t.hashTable[FindHashSlot(t, n)]}
  BY <1>1, RemoveIndex, RemoveEnds DEF Names
<1>4. /\ ~Contains(cache, n) => SlotFor(n) = NoSlot
      /\ Contains(cache, n) => /\ e \in V /\ SlotFor(n) = cache.value[e]
                                 /\ SlotFor(n) \in PayloadSlots /\ SlotFor(n) # NoSlot
  BY SlotOfName
<1>5. V \in SUBSET Entries /\ cache.value \in Owns
  BY ValueSlots DEF ValidEntries, IInv
<1>6. payload \in Buffers /\ OwnedBy(V, cache.value, payload)
  BY DEF IInv
<1> HIDE DEF t, r, V, e
<1>7. CASE ~Contains(cache, n)
  <2>1. cache' = t /\ payload' = payload
    BY <1>1, <1>2, <1>3, <1>4, <1>7 DEF ReleasePayloadSlot
  <2>2. QED
    BY <1>1, <1>6, <2>1 DEF IInv
<1>8. CASE Contains(cache, n)
  <2>1. payload' = [payload EXCEPT ![cache.value[e]] = NoContent]
    BY <1>2, <1>4, <1>8 DEF ReleasePayloadSlot
  <2>2. OwnedBy(V \ {e}, cache.value, payload')
    BY <1>4, <1>5, <1>6, <1>8, <2>1, OwnerLeaves
  <2>3. payload' \in Buffers
    BY <1>6, <2>1 DEF Buffers
  <2>4. r.value = cache.value /\ ValidEntries(r) = V \ {e}
    BY <1>1, <1>3, <1>8
  <2>5. QED
    BY <1>2, <1>3, <2>2, <2>3, <2>4 DEF IInv
<1>9. QED
  BY <1>7, <1>8

LEMMA ClearOwned ==
  ASSUME IInv, Clear
  PROVE  IInv'
<1>1. cache' = ClearCache(cache) /\ payload' = [p \in PayloadSlots |-> NoContent]
  BY DEF Clear
<1>2. cache' \in CacheType /\ IndexOK(cache') /\ ValidEntries(cache') = {}
  BY <1>1, ClearIndex, EmptyOwned DEF IInv
<1>3. payload' \in Buffers /\ \A q \in PayloadSlots : payload'[q] = NoContent
  BY <1>1 DEF Buffers
<1>4. QED
  BY <1>2, <1>3 DEF IInv, OwnedBy

LEMMA OwnedStep == IInv /\ [Next]_vars => IInv'
<1> SUFFICES ASSUME IInv, [Next]_vars PROVE IInv'
  OBVIOUS
<1>1. CASE \E n \in Names, c \in Contents, memory \in BOOLEAN : Save(n, c, memory)
  BY <1>1, SaveOwned
<1>2. CASE \E n \in Names : Get(n)
  BY <1>2, GetOwned
<1>3. CASE \E n \in Names : Remove(n)
  BY <1>3, RemoveOwned
<1>4. CASE Clear
  BY <1>4, ClearOwned
<1>5. CASE UNCHANGED vars
  BY <1>5 DEF IInv, vars
<1>6. QED
  BY <1>1, <1>2, <1>3, <1>4, <1>5 DEF Next

\* Every field of LRUContentStore holds an index, a name or a content of its range,
\* after any calls: the size counter of the cache stays within the capacity, and a
\* find answers a content or nothing.
THEOREM TypeTheorem == Spec => []TypeOK
<1>1. Init => TypeOK
  BY EmptyIndex DEF Init, TypeOK
<1>2. IInv /\ TypeOK /\ [Next]_vars /\ IInv' => TypeOK'
  <2> SUFFICES ASSUME IInv, TypeOK, [Next]_vars, IInv' PROVE TypeOK'
    OBVIOUS
  <2>1. answer' \in Contents \cup {NoContent}
    <3>1. ASSUME NEW n \in Names, Get(n)
          PROVE  answer' \in Contents \cup {NoContent}
      <4>1. SlotFor(n) # NoSlot => SlotFor(n) \in PayloadSlots
        BY SlotOfName
      <4>2. answer' = IF SlotFor(n) = NoSlot THEN NoContent ELSE payload[SlotFor(n)]
        BY <3>1 DEF Get
      <4>3. QED
        BY <4>1, <4>2 DEF TypeOK
    <3>2. QED
      BY <3>1 DEF Next, Save, Remove, Clear, vars, TypeOK
  <2>2. QED
    BY <2>1 DEF IInv, TypeOK, Buffers
<1>3. QED
  BY <1>1, <1>2, InitOwned, OwnedStep, PTL DEF Spec

\* Every payload slot in use belongs to exactly one entry in use and every entry in
\* use has one, after any calls of save, find, remove and clear, whatever the names
\* hash to and whichever allocations fail: LRUContentStore leaks no buffer, frees
\* none under a name and shares none between two names.
THEOREM SlotsTheorem == Spec => []SlotsOwned
<1>1. IInv => SlotsOwned
  BY OwnedIsSlotsOwned DEF IInv
<1>2. QED
  BY <1>1, InitOwned, OwnedStep, PTL DEF Spec

-----------------------------------------------------------------------------
(* The slot of each name, as a map.                                        *)

ReachInv == IInv /\ Reach(cache)

ContentIn(slotOf, pay) ==
  [n \in Names |-> IF slotOf[n] = NoSlot THEN NoContent ELSE pay[slotOf[n]]]

\* The slots in use are given to the names, one each.
NamesOwn(slotOf, pay) ==
  /\ slotOf \in [Names -> PayloadSlots \cup {NoSlot}]
  /\ \A n \in Names : slotOf[n] # NoSlot => pay[slotOf[n]] # NoContent
  /\ \A m, n \in Names : slotOf[m] # NoSlot /\ slotOf[m] = slotOf[n] => m = n

\* What the probe for a name leads to is what the map of the cache holds for it.
LEMMA ProbeIsMap ==
  ASSUME NEW c \in CacheType, IndexOK(c), Reach(c), NEW n \in Names
  PROVE  (IF Contains(c, n) THEN ValueOf(c, n) ELSE NoSlot) = ContentsOf(c)[n]
<1>1. n \in Keys /\ NoSlot = NoValue
  BY ContentStoreAssumption DEF ContentStoreAssumption, Names
<1>2. CASE Contains(c, n)
  <2> DEFINE i == c.hashTable[FindHashSlot(c, n)]
  <2>1. i \in ValidEntries(c) /\ c.key[i] = n
    BY <1>1, <1>2, FindHashSlotFinds
  <2>2. ValueOf(c, n) = c.value[i]
    BY DEF ValueOf
  <2> HIDE DEF i
  <2>3. ContentsOf(c)[n] = c.value[i]
    BY <2>1, ContentsAt
  <2>4. QED
    BY <1>2, <2>2, <2>3
<1>3. CASE ~Contains(c, n)
  <2>1. \A i \in ValidEntries(c) : c.key[i] # n
    BY <1>1, <1>3, ReachFinds
  <2>2. QED
    BY <1>1, <1>3, <2>1, ContentsAt
<1>4. QED
  BY <1>2, <1>3

LEMMA ContentIsMap ==
  ASSUME ReachInv
  PROVE  /\ \A n \in Names : SlotFor(n) = ContentsOf(cache)[n]
         /\ ContentOf = ContentIn(ContentsOf(cache), payload)
<1>1. \A n \in Names : SlotFor(n) = ContentsOf(cache)[n]
  BY ProbeIsMap DEF ReachInv, IInv, SlotFor
<1>2. QED
  BY <1>1 DEF ContentOf, ContentIn

LEMMA SlotsOfNames ==
  ASSUME ReachInv
  PROVE  NamesOwn(ContentsOf(cache), payload)
<1> DEFINE V == ValidEntries(cache)
           slotOf == ContentsOf(cache)
<1>1. /\ cache \in CacheType /\ Reach(cache) /\ OwnedBy(V, cache.value, payload)
      /\ Names = Keys /\ Values = PayloadSlots /\ NoValue = NoSlot
  BY ContentStoreAssumption DEF ReachInv, IInv, ContentStoreAssumption, Names
<1>2. /\ slotOf \in [Names -> PayloadSlots \cup {NoSlot}]
      /\ \A i \in V : slotOf[cache.key[i]] = cache.value[i]
      /\ \A n \in Names : slotOf[n] # NoSlot => \E i \in V : cache.key[i] = n
  BY <1>1, ContentsAt
<1> HIDE DEF V, slotOf
<1>3. \A n \in Names : slotOf[n] # NoSlot =>
        \E i \in V : cache.key[i] = n /\ slotOf[n] = cache.value[i]
  BY <1>2
<1>4. QED
  BY <1>1, <1>2, <1>3 DEF NamesOwn, OwnedBy, slotOf

\* The promise counts the names that have a content; the store looks for a free slot.
LEMMA StoredCounted ==
  ASSUME ReachInv
  PROVE  /\ Cardinality({n \in Names : ContentOf[n] # NoContent}) = cache.currentSize
         /\ cache.currentSize < Capacity <=> FindFreePayloadSlot # NoSlot
<1> DEFINE V == ValidEntries(cache)
           used == PayloadSlots \ FreeSlots
           slotOf == ContentsOf(cache)
<1>1. {n \in Names : ContentOf[n] # NoContent} = {k \in Keys : slotOf[k] # NoValue}
  <2>1. NamesOwn(slotOf, payload) /\ ContentOf = ContentIn(slotOf, payload)
    BY ContentIsMap, SlotsOfNames
  <2>2. Names = Keys /\ NoValue = NoSlot
    BY ContentStoreAssumption DEF ContentStoreAssumption, Names
  <2> HIDE DEF slotOf
  <2>3. QED
    BY <2>1, <2>2 DEF NamesOwn, ContentIn
<1>2. Cardinality({k \in Keys : slotOf[k] # NoValue}) = cache.currentSize
  BY PresentCounted DEF ReachInv, IInv
<1>3. cache.currentSize = Cardinality(V) /\ IsFiniteSet(V)
  BY EntriesFinite DEF ReachInv, IInv, IndexOK
<1>4. Cardinality(V) = Cardinality(used)
  <2> DEFINE owns == [i \in V |-> cache.value[i]]
  <2>1. OwnedBy(V, cache.value, payload)
    BY DEF ReachInv, IInv
  <2> HIDE DEF V
  <2>2. /\ \A i \in V : owns[i] \in used
        /\ \A i, j \in V : owns[i] = owns[j] => i = j
        /\ \A q \in used : \E i \in V : owns[i] = q
    BY <2>1 DEF OwnedBy, FreeSlots
  <2>3. owns \in [V -> used]
    BY <2>2
  <2> HIDE DEF owns, used
  <2>4. owns \in Bijection(V, used)
    BY <2>2, <2>3 DEF Bijection, Injection, Surjection, IsInjective
  <2>5. QED
    BY <1>3, <2>4, FS_Bijection DEF ExistsBijection, V
<1>5. IsFiniteSet(PayloadSlots) /\ Cardinality(PayloadSlots) = Capacity
  BY EntriesFinite DEF Entries, PayloadSlots, Capacity
<1>6. FreeSlots \subseteq PayloadSlots /\ FreeSlots \subseteq Nat
  BY DEF FreeSlots, PayloadSlots
<1>7. FreeSlots = {} => Cardinality(used) = Capacity
  BY <1>5
<1>8. FreeSlots # {} => Cardinality(used) < Capacity
  <2> HIDE DEF used
  <2>1. used \subseteq PayloadSlots /\ (FreeSlots # {} => used # PayloadSlots)
    BY <1>6 DEF used
  <2>2. IsFiniteSet(used)
    BY <1>5, <2>1, FS_Subset
  <2>3. Cardinality(used) \in Nat /\ Cardinality(PayloadSlots) \in Nat
    BY <1>5, <2>2, FS_CardinalityType
  <2>4. used # PayloadSlots => Cardinality(used) < Cardinality(PayloadSlots)
    BY <1>5, <2>1, <2>3, FS_Subset
  <2>5. QED
    BY <1>5, <2>1, <2>4
<1>9. FreeSlots = {} <=> FindFreePayloadSlot = NoSlot
  <2>1. FreeSlots # {} => FindFreePayloadSlot \in FreeSlots
    BY <1>6, LeastOf DEF FindFreePayloadSlot
  <2>2. NoSlot \notin Nat
    BY DEF NoSlot
  <2>3. QED
    BY <1>6, <2>1, <2>2 DEF FindFreePayloadSlot
<1> HIDE DEF used, V
<1>10. Capacity \in Nat
  BY CacheAssumption DEF Capacity
<1>11. QED
  BY <1>1, <1>2, <1>3, <1>4, <1>7, <1>8, <1>9, <1>10

-----------------------------------------------------------------------------
(* Every call is a call of the store that is promised.                     *)

\* A save gives the name a new slot; the other names keep theirs.
LEMMA ContentSaved ==
  ASSUME NEW slotOf, NEW pay \in Buffers, NamesOwn(slotOf, pay), NEW n \in Names,
         NEW new \in PayloadSlots, pay[new] = NoContent, NEW c
  PROVE  ContentIn([slotOf EXCEPT ![n] = new],
                   ReleasePayloadSlot([pay EXCEPT ![new] = c], slotOf[n]))
           = [ContentIn(slotOf, pay) EXCEPT ![n] = c]
<1> DEFINE old == slotOf[n]
           slotOf2 == [slotOf EXCEPT ![n] = new]
           pay2 == ReleasePayloadSlot([pay EXCEPT ![new] = c], old)
<1>1. new # NoSlot /\ old # new
  BY DEF NamesOwn, PayloadSlots, NoSlot
<1>2. slotOf2[n] = new /\ \A m \in Names : m # n => slotOf2[m] = slotOf[m]
  BY DEF NamesOwn
<1>3. \A m \in Names : m # n /\ slotOf[m] # NoSlot =>
        /\ slotOf[m] \in PayloadSlots /\ slotOf[m] # new /\ slotOf[m] # old
  BY DEF NamesOwn
<1>4. /\ pay2[new] = c
      /\ \A q \in PayloadSlots : q # new /\ q # old => pay2[q] = pay[q]
  BY <1>1 DEF ReleasePayloadSlot, Buffers
<1> HIDE DEF slotOf2, pay2, old
<1>5. ContentIn(slotOf2, pay2)[n] = c
  BY <1>1, <1>2, <1>4 DEF ContentIn
<1>6. \A m \in Names : m # n => ContentIn(slotOf2, pay2)[m] = ContentIn(slotOf, pay)[m]
  BY <1>2, <1>3, <1>4 DEF ContentIn
<1>7. ContentIn(slotOf2, pay2) = [ContentIn(slotOf, pay) EXCEPT ![n] = c]
  BY <1>5, <1>6 DEF ContentIn
<1>8. QED
  BY <1>7 DEF slotOf2, pay2, old

\* A remove takes the slot from the name; the other names keep theirs.
LEMMA ContentRemoved ==
  ASSUME NEW slotOf, NEW pay \in Buffers, NamesOwn(slotOf, pay), NEW n \in Names
  PROVE  ContentIn([slotOf EXCEPT ![n] = NoSlot], ReleasePayloadSlot(pay, slotOf[n]))
           = [ContentIn(slotOf, pay) EXCEPT ![n] = NoContent]
<1> DEFINE slotOf2 == [slotOf EXCEPT ![n] = NoSlot]
           pay2 == ReleasePayloadSlot(pay, slotOf[n])
<1>1. slotOf2[n] = NoSlot /\ \A m \in Names : m # n => slotOf2[m] = slotOf[m]
  BY DEF NamesOwn
<1>2. \A m \in Names : m # n /\ slotOf[m] # NoSlot =>
        slotOf[m] \in PayloadSlots /\ slotOf[m] # slotOf[n]
  BY DEF NamesOwn
<1>3. \A q \in PayloadSlots : q # slotOf[n] => pay2[q] = pay[q]
  BY DEF ReleasePayloadSlot, Buffers
<1> HIDE DEF slotOf2, pay2
<1>4. \A m \in Names : m # n => ContentIn(slotOf2, pay2)[m] = ContentIn(slotOf, pay)[m]
  BY <1>1, <1>2, <1>3 DEF ContentIn
<1>5. ContentIn(slotOf2, pay2) = [ContentIn(slotOf, pay) EXCEPT ![n] = NoContent]
  BY <1>1, <1>4 DEF ContentIn
<1>6. QED
  BY <1>5 DEF slotOf2, pay2

\* A look-up leaves the map of the cache as it is.
LEMMA TouchedMap ==
  ASSUME ReachInv, NEW n \in Names
  PROVE  LET t == GetCache(cache, n)
         IN  /\ t \in CacheType /\ IndexOK(t) /\ Reach(t)
             /\ ContentsOf(t) = ContentsOf(cache) /\ t.currentSize = cache.currentSize
<1> DEFINE t == GetCache(cache, n)
<1>1. n \in Keys /\ cache \in CacheType /\ IndexOK(cache) /\ Reach(cache)
  BY DEF ReachInv, IInv, Names
<1>2. t \in CacheType /\ IndexOK(t) /\ SameButLinks(cache, t) /\ Reach(t)
  BY <1>1, GetKeeps, GetReach DEF Names
<1> HIDE DEF t
<1>3. ContentsOf(t) = ContentsOf(cache) /\ t.currentSize = cache.currentSize
  BY <1>2, ContentsIgnoreLinks DEF SameButLinks
<1>4. QED
  BY <1>2, <1>3 DEF t

\* A put of a slot when there is room for a new name.
LEMMA PutMap ==
  ASSUME CollisionSafe, NEW t \in CacheType, IndexOK(t), Reach(t),
         t.currentSize < Capacity, NEW n \in Names, NEW p \in PayloadSlots
  PROVE  /\ PutOk(t, n) /\ Reach(PutCache(t, n, p))
         /\ ContentsOf(PutCache(t, n, p)) = [ContentsOf(t) EXCEPT ![n] = p]
<1>1. n \in Keys /\ p \in Values /\ CanInsert(t, n)
  BY ContentStoreAssumption, RoomForNewKey DEF ContentStoreAssumption, Names, Capacity
<1>2. QED
  BY <1>1, UpdateReach, InsertReach, UpdateContents, InsertContents DEF PutOk, PutCache

\* The store after a step, read off the map of the cache it leaves.
LEMMA ContentIsMapNext ==
  ASSUME IInv', Reach(cache')
  PROVE  ContentOf' = ContentIn(ContentsOf(cache'), payload')
<1>1. \A n \in Names :
        (IF Contains(cache', n) THEN ValueOf(cache', n) ELSE NoSlot) = ContentsOf(cache')[n]
  BY ProbeIsMap DEF IInv
<1>2. QED
  BY <1>1 DEF ContentOf, ContentIn, SlotFor

LEMMA SavePromised ==
  ASSUME CollisionSafe, ReachInv, NEW n \in Names, NEW c \in Contents,
         NEW memory \in BOOLEAN, Save(n, c, memory)
  PROVE  Promise!Save(n, c, memory) /\ Reach(cache')
<1> DEFINE t == GetCache(cache, n)
           new == FindFreePayloadSlot
           slotOf == ContentsOf(cache)
           u == PutCache(t, n, new)
<1>1. /\ t \in CacheType /\ IndexOK(t) /\ Reach(t)
      /\ ContentsOf(t) = slotOf /\ t.currentSize = cache.currentSize
  BY TouchedMap
<1>2. Promise!Cardinality(Promise!Present) < Capacity <=> new # NoSlot
  <2>1. \A S : Promise!Cardinality(S) = Cardinality(S)
    BY Zenon DEF Promise!Cardinality, Cardinality
  <2>2. QED
    BY <2>1, StoredCounted DEF Promise!Present
<1>3. /\ ContentOf = ContentIn(slotOf, payload) /\ SlotFor(n) = slotOf[n]
      /\ NamesOwn(slotOf, payload) /\ payload \in Buffers
  BY ContentIsMap, SlotsOfNames DEF ReachInv, IInv
<1>4. IInv'
  BY SaveOwned DEF ReachInv
<1>5. call' = <<"save", n, c, memory>> /\ answer' = answer
  BY DEF Save
<1>6. CASE ~memory \/ new = NoSlot
  <2>1. cache' = t /\ payload' = payload
    BY <1>6 DEF Save
  <2> HIDE DEF t, new, slotOf
  <2>2. ContentOf' = ContentOf
    BY <1>1, <1>3, <1>4, <2>1, ContentIsMapNext
  <2>3. QED
    BY <1>1, <1>2, <1>5, <1>6, <2>1, <2>2 DEF Promise!Save
<1>7. CASE memory /\ new # NoSlot
  <2>1. /\ cache' = u
        /\ payload' = IF PutOk(t, n)
                      THEN ReleasePayloadSlot([payload EXCEPT ![new] = c], SlotFor(n))
                      ELSE ReleasePayloadSlot([payload EXCEPT ![new] = c], new)
    BY <1>7 DEF Save
  <2>2. new \in PayloadSlots /\ payload[new] = NoContent
    BY <1>7, FreeSlotFound
  <2>3. t.currentSize < Capacity
    BY <1>1, <1>7, StoredCounted
  <2> HIDE DEF t, new, slotOf
  <2>4. PutOk(t, n) /\ Reach(u) /\ ContentsOf(u) = [slotOf EXCEPT ![n] = new]
    BY <1>1, <2>2, <2>3, PutMap
  <2> HIDE DEF u
  <2>5. ContentOf' = ContentIn([slotOf EXCEPT ![n] = new],
                               ReleasePayloadSlot([payload EXCEPT ![new] = c], slotOf[n]))
    BY <1>3, <1>4, <2>1, <2>4, ContentIsMapNext
  <2>6. ContentOf' = [ContentOf EXCEPT ![n] = c]
    BY <1>3, <2>2, <2>5, ContentSaved
  <2>7. QED
    BY <1>2, <1>5, <1>7, <2>1, <2>4, <2>6 DEF Promise!Save
<1>8. QED
  BY <1>6, <1>7

LEMMA GetPromised ==
  ASSUME ReachInv, NEW n \in Names, Get(n)
  PROVE  Promise!Get(n) /\ Reach(cache')
<1>1. cache' = GetCache(cache, n) /\ payload' = payload
  BY DEF Get
<1>2. Reach(cache') /\ ContentsOf(cache') = ContentsOf(cache)
  BY <1>1, TouchedMap
<1>3. ContentOf' = ContentOf
  <2>1. IInv'
    BY GetOwned DEF ReachInv
  <2>2. QED
    BY <1>1, <1>2, <2>1, ContentIsMap, ContentIsMapNext
<1>4. answer' = ContentOf[n]
  BY DEF Get, ContentOf
<1>5. QED
  BY <1>2, <1>3, <1>4 DEF Get, Promise!Get

LEMMA RemovePromised ==
  ASSUME ReachInv, NEW n \in Names, Remove(n)
  PROVE  Promise!Remove(n) /\ Reach(cache')
<1> DEFINE t == GetCache(cache, n)
           slotOf == ContentsOf(cache)
<1>1. /\ t \in CacheType /\ IndexOK(t) /\ Reach(t)
      /\ ContentsOf(t) = slotOf
  BY TouchedMap
<1>2. /\ cache' = RemoveCache(t, n) /\ payload' = ReleasePayloadSlot(payload, SlotFor(n))
      /\ Removable # {} /\ n \in Keys /\ NoSlot = NoValue
  BY ContentStoreAssumption DEF Remove, Names, ContentStoreAssumption
<1>3. /\ ContentOf = ContentIn(slotOf, payload) /\ SlotFor(n) = slotOf[n]
      /\ NamesOwn(slotOf, payload) /\ payload \in Buffers
  BY ContentIsMap, SlotsOfNames DEF ReachInv, IInv
<1> HIDE DEF t, slotOf
<1>4. Reach(cache') /\ ContentsOf(cache') = [slotOf EXCEPT ![n] = NoSlot]
  BY <1>1, <1>2, RemoveReach, RemoveContents
<1>5. IInv'
  BY RemoveOwned DEF ReachInv
<1>6. ContentOf' = ContentIn([slotOf EXCEPT ![n] = NoSlot],
                             ReleasePayloadSlot(payload, slotOf[n]))
  BY <1>2, <1>3, <1>4, <1>5, ContentIsMapNext
<1>7. ContentOf' = [ContentOf EXCEPT ![n] = NoContent]
  BY <1>3, <1>6, ContentRemoved
<1>8. QED
  BY <1>4, <1>7 DEF Remove, Promise!Remove

\* An empty cache holds no content.
LEMMA NothingStored ==
  ASSUME NEW c, ValidEntries(c) = {}, UsedSlots(c) = {}
  PROVE  Reach(c) /\ \A pay : ContentIn(ContentsOf(c), pay) = [n \in Names |-> NoContent]
<1>1. \A n \in Names : ContentsOf(c)[n] = NoSlot
  BY EmptyContents, ContentStoreAssumption DEF ContentStoreAssumption, Names
<1>2. QED
  BY <1>1, EmptyReach DEF ContentIn

LEMMA ClearPromised ==
  ASSUME ReachInv, Clear
  PROVE  Promise!Clear /\ Reach(cache')
<1>1. ValidEntries(cache') = {} /\ UsedSlots(cache') = {}
  <2>1. cache'.hashTable = [s \in Slots |-> Nil]
    BY DEF Clear, ClearCache, EmptyCache
  <2>2. QED
    BY <2>1, EmptyOwned DEF Clear, UsedSlots, EmptySlots
<1>2. IInv'
  BY ClearOwned DEF ReachInv
<1>3. Reach(cache') /\ ContentOf' = [n \in Names |-> NoContent]
  BY <1>1, <1>2, NothingStored, ContentIsMapNext
<1>4. QED
  BY <1>3 DEF Clear, Promise!Clear

\* While removal cannot break a probe, LRUContentStore is the store its boundary
\* promises: a save that finds memory and a free slot makes its content the one find
\* returns, any other save changes nothing, and a content stays until it is saved
\* again, removed or cleared.
THEOREM RefinementTheorem == CollisionSafe => (Spec => ImplementsContentStore)
<1>1. SUFFICES ASSUME CollisionSafe PROVE Spec => ImplementsContentStore
  OBVIOUS
<1>2. Init => ReachInv /\ Promise!Init
  <2> SUFFICES ASSUME Init PROVE ReachInv /\ Promise!Init
    OBVIOUS
  <2>1. ValidEntries(cache) = {} /\ UsedSlots(cache) = {}
    BY DEF Init, EmptyCache, ValidEntries, UsedSlots, EmptySlots
  <2>2. ReachInv
    BY <2>1, InitOwned, NothingStored DEF ReachInv
  <2>3. ContentOf = [n \in Names |-> NoContent]
    BY <2>1, <2>2, NothingStored, ContentIsMap
  <2>4. QED
    BY <2>2, <2>3 DEF Init, Promise!Init
<1>3. ReachInv /\ [Next]_vars => ReachInv' /\ [Promise!Next]_(Promise!vars)
  <2> SUFFICES ASSUME ReachInv, [Next]_vars
               PROVE  ReachInv' /\ [Promise!Next]_(Promise!vars)
    OBVIOUS
  <2>1. IInv'
    BY OwnedStep DEF ReachInv
  <2>2. ASSUME NEW n \in Names, NEW c \in Contents, NEW memory \in BOOLEAN, Save(n, c, memory)
        PROVE  Reach(cache') /\ Promise!Save(n, c, memory)
    BY <1>1, <2>2, SavePromised
  <2>3. ASSUME NEW n \in Names, Get(n)
        PROVE  Reach(cache') /\ Promise!Get(n)
    BY <2>3, GetPromised
  <2>4. ASSUME NEW n \in Names, Remove(n)
        PROVE  Reach(cache') /\ Promise!Remove(n)
    BY <2>4, RemovePromised
  <2>5. ASSUME Clear
        PROVE  Reach(cache') /\ Promise!Clear
    BY <2>5, ClearPromised
  <2>6. ASSUME UNCHANGED vars
        PROVE  Reach(cache') /\ UNCHANGED Promise!vars
    BY <2>6 DEF vars, ContentOf, SlotFor, ReachInv, Promise!vars
  <2>7. QED
    BY <2>1, <2>2, <2>3, <2>4, <2>5, <2>6 DEF Next, Promise!Next, ReachInv
<1>4. QED
  BY <1>2, <1>3, PTL DEF Spec, ImplementsContentStore, Promise!Spec
=============================================================================
