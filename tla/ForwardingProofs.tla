-------------------------- MODULE ForwardingProofs -------------------------
(***************************************************************************)
(* Theorems about Forwarder and IcsnNetwork for every set of names, nodes  *)
(* and contents, every capacity, FIB and hash function: the tables stay    *)
(* well formed; and when no two names share a home slot of the PIT, a node *)
(* does what ForwarderSpec says as long as no list of addresses is cut,    *)
(* and in a network nobody waits at a node that has got the content.       *)
(***************************************************************************)
EXTENDS ForwarderHistory, IcsnNetwork, LRUCacheOpsProofs, SequenceTheorems

-----------------------------------------------------------------------------
(* What the operators of ForwardingOps return.                             *)

\* A packet goes to some of the addresses given, and to all when there is room.
LEMMA AddressedWithin ==
  ASSUME NEW R \in SUBSET Neighbours
  PROVE  /\ Addressed(R) \subseteq R
         /\ Cardinality(R) <= MaxTxAddresses => Addressed(R) = R
<1>1. IsFiniteSet(R) /\ Cardinality(R) \in Nat /\ ExistsBijection(1 .. Cardinality(R), R)
  BY FS_Subset, FS_CardinalityType, ForwardingAssumption DEF ForwardingAssumption
<1>2. CASE Cardinality(R) <= MaxTxAddresses
  BY <1>2 DEF Addressed
<1>3. CASE ~(Cardinality(R) <= MaxTxAddresses)
  <2> DEFINE size == Cardinality(R)
  <2>1. PICK f \in Bijection(1 .. size, R) : TRUE
    BY <1>1 DEF ExistsBijection
  <2> DEFINE first == 1 .. MaxTxAddresses
             T == {f[i] : i \in first}
             g == [i \in first |-> f[i]]
  <2>2. MaxTxAddresses \in Nat /\ first \subseteq 1 .. size
    BY <1>1, <1>3, ForwardingAssumption DEF ForwardingAssumption
  <2>3. /\ \A i \in first : f[i] \in R
        /\ \A i, j \in first : f[i] = f[j] => i = j
    BY <2>1, <2>2 DEF Bijection, Injection, IsInjective
  <2>4. IsFiniteSet(first) /\ Cardinality(first) = MaxTxAddresses
    BY <2>2, FS_Interval
  <2>5. g \in Bijection(first, T)
    <3>1. g \in [first -> T] /\ \A i \in first : g[i] = f[i]
      OBVIOUS
    <3>2. \A q \in T : \E i \in first : g[i] = q
      OBVIOUS
    <3> HIDE DEF g, first, T
    <3>3. \A i, j \in first : g[i] = g[j] => i = j
      BY <2>3, <3>1
    <3>4. QED
      BY <3>1, <3>2, <3>3 DEF Bijection, Injection, Surjection, IsInjective
  <2>6. T \in SUBSET R
    BY <2>3
  <2> HIDE DEF g, first, T, size
  <2>7. Cardinality(T) = MaxTxAddresses
    BY <2>4, <2>5, FS_Bijection DEF ExistsBijection
  <2>8. QED
    BY <1>3, <2>6, <2>7 DEF Addressed
<1>4. QED
  BY <1>2, <1>3

\* A set of requesters stays within its capacity, and is not empty once one was added.
LEMMA RequesterAdded ==
  ASSUME NEW R \in RequesterSets \cup {{}}, NEW m \in Neighbours
  PROVE  AddRequester(R, m) \in RequesterSets
<1>1. /\ IsFiniteSet(R) /\ Cardinality(R) \in Nat /\ Cardinality(R) <= RequestersPerEntry
      /\ RequestersPerEntry \in Nat \ {0} /\ R \in SUBSET Neighbours
  BY FS_Subset, FS_CardinalityType, FS_EmptySet, ForwardingAssumption
     DEF ForwardingAssumption, RequesterSets
<1>2. CASE m \in R
  BY <1>1, <1>2 DEF AddRequester, RequesterSets
<1>3. CASE m \notin R /\ Cardinality(R) >= RequestersPerEntry
  <2>1. R # {}
    BY <1>1, <1>3, FS_EmptySet
  <2>2. QED
    BY <1>1, <1>3, <2>1 DEF AddRequester, RequesterSets
<1>4. CASE m \notin R /\ ~(Cardinality(R) >= RequestersPerEntry)
  <2>1. Cardinality(R \cup {m}) = Cardinality(R) + 1
    BY <1>1, <1>4, FS_AddElement
  <2>2. Cardinality(R \cup {m}) <= RequestersPerEntry /\ R \cup {m} \in SUBSET Neighbours
    BY <1>1, <1>4, <2>1
  <2>3. QED
    BY <1>4, <2>2 DEF AddRequester, RequesterSets
<1>5. QED
  BY <1>2, <1>3, <1>4

LEMMA RequestersType ==
  ASSUME NEW c \in CacheType, NEW n \in Names
  PROVE  Requesters(c, n) \in RequesterSets \cup {{}}
<1>1. Values = RequesterSets /\ NoValue = {} /\ n \in Keys
  BY ForwardingAssumption DEF ForwardingAssumption, Names
<1>2. Contains(c, n) => ValueOf(c, n) \in Values \cup {NoValue}
  BY <1>1, FindHashSlotFinds DEF ValueOf, CacheType, ValidEntries
<1>3. QED
  BY <1>1, <1>2 DEF Requesters, Pending

-----------------------------------------------------------------------------
(* The tables are well formed.                                             *)

PitOK(c) == c \in CacheType /\ IndexOK(c)

LEMMA SavePendingOK ==
  ASSUME NEW c, PitOK(c), NEW n \in Names, NEW m \in Neighbours
  PROVE  PitOK(SavePending(c, n, m))
<1> DEFINE t == GetCache(c, n)
           R == AddRequester(Requesters(c, n), m)
<1>1. n \in Keys /\ R \in Values
  BY RequestersType, RequesterAdded, ForwardingAssumption DEF ForwardingAssumption, Names, PitOK
<1>2. t \in CacheType /\ IndexOK(t)
  BY <1>1, GetIndex DEF PitOK
<1> HIDE DEF t, R
<1>3. PitOK(PutCache(t, n, R))
  BY <1>1, <1>2, UpdateIndex, InsertIndex DEF PutCache, PitOK
<1>4. QED
  BY <1>3 DEF SavePending, t, R

LEMMA TakePendingOK ==
  ASSUME NEW c, PitOK(c), NEW n \in Names
  PROVE  PitOK(TakePending(c, n))
<1>1. n \in Keys /\ PitOK(GetCache(c, n))
  BY GetIndex DEF Names, PitOK
<1>2. QED
  BY <1>1, RemoveIndex DEF TakePending, PitOK

LEMMA InterestPacket ==
  ASSUME NEW m \in Neighbours, NEW n \in Names, NEW h \in HopCounts
  PROVE  Interest(m, n, h) \in Packets
BY DEF Interest, Packets

LEMMA DataPacket ==
  ASSUME NEW m \in Neighbours, NEW n \in Names, NEW h \in HopCounts,
         NEW c \in Contents \cup {NoContent}
  PROVE  Data(m, n, h, c) \in Packets
BY DEF Data, Packets

LEMMA HopsFit ==
  /\ 0 \in HopCounts /\ 1 \in HopCounts
  /\ \A h \in HopCounts : (h + 1) % HopModulus \in HopCounts
  /\ \A h \in HopCounts : ~HopExceeded(h) => h + 1 \in HopCounts
<1>1. HopModulus \in Nat \ {0, 1} /\ HopLimit \in 0 .. HopModulus
  BY ForwardingAssumption DEF ForwardingAssumption
<1>2. QED
  BY <1>1 DEF HopCounts, HopExceeded

Stores == [Names -> Contents \cup {NoContent}]

LEMMA SaveContentType ==
  ASSUME NEW store \in Stores, NEW n \in Names,
         NEW c \in Contents \cup {NoContent}, NEW memory
  PROVE  SaveContent(store, n, c, memory) \in Stores
BY DEF SaveContent, Stores

LEMMA InterestOutPackets ==
  ASSUME NEW store \in Stores, NEW m \in Neighbours, NEW n \in Names, NEW h \in HopCounts,
         NEW hops \in SUBSET Neighbours
  PROVE  InterestOut(store, m, n, h, hops) \subseteq Packets
<1>1. Data(m, n, 0, store[n]) \in Packets
  BY HopsFit, DataPacket DEF Stores
<1>2. ~HopExceeded(h) => \A x \in Addressed(hops) : Interest(x, n, h + 1) \in Packets
  BY AddressedWithin, HopsFit, InterestPacket
<1>3. QED
  BY <1>1, <1>2 DEF InterestOut

LEMMA DataOutPackets ==
  ASSUME NEW p \in CacheType, NEW n \in Names, NEW h \in HopCounts,
         NEW c \in Contents \cup {NoContent}
  PROVE  DataOut(p, n, h, c) \subseteq Packets
<1> DEFINE R == Requesters(p, n)
<1>1. R \in SUBSET Neighbours
  BY RequestersType DEF RequesterSets
<1> HIDE DEF R
<1>2. \A x \in Addressed(R) : Data(x, n, (h + 1) % HopModulus, c) \in Packets
  BY <1>1, AddressedWithin, HopsFit, DataPacket
<1>3. QED
  BY <1>2 DEF DataOut, R

IInv == TypeOK /\ IndexOK(pit)

LEMMA InterestStep ==
  ASSUME IInv, NEW m \in Neighbours, NEW n \in Names, NEW h \in HopCounts,
         ReceiveInterest(m, n, h)
  PROVE  IInv'
<1>1. PitOK(pit')
  BY SavePendingOK DEF ReceiveInterest, PitAfterInterest, IInv, TypeOK, PitOK
<1>2. sent' \subseteq Packets
  BY InterestOutPackets, NextHopsAssumption
     DEF ReceiveInterest, NextHopsAssumption, IInv, TypeOK, Stores
<1>3. QED
  BY <1>1, <1>2 DEF ReceiveInterest, IInv, TypeOK, PitOK

LEMMA DataStep ==
  ASSUME IInv, NEW n \in Names, NEW h \in HopCounts, NEW c \in Contents,
         NEW memory \in BOOLEAN, ReceiveData(n, h, c, memory)
  PROVE  IInv'
<1>1. PitOK(pit')
  BY TakePendingOK DEF ReceiveData, PitAfterData, IInv, TypeOK, PitOK
<1>2. cs' \in Stores
  BY SaveContentType DEF ReceiveData, CsAfterData, IInv, TypeOK, Stores
<1>3. sent' \subseteq Packets
  BY DataOutPackets DEF ReceiveData, IInv, TypeOK
<1>4. QED
  BY <1>1, <1>2, <1>3 DEF ReceiveData, IInv, TypeOK, PitOK, Stores

LEMMA CommandStep ==
  ASSUME IInv,
         \/ \E n \in Names, c \in Contents, memory \in BOOLEAN : ReadSensor(n, c, memory)
         \/ \E m \in Neighbours, n \in Names : SendInterest(m, n)
         \/ ClearCS
         \/ ClearPIT
         \/ UNCHANGED vars
  PROVE  IInv'
<1> USE DEF IInv, TypeOK
<1>1. ASSUME NEW n \in Names, NEW c \in Contents, NEW memory \in BOOLEAN, ReadSensor(n, c, memory)
      PROVE  IInv'
  <2>1. cs' \in Stores
    BY <1>1, SaveContentType DEF ReadSensor, Stores
  <2>2. QED
    BY <1>1, <2>1 DEF ReadSensor, Stores
<1>2. ASSUME NEW m \in Neighbours, NEW n \in Names, SendInterest(m, n)
      PROVE  IInv'
  <2>1. Interest(m, n, 1) \in Packets
    BY HopsFit, InterestPacket
  <2>2. QED
    BY <1>2, <2>1 DEF SendInterest
<1>3. CASE ClearCS
  BY <1>3 DEF ClearCS
<1>4. CASE ClearPIT
  BY <1>4, ClearIndex DEF ClearPIT
<1>5. CASE UNCHANGED vars
  BY <1>5 DEF vars
<1>6. QED
  BY <1>1, <1>2, <1>3, <1>4, <1>5

LEMMA InitOK == Init => IInv
BY EmptyIndex DEF Init, IInv, TypeOK

LEMMA Step == IInv /\ [Next]_vars => IInv'
BY InterestStep, DataStep, CommandStep DEF Next

\* Whatever arrives and whatever is typed in, no PIT entry holds more requesters than
\* it has room for, the size counters stay in range, and every hop count sent fits
\* the byte it travels in: an Interest near the limit is dropped before it wraps.
THEOREM TypeTheorem == Spec => []TypeOK
<1>1. IInv => TypeOK
  BY DEF IInv
<1>2. QED
  BY <1>1, InitOK, Step, PTL DEF Spec

-----------------------------------------------------------------------------
(* Who waits, as a map.                                                    *)

ReachInv == IInv /\ Reach(pit)

\* What the probe for a name leads to is what the map of the table holds for it.
LEMMA ProbeIsMap ==
  ASSUME NEW c, PitOK(c), Reach(c), NEW n \in Names
  PROVE  Requesters(c, n) = ContentsOf(c)[n]
<1>1. n \in Keys /\ NoValue = {} /\ c \in CacheType /\ IndexOK(c)
  BY ForwardingAssumption DEF ForwardingAssumption, Names, PitOK
<1>2. CASE Contains(c, n)
  <2> DEFINE i == c.hashTable[FindHashSlot(c, n)]
  <2>1. i \in ValidEntries(c) /\ c.key[i] = n
    BY <1>1, <1>2, FindHashSlotFinds
  <2>2. ValueOf(c, n) = c.value[i]
    BY DEF ValueOf
  <2> HIDE DEF i
  <2>3. ContentsOf(c)[n] = c.value[i]
    BY <1>1, <2>1, ContentsAt
  <2>4. QED
    BY <1>2, <2>2, <2>3 DEF Requesters, Pending
<1>3. CASE ~Contains(c, n)
  <2>1. \A i \in ValidEntries(c) : c.key[i] # n
    BY <1>1, <1>3, ReachFinds
  <2>2. ContentsOf(c)[n] = NoValue
    BY <1>1, <2>1, ContentsAt
  <2>3. QED
    BY <1>1, <1>3, <2>2 DEF Requesters, Pending
<1>4. QED
  BY <1>2, <1>3

\* A look-up leaves the map as it is.
LEMMA TouchedMap ==
  ASSUME NEW c, PitOK(c), Reach(c), NEW n \in Names
  PROVE  LET t == GetCache(c, n)
         IN  /\ t \in CacheType /\ IndexOK(t) /\ Reach(t)
             /\ ContentsOf(t) = ContentsOf(c) /\ t.currentSize = c.currentSize
<1> DEFINE t == GetCache(c, n)
<1>1. n \in Keys /\ c \in CacheType /\ IndexOK(c)
  BY DEF PitOK, Names
<1>2. t \in CacheType /\ IndexOK(t) /\ Reach(t)
  BY <1>1, GetIndex, GetReach
<1>3. SameButLinks(c, t)
  <2>1. Contains(c, n) => c.hashTable[FindHashSlot(c, n)] \in Entries
    BY <1>1, FindHashSlotFinds DEF ValidEntries
  <2>2. QED
    BY <1>1, <2>1, MoveToFrontType DEF GetCache, SameButLinks
<1> HIDE DEF t
<1>4. ContentsOf(t) = ContentsOf(c) /\ t.currentSize = c.currentSize
  BY <1>3, ContentsIgnoreLinks DEF SameButLinks
<1>5. QED
  BY <1>2, <1>4 DEF t

\* Who waits once a requester was saved: the names and the table have room, or they do
\* not and nothing changes.
LEMMA SavedMap ==
  ASSUME CollisionSafe, NEW c, PitOK(c), Reach(c), NEW n \in Names, NEW m \in Neighbours
  PROVE  LET s == SavePending(c, n, m)
             old == ContentsOf(c)[n]
         IN  /\ Reach(s)
             /\ ContentsOf(s) =
                  IF old = {} /\ c.currentSize >= MaxSize THEN ContentsOf(c)
                  ELSE [ContentsOf(c) EXCEPT ![n] = AddRequester(old, m)]
<1> DEFINE t == GetCache(c, n)
           old == ContentsOf(c)[n]
           R == AddRequester(old, m)
<1>1. n \in Keys /\ old = Requesters(c, n) /\ R \in Values /\ NoValue = {}
  BY ProbeIsMap, RequestersType, RequesterAdded, ForwardingAssumption
     DEF ForwardingAssumption, Names, PitOK
<1>2. /\ t \in CacheType /\ IndexOK(t) /\ Reach(t)
      /\ ContentsOf(t) = ContentsOf(c) /\ t.currentSize = c.currentSize
  BY TouchedMap
<1>3. SavePending(c, n, m) = PutCache(t, n, R)
  BY <1>1 DEF SavePending
<1>4. Contains(t, n) <=> old # {}
  BY <1>1, <1>2, PresentCounted
<1>5. CanInsert(t, n) <=> c.currentSize < MaxSize
  BY <1>1, <1>2, RoomForNewKey
<1>6. c.currentSize \in Int /\ MaxSize \in Int
  BY CacheAssumption DEF PitOK, CacheType
<1> HIDE DEF t, old, R
<1>7. CASE old # {}
  <2>1. Reach(PutCache(t, n, R)) /\ ContentsOf(PutCache(t, n, R)) = [ContentsOf(c) EXCEPT ![n] = R]
    BY <1>1, <1>2, <1>4, <1>7, UpdateReach, UpdateContents DEF PutCache
  <2>2. QED
    BY <1>3, <1>7, <2>1 DEF old, R
<1>8. CASE old = {} /\ c.currentSize < MaxSize
  <2>1. Reach(PutCache(t, n, R)) /\ ContentsOf(PutCache(t, n, R)) = [ContentsOf(c) EXCEPT ![n] = R]
    BY <1>1, <1>2, <1>4, <1>5, <1>8, InsertReach, InsertContents DEF PutCache
  <2>2. QED
    BY <1>3, <1>6, <1>8, <2>1 DEF old, R
<1>9. CASE old = {} /\ ~(c.currentSize < MaxSize)
  <2>1. PutCache(t, n, R) = t
    BY <1>4, <1>5, <1>9 DEF PutCache
  <2>2. QED
    BY <1>2, <1>3, <1>6, <1>9, <2>1 DEF old, R
<1>10. QED
  BY <1>7, <1>8, <1>9

LEMMA TakenMap ==
  ASSUME NEW c, PitOK(c), Reach(c), NEW n \in Names
  PROVE  /\ Reach(TakePending(c, n))
         /\ ContentsOf(TakePending(c, n)) = [ContentsOf(c) EXCEPT ![n] = {}]
<1> DEFINE t == GetCache(c, n)
<1>1. n \in Keys /\ NoValue = {} /\ Removable # {}
  BY ForwardingAssumption DEF ForwardingAssumption, Names
<1>2. /\ t \in CacheType /\ IndexOK(t) /\ Reach(t) /\ ContentsOf(t) = ContentsOf(c)
  BY TouchedMap
<1> HIDE DEF t
<1>3. /\ Reach(RemoveCache(t, n))
      /\ ContentsOf(RemoveCache(t, n)) = [ContentsOf(c) EXCEPT ![n] = {}]
  BY <1>1, <1>2, RemoveReach, RemoveContents
<1>4. QED
  BY <1>3 DEF TakePending, t

\* The record of who waits is the map the PIT stands for, before a step and after it.
LEMMA WaitingIsMap ==
  ASSUME ReachInv
  PROVE  /\ Waiting = ContentsOf(pit)
         /\ Waiting \in [Names -> RequesterSets \cup {{}}]
         /\ \A n \in Names : Waiting[n] = Requesters(pit, n)
         /\ \A n \in Names : Pending(pit, n) <=> Waiting[n] # {}
         /\ Cardinality({n \in Names : Waiting[n] # {}}) = pit.currentSize
<1>1. PitOK(pit) /\ Reach(pit) /\ Names = Keys /\ NoValue = {} /\ Values = RequesterSets
  BY ForwardingAssumption DEF ReachInv, IInv, TypeOK, PitOK, Names, ForwardingAssumption
<1>2. \A n \in Names : Waiting[n] = Requesters(pit, n) /\ Requesters(pit, n) = ContentsOf(pit)[n]
  BY <1>1, ProbeIsMap DEF Waiting
<1>3. Waiting = ContentsOf(pit)
  BY <1>1, <1>2 DEF Waiting, ContentsOf
<1>4. ContentsOf(pit) \in [Names -> RequesterSets \cup {{}}]
  BY <1>1, ContentsAt DEF PitOK
<1>5. /\ \A n \in Names : ContentsOf(pit)[n] # {} <=> Contains(pit, n)
      /\ Cardinality({n \in Names : ContentsOf(pit)[n] # {}}) = pit.currentSize
  BY <1>1, PresentCounted DEF PitOK
<1>6. QED
  BY <1>2, <1>3, <1>4, <1>5 DEF Pending

LEMMA WaitingIsMapNext ==
  ASSUME IInv', Reach(pit')
  PROVE  Waiting' = ContentsOf(pit')
<1>1. PitOK(pit') /\ Names = Keys
  BY DEF IInv, TypeOK, PitOK, Names
<1>2. \A n \in Names : Requesters(pit', n) = ContentsOf(pit')[n]
  BY <1>1, ProbeIsMap
<1>3. Waiting' = [n \in Names |-> Requesters(pit', n)]
  BY DEF Waiting
<1>4. QED
  BY <1>1, <1>2, <1>3 DEF ContentsOf

-----------------------------------------------------------------------------
(* Every packet and command has the effect that is promised.               *)

\* No list of addresses is longer than MAX_TX_ADDRESSES.  Both node profiles of the
\* repository satisfy it: 4 and 8 addresses at most, for 20 places.
NothingCut ==
  /\ RequestersPerEntry <= MaxTxAddresses
  /\ \A n \in Names : Cardinality(NextHops[n]) <= MaxTxAddresses

LEMMA NobodyLeftOut ==
  ASSUME NothingCut
  PROVE  /\ \A n \in Names : Addressed(NextHops[n]) = NextHops[n]
         /\ \A R \in RequesterSets \cup {{}} : Addressed(R) = R
<1>1. \A n \in Names : Addressed(NextHops[n]) = NextHops[n]
  BY AddressedWithin, NextHopsAssumption DEF NothingCut, NextHopsAssumption
<1>2. \A R \in RequesterSets \cup {{}} : R \in SUBSET Neighbours /\ Cardinality(R) <= MaxTxAddresses
  <2>1. MaxTxAddresses \in Nat /\ RequestersPerEntry \in Nat /\ IsFiniteSet(Neighbours)
    BY ForwardingAssumption DEF ForwardingAssumption
  <2>2. ASSUME NEW R \in RequesterSets
        PROVE  Cardinality(R) \in Nat /\ Cardinality(R) <= MaxTxAddresses
    <3>1. Cardinality(R) \in Nat
      BY <2>1, FS_Subset, FS_CardinalityType DEF RequesterSets
    <3>2. QED
      BY <2>1, <3>1 DEF RequesterSets, NothingCut
  <2>3. QED
    BY <2>1, <2>2, FS_EmptySet DEF RequesterSets
<1>3. QED
  BY <1>1, <1>2, AddressedWithin

LEMMA SameCounts == \A S : Promise!Cardinality(S) = Cardinality(S)
BY Zenon DEF Promise!Cardinality, Cardinality

LEMMA KeptIsStored ==
  ASSUME NEW n, NEW c, NEW memory
  PROVE  Promise!Keep(n, c, memory) = SaveContent(cs, n, c, memory)
BY SameCounts DEF Promise!Keep, Promise!Kept, SaveContent, Stored

LEMMA RecordedIsSaved ==
  ASSUME CollisionSafe, ReachInv, NEW n \in Names, NEW m \in Neighbours
  PROVE  /\ Reach(SavePending(pit, n, m))
         /\ ContentsOf(SavePending(pit, n, m)) = [Waiting EXCEPT ![n] = Promise!Recorded(n, m)]
<1> DEFINE s == SavePending(pit, n, m)
           old == Waiting[n]
           full == pit.currentSize >= MaxSize
<1>1. PitOK(pit) /\ Reach(pit) /\ pit.currentSize \in Int /\ MaxSize \in Int
  BY CacheAssumption DEF ReachInv, IInv, TypeOK, PitOK, CacheType
<1>2. /\ Waiting = ContentsOf(pit) /\ Waiting \in [Names -> RequesterSets \cup {{}}]
      /\ Cardinality(Promise!WaitedFor) = pit.currentSize
  BY WaitingIsMap DEF Promise!WaitedFor
<1>3. /\ Reach(s)
      /\ ContentsOf(s) = IF old = {} /\ full THEN Waiting
                         ELSE [Waiting EXCEPT ![n] = AddRequester(old, m)]
  BY <1>1, <1>2, SavedMap
<1>4. n \in Promise!WaitedFor <=> old # {}
  BY DEF Promise!WaitedFor
<1>5. Promise!Recorded(n, m) = IF old = {} /\ full THEN {}
                               ELSE IF Cardinality(old) >= RequestersPerEntry THEN old
                               ELSE old \cup {m}
  BY <1>2, <1>4, SameCounts DEF Promise!Recorded, PitEntries
<1>6. AddRequester(old, m) = IF Cardinality(old) >= RequestersPerEntry THEN old ELSE old \cup {m}
  <2>1. m \in old => old = old \cup {m}
    OBVIOUS
  <2> HIDE DEF old
  <2>2. QED
    BY <2>1 DEF AddRequester
<1>7. old = {} => [Waiting EXCEPT ![n] = {}] = Waiting
  BY <1>2
<1> HIDE DEF old, full, s
<1>8. ContentsOf(s) = [Waiting EXCEPT ![n] = Promise!Recorded(n, m)]
  BY <1>3, <1>5, <1>6, <1>7
<1>9. QED
  BY <1>3, <1>8 DEF s

LEMMA InterestPromised ==
  ASSUME CollisionSafe, NothingCut, ReachInv,
         NEW m \in Neighbours, NEW n \in Names, NEW h \in HopCounts, ReceiveInterest(m, n, h)
  PROVE  /\ Reach(pit')
         /\ Promise!InterestTooFar(m, n, h) \/ Promise!InterestHit(m, n, h)
              \/ Promise!InterestMiss(m, n, h)
<1>1. /\ call' = <<"INTEREST", m, n, h>> /\ cs' = cs /\ clearing' = clearing
      /\ pit' = PitAfterInterest(pit, cs, m, n, h)
      /\ sent' = InterestOut(cs, m, n, h, NextHops[n])
  BY DEF ReceiveInterest
<1>2. h + 1 >= HopLimit <=> ~(h + 1 < HopLimit)
  BY ForwardingAssumption DEF ForwardingAssumption, HopCounts
<1>3. IInv'
  BY InterestStep DEF ReachInv
<1>4. n \in Promise!Kept <=> cs[n] # NoContent
  BY DEF Promise!Kept
<1>5. pit' = pit => Waiting' = Waiting
  BY DEF Waiting
<1>6. CASE h + 1 >= HopLimit
  BY <1>1, <1>5, <1>6 DEF PitAfterInterest, InterestOut, HopExceeded, ReachInv,
                          Promise!InterestTooFar
<1>7. CASE ~(h + 1 >= HopLimit) /\ cs[n] # NoContent
  BY <1>1, <1>2, <1>4, <1>5, <1>7 DEF PitAfterInterest, InterestOut, HopExceeded, ReachInv,
                          Promise!InterestHit, Promise!Packet, Data
<1>8. CASE ~(h + 1 >= HopLimit) /\ cs[n] = NoContent
  <2>1. pit' = SavePending(pit, n, m)
    BY <1>1, <1>8 DEF PitAfterInterest, HopExceeded
  <2>2. Reach(pit') /\ Waiting' = [Waiting EXCEPT ![n] = Promise!Recorded(n, m)]
    BY <1>3, <2>1, RecordedIsSaved, WaitingIsMapNext
  <2>3. sent' = {Promise!Packet("INTEREST", x, n, h + 1, NoContent) : x \in NextHops[n]}
    BY <1>1, <1>8, NobodyLeftOut DEF InterestOut, HopExceeded, Interest, Promise!Packet
  <2>4. QED
    BY <1>1, <1>2, <1>4, <1>8, <2>2, <2>3 DEF Promise!InterestMiss
<1>9. QED
  BY <1>6, <1>7, <1>8

LEMMA DataPromised ==
  ASSUME NothingCut, ReachInv, NEW n \in Names, NEW h \in HopCounts, NEW c \in Contents,
         NEW memory \in BOOLEAN, ReceiveData(n, h, c, memory)
  PROVE  /\ Reach(pit')
         /\ Promise!DataWanted(n, h, c, memory) \/ Promise!DataUnwanted(n, h, c, memory)
<1>1. /\ call' = <<"DATA", n, h, c, memory>> /\ clearing' = clearing
      /\ pit' = PitAfterData(pit, n)
      /\ cs' = CsAfterData(pit, cs, n, c, memory)
      /\ sent' = DataOut(pit, n, h, c)
  BY DEF ReceiveData
<1>2. IInv' /\ PitOK(pit) /\ Reach(pit)
  BY DataStep DEF ReachInv, IInv, TypeOK, PitOK
<1>3. /\ Waiting = ContentsOf(pit) /\ Waiting[n] = Requesters(pit, n)
      /\ Waiting[n] \in RequesterSets \cup {{}}
      /\ Pending(pit, n) <=> Waiting[n] # {}
      /\ n \in Promise!WaitedFor <=> Waiting[n] # {}
  BY WaitingIsMap DEF Promise!WaitedFor
<1>4. sent' = {Promise!Packet("DATA", x, n, (h + 1) % HopModulus, c) : x \in Waiting[n]}
  <2>1. Addressed(Requesters(pit, n)) = Waiting[n]
    BY <1>3, NobodyLeftOut
  <2>2. QED
    BY <1>1, <2>1 DEF DataOut, Data, Promise!Packet
<1>5. CASE Pending(pit, n)
  <2>1. pit' = TakePending(pit, n) /\ cs' = SaveContent(cs, n, c, memory)
    BY <1>1, <1>5 DEF PitAfterData, CsAfterData
  <2>2. Reach(pit') /\ Waiting' = [Waiting EXCEPT ![n] = {}]
    BY <1>2, <1>3, <2>1, TakenMap, WaitingIsMapNext
  <2>3. QED
    BY <1>1, <1>3, <1>4, <1>5, <2>1, <2>2, KeptIsStored DEF Promise!DataWanted
<1>6. CASE ~Pending(pit, n)
  <2>1. pit' = pit /\ cs' = cs /\ Waiting' = Waiting
    BY <1>1, <1>6 DEF PitAfterData, CsAfterData, Waiting
  <2>2. sent' = {}
    BY <1>3, <1>4, <1>6
  <2>3. QED
    BY <1>1, <1>2, <1>3, <1>6, <2>1, <2>2 DEF Promise!DataUnwanted
<1>7. QED
  BY <1>5, <1>6

LEMMA CommandPromised ==
  ASSUME ReachInv
  PROVE  /\ \A n \in Names, c \in Contents, memory \in BOOLEAN :
              ReadSensor(n, c, memory) => Reach(pit') /\ Promise!Sensor(n, c, memory)
         /\ \A m \in Neighbours, n \in Names :
              SendInterest(m, n) => Reach(pit') /\ Promise!Request(m, n)
         /\ ClearCS => Reach(pit') /\ Promise!ClearStore
         /\ ClearPIT => Reach(pit') /\ Promise!ClearWaiting
         /\ UNCHANGED vars => Reach(pit') /\ UNCHANGED Promise!vars
<1>1. pit' = pit => Waiting' = Waiting /\ Reach(pit')
  BY DEF Waiting, ReachInv
<1>2. ASSUME NEW n \in Names, NEW c \in Contents, NEW memory \in BOOLEAN, ReadSensor(n, c, memory)
      PROVE  Reach(pit') /\ Promise!Sensor(n, c, memory)
  BY <1>1, <1>2, KeptIsStored DEF ReadSensor, Promise!Sensor
<1>3. ASSUME NEW m \in Neighbours, NEW n \in Names, SendInterest(m, n)
      PROVE  Reach(pit') /\ Promise!Request(m, n)
  BY <1>1, <1>3 DEF SendInterest, Promise!Request, Promise!Packet, Interest
<1>4. ASSUME ClearCS
      PROVE  Reach(pit') /\ Promise!ClearStore
  BY <1>1, <1>4 DEF ClearCS, Promise!ClearStore
<1>5. ASSUME ClearPIT
      PROVE  Reach(pit') /\ Promise!ClearWaiting
  <2>1. ValidEntries(pit') = {} /\ UsedSlots(pit') = {}
    BY <1>5 DEF ClearPIT, ClearCache, EmptyCache, ValidEntries, UsedSlots, EmptySlots
  <2>2. IInv' /\ Reach(pit')
    BY <1>5, <2>1, EmptyReach, CommandStep DEF ReachInv
  <2>3. Waiting' = [n \in Names |-> {}]
    BY <2>1, <2>2, WaitingIsMapNext, EmptyContents, ForwardingAssumption
       DEF ForwardingAssumption, Names
  <2>4. QED
    BY <1>5, <2>2, <2>3 DEF ClearPIT, Promise!ClearWaiting
<1>6. ASSUME UNCHANGED vars
      PROVE  Reach(pit') /\ UNCHANGED Promise!vars
  BY <1>1, <1>6 DEF vars, Promise!vars
<1>7. QED
  BY <1>2, <1>3, <1>4, <1>5, <1>6

LEMMA ReachStep ==
  ASSUME CollisionSafe, NothingCut, ReachInv, [Next]_vars
  PROVE  ReachInv' /\ [Promise!Next]_(Promise!vars)
<1>1. IInv'
  BY Step DEF ReachInv
<1>2. CASE \E m \in Neighbours, n \in Names, h \in HopCounts : ReceiveInterest(m, n, h)
  BY <1>1, <1>2, InterestPromised DEF ReachInv, Promise!Next, HopCounts, Promise!HopCounts
<1>3. CASE \E n \in Names, h \in HopCounts, c \in Contents, memory \in BOOLEAN :
             ReceiveData(n, h, c, memory)
  BY <1>1, <1>3, DataPromised DEF ReachInv, Promise!Next, HopCounts, Promise!HopCounts
<1>4. CASE \E n \in Names, c \in Contents, memory \in BOOLEAN : ReadSensor(n, c, memory)
  BY <1>1, <1>4, CommandPromised DEF ReachInv, Promise!Next
<1>5. CASE \E m \in Neighbours, n \in Names : SendInterest(m, n)
  BY <1>1, <1>5, CommandPromised DEF ReachInv, Promise!Next
<1>6. CASE ClearCS \/ ClearPIT
  BY <1>1, <1>6, CommandPromised DEF ReachInv, Promise!Next
<1>7. CASE UNCHANGED vars
  BY <1>1, <1>7, CommandPromised DEF ReachInv
<1>8. QED
  BY <1>2, <1>3, <1>4, <1>5, <1>6, <1>7 DEF Next

\* When no two names share a home slot of the PIT and no list of addresses is cut, a
\* node does what ForwarderSpec promises its neighbours, whatever they send and
\* whatever is typed in: whoever waits for a name is recorded until its Data comes,
\* the Data goes to those and to nobody else, and only Data waited for is kept.
THEOREM RefinementTheorem == CollisionSafe /\ NothingCut => (Spec => ImplementsForwarder)
<1>1. SUFFICES ASSUME CollisionSafe, NothingCut PROVE Spec => ImplementsForwarder
  OBVIOUS
<1>2. Init => ReachInv /\ Promise!Init
  <2> SUFFICES ASSUME Init PROVE ReachInv /\ Promise!Init
    OBVIOUS
  <2>1. ValidEntries(pit) = {} /\ UsedSlots(pit) = {}
    BY DEF Init, EmptyCache, ValidEntries, UsedSlots, EmptySlots
  <2>2. ReachInv
    BY <2>1, InitOK, EmptyReach DEF ReachInv
  <2>3. Waiting = [n \in Names |-> {}]
    BY <2>1, <2>2, WaitingIsMap, EmptyContents, ForwardingAssumption
       DEF ForwardingAssumption, Names
  <2>4. QED
    BY <2>2, <2>3 DEF Init, Promise!Init
<1>3. ReachInv /\ [Next]_vars => ReachInv' /\ [Promise!Next]_(Promise!vars)
  BY <1>1, ReachStep
<1>4. QED
  BY <1>2, <1>3, PTL DEF Spec, ImplementsForwarder, Promise!Spec

-----------------------------------------------------------------------------
(* The history of who asked.                                               *)

\* Whoever the PIT holds for a name asked for it and has not had the Data since.
AskedInv == ReachInv /\ \A n \in Names : \A m \in Waiting[n] : <<m, n>> \in asked

\* The Data that is passed on goes to some of those who wait for it.
LEMMA DataToWaiting ==
  ASSUME ReachInv, NEW n \in Names, NEW h, NEW c, NEW p \in DataOut(pit, n, h, c)
  PROVE  p.to \in Waiting[n] /\ p.name = n
<1> DEFINE R == Requesters(pit, n)
<1>1. R \in SUBSET Neighbours /\ R = Waiting[n]
  BY RequestersType, WaitingIsMap DEF ReachInv, IInv, TypeOK, RequesterSets
<1>2. PICK x \in Addressed(R) : p = Data(x, n, (h + 1) % HopModulus, c)
  BY DEF DataOut
<1> HIDE DEF R
<1>3. x \in R
  BY <1>1, AddressedWithin
<1>4. QED
  BY <1>1, <1>2, <1>3 DEF Data

LEMMA AskedInterest ==
  ASSUME CollisionSafe, AskedInv, NEW m \in Neighbours, NEW n \in Names, NEW h \in HopCounts,
         ReceiveInterest(m, n, h),
         asked' = IF h + 1 < HopLimit /\ cs[n] = NoContent
                  THEN asked \cup {<<m, n>>} ELSE asked
  PROVE  AskedInv'
<1>1. IInv'
  BY InterestStep DEF AskedInv, ReachInv
<1>2. CASE HopExceeded(h) \/ cs[n] # NoContent
  <2>1. pit' = pit
    BY <1>2 DEF ReceiveInterest, PitAfterInterest
  <2>2. QED
    BY <1>1, <2>1 DEF AskedInv, ReachInv, Waiting
<1>3. CASE ~(HopExceeded(h) \/ cs[n] # NoContent)
  <2>1. pit' = SavePending(pit, n, m)
    BY <1>3 DEF ReceiveInterest, PitAfterInterest
  <2>2. Reach(pit') /\ Waiting' = [Waiting EXCEPT ![n] = Promise!Recorded(n, m)]
    BY <1>1, <2>1, RecordedIsSaved, WaitingIsMapNext DEF AskedInv
  <2>3. Promise!Recorded(n, m) \subseteq Waiting[n] \cup {m}
    BY DEF Promise!Recorded
  <2>4. \A l \in Names : Waiting'[l] = IF l = n THEN Promise!Recorded(n, m) ELSE Waiting[l]
    BY <2>2 DEF Waiting
  <2>5. h + 1 < HopLimit
    BY <1>3, ForwardingAssumption DEF HopExceeded, HopCounts, ForwardingAssumption
  <2>6. asked' = asked \cup {<<m, n>>}
    BY <1>3, <2>5
  <2>7. \A l \in Names : \A x \in Waiting'[l] : <<x, l>> \in asked'
    BY <2>3, <2>4, <2>6 DEF AskedInv
  <2>8. QED
    BY <1>1, <2>2, <2>7 DEF AskedInv, ReachInv
<1>4. QED
  BY <1>2, <1>3

LEMMA AskedData ==
  ASSUME AskedInv, NEW n \in Names, NEW h \in HopCounts, NEW c \in Contents,
         NEW memory \in BOOLEAN, ReceiveData(n, h, c, memory),
         asked' = asked \ {<<p.to, p.name>> : p \in sent'}
  PROVE  /\ AskedInv'
         /\ \A p \in sent' : <<p.to, p.name>> \in asked
<1>1. IInv' /\ ReachInv /\ PitOK(pit) /\ Reach(pit)
  BY DataStep DEF AskedInv, ReachInv, IInv, TypeOK, PitOK
<1>2. \A p \in sent' : p.to \in Waiting[n] /\ p.name = n
  BY <1>1, DataToWaiting DEF ReceiveData
<1>3. Reach(pit') /\ Waiting' = [Waiting EXCEPT ![n] = {}]
  <2>1. CASE Pending(pit, n)
    BY <1>1, <2>1, TakenMap, WaitingIsMap, WaitingIsMapNext DEF ReceiveData, PitAfterData
  <2>2. CASE ~Pending(pit, n)
    <3>1. pit' = pit /\ Waiting' = Waiting
      BY <2>2 DEF ReceiveData, PitAfterData, Waiting
    <3>2. Waiting[n] = {}
      BY <1>1, <2>2, WaitingIsMap
    <3>3. Waiting = [Waiting EXCEPT ![n] = {}]
      BY <3>2 DEF Waiting
    <3>4. QED
      BY <1>1, <3>1, <3>3
  <2>3. QED
    BY <2>1, <2>2
<1>4. \A l \in Names : Waiting'[l] = IF l = n THEN {} ELSE Waiting[l]
  BY <1>3 DEF Waiting
<1>5. \A l \in Names : \A m \in Waiting'[l] : <<m, l>> \in asked'
  BY <1>2, <1>4 DEF AskedInv
<1>6. QED
  BY <1>1, <1>2, <1>3, <1>5 DEF AskedInv, ReachInv

LEMMA AskedCommand ==
  ASSUME AskedInv,
         \/ /\ \/ \E n \in Names, c \in Contents, memory \in BOOLEAN : ReadSensor(n, c, memory)
               \/ \E m \in Neighbours, n \in Names : SendInterest(m, n)
               \/ ClearCS
            /\ UNCHANGED asked
         \/ ClearPIT /\ asked' = {}
         \/ UNCHANGED AskedVars
  PROVE  AskedInv'
<1>1. IInv'
  BY CommandStep DEF AskedInv, ReachInv, AskedVars
<1>2. Reach(pit')
  BY CommandPromised DEF AskedInv, AskedVars
<1>3. CASE pit' = pit /\ asked' = asked
  BY <1>1, <1>2, <1>3 DEF AskedInv, ReachInv, Waiting
<1>4. CASE ClearPIT
  <2>1. Waiting' = [n \in Names |-> {}]
    BY <1>4, CommandPromised DEF AskedInv, Promise!ClearWaiting
  <2>2. QED
    BY <1>1, <1>2, <2>1 DEF AskedInv, ReachInv
<1>5. QED
  BY <1>3, <1>4 DEF ReadSensor, SendInterest, ClearCS, AskedVars, vars

\* When no two names share a home slot of the PIT, a node passes on the Data it receives
\* only to neighbours who asked for it and have not had it since, and to each of them
\* once, through any sequence of packets, saves, removals and clears.
THEOREM AskedTheorem == CollisionSafe => (SpecAsked => OnlyAskedAnswered)
<1>1. SUFFICES ASSUME CollisionSafe PROVE SpecAsked => OnlyAskedAnswered
  OBVIOUS
<1>2. InitAsked => AskedInv
  <2> SUFFICES ASSUME InitAsked PROVE AskedInv
    OBVIOUS
  <2>1. ValidEntries(pit) = {} /\ UsedSlots(pit) = {}
    BY DEF InitAsked, Init, EmptyCache, ValidEntries, UsedSlots, EmptySlots
  <2>2. ReachInv
    BY <2>1, InitOK, EmptyReach DEF InitAsked, ReachInv
  <2>3. \A n \in Names : Waiting[n] = {}
    BY <2>1, <2>2, WaitingIsMap, EmptyContents, ForwardingAssumption
       DEF ForwardingAssumption, Names
  <2>4. QED
    BY <2>2, <2>3 DEF AskedInv
<1>3. AskedInv /\ [NextAsked]_AskedVars =>
        /\ AskedInv'
        /\ [call'[1] = "DATA" => \A p \in sent' : <<p.to, p.name>> \in asked]_AskedVars
  <2> SUFFICES ASSUME AskedInv, [NextAsked]_AskedVars
               PROVE  /\ AskedInv'
                      /\ UNCHANGED AskedVars
                           \/ (call'[1] = "DATA" => \A p \in sent' : <<p.to, p.name>> \in asked)
    OBVIOUS
  <2>1. CASE \E m \in Neighbours, n \in Names, h \in HopCounts :
               /\ ReceiveInterest(m, n, h)
               /\ asked' = IF h + 1 < HopLimit /\ cs[n] = NoContent
                           THEN asked \cup {<<m, n>>} ELSE asked
    <3>1. call'[1] = "INTEREST"
      BY <2>1 DEF ReceiveInterest
    <3>2. QED
      BY <1>1, <2>1, <3>1, AskedInterest
  <2>2. CASE \E n \in Names, h \in HopCounts, c \in Contents, memory \in BOOLEAN :
               /\ ReceiveData(n, h, c, memory)
               /\ asked' = asked \ {<<p.to, p.name>> : p \in sent'}
    BY <2>2, AskedData
  <2>3. CASE \/ /\ \/ \E n \in Names, c \in Contents, memory \in BOOLEAN : ReadSensor(n, c, memory)
                   \/ \E m \in Neighbours, n \in Names : SendInterest(m, n)
                   \/ ClearCS
                /\ UNCHANGED asked
             \/ ClearPIT /\ asked' = {}
    <3>1. call'[1] # "DATA"
      BY <2>3 DEF ReadSensor, SendInterest, ClearCS, ClearPIT
    <3>2. QED
      BY <2>3, <3>1, AskedCommand
  <2>4. CASE UNCHANGED AskedVars
    BY <2>4, AskedCommand
  <2>5. QED
    BY <2>1, <2>2, <2>3, <2>4 DEF NextAsked
<1>4. QED
  BY <1>2, <1>3, PTL DEF SpecAsked, OnlyAskedAnswered
-----------------------------------------------------------------------------
(* The network.                                                            *)

NetworkOK == NetworkTypeOK /\ \A n \in Nodes : IndexOK(pits[n])

LEMMA SentType ==
  ASSUME NEW ls \in [Links -> Seq(Packets)], NEW n, NEW out \in SUBSET Packets
  PROVE  Sent(ls, n, out) \in [Links -> Seq(Packets)]
<1>1. ASSUME NEW l \in Links, \E p \in out : p.to = l[2]
      PROVE  Append(ls[l], CHOOSE p \in out : p.to = l[2]) \in Seq(Packets)
  <2>1. (CHOOSE p \in out : p.to = l[2]) \in Packets
    BY <1>1
  <2>2. QED
    BY <2>1, AppendProperties
<1>2. QED
  BY <1>1 DEF Sent

\* The next packet of a link, and the links without it.
LEMMA NextOnLink ==
  ASSUME NetworkTypeOK, NEW l \in Links, link[<<l[1], l[2]>>] # <<>>
  PROVE  /\ l[1] \in Nodes /\ l[2] \in Nodes
         /\ Head(link[<<l[1], l[2]>>]) \in Packets
         /\ [link EXCEPT ![<<l[1], l[2]>>] = Tail(link[<<l[1], l[2]>>])] \in [Links -> Seq(Packets)]
<1>1. l[1] \in Nodes /\ l[2] \in Nodes /\ <<l[1], l[2]>> = l
  <2>1. PICK n \in Nodes, m \in Nodes : l = <<n, m>>
    BY NetworkAssumption DEF NetworkAssumption
  <2>2. QED
    BY <2>1
<1>2. link[l] \in Seq(Packets) /\ link[l] # <<>>
  BY <1>1 DEF NetworkTypeOK
<1>3. Head(link[l]) \in Packets /\ Tail(link[l]) \in Seq(Packets)
  BY <1>2, HeadTailProperties
<1>4. [link EXCEPT ![l] = Tail(link[l])] \in [Links -> Seq(Packets)]
  BY <1>3 DEF NetworkTypeOK
<1>5. QED
  BY <1>1, <1>3, <1>4

LEMMA RequestTyped ==
  ASSUME NetworkOK, NEW n \in Nodes, NEW m \in Nodes, NEW x \in Names, Request(n, m, x)
  PROVE  NetworkOK'
<1>1. link' \in [Links -> Seq(Packets)]
  <2>1. {Interest(m, x, 1)} \in SUBSET Packets
    BY HopsFit, InterestPacket DEF Nodes
  <2>2. QED
    BY <2>1, SentType DEF Request, NetworkOK, NetworkTypeOK
<1>2. requests' \in 0 .. MaxRequests
  BY NetworkAssumption DEF NetworkAssumption, Request, NetworkOK, NetworkTypeOK
<1>3. open' \subseteq Nodes \X Names
  BY DEF Request, NetworkOK, NetworkTypeOK
<1>4. QED
  BY <1>1, <1>2, <1>3 DEF Request, NetworkOK, NetworkTypeOK

LEMMA InterestTyped ==
  ASSUME NetworkOK, NEW l \in Links, DeliverInterest(l[1], l[2])
  PROVE  NetworkOK'
<1> DEFINE n == l[1]
           m == l[2]
           p == Head(link[<<l[1], l[2]>>])
           rest == [link EXCEPT ![<<l[1], l[2]>>] = Tail(link[<<l[1], l[2]>>])]
           out == InterestOut(stores[m], n, p.name, p.hop, NextHopsOf[m][p.name])
<1>1. n \in Nodes /\ m \in Nodes /\ p \in Packets /\ rest \in [Links -> Seq(Packets)]
  BY NextOnLink DEF NetworkOK, DeliverInterest
<1>2. /\ pits' = [pits EXCEPT ![m] = PitAfterInterest(pits[m], stores[m], n, p.name, p.hop)]
      /\ link' = Sent(rest, m, out)
      /\ UNCHANGED <<stores, requests, open>>
  BY DEF DeliverInterest
<1> HIDE DEF n, m, p, rest
<1>3. p.name \in Names /\ p.hop \in HopCounts
  BY <1>1 DEF Packets
<1>4. out \in SUBSET Packets
  <2>1. stores[m] \in Stores /\ NextHopsOf[m][p.name] \in SUBSET Neighbours
    BY <1>1, <1>3, NetworkAssumption
       DEF NetworkAssumption, NetworkOK, NetworkTypeOK, Stores, Nodes
  <2>2. QED
    BY <1>1, <1>3, <2>1, InterestOutPackets DEF Nodes
<1>5. PitOK(PitAfterInterest(pits[m], stores[m], n, p.name, p.hop))
  BY <1>1, <1>3, SavePendingOK DEF PitAfterInterest, NetworkOK, NetworkTypeOK, PitOK, Nodes
<1> HIDE DEF out
<1>6. link' \in [Links -> Seq(Packets)]
  BY <1>1, <1>2, <1>4, SentType
<1>7. QED
  BY <1>1, <1>2, <1>5, <1>6 DEF NetworkOK, NetworkTypeOK, PitOK

LEMMA DataTyped ==
  ASSUME NetworkOK, NEW l \in Links, NEW memory \in BOOLEAN, DeliverData(l[1], l[2], memory)
  PROVE  NetworkOK'
<1> DEFINE n == l[1]
           m == l[2]
           p == Head(link[<<l[1], l[2]>>])
           rest == [link EXCEPT ![<<l[1], l[2]>>] = Tail(link[<<l[1], l[2]>>])]
           out == DataOut(pits[m], p.name, p.hop, p.content)
           store == CsAfterData(pits[m], stores[m], p.name, p.content, memory)
<1>1. m \in Nodes /\ p \in Packets /\ rest \in [Links -> Seq(Packets)]
  BY NextOnLink DEF NetworkOK, DeliverData
<1>2. /\ pits' = [pits EXCEPT ![m] = PitAfterData(pits[m], p.name)]
      /\ stores' = [stores EXCEPT ![m] = store]
      /\ link' = Sent(rest, m, out)
      /\ open' = open \ {<<m, p.name>>}
      /\ requests' = requests
  BY DEF DeliverData
<1> HIDE DEF n, m, p, rest
<1>3. p.name \in Names /\ p.hop \in HopCounts /\ p.content \in Contents \cup {NoContent}
  BY <1>1 DEF Packets
<1>4. out \in SUBSET Packets
  BY <1>1, <1>3, DataOutPackets DEF NetworkOK, NetworkTypeOK
<1>5. PitOK(PitAfterData(pits[m], p.name))
  BY <1>1, <1>3, TakePendingOK DEF PitAfterData, NetworkOK, NetworkTypeOK, PitOK
<1>6. store \in Stores
  BY <1>1, <1>3, SaveContentType DEF CsAfterData, NetworkOK, NetworkTypeOK, Stores
<1> HIDE DEF out, store
<1>7. link' \in [Links -> Seq(Packets)]
  BY <1>1, <1>2, <1>4, SentType
<1>8. QED
  BY <1>1, <1>2, <1>5, <1>6, <1>7 DEF NetworkOK, NetworkTypeOK, PitOK, Stores

LEMMA NetworkStepTyped == NetworkOK /\ [NetworkNext]_NetworkVars => NetworkOK'
<1> SUFFICES ASSUME NetworkOK, [NetworkNext]_NetworkVars PROVE NetworkOK'
  OBVIOUS
<1>1. ASSUME NEW n \in Nodes, NEW x \in Names, NEW c \in Contents, NEW memory \in BOOLEAN,
             StoreReading(n, x, c, memory)
      PROVE  NetworkOK'
  <2>1. SaveContent(stores[n], x, c, memory) \in Stores
    BY <1>1, SaveContentType DEF NetworkOK, NetworkTypeOK, Stores
  <2>2. QED
    BY <1>1, <2>1 DEF StoreReading, NetworkOK, NetworkTypeOK, Stores
<1>2. ASSUME NEW l \in Links, Lose(l[1], l[2])
      PROVE  NetworkOK'
  BY <1>2, NextOnLink DEF Lose, NetworkOK, NetworkTypeOK
<1>3. CASE UNCHANGED NetworkVars
  BY <1>3 DEF NetworkVars, NetworkOK, NetworkTypeOK
<1>4. QED
  BY <1>1, <1>2, <1>3, RequestTyped, InterestTyped, DataTyped DEF NetworkNext

LEMMA NetworkStartTyped == NetworkInit => NetworkOK
BY EmptyIndex, NetworkAssumption DEF NetworkInit, NetworkOK, NetworkTypeOK, NetworkAssumption

\* In any network, with any FIBs and whatever is lost, the tables of every node are well
\* formed and every packet in the air is one that fits its bytes.
THEOREM NetworkTypeTheorem == NetworkSpec => []NetworkTypeOK
<1>1. NetworkOK => NetworkTypeOK
  BY DEF NetworkOK
<1>2. QED
  BY <1>1, NetworkStartTyped, NetworkStepTyped, PTL DEF NetworkSpec

-----------------------------------------------------------------------------
(* Nobody waits at a node that has got the content.                        *)

LEMMA PendingIsMap ==
  ASSUME NEW p, PitOK(p), Reach(p), NEW n \in Names
  PROVE  Pending(p, n) <=> ContentsOf(p)[n] # {}
BY PresentCounted, ForwardingAssumption DEF ForwardingAssumption, PitOK, Names, Pending

\* An Interest waits only for what is not stored.
LEMMA InterestWaitsForMissing ==
  ASSUME CollisionSafe, NEW p, PitOK(p), Reach(p), NEW store,
         NEW m \in Neighbours, NEW n \in Names, NEW h
  PROVE  LET q == PitAfterInterest(p, store, m, n, h)
         IN  /\ PitOK(q) /\ Reach(q)
             /\ \A x \in Names : Pending(q, x) /\ store[x] # NoContent => Pending(p, x)
<1>1. CASE HopExceeded(h) \/ store[n] # NoContent
  BY <1>1 DEF PitAfterInterest
<1>2. CASE ~(HopExceeded(h) \/ store[n] # NoContent)
  <2> DEFINE q == SavePending(p, n, m)
  <2>1. PitOK(q) /\ Reach(q)
    BY SavePendingOK, SavedMap
  <2>2. \A x \in Names \ {n} : ContentsOf(q)[x] = ContentsOf(p)[x]
    <3> DEFINE old == ContentsOf(p)
    <3>1. \/ ContentsOf(q) = old
          \/ ContentsOf(q) = [old EXCEPT ![n] = AddRequester(old[n], m)]
      BY SavedMap
    <3>2. DOMAIN old = Names
      BY DEF ContentsOf, Names
    <3> HIDE DEF old, q
    <3>3. \A x \in Names \ {n} : ContentsOf(q)[x] = old[x]
      BY <3>1, <3>2
    <3>4. QED
      BY <3>3 DEF old
  <2>3. PitAfterInterest(p, store, m, n, h) = q
    BY <1>2 DEF PitAfterInterest
  <2> HIDE DEF q
  <2>4. \A x \in Names \ {n} : Pending(q, x) <=> Pending(p, x)
    BY <2>1, <2>2, PendingIsMap
  <2>5. QED
    BY <1>2, <2>1, <2>3, <2>4
<1>3. QED
  BY <1>1, <1>2

\* Data that is stored leaves nobody waiting for it.
LEMMA DataServesAll ==
  ASSUME NEW p, PitOK(p), Reach(p), NEW store \in Stores,
         NEW n \in Names, NEW c, NEW memory
  PROVE  LET q == PitAfterData(p, n)
             s == CsAfterData(p, store, n, c, memory)
         IN  /\ PitOK(q) /\ Reach(q)
             /\ \A x \in Names : Pending(q, x) /\ s[x] # NoContent =>
                                   Pending(p, x) /\ store[x] # NoContent
<1>1. CASE ~Pending(p, n)
  BY <1>1 DEF PitAfterData, CsAfterData
<1>2. CASE Pending(p, n)
  <2> DEFINE q == TakePending(p, n)
             s == SaveContent(store, n, c, memory)
  <2>1. PitOK(q) /\ Reach(q) /\ ContentsOf(q) = [ContentsOf(p) EXCEPT ![n] = {}]
    BY TakePendingOK, TakenMap
  <2>2. \A x \in Names \ {n} : s[x] = store[x]
    BY DEF SaveContent, Stores
  <2>3. PitAfterData(p, n) = q /\ CsAfterData(p, store, n, c, memory) = s
    BY <1>2 DEF PitAfterData, CsAfterData
  <2>4. ContentsOf(q)[n] = {} /\ \A x \in Names \ {n} : ContentsOf(q)[x] = ContentsOf(p)[x]
    BY <2>1 DEF ContentsOf, Names
  <2> HIDE DEF q, s
  <2>5. ~Pending(q, n) /\ \A x \in Names \ {n} : Pending(q, x) <=> Pending(p, x)
    BY <2>1, <2>4, PendingIsMap
  <2>6. QED
    BY <2>1, <2>2, <2>3, <2>5
<1>3. QED
  BY <1>1, <1>2

NetworkInv ==
  /\ NetworkOK
  /\ \A n \in Nodes : Reach(pits[n])
  /\ NobodyWaitsForStored

LEMMA InterestKeeps ==
  ASSUME CollisionSafe, NetworkInv, NEW l \in Links, DeliverInterest(l[1], l[2])
  PROVE  NetworkInv'
<1> DEFINE n == l[1]
           m == l[2]
           p == Head(link[<<l[1], l[2]>>])
           q == PitAfterInterest(pits[m], stores[m], n, p.name, p.hop)
<1>1. n \in Nodes /\ m \in Nodes /\ p \in Packets
  BY NextOnLink DEF NetworkInv, NetworkOK, DeliverInterest
<1>2. pits' = [pits EXCEPT ![m] = q] /\ stores' = stores
  BY DEF DeliverInterest
<1> HIDE DEF n, m, p
<1>3. p.name \in Names /\ PitOK(pits[m]) /\ Reach(pits[m]) /\ n \in Neighbours
  BY <1>1 DEF NetworkInv, NetworkOK, NetworkTypeOK, PitOK, Packets, Nodes
<1>4. /\ Reach(q)
      /\ \A x \in Names : Pending(q, x) /\ stores[m][x] # NoContent => Pending(pits[m], x)
  BY <1>3, InterestWaitsForMissing
<1> HIDE DEF q
<1>5. NetworkOK'
  BY InterestTyped DEF NetworkInv
<1>6. \A i \in Nodes : pits'[i] = IF i = m THEN q ELSE pits[i]
  BY <1>1, <1>2 DEF NetworkInv, NetworkOK, NetworkTypeOK
<1>7. \A i \in Nodes : Reach(pits'[i])
  BY <1>4, <1>6 DEF NetworkInv
<1>8. NobodyWaitsForStored'
  BY <1>2, <1>4, <1>6 DEF NetworkInv, NobodyWaitsForStored
<1>9. QED
  BY <1>5, <1>7, <1>8 DEF NetworkInv

LEMMA DataKeeps ==
  ASSUME NetworkInv, NEW l \in Links, NEW memory \in BOOLEAN, DeliverData(l[1], l[2], memory)
  PROVE  NetworkInv'
<1> DEFINE m == l[2]
           p == Head(link[<<l[1], l[2]>>])
           q == PitAfterData(pits[m], p.name)
           s == CsAfterData(pits[m], stores[m], p.name, p.content, memory)
<1>1. m \in Nodes /\ p \in Packets
  BY NextOnLink DEF NetworkInv, NetworkOK, DeliverData
<1>2. pits' = [pits EXCEPT ![m] = q] /\ stores' = [stores EXCEPT ![m] = s]
  BY DEF DeliverData
<1> HIDE DEF m, p
<1>3. p.name \in Names /\ PitOK(pits[m]) /\ Reach(pits[m]) /\ stores[m] \in Stores
  BY <1>1 DEF NetworkInv, NetworkOK, NetworkTypeOK, PitOK, Packets, Stores
<1>4. /\ Reach(q)
      /\ \A x \in Names : Pending(q, x) /\ s[x] # NoContent =>
                            Pending(pits[m], x) /\ stores[m][x] # NoContent
  BY <1>3, DataServesAll
<1> HIDE DEF q, s
<1>5. NetworkOK'
  BY DataTyped DEF NetworkInv
<1>6. \A i \in Nodes : /\ pits'[i] = (IF i = m THEN q ELSE pits[i])
                        /\ stores'[i] = (IF i = m THEN s ELSE stores[i])
  BY <1>1, <1>2 DEF NetworkInv, NetworkOK, NetworkTypeOK
<1>7. \A i \in Nodes : Reach(pits'[i])
  BY <1>4, <1>6 DEF NetworkInv
<1>8. NobodyWaitsForStored'
  BY <1>4, <1>6 DEF NetworkInv, NobodyWaitsForStored
<1>9. QED
  BY <1>5, <1>7, <1>8 DEF NetworkInv

\* A reading is stored only where the sensor is.
LEMMA ReadingKeeps ==
  ASSUME NetworkInv, NEW n \in Nodes, NEW x \in Names, NEW c \in Contents,
         NEW memory \in BOOLEAN, StoreReading(n, x, c, memory)
  PROVE  NetworkInv'
<1>1. <<n, x>> \in Sensors /\ pits' = pits
  BY DEF StoreReading
<1>2. \A m \in Nodes, y \in Names : stores'[m][y] = stores[m][y] \/ (m = n /\ y = x)
  BY DEF StoreReading, SaveContent, NetworkInv, NetworkOK, NetworkTypeOK
<1>3. NobodyWaitsForStored'
  BY <1>1, <1>2 DEF NetworkInv, NobodyWaitsForStored
<1>4. NetworkOK'
  BY NetworkStepTyped DEF NetworkInv, NetworkNext
<1>5. QED
  BY <1>1, <1>3, <1>4 DEF NetworkInv

LEMMA NetworkStepKeeps ==
  ASSUME CollisionSafe, NetworkInv, [NetworkNext]_NetworkVars
  PROVE  NetworkInv'
<1>1. NetworkOK'
  BY NetworkStepTyped DEF NetworkInv
<1>2. CASE UNCHANGED <<pits, stores>>
  BY <1>1, <1>2 DEF NetworkInv, NobodyWaitsForStored
<1>3. CASE \E n, m \in Nodes, x \in Names : Request(n, m, x)
  BY <1>2, <1>3 DEF Request
<1>4. CASE \E l \in Links : Lose(l[1], l[2])
  BY <1>2, <1>4 DEF Lose
<1>5. CASE UNCHANGED NetworkVars
  BY <1>2, <1>5 DEF NetworkVars
<1>6. QED
  BY <1>3, <1>4, <1>5, InterestKeeps, DataKeeps, ReadingKeeps DEF NetworkNext

\* When no two names share a home slot of the PITs, nobody waits at a node of the network
\* for a content that the node has got from elsewhere, whatever is lost on the way, with
\* any FIBs, cycles included: the Data that brought the content was passed to all who
\* waited, and whoever asks afterwards is answered from the store.
THEOREM WaitTheorem == CollisionSafe => (NetworkSpec => []NobodyWaitsForStored)
<1> SUFFICES ASSUME CollisionSafe PROVE NetworkSpec => []NobodyWaitsForStored
  OBVIOUS
<1>1. NetworkInit => NetworkInv
  <2> SUFFICES ASSUME NetworkInit PROVE NetworkInv
    OBVIOUS
  <2>1. \A n \in Nodes : ValidEntries(pits[n]) = {} /\ UsedSlots(pits[n]) = {}
    BY DEF NetworkInit, EmptyCache, ValidEntries, UsedSlots, EmptySlots
  <2>2. \A n \in Nodes, x \in Names : stores[n][x] = NoContent
    BY DEF NetworkInit
  <2>3. QED
    BY <2>1, <2>2, NetworkStartTyped, EmptyReach DEF NetworkInv, NobodyWaitsForStored
<1>2. NetworkInv /\ [NetworkNext]_NetworkVars => NetworkInv'
  BY NetworkStepKeeps
<1>3. NetworkInv => NobodyWaitsForStored
  BY DEF NetworkInv
<1>4. QED
  BY <1>1, <1>2, <1>3, PTL DEF NetworkSpec
=============================================================================
