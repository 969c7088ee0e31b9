-------------------------- MODULE SecureLinkProofs --------------------------
(***************************************************************************)
(* Theorems about SecureLink, for any nodes, keys, configuration, size of  *)
(* the peer table and number of packets.                                   *)
(***************************************************************************)
EXTENDS SecureLink, FiniteSetTheorems, SequenceTheorems, WellFoundedInduction, TLAPS

-----------------------------------------------------------------------------
(* The table of peers, for any number of slots: which slot a call about a  *)
(* peer uses, and that it leaves the other peers alone.                    *)

\* A non-empty set of natural numbers has a least element: what the scan of
\* findPeerIndex stops at.
LEMMA LeastExists ==
  ASSUME NEW T, T \subseteq Nat, T # {}
  PROVE  \E x \in T : \A y \in T : x <= y
<1> DEFINE U == {0 .. x : x \in T}
           R == StrictSubsetOrdering(Nat)
<1>1. U \subseteq FiniteSubsetsOf(Nat) /\ U # {}
  <2>1. \A x \in T : IsFiniteSet(0 .. x) /\ 0 .. x \in SUBSET Nat
    BY FS_Interval
  <2>2. QED
    BY <2>1 DEF FiniteSubsetsOf
<1>2. PICK u \in U : \A v \in U : ~ (<<v, u>> \in R)
  BY <1>1, FS_StrictSubsetOrderingWellFounded, WFMin
<1>3. PICK x \in T : u = 0 .. x
  BY <1>2
<1>4. ASSUME NEW y \in T, y < x
      PROVE  FALSE
  <2>1. 0 .. y \in U /\ 0 .. y \in SUBSET Nat /\ u \in SUBSET Nat
    BY <1>3
  <2>2. 0 .. y \subseteq u /\ 0 .. y # u
    BY <1>3, <1>4
  <2>3. <<0 .. y, u>> \in R
    BY <2>1, <2>2 DEF StrictSubsetOrdering
  <2>4. QED
    BY <1>2, <2>1, <2>3
<1>5. QED
  BY <1>4

\* A scan finds a slot of the set it looks for, if there is one.
LEMMA LowestFinds ==
  ASSUME NEW S, S \subseteq PeerSlots
  PROVE  /\ S = {} => Lowest(S) = NoSlot
         /\ S # {} => Lowest(S) \in S
         /\ Lowest(S) \in PeerSlots \cup {NoSlot}
<1>1. NoSlot \notin PeerSlots
  BY DEF NoSlot, PeerSlots
<1>2. CASE S = {}
  BY <1>2 DEF Lowest
<1>3. CASE S # {}
  <2>1. S \subseteq Nat
    BY PeerAssumption DEF PeerSlots
  <2>2. PICK x \in S : \A y \in S : x <= y
    BY <1>3, <2>1, LeastExists
  <2>3. Lowest(S) \in S
    BY <1>3, <2>2 DEF Lowest
  <2>4. QED
    BY <1>3, <2>3
<1>4. QED
  BY <1>2, <1>3

\* The slot that is found for a peer has its address, and there is none only if no
\* slot has.
LEMMA FindPeerFinds ==
  ASSUME NEW t, NEW m
  PROVE  LET i == FindPeer(t, m)
         IN  /\ i \in PeerSlots \cup {NoSlot}
             /\ i # NoSlot => i \in PeerSlots /\ t.mac[i] = m
             /\ i = NoSlot <=> \A j \in PeerSlots : t.mac[j] # m
<1> DEFINE S == {j \in PeerSlots : t.mac[j] = m}
<1>1. S \subseteq PeerSlots
  OBVIOUS
<1>2. NoSlot \notin PeerSlots
  BY DEF NoSlot, PeerSlots
<1>3. FindPeer(t, m) = Lowest(S)
  BY DEF FindPeer
<1>4. /\ S = {} => Lowest(S) = NoSlot
      /\ S # {} => Lowest(S) \in S
  BY <1>1, LowestFinds
<1>5. QED
  BY <1>2, <1>3, <1>4

\* Tables that agree on who has which slot agree on where a peer is.
LEMMA FindPeerCongruent ==
  ASSUME NEW t, NEW u, NEW m,
         \A i \in PeerSlots : t.mac[i] = m <=> u.mac[i] = m
  PROVE  FindPeer(t, m) = FindPeer(u, m)
<1>1. {i \in PeerSlots : t.mac[i] = m} = {i \in PeerSlots : u.mac[i] = m}
  OBVIOUS
<1>2. QED
  BY <1>1 DEF FindPeer

\* The slot a call uses is the peer's own, or else a free one.
LEMMA SlotForFinds ==
  ASSUME NEW t \in TableType, NEW m \in Nodes, SlotFor(t, m) # NoSlot
  PROVE  LET i == SlotFor(t, m)
         IN  /\ i \in PeerSlots
             /\ FindPeer(t, m) # NoSlot => i = FindPeer(t, m)
             /\ FindPeer(t, m) = NoSlot => t.mac[i] = NoNode
BY FindPeerFinds DEF SlotFor

\* A peer that is given a slot starts with counters of zero and no key; its slot is
\* then the one that is found, and no other peer is touched.
LEMMA WithPeerTable ==
  ASSUME NEW t \in TableType, NEW m \in Nodes, SlotFor(t, m) # NoSlot
  PROVE  LET u == WithPeer(t, m)
         IN  /\ u \in TableType
             /\ FindPeer(u, m) = SlotFor(t, m)
             /\ \A i \in PeerSlots : t.mac[i] # NoNode =>
                  u.mac[i] = t.mac[i] /\ u.tx[i] = t.tx[i] /\ u.rx[i] = t.rx[i]
             /\ \A q \in Nodes : TxOf(u, q) = TxOf(t, q) /\ RxOf(u, q) = RxOf(t, q)
             /\ \A q \in Nodes \ {m} : FindPeer(u, q) = FindPeer(t, q)
<1> DEFINE i == SlotFor(t, m)
           u == WithPeer(t, m)
<1>1. /\ i \in PeerSlots
      /\ FindPeer(t, m) # NoSlot => i = FindPeer(t, m)
      /\ FindPeer(t, m) = NoSlot => t.mac[i] = NoNode
  BY SlotForFinds
<1>2. CASE FindPeer(t, m) # NoSlot
  <2>1. u = t
    BY <1>2 DEF WithPeer
  <2>2. QED
    BY <1>1, <1>2, <2>1
<1>3. CASE FindPeer(t, m) = NoSlot
  <2>1. u = [ mac |-> [t.mac EXCEPT ![i] = m], tx |-> [t.tx EXCEPT ![i] = 0],
              rx |-> [t.rx EXCEPT ![i] = 0], key |-> [t.key EXCEPT ![i] = NoKey] ]
    BY <1>3 DEF WithPeer
  <2>2. 0 \in Counters /\ NoNode \notin Nodes
    BY PeerAssumption DEF Counters
  <2>3. u \in TableType
    BY <1>1, <2>1, <2>2 DEF TableType
  <2> HIDE DEF u, i
  <2>4. \A j \in PeerSlots :
          /\ u.mac[j] = IF j = i THEN m ELSE t.mac[j]
          /\ u.tx[j] = IF j = i THEN 0 ELSE t.tx[j]
          /\ u.rx[j] = IF j = i THEN 0 ELSE t.rx[j]
    BY <2>1 DEF TableType
  <2>5. \A j \in PeerSlots : t.mac[j] # m
    BY <1>3, FindPeerFinds
  <2>6. FindPeer(u, m) = i
    <3>1. FindPeer(u, m) # NoSlot
      BY <1>1, <2>4, FindPeerFinds
    <3>2. FindPeer(u, m) \in PeerSlots /\ u.mac[FindPeer(u, m)] = m
      BY <3>1, FindPeerFinds
    <3>3. QED
      BY <2>4, <2>5, <3>2
  <2>7. \A q \in Nodes \ {m} : FindPeer(u, q) = FindPeer(t, q)
    <3> TAKE q \in Nodes \ {m}
    <3>1. \A j \in PeerSlots : t.mac[j] = q <=> u.mac[j] = q
      BY <1>1, <1>3, <2>2, <2>4
    <3>2. QED
      BY <3>1, FindPeerCongruent
  <2>8. \A q \in Nodes : TxOf(u, q) = TxOf(t, q) /\ RxOf(u, q) = RxOf(t, q)
    <3>1. TxOf(u, m) = 0 /\ TxOf(t, m) = 0 /\ RxOf(u, m) = 0 /\ RxOf(t, m) = 0
      <4>1. i # NoSlot
        BY <1>1 DEF NoSlot, PeerSlots
      <4>2. QED
        BY <1>1, <1>3, <2>4, <2>6, <4>1 DEF TxOf, RxOf
    <3>2. ASSUME NEW q \in Nodes \ {m}
          PROVE  TxOf(u, q) = TxOf(t, q) /\ RxOf(u, q) = RxOf(t, q)
      <4>1. FindPeer(u, q) = FindPeer(t, q)
        BY <2>7
      <4>2. FindPeer(t, q) # NoSlot =>
              FindPeer(t, q) \in PeerSlots /\ t.mac[FindPeer(t, q)] = q
        BY FindPeerFinds
      <4>3. FindPeer(t, q) # NoSlot => FindPeer(t, q) # i
        BY <1>1, <1>3, <2>2, <4>2
      <4>4. QED
        BY <2>4, <4>1, <4>2, <4>3 DEF TxOf, RxOf
    <3>3. QED
      BY <3>1, <3>2
  <2>9. QED
    BY <1>1, <1>3, <2>2, <2>3, <2>4, <2>6, <2>7, <2>8 DEF i, u
<1>4. QED
  BY <1>2, <1>3

\* The same when the table may be full and the peer has to do without a slot.
LEMMA WithPeerKeeps ==
  ASSUME NEW t \in TableType, NEW m \in Nodes
  PROVE  LET u == WithPeer(t, m)
         IN  /\ u \in TableType
             /\ \A i \in PeerSlots : t.mac[i] # NoNode =>
                  u.mac[i] = t.mac[i] /\ u.tx[i] = t.tx[i] /\ u.rx[i] = t.rx[i]
             /\ \A q \in Nodes : TxOf(u, q) = TxOf(t, q) /\ RxOf(u, q) = RxOf(t, q)
<1>1. CASE SlotFor(t, m) = NoSlot
  BY <1>1 DEF WithPeer
<1>2. CASE SlotFor(t, m) # NoSlot
  BY <1>2, WithPeerTable
<1>3. QED
  BY <1>1, <1>2

\* Counters are of their type, zero for a peer that has no slot.
LEMMA CountersOf ==
  ASSUME NEW t \in TableType, NEW m
  PROVE  TxOf(t, m) \in Counters /\ RxOf(t, m) \in Counters
<1>1. 0 \in Counters
  BY PeerAssumption DEF Counters
<1>2. FindPeer(t, m) # NoSlot => FindPeer(t, m) \in PeerSlots
  BY FindPeerFinds
<1>3. QED
  BY <1>1, <1>2 DEF TxOf, RxOf, TableType

\* Below the modulus a counter goes up by one, and stays a counter in any case.
LEMMA BumpUp ==
  ASSUME NEW c \in Counters
  PROVE  /\ Bump(c) \in Counters
         /\ c + 1 < CounterModulus => Bump(c) = c + 1
         /\ Bump(c) = c + 1 \/ Bump(c) = 0
<1>1. CounterModulus \in Nat \ {0, 1}
  BY PeerAssumption
<1>2. CASE c + 1 < CounterModulus
  BY <1>1, <1>2 DEF Bump, Counters
<1>3. CASE c + 1 = CounterModulus
  BY <1>1, <1>3 DEF Bump, Counters
<1>4. QED
  BY <1>1, <1>2, <1>3 DEF Counters

\* incrementTxCounter counts for one peer.
LEMMA IncrementTxTable ==
  ASSUME NEW t \in TableType, NEW m \in Nodes, FindPeer(t, m) # NoSlot
  PROVE  LET u == IncrementTx(t, m)
         IN  /\ u \in TableType
             /\ u.mac = t.mac /\ u.rx = t.rx
             /\ \A i \in PeerSlots :
                  u.tx[i] = IF i = FindPeer(t, m) THEN Bump(TxOf(t, m)) ELSE t.tx[i]
             /\ TxOf(u, m) = Bump(TxOf(t, m))
             /\ \A q \in Nodes \ {m} : TxOf(u, q) = TxOf(t, q)
             /\ \A q \in Nodes : RxOf(u, q) = RxOf(t, q)
<1> DEFINE k == FindPeer(t, m)
           u == IncrementTx(t, m)
<1>1. k \in PeerSlots /\ t.mac[k] = m
  BY FindPeerFinds
<1>2. Bump(TxOf(t, m)) \in Counters
  BY CountersOf, BumpUp
<1>3. u = [mac |-> t.mac, tx |-> [t.tx EXCEPT ![k] = Bump(TxOf(t, m))], rx |-> t.rx, key |-> t.key]
  BY DEF IncrementTx, TableType
<1>4. u \in TableType
  BY <1>1, <1>2, <1>3 DEF TableType
<1>5. /\ u.mac = t.mac /\ u.rx = t.rx
      /\ \A i \in PeerSlots : u.tx[i] = IF i = k THEN Bump(TxOf(t, m)) ELSE t.tx[i]
  BY <1>3 DEF TableType
<1> HIDE DEF u, k
<1>6. \A q : FindPeer(u, q) = FindPeer(t, q)
  BY <1>5 DEF FindPeer
<1>7. k # NoSlot
  BY <1>1 DEF NoSlot, PeerSlots
<1>8. TxOf(u, m) = Bump(TxOf(t, m))
  BY <1>1, <1>5, <1>6, <1>7 DEF TxOf, k
<1>9. ASSUME NEW q \in Nodes
      PROVE  /\ RxOf(u, q) = RxOf(t, q)
             /\ q # m => TxOf(u, q) = TxOf(t, q)
  <2>1. FindPeer(t, q) # NoSlot => FindPeer(t, q) \in PeerSlots /\ t.mac[FindPeer(t, q)] = q
    BY FindPeerFinds
  <2>2. QED
    BY <1>1, <1>5, <1>6, <2>1 DEF TxOf, RxOf
<1>10. QED
  BY <1>4, <1>5, <1>8, <1>9 DEF u, k

\* validateRxCounter remembers a counter for one peer.
LEMMA StoreRxTable ==
  ASSUME NEW t \in TableType, NEW m \in Nodes, NEW c \in Counters, FindPeer(t, m) # NoSlot
  PROVE  LET u == StoreRx(t, m, c)
         IN  /\ u \in TableType
             /\ u.mac = t.mac /\ u.tx = t.tx
             /\ \A i \in PeerSlots : u.rx[i] = IF i = FindPeer(t, m) THEN c ELSE t.rx[i]
             /\ RxOf(u, m) = c
             /\ \A q \in Nodes \ {m} : RxOf(u, q) = RxOf(t, q)
             /\ \A q \in Nodes : TxOf(u, q) = TxOf(t, q)
<1> DEFINE k == FindPeer(t, m)
           u == StoreRx(t, m, c)
<1>1. k \in PeerSlots /\ t.mac[k] = m
  BY FindPeerFinds
<1>2. u = [mac |-> t.mac, tx |-> t.tx, rx |-> [t.rx EXCEPT ![k] = c], key |-> t.key]
  BY DEF StoreRx, TableType
<1>3. u \in TableType
  BY <1>1, <1>2 DEF TableType
<1>4. /\ u.mac = t.mac /\ u.tx = t.tx
      /\ \A i \in PeerSlots : u.rx[i] = IF i = k THEN c ELSE t.rx[i]
  BY <1>2 DEF TableType
<1> HIDE DEF u, k
<1>5. \A q : FindPeer(u, q) = FindPeer(t, q)
  BY <1>4 DEF FindPeer
<1>6. k # NoSlot
  BY <1>1 DEF NoSlot, PeerSlots
<1>7. RxOf(u, m) = c
  BY <1>1, <1>4, <1>5, <1>6 DEF RxOf, k
<1>8. ASSUME NEW q \in Nodes
      PROVE  /\ TxOf(u, q) = TxOf(t, q)
             /\ q # m => RxOf(u, q) = RxOf(t, q)
  <2>1. FindPeer(t, q) # NoSlot => FindPeer(t, q) \in PeerSlots /\ t.mac[FindPeer(t, q)] = q
    BY FindPeerFinds
  <2>2. QED
    BY <1>1, <1>4, <1>5, <2>1 DEF TxOf, RxOf
<1>9. QED
  BY <1>3, <1>4, <1>7, <1>8 DEF u, k

\* The table of a configuration is well formed, and nothing is counted in it.
LEMMA ConfiguredTableType ==
  ASSUME NEW config \in Seq([mac : Nodes, key : Keys])
  PROVE  /\ ConfiguredTable(config) \in TableType
         /\ \A m : TxOf(ConfiguredTable(config), m) = 0 /\ RxOf(ConfiguredTable(config), m) = 0
<1> DEFINE t == ConfiguredTable(config)
<1>1. 0 \in Counters
  BY PeerAssumption DEF Counters
<1>2. \A i \in PeerSlots : i < Len(config) =>
        config[i + 1] \in [mac : Nodes, key : Keys]
  <2>1. \A i \in PeerSlots : i \in Int /\ i >= 0
    BY PeerAssumption DEF PeerSlots
  <2>2. Len(config) \in Nat /\ \A j \in 1 .. Len(config) : config[j] \in [mac : Nodes, key : Keys]
    BY LenProperties, ElementOfSeq
  <2>3. QED
    BY <2>1, <2>2
<1>3. t \in TableType
  BY <1>1, <1>2 DEF ConfiguredTable, TableType
<1>4. \A i \in PeerSlots : t.tx[i] = 0 /\ t.rx[i] = 0
  BY DEF ConfiguredTable
<1>5. \A m : FindPeer(t, m) # NoSlot => FindPeer(t, m) \in PeerSlots
  BY FindPeerFinds
<1>6. QED
  BY <1>3, <1>4, <1>5 DEF TxOf, RxOf

-----------------------------------------------------------------------------
(* The inductive invariant.                                                *)

\* The largest number of packets that can be counted on a link.
LastCounter == CounterModulus - 1

\* The tx counter of a peer is the number of packets counted for it, or less after a
\* restart, and stays below the modulus.
TxInv ==
  \A n, m \in Nodes :
    /\ Len(counted[<<n, m>>]) <= LastCounter
    /\ TxOf(peers[n], m) <= Len(counted[<<n, m>>])
    /\ n \in Lasting => TxOf(peers[n], m) = Len(counted[<<n, m>>])

\* A packet in the air has the counter of a packet that was counted, and its payload.
AirInv ==
  \A p \in air :
    /\ p.counter \in 1 .. LastCounter
    /\ p.from \in Lasting =>
         /\ p.counter <= Len(counted[<<p.from, p.to>>])
         /\ counted[<<p.from, p.to>>][p.counter] = p.payload

\* The rx counter of a peer is the number of packets accepted from it, also when the
\* peer restarted.
RxInv ==
  \A n \in Nodes, m \in Lasting : RxOf(peers[m], n) = Len(accepted[<<n, m>>])

\* With the rx counters the packets accepted are those of one counter after another,
\* and with the packets in the air these are the ones that were counted.
IInv == TypeOK /\ TxInv /\ AirInv /\ RxInv /\ CountersTakenOnce

-----------------------------------------------------------------------------
(* Initial states.                                                         *)

LEMMA InitInv == Init => IInv
<1> SUFFICES ASSUME Init PROVE IInv
  OBVIOUS
<1>1. \A n \in Nodes : /\ peers[n] \in TableType
                       /\ \A m : TxOf(peers[n], m) = 0 /\ RxOf(peers[n], m) = 0
  BY LinkAssumption, ConfiguredTableType DEF Init
<1>2. \A n, m \in Nodes : /\ counted[<<n, m>>] = <<>> /\ accepted[<<n, m>>] = <<>>
                          /\ Len(counted[<<n, m>>]) = 0 /\ Len(accepted[<<n, m>>]) = 0
  BY DEF Init
<1>3. TypeOK
  <2>1. peers \in [Nodes -> TableType]
    BY <1>1 DEF Init
  <2>2. <<>> \in Seq(Payloads)
    OBVIOUS
  <2>3. /\ counted \in [Nodes \X Nodes -> Seq(Payloads)]
        /\ accepted \in [Nodes \X Nodes -> Seq(Payloads)]
    BY <2>2 DEF Init
  <2>4. QED
    BY <2>1, <2>3 DEF Init, TypeOK
<1>4. TxInv
  <2> SUFFICES ASSUME NEW n \in Nodes, NEW m \in Nodes
               PROVE  /\ Len(counted[<<n, m>>]) <= LastCounter
                      /\ TxOf(peers[n], m) <= Len(counted[<<n, m>>])
                      /\ TxOf(peers[n], m) = Len(counted[<<n, m>>])
    BY DEF TxInv
  <2>1. 0 <= LastCounter
    BY PeerAssumption DEF LastCounter
  <2>2. TxOf(peers[n], m) = 0 /\ Len(counted[<<n, m>>]) = 0
    BY <1>1, <1>2
  <2>3. QED
    BY <2>1, <2>2
<1>5. AirInv
  BY DEF Init, AirInv
<1>6. CountersTakenOnce
  BY <1>2 DEF CountersTakenOnce, Lasting
<1>7. RxInv
  <2>1. ASSUME NEW n \in Nodes, NEW m \in Nodes
        PROVE  RxOf(peers[m], n) = Len(accepted[<<n, m>>])
    BY <1>1, <1>2
  <2>2. QED
    BY <2>1 DEF RxInv, Lasting
<1>8. QED
  BY <1>3, <1>4, <1>5, <1>6, <1>7 DEF IInv

\* Packets that are sent do not touch what was accepted before.
LEMMA StillTaken ==
  ASSUME CountersTakenOnce, UNCHANGED accepted, \A p \in air : p \in air'
  PROVE  CountersTakenOnce'
<1>1. ASSUME NEW n \in Nodes, NEW m \in Lasting \cap HmacEnabled,
             NEW i \in 1 .. Len(accepted'[<<n, m>>])
      PROVE  \E p \in air' :
               p.from = n /\ p.to = m /\ p.counter = i /\ p.payload = accepted'[<<n, m>>][i]
  <2>1. PICK p \in air : p.from = n /\ p.to = m /\ p.counter = i /\ p.payload = accepted[<<n, m>>][i]
    BY DEF CountersTakenOnce
  <2>2. QED
    BY <2>1
<1>2. QED
  BY <1>1, Zenon DEF CountersTakenOnce, Lasting

-----------------------------------------------------------------------------
(* A packet is counted.                                                    *)

\* There is a counter left for the packet.
LEMMA CountBound ==
  ASSUME TypeOK, NEW n \in Nodes, NEW m \in Nodes, NEW x \in Payloads, Count(n, m, x)
  PROVE  Len(counted[<<n, m>>]) < LastCounter
<1>1. Len(counted[<<n, m>>]) < MaxSends[<<n, m>>] /\ MaxSends[<<n, m>>] \in Counters
  BY LinkAssumption DEF Count
<1>2. Len(counted[<<n, m>>]) \in Nat /\ CounterModulus \in Nat
  BY PeerAssumption DEF TypeOK
<1>3. QED
  BY <1>1, <1>2 DEF Counters, LastCounter

\* What counting does to the tables and to the history: they go up together.
LEMMA CountStep ==
  ASSUME TypeOK, TxInv, NEW n \in Nodes, NEW m \in Nodes, NEW x \in Payloads, Count(n, m, x)
  PROVE  /\ peers' \in [Nodes -> TableType]
         /\ counted' \in [Nodes \X Nodes -> Seq(Payloads)]
         /\ \A q \in Nodes \ {n} : peers'[q] = peers[q]
         /\ \A q \in Nodes : RxOf(peers'[n], q) = RxOf(peers[n], q)
         /\ \A q \in Nodes \ {m} : TxOf(peers'[n], q) = TxOf(peers[n], q)
         /\ TxOf(peers'[n], m) = TxOf(peers[n], m) + 1
         /\ \A i \in PeerSlots : peers[n].mac[i] # NoNode =>
              /\ peers'[n].mac[i] = peers[n].mac[i]
              /\ peers'[n].tx[i] >= peers[n].tx[i]
              /\ peers'[n].rx[i] >= peers[n].rx[i]
         /\ \A l \in Nodes \X Nodes : l # <<n, m>> => counted'[l] = counted[l]
         /\ Len(counted'[<<n, m>>]) = Len(counted[<<n, m>>]) + 1
         /\ Len(counted'[<<n, m>>]) <= LastCounter
         /\ \A c \in 1 .. Len(counted[<<n, m>>]) : counted'[<<n, m>>][c] = counted[<<n, m>>][c]
         /\ counted'[<<n, m>>][Len(counted'[<<n, m>>])] = x
<1> DEFINE t == peers[n]
           w == WithPeer(t, m)
           u == IncrementTx(w, m)
<1>1. t \in TableType /\ counted[<<n, m>>] \in Seq(Payloads)
  BY DEF TypeOK
<1>2. peers' = [peers EXCEPT ![n] = u] /\ SlotFor(t, m) # NoSlot
  BY DEF Count
<1>3. peers'[n] = u /\ \A q \in Nodes \ {n} : peers'[q] = peers[q]
  BY <1>2 DEF TypeOK
<1>4. /\ w \in TableType
      /\ FindPeer(w, m) = SlotFor(t, m)
      /\ \A i \in PeerSlots : t.mac[i] # NoNode =>
           w.mac[i] = t.mac[i] /\ w.tx[i] = t.tx[i] /\ w.rx[i] = t.rx[i]
      /\ \A q \in Nodes : TxOf(w, q) = TxOf(t, q) /\ RxOf(w, q) = RxOf(t, q)
  BY <1>1, <1>2, WithPeerTable
<1>5. /\ u \in TableType
      /\ u.mac = w.mac /\ u.rx = w.rx
      /\ \A i \in PeerSlots : u.tx[i] = IF i = FindPeer(w, m) THEN Bump(TxOf(w, m)) ELSE w.tx[i]
      /\ TxOf(u, m) = Bump(TxOf(w, m))
      /\ \A q \in Nodes \ {m} : TxOf(u, q) = TxOf(w, q)
      /\ \A q \in Nodes : RxOf(u, q) = RxOf(w, q)
  BY <1>2, <1>4, IncrementTxTable
<1>6. Bump(TxOf(w, m)) = TxOf(t, m) + 1
  <2>1. TxOf(t, m) \in Counters /\ TxOf(w, m) = TxOf(t, m)
    BY <1>1, <1>4, CountersOf
  <2>2. TxOf(t, m) <= Len(counted[<<n, m>>]) /\ Len(counted[<<n, m>>]) < LastCounter
    BY CountBound DEF TxInv
  <2>3. LastCounter \in Nat /\ LastCounter < CounterModulus /\ CounterModulus \in Nat
    BY PeerAssumption DEF LastCounter
  <2>4. TxOf(t, m) \in Nat /\ Len(counted[<<n, m>>]) \in Nat
    BY <1>1, <2>1 DEF Counters
  <2> HIDE DEF t, w, u
  <2>5. TxOf(t, m) + 1 < CounterModulus
    BY <2>2, <2>3, <2>4 DEF t
  <2>6. QED
    BY <2>1, <2>5, BumpUp
<1>7. \A i \in PeerSlots : t.mac[i] # NoNode =>
        u.mac[i] = t.mac[i] /\ u.tx[i] >= t.tx[i] /\ u.rx[i] >= t.rx[i]
  <2> TAKE i \in PeerSlots
  <2> HAVE t.mac[i] # NoNode
  <2>1. t.tx[i] \in Nat /\ t.rx[i] \in Nat
    BY <1>1 DEF TableType, Counters
  <2>2. w.mac[i] = t.mac[i] /\ w.tx[i] = t.tx[i] /\ w.rx[i] = t.rx[i]
    BY <1>4
  <2>3. CASE i = FindPeer(w, m)
    <3>1. TxOf(w, m) = w.tx[i] \/ TxOf(w, m) = 0
      BY <2>3 DEF TxOf
    <3>2. FindPeer(w, m) # NoSlot
      BY <1>2, <1>4
    <3>3. TxOf(t, m) = t.tx[i]
      BY <1>4, <2>2, <2>3, <3>2 DEF TxOf
    <3>4. QED
      BY <1>5, <1>6, <2>1, <2>2, <2>3, <3>3
  <2>4. CASE i # FindPeer(w, m)
    BY <1>5, <2>1, <2>2, <2>4
  <2>5. QED
    BY <2>3, <2>4
<1> HIDE DEF t, w, u
<1>8. peers' \in [Nodes -> TableType]
  BY <1>2, <1>5 DEF TypeOK
<1>9. /\ counted' = [counted EXCEPT ![<<n, m>>] = Append(counted[<<n, m>>], x)]
      /\ Len(counted[<<n, m>>]) < LastCounter
  BY CountBound DEF Count
<1>10. counted' \in [Nodes \X Nodes -> Seq(Payloads)]
  BY <1>1, <1>9 DEF TypeOK
<1>11. /\ counted'[<<n, m>>] = Append(counted[<<n, m>>], x)
       /\ \A l \in Nodes \X Nodes : l # <<n, m>> => counted'[l] = counted[l]
  BY <1>9 DEF TypeOK
<1>12. /\ Len(counted'[<<n, m>>]) = Len(counted[<<n, m>>]) + 1
       /\ \A c \in 1 .. Len(counted[<<n, m>>]) : counted'[<<n, m>>][c] = counted[<<n, m>>][c]
       /\ counted'[<<n, m>>][Len(counted'[<<n, m>>])] = x
  BY <1>1, <1>11
<1>13. Len(counted'[<<n, m>>]) <= LastCounter
  BY <1>1, <1>9, <1>12, PeerAssumption DEF LastCounter
<1>14. /\ \A q \in Nodes : RxOf(u, q) = RxOf(t, q)
       /\ \A q \in Nodes \ {m} : TxOf(u, q) = TxOf(t, q)
       /\ TxOf(u, m) = TxOf(t, m) + 1
  BY <1>4, <1>5, <1>6
<1>15. QED
  BY <1>3, <1>7, <1>8, <1>10, <1>11, <1>12, <1>13, <1>14 DEF t

\* Counting a packet, whether or not it then goes out, keeps the invariant.
LEMMA CountInv ==
  ASSUME IInv, NEW n \in Nodes, NEW m \in Nodes, NEW x \in Payloads, Count(n, m, x),
         \/ UNCHANGED air
         \/ \E k \in Keys : air' = air \cup {Packet(n, m, TxOf(peers'[n], m), k, x)}
  PROVE  IInv'
<1> USE DEF IInv
<1> DEFINE L == Len(counted[<<n, m>>])
           old == counted[<<n, m>>]
           new == counted'[<<n, m>>]
<1>1. /\ peers' \in [Nodes -> TableType]
      /\ counted' \in [Nodes \X Nodes -> Seq(Payloads)]
      /\ \A q \in Nodes \ {n} : peers'[q] = peers[q]
      /\ \A q \in Nodes : RxOf(peers'[n], q) = RxOf(peers[n], q)
      /\ \A q \in Nodes \ {m} : TxOf(peers'[n], q) = TxOf(peers[n], q)
      /\ TxOf(peers'[n], m) = TxOf(peers[n], m) + 1
  BY CountStep
<1>2. /\ \A l \in Nodes \X Nodes : l # <<n, m>> => counted'[l] = counted[l]
      /\ Len(new) = L + 1 /\ Len(new) <= LastCounter
      /\ \A c \in 1 .. L : new[c] = old[c]
      /\ new[Len(new)] = x
  BY CountStep
<1>3. accepted' = accepted
  BY DEF Count
<1>4. L \in Nat /\ TxOf(peers[n], m) \in Nat /\ TxOf(peers[n], m) <= L /\ LastCounter \in Nat
  BY CountersOf, PeerAssumption DEF TypeOK, TxInv, Counters, LastCounter
<1>5. n \in Lasting => TxOf(peers'[n], m) = L + 1
  BY <1>1 DEF TxInv
<1> HIDE DEF L, old, new
<1>6. TxOf(peers'[n], m) \in 1 .. LastCounter
  <2>1. TxOf(peers'[n], m) = TxOf(peers[n], m) + 1
    BY <1>1
  <2>2. L + 1 <= LastCounter
    BY <1>2
  <2>3. QED
    BY <1>4, <2>1, <2>2
<1>7. \A p \in air' : p \in air \/ \E k \in Keys : p = Packet(n, m, TxOf(peers'[n], m), k, x)
  OBVIOUS
<1>8. TypeOK'
  <2>1. TxOf(peers'[n], m) \in Counters
    BY <1>1, CountersOf
  <2>2. ASSUME NEW p \in air'
        PROVE  p \in [from : Nodes, to : Nodes, counter : Counters, key : Keys, payload : Payloads]
    BY <1>7, <2>1 DEF TypeOK, Packet
  <2>3. QED
    BY <1>1, <1>3, <2>2 DEF TypeOK
<1>9. TxInv'
  <2> SUFFICES ASSUME NEW q \in Nodes, NEW r \in Nodes
               PROVE  /\ Len(counted'[<<q, r>>]) <= LastCounter
                      /\ TxOf(peers'[q], r) <= Len(counted'[<<q, r>>])
                      /\ q \in Lasting => TxOf(peers'[q], r) = Len(counted'[<<q, r>>])
    BY DEF TxInv, Lasting
  <2>1. CASE q = n /\ r = m
    BY <1>1, <1>2, <1>4, <1>5, <2>1 DEF new
  <2>2. CASE ~ (q = n /\ r = m)
    <3>1. counted'[<<q, r>>] = counted[<<q, r>>]
      BY <1>2, <2>2
    <3>2. TxOf(peers'[q], r) = TxOf(peers[q], r)
      BY <1>1, <2>2
    <3>3. QED
      BY <3>1, <3>2 DEF TxInv
  <2>3. QED
    BY <2>1, <2>2
<1>10. AirInv'
  <2> SUFFICES ASSUME NEW p \in air'
               PROVE  /\ p.counter \in 1 .. LastCounter
                      /\ p.from \in Lasting =>
                           /\ p.counter <= Len(counted'[<<p.from, p.to>>])
                           /\ counted'[<<p.from, p.to>>][p.counter] = p.payload
    BY DEF AirInv, Lasting
  <2>1. CASE p \in air
    <3>1. /\ p.counter \in 1 .. LastCounter
          /\ p.from \in Nodes /\ p.to \in Nodes
          /\ p.from \in Lasting =>
               /\ p.counter <= Len(counted[<<p.from, p.to>>])
               /\ counted[<<p.from, p.to>>][p.counter] = p.payload
      BY <2>1 DEF AirInv, TypeOK
    <3>2. CASE <<p.from, p.to>> = <<n, m>>
      <4>1. p.counter \in Nat /\ p.counter >= 1
        BY <3>1, <1>4
      <4>2. p.from \in Lasting => p.counter \in 1 .. L /\ old[p.counter] = p.payload
        BY <1>4, <3>1, <3>2, <4>1 DEF L, old
      <4>3. p.from \in Lasting => p.counter <= Len(new) /\ new[p.counter] = p.payload
        BY <1>2, <1>4, <4>2
      <4>4. QED
        BY <3>1, <3>2, <4>3 DEF new
    <3>3. CASE <<p.from, p.to>> # <<n, m>>
      BY <1>2, <3>1, <3>3
    <3>4. QED
      BY <3>2, <3>3
  <2>2. CASE \E k \in Keys : p = Packet(n, m, TxOf(peers'[n], m), k, x)
    <3>1. p.from = n /\ p.to = m /\ p.counter = TxOf(peers'[n], m) /\ p.payload = x
      BY <2>2 DEF Packet
    <3>2. n \in Lasting => p.counter = Len(new)
      BY <1>2, <1>5, <3>1
    <3>3. QED
      BY <1>2, <1>4, <1>6, <3>1, <3>2 DEF new
  <2>3. QED
    BY <1>7, <2>1, <2>2
<1>11. RxInv'
  <2>1. \A q \in Nodes : \A r \in Nodes : RxOf(peers'[r], q) = RxOf(peers[r], q)
    BY <1>1
  <2>2. QED
    BY <1>3, <2>1 DEF RxInv, Lasting
<1>12. CountersTakenOnce'
  BY <1>3, StillTaken
<1>13. QED
  BY <1>8, <1>9, <1>10, <1>11, <1>12
-----------------------------------------------------------------------------
(* A packet is received.                                                   *)

\* What a table is after a packet: nobody loses a slot, and only the rx counter of the
\* sender may change, to a value that is one more.
LEMMA ReceiveStep ==
  ASSUME IInv, NEW p \in air, ReceiveVerified(p)
  PROVE  /\ p.from \in Nodes /\ p.to \in Nodes
         /\ peers' \in [Nodes -> TableType]
         /\ \A q \in Nodes \ {p.to} : peers'[q] = peers[q]
         /\ \A q \in Nodes : TxOf(peers'[p.to], q) = TxOf(peers[p.to], q)
         /\ \A q \in Nodes \ {p.from} : RxOf(peers'[p.to], q) = RxOf(peers[p.to], q)
         /\ \A i \in PeerSlots : peers[p.to].mac[i] # NoNode =>
              /\ peers'[p.to].mac[i] = peers[p.to].mac[i]
              /\ peers'[p.to].tx[i] >= peers[p.to].tx[i]
              /\ peers'[p.to].rx[i] >= peers[p.to].rx[i]
         /\ \/ /\ RxOf(peers'[p.to], p.from) = RxOf(peers[p.to], p.from)
               /\ accepted' = accepted
            \/ /\ p.counter = RxOf(peers[p.to], p.from) + 1
               /\ RxOf(peers'[p.to], p.from) = p.counter
               /\ accepted' = [accepted EXCEPT ![<<p.from, p.to>>] =
                                 Append(accepted[<<p.from, p.to>>], p.payload)]
<1> DEFINE n == p.from
           m == p.to
           t == peers[m]
           w == WithPeer(t, n)
           u == StoreRx(w, n, p.counter)
<1>1. n \in Nodes /\ m \in Nodes /\ p.counter \in Counters /\ t \in TableType
  BY DEF IInv, TypeOK
<1>2. /\ w \in TableType
      /\ \A i \in PeerSlots : t.mac[i] # NoNode =>
           w.mac[i] = t.mac[i] /\ w.tx[i] = t.tx[i] /\ w.rx[i] = t.rx[i]
      /\ \A q \in Nodes : TxOf(w, q) = TxOf(t, q) /\ RxOf(w, q) = RxOf(t, q)
  BY <1>1, WithPeerKeeps
<1>3. \A i \in PeerSlots : t.tx[i] \in Nat /\ t.rx[i] \in Nat
  BY <1>1 DEF TableType, Counters
<1>4. CASE peers' = [peers EXCEPT ![m] = w] /\ accepted' = accepted
  <2>1. peers'[m] = w /\ \A q \in Nodes \ {m} : peers'[q] = peers[q]
    BY <1>1, <1>4 DEF IInv, TypeOK
  <2>2. peers' \in [Nodes -> TableType]
    BY <1>2, <1>4 DEF IInv, TypeOK
  <2> HIDE DEF w
  <2>3. \A i \in PeerSlots : t.mac[i] # NoNode =>
          w.mac[i] = t.mac[i] /\ w.tx[i] >= t.tx[i] /\ w.rx[i] >= t.rx[i]
    BY <1>2, <1>3
  <2>4. QED
    BY <1>1, <1>2, <1>4, <2>1, <2>2, <2>3
<1>5. CASE /\ peers' = [peers EXCEPT ![m] = u]
           /\ accepted' = [accepted EXCEPT ![<<n, m>>] = Append(accepted[<<n, m>>], p.payload)]
           /\ SlotFor(t, n) # NoSlot
           /\ CounterValid(w, n, p.counter)
  <2>1. peers'[m] = u /\ \A q \in Nodes \ {m} : peers'[q] = peers[q]
    BY <1>1, <1>5 DEF IInv, TypeOK
  <2>2. FindPeer(w, n) # NoSlot
    BY <1>1, <1>5, WithPeerTable
  <2>3. /\ u \in TableType
        /\ u.mac = w.mac /\ u.tx = w.tx
        /\ \A i \in PeerSlots : u.rx[i] = IF i = FindPeer(w, n) THEN p.counter ELSE w.rx[i]
        /\ RxOf(u, n) = p.counter
        /\ \A q \in Nodes \ {n} : RxOf(u, q) = RxOf(w, q)
        /\ \A q \in Nodes : TxOf(u, q) = TxOf(w, q)
    BY <1>1, <1>2, <2>2, StoreRxTable
  <2>4. p.counter = RxOf(w, n) + 1
    <3>1. p.counter = Bump(RxOf(w, n))
      BY <1>5 DEF CounterValid
    <3>2. p.counter # 0
      <4>1. p.counter \in 1 .. LastCounter
        BY DEF IInv, AirInv
      <4>2. QED
        BY <4>1
    <3>3. RxOf(w, n) \in Counters
      BY <1>2, CountersOf
    <3>4. QED
      BY <3>1, <3>2, <3>3, BumpUp
  <2>5. peers' \in [Nodes -> TableType]
    BY <1>5, <2>3 DEF IInv, TypeOK
  <2>6. RxOf(w, n) = IF FindPeer(w, n) = NoSlot THEN 0 ELSE w.rx[FindPeer(w, n)]
    BY DEF RxOf
  <2> HIDE DEF w, u
  <2>7. \A i \in PeerSlots : t.mac[i] # NoNode =>
          u.mac[i] = t.mac[i] /\ u.tx[i] >= t.tx[i] /\ u.rx[i] >= t.rx[i]
    <3> TAKE i \in PeerSlots
    <3> HAVE t.mac[i] # NoNode
    <3>1. w.mac[i] = t.mac[i] /\ w.tx[i] = t.tx[i] /\ w.rx[i] = t.rx[i]
      BY <1>2
    <3>2. t.tx[i] \in Nat /\ t.rx[i] \in Nat
      BY <1>3
    <3>3. u.mac[i] = t.mac[i] /\ u.tx[i] = t.tx[i]
      BY <2>3, <3>1
    <3>4. CASE i = FindPeer(w, n)
      <4>1. u.rx[i] = w.rx[i] + 1
        BY <2>2, <2>3, <2>4, <2>6, <3>4
      <4>2. QED
        BY <3>1, <3>2, <3>3, <4>1
    <3>5. CASE i # FindPeer(w, n)
      BY <2>3, <3>1, <3>2, <3>3, <3>5
    <3>6. QED
      BY <3>4, <3>5
  <2>8. QED
    BY <1>1, <1>2, <1>5, <2>1, <2>3, <2>4, <2>5, <2>7
<1>6. QED
  BY <1>4, <1>5 DEF ReceiveVerified

LEMMA ReceiveInv ==
  ASSUME IInv, NEW p \in air, ReceiveVerified(p)
  PROVE  IInv'
<1> USE DEF IInv
<1> DEFINE n == p.from
           m == p.to
<1>1. /\ n \in Nodes /\ m \in Nodes /\ p.payload \in Payloads
      /\ counted' = counted /\ air' = air
  BY DEF TypeOK, ReceiveVerified
<1>2. /\ peers' \in [Nodes -> TableType]
      /\ \A q \in Nodes \ {m} : peers'[q] = peers[q]
      /\ \A q \in Nodes : TxOf(peers'[m], q) = TxOf(peers[m], q)
      /\ \A q \in Nodes \ {n} : RxOf(peers'[m], q) = RxOf(peers[m], q)
  BY ReceiveStep
<1>3. TxInv' /\ AirInv'
  <2>1. \A q, r \in Nodes : TxOf(peers'[q], r) = TxOf(peers[q], r)
    BY <1>2
  <2>2. QED
    BY <1>1, <2>1 DEF TxInv, AirInv, Lasting
<1>4. CASE RxOf(peers'[m], n) = RxOf(peers[m], n) /\ accepted' = accepted
  <2>1. \A q, r \in Nodes : RxOf(peers'[r], q) = RxOf(peers[r], q)
    BY <1>2, <1>4
  <2>2. RxInv'
    BY <1>4, <2>1 DEF RxInv, Lasting
  <2>3. TypeOK'
    BY <1>1, <1>2, <1>4 DEF TypeOK
  <2>4. CountersTakenOnce'
    BY <1>1, <1>4, StillTaken
  <2>5. QED
    BY <1>3, <2>2, <2>3, <2>4
<1>5. CASE /\ p.counter = RxOf(peers[m], n) + 1
           /\ RxOf(peers'[m], n) = p.counter
           /\ accepted' = [accepted EXCEPT ![<<n, m>>] = Append(accepted[<<n, m>>], p.payload)]
  <2> DEFINE old == accepted[<<n, m>>]
             new == accepted'[<<n, m>>]
             L == Len(old)
  <2>1. old \in Seq(Payloads)
    BY <1>1 DEF TypeOK
  <2>2. /\ new = Append(old, p.payload)
        /\ \A l \in Nodes \X Nodes : l # <<n, m>> => accepted'[l] = accepted[l]
    BY <1>1, <1>5 DEF TypeOK
  <2>3. TypeOK'
    <3>1. accepted' \in [Nodes \X Nodes -> Seq(Payloads)]
      BY <1>1, <1>5, <2>1 DEF TypeOK
    <3>2. QED
      BY <1>1, <1>2, <3>1 DEF TypeOK
  <2>4. /\ L \in Nat /\ Len(new) = L + 1 /\ new[L + 1] = p.payload
        /\ \A i \in 1 .. L : new[i] = old[i]
    BY <1>1, <2>1, <2>2
  <2> HIDE DEF old, new, L
  <2>5. m \in Lasting => p.counter = L + 1
    BY <1>1, <1>5 DEF RxInv, old, L
  <2>6. RxInv'
    <3> SUFFICES ASSUME NEW q \in Nodes, NEW r \in Lasting
                 PROVE  RxOf(peers'[r], q) = Len(accepted'[<<q, r>>])
      BY DEF RxInv, Lasting
    <3> r \in Nodes
      BY DEF Lasting
    <3>1. CASE <<q, r>> = <<n, m>>
      <4>1. q = n /\ r = m
        BY <3>1
      <4>2. RxOf(peers'[m], n) = L + 1 /\ Len(new) = L + 1
        BY <1>5, <2>4, <2>5, <4>1
      <4>3. QED
        BY <4>1, <4>2 DEF new
    <3>2. CASE <<q, r>> # <<n, m>>
      <4>1. RxOf(peers'[r], q) = RxOf(peers[r], q)
        BY <1>2, <3>2
      <4>2. QED
        BY <2>2, <3>2, <4>1 DEF RxInv
    <3>3. QED
      BY <3>1, <3>2
  <2>7. CountersTakenOnce'
    <3> DEFINE Came(x, q, r, c) ==
                 x.from = q /\ x.to = r /\ x.counter = c /\ x.payload = accepted'[<<q, r>>][c]
    <3>1. ASSUME NEW q \in Nodes, NEW r \in Lasting \cap HmacEnabled,
                 NEW c \in 1 .. Len(accepted'[<<q, r>>])
          PROVE  \E x \in air' : Came(x, q, r, c)
      <4> r \in Nodes /\ air' = air
        BY <1>1 DEF Lasting
      <4>1. CASE <<q, r>> = <<n, m>>
        <5>1. CASE c \in 1 .. L
          <6>1. \E x \in air : x.from = q /\ x.to = r /\ x.counter = c /\ x.payload = old[c]
            BY <4>1, <5>1 DEF CountersTakenOnce, L, old
          <6>2. accepted'[<<q, r>>][c] = old[c]
            BY <2>4, <4>1, <5>1 DEF new
          <6>3. QED
            BY <6>1, <6>2
        <5>2. CASE c = L + 1
          <6>1. Came(p, q, r, c)
            BY <2>4, <2>5, <4>1, <5>2 DEF new
          <6>2. QED
            BY <6>1
        <5>3. QED
          BY <2>4, <4>1, <5>1, <5>2 DEF new
      <4>2. CASE <<q, r>> # <<n, m>>
        BY <2>2, <4>2 DEF CountersTakenOnce
      <4>3. QED
        BY <4>1, <4>2
    <3>2. QED
      BY <3>1, Zenon DEF CountersTakenOnce, Lasting
  <2>8. QED
    BY <1>3, <2>3, <2>6, <2>7
<1>6. QED
  BY <1>4, <1>5, ReceiveStep

-----------------------------------------------------------------------------
(* A node restarts.                                                        *)

LEMMA RebootInv ==
  ASSUME IInv, NEW n \in Nodes, Reboot(n)
  PROVE  IInv'
<1> USE DEF IInv
<1>1. /\ n \notin Lasting
      /\ air' = air /\ counted' = counted /\ accepted' = accepted
  BY DEF Reboot, Lasting
<1>2. /\ peers' \in [Nodes -> TableType]
      /\ \A q \in Nodes \ {n} : peers'[q] = peers[q]
      /\ \A q : TxOf(peers'[n], q) = 0
  <2>1. /\ ConfiguredTable(Configured[n]) \in TableType
        /\ \A q : TxOf(ConfiguredTable(Configured[n]), q) = 0
    BY LinkAssumption, ConfiguredTableType
  <2>2. QED
    BY <2>1 DEF Reboot, TypeOK
<1>3. TypeOK'
  BY <1>1, <1>2 DEF TypeOK
<1>4. TxInv'
  <2> SUFFICES ASSUME NEW q \in Nodes, NEW r \in Nodes
               PROVE  /\ Len(counted[<<q, r>>]) <= LastCounter
                      /\ TxOf(peers'[q], r) <= Len(counted[<<q, r>>])
                      /\ q \in Lasting => TxOf(peers'[q], r) = Len(counted[<<q, r>>])
    BY <1>1 DEF TxInv, Lasting
  <2>1. CASE q = n
    <3>1. counted[<<q, r>>] \in Seq(Payloads)
      BY DEF TypeOK
    <3>2. Len(counted[<<q, r>>]) \in Nat
      BY <3>1
    <3>3. Len(counted[<<q, r>>]) <= LastCounter
      BY DEF TxInv
    <3>4. TxOf(peers'[q], r) = 0
      BY <1>2, <2>1
    <3>5. QED
      BY <1>1, <2>1, <3>2, <3>3, <3>4
  <2>2. CASE q # n
    BY <1>2, <2>2 DEF TxInv
  <2>3. QED
    BY <2>1, <2>2
<1>5. AirInv' /\ CountersTakenOnce'
  BY <1>1, StillTaken DEF AirInv, Lasting
<1>6. RxInv'
  <2>1. \A q \in Nodes, r \in Lasting : RxOf(peers'[r], q) = RxOf(peers[r], q)
    BY <1>1, <1>2 DEF Lasting
  <2>2. QED
    BY <1>1, <2>1 DEF RxInv, Lasting
<1>7. QED
  BY <1>3, <1>4, <1>5, <1>6
-----------------------------------------------------------------------------
(* The theorems.                                                           *)

\* Every step of a node or of the radio keeps the invariant.
LEMMA LinkStep == IInv /\ [Next]_vars => IInv'
<1> SUFFICES ASSUME IInv, [Next]_vars PROVE IInv'
  OBVIOUS
<1>1. CASE UNCHANGED vars
  <2>1. peers' = peers /\ air' = air /\ counted' = counted /\ accepted' = accepted
    BY <1>1 DEF vars
  <2>2. TypeOK' /\ TxInv' /\ AirInv'
    BY <2>1 DEF IInv, TypeOK, TxInv, AirInv, Lasting
  <2>3. RxInv' /\ CountersTakenOnce'
    BY <2>1, StillTaken DEF IInv, RxInv, Lasting
  <2>4. QED
    BY <2>2, <2>3 DEF IInv
<1>2. ASSUME NEW n \in Nodes, NEW m \in Nodes, SendNoSlot(n, m)
      PROVE  IInv'
  BY <1>1, <1>2 DEF SendNoSlot
<1>3. ASSUME NEW n \in Nodes, NEW m \in Nodes, NEW x \in Payloads,
             SendWithoutKey(n, m, x) \/ SendRefused(n, m, x)
      PROVE  IInv'
  BY <1>3, CountInv DEF SendWithoutKey, SendRefused
<1>4. ASSUME NEW n \in Nodes, NEW m \in Nodes, NEW x \in Payloads, SendGoes(n, m, x)
      PROVE  IInv'
  <2>1. KeyFor(n, m) \in Keys
    <3>1. peers[n] \in TableType
      BY DEF IInv, TypeOK
    <3>2. WithPeer(peers[n], m) \in TableType
      BY <3>1, WithPeerKeeps
    <3>3. GlobalKey[n] \in Keys \cup {NoKey}
      BY LinkAssumption
    <3>4. KeyFor(n, m) \in Keys \cup {NoKey}
      BY <3>2, <3>3, FindPeerFinds DEF KeyFor, ResolveKey, TableType
    <3>5. QED
      BY <1>4, <3>4 DEF SendGoes
  <2>2. QED
    BY <1>4, <2>1, CountInv DEF SendGoes
<1>5. ASSUME NEW p \in air, ReceiveVerified(p)
      PROVE  IInv'
  BY <1>5, ReceiveInv
<1>6. ASSUME NEW p \in air, ReceiveUnverified(p)
      PROVE  IInv'
  BY <1>1, <1>6 DEF ReceiveUnverified
<1>7. ASSUME NEW n \in Nodes, Reboot(n)
      PROVE  IInv'
  BY <1>7, RebootInv
<1>8. QED
  BY <1>1, <1>2, <1>3, <1>4, <1>5, <1>6, <1>7 DEF Next

LEMMA Invariance == Spec => []IInv
<1>1. QED
  BY InitInv, LinkStep, PTL DEF Spec

\* The tables, packets and histories are well typed: no packet leaves without a key.
THEOREM TypeTheorem == Spec => []TypeOK
<1>1. IInv => TypeOK
  BY DEF IInv
<1>2. QED
  BY <1>1, Invariance, PTL

\* A verifying node takes each counter of a peer once and in order, whether or not the
\* peer restarts and counts from 1 again.
THEOREM OnceTheorem == Spec => []CountersTakenOnce
<1>1. IInv => CountersTakenOnce
  BY DEF IInv
<1>2. QED
  BY <1>1, Invariance, PTL

\* However packets are lost, repeated and reordered, a node that verifies accepts what
\* its peer counted, in order and each once.
THEOREM PrefixTheorem == Spec => []AcceptedIsPrefix
<1>1. IInv => AcceptedIsPrefix
  <2> SUFFICES ASSUME IInv, NEW n \in Lasting, NEW m \in Lasting \cap HmacEnabled
               PROVE  /\ Len(accepted[<<n, m>>]) <= Len(counted[<<n, m>>])
                      /\ \A i \in 1 .. Len(accepted[<<n, m>>]) :
                           accepted[<<n, m>>][i] = counted[<<n, m>>][i]
    BY DEF AcceptedIsPrefix
  <2>1. n \in Nodes /\ m \in Nodes
    BY DEF Lasting
  <2>2. ASSUME NEW i \in 1 .. Len(accepted[<<n, m>>])
        PROVE  /\ i <= Len(counted[<<n, m>>])
               /\ accepted[<<n, m>>][i] = counted[<<n, m>>][i]
    <3>1. PICK p \in air : /\ p.from = n /\ p.to = m
                           /\ p.counter = i /\ p.payload = accepted[<<n, m>>][i]
      BY <2>1 DEF IInv, CountersTakenOnce
    <3>2. QED
      BY <3>1 DEF IInv, AirInv
  <2>3. Len(counted[<<n, m>>]) \in Nat /\ Len(accepted[<<n, m>>]) \in Nat
    BY <2>1 DEF IInv, TypeOK
  <2>4. Len(accepted[<<n, m>>]) <= Len(counted[<<n, m>>])
    BY <2>2, <2>3
  <2>5. QED
    BY <2>2, <2>4
<1>2. QED
  BY <1>1, Invariance, PTL

\* Nothing that was counted after a packet that never left is ever accepted.
THEOREM GapTheorem == Spec => []NothingPastAGap
<1>1. IInv => NothingPastAGap
  <2> SUFFICES ASSUME IInv,
                      NEW n \in Lasting, NEW m \in Lasting \cap HmacEnabled,
                      NEW c \in 1 .. Len(counted[<<n, m>>]),
                      \A p \in air : p.from = n /\ p.to = m => p.counter # c
               PROVE  Len(accepted[<<n, m>>]) < c
    BY DEF NothingPastAGap
  <2>1. n \in Nodes /\ m \in Nodes
    BY DEF Lasting
  <2>2. counted[<<n, m>>] \in Seq(Payloads) /\ accepted[<<n, m>>] \in Seq(Payloads)
    BY <2>1 DEF IInv, TypeOK
  <2>3. Len(counted[<<n, m>>]) \in Nat /\ Len(accepted[<<n, m>>]) \in Nat
    BY <2>2
  <2>4. c \notin 1 .. Len(accepted[<<n, m>>])
    BY <2>1 DEF IInv, CountersTakenOnce
  <2>5. QED
    BY <2>3, <2>4
<1>2. QED
  BY <1>1, Invariance, PTL

\* No step takes a slot from a peer, or sets one of its counters back, at a node that
\* does not restart.
LEMMA KeptStep ==
  IInv /\ [Next]_vars =>
    \A n \in Lasting : \A i \in PeerSlots : peers[n].mac[i] # NoNode =>
      /\ peers'[n].mac[i] = peers[n].mac[i]
      /\ peers'[n].tx[i] >= peers[n].tx[i]
      /\ peers'[n].rx[i] >= peers[n].rx[i]
<1> SUFFICES ASSUME IInv, [Next]_vars,
                    NEW n \in Lasting, NEW i \in PeerSlots, peers[n].mac[i] # NoNode
             PROVE  /\ peers'[n].mac[i] = peers[n].mac[i]
                    /\ peers'[n].tx[i] >= peers[n].tx[i]
                    /\ peers'[n].rx[i] >= peers[n].rx[i]
  OBVIOUS
<1>1. n \in Nodes /\ peers[n].tx[i] \in Nat /\ peers[n].rx[i] \in Nat
  BY DEF IInv, TypeOK, TableType, Counters, Lasting
<1> DEFINE Kept == /\ peers'[n].mac[i] = peers[n].mac[i]
                   /\ peers'[n].tx[i] >= peers[n].tx[i]
                   /\ peers'[n].rx[i] >= peers[n].rx[i]
<1>2. ASSUME peers'[n] = peers[n]
      PROVE  Kept
  BY <1>1, <1>2
<1>3. ASSUME NEW q \in Nodes, NEW m \in Nodes, NEW x \in Payloads, Count(q, m, x)
      PROVE  Kept
  BY <1>1, <1>2, <1>3, CountStep DEF IInv
<1>4. ASSUME NEW p \in air, ReceiveVerified(p)
      PROVE  Kept
  BY <1>1, <1>2, <1>4, ReceiveStep
<1>5. ASSUME NEW q \in Nodes, Reboot(q)
      PROVE  Kept
  BY <1>1, <1>2, <1>5 DEF Reboot, Lasting, IInv, TypeOK
<1>6. ASSUME UNCHANGED vars
      PROVE  Kept
  BY <1>2, <1>6 DEF vars
<1>7. ASSUME NEW q \in Nodes, NEW m \in Nodes, NEW x \in Payloads,
             SendWithoutKey(q, m, x) \/ SendRefused(q, m, x) \/ SendGoes(q, m, x)
      PROVE  Kept
  BY <1>3, <1>7 DEF SendWithoutKey, SendRefused, SendGoes
<1>8. ASSUME NEW q \in Nodes, NEW m \in Nodes, SendNoSlot(q, m)
      PROVE  Kept
  BY <1>6, <1>8 DEF SendNoSlot
<1>9. ASSUME NEW p \in air, ReceiveUnverified(p)
      PROVE  Kept
  BY <1>6, <1>9 DEF ReceiveUnverified
<1> HIDE DEF Kept
<1>10. Kept
  BY <1>3, <1>4, <1>5, <1>6, <1>7, <1>8, <1>9 DEF Next
<1>11. QED
  BY <1>10 DEF Kept

\* A full table of peers evicts nobody, however many nodes are heard or written to.
THEOREM KeptTheorem == Spec => PeersKept
<1>1. QED
  BY Invariance, KeptStep, PTL DEF Spec, PeersKept
=============================================================================
