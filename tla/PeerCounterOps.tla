--------------------------- MODULE PeerCounterOps ---------------------------
(***************************************************************************)
(* The table of PeerCounterManager: one slot per peer with the counter of  *)
(* the last packet sent to it, the counter of the last packet accepted     *)
(* from it, and its key.  Slots are handed out on first use by whichever   *)
(* call meets the peer first, and are never given back.                    *)
(***************************************************************************)
EXTENDS Integers, Sequences

CONSTANTS
  Nodes,            \* MAC addresses
  Keys,             \* Local Master Keys
  MaxPeers,         \* MAX_PEERS
  CounterModulus,   \* 2^32
  NoNode, NoKey

ASSUME PeerAssumption ==
  /\ MaxPeers \in Nat \ {0}
  /\ CounterModulus \in Nat \ {0, 1}
  /\ NoNode \notin Nodes
  /\ NoKey \notin Keys

NoSlot == -1
PeerSlots == 0 .. MaxPeers - 1
Counters  == 0 .. CounterModulus - 1

\* A slot is active when it has an address.
TableType ==
  [ mac : [PeerSlots -> Nodes \cup {NoNode}], tx : [PeerSlots -> Counters],
    rx : [PeerSlots -> Counters], key : [PeerSlots -> Keys \cup {NoKey}] ]

\* The table after setPeerLMK was called for the configured peers in turn, each of
\* them named once.  There is a slot for every peer a configuration can name.
ConfiguredTable(config) ==
  [ mac |-> [i \in PeerSlots |-> IF i < Len(config) THEN config[i + 1].mac ELSE NoNode],
    tx |-> [i \in PeerSlots |-> 0], rx |-> [i \in PeerSlots |-> 0],
    key |-> [i \in PeerSlots |-> IF i < Len(config) THEN config[i + 1].key ELSE NoKey] ]

\* The lowest of a set of slots.
Lowest(S) == IF S = {} THEN NoSlot ELSE CHOOSE i \in S : \A j \in S : i <= j

FindPeer(t, m) == Lowest({i \in PeerSlots : t.mac[i] = m})

\* Faulty: a full table gives its first slot to the newcomer.
EvictingSlotFor(t, m) ==
  IF FindPeer(t, m) # NoSlot THEN FindPeer(t, m)
  ELSE IF FindPeer(t, NoNode) # NoSlot THEN FindPeer(t, NoNode) ELSE 0

\* The slot that a call about m uses: its own, or else the first free one.
SlotFor(t, m) == IF FindPeer(t, m) # NoSlot THEN FindPeer(t, m) ELSE FindPeer(t, NoNode)

\* The table once m has that slot.
WithPeer(t, m) ==
  LET i == SlotFor(t, m)
  IN  IF i = NoSlot \/ FindPeer(t, m) # NoSlot THEN t
      ELSE [ mac |-> [t.mac EXCEPT ![i] = m], tx |-> [t.tx EXCEPT ![i] = 0],
             rx |-> [t.rx EXCEPT ![i] = 0], key |-> [t.key EXCEPT ![i] = NoKey] ]

\* The peer's own key, or else the node's global one.
ResolveKey(t, global, m) ==
  LET i == FindPeer(t, m)
  IN  IF i # NoSlot /\ t.key[i] # NoKey THEN t.key[i] ELSE global

Bump(c) == (c + 1) % CounterModulus

TxOf(t, m) == IF FindPeer(t, m) = NoSlot THEN 0 ELSE t.tx[FindPeer(t, m)]
RxOf(t, m) == IF FindPeer(t, m) = NoSlot THEN 0 ELSE t.rx[FindPeer(t, m)]

\* incrementTxCounter, once m has a slot.
IncrementTx(t, m) == [t EXCEPT !.tx[FindPeer(t, m)] = Bump(TxOf(t, m))]

\* Faulty: any counter beyond the last one accepted is good.
CounterNewer(t, m, c) == c > RxOf(t, m)

\* validateRxCounter: only the very next counter is good.
CounterValid(t, m, c) == c = Bump(RxOf(t, m))

\* Faulty: the counter accepted is not remembered.
ForgetRx(t, m, c) == t

StoreRx(t, m, c) == [t EXCEPT !.rx[FindPeer(t, m)] = c]
=============================================================================
