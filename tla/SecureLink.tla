----------------------------- MODULE SecureLink -----------------------------
(***************************************************************************)
(* Packets between nodes, as ESP_NOWController builds, sends and verifies  *)
(* them with the counters and keys of PeerCounterOps.  The sender counts   *)
(* a packet before it knows whether it can be authenticated, its peer      *)
(* registered, or the radio take it.  The radio loses, delays, reorders    *)
(* and repeats packets: a packet once sent may arrive at any later time,   *)
(* any number of times, or never.                                          *)
(*                                                                         *)
(* The authentication code is modelled by the key it was computed with;    *)
(* all packets are well formed, and made by the nodes.                     *)
(***************************************************************************)
EXTENDS PeerCounterOps

CONSTANTS
  Payloads,
  Links,         \* <<n, m>>: n has something to send to m
  HmacEnabled,   \* the nodes with icsn_security.hmac_enabled
  GlobalKey,     \* the default key of each node, or NoKey; read only if hmac_enabled
  Configured,    \* the peers and peer keys of each node, in order
  MayReboot,     \* the nodes that may restart
  MaxSends       \* bound: packets counted on each link, below the modulus

ASSUME LinkAssumption ==
  /\ Links \subseteq Nodes \X Nodes
  /\ HmacEnabled \subseteq Nodes /\ MayReboot \subseteq Nodes
  /\ GlobalKey \in [Nodes -> Keys \cup {NoKey}]
  /\ \A n \in Nodes : GlobalKey[n] # NoKey => n \in HmacEnabled
  /\ Configured \in [Nodes -> Seq([mac : Nodes, key : Keys])]
  /\ \A n \in Nodes : /\ Len(Configured[n]) <= MaxPeers
                      /\ \A i, j \in 1 .. Len(Configured[n]) :
                           Configured[n][i].mac = Configured[n][j].mac => i = j
  /\ MaxSends \in [Links -> Counters]

VARIABLES
  peers,      \* the peer table of each node
  air,        \* the packets that were ever given to the radio
  counted,    \* the payloads n counted for m, in order, whether or not they left
  accepted    \* the payloads m verified and accepted from n, in order

vars == <<peers, air, counted, accepted>>

Init ==
  /\ peers = [n \in Nodes |-> ConfiguredTable(Configured[n])]
  /\ air = {}
  /\ counted = [l \in Nodes \X Nodes |-> <<>>]
  /\ accepted = [l \in Nodes \X Nodes |-> <<>>]

Packet(n, m, c, k, x) == [from |-> n, to |-> m, counter |-> c, key |-> k, payload |-> x]

\* buildPacketForAddress finds no slot for the peer: nothing is counted or sent.
SendNoSlot(n, m) ==
  /\ <<n, m>> \in Links
  /\ SlotFor(peers[n], m) = NoSlot
  /\ UNCHANGED vars

Count(n, m, x) ==
  /\ <<n, m>> \in Links
  /\ Len(counted[<<n, m>>]) < MaxSends[<<n, m>>]
  /\ SlotFor(peers[n], m) # NoSlot
  /\ peers' = [peers EXCEPT ![n] = IncrementTx(WithPeer(peers[n], m), m)]
  /\ counted' = [counted EXCEPT ![<<n, m>>] = Append(counted[<<n, m>>], x)]
  /\ UNCHANGED accepted

KeyFor(n, m) == ResolveKey(WithPeer(peers[n], m), GlobalKey[n], m)

\* No key is known for the peer: the packet is counted, and then dropped.
SendWithoutKey(n, m, x) ==
  /\ Count(n, m, x)
  /\ KeyFor(n, m) = NoKey
  /\ UNCHANGED air

\* The packet is counted and authenticated, and then its peer cannot be registered
\* or the radio refuses it.
SendRefused(n, m, x) ==
  /\ Count(n, m, x)
  /\ KeyFor(n, m) # NoKey
  /\ UNCHANGED air

\* Faulty: a packet for which there is no key is sent without a code.
SendUnkeyed(n, m, x) ==
  /\ Count(n, m, x)
  /\ air' = air \cup {Packet(n, m, TxOf(peers'[n], m), KeyFor(n, m), x)}

\* An authentication code is put on every packet, whatever hmac_enabled says.
SendGoes(n, m, x) ==
  /\ Count(n, m, x)
  /\ KeyFor(n, m) # NoKey
  /\ air' = air \cup {Packet(n, m, TxOf(peers'[n], m), KeyFor(n, m), x)}

\* A node that does not verify takes every packet, and its peer table is not touched.
ReceiveUnverified(p) ==
  /\ p.to \notin HmacEnabled
  /\ UNCHANGED vars

Authentic(p) == p.key = ResolveKey(WithPeer(peers[p.to], p.from), GlobalKey[p.to], p.from)

\* The sender gets a slot before the packet is looked at.
ReceiveVerified(p) ==
  LET t == WithPeer(peers[p.to], p.from)
  IN  /\ p.to \in HmacEnabled
      /\ IF SlotFor(peers[p.to], p.from) # NoSlot /\ Authentic(p)
            /\ CounterValid(t, p.from, p.counter)
         THEN /\ peers' = [peers EXCEPT ![p.to] = StoreRx(t, p.from, p.counter)]
              /\ accepted' = [accepted EXCEPT ![<<p.from, p.to>>] =
                                Append(accepted[<<p.from, p.to>>], p.payload)]
         ELSE /\ peers' = [peers EXCEPT ![p.to] = t]
              /\ UNCHANGED accepted
      /\ UNCHANGED <<air, counted>>

\* The counters live in RAM.
Reboot(n) ==
  /\ n \in MayReboot
  /\ peers' = [peers EXCEPT ![n] = ConfiguredTable(Configured[n])]
  /\ UNCHANGED <<air, counted, accepted>>

Next ==
  \/ \E n, m \in Nodes : SendNoSlot(n, m)
  \/ \E n, m \in Nodes, x \in Payloads : 
       SendWithoutKey(n, m, x) \/ SendRefused(n, m, x) \/ SendGoes(n, m, x)
  \/ \E p \in air : ReceiveVerified(p)
  \/ \E p \in air : ReceiveUnverified(p)
  \/ \E n \in Nodes : Reboot(n)

Spec == Init /\ [][Next]_vars

-----------------------------------------------------------------------------
(* Properties.                                                             *)

\* The peer tables are well formed, and every packet in the air carries a code made
\* with a key, and a counter of 32 bits.
TypeOK ==
  /\ peers \in [Nodes -> TableType]
  /\ air \subseteq [from : Nodes, to : Nodes, counter : Counters, key : Keys, payload : Payloads]
  /\ counted \in [Nodes \X Nodes -> Seq(Payloads)]
  /\ accepted \in [Nodes \X Nodes -> Seq(Payloads)]

\* The nodes that verify and never restarted, and their peers that never did.
Lasting == Nodes \ MayReboot

\* A verifying node takes the counters of a peer one after another, each once, also
\* when the peer restarts and counts from 1 again: the new packets that repeat a
\* counter already taken are lost on it, and what fits next may be of before or after.
CountersTakenOnce ==
  \A n \in Nodes, m \in Lasting \cap HmacEnabled : \A i \in 1 .. Len(accepted[<<n, m>>]) :
    \E p \in air : p.from = n /\ p.to = m /\ p.counter = i /\ p.payload = accepted[<<n, m>>][i]

\* What a verifying node has accepted from a peer is what the peer counted for it,
\* in that order, from the first on, and each once, whatever the radio repeats or
\* reorders.
AcceptedIsPrefix ==
  \A n \in Lasting, m \in Lasting \cap HmacEnabled :
    /\ Len(accepted[<<n, m>>]) <= Len(counted[<<n, m>>])
    /\ \A i \in 1 .. Len(accepted[<<n, m>>]) : accepted[<<n, m>>][i] = counted[<<n, m>>][i]

\* A packet that was counted and never reached the radio ends the link: nothing
\* counted after it is ever accepted, as nothing sends it again.
NothingPastAGap ==
  \A n \in Lasting, m \in Lasting \cap HmacEnabled : \A c \in 1 .. Len(counted[<<n, m>>]) :
    (\A p \in air : p.from = n /\ p.to = m => p.counter # c)
      => Len(accepted[<<n, m>>]) < c

\* A full peer table evicts nobody: a peer keeps its slot and its counters do not
\* go back, however many other nodes are heard or written to.
PeersKept ==
  [][\A n \in Lasting : \A i \in PeerSlots : peers[n].mac[i] # NoNode =>
       /\ peers'[n].mac[i] = peers[n].mac[i]
       /\ peers'[n].tx[i] >= peers[n].tx[i]
       /\ peers'[n].rx[i] >= peers[n].rx[i]]_vars
=============================================================================
