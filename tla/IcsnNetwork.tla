---------------------------- MODULE IcsnNetwork ----------------------------
(***************************************************************************)
(* A network of the nodes of Forwarder.  A link hands over the packets of  *)
(* one node to one neighbour in the order they were sent, which is what    *)
(* SecureLink guarantees of the packets it accepts; some links lose        *)
(* packets on the way.  Requests are typed in at a node with send_interest *)
(* and leave no trace in that node's own tables; readings are stored by    *)
(* the node that has the sensor.  No name is one of Forwarder's, so that   *)
(* ForwardingProofs can be about both.                                     *)
(***************************************************************************)
EXTENDS ForwardingOps, Sequences

CONSTANTS
  Links,         \* <<n, m>>: m is in range of n
  NextHopsOf,    \* the FIB of each node
  Requests,      \* <<n, m, x>>: the operator of n asks m for x
  Sensors,       \* <<n, x>>: n has the sensor of x
  Lossy,         \* the links that may lose packets
  MaxRequests    \* bound: how many requests are typed in

Nodes == Neighbours

ASSUME NetworkAssumption ==
  /\ Links \subseteq Nodes \X Nodes
  /\ \A l \in Links : <<l[2], l[1]>> \in Links
  /\ NextHopsOf \in [Nodes -> [Names -> SUBSET Nodes]]
  /\ \A n \in Nodes, x \in Names : \A m \in NextHopsOf[n][x] : <<n, m>> \in Links
  /\ Requests \subseteq Nodes \X Nodes \X Names
  /\ \A q \in Requests : <<q[1], q[2]>> \in Links
  /\ Sensors \subseteq Nodes \X Names
  /\ Lossy \subseteq Links /\ MaxRequests \in Nat

VARIABLES
  pits,       \* the PIT of each node
  stores,     \* the content store of each node
  link,       \* the packets on their way from one node to another
  requests,   \* how many requests have been typed in
  open        \* history, <<n, x>>: n asked for x when its sensor node had it, and has no Data yet

NetworkVars == <<pits, stores, link, requests, open>>

NetworkInit ==
  /\ pits = [n \in Nodes |-> EmptyCache]
  /\ stores = [n \in Nodes |-> [x \in Names |-> NoContent]]
  /\ link = [l \in Links |-> <<>>]
  /\ requests = 0
  /\ open = {}

\* The links once node n has sent a set of packets, at most one of them to each node.
Sent(ls, n, out) ==
  [l \in Links |->
     IF l[1] = n /\ \E p \in out : p.to = l[2]
     THEN Append(ls[l], CHOOSE p \in out : p.to = l[2]) ELSE ls[l]]

Available(x) == \E m \in Nodes : <<m, x>> \in Sensors /\ stores[m][x] # NoContent

Request(n, m, x) ==
  /\ <<n, m, x>> \in Requests
  /\ requests < MaxRequests
  /\ link' = Sent(link, n, {Interest(m, x, 1)})
  /\ requests' = requests + 1
  /\ open' = IF Available(x) THEN open \cup {<<n, x>>} ELSE open
  /\ UNCHANGED <<pits, stores>>

StoreReading(n, x, c, memory) ==
  /\ <<n, x>> \in Sensors
  /\ stores' = [stores EXCEPT ![n] = SaveContent(stores[n], x, c, memory)]
  /\ UNCHANGED <<pits, link, requests, open>>

\* Node m handles the next packet from n.
DeliverInterest(n, m) ==
  /\ link[<<n, m>>] # <<>>
  /\ LET p == Head(link[<<n, m>>])
     IN  /\ p.kind = "INTEREST"
         /\ pits' = [pits EXCEPT ![m] = PitAfterInterest(pits[m], stores[m], n, p.name, p.hop)]
         /\ link' = Sent([link EXCEPT ![<<n, m>>] = Tail(link[<<n, m>>])], m,
                         InterestOut(stores[m], n, p.name, p.hop, NextHopsOf[m][p.name]))
  /\ UNCHANGED <<stores, requests, open>>

DeliverData(n, m, memory) ==
  /\ link[<<n, m>>] # <<>>
  /\ LET p == Head(link[<<n, m>>])
     IN  /\ p.kind = "DATA"
         /\ pits' = [pits EXCEPT ![m] = PitAfterData(pits[m], p.name)]
         /\ stores' = [stores EXCEPT ![m] =
                         CsAfterData(pits[m], stores[m], p.name, p.content, memory)]
         /\ link' = Sent([link EXCEPT ![<<n, m>>] = Tail(link[<<n, m>>])], m,
                         DataOut(pits[m], p.name, p.hop, p.content))
         /\ open' = open \ {<<m, p.name>>}
  /\ UNCHANGED requests

Lose(n, m) ==
  /\ <<n, m>> \in Lossy /\ link[<<n, m>>] # <<>>
  /\ link' = [link EXCEPT ![<<n, m>>] = Tail(link[<<n, m>>])]
  /\ UNCHANGED <<pits, stores, requests, open>>

NetworkNext ==
  \/ \E n, m \in Nodes, x \in Names : Request(n, m, x)
  \/ \E n \in Nodes, x \in Names, c \in Contents, memory \in BOOLEAN :
       StoreReading(n, x, c, memory)
  \/ \E l \in Links : DeliverInterest(l[1], l[2])
  \/ \E l \in Links, memory \in BOOLEAN : DeliverData(l[1], l[2], memory)
  \/ \E l \in Links : Lose(l[1], l[2])

\* The radio task handles what has arrived: no packet stays in the air for ever.  This
\* is WF_link of handling or losing the next packet of l, spelled out to be cheap to
\* check: that action is enabled exactly when the link is not empty.
Leaves(l) == link[l] # <<>> /\ link'[l] = Tail(link[l])
Fairness == \A l \in Links : []<>(link[l] = <<>>) \/ []<><<Leaves(l)>>_link

NetworkSpec == NetworkInit /\ [][NetworkNext]_NetworkVars /\ Fairness

-----------------------------------------------------------------------------
(* Properties.                                                             *)

\* The tables of every node are well formed, and every packet in the air has a hop
\* count that fits its byte, next to the hop limit that stops Interests before.
NetworkTypeOK ==
  /\ pits \in [Nodes -> CacheType]
  /\ stores \in [Nodes -> [Names -> Contents \cup {NoContent}]]
  /\ link \in [Links -> Seq(Packets)]
  /\ requests \in 0 .. MaxRequests
  /\ open \subseteq Nodes \X Names

Quiet == \A l \in Links : link[l] = <<>>

\* Traffic dies out: whatever the FIBs say, cycles included, the Interests and the
\* Data that a number of requests set off come to an end.
TrafficEnds == <>[]Quiet

\* Where no link on the way loses packets, whoever asks for content that its sensor
\* node has gets the Data, also when several ask at once, their Interests meet on the
\* way, and copies of them go round in a cycle of next hops.
RequestsAreAnswered == \A n \in Nodes, x \in Names : <<n, x>> \in open ~> <<n, x>> \notin open

\* A node that has a content from elsewhere has nobody waiting for it: the Data that
\* brought the content was passed to all who waited, and later Interests are answered
\* from the store.  Only a node's own reading may find requesters waiting.
NobodyWaitsForStored ==
  \A m \in Nodes, x \in Names :
    Pending(pits[m], x) /\ stores[m][x] # NoContent => <<m, x>> \in Sensors
=============================================================================
